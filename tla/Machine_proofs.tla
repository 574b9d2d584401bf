--------------------------- MODULE Machine_proofs ---------------------------
(* What the machine of Machine promises for any number of harts, any slice,  *)
(* any programs and any debugger.  The inductive invariant is IndInv.        *)
EXTENDS Machine, TLAPS

-----------------------------------------------------------------------------
(* A hart as the code keeps it.                                              *)
Legal(r) ==
  /\ r \in Hart
  /\ ~r.mstatus.ie[PRV_U] /\ ~r.mstatus.ie[PRV_H]
  /\ r.debug => r.prv = PRV_M

(* set_csr(CSR_MSTATUS) writes mstatus and nothing else, and never the       *)
(* enables of U-mode and H-mode.                                             *)
LEMMA SetMstatus ==
  ASSUME NEW r, Legal(r), NEW val \in Status
  PROVE  LET s == set_mstatus(r, val) IN
         /\ Legal(s)
         /\ s = [r EXCEPT !.mstatus = s.mstatus]
         /\ s.mstatus.SPP = val.SPP /\ s.mstatus.MPP = val.MPP
         /\ s.mstatus.SPIE = val.SPIE /\ s.mstatus.MPIE = val.MPIE
         /\ s.mstatus.ie[PRV_S] = val.ie[PRV_S] /\ s.mstatus.ie[PRV_M] = val.ie[PRV_M]
<1> DEFINE ie == [p \in 0..3 |-> IF p \in {PRV_S, PRV_M} THEN val.ie[p] ELSE r.mstatus.ie[p]]
           m == [val EXCEPT !.ie = ie]
           s == set_mstatus(r, val)
<1>1. r \in Hart /\ r.mstatus \in Status
  BY DEF Legal, Hart
<1>2. ie \in [0..3 -> BOOLEAN]
  BY <1>1 DEF Status
<1>3. /\ ie[PRV_S] = val.ie[PRV_S] /\ ie[PRV_M] = val.ie[PRV_M]
      /\ ie[PRV_U] = r.mstatus.ie[PRV_U] /\ ie[PRV_H] = r.mstatus.ie[PRV_H]
  BY DEF PRV_S, PRV_M, PRV_U, PRV_H
<1> HIDE DEF ie
<1>4. /\ m \in Status /\ m.ie = ie
      /\ m.SPP = val.SPP /\ m.MPP = val.MPP
      /\ m.SPIE = val.SPIE /\ m.MPIE = val.MPIE
  BY <1>2 DEF Status
<1> HIDE DEF m
<1>5. s = [r EXCEPT !.mstatus = m]
  BY DEF set_mstatus, m, ie
<1> HIDE DEF s
<1>6. s \in Hart /\ s.mstatus = m /\ s.prv = r.prv /\ s.debug = r.debug
  BY <1>1, <1>4, <1>5 DEF Hart
<1>7. Legal(s)
  BY <1>3, <1>4, <1>6 DEF Legal
<1> QED BY <1>3, <1>4, <1>5, <1>6, <1>7 DEF s

(* What a step of a hart does not do whatever it executes: reserve, raise or *)
(* drop the interrupts of the devices, or leave Debug Mode.                  *)
Quiet(r, s) ==
  /\ s.load_reservation \in {r.load_reservation, NoReservation}
  /\ IRQ_M_TIMER \in s.mip <=> IRQ_M_TIMER \in r.mip
  /\ IRQ_M_SOFT \in s.mip <=> IRQ_M_SOFT \in r.mip
  /\ r.debug => s.debug

(* What GuestConfined says of a hart.                                        *)
Confined(r, s) ==
  r.prv < PRV_M /\ s.prv < PRV_M =>
    /\ s.mie \ r.mideleg = r.mie \ r.mideleg
    /\ s.mideleg = r.mideleg /\ s.medeleg = r.medeleg
    /\ s.mstatus.MPP = r.mstatus.MPP /\ s.mstatus.MPIE = r.mstatus.MPIE
    /\ s.mstatus.ie[PRV_M] = r.mstatus.ie[PRV_M]

(* set_privilege never leaves a hart in H-mode.                              *)
LEMMA SetPrivilege ==
  ASSUME NEW r, Legal(r), ~r.debug, NEW prv \in 0..3
  PROVE  /\ Legal(set_privilege(r, prv))
         /\ set_privilege(r, prv) = [r EXCEPT !.prv = IF prv = PRV_H THEN PRV_U ELSE prv]
<1> DEFINE q == IF prv = PRV_H THEN PRV_U ELSE prv
<1>1. q \in {PRV_U, PRV_S, PRV_M}
  BY DEF PRV_U, PRV_S, PRV_H, PRV_M
<1>2. set_privilege(r, prv) = [r EXCEPT !.prv = q]
  BY DEF set_privilege
<1> HIDE DEF q
<1>3. Legal([r EXCEPT !.prv = q])
  BY <1>1 DEF Legal, Hart
<1> QED BY <1>2, <1>3 DEF q

(* A trap to M-mode saves the mode and its enable in MPP and MPIE.           *)
LEMMA TrapToM ==
  ASSUME NEW r, Legal(r), ~r.debug
  PROVE  LET s == trap_to_m(r) IN
         /\ Legal(s) /\ Quiet(r, s) /\ ~s.debug
         /\ s.prv = PRV_M
         /\ s.mstatus.MPP = r.prv /\ s.mstatus.MPIE = r.mstatus.ie[r.prv]
         /\ s.mstatus.SPP = r.mstatus.SPP /\ s.mstatus.SPIE = r.mstatus.SPIE
<1> DEFINE val == [r.mstatus EXCEPT !.MPIE = r.mstatus.ie[r.prv],
                                    !.MPP = r.prv, !.ie[PRV_M] = FALSE]
           m == set_mstatus(r, val)
           s == trap_to_m(r)
<1>1. r \in Hart /\ r.mstatus \in Status /\ r.prv \in 0..3
  BY DEF Legal, Hart, PRV_U, PRV_S, PRV_M
<1>2. /\ val \in Status
      /\ val.MPIE = r.mstatus.ie[r.prv] /\ val.MPP = r.prv
      /\ val.SPP = r.mstatus.SPP /\ val.SPIE = r.mstatus.SPIE
  BY <1>1 DEF Status, PRV_M
<1> HIDE DEF val
<1>3. /\ Legal(m) /\ m = [r EXCEPT !.mstatus = m.mstatus]
      /\ m.mstatus.SPP = val.SPP /\ m.mstatus.MPP = val.MPP
      /\ m.mstatus.SPIE = val.SPIE /\ m.mstatus.MPIE = val.MPIE
  BY <1>2, SetMstatus
<1> HIDE DEF m
<1>4. ~m.debug /\ PRV_M \in 0..3 /\ PRV_M # PRV_H
  BY <1>1, <1>3 DEF Hart, PRV_M, PRV_H
<1>5. s = set_privilege(m, PRV_M)
  BY DEF trap_to_m, m, val
<1>6. Legal(s) /\ s = [m EXCEPT !.prv = PRV_M]
  BY <1>3, <1>4, <1>5, SetPrivilege
<1> HIDE DEF s
<1>7. m \in Hart
  BY <1>3 DEF Legal
<1>8. s.prv = PRV_M /\ s.mstatus = m.mstatus /\ ~s.debug
  BY <1>4, <1>6, <1>7 DEF Hart
<1>9. Quiet(r, s)
  BY <1>1, <1>3, <1>6, <1>7 DEF Hart, Quiet
<1> QED BY <1>2, <1>3, <1>6, <1>8, <1>9 DEF s

(* A trap to S-mode does the same with SPP and SPIE, and leaves what belongs *)
(* to M-mode alone.                                                          *)
LEMMA TrapToS ==
  ASSUME NEW r, Legal(r), ~r.debug, r.prv <= PRV_S
  PROVE  LET s == trap_to_s(r) IN
         /\ Legal(s) /\ Quiet(r, s) /\ ~s.debug
         /\ Confined(r, s)
         /\ s.prv = PRV_S
         /\ s.mstatus.SPP = r.prv /\ s.mstatus.SPIE = r.mstatus.ie[r.prv]
         /\ s.mstatus.MPP = r.mstatus.MPP /\ s.mstatus.MPIE = r.mstatus.MPIE
<1> DEFINE val == [r.mstatus EXCEPT !.SPIE = r.mstatus.ie[r.prv],
                                    !.SPP = r.prv, !.ie[PRV_S] = FALSE]
           m == set_mstatus(r, val)
           s == trap_to_s(r)
<1>1. r \in Hart /\ r.mstatus \in Status /\ r.prv \in 0..3 /\ r.prv \in {PRV_U, PRV_S}
  BY DEF Legal, Hart, PRV_U, PRV_S, PRV_M
<1>2. /\ val \in Status
      /\ val.SPIE = r.mstatus.ie[r.prv] /\ val.SPP = r.prv
      /\ val.MPP = r.mstatus.MPP /\ val.MPIE = r.mstatus.MPIE
      /\ val.ie[PRV_M] = r.mstatus.ie[PRV_M]
  <2> DEFINE ie == [r.mstatus.ie EXCEPT ![PRV_S] = FALSE]
  <2>1. ie \in [0..3 -> BOOLEAN] /\ ie[PRV_M] = r.mstatus.ie[PRV_M]
    BY <1>1 DEF Status, PRV_S, PRV_M
  <2>2. r.mstatus.ie[r.prv] \in BOOLEAN
    BY <1>1 DEF Status
  <2>3. val = [r.mstatus EXCEPT !.SPIE = r.mstatus.ie[r.prv], !.SPP = r.prv, !.ie = ie]
    BY <1>1 DEF Status
  <2> HIDE DEF ie, val
  <2> QED BY <1>1, <2>1, <2>2, <2>3 DEF Status
<1> HIDE DEF val
<1>3. /\ Legal(m) /\ m = [r EXCEPT !.mstatus = m.mstatus]
      /\ m.mstatus.SPP = val.SPP /\ m.mstatus.MPP = val.MPP
      /\ m.mstatus.SPIE = val.SPIE /\ m.mstatus.MPIE = val.MPIE
      /\ m.mstatus.ie[PRV_M] = val.ie[PRV_M]
  BY <1>2, SetMstatus
<1> HIDE DEF m
<1>4. ~m.debug /\ PRV_S \in 0..3 /\ PRV_S # PRV_H
  BY <1>1, <1>3 DEF Hart, PRV_S, PRV_H
<1>5. s = set_privilege(m, PRV_S)
  BY DEF trap_to_s, m, val
<1>6. Legal(s) /\ s = [m EXCEPT !.prv = PRV_S]
  BY <1>3, <1>4, <1>5, SetPrivilege
<1> HIDE DEF s
<1>7. m \in Hart
  BY <1>3 DEF Legal
<1>8. s.prv = PRV_S /\ s.mstatus = m.mstatus /\ ~s.debug
  BY <1>4, <1>6, <1>7 DEF Hart
<1>9. Quiet(r, s)
  BY <1>1, <1>3, <1>6, <1>7 DEF Hart, Quiet
<1>10. s.mie = r.mie /\ s.mideleg = r.mideleg /\ s.medeleg = r.medeleg
  BY <1>1, <1>3, <1>6, <1>7 DEF Hart
<1>11. Confined(r, s)
  BY <1>2, <1>3, <1>8, <1>10 DEF Confined
<1> QED BY <1>2, <1>3, <1>6, <1>8, <1>9, <1>11 DEF s

(* What a trap leaves in mstatus: nothing new if it ends in Debug Mode, and  *)
(* the interrupted mode and its enable at the level that takes it otherwise. *)
SavedAt(r, s) ==
  \/ (s.debug \/ r.debug) /\ s.mstatus = r.mstatus
  \/ /\ ~s.debug /\ ~r.debug /\ s.prv = PRV_M
     /\ s.mstatus.MPP = r.prv /\ s.mstatus.MPIE = r.mstatus.ie[r.prv]
     /\ s.mstatus.SPP = r.mstatus.SPP /\ s.mstatus.SPIE = r.mstatus.SPIE
  \/ /\ ~s.debug /\ ~r.debug /\ s.prv = PRV_S
     /\ s.mstatus.SPP = r.prv /\ s.mstatus.SPIE = r.mstatus.ie[r.prv]
     /\ s.mstatus.MPP = r.mstatus.MPP /\ s.mstatus.MPIE = r.mstatus.MPIE

(* yield_load_reservation changes nothing else.                              *)
LEMMA Yield ==
  ASSUME NEW r, Legal(r)
  PROVE  LET s == yield_load_reservation(r) IN
         /\ Legal(s) /\ Quiet(r, s)
         /\ s.load_reservation = NoReservation
         /\ s.prv = r.prv /\ s.mstatus = r.mstatus /\ (s.debug = r.debug)
         /\ s.mie = r.mie /\ s.mip = r.mip
         /\ s.mideleg = r.mideleg /\ s.medeleg = r.medeleg
<1> DEFINE s == yield_load_reservation(r)
<1>1. r \in Hart
  BY DEF Legal
<1>2. s = [r EXCEPT !.load_reservation = NoReservation]
  BY DEF yield_load_reservation
<1> HIDE DEF s
<1>3. /\ s \in Hart /\ s.load_reservation = NoReservation
      /\ s.prv = r.prv /\ s.mstatus = r.mstatus /\ (s.debug = r.debug)
      /\ s.mie = r.mie /\ s.mip = r.mip
      /\ s.mideleg = r.mideleg /\ s.medeleg = r.medeleg
  BY <1>1, <1>2 DEF Hart
<1> QED BY <1>3 DEF s, Legal, Quiet

(* enter_debug_mode keeps mstatus and the reservation.                       *)
LEMMA EnterDebug ==
  ASSUME NEW r, Legal(r)
  PROVE  LET s == enter_debug_mode(r) IN
         /\ Legal(s) /\ Quiet(r, s)
         /\ s.debug /\ s.prv = PRV_M /\ s.mstatus = r.mstatus
         /\ s.load_reservation = r.load_reservation /\ s.mip = r.mip
<1> DEFINE s == enter_debug_mode(r)
<1>1. r \in Hart
  BY DEF Legal
<1>2. s = [[r EXCEPT !.prv = PRV_M] EXCEPT !.debug = TRUE, !.dprv = r.prv]
  BY DEF enter_debug_mode, set_privilege, PRV_M, PRV_H
<1> HIDE DEF s
<1>3. /\ s \in Hart /\ s.load_reservation = r.load_reservation
      /\ s.prv = PRV_M /\ s.mstatus = r.mstatus /\ s.debug /\ s.mip = r.mip
  BY <1>1, <1>2 DEF Hart
<1> QED BY <1>3 DEF s, Legal, Quiet

(* take_trap, wherever it leads.                                             *)
LEMMA TakeTrap ==
  ASSUME NEW r, Legal(r), NEW interrupt \in BOOLEAN, NEW cause
  PROVE  LET s == take_trap(r, interrupt, cause) IN
         Legal(s) /\ Quiet(r, s) /\ Confined(r, s) /\ SavedAt(r, s)
<1> DEFINE s == take_trap(r, interrupt, cause)
           toDebug == ~interrupt /\ cause = CAUSE_BREAKPOINT /\ r.ebreak
<1>1. CASE toDebug
  <2>1. s = enter_debug_mode(r)
    BY <1>1 DEF take_trap
  <2>2. Legal(s) /\ Quiet(r, s) /\ s.debug /\ s.prv = PRV_M /\ s.mstatus = r.mstatus
    BY <2>1, EnterDebug
  <2> HIDE DEF s
  <2> QED BY <2>2 DEF Confined, SavedAt, s, PRV_M
<1>2. CASE ~toDebug /\ r.debug
  <2>1. s = r
    BY <1>2, Zenon DEF take_trap
  <2> HIDE DEF s
  <2> QED BY <1>2, <2>1 DEF Quiet, Confined, SavedAt, s
<1>3. CASE ~toDebug /\ ~r.debug /\ Delegated(r, interrupt, cause)
  <2> DEFINE t == trap_to_s(r)
  <2>1. s = yield_load_reservation(t)
    BY <1>3 DEF take_trap
  <2>2. r.prv <= PRV_S
    BY <1>3 DEF Delegated
  <2>3. /\ Legal(t) /\ Quiet(r, t) /\ ~t.debug /\ Confined(r, t) /\ t.prv = PRV_S
        /\ t.mstatus.SPP = r.prv /\ t.mstatus.SPIE = r.mstatus.ie[r.prv]
        /\ t.mstatus.MPP = r.mstatus.MPP /\ t.mstatus.MPIE = r.mstatus.MPIE
    BY <1>3, <2>2, TrapToS
  <2> HIDE DEF t
  <2>4. /\ Legal(s) /\ Quiet(t, s)
        /\ s.load_reservation = NoReservation
        /\ s.prv = t.prv /\ s.mstatus = t.mstatus /\ (s.debug = t.debug)
        /\ s.mie = t.mie /\ s.mip = t.mip
        /\ s.mideleg = t.mideleg /\ s.medeleg = t.medeleg
    BY <2>1, <2>3, Yield
  <2> HIDE DEF s
  <2>5. Quiet(r, s)
    BY <1>3, <2>3, <2>4 DEF Quiet
  <2>6. Confined(r, s)
    BY <2>3, <2>4 DEF Confined
  <2>7. SavedAt(r, s)
    BY <1>3, <2>3, <2>4 DEF SavedAt
  <2> QED BY <2>4, <2>5, <2>6, <2>7 DEF s
<1>4. CASE ~toDebug /\ ~r.debug /\ ~Delegated(r, interrupt, cause)
  <2> DEFINE t == trap_to_m(r)
  <2>1. s = yield_load_reservation(t)
    BY <1>4 DEF take_trap
  <2>2. /\ Legal(t) /\ Quiet(r, t) /\ ~t.debug /\ t.prv = PRV_M
        /\ t.mstatus.MPP = r.prv /\ t.mstatus.MPIE = r.mstatus.ie[r.prv]
        /\ t.mstatus.SPP = r.mstatus.SPP /\ t.mstatus.SPIE = r.mstatus.SPIE
    BY <1>4, TrapToM
  <2> HIDE DEF t
  <2>3. /\ Legal(s) /\ Quiet(t, s)
        /\ s.load_reservation = NoReservation
        /\ s.prv = t.prv /\ s.mstatus = t.mstatus /\ (s.debug = t.debug) /\ s.mip = t.mip
    BY <2>1, <2>2, Yield
  <2> HIDE DEF s
  <2>4. Quiet(r, s)
    BY <1>4, <2>2, <2>3 DEF Quiet
  <2>5. Confined(r, s)
    BY <2>2, <2>3 DEF Confined, PRV_M
  <2>6. SavedAt(r, s)
    BY <1>4, <2>2, <2>3 DEF SavedAt
  <2> QED BY <2>3, <2>4, <2>5, <2>6 DEF s
<1> QED BY <1>1, <1>2, <1>3, <1>4

-----------------------------------------------------------------------------
(* set_csr on a hart that has the privilege for it.  The masks keep the      *)
(* timer interrupt out of the program's reach, and sie out of what is not    *)
(* delegated.                                                                *)
LEMMA SetCsr ==
  ASSUME NEW r, Legal(r), NEW csr \in csrs, NEW val,
         csr \in {"mstatus", "sstatus"} => val \in Status, r.prv >= csr_priv(csr)
  PROVE  LET s == set_csr(r, csr, val) IN
         /\ Legal(s) /\ Quiet(r, s) /\ Confined(r, s)
         /\ s.debug = r.debug /\ s.load_reservation = r.load_reservation
         /\ csr \notin {"mstatus", "sstatus"} => s.mstatus = r.mstatus
<1> DEFINE s == set_csr(r, csr, val)
<1>1. r \in Hart /\ r.mstatus \in Status
  BY DEF Legal, Hart
<1>2. CASE csr = "mstatus"
  <2>1. s = set_mstatus(r, val)
    BY <1>2 DEF set_csr
  <2>2. Legal(s) /\ s = [r EXCEPT !.mstatus = s.mstatus]
    BY <1>2, <2>1, SetMstatus
  <2> HIDE DEF s
  <2>3. /\ s.debug = r.debug /\ s.load_reservation = r.load_reservation
        /\ s.mip = r.mip /\ s.prv = r.prv
    BY <1>1, <2>2 DEF Hart
  <2>4. ~(r.prv < PRV_M)
    BY <1>1, <1>2 DEF csr_priv, Hart, PRV_U, PRV_S, PRV_M
  <2> QED BY <1>2, <2>2, <2>3, <2>4 DEF Quiet, Confined, s
<1>3. CASE csr = "sstatus"
  <2> DEFINE v == [r.mstatus EXCEPT !.ie[PRV_S] = val.ie[PRV_S],
                                    !.SPIE = val.SPIE, !.SPP = val.SPP]
  <2>1. s = set_mstatus(r, v)
    BY <1>3 DEF set_csr
  <2>2. /\ v \in Status
        /\ v.MPP = r.mstatus.MPP /\ v.MPIE = r.mstatus.MPIE
        /\ v.ie[PRV_M] = r.mstatus.ie[PRV_M]
    <3> DEFINE ie == [r.mstatus.ie EXCEPT ![PRV_S] = val.ie[PRV_S]]
    <3>1. val \in Status
      BY <1>3
    <3>2. ie \in [0..3 -> BOOLEAN] /\ ie[PRV_M] = r.mstatus.ie[PRV_M]
      BY <1>1, <3>1 DEF Status, PRV_S, PRV_M
    <3>3. v = [r.mstatus EXCEPT !.ie = ie, !.SPIE = val.SPIE, !.SPP = val.SPP]
      BY <1>1 DEF Status
    <3> HIDE DEF ie, v
    <3> QED BY <1>1, <3>1, <3>2, <3>3 DEF Status
  <2> HIDE DEF v
  <2>3. /\ Legal(s) /\ s = [r EXCEPT !.mstatus = s.mstatus]
        /\ s.mstatus.MPP = r.mstatus.MPP /\ s.mstatus.MPIE = r.mstatus.MPIE
        /\ s.mstatus.ie[PRV_M] = r.mstatus.ie[PRV_M]
    BY <2>1, <2>2, SetMstatus
  <2> HIDE DEF s
  <2>4. /\ s.debug = r.debug /\ s.load_reservation = r.load_reservation
        /\ s.mip = r.mip /\ s.prv = r.prv /\ s.mie = r.mie
        /\ s.mideleg = r.mideleg /\ s.medeleg = r.medeleg
    BY <1>1, <2>3 DEF Hart
  <2> QED BY <1>3, <2>3, <2>4 DEF Quiet, Confined, s
<1>4. ASSUME NEW mask, mask \subseteq all_ints, IRQ_M_TIMER \notin mask, IRQ_M_SOFT \notin mask,
             s = [r EXCEPT !.mip = Masked(@, mask, val)]
      PROVE  /\ Legal(s) /\ Quiet(r, s) /\ Confined(r, s)
             /\ s.debug = r.debug /\ s.load_reservation = r.load_reservation
             /\ s.mstatus = r.mstatus
  <2> HIDE DEF s
  <2>1. Masked(r.mip, mask, val) \subseteq all_ints
    BY <1>1, <1>4 DEF Masked, Hart
  <2>2. /\ IRQ_M_TIMER \in Masked(r.mip, mask, val) <=> IRQ_M_TIMER \in r.mip
        /\ IRQ_M_SOFT \in Masked(r.mip, mask, val) <=> IRQ_M_SOFT \in r.mip
    BY <1>4 DEF Masked
  <2>3. /\ s \in Hart /\ s.mip = Masked(r.mip, mask, val)
        /\ s.debug = r.debug /\ s.load_reservation = r.load_reservation
        /\ s.mstatus = r.mstatus /\ s.prv = r.prv
        /\ s.mideleg = r.mideleg /\ s.medeleg = r.medeleg /\ s.mie = r.mie
    BY <1>1, <1>4, <2>1 DEF Hart
  <2> QED BY <2>2, <2>3 DEF Legal, Quiet, Confined
<1>5. CASE csr = "mip"
  <2>1. s = [r EXCEPT !.mip = Masked(@, {IRQ_S_SOFT, IRQ_S_TIMER}, val)]
    BY <1>5 DEF set_csr
  <2>2. /\ {IRQ_S_SOFT, IRQ_S_TIMER} \subseteq all_ints
        /\ IRQ_M_TIMER \notin {IRQ_S_SOFT, IRQ_S_TIMER}
        /\ IRQ_M_SOFT \notin {IRQ_S_SOFT, IRQ_S_TIMER}
    BY DEF all_ints, delegable_ints, IRQ_M_TIMER, IRQ_M_SOFT, IRQ_S_SOFT, IRQ_S_TIMER
  <2> HIDE DEF s
  <2> QED BY <1>4, <2>1, <2>2 DEF s
<1>6. CASE csr = "sip"
  <2>1. s = [r EXCEPT !.mip = Masked(@, {IRQ_S_SOFT} \cap r.mideleg, val)]
    BY <1>6 DEF set_csr
  <2>2. /\ {IRQ_S_SOFT} \cap r.mideleg \subseteq all_ints
        /\ IRQ_M_TIMER \notin {IRQ_S_SOFT} \cap r.mideleg
        /\ IRQ_M_SOFT \notin {IRQ_S_SOFT} \cap r.mideleg
    BY DEF all_ints, delegable_ints, IRQ_M_TIMER, IRQ_M_SOFT, IRQ_S_SOFT
  <2> HIDE DEF s
  <2> QED BY <1>4, <2>1, <2>2 DEF s
<1>7. CASE csr = "mie"
  <2>1. s = [r EXCEPT !.mie = Masked(@, all_ints, val)]
    BY <1>7 DEF set_csr
  <2>2. Masked(r.mie, all_ints, val) \subseteq all_ints
    BY <1>1 DEF Masked, Hart
  <2> HIDE DEF s
  <2>3. /\ s \in Hart /\ s.mip = r.mip
        /\ s.debug = r.debug /\ s.load_reservation = r.load_reservation
        /\ s.mstatus = r.mstatus /\ s.prv = r.prv
    BY <1>1, <2>1, <2>2 DEF Hart
  <2>4. ~(r.prv < PRV_M)
    BY <1>1, <1>7 DEF csr_priv, Hart, PRV_U, PRV_S, PRV_M
  <2> QED BY <2>3, <2>4 DEF Legal, Quiet, Confined, s
<1>8. CASE csr = "sie"
  <2>1. s = [r EXCEPT !.mie = Masked(@, r.mideleg, val)]
    BY <1>8 DEF set_csr
  <2>2. /\ Masked(r.mie, r.mideleg, val) \subseteq all_ints
        /\ Masked(r.mie, r.mideleg, val) \ r.mideleg = r.mie \ r.mideleg
    BY <1>1 DEF Masked, Hart, all_ints
  <2> HIDE DEF s
  <2>3. /\ s \in Hart /\ s.mip = r.mip /\ s.mie = Masked(r.mie, r.mideleg, val)
        /\ s.debug = r.debug /\ s.load_reservation = r.load_reservation
        /\ s.mstatus = r.mstatus /\ s.prv = r.prv
        /\ s.mideleg = r.mideleg /\ s.medeleg = r.medeleg
    BY <1>1, <2>1, <2>2 DEF Hart
  <2> QED BY <2>2, <2>3 DEF Legal, Quiet, Confined, s
<1>9. CASE csr = "mideleg"
  <2>1. s = [r EXCEPT !.mideleg = Masked(@, delegable_ints, val)]
    BY <1>9 DEF set_csr
  <2>2. Masked(r.mideleg, delegable_ints, val) \subseteq delegable_ints
    BY <1>1 DEF Masked, Hart
  <2> HIDE DEF s
  <2>3. /\ s \in Hart /\ s.mip = r.mip
        /\ s.debug = r.debug /\ s.load_reservation = r.load_reservation
        /\ s.mstatus = r.mstatus /\ s.prv = r.prv
    BY <1>1, <2>1, <2>2 DEF Hart
  <2>4. ~(r.prv < PRV_M)
    BY <1>1, <1>9 DEF csr_priv, Hart, PRV_U, PRV_S, PRV_M
  <2> QED BY <2>3, <2>4 DEF Legal, Quiet, Confined, s
<1>10. CASE csr = "medeleg"
  <2>1. s = [r EXCEPT !.medeleg = Masked(@, causes, val)]
    BY <1>10 DEF set_csr
  <2>2. Masked(r.medeleg, causes, val) \subseteq causes
    BY <1>1 DEF Masked, Hart
  <2> HIDE DEF s
  <2>3. /\ s \in Hart /\ s.mip = r.mip
        /\ s.debug = r.debug /\ s.load_reservation = r.load_reservation
        /\ s.mstatus = r.mstatus /\ s.prv = r.prv
    BY <1>1, <2>1, <2>2 DEF Hart
  <2>4. ~(r.prv < PRV_M)
    BY <1>1, <1>10 DEF csr_priv, Hart, PRV_U, PRV_S, PRV_M
  <2> QED BY <2>3, <2>4 DEF Legal, Quiet, Confined, s
<1> HIDE DEF s
<1> QED BY <1>2, <1>3, <1>5, <1>6, <1>7, <1>8, <1>9, <1>10 DEF csrs, s

-----------------------------------------------------------------------------
(* mret: the mode in MPP, with the enable in MPIE.                           *)
LEMMA ReturnM ==
  ASSUME NEW r, Legal(r), ~r.debug, r.prv = PRV_M
  PROVE  LET s == return_m(r) IN
         /\ Legal(s) /\ Quiet(r, s) /\ Confined(r, s) /\ ~s.debug
         /\ s.load_reservation = r.load_reservation
         /\ s.prv = IF r.mstatus.MPP = PRV_H THEN PRV_U ELSE r.mstatus.MPP
         /\ r.mstatus.MPP \in {PRV_S, PRV_M} => s.mstatus.ie[r.mstatus.MPP] = r.mstatus.MPIE
         /\ s.mstatus.SPP = r.mstatus.SPP /\ s.mstatus.SPIE = r.mstatus.SPIE
<1> DEFINE mpp == r.mstatus.MPP
           q == set_privilege(r, mpp)
           ie == [r.mstatus.ie EXCEPT ![mpp] = r.mstatus.MPIE]
           val == [r.mstatus EXCEPT !.ie[mpp] = r.mstatus.MPIE, !.MPIE = FALSE, !.MPP = PRV_U]
           s == return_m(r)
<1>1. r \in Hart /\ r.mstatus \in Status /\ mpp \in 0..3
  BY DEF Legal, Hart, Status
<1>2. ie \in [0..3 -> BOOLEAN] /\ ie[mpp] = r.mstatus.MPIE
  BY <1>1 DEF Status
<1>3. val \in Status /\ val.ie = ie /\ val.SPP = r.mstatus.SPP /\ val.SPIE = r.mstatus.SPIE
  <2>1. val = [r.mstatus EXCEPT !.ie = ie, !.MPIE = FALSE, !.MPP = PRV_U]
    BY <1>1 DEF Status
  <2>2. PRV_U \in 0..3
    BY DEF PRV_U
  <2> HIDE DEF val, ie, mpp
  <2> QED BY <1>1, <1>2, <2>1, <2>2 DEF Status
<1>4. s = set_mstatus(q, val)
  BY DEF return_m
<1>5. Legal(q) /\ q = [r EXCEPT !.prv = IF mpp = PRV_H THEN PRV_U ELSE mpp]
  BY <1>1, SetPrivilege
<1> HIDE DEF q, val, ie, s
<1>6. /\ Legal(s) /\ s = [q EXCEPT !.mstatus = s.mstatus]
      /\ s.mstatus.SPP = val.SPP /\ s.mstatus.SPIE = val.SPIE
      /\ s.mstatus.ie[PRV_S] = val.ie[PRV_S] /\ s.mstatus.ie[PRV_M] = val.ie[PRV_M]
  <2>1. Legal(q) /\ val \in Status
    BY <1>3, <1>5
  <2> QED BY <1>4, <2>1, SetMstatus
<1>7. q \in Hart
  BY <1>5 DEF Legal
<1>8. /\ s.prv = IF mpp = PRV_H THEN PRV_U ELSE mpp
      /\ s.debug = r.debug /\ s.load_reservation = r.load_reservation /\ s.mip = r.mip
  BY <1>1, <1>5, <1>6, <1>7 DEF Hart
<1>9. mpp \in {PRV_S, PRV_M} => s.mstatus.ie[mpp] = r.mstatus.MPIE
  BY <1>2, <1>3, <1>6
<1>10. Quiet(r, s) /\ Confined(r, s)
  BY <1>8 DEF Quiet, Confined, PRV_M
<1> QED BY <1>3, <1>6, <1>8, <1>9, <1>10 DEF s

(* sret: the mode in SPP, with the enable in SPIE, and nothing of M-mode.    *)
LEMMA ReturnS ==
  ASSUME NEW r, Legal(r), ~r.debug
  PROVE  LET s == return_s(r) IN
         /\ Legal(s) /\ Quiet(r, s) /\ Confined(r, s) /\ ~s.debug
         /\ s.load_reservation = r.load_reservation
         /\ s.prv = r.mstatus.SPP
         /\ r.mstatus.SPP = PRV_S => s.mstatus.ie[PRV_S] = r.mstatus.SPIE
         /\ s.mstatus.MPP = r.mstatus.MPP /\ s.mstatus.MPIE = r.mstatus.MPIE
<1> DEFINE spp == r.mstatus.SPP
           q == set_privilege(r, spp)
           ie == [r.mstatus.ie EXCEPT ![spp] = r.mstatus.SPIE]
           val == [r.mstatus EXCEPT !.ie[spp] = r.mstatus.SPIE, !.SPIE = FALSE, !.SPP = PRV_U]
           s == return_s(r)
<1>1. r \in Hart /\ r.mstatus \in Status /\ spp \in {PRV_U, PRV_S}
  BY DEF Legal, Hart, Status
<1>2. /\ ie \in [0..3 -> BOOLEAN] /\ ie[spp] = r.mstatus.SPIE
      /\ ie[PRV_M] = r.mstatus.ie[PRV_M]
  BY <1>1 DEF Status, PRV_U, PRV_S, PRV_M
<1>3. val \in Status /\ val.ie = ie /\ val.MPP = r.mstatus.MPP /\ val.MPIE = r.mstatus.MPIE
  <2>1. val = [r.mstatus EXCEPT !.ie = ie, !.SPIE = FALSE, !.SPP = PRV_U]
    BY <1>1 DEF Status
  <2> HIDE DEF val, ie
  <2> QED BY <1>1, <1>2, <2>1 DEF Status, PRV_U
<1>4. s = set_mstatus(q, val)
  BY DEF return_s
<1>5. Legal(q) /\ q = [r EXCEPT !.prv = spp]
  <2>1. spp \in 0..3 /\ spp # PRV_H
    BY <1>1 DEF PRV_U, PRV_S, PRV_H
  <2> HIDE DEF spp
  <2> QED BY <2>1, SetPrivilege
<1> HIDE DEF q, val, ie, s
<1>6. /\ Legal(s) /\ s = [q EXCEPT !.mstatus = s.mstatus]
      /\ s.mstatus.MPP = val.MPP /\ s.mstatus.MPIE = val.MPIE
      /\ s.mstatus.ie[PRV_S] = val.ie[PRV_S] /\ s.mstatus.ie[PRV_M] = val.ie[PRV_M]
  <2>1. Legal(q) /\ val \in Status
    BY <1>3, <1>5
  <2> QED BY <1>4, <2>1, SetMstatus
<1>7. q \in Hart
  BY <1>5 DEF Legal
<1>8. /\ s.prv = spp
      /\ s.debug = r.debug /\ s.load_reservation = r.load_reservation /\ s.mip = r.mip
      /\ s.mie = r.mie /\ s.mideleg = r.mideleg /\ s.medeleg = r.medeleg
  BY <1>1, <1>5, <1>6, <1>7 DEF Hart
<1>9. spp = PRV_S => s.mstatus.ie[PRV_S] = r.mstatus.SPIE
  BY <1>2, <1>3, <1>6
<1>10. Quiet(r, s) /\ Confined(r, s)
  BY <1>2, <1>3, <1>6, <1>8 DEF Quiet, Confined
<1> QED BY <1>3, <1>6, <1>8, <1>9, <1>10 DEF s

-----------------------------------------------------------------------------
(* The history of the traps.  Saved looks at mstatus only.                   *)
LEMMA StackSame ==
  ASSUME NEW r, NEW s, s.mstatus = r.mstatus, NEW fs, Stack(r, fs)
  PROVE  Stack(s, fs)
BY DEF Stack, Saved

LEMMA StackSeq ==
  ASSUME NEW r, NEW fs, Stack(r, fs)
  PROVE  fs \in Seq(Frame)
<1>1. <<>> \in Seq(Frame)
  OBVIOUS
<1>2. \A f \in Frame : <<f>> \in Seq(Frame)
  OBVIOUS
<1>3. \A f, g \in Frame : <<f, g>> \in Seq(Frame)
  OBVIOUS
<1> QED BY <1>1, <1>2, <1>3, Zenon DEF Stack

(* A trap keeps what the trap of the other level has saved.                  *)
LEMMA StackPushed ==
  ASSUME NEW r, Legal(r), NEW s, Legal(s), SavedAt(r, s), NEW fs, Stack(r, fs)
  PROVE  Stack(s, Pushed(fs, r, s))
<1> DEFINE h == [level |-> s.prv, prv |-> r.prv, ie |-> r.mstatus.ie[r.prv]]
<1>1. r \in Hart /\ r.mstatus \in Status /\ r.prv \in {PRV_U, PRV_S, PRV_M}
  BY DEF Legal, Hart
<1>2. CASE s.debug \/ r.debug
  <2>1. Pushed(fs, r, s) = fs
    BY <1>2 DEF Pushed
  <2>2. s.mstatus = r.mstatus
    BY <1>2 DEF SavedAt
  <2> QED BY <2>1, <2>2, StackSame
<1>3. CASE ~(s.debug \/ r.debug)
  <2>1. r.mstatus.ie[r.prv] \in BOOLEAN /\ s.prv \in {PRV_S, PRV_M}
    BY <1>1, <1>3 DEF SavedAt, Status, PRV_U, PRV_S, PRV_M
  <2>2. h \in Frame /\ h.level = s.prv /\ h.prv = r.prv
    BY <1>1, <2>1 DEF Frame
  <2>3. h.ie = r.mstatus.ie[r.prv]
    OBVIOUS
  <2> HIDE DEF h
  <2>4. Saved(s, h)
    <3>1. h.prv = PRV_U => ~h.ie
      BY <2>2, <2>3 DEF Legal
    <3> QED BY <1>3, <2>2, <2>3, <3>1 DEF Saved, SavedAt, PRV_S, PRV_M
  <2>5. \A f \in Frame : Saved(r, f) /\ f.level # s.prv => Saved(s, f)
    BY <1>3 DEF Saved, SavedAt, Frame, PRV_S, PRV_M
  <2>6. CASE \E i \in DOMAIN fs : fs[i].level # s.prv
    <3> DEFINE j == CHOOSE i \in DOMAIN fs : fs[i].level # s.prv
    <3>1. j \in DOMAIN fs /\ fs[j].level # s.prv
      BY <2>6
    <3>2. Pushed(fs, r, s) = <<h, fs[j]>>
      BY <1>3, <2>6 DEF Pushed, h
    <3> HIDE DEF j
    <3>3. fs[j] \in Frame /\ Saved(r, fs[j])
      BY <3>1 DEF Stack
    <3>4. Saved(s, fs[j]) /\ h.level # fs[j].level
      BY <2>2, <2>5, <3>1, <3>3
    <3> QED BY <2>2, <2>4, <3>2, <3>3, <3>4 DEF Stack
  <2>7. CASE ~\E i \in DOMAIN fs : fs[i].level # s.prv
    <3>1. Pushed(fs, r, s) = <<h>>
      BY <1>3, <2>7 DEF Pushed, h
    <3> QED BY <2>2, <2>4, <3>1 DEF Stack
  <2> QED BY <2>6, <2>7
<1> QED BY <1>2, <1>3

(* A return takes the frames of its own level away.                          *)
LEMMA StackPopped ==
  ASSUME NEW r, NEW s, NEW level \in {PRV_S, PRV_M}, NEW fs, Stack(r, fs),
         level = PRV_M => /\ s.mstatus.SPP = r.mstatus.SPP
                          /\ s.mstatus.SPIE = r.mstatus.SPIE,
         level = PRV_S => /\ s.mstatus.MPP = r.mstatus.MPP
                          /\ s.mstatus.MPIE = r.mstatus.MPIE
  PROVE  Stack(s, Popped(fs, level))
<1>1. CASE ~(fs # <<>> /\ fs[1].level = level)
  <2>1. Popped(fs, level) = <<>>
    BY <1>1 DEF Popped
  <2> QED BY <2>1 DEF Stack
<1>2. CASE fs # <<>> /\ fs[1].level = level
  <2>1. Popped(fs, level) = Tail(fs)
    BY <1>2 DEF Popped
  <2>2. ASSUME NEW f \in Frame, fs = <<f>> PROVE Stack(s, Tail(fs))
    <3>1. Tail(fs) = <<>>
      BY <2>2
    <3> QED BY <3>1 DEF Stack
  <2>3. ASSUME NEW f \in Frame, NEW g \in Frame, fs = <<f, g>>, f.level # g.level,
               Saved(r, g)
        PROVE  Stack(s, Tail(fs))
    <3>1. Tail(fs) = <<g>> /\ f.level = level
      BY <1>2, <2>3
    <3>2. g.level \in {PRV_S, PRV_M} /\ g.level # level
      BY <2>3, <3>1 DEF Frame
    <3>3. Saved(s, g)
      BY <2>3, <3>2 DEF Saved
    <3> QED BY <3>1, <3>3 DEF Stack
  <2> QED BY <1>2, <2>1, <2>2, <2>3 DEF Stack
<1> QED BY <1>1, <1>2

-----------------------------------------------------------------------------
(* take_interrupt raises an interrupt exactly when the architecture says     *)
(* that one is due.                                                          *)
LEMMA DueIsEnabled ==
  ASSUME NEW r, Legal(r)
  PROVE  InterruptDue(r) <=> enabled_interrupts(r) # {}
<1>1. r.prv \in {PRV_U, PRV_S, PRV_M}
  BY DEF Legal, Hart
<1> QED BY <1>1 DEF InterruptDue, enabled_interrupts, PRV_U, PRV_S, PRV_M

(* The harts of a state that satisfies TypeOK.                               *)
LEMMA HartsLegal ==
  ASSUME TypeOK
  PROVE  /\ \A p \in Procs : Legal(hart[p])
         /\ c \in Procs /\ Legal(hart[c])
         /\ DOMAIN hart = Procs
BY DEF TypeOK, Legal, c

-----------------------------------------------------------------------------
(* What every step is shown to do.                                           *)
Good == IndInv' /\ \A p \in Procs : Confined(hart[p], hart'[p])

(* A step of the hart whose turn it is, that changes no other hart.          *)
LEMMA CpuStep ==
  ASSUME IndInv, cpu.at = "step",
         NEW s, Legal(s), hart' = [hart EXCEPT ![c] = s], Confined(hart[c], s),
         IRQ_M_TIMER \in s.mip <=> IRQ_M_TIMER \in hart[c].mip,
         NEW m \in 0..cpu.n, NEW fresh \in BOOLEAN,
         cpu' = [cpu EXCEPT !.n = m, !.fresh = fresh],
         NEW l \in 0..INTERLEAVE - 1, late' = [late EXCEPT ![c] = l],
         ~fresh /\ ~s.debug => l + m < INTERLEAVE,
         NEW fs, Stack(s, fs), frames' = [frames EXCEPT ![c] = fs],
         touched' \subseteq Procs, s.load_reservation # NoReservation => c \notin touched',
         dint' \subseteq Procs, UNCHANGED <<sc, mtime, mtimecmp, ticked>>
  PROVE  Good
<1>1. TypeOK /\ OnlyOneReserves /\ LateInSlice /\ FramesSaved /\ TimerLevel
  BY DEF IndInv
<1>2. c \in Procs /\ \A p \in Procs : Legal(hart[p])
  BY <1>1, HartsLegal
<1>3. Procs' = Procs
  BY DEF Procs
<1>4. hart \in [Procs -> Hart] /\ s \in Hart /\ frames \in [Procs -> Seq(Frame)]
  BY <1>1 DEF TypeOK, Legal
<1>5. hart' \in [Procs -> Hart] /\ hart'[c] = s /\ \A p \in Procs : p # c => hart'[p] = hart[p]
  BY <1>2, <1>4
<1>6. \A p \in Procs : Legal(hart'[p])
  BY <1>2, <1>5
<1>7. cpu \in [at : {"idle", "host", "step"}, current_proc : Procs,
               current_step : 0..INTERLEAVE - 1, steps : 0..INTERLEAVE,
               n : 0..INTERLEAVE, fresh : BOOLEAN]
  BY <1>1 DEF TypeOK
<1>8. m \in 0..INTERLEAVE /\ m <= cpu.n
  BY <1>7, MachineAssumption
<1>9. /\ cpu' \in [at : {"idle", "host", "step"}, current_proc : Procs,
                   current_step : 0..INTERLEAVE - 1, steps : 0..INTERLEAVE,
                   n : 0..INTERLEAVE, fresh : BOOLEAN]
      /\ cpu'.at = "step" /\ cpu'.current_proc = c /\ cpu'.n = m
      /\ cpu'.steps = cpu.steps /\ cpu'.current_step = cpu.current_step
  BY <1>7, <1>8 DEF c
<1>10. cpu'.fresh = fresh
  BY <1>7
<1>11. c' = c
  BY <1>9 DEF c
<1>12. frames' \in [Procs -> Seq(Frame)]
  BY <1>2, <1>4, StackSeq
<1>13. TypeOK'
  <2>1. cpu'.n <= cpu'.steps /\ cpu'.current_step + cpu'.steps <= INTERLEAVE
    <3>1. cpu.n <= cpu.steps /\ cpu.current_step + cpu.steps <= INTERLEAVE
      BY <1>1 DEF TypeOK
    <3>2. cpu.n \in Nat /\ cpu.steps \in Nat /\ m \in Nat
      BY <1>7, <1>8
    <3> QED BY <1>8, <1>9, <3>1, <3>2
  <2> QED BY <1>1, <1>3, <1>5, <1>6, <1>9, <1>12, <2>1 DEF TypeOK, Legal
<1>14. OnlyOneReserves'
  <2> SUFFICES ASSUME NEW p \in Procs, hart'[p].load_reservation # NoReservation
               PROVE  p = c /\ p \notin touched'
    BY <1>3, <1>9, <1>11 DEF OnlyOneReserves
  <2>1. p # c => hart[p].load_reservation # NoReservation
    BY <1>5
  <2>2. p = c
    BY <1>1, <2>1 DEF OnlyOneReserves
  <2> QED BY <1>5, <2>2
<1>15. LateInSlice'
  <2>1. late' \in [Procs -> 0..INTERLEAVE - 1] /\ late'[c] = l
    BY <1>1, <1>2 DEF LateInSlice
  <2> QED BY <1>3, <1>5, <1>9, <1>10, <1>11, <2>1 DEF LateInSlice
<1>16. FramesSaved'
  <2>1. frames'[c] = fs /\ \A p \in Procs : p # c => frames'[p] = frames[p]
    BY <1>2, <1>4
  <2> QED BY <1>1, <1>2, <1>3, <1>5, <2>1 DEF FramesSaved
<1>17. TimerLevel'
  BY <1>1, <1>2, <1>3, <1>5 DEF TimerLevel
<1>18. \A p \in Procs : Confined(hart[p], hart'[p])
  BY <1>2, <1>5 DEF Confined
<1> QED BY <1>13, <1>14, <1>15, <1>16, <1>17, <1>18 DEF Good, IndInv

(* A hart that runs an instruction with an interrupt due is not at the start *)
(* of the loop.                                                              *)
LEMMA LateStep ==
  ASSUME IndInv, Executes, Ran
  PROVE  \E l \in 0..INTERLEAVE - 1 : /\ late' = [late EXCEPT ![c] = l]
                                      /\ l + (cpu.n - 1) < INTERLEAVE
<1>1. TypeOK /\ LateInSlice
  BY DEF IndInv
<1>2. c \in Procs /\ Legal(hart[c])
  BY <1>1, HartsLegal
<1>3. /\ cpu.n \in 0..INTERLEAVE /\ cpu.n > 0 /\ cpu.at = "step" /\ ~hart[c].debug
      /\ ~(cpu.fresh /\ enabled_interrupts(hart[c]) # {})
  BY <1>1 DEF TypeOK, Executes, Running
<1>4. late[c] \in 0..INTERLEAVE - 1
  BY <1>1, <1>2 DEF LateInSlice
<1>5. CASE ~InterruptDue(hart[c])
  <2>1. late' = [late EXCEPT ![c] = 0]
    BY <1>5 DEF Ran
  <2>2. 0 \in 0..INTERLEAVE - 1 /\ 0 + (cpu.n - 1) < INTERLEAVE
    BY <1>3, MachineAssumption
  <2> QED BY <2>1, <2>2
<1>6. CASE InterruptDue(hart[c])
  <2>1. late' = [late EXCEPT ![c] = late[c] + 1]
    BY <1>6 DEF Ran
  <2>2. ~cpu.fresh
    BY <1>2, <1>3, <1>6, DueIsEnabled
  <2>3. late[c] + cpu.n < INTERLEAVE
    BY <1>1, <1>3, <2>2 DEF LateInSlice
  <2>4. late[c] + 1 \in 0..INTERLEAVE - 1 /\ (late[c] + 1) + (cpu.n - 1) < INTERLEAVE
    BY <1>3, <1>4, <2>3, MachineAssumption
  <2> QED BY <2>1, <2>4
<1> QED BY <1>5, <1>6

(* An instruction of the program: it retires (m is one less) or gives the    *)
(* step away (m is 0).                                                       *)
LEMMA ExecStep ==
  ASSUME IndInv, Executes, Ran,
         NEW s, Legal(s), hart' = [hart EXCEPT ![c] = s], Confined(hart[c], s),
         IRQ_M_TIMER \in s.mip <=> IRQ_M_TIMER \in hart[c].mip,
         NEW m \in {0, cpu.n - 1}, NEW fresh \in BOOLEAN,
         cpu' = [cpu EXCEPT !.n = m, !.fresh = fresh],
         NEW fs, Stack(s, fs), frames' = [frames EXCEPT ![c] = fs],
         touched' \subseteq Procs, s.load_reservation # NoReservation => c \notin touched',
         UNCHANGED <<sc, mtime, mtimecmp, dint, ticked>>
  PROVE  Good
<1>1. PICK l \in 0..INTERLEAVE - 1 : /\ late' = [late EXCEPT ![c] = l]
                                     /\ l + (cpu.n - 1) < INTERLEAVE
  BY LateStep
<1>2. cpu.n \in 0..INTERLEAVE /\ cpu.n > 0 /\ cpu.at = "step" /\ dint \subseteq Procs
  BY DEF IndInv, TypeOK, Executes, Running
<1>3. m \in 0..cpu.n /\ l + m < INTERLEAVE
  BY <1>1, <1>2, MachineAssumption
<1>4. dint' \subseteq Procs
  BY <1>2
<1> QED BY <1>1, <1>2, <1>3, <1>4, CpuStep

-----------------------------------------------------------------------------
(* Harts that differ in the reservation and the serialization at most.       *)
Alike(r, s) ==
  /\ s.prv = r.prv /\ s.mstatus = r.mstatus /\ s.mie = r.mie /\ s.mip = r.mip
  /\ s.mideleg = r.mideleg /\ s.medeleg = r.medeleg /\ (s.debug = r.debug)

(* What the harts and the history are in the middle of a step.               *)
LEMMA Stepping ==
  ASSUME IndInv
  PROVE  /\ c \in Procs /\ Legal(hart[c]) /\ Stack(hart[c], frames[c])
         /\ hart = [hart EXCEPT ![c] = hart[c]]
         /\ frames = [frames EXCEPT ![c] = frames[c]]
         /\ late = [late EXCEPT ![c] = late[c]] /\ late[c] \in 0..INTERLEAVE - 1
         /\ cpu = [cpu EXCEPT !.n = cpu.n, !.fresh = cpu.fresh]
         /\ cpu.fresh \in BOOLEAN /\ cpu.n \in 0..INTERLEAVE
         /\ hart[c].load_reservation # NoReservation => c \notin touched
         /\ touched \subseteq Procs /\ dint \subseteq Procs
<1>1. TypeOK /\ OnlyOneReserves /\ LateInSlice /\ FramesSaved
  BY DEF IndInv
<1>2. c \in Procs /\ Legal(hart[c])
  BY <1>1, HartsLegal
<1>3. Stack(hart[c], frames[c])
  BY <1>1, <1>2 DEF FramesSaved
<1>4. hart = [hart EXCEPT ![c] = hart[c]] /\ frames = [frames EXCEPT ![c] = frames[c]]
  BY <1>1, <1>2 DEF TypeOK
<1>5. late = [late EXCEPT ![c] = late[c]] /\ late[c] \in 0..INTERLEAVE - 1
  BY <1>1, <1>2 DEF LateInSlice
<1>6. /\ cpu = [cpu EXCEPT !.n = cpu.n, !.fresh = cpu.fresh]
      /\ cpu.fresh \in BOOLEAN /\ cpu.n \in 0..INTERLEAVE
  BY <1>1 DEF TypeOK
<1>7. hart[c].load_reservation # NoReservation => c \notin touched
  BY <1>1, <1>2 DEF OnlyOneReserves
<1> QED BY <1>1, <1>2, <1>3, <1>4, <1>5, <1>6, <1>7 DEF TypeOK

(* An instruction that traps.                                                *)
LEMMA TrapsGood ==
  ASSUME IndInv, Executes, Ran, NEW r, Legal(r), Alike(hart[c], r), NEW cause,
         Traps(r, FALSE, cause), touched' \subseteq Procs,
         r.load_reservation # NoReservation => c \notin touched'
  PROVE  Good
<1> DEFINE no == FALSE
           s == take_trap(r, no, cause)
           fs == Pushed(frames[c], r, s)
<1>1. /\ hart' = [hart EXCEPT ![c] = s]
      /\ cpu' = [cpu EXCEPT !.n = 0]
      /\ frames' = [frames EXCEPT ![c] = fs]
      /\ UNCHANGED <<sc, mtime, mtimecmp, dint, ticked>>
  BY DEF Traps
<1>2. no \in BOOLEAN
  OBVIOUS
<1> HIDE DEF no
<1>3. Legal(s) /\ Quiet(r, s) /\ Confined(r, s) /\ SavedAt(r, s)
  BY <1>2, TakeTrap
<1> HIDE DEF s
<1>4. /\ c \in Procs /\ Legal(hart[c]) /\ Stack(hart[c], frames[c])
      /\ cpu.fresh \in BOOLEAN
  BY Stepping
<1>5. Stack(s, fs)
  <2>1. Stack(r, frames[c])
    BY <1>4, StackSame DEF Alike
  <2> QED BY <1>3, <2>1, StackPushed
<1> HIDE DEF fs
<1>6. cpu' = [cpu EXCEPT !.n = 0, !.fresh = cpu.fresh]
  BY <1>1 DEF IndInv, TypeOK
<1>7. Confined(hart[c], s)
  BY <1>3 DEF Confined, Alike
<1>8. IRQ_M_TIMER \in s.mip <=> IRQ_M_TIMER \in hart[c].mip
  BY <1>3 DEF Quiet, Alike
<1>9. s.load_reservation # NoReservation => c \notin touched'
  BY <1>3 DEF Quiet
<1> QED BY <1>1, <1>3, <1>4, <1>5, <1>6, <1>7, <1>8, <1>9, ExecStep

LEMMA ExceptsGood ==
  ASSUME IndInv, Executes, NEW cause, Excepts(cause)
  PROVE  Good
<1>1. Legal(hart[c]) /\ touched \subseteq Procs
      /\ (hart[c].load_reservation # NoReservation => c \notin touched)
  BY Stepping
<1>2. Traps(hart[c], FALSE, cause) /\ Ran /\ touched' = touched
  BY DEF Excepts
<1>3. Alike(hart[c], hart[c])
  BY DEF Alike
<1> QED BY <1>1, <1>2, <1>3, TrapsGood

(* An instruction that changes the hart's own state at most, and retires.    *)
LEMMA RetiresGood ==
  ASSUME IndInv, Executes, Ran, NEW s, Legal(s), hart' = [hart EXCEPT ![c] = s],
         Confined(hart[c], s), IRQ_M_TIMER \in s.mip <=> IRQ_M_TIMER \in hart[c].mip,
         NEW fresh \in BOOLEAN, Retire(fresh),
         NEW fs, Stack(s, fs), frames' = [frames EXCEPT ![c] = fs],
         touched' \subseteq Procs, s.load_reservation # NoReservation => c \notin touched',
         UNCHANGED <<sc, mtime, mtimecmp, dint, ticked>>
  PROVE  Good
<1>1. cpu' = [cpu EXCEPT !.n = cpu.n - 1, !.fresh = fresh]
  BY DEF Retire
<1>2. cpu.n - 1 \in {0, cpu.n - 1}
  OBVIOUS
<1> QED BY <1>1, <1>2, ExecStep

(* The interrupt that take_interrupt finds at the head of the loop.          *)
LEMMA TakeInterruptGood == ASSUME IndInv, TakeInterrupt PROVE Good
<1> DEFINE yes == TRUE
           s == take_trap(hart[c], yes, ctz(enabled_interrupts(hart[c])))
           fs == Pushed(frames[c], hart[c], s)
<1>1. /\ hart' = [hart EXCEPT ![c] = s]
      /\ cpu' = [cpu EXCEPT !.n = 0]
      /\ frames' = [frames EXCEPT ![c] = fs]
      /\ UNCHANGED <<sc, mtime, mtimecmp, dint, ticked, lastLR, touched>>
      /\ late' = [late EXCEPT ![c] = 0]
      /\ cpu.at = "step"
  BY DEF TakeInterrupt, Traps, Running
<1>2. yes \in BOOLEAN
  OBVIOUS
<1>3. /\ c \in Procs /\ Legal(hart[c]) /\ Stack(hart[c], frames[c])
      /\ cpu.fresh \in BOOLEAN /\ cpu.n \in 0..INTERLEAVE
      /\ touched \subseteq Procs /\ dint \subseteq Procs
      /\ hart[c].load_reservation # NoReservation => c \notin touched
  BY Stepping
<1> HIDE DEF yes
<1>4. Legal(s) /\ Quiet(hart[c], s) /\ Confined(hart[c], s) /\ SavedAt(hart[c], s)
  BY <1>2, <1>3, TakeTrap
<1> HIDE DEF s
<1>5. Stack(s, fs)
  BY <1>3, <1>4, StackPushed
<1> HIDE DEF fs
<1>6. cpu' = [cpu EXCEPT !.n = 0, !.fresh = cpu.fresh]
  BY <1>1 DEF IndInv, TypeOK
<1>7. 0 \in 0..cpu.n /\ 0 \in 0..INTERLEAVE - 1 /\ 0 + 0 < INTERLEAVE
  BY <1>3, MachineAssumption
<1>8. /\ IRQ_M_TIMER \in s.mip <=> IRQ_M_TIMER \in hart[c].mip
      /\ s.load_reservation # NoReservation => c \notin touched'
      /\ touched' \subseteq Procs /\ dint' \subseteq Procs
  BY <1>1, <1>3, <1>4 DEF Quiet
<1> QED BY <1>1, <1>3, <1>4, <1>5, <1>6, <1>7, <1>8, CpuStep

-----------------------------------------------------------------------------
(* The instructions.                                                         *)
LEMMA Untouched ==
  ASSUME IndInv, Executes, Ran, Retire(FALSE), UNCHANGED <<hart, frames>>,
         touched' \subseteq Procs, c \in touched' => c \in touched,
         UNCHANGED <<sc, mtime, mtimecmp, dint, ticked>>
  PROVE  Good
<1> DEFINE no == FALSE
<1>1. no \in BOOLEAN /\ Retire(no)
  OBVIOUS
<1> HIDE DEF no
<1>2. /\ c \in Procs /\ Legal(hart[c]) /\ Stack(hart[c], frames[c])
      /\ hart = [hart EXCEPT ![c] = hart[c]]
      /\ frames = [frames EXCEPT ![c] = frames[c]]
      /\ hart[c].load_reservation # NoReservation => c \notin touched
  BY Stepping
<1>3. /\ hart' = [hart EXCEPT ![c] = hart[c]]
      /\ frames' = [frames EXCEPT ![c] = frames[c]]
  BY <1>2
<1>4. Confined(hart[c], hart[c])
  BY DEF Confined
<1> QED BY <1>1, <1>2, <1>3, <1>4, RetiresGood

LEMMA NopGood == ASSUME IndInv, Nop PROVE Good
<1>1. touched \subseteq Procs
  BY Stepping
<1> QED BY <1>1, Untouched DEF Nop

LEMMA EcallGood == ASSUME IndInv, EcallInsn PROVE Good
BY ExceptsGood DEF EcallInsn

LEMMA EbreakGood == ASSUME IndInv, Ebreak PROVE Good
BY ExceptsGood DEF Ebreak

(* Clearing or setting the serialization changes nothing else.               *)
LEMMA Serialized ==
  ASSUME NEW r, Legal(r), NEW b \in BOOLEAN
  PROVE  LET s == [r EXCEPT !.serialized = b] IN
         /\ Legal(s) /\ Alike(r, s) /\ s.load_reservation = r.load_reservation
<1> DEFINE s == [r EXCEPT !.serialized = b]
<1>1. r \in Hart
  BY DEF Legal
<1>2. s \in Hart /\ Alike(r, s) /\ s.load_reservation = r.load_reservation
  BY <1>1 DEF Hart, Alike
<1> HIDE DEF s
<1>3. Legal(s)
  BY <1>2 DEF Legal, Alike
<1> QED BY <1>2, <1>3 DEF s

(* The code of a hart.                                                       *)
LEMMA CodeType ==
  ASSUME IndInv, NEW i \in sc.code[c]
  PROVE  /\ i.op = "csrrw" => /\ i.csr \in csrs
                              /\ i.csr \in {"mstatus", "sstatus"} => i.val \in Status
         /\ i.op \in {"lr", "sc", "store"} => i.addr \in Nat /\ i.addr < 2^BusBits
<1>1. sc \in Scenarios /\ c \in 0..sc.nprocs - 1
  BY Stepping DEF IndInv, TypeOK, Procs
<1> QED BY <1>1, CodeAssumption

LEMMA CsrrwGood == ASSUME IndInv, Csrrw PROVE Good
<1>1. PICK i \in sc.code[c] : /\ i.op = "csrrw" /\ Executes
                              /\ SerializeBefore \/ CsrIllegal(i) \/ CsrWrite(i)
  BY DEF Csrrw
<1>2. /\ c \in Procs /\ Legal(hart[c]) /\ Stack(hart[c], frames[c])
      /\ frames = [frames EXCEPT ![c] = frames[c]]
      /\ late = [late EXCEPT ![c] = late[c]] /\ late[c] \in 0..INTERLEAVE - 1
      /\ cpu.n \in 0..INTERLEAVE
      /\ hart[c].load_reservation # NoReservation => c \notin touched
      /\ touched \subseteq Procs /\ dint \subseteq Procs
  BY Stepping
<1>3. i.csr \in csrs /\ (i.csr \in {"mstatus", "sstatus"} => i.val \in Status)
  BY <1>1, CodeType
<1>4. CASE SerializeBefore
  <2> DEFINE yes == TRUE
             s == [hart[c] EXCEPT !.serialized = yes]
  <2>1. hart' = [hart EXCEPT ![c] = s] /\ cpu' = [cpu EXCEPT !.fresh = yes]
    BY <1>4 DEF SerializeBefore
  <2>2. yes \in BOOLEAN /\ yes
    OBVIOUS
  <2> HIDE DEF yes
  <2>3. Legal(s) /\ Alike(hart[c], s) /\ s.load_reservation = hart[c].load_reservation
    BY <1>2, <2>2, Serialized
  <2> HIDE DEF s
  <2>4. Stack(s, frames[c])
    BY <1>2, <2>3, StackSame DEF Alike
  <2>5. cpu' = [cpu EXCEPT !.n = cpu.n, !.fresh = yes] /\ cpu.n \in 0..cpu.n
    <3>1. cpu = [cpu EXCEPT !.n = cpu.n]
      BY DEF IndInv, TypeOK
    <3>2. cpu.n \in 0..cpu.n
      BY <1>2, MachineAssumption
    <3>3. cpu' = [[cpu EXCEPT !.n = cpu.n] EXCEPT !.fresh = yes]
      BY <2>1, <3>1
    <3> QED BY <3>2, <3>3, Zenon
  <2>6. Confined(hart[c], s)
    BY <2>3 DEF Confined, Alike
  <2>7. IRQ_M_TIMER \in s.mip <=> IRQ_M_TIMER \in hart[c].mip
    BY <2>3 DEF Alike
  <2>8. /\ UNCHANGED <<sc, mtime, mtimecmp, dint, ticked, touched>>
        /\ frames' = [frames EXCEPT ![c] = frames[c]]
        /\ late' = [late EXCEPT ![c] = late[c]]
    BY <1>2, <1>4 DEF SerializeBefore
  <2>9. cpu.at = "step"
    BY <1>1 DEF Executes, Running
  <2>10. touched' \subseteq Procs /\ dint' \subseteq Procs
         /\ (s.load_reservation # NoReservation => c \notin touched')
    BY <1>2, <2>3, <2>8
  <2> QED BY <1>2, <2>1, <2>2, <2>3, <2>4, <2>5, <2>6, <2>7, <2>8, <2>9, <2>10, CpuStep
<1> DEFINE no == FALSE
           q == [hart[c] EXCEPT !.serialized = no]
<1>5. no \in BOOLEAN
  OBVIOUS
<1>6. Legal(q) /\ Alike(hart[c], q) /\ q.load_reservation = hart[c].load_reservation
  <2> HIDE DEF no
  <2> QED BY <1>2, <1>5, Serialized
<1>7. CASE CsrIllegal(i)
  <2>1. Traps(q, FALSE, CAUSE_ILLEGAL_INSTRUCTION) /\ Ran /\ touched' = touched
    BY <1>7 DEF CsrIllegal
  <2> HIDE DEF q
  <2> QED BY <1>1, <1>2, <1>6, <2>1, TrapsGood
<1>8. CASE CsrWrite(i)
  <2> DEFINE s == set_csr(q, i.csr, i.val)
             fs == IF i.csr \in {"mstatus", "sstatus"} THEN <<>> ELSE frames[c]
  <2>1. /\ hart' = [hart EXCEPT ![c] = s]
        /\ Retire(no) /\ Ran
        /\ frames' = [frames EXCEPT ![c] = fs]
        /\ UNCHANGED <<sc, mtime, mtimecmp, dint, ticked, lastLR, touched>>
        /\ hart[c].prv >= csr_priv(i.csr)
    BY <1>8 DEF CsrWrite
  <2> HIDE DEF no, q
  <2>2. q.prv >= csr_priv(i.csr)
    BY <1>6, <2>1 DEF Alike
  <2>3. /\ Legal(s) /\ Quiet(q, s) /\ Confined(q, s)
        /\ s.load_reservation = q.load_reservation
        /\ i.csr \notin {"mstatus", "sstatus"} => s.mstatus = q.mstatus
    BY <1>3, <1>6, <2>2, SetCsr
  <2> HIDE DEF s
  <2>4. Stack(s, fs)
    <3>1. CASE i.csr \in {"mstatus", "sstatus"}
      BY <3>1 DEF Stack
    <3>2. CASE i.csr \notin {"mstatus", "sstatus"}
      <4>1. s.mstatus = hart[c].mstatus
        BY <1>6, <2>3, <3>2 DEF Alike
      <4> QED BY <1>2, <3>2, <4>1, StackSame
    <3> QED BY <3>1, <3>2
  <2>5. Confined(hart[c], s)
    BY <1>6, <2>3 DEF Confined, Alike
  <2>6. IRQ_M_TIMER \in s.mip <=> IRQ_M_TIMER \in hart[c].mip
    BY <1>6, <2>3 DEF Quiet, Alike
  <2>7. touched' \subseteq Procs
        /\ (s.load_reservation # NoReservation => c \notin touched')
    BY <1>2, <1>6, <2>1, <2>3
  <2> HIDE DEF fs
  <2> QED BY <1>1, <1>5, <2>1, <2>3, <2>4, <2>5, <2>6, <2>7, RetiresGood
<1> QED BY <1>1, <1>4, <1>7, <1>8

(* The returns.                                                              *)
LEMMA ReturnsGood ==
  ASSUME IndInv, Executes, NEW level \in {PRV_S, PRV_M}, NEW s, Returns(level, s),
         Legal(s), Quiet(hart[c], s), Confined(hart[c], s),
         s.load_reservation = hart[c].load_reservation,
         level = PRV_M => /\ s.mstatus.SPP = hart[c].mstatus.SPP
                          /\ s.mstatus.SPIE = hart[c].mstatus.SPIE,
         level = PRV_S => /\ s.mstatus.MPP = hart[c].mstatus.MPP
                          /\ s.mstatus.MPIE = hart[c].mstatus.MPIE
  PROVE  Good
<1> DEFINE yes == TRUE
           fs == Popped(frames[c], level)
<1>1. /\ hart' = [hart EXCEPT ![c] = s]
      /\ Retire(yes) /\ Ran
      /\ frames' = [frames EXCEPT ![c] = fs]
      /\ UNCHANGED <<sc, mtime, mtimecmp, dint, ticked, lastLR, touched>>
  BY DEF Returns
<1>2. yes \in BOOLEAN
  OBVIOUS
<1> HIDE DEF yes
<1>3. /\ c \in Procs /\ Stack(hart[c], frames[c])
      /\ hart[c].load_reservation # NoReservation => c \notin touched
      /\ touched \subseteq Procs
  BY Stepping
<1>4. Stack(s, fs)
  BY <1>3, StackPopped
<1> HIDE DEF fs
<1>5. IRQ_M_TIMER \in s.mip <=> IRQ_M_TIMER \in hart[c].mip
  BY DEF Quiet
<1>6. touched' \subseteq Procs /\ (s.load_reservation # NoReservation => c \notin touched')
  BY <1>1, <1>3
<1> QED BY <1>1, <1>2, <1>3, <1>4, <1>5, <1>6, RetiresGood

LEMMA MretGood == ASSUME IndInv, Mret PROVE Good
<1>1. Legal(hart[c]) /\ Executes /\ ~hart[c].debug
  BY Stepping DEF Mret, Executes
<1>2. CASE hart[c].prv >= PRV_M
  <2> DEFINE s == return_m(hart[c])
  <2>1. Returns(PRV_M, s)
    BY <1>2 DEF Mret
  <2>2. hart[c].prv = PRV_M
    BY <1>1, <1>2 DEF Legal, Hart, PRV_U, PRV_S, PRV_M
  <2>3. /\ Legal(s) /\ Quiet(hart[c], s) /\ Confined(hart[c], s)
        /\ s.load_reservation = hart[c].load_reservation
        /\ s.mstatus.SPP = hart[c].mstatus.SPP /\ s.mstatus.SPIE = hart[c].mstatus.SPIE
    BY <1>1, <2>2, ReturnM
  <2> HIDE DEF s
  <2>4. PRV_M \in {PRV_S, PRV_M} /\ PRV_M # PRV_S
    BY DEF PRV_S, PRV_M
  <2> QED BY <1>1, <2>1, <2>3, <2>4, ReturnsGood
<1>3. CASE ~(hart[c].prv >= PRV_M)
  BY <1>1, <1>3, ExceptsGood DEF Mret
<1> QED BY <1>2, <1>3

LEMMA SretGood == ASSUME IndInv, Sret PROVE Good
<1>1. Legal(hart[c]) /\ Executes /\ ~hart[c].debug
  BY Stepping DEF Sret, Executes
<1>2. CASE hart[c].prv >= PRV_S
  <2> DEFINE s == return_s(hart[c])
  <2>1. Returns(PRV_S, s)
    BY <1>2 DEF Sret
  <2>2. /\ Legal(s) /\ Quiet(hart[c], s) /\ Confined(hart[c], s)
        /\ s.load_reservation = hart[c].load_reservation
        /\ s.mstatus.MPP = hart[c].mstatus.MPP /\ s.mstatus.MPIE = hart[c].mstatus.MPIE
    BY <1>1, ReturnS
  <2> HIDE DEF s
  <2>3. PRV_S \in {PRV_S, PRV_M} /\ PRV_M # PRV_S
    BY DEF PRV_S, PRV_M
  <2> QED BY <1>1, <2>1, <2>2, <2>3, ReturnsGood
<1>3. CASE ~(hart[c].prv >= PRV_S)
  BY <1>1, <1>3, ExceptsGood DEF Sret
<1> QED BY <1>2, <1>3

(* lr: the only instruction that makes a reservation, for its own hart.      *)
LEMMA LrGood == ASSUME IndInv, Lr PROVE Good
<1> DEFINE reserved(i) == [hart[c] EXCEPT !.load_reservation = i.addr]
<1>1. PICK i \in sc.code[c] :
        /\ i.op = "lr" /\ Executes
        /\ IF addr_is_mem(i.addr) \/ bus_load(i.addr)
           THEN /\ hart' = [hart EXCEPT ![c] = reserved(i)]
                /\ Retire(FALSE)
                /\ UNCHANGED <<sc, mtime, mtimecmp, dint, ticked, frames>>
           ELSE Traps(reserved(i), FALSE, CAUSE_FAULT_LOAD)
        /\ lastLR' = [lastLR EXCEPT ![c] = i.addr]
        /\ touched' = touched \ {c}
        /\ Ran
  BY DEF Lr
<1> DEFINE r == reserved(i)
           no == FALSE
<1>2. /\ c \in Procs /\ Legal(hart[c]) /\ Stack(hart[c], frames[c])
      /\ frames = [frames EXCEPT ![c] = frames[c]]
      /\ touched \subseteq Procs
  BY Stepping
<1>3. i.addr \in Nat
  BY <1>1, CodeType
<1>4. Legal(r) /\ Alike(hart[c], r)
  <2>1. hart[c] \in Hart
    BY <1>2 DEF Legal
  <2>2. r \in Hart /\ Alike(hart[c], r)
    BY <1>3, <2>1 DEF Hart, Alike
  <2> HIDE DEF r
  <2> QED BY <1>2, <2>2 DEF Legal, Alike
<1>5. touched' \subseteq Procs /\ c \notin touched'
  BY <1>1, <1>2
<1>6. no \in BOOLEAN /\ (Retire(FALSE) => Retire(no))
  OBVIOUS
<1>7. CASE addr_is_mem(i.addr) \/ bus_load(i.addr)
  <2>1. /\ hart' = [hart EXCEPT ![c] = r] /\ Retire(no)
        /\ UNCHANGED <<sc, mtime, mtimecmp, dint, ticked, frames>>
    BY <1>1, <1>6, <1>7
  <2> HIDE DEF r, no
  <2>2. Stack(r, frames[c])
    BY <1>2, <1>4, StackSame DEF Alike
  <2>3. Confined(hart[c], r) /\ (IRQ_M_TIMER \in r.mip <=> IRQ_M_TIMER \in hart[c].mip)
    BY <1>4 DEF Confined, Alike
  <2> QED BY <1>1, <1>2, <1>4, <1>5, <1>6, <2>1, <2>2, <2>3, RetiresGood
<1>8. CASE ~(addr_is_mem(i.addr) \/ bus_load(i.addr))
  <2>1. Traps(r, FALSE, CAUSE_FAULT_LOAD)
    BY <1>1, <1>8
  <2> HIDE DEF r
  <2> QED BY <1>1, <1>4, <1>5, <2>1, TrapsGood
<1> QED BY <1>7, <1>8

-----------------------------------------------------------------------------
(* A new value of mip.                                                       *)
WithMip(r, N) == [r EXCEPT !.mip = N]

LEMMA SetMip ==
  ASSUME NEW r, Legal(r), NEW N \in SUBSET all_ints
  PROVE  LET s == WithMip(r, N) IN
         /\ Legal(s) /\ s.mip = N /\ s.load_reservation = r.load_reservation
         /\ s.prv = r.prv /\ s.mstatus = r.mstatus /\ (s.debug = r.debug)
         /\ s.mie = r.mie /\ s.mideleg = r.mideleg /\ s.medeleg = r.medeleg
<1> DEFINE s == WithMip(r, N)
<1>1. r \in Hart
  BY DEF Legal
<1>2. /\ s \in Hart /\ s.mip = N /\ s.load_reservation = r.load_reservation
      /\ s.prv = r.prv /\ s.mstatus = r.mstatus /\ (s.debug = r.debug)
      /\ s.mie = r.mie /\ s.mideleg = r.mideleg /\ s.medeleg = r.medeleg
  BY <1>1 DEF Hart, WithMip
<1> HIDE DEF s
<1>3. Legal(s)
  BY <1>2 DEF Legal
<1> QED BY <1>2, <1>3 DEF s

(* rtc_t::increment touches the timer bits only, and makes them right.       *)
LEMMA RtcIncrement ==
  ASSUME NEW time, NEW cmp, NEW H, \A p \in Procs : Legal(H[p])
  PROVE  LET G == rtc_increment(time, cmp, H) IN
         /\ DOMAIN G = Procs /\ G = [p \in Procs |-> G[p]]
         /\ \A p \in Procs :
              /\ \E N \in SUBSET all_ints : G[p] = WithMip(H[p], N)
              /\ IRQ_M_TIMER \in G[p].mip <=> time >= cmp[p]
<1> DEFINE G == rtc_increment(time, cmp, H)
           N(p) == IF time >= cmp[p] THEN H[p].mip \cup {IRQ_M_TIMER}
                                     ELSE H[p].mip \ {IRQ_M_TIMER}
<1>1. G = [p \in Procs |-> WithMip(H[p], N(p))]
  BY DEF rtc_increment, WithMip
<1> HIDE DEF G
<1>2. ASSUME NEW p \in Procs
      PROVE  /\ \E M \in SUBSET all_ints : G[p] = WithMip(H[p], M)
             /\ IRQ_M_TIMER \in G[p].mip <=> time >= cmp[p]
  <2>1. Legal(H[p]) /\ H[p].mip \subseteq all_ints
    BY DEF Legal, Hart
  <2>2. IRQ_M_TIMER \in all_ints
    BY DEF all_ints
  <2>3. N(p) \in SUBSET all_ints /\ (IRQ_M_TIMER \in N(p) <=> time >= cmp[p])
    BY <2>1, <2>2
  <2>4. G[p] = WithMip(H[p], N(p))
    BY <1>1
  <2> HIDE DEF N
  <2>5. G[p].mip = N(p)
    BY <2>1, <2>3, <2>4, SetMip
  <2> QED BY <2>3, <2>4, <2>5
<1>3. DOMAIN G = Procs /\ G = [p \in Procs |-> G[p]]
  BY <1>1
<1> QED BY <1>2, <1>3 DEF G

(* A store that the bus accepts: a comparison of the timer, after which all  *)
(* the timer bits are compared anew, or the software interrupt of one hart.  *)
Accepted(b) ==
  \/ b.rtc /\ b.hart = rtc_increment(mtime, b.mtimecmp, hart)
  \/ /\ ~b.rtc /\ b.mtimecmp = mtimecmp
     /\ \E p \in Procs :
          \E N \in {hart[p].mip \cup {IRQ_M_SOFT}, hart[p].mip \ {IRQ_M_SOFT}} :
            b.hart = [hart EXCEPT ![p] = WithMip(hart[p], N)]

LEMMA BusStore ==
  ASSUME NEW a, NEW v, bus_store(a, v).ok
  PROVE  Accepted(bus_store(a, v))
<1> DEFINE b == bus_store(a, v)
           refused == [ok |-> FALSE, hart |-> hart, mtimecmp |-> mtimecmp, rtc |-> FALSE]
           found == lower_bound(Neg(a))
           d == CHOOSE e \in found : TRUE
           off == (a + d.key) % 2^BusBits
           p == d.dev[2]
           cmp == [mtimecmp EXCEPT ![off - 1] = v]
           N == IF v % 2 = 1 THEN hart[p].mip \cup {IRQ_M_SOFT} ELSE hart[p].mip \ {IRQ_M_SOFT}
           isRtc == found # {} /\ d.dev[1] = "rtc" /\ off >= 1 /\ off < rtc_size
           isCpu == found # {} /\ d.dev[1] = "cpu" /\ off = 0
<1>1. ~refused.ok
  OBVIOUS
<1>2. CASE isRtc
  <2>1. b = [ok |-> TRUE, hart |-> rtc_increment(mtime, cmp, hart), mtimecmp |-> cmp, rtc |-> TRUE]
    BY <1>2 DEF bus_store
  <2> HIDE DEF b, cmp
  <2>2. b.rtc /\ b.hart = rtc_increment(mtime, b.mtimecmp, hart)
    BY <2>1
  <2> QED BY <2>2 DEF b, Accepted
<1>3. CASE isCpu
  <2>1. b = [refused EXCEPT !.ok = TRUE, !.hart[p].mip = IF v % 2 = 1 THEN @ \cup {IRQ_M_SOFT}
                                                         ELSE @ \ {IRQ_M_SOFT}]
    BY <1>3 DEF bus_store
  <2>2. b.hart = [hart EXCEPT ![p] = WithMip(hart[p], N)] /\ ~b.rtc /\ b.mtimecmp = mtimecmp
    <3> HIDE DEF p, b
    <3> QED BY <2>1 DEF WithMip
  <2>3. p \in Procs
    <3>1. d \in devices
      BY <1>3 DEF lower_bound
    <3> HIDE DEF d
    <3> QED BY <1>3, <3>1 DEF devices
  <2> HIDE DEF p, b
  <2>4. N \in {hart[p].mip \cup {IRQ_M_SOFT}, hart[p].mip \ {IRQ_M_SOFT}}
    OBVIOUS
  <2> HIDE DEF N
  <2> QED BY <2>2, <2>3, <2>4 DEF b, Accepted
<1>4. CASE ~isRtc /\ ~isCpu
  <2>1. b = refused
    <3> HIDE DEF off, d, found
    <3> QED BY <1>4 DEF bus_store, off, d, found
  <2> QED BY <1>1, <2>1
<1> QED BY <1>2, <1>3, <1>4

(* Harts whose mip alone is new.                                             *)
LEMMA NewMips ==
  ASSUME NEW H, \A p \in Procs : Legal(H[p]),
         NEW G, G = [p \in Procs |-> G[p]],
         \A p \in Procs : \E N \in SUBSET all_ints : G[p] = WithMip(H[p], N)
  PROVE  /\ G \in [Procs -> Hart]
         /\ \A p \in Procs :
              /\ Legal(G[p]) /\ G[p].load_reservation = H[p].load_reservation
              /\ G[p].prv = H[p].prv /\ G[p].mstatus = H[p].mstatus
              /\ (G[p].debug = H[p].debug) /\ G[p].mie = H[p].mie
              /\ G[p].mideleg = H[p].mideleg /\ G[p].medeleg = H[p].medeleg
<1>1. ASSUME NEW p \in Procs
      PROVE  /\ Legal(G[p]) /\ G[p].load_reservation = H[p].load_reservation
             /\ G[p].prv = H[p].prv /\ G[p].mstatus = H[p].mstatus
             /\ (G[p].debug = H[p].debug) /\ G[p].mie = H[p].mie
             /\ G[p].mideleg = H[p].mideleg /\ G[p].medeleg = H[p].medeleg
  <2>1. PICK N \in SUBSET all_ints : G[p] = WithMip(H[p], N)
    OBVIOUS
  <2>2. Legal(H[p])
    OBVIOUS
  <2> QED BY <2>1, <2>2, SetMip
<1>2. \A p \in Procs : G[p] \in Hart
  BY <1>1 DEF Legal
<1>3. G \in [Procs -> Hart]
  BY <1>2
<1> QED BY <1>1, <1>3

(* The harts after a store that the bus accepts.                             *)
LEMMA BusHarts ==
  ASSUME IndInv, NEW a, NEW v, bus_store(a, v).ok
  PROVE  LET b == bus_store(a, v) IN
         /\ b.hart = [p \in Procs |-> b.hart[p]]
         /\ \A p \in Procs : \E N \in SUBSET all_ints : b.hart[p] = WithMip(hart[p], N)
         /\ ticked \/ b.rtc =>
              \A p \in Procs : IRQ_M_TIMER \in b.hart[p].mip <=> mtime >= b.mtimecmp[p]
<1> DEFINE b == bus_store(a, v)
<1>1. /\ \A p \in Procs : Legal(hart[p])
      /\ hart \in [Procs -> Hart] /\ TimerLevel
  BY HartsLegal DEF IndInv, TypeOK
<1>2. Accepted(b)
  BY BusStore
<1> HIDE DEF b
<1>3. CASE b.rtc /\ b.hart = rtc_increment(mtime, b.mtimecmp, hart)
  <2>1. /\ b.hart = [p \in Procs |-> b.hart[p]]
        /\ \A p \in Procs :
              /\ \E N \in SUBSET all_ints : b.hart[p] = WithMip(hart[p], N)
              /\ IRQ_M_TIMER \in b.hart[p].mip <=> mtime >= b.mtimecmp[p]
    BY <1>1, <1>3, RtcIncrement
  <2> QED BY <2>1 DEF b
<1>4. ASSUME ~b.rtc, b.mtimecmp = mtimecmp, NEW q \in Procs,
             NEW M \in {hart[q].mip \cup {IRQ_M_SOFT}, hart[q].mip \ {IRQ_M_SOFT}},
             b.hart = [hart EXCEPT ![q] = WithMip(hart[q], M)]
      PROVE  /\ b.hart = [p \in Procs |-> b.hart[p]]
             /\ \A p \in Procs : \E N \in SUBSET all_ints : b.hart[p] = WithMip(hart[p], N)
             /\ ticked \/ b.rtc =>
                  \A p \in Procs : IRQ_M_TIMER \in b.hart[p].mip <=> mtime >= b.mtimecmp[p]
  <2>2. /\ DOMAIN b.hart = Procs /\ b.hart = [p \in Procs |-> b.hart[p]]
        /\ b.hart[q] = WithMip(hart[q], M)
        /\ \A p \in Procs : p # q => b.hart[p] = hart[p]
    BY <1>1, <1>4
  <2>3. \A p \in Procs : hart[p] = WithMip(hart[p], hart[p].mip)
                         /\ hart[p].mip \in SUBSET all_ints
    BY <1>1 DEF Hart, WithMip
  <2>4. M \in SUBSET all_ints /\ (IRQ_M_TIMER \in M <=> IRQ_M_TIMER \in hart[q].mip)
    BY <2>3 DEF all_ints, IRQ_M_SOFT, IRQ_M_TIMER
  <2>5. b.hart[q].mip = M
    BY <1>1, <2>2, <2>4, SetMip
  <2>6. \A p \in Procs : \E N \in SUBSET all_ints : b.hart[p] = WithMip(hart[p], N)
    BY <2>2, <2>3, <2>4
  <2>7. ticked => \A p \in Procs : IRQ_M_TIMER \in b.hart[p].mip <=> mtime >= b.mtimecmp[p]
    BY <1>1, <1>4, <2>2, <2>4, <2>5 DEF TimerLevel
  <2> QED BY <1>4, <2>2, <2>6, <2>7
<1> QED BY <1>2, <1>3, <1>4 DEF b, Accepted

-----------------------------------------------------------------------------
(* Where the step loop may be.                                               *)
CpuType(u) ==
  /\ u \in [at : {"idle", "host", "step"}, current_proc : Procs,
            current_step : 0..INTERLEAVE - 1, steps : 0..INTERLEAVE,
            n : 0..INTERLEAVE, fresh : BOOLEAN]
  /\ u.at = "step" => u.n <= u.steps /\ u.current_step + u.steps <= INTERLEAVE
  /\ u.at # "step" => u.n = 0

(* A step that leaves mstatus and the history of the traps alone.            *)
LEMMA MachineStep ==
  ASSUME IndInv, UNCHANGED <<sc, frames>>, hart' \in [Procs -> Hart],
         \A p \in Procs : /\ Legal(hart'[p]) /\ hart'[p].mstatus = hart[p].mstatus
                          /\ Confined(hart[p], hart'[p]),
         CpuType(cpu'), mtime' \in 0..MaxTime,
         dint' \subseteq Procs, touched' \subseteq Procs,
         OnlyOneReserves', LateInSlice', TimerLevel'
  PROVE  Good
<1>1. Procs' = Procs
  BY DEF Procs
<1>2. TypeOK /\ FramesSaved
  BY DEF IndInv
<1>3. frames' \in [Procs -> Seq(Frame)]
  BY <1>2 DEF TypeOK
<1>4. TypeOK'
  BY <1>1, <1>2, <1>3 DEF TypeOK, CpuType, Legal
<1>5. FramesSaved'
  <2> SUFFICES ASSUME NEW p \in Procs PROVE Stack(hart'[p], frames[p])
    BY <1>1 DEF FramesSaved
  <2>1. Stack(hart[p], frames[p]) /\ hart'[p].mstatus = hart[p].mstatus
    BY <1>2 DEF FramesSaved
  <2> QED BY <2>1, StackSame
<1> QED BY <1>4, <1>5 DEF Good, IndInv

(* A store to a device.                                                      *)
LEMMA DeviceGood ==
  ASSUME IndInv, Executes, NEW a, NEW v, StoreToDevice(a, v)
  PROVE  Good
<1> DEFINE b == bus_store(a, v)
           no == FALSE
<1>1. CASE ~b.ok
  BY <1>1, ExceptsGood DEF StoreToDevice
<1>2. CASE b.ok
  <2>1. /\ hart' = b.hart /\ mtimecmp' = b.mtimecmp /\ ticked' = (ticked \/ b.rtc)
        /\ Retire(no) /\ Ran
        /\ UNCHANGED <<sc, mtime, dint, lastLR, touched, frames>>
    BY <1>2 DEF StoreToDevice
  <2>2. TypeOK /\ OnlyOneReserves /\ LateInSlice /\ FramesSaved /\ TimerLevel
    BY DEF IndInv
  <2>3. /\ b.hart = [p \in Procs |-> b.hart[p]]
        /\ \A p \in Procs : \E N \in SUBSET all_ints : b.hart[p] = WithMip(hart[p], N)
        /\ ticked \/ b.rtc =>
             \A p \in Procs : IRQ_M_TIMER \in b.hart[p].mip <=> mtime >= b.mtimecmp[p]
    BY <1>2, BusHarts
  <2>4. c \in Procs /\ \A p \in Procs : Legal(hart[p])
    BY <2>2, HartsLegal
  <2> HIDE DEF b, no
  <2>5. /\ hart' \in [Procs -> Hart]
        /\ \A p \in Procs :
             /\ Legal(hart'[p]) /\ hart'[p].load_reservation = hart[p].load_reservation
             /\ hart'[p].prv = hart[p].prv /\ hart'[p].mstatus = hart[p].mstatus
             /\ (hart'[p].debug = hart[p].debug) /\ hart'[p].mie = hart[p].mie
             /\ hart'[p].mideleg = hart[p].mideleg /\ hart'[p].medeleg = hart[p].medeleg
    BY <2>1, <2>3, <2>4, NewMips
  <2>6. \A p \in Procs : Confined(hart[p], hart'[p])
    BY <2>5 DEF Confined
  <2>7. Procs' = Procs
    BY <2>1 DEF Procs
  <2>8. TimerLevel'
    BY <2>1, <2>3, <2>7 DEF TimerLevel
  <2>9. PICK l \in 0..INTERLEAVE - 1 : /\ late' = [late EXCEPT ![c] = l]
                                       /\ l + (cpu.n - 1) < INTERLEAVE
    BY <2>1, LateStep
  <2>10. /\ cpu.n \in 0..INTERLEAVE /\ cpu.n > 0 /\ cpu.at = "step"
         /\ cpu \in [at : {"idle", "host", "step"}, current_proc : Procs,
                     current_step : 0..INTERLEAVE - 1, steps : 0..INTERLEAVE,
                     n : 0..INTERLEAVE, fresh : BOOLEAN]
         /\ cpu.n <= cpu.steps /\ cpu.current_step + cpu.steps <= INTERLEAVE
    BY <2>2 DEF TypeOK, Executes, Running
  <2>11. no \in BOOLEAN
    BY DEF no
  <2>12. /\ cpu' = [cpu EXCEPT !.n = cpu.n - 1, !.fresh = no]
         /\ cpu.n - 1 \in 0..INTERLEAVE /\ cpu.n - 1 <= cpu.steps
    BY <2>1, <2>10, MachineAssumption DEF Retire
  <2>13. /\ CpuType(cpu') /\ cpu'.current_proc = c
         /\ cpu'.n = cpu.n - 1 /\ cpu'.at = "step"
    BY <2>10, <2>11, <2>12 DEF CpuType, c
  <2>14. c' = c
    BY <2>13 DEF c
  <2>15. OnlyOneReserves'
    BY <2>1, <2>2, <2>5, <2>7, <2>10, <2>13, <2>14 DEF OnlyOneReserves
  <2>16. LateInSlice'
    <3>1. late' \in [Procs -> 0..INTERLEAVE - 1] /\ late'[c] = l
      BY <2>2, <2>4, <2>9 DEF LateInSlice
    <3> QED BY <2>7, <2>9, <2>13, <2>14, <3>1 DEF LateInSlice
  <2>17. mtime' \in 0..MaxTime /\ dint' \subseteq Procs /\ touched' \subseteq Procs
    BY <2>1, <2>2 DEF TypeOK
  <2> QED BY <2>1, <2>5, <2>6, <2>8, <2>13, <2>15, <2>16, <2>17, MachineStep
<1> QED BY <1>1, <1>2

(* A store to memory touches no reservation of the hart that stores.         *)
LEMMA MemoryGood ==
  ASSUME IndInv, Executes, NEW a, StoreToMemory(a)
  PROVE  Good
<1>1. touched \subseteq Procs
  BY Stepping
<1>2. touched' = touched \cup {p \in Procs \ {c} : lastLR[p] = a}
  BY DEF StoreToMemory, StoredBy
<1>3. touched' \subseteq Procs /\ (c \in touched' => c \in touched)
  BY <1>1, <1>2
<1> QED BY <1>3, Untouched DEF StoreToMemory

LEMMA StoreGood == ASSUME IndInv, Store PROVE Good
BY DeviceGood, MemoryGood DEF Store

LEMMA ScGood == ASSUME IndInv, Sc PROVE Good
<1>1. PICK i \in sc.code[c] :
        /\ i.op = "sc" /\ Executes
        /\ IF hart[c].load_reservation = i.addr
           THEN StoreToMemory(i.addr) \/ StoreToDevice(i.addr, i.val)
           ELSE /\ Retire(FALSE) /\ Ran
                /\ UNCHANGED <<sc, hart, mtime, mtimecmp, dint, ticked, lastLR, touched, frames>>
  BY DEF Sc
<1>2. CASE StoreToMemory(i.addr) \/ StoreToDevice(i.addr, i.val)
  BY <1>1, <1>2, DeviceGood, MemoryGood
<1>3. CASE /\ Retire(FALSE) /\ Ran
           /\ UNCHANGED <<sc, hart, mtime, mtimecmp, dint, ticked, lastLR, touched, frames>>
  <2>1. touched \subseteq Procs
    BY Stepping
  <2> QED BY <1>1, <1>3, <2>1, Untouched
<1> QED BY <1>1, <1>2, <1>3

-----------------------------------------------------------------------------
(* In Debug Mode: the hart waits, or stores to memory.                       *)
LEMMA DebugQuiet ==
  ASSUME IndInv, InDebugMode, Retire(FALSE),
         UNCHANGED <<sc, hart, mtime, mtimecmp, ticked, frames, late>>,
         dint' \subseteq Procs, touched' \subseteq Procs, c \in touched' => c \in touched
  PROVE  Good
<1> DEFINE no == FALSE
<1>1. /\ c \in Procs /\ Legal(hart[c]) /\ Stack(hart[c], frames[c])
      /\ hart = [hart EXCEPT ![c] = hart[c]]
      /\ frames = [frames EXCEPT ![c] = frames[c]]
      /\ late = [late EXCEPT ![c] = late[c]] /\ late[c] \in 0..INTERLEAVE - 1
      /\ cpu.n \in 0..INTERLEAVE
      /\ hart[c].load_reservation # NoReservation => c \notin touched
  BY Stepping
<1>2. cpu.at = "step" /\ cpu.n > 0 /\ hart[c].debug
  BY DEF InDebugMode, Running
<1>3. no \in BOOLEAN /\ cpu' = [cpu EXCEPT !.n = cpu.n - 1, !.fresh = no]
  BY DEF Retire
<1> HIDE DEF no
<1>4. cpu.n - 1 \in 0..cpu.n
  BY <1>1, <1>2, MachineAssumption
<1>5. Confined(hart[c], hart[c])
  BY DEF Confined
<1>6. /\ hart' = [hart EXCEPT ![c] = hart[c]]
      /\ frames' = [frames EXCEPT ![c] = frames[c]]
      /\ late' = [late EXCEPT ![c] = late[c]]
      /\ hart[c].load_reservation # NoReservation => c \notin touched'
  BY <1>1
<1> QED BY <1>1, <1>2, <1>3, <1>4, <1>5, <1>6, CpuStep

LEMMA DebugWaitsGood == ASSUME IndInv, DebugWaits PROVE Good
<1>1. touched \subseteq Procs /\ dint \subseteq Procs
  BY Stepping
<1> QED BY <1>1, DebugQuiet DEF DebugWaits, history

LEMMA DebugStoreGood == ASSUME IndInv, DebugStore PROVE Good
<1>1. touched \subseteq Procs /\ dint \subseteq Procs
  BY Stepping
<1>2. PICK a : touched' = touched \cup {p \in Procs \ {c} : lastLR[p] = a}
  BY DEF DebugStore, StoredBy
<1>3. /\ touched' \subseteq Procs /\ (c \in touched' => c \in touched)
      /\ dint' \subseteq Procs
  BY <1>1, <1>2 DEF DebugStore
<1> QED BY <1>3, DebugQuiet DEF DebugStore

(* dret goes back to the mode that Debug Mode was entered from.              *)
LEMMA DretGood == ASSUME IndInv, Dret PROVE Good
<1> DEFINE yes == TRUE
           r == hart[c]
           s == [set_privilege(r, r.dprv) EXCEPT !.debug = FALSE, !.ebreak = TRUE]
<1>1. /\ c \in Procs /\ Legal(r) /\ Stack(r, frames[c])
      /\ frames = [frames EXCEPT ![c] = frames[c]]
      /\ late = [late EXCEPT ![c] = late[c]] /\ late[c] \in 0..INTERLEAVE - 1
      /\ cpu.n \in 0..INTERLEAVE
      /\ r.load_reservation # NoReservation => c \notin touched
      /\ touched \subseteq Procs /\ dint \subseteq Procs
  BY Stepping
<1>2. cpu.at = "step" /\ cpu.n > 0 /\ r.debug
  BY DEF Dret, InDebugMode, Running
<1>3. /\ hart' = [hart EXCEPT ![c] = s]
      /\ cpu' = [cpu EXCEPT !.n = cpu.n - 1, !.fresh = yes] /\ yes \in BOOLEAN /\ yes
      /\ dint' = dint \ {c}
      /\ UNCHANGED <<sc, mtime, mtimecmp, ticked, touched, frames, late>>
  BY DEF Dret, Retire, history
<1>4. /\ s \in Hart /\ s.mstatus = r.mstatus /\ s.mip = r.mip /\ ~s.debug
      /\ s.load_reservation = r.load_reservation
  <2>1. r \in Hart /\ r.dprv \in {PRV_U, PRV_S, PRV_M} /\ r.dprv # PRV_H
    BY <1>1 DEF Legal, Hart, PRV_U, PRV_S, PRV_H, PRV_M
  <2>2. s = [[r EXCEPT !.prv = r.dprv] EXCEPT !.debug = FALSE, !.ebreak = TRUE]
    BY <2>1 DEF set_privilege
  <2> HIDE DEF s, r
  <2> QED BY <2>1, <2>2 DEF Hart
<1> HIDE DEF s, yes
<1>5. Legal(s) /\ Stack(s, frames[c])
  BY <1>1, <1>4, StackSame DEF Legal
<1>6. Confined(r, s)
  BY <1>1, <1>2 DEF Confined, Legal, PRV_M
<1>7. cpu.n - 1 \in 0..cpu.n
  BY <1>1, <1>2, MachineAssumption
<1>8. /\ frames' = [frames EXCEPT ![c] = frames[c]]
      /\ late' = [late EXCEPT ![c] = late[c]]
      /\ s.load_reservation # NoReservation => c \notin touched'
      /\ touched' \subseteq Procs /\ dint' \subseteq Procs
  BY <1>1, <1>3, <1>4
<1> QED BY <1>1, <1>2, <1>3, <1>4, <1>5, <1>6, <1>7, <1>8, CpuStep

-----------------------------------------------------------------------------
(* The host and gdb between two steps.                                       *)
LEMMA BetweenSteps ==
  ASSUME IndInv, UNCHANGED <<sc, hart, cpu, mtime, mtimecmp, ticked, frames, late>>,
         dint' \subseteq Procs, touched' \subseteq Procs,
         cpu.at = "host" \/ touched' = touched
  PROVE  Good
<1>1. TypeOK /\ OnlyOneReserves /\ LateInSlice /\ TimerLevel
  BY DEF IndInv
<1>2. Procs' = Procs /\ c' = c
  BY DEF Procs, c
<1>3. OnlyOneReserves' /\ LateInSlice' /\ TimerLevel'
  BY <1>1, <1>2 DEF OnlyOneReserves, LateInSlice, TimerLevel
<1>4. /\ hart' \in [Procs -> Hart] /\ CpuType(cpu') /\ mtime' \in 0..MaxTime
      /\ \A p \in Procs : /\ Legal(hart'[p]) /\ hart'[p].mstatus = hart[p].mstatus
                          /\ Confined(hart[p], hart'[p])
  BY <1>1 DEF TypeOK, Legal, Confined, CpuType
<1> QED BY <1>3, <1>4, MachineStep

LEMMA HostStoreGood == ASSUME IndInv, HostStore PROVE Good
<1>1. touched \subseteq Procs /\ dint \subseteq Procs
  BY Stepping
<1>2. PICK a : touched' = touched \cup {p \in Procs \ {} : lastLR[p] = a}
  BY DEF HostStore, StoredBy
<1>3. touched' \subseteq Procs /\ dint' \subseteq Procs
  BY <1>1, <1>2 DEF HostStore, machine
<1> QED BY <1>3, BetweenSteps DEF HostStore, machine

LEMMA DebugInterruptGood == ASSUME IndInv, DebugInterrupt PROVE Good
<1>1. touched \subseteq Procs /\ dint \subseteq Procs
  BY Stepping
<1>2. 0 \in Procs
  <2>1. sc.nprocs \in Nat \ {0}
    BY MachineAssumption DEF IndInv, TypeOK
  <2> QED BY <2>1 DEF Procs
<1>3. touched' = touched /\ dint' \subseteq Procs
  BY <1>1, <1>2 DEF DebugInterrupt, history
<1> QED BY <1>1, <1>3, BetweenSteps DEF DebugInterrupt, history

(* A hart is given instructions, and may enter Debug Mode.                   *)
LEMMA BeginStepGood == ASSUME IndInv, BeginStep PROVE Good
<1> DEFINE N(k) == IF hart[c].debug /\ k > DebugSteps THEN DebugSteps ELSE k
<1>1. PICK k \in (IF sc.split THEN 1..INTERLEAVE - cpu.current_step
                             ELSE {INTERLEAVE - cpu.current_step}) :
        cpu' = [cpu EXCEPT !.at = "step", !.steps = k, !.fresh = TRUE, !.n = N(k)]
  BY DEF BeginStep
<1>2. /\ hart' = IF EntersDebugMode
                 THEN [hart EXCEPT ![c] = enter_debug_mode(hart[c])]
                 ELSE hart
      /\ UNCHANGED <<sc, mtime, mtimecmp, dint, ticked, lastLR, touched, frames, late>>
      /\ cpu.at \in {"idle", "host"}
  BY DEF BeginStep, history
<1>3. TypeOK /\ OnlyOneReserves /\ LateInSlice /\ TimerLevel
  BY DEF IndInv
<1>4. c \in Procs /\ hart \in [Procs -> Hart] /\ \A p \in Procs : Legal(hart[p])
  BY <1>3, HartsLegal DEF TypeOK
<1>5. /\ cpu \in [at : {"idle", "host", "step"}, current_proc : Procs,
                  current_step : 0..INTERLEAVE - 1, steps : 0..INTERLEAVE,
                  n : 0..INTERLEAVE, fresh : BOOLEAN]
  BY <1>3 DEF TypeOK
<1>6. cpu.current_step \in 0..INTERLEAVE - 1
  BY <1>5
<1>7. k \in 1..INTERLEAVE - cpu.current_step
  BY <1>1, <1>6, MachineAssumption
<1>8. /\ k \in 0..INTERLEAVE /\ cpu.current_step + k <= INTERLEAVE
      /\ N(k) \in 0..INTERLEAVE /\ N(k) <= k
  BY <1>6, <1>7, MachineAssumption
<1> HIDE DEF N
<1>9. /\ cpu' \in [at : {"idle", "host", "step"}, current_proc : Procs,
                   current_step : 0..INTERLEAVE - 1, steps : 0..INTERLEAVE,
                   n : 0..INTERLEAVE, fresh : BOOLEAN]
      /\ cpu'.at = "step" /\ cpu'.n = N(k) /\ cpu'.steps = k
      /\ cpu'.current_step = cpu.current_step /\ cpu'.current_proc = cpu.current_proc
  BY <1>1, <1>5, <1>8
<1>10. cpu'.fresh
  BY <1>1, <1>5
<1>11. CpuType(cpu') /\ c' = c
  BY <1>8, <1>9 DEF CpuType, c
<1>12. /\ hart' \in [Procs -> Hart]
       /\ \A p \in Procs :
            /\ Legal(hart'[p]) /\ hart'[p].mstatus = hart[p].mstatus
            /\ Confined(hart[p], hart'[p])
            /\ hart'[p].load_reservation = hart[p].load_reservation
            /\ hart'[p].mip = hart[p].mip
  <2>1. CASE hart' = hart
    BY <1>4, <2>1 DEF Confined
  <2>2. CASE hart' = [hart EXCEPT ![c] = enter_debug_mode(hart[c])]
    <3> DEFINE s == enter_debug_mode(hart[c])
    <3>1. /\ Legal(s) /\ s.prv = PRV_M /\ s.mstatus = hart[c].mstatus
          /\ s.load_reservation = hart[c].load_reservation /\ s.mip = hart[c].mip
      BY <1>4, EnterDebug
    <3>2. hart' = [hart EXCEPT ![c] = s]
      BY <2>2
    <3> HIDE DEF s
    <3>3. Confined(hart[c], s) /\ s \in Hart
      BY <3>1 DEF Confined, PRV_M, Legal
    <3>4. hart' \in [Procs -> Hart] /\ hart'[c] = s /\ \A p \in Procs : p # c => hart'[p] = hart[p]
      BY <1>4, <3>2, <3>3
    <3>5. \A p \in Procs : p # c => Confined(hart[p], hart'[p])
      BY <3>4 DEF Confined
    <3> QED BY <1>4, <3>1, <3>3, <3>4, <3>5
  <2> QED BY <1>2, <2>1, <2>2
<1>13. Procs' = Procs
  BY <1>2 DEF Procs
<1>14. OnlyOneReserves'
  BY <1>2, <1>3, <1>9, <1>11, <1>12, <1>13 DEF OnlyOneReserves
<1>15. LateInSlice'
  BY <1>2, <1>3, <1>10, <1>13 DEF LateInSlice
<1>16. TimerLevel'
  BY <1>2, <1>3, <1>12, <1>13 DEF TimerLevel
<1>17. mtime' \in 0..MaxTime /\ dint' \subseteq Procs /\ touched' \subseteq Procs
  BY <1>2, <1>3 DEF TypeOK
<1> QED BY <1>2, <1>11, <1>12, <1>14, <1>15, <1>16, <1>17, MachineStep

(* The end of a step, and with the slice the end of the reservation.         *)
LEMMA EndStepGood == ASSUME IndInv, EndStep PROVE Good
<1>1. TypeOK /\ OnlyOneReserves /\ LateInSlice /\ TimerLevel
  BY DEF IndInv
<1>2. /\ cpu.at = "step" /\ cpu.n = 0
      /\ UNCHANGED <<sc, mtimecmp, dint, lastLR, touched, frames, late>>
  BY DEF EndStep
<1>3. c \in Procs /\ hart \in [Procs -> Hart] /\ \A p \in Procs : Legal(hart[p])
  BY <1>1, HartsLegal DEF TypeOK
<1>4. /\ cpu \in [at : {"idle", "host", "step"}, current_proc : Procs,
                  current_step : 0..INTERLEAVE - 1, steps : 0..INTERLEAVE,
                  n : 0..INTERLEAVE, fresh : BOOLEAN]
      /\ cpu.current_step + cpu.steps <= INTERLEAVE
  BY <1>1, <1>2 DEF TypeOK
<1>5. Procs' = Procs
  BY <1>2 DEF Procs
<1>6. /\ mtime \in 0..MaxTime /\ dint' \subseteq Procs /\ touched' \subseteq Procs
  BY <1>1, <1>2 DEF TypeOK
<1>7. CASE cpu.current_step + cpu.steps # INTERLEAVE
  <2>1. /\ cpu' = [cpu EXCEPT !.at = "idle", !.current_step = cpu.current_step + cpu.steps]
        /\ UNCHANGED <<hart, mtime, ticked>>
    BY <1>7 DEF EndStep
  <2>2. cpu.current_step + cpu.steps \in 0..INTERLEAVE - 1
    <3>1. cpu.current_step \in Nat /\ cpu.steps \in Nat
      BY <1>4
    <3> QED BY <1>4, <1>7, <3>1, MachineAssumption
  <2>3. CpuType(cpu') /\ cpu'.at = "idle" /\ cpu'.current_proc = cpu.current_proc
    BY <1>2, <1>4, <2>1, <2>2 DEF CpuType
  <2>4. c' = c
    BY <2>3 DEF c
  <2>5. OnlyOneReserves' /\ LateInSlice' /\ TimerLevel'
    BY <1>1, <1>2, <1>5, <2>1, <2>3, <2>4 DEF OnlyOneReserves, LateInSlice, TimerLevel
  <2>6. /\ hart' \in [Procs -> Hart] /\ mtime' \in 0..MaxTime
        /\ \A p \in Procs : /\ Legal(hart'[p]) /\ hart'[p].mstatus = hart[p].mstatus
                            /\ Confined(hart[p], hart'[p])
    BY <1>3, <1>6, <2>1 DEF Confined
  <2> QED BY <1>2, <1>6, <2>3, <2>5, <2>6, MachineStep
<1>8. CASE cpu.current_step + cpu.steps = INTERLEAVE
  <2> DEFINE y == yield_load_reservation(hart[c])
             yielded == [hart EXCEPT ![c] = y]
             last == c + 1 = sc.nprocs
             time == IF last /\ mtime < MaxTime THEN mtime + 1 ELSE mtime
             next == IF last THEN 0 ELSE c + 1
  <2>1. /\ cpu' = [cpu EXCEPT !.at = "host", !.current_step = 0, !.current_proc = next]
        /\ mtime' = time
        /\ hart' = IF last THEN rtc_increment(time, mtimecmp, yielded) ELSE yielded
        /\ ticked' = (ticked \/ last)
    BY <1>8 DEF EndStep
  <2>2. time \in 0..MaxTime /\ (~last => time = mtime)
    BY <1>6, MachineAssumption
  <2>3. next \in Procs
    <3>1. sc.nprocs \in Nat \ {0}
      BY <1>1, MachineAssumption DEF TypeOK
    <3> QED BY <1>3, <3>1 DEF Procs
  <2>4. /\ Legal(y) /\ y.load_reservation = NoReservation
        /\ y.prv = hart[c].prv /\ y.mstatus = hart[c].mstatus /\ (y.debug = hart[c].debug)
        /\ y.mie = hart[c].mie /\ y.mip = hart[c].mip
        /\ y.mideleg = hart[c].mideleg /\ y.medeleg = hart[c].medeleg
    BY <1>3, Yield
  <2> HIDE DEF y, time, next
  <2>5. y \in Hart
    BY <2>4 DEF Legal
  <2>6. /\ yielded \in [Procs -> Hart] /\ yielded[c] = y
        /\ \A p \in Procs : p # c => yielded[p] = hart[p]
    BY <1>3, <2>5
  <2> HIDE DEF yielded
  <2>7. \A p \in Procs : p # c => hart[p].load_reservation = NoReservation
    BY <1>1 DEF OnlyOneReserves
  <2>8. \A p \in Procs :
          /\ Legal(yielded[p]) /\ yielded[p].load_reservation = NoReservation
          /\ yielded[p].prv = hart[p].prv /\ yielded[p].mstatus = hart[p].mstatus
          /\ yielded[p].mie = hart[p].mie /\ yielded[p].mip = hart[p].mip
          /\ yielded[p].mideleg = hart[p].mideleg /\ yielded[p].medeleg = hart[p].medeleg
    BY <1>3, <2>4, <2>6, <2>7
  <2>9. /\ hart' \in [Procs -> Hart]
        /\ \A p \in Procs :
             /\ Legal(hart'[p]) /\ hart'[p].load_reservation = NoReservation
             /\ hart'[p].prv = hart[p].prv /\ hart'[p].mstatus = hart[p].mstatus
             /\ hart'[p].mie = hart[p].mie
             /\ hart'[p].mideleg = hart[p].mideleg /\ hart'[p].medeleg = hart[p].medeleg
        /\ TimerLevel'
    <3>1. CASE last
      <4>1. hart' = rtc_increment(time, mtimecmp, yielded)
        BY <2>1, <3>1
      <4>2. /\ hart' = [p \in Procs |-> hart'[p]]
            /\ \A p \in Procs :
                 /\ \E N \in SUBSET all_ints : hart'[p] = WithMip(yielded[p], N)
                 /\ IRQ_M_TIMER \in hart'[p].mip <=> time >= mtimecmp[p]
        <5>1. \A p \in Procs : Legal(yielded[p])
          BY <2>8
        <5> QED BY <4>1, <5>1, RtcIncrement
      <4>3. /\ hart' \in [Procs -> Hart]
            /\ \A p \in Procs :
                 /\ Legal(hart'[p]) /\ hart'[p].load_reservation = yielded[p].load_reservation
                 /\ hart'[p].prv = yielded[p].prv /\ hart'[p].mstatus = yielded[p].mstatus
                 /\ hart'[p].mie = yielded[p].mie
                 /\ hart'[p].mideleg = yielded[p].mideleg /\ hart'[p].medeleg = yielded[p].medeleg
        <5>1. \A p \in Procs : Legal(yielded[p])
          BY <2>8
        <5>2. \A p \in Procs : \E N \in SUBSET all_ints : hart'[p] = WithMip(yielded[p], N)
          BY <4>2
        <5>3. hart' = [p \in Procs |-> hart'[p]]
          BY <4>2
        <5>4. /\ hart' \in [Procs -> Hart]
              /\ \A p \in Procs :
                   /\ Legal(hart'[p]) /\ hart'[p].load_reservation = yielded[p].load_reservation
                   /\ hart'[p].prv = yielded[p].prv /\ hart'[p].mstatus = yielded[p].mstatus
                   /\ (hart'[p].debug = yielded[p].debug) /\ hart'[p].mie = yielded[p].mie
                   /\ hart'[p].mideleg = yielded[p].mideleg /\ hart'[p].medeleg = yielded[p].medeleg
          BY <5>1, <5>2, <5>3, NewMips
        <5> QED BY <5>4
      <4>4. TimerLevel'
        BY <1>2, <1>5, <2>1, <4>2 DEF TimerLevel
      <4> QED BY <2>8, <4>3, <4>4
    <3>2. CASE ~last
      <4>1. hart' = yielded /\ (ticked' => ticked) /\ mtime' = mtime
        BY <2>1, <2>2, <3>2
      <4>2. TimerLevel'
        BY <1>1, <1>2, <1>5, <2>8, <4>1 DEF TimerLevel
      <4> QED BY <2>6, <2>8, <4>1, <4>2
    <3> QED BY <3>1, <3>2
  <2>10. \A p \in Procs : Confined(hart[p], hart'[p])
    BY <2>9 DEF Confined
  <2>11. CpuType(cpu') /\ cpu'.at = "host"
    <3>1. 0 \in 0..INTERLEAVE - 1
      BY MachineAssumption
    <3> QED BY <1>2, <1>4, <2>1, <2>3, <3>1 DEF CpuType
  <2>12. OnlyOneReserves' /\ LateInSlice'
    BY <1>1, <1>2, <1>5, <2>9, <2>11 DEF OnlyOneReserves, LateInSlice
  <2>13. mtime' \in 0..MaxTime
    BY <2>1, <2>2
  <2> QED BY <1>2, <1>6, <2>9, <2>10, <2>11, <2>12, <2>13, MachineStep
<1> QED BY <1>7, <1>8

-----------------------------------------------------------------------------
(* A machine out of reset.                                                   *)
LEMMA InitInv == Init => IndInv
<1> SUFFICES ASSUME Init PROVE IndInv
  OBVIOUS
<1>1. sc \in Scenarios /\ sc.nprocs \in Nat \ {0}
  BY MachineAssumption DEF Init
<1>2. 0 \in Procs
  BY <1>1 DEF Procs
<1>3. ResetStatus \in Status /\ ~ResetStatus.ie[PRV_U] /\ ~ResetStatus.ie[PRV_H]
  BY DEF ResetStatus, Status, PRV_U, PRV_S, PRV_H
<1>4. /\ reset \in Hart /\ reset.mstatus = ResetStatus /\ ~reset.debug
      /\ reset.load_reservation = NoReservation
  BY <1>3 DEF reset, Hart
<1>5. /\ hart \in [Procs -> Hart]
      /\ \A p \in Procs : hart[p] = reset
  BY <1>4 DEF Init
<1>6. /\ cpu.at = "idle" /\ cpu.n = 0
      /\ cpu \in [at : {"idle", "host", "step"}, current_proc : Procs,
                  current_step : 0..INTERLEAVE - 1, steps : 0..INTERLEAVE,
                  n : 0..INTERLEAVE, fresh : BOOLEAN]
  <2>1. 0 \in 0..INTERLEAVE - 1 /\ 0 \in 0..INTERLEAVE
    BY MachineAssumption
  <2> QED BY <1>2, <2>1 DEF Init
<1>7. frames \in [Procs -> Seq(Frame)] /\ \A p \in Procs : frames[p] = <<>>
  <2>1. <<>> \in Seq(Frame)
    OBVIOUS
  <2> QED BY <2>1 DEF Init
<1>8. mtime \in 0..MaxTime /\ dint \subseteq Procs /\ touched \subseteq Procs
  BY MachineAssumption DEF Init
<1>9. TypeOK
  BY <1>1, <1>3, <1>4, <1>5, <1>6, <1>7, <1>8 DEF TypeOK
<1>10. OnlyOneReserves
  BY <1>4, <1>5 DEF OnlyOneReserves
<1>11. LateInSlice
  <2>1. 0 \in 0..INTERLEAVE - 1
    BY MachineAssumption
  <2> QED BY <1>6, <2>1 DEF LateInSlice, Init
<1>12. FramesSaved
  BY <1>7 DEF FramesSaved, Stack
<1>13. TimerLevel
  BY DEF TimerLevel, Init
<1> QED BY <1>9, <1>10, <1>11, <1>12, <1>13 DEF IndInv

(* Every step keeps the invariant and confines the harts below M-mode.       *)
LEMMA NextGood == IndInv /\ [Next]_vars => Good
<1> SUFFICES ASSUME IndInv, [Next]_vars PROVE Good
  OBVIOUS
<1>1. CASE UNCHANGED vars
  <2>1. touched \subseteq Procs /\ dint \subseteq Procs
    BY Stepping
  <2> QED BY <1>1, <2>1, BetweenSteps DEF vars, machine, history
<1>2. CASE Next
  BY <1>2, TakeInterruptGood, NopGood, EcallGood, EbreakGood, CsrrwGood, MretGood, SretGood,
     LrGood, ScGood, StoreGood, DebugWaitsGood, DebugStoreGood, DretGood,
     BeginStepGood, EndStepGood, HostStoreGood, DebugInterruptGood DEF Next
<1> QED BY <1>1, <1>2

LEMMA Invariant == Spec => []IndInv
<1>1. IndInv /\ [Next]_vars => IndInv'
  BY NextGood DEF Good
<1> QED BY InitInv, <1>1, PTL DEF Spec

(* A reservation that can make an sc succeed is one that nobody stored to.   *)
THEOREM Reservations == Spec => []ReservationHolds
<1>1. IndInv => ReservationHolds
  BY DEF IndInv, OnlyOneReserves, ReservationHolds
<1> QED BY Invariant, <1>1, PTL

(* MTIP says whether mtime has reached mtimecmp, on every hart.              *)
THEOREM TimerIsLevel == Spec => []TimerLevel
<1>1. IndInv => TimerLevel
  BY DEF IndInv
<1> QED BY Invariant, <1>1, PTL

(* No hart runs on with an interrupt due for as long as a slice.             *)
THEOREM Timely == Spec => []InterruptsTimely
<1>1. IndInv => InterruptsTimely
  <2> SUFFICES ASSUME IndInv PROVE InterruptsTimely
    OBVIOUS
  <2>1. TypeOK /\ late \in [Procs -> 0..INTERLEAVE - 1]
    BY DEF IndInv, LateInSlice
  <2>2. \A p \in Procs : late[p] \in 0..INTERLEAVE - 1
    BY <2>1
  <2>3. \A p \in Procs : late[p] < INTERLEAVE
    BY <2>2, MachineAssumption
  <2> QED BY <2>1, <2>3 DEF InterruptsTimely
<1> QED BY Invariant, <1>1, PTL

(* Below M-mode nothing of M-mode is reached.                                *)
THEOREM Confinement == Spec => GuestConfined
<1>1. IndInv /\ [Next]_vars =>
        \A p \in Procs :
          hart[p].prv < PRV_M /\ hart'[p].prv < PRV_M =>
            LET r == hart[p]  s == hart'[p] IN
            /\ s.mie \ r.mideleg = r.mie \ r.mideleg
            /\ s.mideleg = r.mideleg /\ s.medeleg = r.medeleg
            /\ s.mstatus.MPP = r.mstatus.MPP /\ s.mstatus.MPIE = r.mstatus.MPIE
            /\ s.mstatus.ie[PRV_M] = r.mstatus.ie[PRV_M]
  BY NextGood DEF Good, Confined
<1> QED BY Invariant, <1>1, PTL DEF Spec, GuestConfined

(* A return goes back to the mode that was interrupted, with its enable.     *)
LEMMA ReturnStep ==
  ASSUME IndInv, frames[c] # <<>>, hart[c].prv >= frames[c][1].level,
         \/ frames[c][1].level = PRV_M /\ Mret
         \/ frames[c][1].level = PRV_S /\ Sret
  PROVE  /\ hart'[c].prv = frames[c][1].prv
         /\ hart'[c].mstatus.ie[frames[c][1].prv] = frames[c][1].ie
<1> DEFINE r == hart[c]
           f == frames[c][1]
<1>1. /\ c \in Procs /\ Legal(r) /\ Stack(r, frames[c])
  BY Stepping
<1>2. hart \in [Procs -> Hart] /\ r.prv \in {PRV_U, PRV_S, PRV_M}
  BY <1>1 DEF IndInv, TypeOK, Legal, Hart
<1>3. f \in Frame /\ Saved(r, f)
  BY <1>1 DEF Stack
<1> HIDE DEF f
<1>4. f.prv \in {PRV_U, PRV_S, PRV_M} /\ (f.prv = PRV_U => ~f.ie) /\ f.ie \in BOOLEAN
  BY <1>3 DEF Frame, Saved
<1>5. CASE f.level = PRV_M /\ Mret
  <2> DEFINE s == return_m(r)
  <2>1. r.prv = PRV_M /\ ~r.debug
    BY <1>2, <1>5 DEF f, Mret, Executes, PRV_U, PRV_S, PRV_M
  <2>2. hart' = [hart EXCEPT ![c] = s]
    BY <1>5, <2>1 DEF Mret, Returns, PRV_M
  <2>3. /\ Legal(s)
        /\ s.prv = IF r.mstatus.MPP = PRV_H THEN PRV_U ELSE r.mstatus.MPP
        /\ r.mstatus.MPP \in {PRV_S, PRV_M} => s.mstatus.ie[r.mstatus.MPP] = r.mstatus.MPIE
    BY <1>1, <2>1, ReturnM
  <2>4. r.mstatus.MPP = f.prv /\ (r.mstatus.MPIE = f.ie)
    BY <1>3, <1>5 DEF Saved
  <2> HIDE DEF s, r
  <2>5. hart'[c] = s
    BY <1>1, <1>2, <2>2
  <2>6. s.prv = f.prv
    BY <1>4, <2>3, <2>4 DEF PRV_U, PRV_S, PRV_H, PRV_M
  <2>7. s.mstatus.ie[f.prv] = f.ie
    <3>1. CASE f.prv = PRV_U
      <4>1. ~s.mstatus.ie[PRV_U] /\ s.mstatus.ie[PRV_U] \in BOOLEAN
        BY <2>3 DEF Legal, Hart, Status, PRV_U
      <4> QED BY <1>4, <3>1, <4>1
    <3>2. CASE f.prv \in {PRV_S, PRV_M}
      BY <2>3, <2>4, <3>2
    <3> QED BY <1>4, <3>1, <3>2
  <2> QED BY <2>5, <2>6, <2>7 DEF f
<1>6. CASE f.level = PRV_S /\ Sret
  <2> DEFINE s == return_s(r)
  <2>1. r.prv >= PRV_S /\ ~r.debug
    BY <1>2, <1>6 DEF f, Sret, Executes
  <2>2. hart' = [hart EXCEPT ![c] = s]
    BY <1>6, <2>1 DEF Sret, Returns
  <2>3. /\ Legal(s) /\ s.prv = r.mstatus.SPP
        /\ r.mstatus.SPP = PRV_S => s.mstatus.ie[PRV_S] = r.mstatus.SPIE
    BY <1>1, <2>1, ReturnS
  <2>4. r.mstatus.SPP = f.prv /\ (r.mstatus.SPIE = f.ie)
    BY <1>3, <1>6 DEF Saved
  <2>5. r.mstatus.SPP \in {PRV_U, PRV_S}
    BY <1>1 DEF Legal, Hart, Status
  <2> HIDE DEF s, r
  <2>6. hart'[c] = s
    BY <1>1, <1>2, <2>2
  <2>7. s.mstatus.ie[f.prv] = f.ie
    <3>1. CASE f.prv = PRV_U
      <4>1. ~s.mstatus.ie[PRV_U] /\ s.mstatus.ie[PRV_U] \in BOOLEAN
        BY <2>3 DEF Legal, Hart, Status, PRV_U
      <4> QED BY <1>4, <3>1, <4>1
    <3>2. CASE f.prv = PRV_S
      BY <2>3, <2>4, <3>2
    <3> QED BY <2>4, <2>5, <3>1, <3>2
  <2> QED BY <2>3, <2>4, <2>6, <2>7 DEF f
<1> QED BY <1>5, <1>6 DEF f

THEOREM ReturnsRestore == Spec => ReturnRestores
<1>1. IndInv /\ [Next]_vars =>
        (LET f == frames[c][1] IN
         /\ frames[c] # <<>>
         /\ hart[c].prv >= f.level
         /\ \/ f.level = PRV_M /\ Mret
            \/ f.level = PRV_S /\ Sret
         => /\ hart'[c].prv = f.prv
            /\ hart'[c].mstatus.ie[f.prv] = f.ie)
  BY ReturnStep
<1> QED BY Invariant, <1>1, PTL DEF Spec, ReturnRestores

-----------------------------------------------------------------------------
(* The bus.  Its addresses are smaller than W, and the keys of its map are   *)
(* counted down from W.                                                      *)

LEMMA DivMod ==
  ASSUME NEW n \in Nat, NEW z \in Nat \ {0}
  PROVE  /\ n \div z \in Nat /\ n % z \in 0..(z - 1)
         /\ n = z * (n \div z) + (n % z)
OBVIOUS

LEMMA TimesLess ==
  ASSUME NEW a \in Nat, NEW b \in Nat, NEW z \in Nat, a <= b
  PROVE  z * a \in Nat /\ z * b \in Nat /\ z * a <= z * b
OBVIOUS

(* A sum of two addresses is reduced at most once.                           *)
LEMMA Reduced ==
  ASSUME NEW w \in Nat \ {0}, NEW x \in Nat, x < 2 * w
  PROVE  x % w = IF x < w THEN x ELSE x - w
<1> DEFINE d == x \div w
           m == x % w
<1>1. d \in Nat /\ m \in 0..(w - 1) /\ x = w * d + m
  BY DivMod
<1> HIDE DEF d, m
<1>2. d = 0 \/ d = 1
  <2>1. ASSUME 2 <= d PROVE FALSE
    <3>1. w * 2 <= w * d /\ w * d \in Nat
      BY <1>1, <2>1, TimesLess
    <3> DEFINE y == w * d
    <3> HIDE DEF y
    <3>2. w * 2 <= y /\ y \in Nat /\ x = y + m
      BY <1>1, <3>1 DEF y
    <3> QED BY <1>1, <3>2
  <2> QED BY <1>1, <2>1
<1>3. CASE d = 0
  <2>1. x = m
    BY <1>1, <1>3
  <2> QED BY <1>1, <2>1 DEF m
<1>4. CASE d = 1
  <2>1. x = w + m
    BY <1>1, <1>4
  <2> QED BY <1>1, <2>1 DEF m
<1> QED BY <1>2, <1>3, <1>4

W == 2^BusBits

LEMMA Addresses ==
  /\ W \in Nat \ {0} /\ DRAM_BASE \in Nat /\ EXT_IO_BASE \in Nat
  /\ DEBUG_START \in Nat \ {0} /\ DEFAULT_RSTVEC \in Nat
  /\ DEBUG_START <= DEFAULT_RSTVEC /\ DEFAULT_RSTVEC < EXT_IO_BASE
  /\ EXT_IO_BASE < DRAM_BASE /\ DRAM_BASE < W
BY MachineAssumption, LayoutAssumption DEF W

LEMMA NegIs ==
  ASSUME NEW a \in Nat, a < W
  PROVE  Neg(a) = IF a = 0 THEN 0 ELSE W - a
<1>1. W \in Nat \ {0}
  BY Addresses
<1>2. Neg(a) = (W - a) % W
  BY DEF Neg, W
<1> HIDE DEF W
<1>3. W - a \in Nat /\ W - a < 2 * W
  BY <1>1
<1>4. (W - a) % W = IF W - a < W THEN W - a ELSE (W - a) - W
  BY <1>1, <1>3, Reduced
<1> QED BY <1>1, <1>2, <1>4

(* The registers of a hart are behind the timer, below memory, and nobody    *)
(* else's.                                                                   *)
LEMMA HartRegisters ==
  ASSUME IndInv
  PROVE  /\ sc.nprocs \in Nat \ {0} /\ rtc_size = 1 + sc.nprocs
         /\ \A p \in Procs : /\ p \in Nat /\ p < sc.nprocs /\ cpu_addr(p) \in Nat
                             /\ EXT_IO_BASE + sc.nprocs < cpu_addr(p)
                             /\ cpu_addr(p) < DRAM_BASE
         /\ \A p, q \in Procs : cpu_addr(p) = cpu_addr(q) => p = q
<1> DEFINE n == sc.nprocs
           d == n \div Align
<1>1. /\ n \in Nat \ {0} /\ Align \in Nat \ {0} /\ EXT_IO_BASE \in Nat /\ DRAM_BASE \in Nat
      /\ EXT_IO_BASE + (d + 1 + n) * Align <= DRAM_BASE
  BY MachineAssumption, LayoutAssumption DEF IndInv, TypeOK
<1>2. \A p \in Procs : p \in Nat /\ p < n
  BY <1>1 DEF Procs
<1>3. rtc_size = 1 + n
  BY DEF rtc_size
<1>4. \A p \in Procs : cpu_addr(p) = EXT_IO_BASE + (d + 1) * Align + p * Align
  <2>1. rtc_size - 1 = n
    BY <1>1, <1>3
  <2> QED BY <2>1 DEF cpu_addr
<1>5. d \in Nat /\ n % Align \in 0..(Align - 1) /\ n = Align * d + (n % Align)
  BY <1>1, DivMod
<1> HIDE DEF n, d
<1> DEFINE e == (d + 1) * Align
<1>6. e \in Nat /\ n < e
  BY <1>1, <1>5
<1>7. (d + 1 + n) * Align = e + n * Align /\ n * Align \in Nat
  BY <1>1, <1>5
<1> HIDE DEF e
<1>8. \A p \in Procs : cpu_addr(p) = EXT_IO_BASE + e + p * Align
  BY <1>4 DEF e
<1>9. ASSUME NEW p \in Procs
      PROVE  p * Align \in Nat /\ p * Align + Align <= n * Align
  <2>1. p \in Nat /\ p + 1 <= n
    BY <1>1, <1>2
  <2>2. Align * (p + 1) <= Align * n
    BY <1>1, <2>1, TimesLess
  <2> QED BY <1>1, <2>1, <2>2
<1>10. ASSUME NEW p \in Procs
       PROVE  /\ cpu_addr(p) \in Nat /\ EXT_IO_BASE + n < cpu_addr(p)
              /\ cpu_addr(p) < DRAM_BASE
  <2> DEFINE pa == p * Align
             na == n * Align
  <2>1. /\ pa \in Nat /\ na \in Nat /\ pa + Align <= na
        /\ cpu_addr(p) = EXT_IO_BASE + e + pa /\ EXT_IO_BASE + e + na <= DRAM_BASE
    BY <1>1, <1>6, <1>7, <1>8, <1>9
  <2> HIDE DEF pa, na
  <2> QED BY <1>1, <1>6, <2>1
<1>11. ASSUME NEW p \in Procs, NEW q \in Procs, cpu_addr(p) = cpu_addr(q)
       PROVE  p = q
  <2>1. p * Align = q * Align
    <3> DEFINE pa == p * Align
               qa == q * Align
    <3>1. pa \in Nat /\ qa \in Nat /\ EXT_IO_BASE + e + pa = EXT_IO_BASE + e + qa
      BY <1>8, <1>9, <1>11
    <3> HIDE DEF pa, qa
    <3>2. pa = qa
      BY <1>1, <1>6, <3>1
    <3> QED BY <3>2 DEF pa, qa
  <2>2. p \in Nat /\ q \in Nat
    BY <1>2
  <2> QED BY <1>1, <2>1, <2>2
<1> QED BY <1>1, <1>2, <1>3, <1>10, <1>11 DEF n

(* The entries of the map.                                                   *)
HartEntry(p) == [key |-> W - cpu_addr(p), dev |-> <<"cpu", p>>]
TimerEntry == [key |-> W - EXT_IO_BASE, dev |-> <<"rtc", 0>>]

LEMMA Entries ==
  ASSUME IndInv
  PROVE  /\ \A p \in Procs : HartEntry(p) \in devices
         /\ TimerEntry \in devices
         /\ \A d \in devices :
              \/ d = TimerEntry
              \/ \E p \in Procs : d = HartEntry(p)
              \/ d.key > W - EXT_IO_BASE /\ d.key \in Nat /\ d.dev[1] \in {"debug", "rom"}
<1>1. \A p \in Procs : Neg(cpu_addr(p)) = W - cpu_addr(p)
  <2> TAKE p \in Procs
  <2>1. cpu_addr(p) \in Nat /\ cpu_addr(p) < W /\ cpu_addr(p) # 0
    BY Addresses, HartRegisters
  <2> QED BY <2>1, NegIs
<1>2. /\ Neg(EXT_IO_BASE) = W - EXT_IO_BASE /\ Neg(DEBUG_START) = W - DEBUG_START
      /\ Neg(DEFAULT_RSTVEC) = W - DEFAULT_RSTVEC
  <2>1. /\ EXT_IO_BASE \in Nat /\ EXT_IO_BASE < W /\ EXT_IO_BASE # 0
        /\ DEBUG_START \in Nat /\ DEBUG_START < W /\ DEBUG_START # 0
        /\ DEFAULT_RSTVEC \in Nat /\ DEFAULT_RSTVEC < W /\ DEFAULT_RSTVEC # 0
    BY Addresses
  <2> QED BY <2>1, NegIs
<1>3. /\ \A p \in Procs : HartEntry(p) \in devices
      /\ TimerEntry \in devices
  BY <1>1, <1>2 DEF devices, HartEntry, TimerEntry
<1>4. ASSUME NEW d \in devices
      PROVE  \/ d = TimerEntry
             \/ \E p \in Procs : d = HartEntry(p)
             \/ d = [key |-> W - DEBUG_START, dev |-> <<"debug", 0>>]
             \/ d = [key |-> W - DEFAULT_RSTVEC, dev |-> <<"rom", 0>>]
  BY <1>1, <1>2 DEF devices, HartEntry, TimerEntry
<1>5. /\ W - DEBUG_START > W - EXT_IO_BASE /\ W - DEBUG_START \in Nat
      /\ W - DEFAULT_RSTVEC > W - EXT_IO_BASE /\ W - DEFAULT_RSTVEC \in Nat
  BY Addresses
<1>6. ASSUME NEW d \in devices
      PROVE  \/ d = TimerEntry
             \/ \E p \in Procs : d = HartEntry(p)
             \/ d.key > W - EXT_IO_BASE /\ d.key \in Nat /\ d.dev[1] \in {"debug", "rom"}
  BY <1>4, <1>5
<1> QED BY <1>3, <1>6

LEMMA EntryKeys ==
  ASSUME IndInv
  PROVE  /\ TimerEntry.key = W - EXT_IO_BASE /\ TimerEntry.dev[1] = "rtc"
         /\ \A p \in Procs : /\ HartEntry(p).key = W - cpu_addr(p)
                             /\ HartEntry(p).dev[1] = "cpu" /\ HartEntry(p).dev[2] = p
         /\ \A d \in devices : d.key \in Nat
<1>1. /\ TimerEntry.key = W - EXT_IO_BASE /\ TimerEntry.dev[1] = "rtc"
      /\ \A p \in Procs : /\ HartEntry(p).key = W - cpu_addr(p)
                          /\ HartEntry(p).dev[1] = "cpu" /\ HartEntry(p).dev[2] = p
  BY DEF TimerEntry, HartEntry
<1>2. /\ W - EXT_IO_BASE \in Nat /\ \A p \in Procs : W - cpu_addr(p) \in Nat
  BY Addresses, HartRegisters
<1> QED BY <1>1, <1>2, Entries

(* A store to the ipi address of a hart finds that hart.                     *)
LEMMA FindsHart ==
  ASSUME IndInv, NEW p \in Procs
  PROVE  lower_bound(Neg(cpu_addr(p))) = {HartEntry(p)}
<1> DEFINE k == W - cpu_addr(p)
           above == {d \in devices : d.key >= k}
<1>1. /\ cpu_addr(p) \in Nat /\ cpu_addr(p) < W /\ cpu_addr(p) # 0 /\ W \in Nat
      /\ EXT_IO_BASE \in Nat /\ EXT_IO_BASE < cpu_addr(p)
  BY Addresses, HartRegisters
<1>2. Neg(cpu_addr(p)) = k
  BY <1>1, NegIs
<1>3. HartEntry(p) \in above /\ HartEntry(p).key = k
  BY <1>1, Entries, EntryKeys
<1>4. ASSUME NEW d \in above, d.key <= k PROVE d = HartEntry(p)
  <2>1. d \in devices /\ d.key = k
    BY <1>1, <1>4, EntryKeys
  <2>2. d # TimerEntry /\ ~(d.key > W - EXT_IO_BASE)
    BY <1>1, <2>1, EntryKeys
  <2>3. PICK q \in Procs : d = HartEntry(q)
    BY <2>1, <2>2, Entries
  <2>4. cpu_addr(q) = cpu_addr(p)
    BY <1>1, <2>1, <2>3, EntryKeys, HartRegisters
  <2> QED BY <2>3, <2>4, HartRegisters
<1>5. lower_bound(k) = {d \in above : \A e \in above : d.key <= e.key}
  BY DEF lower_bound
<1>6. \A e \in above : k <= e.key
  BY <1>1, EntryKeys
<1> HIDE DEF above
<1> QED BY <1>2, <1>3, <1>4, <1>5, <1>6

(* A store to the timecmp address of a hart finds the timer.                 *)
LEMMA FindsTimer ==
  ASSUME IndInv, NEW p \in Procs
  PROVE  lower_bound(Neg(timecmp_addr(p))) = {TimerEntry}
<1> DEFINE a == timecmp_addr(p)
           k == W - a
           above == {d \in devices : d.key >= k}
<1>1. /\ a \in Nat /\ a < W /\ a # 0 /\ W \in Nat /\ EXT_IO_BASE \in Nat
      /\ EXT_IO_BASE < a /\ EXT_IO_BASE < W /\ \A q \in Procs : a < cpu_addr(q) /\ cpu_addr(q) \in Nat
  <2>1. a = EXT_IO_BASE + 1 + p
    BY DEF timecmp_addr
  <2> QED BY <2>1, Addresses, HartRegisters
<1> HIDE DEF a
<1>2. Neg(a) = k
  BY <1>1, NegIs
<1>3. TimerEntry \in above /\ TimerEntry.key = W - EXT_IO_BASE
  BY <1>1, Entries, EntryKeys
<1>4. ASSUME NEW d \in above
      PROVE  W - EXT_IO_BASE <= d.key /\ (d.key <= W - EXT_IO_BASE => d = TimerEntry)
  <2>1. d \in devices /\ d.key >= k /\ d.key \in Nat
    BY <1>4, EntryKeys
  <2>2. ASSUME NEW q \in Procs, d = HartEntry(q) PROVE FALSE
    BY <1>1, <2>1, <2>2, EntryKeys
  <2>3. d = TimerEntry \/ d.key > W - EXT_IO_BASE
    BY <2>1, <2>2, Entries
  <2> QED BY <1>1, <1>3, <2>1, <2>3
<1>5. lower_bound(k) = {d \in above : \A e \in above : d.key <= e.key}
  BY DEF lower_bound
<1> HIDE DEF above
<1> QED BY <1>2, <1>3, <1>4, <1>5 DEF a

(* What the bus finds for an address: the device and the offset in it.       *)
Found(a) == CHOOSE e \in lower_bound(Neg(a)) : TRUE
Off(a) == (a + Found(a).key) % W
AtTimer(a) == /\ lower_bound(Neg(a)) # {} /\ Found(a).dev[1] = "rtc"
              /\ Off(a) >= 1 /\ Off(a) < rtc_size
AtHart(a) == lower_bound(Neg(a)) # {} /\ Found(a).dev[1] = "cpu" /\ Off(a) = 0
SoftMip(p, v) == IF v % 2 = 1 THEN hart[p].mip \cup {IRQ_M_SOFT} ELSE hart[p].mip \ {IRQ_M_SOFT}
SoftHarts(p, v) == [hart EXCEPT ![p] = WithMip(hart[p], SoftMip(p, v))]
NewCmp(p, v) == [mtimecmp EXCEPT ![p] = v]

LEMMA BusCases ==
  ASSUME NEW a, NEW v
  PROVE  LET b == bus_store(a, v) IN
         /\ AtTimer(a) => /\ b.ok /\ b.mtimecmp = NewCmp(Off(a) - 1, v)
                          /\ b.hart = rtc_increment(mtime, b.mtimecmp, hart)
         /\ \A p : AtHart(a) /\ p = Found(a).dev[2] =>
              /\ b.ok /\ b.mtimecmp = mtimecmp
              /\ b.hart = SoftHarts(p, v)
         /\ b.ok => AtTimer(a) \/ AtHart(a)
<1> DEFINE b == bus_store(a, v)
           refused == [ok |-> FALSE, hart |-> hart, mtimecmp |-> mtimecmp, rtc |-> FALSE]
           p == Found(a).dev[2]
           cmp == NewCmp(Off(a) - 1, v)
<1>1. CASE AtTimer(a)
  <2>1. b = [ok |-> TRUE, hart |-> rtc_increment(mtime, cmp, hart), mtimecmp |-> cmp, rtc |-> TRUE]
    BY <1>1 DEF bus_store, AtTimer, Found, Off, W, NewCmp
  <2>2. ~AtHart(a)
    BY <1>1 DEF AtTimer, AtHart
  <2> HIDE DEF b, cmp
  <2>3. b.ok /\ b.mtimecmp = cmp /\ b.hart = rtc_increment(mtime, b.mtimecmp, hart)
    BY <2>1
  <2> QED BY <1>1, <2>2, <2>3 DEF b, cmp
<1>2. CASE AtHart(a)
  <2>1. b = [refused EXCEPT !.ok = TRUE, !.hart[p].mip = IF v % 2 = 1 THEN @ \cup {IRQ_M_SOFT}
                                                         ELSE @ \ {IRQ_M_SOFT}]
    BY <1>2 DEF bus_store, AtHart, Found, Off, W
  <2>2. ~AtTimer(a)
    BY <1>2 DEF AtTimer, AtHart
  <2>3. b.ok /\ b.mtimecmp = mtimecmp
        /\ b.hart = SoftHarts(p, v)
    <3> HIDE DEF p, b
    <3> QED BY <2>1 DEF WithMip, SoftMip, SoftHarts
  <2> HIDE DEF b, p
  <2>4. \A q : q = p => /\ b.ok /\ b.mtimecmp = mtimecmp
                        /\ b.hart = SoftHarts(q, v)
    BY <2>3
  <2> QED BY <1>2, <2>2, <2>4 DEF b, p
<1>3. CASE ~AtTimer(a) /\ ~AtHart(a)
  <2>1. b = refused
    <3> DEFINE found == lower_bound(Neg(a))
               d == CHOOSE e \in found : TRUE
               off == (a + d.key) % 2^BusBits
    <3>1. /\ ~(found # {} /\ d.dev[1] = "rtc" /\ off >= 1 /\ off < rtc_size)
          /\ ~(found # {} /\ d.dev[1] = "cpu" /\ off = 0)
      BY <1>3 DEF AtTimer, AtHart, Found, Off, W
    <3> HIDE DEF off, d, found
    <3> QED BY <3>1 DEF bus_store, off, d, found
  <2>2. ~b.ok
    BY <2>1
  <2> QED BY <1>3, <2>2
<1> QED BY <1>1, <1>2, <1>3

(* rtc_t::increment leaves the software interrupts alone.                    *)
LEMMA SoftKept ==
  ASSUME NEW time, NEW cmp, NEW H, NEW p \in Procs, Legal(H[p])
  PROVE  IRQ_M_SOFT \in rtc_increment(time, cmp, H)[p].mip <=> IRQ_M_SOFT \in H[p].mip
<1> DEFINE N == IF time >= cmp[p] THEN H[p].mip \cup {IRQ_M_TIMER} ELSE H[p].mip \ {IRQ_M_TIMER}
<1>1. rtc_increment(time, cmp, H)[p] = WithMip(H[p], N)
  BY DEF rtc_increment, WithMip
<1>2. N \in SUBSET all_ints /\ (IRQ_M_SOFT \in N <=> IRQ_M_SOFT \in H[p].mip)
  BY DEF Legal, Hart, all_ints, IRQ_M_SOFT, IRQ_M_TIMER
<1> HIDE DEF N
<1>3. rtc_increment(time, cmp, H)[p].mip = N
  BY <1>1, <1>2, SetMip
<1> QED BY <1>2, <1>3

(* The software interrupt of a hart follows the low bit of what is stored    *)
(* to its ipi address.                                                       *)
LEMMA StoreToIpi ==
  ASSUME IndInv, NEW p \in Procs, NEW v
  PROVE  LET b == bus_store(cpu_addr(p), v) IN
         b.ok /\ (IRQ_M_SOFT \in b.hart[p].mip <=> v % 2 = 1)
<1> DEFINE a == cpu_addr(p)
           b == bus_store(a, v)
<1>1. Found(a) = HartEntry(p) /\ lower_bound(Neg(a)) # {}
  BY FindsHart DEF Found
<1>2. Off(a) = 0
  <2>1. a \in Nat /\ W \in Nat \ {0} /\ a + HartEntry(p).key = W
    BY Addresses, HartRegisters, EntryKeys
  <2>2. W % W = 0
    <3>1. W \in Nat \ {0}
      BY Addresses
    <3> HIDE DEF W
    <3> QED BY <3>1, Reduced
  <2> QED BY <1>1, <2>1, <2>2 DEF Off
<1>3. AtHart(a) /\ Found(a).dev[2] = p
  BY <1>1, <1>2, EntryKeys DEF AtHart
<1>4. b.ok /\ b.hart = SoftHarts(p, v)
  BY <1>3, BusCases
<1>5. /\ hart \in [Procs -> Hart] /\ Legal(hart[p]) /\ hart[p].mip \subseteq all_ints
  BY HartsLegal DEF IndInv, TypeOK, Legal, Hart
<1>6. SoftMip(p, v) \in SUBSET all_ints /\ (IRQ_M_SOFT \in SoftMip(p, v) <=> v % 2 = 1)
  BY <1>5 DEF SoftMip, all_ints
<1> HIDE DEF b
<1>7. b.hart[p] = WithMip(hart[p], SoftMip(p, v))
  BY <1>4, <1>5 DEF SoftHarts
<1>8. b.hart[p].mip = SoftMip(p, v)
  BY <1>5, <1>6, <1>7, SetMip
<1> QED BY <1>4, <1>6, <1>8 DEF b

(* The comparison of a hart is what is stored to its timecmp address.        *)
LEMMA StoreToTimecmp ==
  ASSUME IndInv, DOMAIN mtimecmp = Procs, NEW p \in Procs, NEW v
  PROVE  LET b == bus_store(timecmp_addr(p), v) IN
         b.ok /\ b.mtimecmp[p] = v
<1> DEFINE a == timecmp_addr(p)
           b == bus_store(a, v)
<1>1. Found(a) = TimerEntry /\ lower_bound(Neg(a)) # {}
  BY FindsTimer DEF Found
<1>2. /\ p \in Nat /\ p < sc.nprocs /\ sc.nprocs \in Nat /\ rtc_size = 1 + sc.nprocs
      /\ sc.nprocs < W
  BY Addresses, HartRegisters
<1>3. Off(a) = 1 + p
  <2>1. a + TimerEntry.key = W + (1 + p)
    <3>1. a = EXT_IO_BASE + 1 + p
      BY DEF timecmp_addr
    <3> QED BY <1>2, <3>1, Addresses, EntryKeys
  <2>2. (W + (1 + p)) % W = 1 + p
    <3>1. W \in Nat \ {0} /\ 1 + p < W
      BY <1>2, Addresses
    <3> HIDE DEF W
    <3>2. W + (1 + p) \in Nat /\ W + (1 + p) < 2 * W /\ ~(W + (1 + p) < W)
      BY <1>2, <3>1
    <3>3. (W + (1 + p)) % W = (W + (1 + p)) - W
      BY <3>1, <3>2, Reduced
    <3> QED BY <1>2, <3>1, <3>3
  <2> QED BY <1>1, <2>1, <2>2 DEF Off
<1>4. AtTimer(a) /\ Off(a) - 1 = p
  BY <1>1, <1>2, <1>3, EntryKeys DEF AtTimer
<1>5. b.ok /\ b.mtimecmp = NewCmp(p, v)
  BY <1>4, BusCases
<1> HIDE DEF b
<1> QED BY <1>5 DEF b, NewCmp

(* A store that reaches a hart or its comparison was to its address.         *)
LEMMA StoreReaches ==
  ASSUME IndInv, NEW a \in Nat, a < W, NEW v, bus_store(a, v).ok, NEW p \in Procs
  PROVE  LET b == bus_store(a, v) IN
         /\ ~(IRQ_M_SOFT \in b.hart[p].mip <=> IRQ_M_SOFT \in hart[p].mip) => a = cpu_addr(p)
         /\ b.mtimecmp[p] # mtimecmp[p] => a = timecmp_addr(p)
<1> DEFINE b == bus_store(a, v)
<1>1. /\ hart \in [Procs -> Hart] /\ \A q \in Procs : Legal(hart[q]) /\ hart[q].mip \subseteq all_ints
  BY HartsLegal DEF IndInv, TypeOK, Legal, Hart
<1>2. /\ W \in Nat \ {0} /\ a < W /\ EXT_IO_BASE \in Nat /\ EXT_IO_BASE < W
      /\ EXT_IO_BASE + sc.nprocs < W /\ sc.nprocs \in Nat /\ p \in Nat
  BY Addresses, HartRegisters
<1>3. CASE AtHart(a)
  <2> DEFINE q == Found(a).dev[2]
  <2>1. Found(a) \in devices
    BY <1>3 DEF AtHart, Found, lower_bound
  <2>2. PICK h \in Procs : Found(a) = HartEntry(h)
    BY <1>3, <2>1, Entries, EntryKeys DEF AtHart
  <2>3. q = h
    BY <2>2, EntryKeys
  <2>4. a = cpu_addr(h)
    <3> DEFINE x == a + (W - cpu_addr(h))
    <3>1. cpu_addr(h) \in Nat /\ cpu_addr(h) < W /\ cpu_addr(h) # 0
      BY Addresses, HartRegisters
    <3>2. x \in Nat /\ x < 2 * W /\ x # 0
      BY <1>2, <3>1
    <3>3. x % W = 0
      BY <1>3, <2>2, EntryKeys DEF AtHart, Off
    <3>4. x = W
      <4> HIDE DEF x, W
      <4>1. x % W = IF x < W THEN x ELSE x - W
        BY <1>2, <3>2, Reduced
      <4> QED BY <1>2, <3>2, <3>3, <4>1
    <3> QED BY <1>2, <3>1, <3>4
  <2>5. /\ b.mtimecmp = mtimecmp
        /\ b.hart = SoftHarts(h, v)
    BY <1>3, <2>3, BusCases
  <2> HIDE DEF b
  <2>6. p # h => b.hart[p] = hart[p]
    BY <1>1, <2>5 DEF SoftHarts
  <2> QED BY <2>4, <2>5, <2>6 DEF b
<1>4. CASE AtTimer(a)
  <2>1. Found(a) \in devices
    BY <1>4 DEF AtTimer, Found, lower_bound
  <2>2. Found(a) = TimerEntry
    BY <1>4, <2>1, Entries, EntryKeys DEF AtTimer
  <2> DEFINE x == a + (W - EXT_IO_BASE)
             o == Off(a)
  <2>3. x % W = o /\ o >= 1 /\ o <= sc.nprocs
    BY <1>2, <1>4, <2>2, EntryKeys, HartRegisters DEF AtTimer, Off
  <2>4. a = EXT_IO_BASE + o
    <3>1. x \in Nat /\ x < 2 * W
      BY <1>2
    <3>2. o = IF x < W THEN x ELSE x - W
      <4> HIDE DEF x, W, o
      <4> QED BY <1>2, <2>3, <3>1, Reduced
    <3> HIDE DEF o
    <3>3. ~(x < W)
      BY <1>2, <2>3, <3>2
    <3> QED BY <1>2, <3>2, <3>3
  <2>5. b.mtimecmp = NewCmp(o - 1, v) /\ b.hart = rtc_increment(mtime, b.mtimecmp, hart)
    BY <1>4, BusCases
  <2>6. b.mtimecmp[p] # mtimecmp[p] => p = o - 1
    <3> HIDE DEF b, o
    <3> QED BY <2>5 DEF NewCmp
  <2>7. o \in Int
    <3>1. x \in Nat
      BY <1>2
    <3> HIDE DEF x, W
    <3> QED BY <1>2, <2>3, <3>1
  <2>8. p = o - 1 => a = timecmp_addr(p)
    <3> HIDE DEF o
    <3> QED BY <1>2, <2>4, <2>7 DEF timecmp_addr
  <2> HIDE DEF b
  <2>9. IRQ_M_SOFT \in b.hart[p].mip <=> IRQ_M_SOFT \in hart[p].mip
    BY <1>1, <2>5, SoftKept
  <2> QED BY <2>6, <2>8, <2>9 DEF b
<1> QED BY <1>3, <1>4, BusCases

-----------------------------------------------------------------------------
(* A step that leaves the software interrupts and the comparisons alone, and *)
(* a store of the hart whose turn it is that the bus accepts.                *)
Still ==
  /\ UNCHANGED <<sc, mtimecmp>>
  /\ \A p \in Procs : IRQ_M_SOFT \in hart'[p].mip <=> IRQ_M_SOFT \in hart[p].mip
Stored ==
  \E i \in sc.code[c] : /\ i.op \in {"store", "sc"} /\ bus_store(i.addr, i.val).ok
                        /\ StoreToDevice(i.addr, i.val)

LEMMA OwnStill ==
  ASSUME IndInv, NEW s, hart' = [hart EXCEPT ![c] = s],
         IRQ_M_SOFT \in s.mip <=> IRQ_M_SOFT \in hart[c].mip, UNCHANGED <<sc, mtimecmp>>
  PROVE  Still
<1>1. c \in Procs /\ DOMAIN hart = Procs
  BY HartsLegal DEF IndInv
<1> QED BY <1>1 DEF Still

LEMMA TrapsStill ==
  ASSUME IndInv, NEW r, Legal(r), r.mip = hart[c].mip, NEW interrupt \in BOOLEAN, NEW cause,
         Traps(r, interrupt, cause)
  PROVE  Still
<1> DEFINE s == take_trap(r, interrupt, cause)
<1>1. hart' = [hart EXCEPT ![c] = s] /\ UNCHANGED <<sc, mtimecmp>>
  BY DEF Traps
<1>2. Quiet(r, s)
  BY TakeTrap
<1> HIDE DEF s
<1>3. IRQ_M_SOFT \in s.mip <=> IRQ_M_SOFT \in hart[c].mip
  BY <1>2 DEF Quiet
<1> QED BY <1>1, <1>3, OwnStill

LEMMA ExceptsStill ==
  ASSUME IndInv, NEW cause, Excepts(cause)
  PROVE  Still
<1> DEFINE no == FALSE
<1>1. Legal(hart[c]) /\ no \in BOOLEAN
  BY Stepping
<1>2. Traps(hart[c], no, cause)
  BY DEF Excepts
<1> HIDE DEF no
<1> QED BY <1>1, <1>2, TrapsStill

LEMMA InterruptStill == ASSUME IndInv, TakeInterrupt PROVE Still
<1> DEFINE yes == TRUE
<1>1. Legal(hart[c]) /\ yes \in BOOLEAN
  BY Stepping
<1>2. PICK cause : Traps(hart[c], yes, cause)
  BY DEF TakeInterrupt
<1> HIDE DEF yes
<1> QED BY <1>1, <1>2, TrapsStill

LEMMA CsrrwStill == ASSUME IndInv, Csrrw PROVE Still
<1>1. PICK i \in sc.code[c] : /\ i.op = "csrrw"
                              /\ SerializeBefore \/ CsrIllegal(i) \/ CsrWrite(i)
  BY DEF Csrrw
<1>2. Legal(hart[c])
  BY Stepping
<1> DEFINE no == FALSE
           yes == TRUE
           r == [hart[c] EXCEPT !.serialized = no]
<1>3. no \in BOOLEAN /\ yes \in BOOLEAN
  OBVIOUS
<1>4. CASE SerializeBefore
  <2> DEFINE s == [hart[c] EXCEPT !.serialized = yes]
  <2>1. hart' = [hart EXCEPT ![c] = s] /\ UNCHANGED <<sc, mtimecmp>>
    BY <1>4 DEF SerializeBefore
  <2> HIDE DEF yes
  <2>2. s.mip = hart[c].mip
    BY <1>2, <1>3, Serialized DEF Alike
  <2> HIDE DEF s
  <2> QED BY <2>1, <2>2, OwnStill
<1>5. CASE CsrIllegal(i)
  <2>1. Traps(r, no, CAUSE_ILLEGAL_INSTRUCTION)
    BY <1>5 DEF CsrIllegal
  <2> HIDE DEF no
  <2>2. Legal(r) /\ r.mip = hart[c].mip
    BY <1>2, <1>3, Serialized DEF Alike
  <2> HIDE DEF r
  <2> QED BY <1>3, <2>1, <2>2, TrapsStill
<1>6. CASE CsrWrite(i)
  <2> DEFINE s == set_csr(r, i.csr, i.val)
  <2>1. /\ hart' = [hart EXCEPT ![c] = s] /\ UNCHANGED <<sc, mtimecmp>>
        /\ hart[c].prv >= csr_priv(i.csr)
    BY <1>6 DEF CsrWrite
  <2> HIDE DEF no
  <2>2. Legal(r) /\ r.mip = hart[c].mip /\ r.prv = hart[c].prv
    BY <1>2, <1>3, Serialized DEF Alike
  <2> HIDE DEF r
  <2>3. i.csr \in csrs /\ (i.csr \in {"mstatus", "sstatus"} => i.val \in Status)
    BY <1>1, CodeType
  <2>4. Quiet(r, s)
    BY <2>1, <2>2, <2>3, SetCsr
  <2> HIDE DEF s
  <2> QED BY <2>1, <2>2, <2>4, OwnStill DEF Quiet
<1> QED BY <1>1, <1>4, <1>5, <1>6

LEMMA ReturnStill == ASSUME IndInv, Mret \/ Sret PROVE Still
<1>1. Legal(hart[c]) /\ ~hart[c].debug
  BY Stepping DEF Mret, Sret, Executes
<1>2. CASE Mret /\ hart[c].prv >= PRV_M
  <2> DEFINE s == return_m(hart[c])
  <2>1. hart' = [hart EXCEPT ![c] = s] /\ UNCHANGED <<sc, mtimecmp>>
    BY <1>2 DEF Mret, Returns
  <2>2. hart[c].prv = PRV_M
    BY <1>1, <1>2 DEF Legal, Hart, PRV_U, PRV_S, PRV_M
  <2>3. Quiet(hart[c], s)
    BY <1>1, <2>2, ReturnM
  <2> HIDE DEF s
  <2> QED BY <2>1, <2>3, OwnStill DEF Quiet
<1>3. CASE Sret /\ hart[c].prv >= PRV_S
  <2> DEFINE s == return_s(hart[c])
  <2>1. hart' = [hart EXCEPT ![c] = s] /\ UNCHANGED <<sc, mtimecmp>>
    BY <1>3 DEF Sret, Returns
  <2>2. Quiet(hart[c], s)
    BY <1>1, ReturnS
  <2> HIDE DEF s
  <2> QED BY <2>1, <2>2, OwnStill DEF Quiet
<1>4. CASE \/ Mret /\ ~(hart[c].prv >= PRV_M)
           \/ Sret /\ ~(hart[c].prv >= PRV_S)
  BY <1>4, ExceptsStill DEF Mret, Sret
<1> QED BY <1>2, <1>3, <1>4

LEMMA LrStill == ASSUME IndInv, Lr PROVE Still
<1> DEFINE reserved(i) == [hart[c] EXCEPT !.load_reservation = i.addr]
<1>1. PICK i \in sc.code[c] :
        /\ i.op = "lr"
        /\ \/ hart' = [hart EXCEPT ![c] = reserved(i)] /\ UNCHANGED <<sc, mtimecmp>>
           \/ Traps(reserved(i), FALSE, CAUSE_FAULT_LOAD)
  BY DEF Lr
<1> DEFINE r == reserved(i)
           no == FALSE
<1>2. hart[c] \in Hart /\ Legal(hart[c]) /\ i.addr \in Nat /\ no \in BOOLEAN
  BY <1>1, Stepping, CodeType DEF Legal
<1>3. r \in Hart /\ Alike(hart[c], r)
  BY <1>2 DEF Hart, Alike
<1>4. \/ hart' = [hart EXCEPT ![c] = r] /\ UNCHANGED <<sc, mtimecmp>>
      \/ Traps(r, no, CAUSE_FAULT_LOAD)
  BY <1>1
<1> HIDE DEF r, no
<1>5. Legal(r) /\ r.mip = hart[c].mip
  BY <1>2, <1>3 DEF Legal, Alike
<1> QED BY <1>2, <1>4, <1>5, OwnStill, TrapsStill

LEMMA DretStill == ASSUME IndInv, Dret PROVE Still
<1> DEFINE r == hart[c]
           s == [set_privilege(r, r.dprv) EXCEPT !.debug = FALSE, !.ebreak = TRUE]
<1>1. hart' = [hart EXCEPT ![c] = s] /\ UNCHANGED <<sc, mtimecmp>>
  BY DEF Dret
<1>2. r \in Hart
  BY Stepping DEF Legal
<1>3. s.mip = r.mip
  <2> HIDE DEF r
  <2> QED BY <1>2 DEF set_privilege, Hart
<1> HIDE DEF s
<1> QED BY <1>1, <1>3, OwnStill

LEMMA BeginStill == ASSUME IndInv, BeginStep PROVE Still
<1> DEFINE s == enter_debug_mode(hart[c])
<1>1. /\ hart' = [hart EXCEPT ![c] = s] \/ hart' = hart
      /\ UNCHANGED <<sc, mtimecmp>>
  BY DEF BeginStep
<1>2. s.mip = hart[c].mip
  BY Stepping, EnterDebug
<1> HIDE DEF s
<1>3. CASE hart' = hart
  BY <1>1, <1>3 DEF Still
<1> QED BY <1>1, <1>2, <1>3, OwnStill

LEMMA EndStill == ASSUME IndInv, EndStep PROVE Still
<1> DEFINE y == yield_load_reservation(hart[c])
           yielded == [hart EXCEPT ![c] = y]
<1>1. /\ \/ hart' = hart
         \/ hart' = yielded
         \/ \E time : hart' = rtc_increment(time, mtimecmp, yielded)
      /\ UNCHANGED <<sc, mtimecmp>>
  BY DEF EndStep
<1>2. c \in Procs /\ DOMAIN hart = Procs /\ \A p \in Procs : Legal(hart[p])
  BY HartsLegal DEF IndInv
<1>3. Legal(y) /\ y.mip = hart[c].mip
  BY <1>2, Yield
<1> HIDE DEF y
<1>4. \A p \in Procs : Legal(yielded[p]) /\ yielded[p].mip = hart[p].mip
  BY <1>2, <1>3
<1> HIDE DEF yielded
<1>5. CASE \E time : hart' = rtc_increment(time, mtimecmp, yielded)
  BY <1>1, <1>4, <1>5, SoftKept DEF Still
<1> QED BY <1>1, <1>4, <1>5 DEF Still

LEMMA StoresStill == ASSUME IndInv, Store \/ Sc PROVE Still \/ Stored
<1>1. ASSUME UNCHANGED <<sc, hart, mtimecmp>> PROVE Still
  BY <1>1 DEF Still
<1>2. PICK i \in sc.code[c] :
        /\ i.op \in {"store", "sc"}
        /\ \/ UNCHANGED <<sc, hart, mtimecmp>>
           \/ StoreToDevice(i.addr, i.val)
  BY DEF Store, Sc, StoreToMemory
<1>3. CASE StoreToDevice(i.addr, i.val) /\ ~bus_store(i.addr, i.val).ok
  BY <1>3, ExceptsStill DEF StoreToDevice
<1> QED BY <1>1, <1>2, <1>3 DEF Stored

(* Nothing but a store reaches the software interrupts and the comparisons.  *)
LEMMA StillOrStored == ASSUME IndInv, [Next]_vars PROVE Still \/ Stored
<1>1. ASSUME UNCHANGED <<sc, hart, mtimecmp>> PROVE Still
  BY <1>1 DEF Still
<1>2. CASE UNCHANGED vars
  BY <1>1, <1>2 DEF vars, machine
<1>3. CASE Nop \/ DebugWaits \/ DebugStore \/ HostStore \/ DebugInterrupt
  BY <1>1, <1>3 DEF Nop, DebugWaits, DebugStore, HostStore, DebugInterrupt, machine
<1>4. CASE EcallInsn \/ Ebreak
  BY <1>4, ExceptsStill DEF EcallInsn, Ebreak
<1> QED BY <1>2, <1>3, <1>4, InterruptStill, CsrrwStill, ReturnStill, LrStill, StoresStill,
           DretStill, BeginStill, EndStill DEF Next

(* Every hart has a comparison.                                              *)
CmpInv == DOMAIN mtimecmp = Procs

LEMMA CmpStep == IndInv /\ CmpInv /\ [Next]_vars => CmpInv'
<1> SUFFICES ASSUME IndInv, CmpInv, [Next]_vars PROVE CmpInv'
  OBVIOUS
<1>1. CASE Still
  BY <1>1 DEF Still, CmpInv, Procs
<1>2. CASE Stored
  <2>1. PICK a, v : bus_store(a, v).ok /\ StoreToDevice(a, v)
    BY <1>2 DEF Stored
  <2>2. mtimecmp' = bus_store(a, v).mtimecmp /\ sc' = sc
    BY <2>1 DEF StoreToDevice
  <2>3. bus_store(a, v).mtimecmp = mtimecmp \/ bus_store(a, v).mtimecmp = NewCmp(Off(a) - 1, v)
    BY <2>1, BusCases
  <2>4. DOMAIN NewCmp(Off(a) - 1, v) = DOMAIN mtimecmp
    BY DEF NewCmp
  <2> QED BY <2>2, <2>3, <2>4 DEF CmpInv, Procs
<1> QED BY <1>1, <1>2, StillOrStored

(* What ConfigStringTrue says of a step and a hart.                          *)
LEMMA ConfigStep ==
  ASSUME IndInv, CmpInv, [Next]_vars, NEW p \in Procs
  PROVE  LET Stores == {i \in sc.code[c] : i.op \in {"store", "sc"}} IN
         /\ \A i \in Stores :
              /\ i.addr = cpu_addr(p) /\ StoreToDevice(i.addr, i.val)
                   => (IRQ_M_SOFT \in hart'[p].mip <=> i.val % 2 = 1)
              /\ i.addr = timecmp_addr(p) /\ StoreToDevice(i.addr, i.val)
                   => mtimecmp'[p] = i.val
         /\ (IRQ_M_SOFT \in hart'[p].mip) # (IRQ_M_SOFT \in hart[p].mip)
              => \E i \in Stores : i.addr = cpu_addr(p) /\ StoreToDevice(i.addr, i.val)
         /\ mtimecmp'[p] # mtimecmp[p]
              => \E i \in Stores : i.addr = timecmp_addr(p) /\ StoreToDevice(i.addr, i.val)
<1> DEFINE Stores == {i \in sc.code[c] : i.op \in {"store", "sc"}}
<1>1. ASSUME NEW i \in Stores, i.addr = cpu_addr(p), StoreToDevice(i.addr, i.val)
      PROVE  IRQ_M_SOFT \in hart'[p].mip <=> i.val % 2 = 1
  <2> DEFINE b == bus_store(i.addr, i.val)
  <2>1. b.ok /\ (IRQ_M_SOFT \in b.hart[p].mip <=> i.val % 2 = 1)
    BY <1>1, StoreToIpi
  <2>2. hart' = b.hart
    BY <1>1, <2>1 DEF StoreToDevice
  <2> HIDE DEF b
  <2> QED BY <2>1, <2>2
<1>2. ASSUME NEW i \in Stores, i.addr = timecmp_addr(p), StoreToDevice(i.addr, i.val)
      PROVE  mtimecmp'[p] = i.val
  <2> DEFINE b == bus_store(i.addr, i.val)
  <2>1. b.ok /\ b.mtimecmp[p] = i.val
    BY <1>2, StoreToTimecmp DEF CmpInv
  <2>2. mtimecmp' = b.mtimecmp
    BY <1>2, <2>1 DEF StoreToDevice
  <2> HIDE DEF b
  <2> QED BY <2>1, <2>2
<1>3. /\ ~(IRQ_M_SOFT \in hart'[p].mip <=> IRQ_M_SOFT \in hart[p].mip)
           => \E i \in Stores : i.addr = cpu_addr(p) /\ StoreToDevice(i.addr, i.val)
      /\ mtimecmp'[p] # mtimecmp[p]
           => \E i \in Stores : i.addr = timecmp_addr(p) /\ StoreToDevice(i.addr, i.val)
  <2>1. CASE Still
    BY <2>1 DEF Still
  <2>2. CASE Stored
    <3>1. PICK i \in Stores : bus_store(i.addr, i.val).ok /\ StoreToDevice(i.addr, i.val)
      BY <2>2 DEF Stored
    <3> DEFINE b == bus_store(i.addr, i.val)
    <3>2. hart' = b.hart /\ mtimecmp' = b.mtimecmp
      BY <3>1 DEF StoreToDevice
    <3>3. i.addr \in Nat /\ i.addr < W
      BY <3>1, CodeType DEF W
    <3>4. /\ ~(IRQ_M_SOFT \in b.hart[p].mip <=> IRQ_M_SOFT \in hart[p].mip) => i.addr = cpu_addr(p)
          /\ b.mtimecmp[p] # mtimecmp[p] => i.addr = timecmp_addr(p)
      BY <3>1, <3>3, StoreReaches
    <3> HIDE DEF b, Stores
    <3> QED BY <3>1, <3>2, <3>4
  <2> QED BY <2>1, <2>2, StillOrStored
<1> HIDE DEF Stores
<1>4. (IRQ_M_SOFT \in hart'[p].mip) # (IRQ_M_SOFT \in hart[p].mip)
        => ~(IRQ_M_SOFT \in hart'[p].mip <=> IRQ_M_SOFT \in hart[p].mip)
  OBVIOUS
<1>5. /\ \A i \in Stores :
           /\ i.addr = cpu_addr(p) /\ StoreToDevice(i.addr, i.val)
                => (IRQ_M_SOFT \in hart'[p].mip <=> i.val % 2 = 1)
           /\ i.addr = timecmp_addr(p) /\ StoreToDevice(i.addr, i.val)
                => mtimecmp'[p] = i.val
      /\ (IRQ_M_SOFT \in hart'[p].mip) # (IRQ_M_SOFT \in hart[p].mip)
           => \E i \in Stores : i.addr = cpu_addr(p) /\ StoreToDevice(i.addr, i.val)
      /\ mtimecmp'[p] # mtimecmp[p]
           => \E i \in Stores : i.addr = timecmp_addr(p) /\ StoreToDevice(i.addr, i.val)
  BY <1>1, <1>2, <1>3, <1>4
<1> QED BY <1>5 DEF Stores

(* The addresses of the config string are the ones the bus leads to, for any *)
(* number of harts whose registers fit below memory.                         *)
THEOREM ConfigStringHolds == Spec => ConfigStringTrue
<1>1. IndInv /\ CmpInv /\ [Next]_vars =>
        LET Stores == {i \in sc.code[c] : i.op \in {"store", "sc"}} IN
        \A p \in Procs :
          /\ \A i \in Stores :
               /\ i.addr = cpu_addr(p) /\ StoreToDevice(i.addr, i.val)
                    => (IRQ_M_SOFT \in hart'[p].mip <=> i.val % 2 = 1)
               /\ i.addr = timecmp_addr(p) /\ StoreToDevice(i.addr, i.val)
                    => mtimecmp'[p] = i.val
          /\ (IRQ_M_SOFT \in hart'[p].mip) # (IRQ_M_SOFT \in hart[p].mip)
               => \E i \in Stores : i.addr = cpu_addr(p) /\ StoreToDevice(i.addr, i.val)
          /\ mtimecmp'[p] # mtimecmp[p]
               => \E i \in Stores : i.addr = timecmp_addr(p) /\ StoreToDevice(i.addr, i.val)
  BY ConfigStep
<1>2. Init => CmpInv
  BY DEF Init, CmpInv
<1> QED BY Invariant, CmpStep, <1>1, <1>2, PTL DEF Spec, ConfigStringTrue
=============================================================================
