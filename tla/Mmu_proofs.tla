------------------------------ MODULE Mmu_proofs ------------------------------
(***************************************************************************)
(* What Mmu guarantees for every page table, every size of the TLB and of  *)
(* the instruction cache and every set of triggers and tracers.            *)
(***************************************************************************)
EXTENDS Mmu, TLAPS

Slots == 0..(TLB_ENTRIES - 1)
IcacheSlots == 0..(ICACHE_ENTRIES - 1)
NoInsn == <<-1, 0>>

(* Facts about addresses and translation. *)

\* The index of a page is an entry of the TLB, that of an instruction one of
\* the instruction cache.
LEMMA SlotRange ==
  /\ \A v \in Vpns : v \in Nat /\ Slot(v) \in Slots
  /\ \A a \in Vpns \X Cells : IcacheSlot(a) \in IcacheSlots
<1>1. \A v \in Vpns : v \in Nat
  BY DEF Vpns
<1>2. \A n \in Nat, k \in Nat \ {0} : n % k \in 0..(k - 1)
  OBVIOUS
<1>3. \A a \in Vpns \X Cells : 2 * a[1] + a[2] \in Nat
  BY <1>1 DEF Cells
<1> QED
  BY <1>1, <1>2, <1>3, SizesAssumption DEF Slot, Slots, IcacheSlot, IcacheSlots

\* translate() finds a page of memory or of a device, or nothing.
LEMMA TranslateType ==
  ASSUME NEW s, NEW m, NEW v, NEW type
  PROVE  /\ translate(s, m, v, type) \in Pages \cup {NoPage}
         /\ NoPage \notin Pages
<1>1. NoPage \notin Pages
  BY PagesAssumption DEF NoPage, Pages
<1> QED
  BY <1>1 DEF translate

\* Translation reads the page table only through the entry at which the walk
\* ends, and these fields of the state.
LEMMA TranslateCongruence ==
  ASSUME NEW s, NEW r, NEW m, NEW n, NEW v, NEW type,
         s.vm = r.vm, s.mprv = r.mprv, s.debug = r.debug, s.mpp = r.mpp,
         s.prv = r.prv, s.pum = r.pum, s.mxr = r.mxr,
         leaf(m, s.sptbr, v) = leaf(n, r.sptbr, v)
  PROVE  /\ translate(s, m, v, type) = translate(r, n, v, type)
         /\ mode_of(s, type) = mode_of(r, type)
<1>1. mode_of(s, type) = mode_of(r, type)
  BY DEF mode_of
<1>2. ASSUME NEW pte, NEW mode PROVE permitted(s, pte, type, mode) = permitted(r, pte, type, mode)
  BY DEF permitted
<1>3. ASSUME NEW mode PROVE walk(s, m, v, type, mode) = walk(r, n, v, type, mode)
  BY <1>2 DEF walk
<1> QED
  BY <1>1, <1>3 DEF translate

\* In one mode the kind of access decides whether a page is found, but not
\* which one.
LEMMA TranslateSharing ==
  ASSUME NEW s, NEW m, NEW v, NEW type, NEW other, mode_of(s, type) = mode_of(s, other),
         translate(s, m, v, type) # NoPage, translate(s, m, v, other) # NoPage
  PROVE  translate(s, m, v, type) = translate(s, m, v, other)
<1>1. ASSUME NEW mode, walk(s, m, v, type, mode) # NoPage, walk(s, m, v, other, mode) # NoPage
      PROVE  walk(s, m, v, type, mode) = walk(s, m, v, other, mode)
  BY <1>1 DEF walk
<1>2. NoPage \notin Pages
  BY TranslateType
<1> QED
  BY <1>1, <1>2 DEF translate

\* The entry at which a walk ends is in main memory.
LEMMA LeafPlace ==
  ASSUME NEW m, NEW root, NEW v \in Vpns, leaf(m, root, v).found
  PROVE  leaf(m, root, v).page \in MemPages /\ leaf(m, root, v).cell \in Cells
<1> DEFINE base == table_base(m, root, v)
           ends == { i \in 0..(levels - 1) : base[i] \in MemPages /\ base[i + 1] = NoPage }
           i == CHOOSE j \in ends : TRUE
           c == (v \div 2^(levels - 1 - i)) % 2
           l == [found |-> TRUE, page |-> base[i], cell |-> c, pte |-> m[base[i]][c],
                 ptshift |-> levels - 1 - i]
<1>1. leaf(m, root, v) = IF ends = {} THEN [found |-> FALSE] ELSE l
  BY DEF leaf
<1> HIDE DEF base
<1>2. CASE ends = {}
  <2>1. leaf(m, root, v).found = FALSE
    BY <1>1, <1>2
  <2> QED
    BY <2>1
<1>3. CASE ends # {}
  <2>1. i \in ends
    BY <1>3
  <2>2. i \in 0..(levels - 1) /\ base[i] \in MemPages
    BY <2>1
  <2>3. levels - 1 - i \in Nat
    BY <2>2, LevelsAssumption
  <2>4. 2^(levels - 1 - i) \in Int
    BY <2>3
  <2>5. c \in Cells
    <3>1. \A n \in Nat, k \in Int : (n \div k) % 2 \in {0, 1}
      OBVIOUS
    <3>2. v \in Nat
      BY SlotRange
    <3> QED
      BY <2>4, <3>1, <3>2 DEF Cells
  <2>6. leaf(m, root, v) = l
    BY <1>1, <1>3
  <2> HIDE DEF i, c
  <2> QED
    BY <2>2, <2>5, <2>6
<1> QED
  BY <1>2, <1>3

-----------------------------------------------------------------------------
(* Types. *)

TlbType ==
  /\ tlb_tag \in [Types -> [Slots -> [vpn : Vpns \cup {-1}, check : BOOLEAN]]]
  /\ tlb_data \in [Slots -> MemPages \cup {NoPage}]
IcacheType ==
  icache \in [IcacheSlots -> [tag : (Vpns \X Cells) \cup {NoInsn}, data : Cell]]
MemType ==
  /\ mem \in [MemPages -> [Cells -> Cell]]
  /\ ad \in [MemPages -> [Cells -> SUBSET {"A", "D"}]]
StateType ==
  state \in [prv : {PRV_U, PRV_S, PRV_M}, debug : BOOLEAN, dprv : {PRV_U, PRV_S, PRV_M},
             vm : BOOLEAN, mprv : BOOLEAN, mpp : {PRV_U, PRV_S, PRV_M},
             spp : {PRV_U, PRV_S}, pum : BOOLEAN, mxr : BOOLEAN, sptbr : Pages]
TriggerType ==
  /\ check \in [Types -> BOOLEAN] /\ trigger \in Trigger /\ tdata2 \in Vpns \X Cells
  /\ tracer \in SUBSET Types

\* The parts of TypeOK.
LEMMA TypeParts ==
  /\ TypeOK <=> /\ StateType /\ MemType /\ TlbType /\ IcacheType /\ TriggerType
                /\ synced \in BOOLEAN /\ fenced \in BOOLEAN
  /\ TypeOK' <=> /\ StateType' /\ MemType' /\ TlbType' /\ IcacheType' /\ TriggerType'
                 /\ synced' \in BOOLEAN /\ fenced' \in BOOLEAN
  BY DEF TypeOK, StateType, MemType, TlbType, IcacheType, TriggerType, Slots, IcacheSlots, NoInsn

\* flush_tlb() leaves well-formed caches.
LEMMA FlushType ==
  ASSUME flush_tlb
  PROVE  TlbType' /\ IcacheType' /\ synced' \in BOOLEAN /\ fenced' \in BOOLEAN
  BY MemAssumption
  DEF flush_tlb, flush_icache, NoTlb, NoData, NoIcache, NoTag, NoEntry, NoInsn, TlbType,
      IcacheType, Slots, IcacheSlots

\* The pages that an access goes to.
LEMMA WhereType ==
  ASSUME TypeOK, NEW type \in Types, NEW v \in Vpns
  PROVE  Where(type, v) \in Pages \cup {NoPage}
  BY TypeParts, SlotRange, TranslateType DEF Where, TlbType, Pages

\* The end of a slow path keeps the TLB well-formed.
LEMMA SlowPathType ==
  ASSUME TypeOK, NEW type \in Types, NEW v \in Vpns, NEW page, after_slow_path(type, v, page)
  PROVE  TlbType'
<1>1. CASE UNCHANGED <<tlb_tag, tlb_data>>
  BY <1>1, TypeParts DEF TlbType
<1>2. CASE page \in MemPages /\ refill_tlb(type, v, page)
  <2>1. TlbType /\ TriggerType /\ Slot(v) \in Slots
    BY TypeParts, SlotRange
  <2>2. tlb_data' \in [Slots -> MemPages \cup {NoPage}]
    BY <1>2, <2>1 DEF TlbType, refill_tlb
  <2>3. ASSUME NEW t \in Types
        PROVE  tlb_tag'[t] \in [Slots -> [vpn : Vpns \cup {-1}, check : BOOLEAN]]
    BY <1>2, <2>1 DEF TlbType, TriggerType, refill_tlb, NoTag
  <2>4. tlb_tag' = [t \in Types |-> tlb_tag'[t]]
    BY <1>2 DEF refill_tlb
  <2> QED
    BY <2>2, <2>3, <2>4 DEF TlbType
<1> QED
  BY <1>1, <1>2 DEF after_slow_path

\* walk() only adds bits to the entries of main memory, and a store clears
\* those of the cell it writes.
LEMMA MarkType ==
  ASSUME TypeOK, NEW type, NEW v
  PROVE  marked(type, v) \in [MemPages -> [Cells -> SUBSET {"A", "D"}]]
<1> DEFINE AdType == [MemPages -> [Cells -> SUBSET {"A", "D"}]]
<1>1. ad \in AdType
  BY TypeParts DEF MemType
<1>2. \A p, c, b : b \in SUBSET {"A", "D"} =>
        [ad EXCEPT ![p][c] = @ \cup b] \in AdType
  BY <1>1
<1> QED
  BY <1>1, <1>2 DEF marked

\* The types of main memory after a store.
LEMMA StoreType ==
  ASSUME TypeOK, NEW bits \in [MemPages -> [Cells -> SUBSET {"A", "D"}]],
         NEW page, NEW c \in Cells, NEW w \in Cell
  PROVE  /\ stored(page, c, w) \in [MemPages -> [Cells -> Cell]]
         /\ stored_ad(bits, page, c) \in [MemPages -> [Cells -> SUBSET {"A", "D"}]]
  BY TypeParts DEF MemType, stored, stored_ad

\* A change of privilege to a mode that exists.
LEMMA PrivilegeType ==
  ASSUME TypeOK, take_trap \/ enter_debug_mode
  PROVE  StateType' /\ flush_tlb
<1>1. StateType
  BY TypeParts
<1>2. CASE enter_debug_mode
  BY <1>1, <1>2 DEF StateType, enter_debug_mode, set_privilege
<1>3. CASE take_trap
  <2>1. CASE set_privilege([state EXCEPT !.mpp = state.prv], PRV_M)
    BY <1>1, <2>1 DEF StateType, set_privilege
  <2>2. CASE state.prv <= PRV_S /\ set_privilege([state EXCEPT !.spp = state.prv], PRV_S)
    <3>1. state.prv \in {PRV_U, PRV_S, PRV_M}
      BY <1>1 DEF StateType
    <3>2. state.prv \in {PRV_U, PRV_S}
      BY <2>2, <3>1 DEF PRV_U, PRV_S, PRV_M
    <3> QED
      BY <1>1, <2>2, <3>2 DEF StateType, set_privilege
  <2> QED
    BY <1>3, <2>1, <2>2 DEF take_trap
<1> QED
  BY <1>2, <1>3

\* An address of the program is one of the machine's, and so is a store.
LEMMA ProgramType ==
  /\ \A a \in Addresses : a[1] \in Vpns /\ a[2] \in Cells /\ a = <<a[1], a[2]>>
  /\ \A st \in Stores : st[1] \in Addresses /\ st[2] \in Cell
<1>1. \A a \in Vpns \X Cells : a[1] \in Vpns /\ a[2] \in Cells /\ a = <<a[1], a[2]>>
  OBVIOUS
<1>2. \A st \in Addresses \X Cell : st[1] \in Addresses /\ st[2] \in Cell
  OBVIOUS
<1> QED
  BY <1>1, <1>2, ProgramAssumption

\* The next-state relation, by what the steps do to the caches: accesses that
\* complete, steps that flush, and the others.
Completes ==
  \/ \E a \in Addresses : Load(a) \/ FetchFast(a) \/ FetchSlow(a)
  \/ \E st \in Stores : Store(st[1], st[2])
Flushes ==
  \/ \E a \in Addresses, type \in Types, w \in Cell : Fault(type, a) \/ TriggerFires(type, a, w)
  \/ Trap \/ EnterDebugMode \/ Mret \/ Sret \/ Dret \/ SfenceVm
  \/ \E t \in Triggers : WriteTdata1(t)
Writes ==
  \/ \E vm \in Vms, mprv \in Mprvs, mpp \in Mpps, pum \in Pums, mxr \in Mxrs :
       WriteMstatus(vm, mprv, mpp, pum, mxr)
  \/ \E pum \in Pums : WriteSstatus(pum)
  \/ \E root \in Roots : WriteSptbr(root)
  \/ FenceI
  \/ \E a \in Watched : WriteTdata2(a)

LEMMA NextCases == Next => Completes \/ Flushes \/ Writes
<1>1. \A st \in Stores : st[1] \in Addresses /\ st[2] \in Cell
  BY ProgramType
<1>2. IoCell \in Cell /\ Types = {"FETCH", "LOAD", "STORE"}
  BY MemAssumption DEF Types
<1> QED
  BY <1>1, <1>2, Zenon DEF Next, Completes, Flushes, Writes

\* Every step that flushes keeps the types.
LEMMA FlushesType ==
  ASSUME TypeOK, Flushes
  PROVE  TypeOK' /\ flush_tlb
<1>1. StateType /\ MemType /\ TriggerType
  BY TypeParts
<1>2. ASSUME NEW a \in Addresses, NEW type \in Types, Fault(type, a)
      PROVE  StateType' /\ MemType' /\ TriggerType' /\ flush_tlb
  <2>1. StateType' /\ flush_tlb
    BY <1>2, PrivilegeType DEF Fault
  <2>2. MemType' /\ TriggerType'
    BY <1>1, <1>2, MarkType DEF Fault, Marks, MemType, TriggerType
  <2> QED
    BY <2>1, <2>2
<1>3. ASSUME NEW a \in Addresses, NEW type \in Types, NEW w \in Cell, TriggerFires(type, a, w)
      PROVE  StateType' /\ MemType' /\ TriggerType' /\ flush_tlb
  <2>1. StateType' /\ flush_tlb
    BY <1>3, PrivilegeType DEF TriggerFires
  <2> DEFINE page == Where(type, a[1])
             bits == IF Hit(type, a[1]) THEN ad ELSE marked(type, a[1])
  <2>2. bits \in [MemPages -> [Cells -> SUBSET {"A", "D"}]]
    BY <1>1, MarkType DEF MemType
  <2>3. \/ mem' = mem /\ ad' = bits
        \/ mem' = stored(page, a[2], w) /\ ad' = stored_ad(bits, page, a[2])
    BY <1>3 DEF TriggerFires
  <2> HIDE DEF page, bits
  <2>4. MemType'
    BY <1>1, <2>2, <2>3, StoreType, ProgramType DEF MemType
  <2>5. TriggerType'
    BY <1>1, <1>3 DEF TriggerFires, TriggerType
  <2> QED
    BY <2>1, <2>4, <2>5
<1>4. ASSUME Trap \/ EnterDebugMode
      PROVE  StateType' /\ MemType' /\ TriggerType' /\ flush_tlb
  <2>1. StateType' /\ flush_tlb
    BY <1>4, PrivilegeType DEF Trap, EnterDebugMode
  <2>2. MemType' /\ TriggerType'
    BY <1>1, <1>4 DEF Trap, EnterDebugMode, MachineOnly, MemType, TriggerType
  <2> QED
    BY <2>1, <2>2
<1>5. ASSUME Mret \/ Sret \/ Dret \/ SfenceVm
      PROVE  StateType' /\ MemType' /\ TriggerType' /\ flush_tlb
  <2>1. MemType' /\ TriggerType' /\ flush_tlb
    BY <1>1, <1>5 DEF Mret, Sret, Dret, SfenceVm, set_privilege, MachineOnly, MemType, TriggerType
  <2>2. StateType'
    BY <1>1, <1>5 DEF Mret, Sret, Dret, SfenceVm, set_privilege, StateType, PRV_U
  <2> QED
    BY <2>1, <2>2
<1>6. ASSUME NEW t \in Triggers, WriteTdata1(t)
      PROVE  StateType' /\ MemType' /\ TriggerType' /\ flush_tlb
  <2>1. StateType' /\ MemType' /\ flush_tlb
    BY <1>1, <1>6 DEF WriteTdata1, trigger_updated, StateType, MemType
  <2>2. t \in Trigger
    BY ProgramAssumption
  <2>3. trigger' \in Trigger
    BY <1>6, <2>2 DEF WriteTdata1, Trigger
  <2>4. check' \in [Types -> BOOLEAN]
    <3>1. t.execute \in BOOLEAN /\ t.load \in BOOLEAN /\ t.store \in BOOLEAN
      BY <2>2 DEF Trigger
    <3>2. check' = [FETCH |-> t.execute, LOAD |-> t.load, STORE |-> t.store]
      BY <1>6 DEF WriteTdata1, trigger_updated
    <3> QED
      BY <3>1, <3>2 DEF Types
  <2>5. TriggerType'
    BY <1>1, <1>6, <2>3, <2>4 DEF WriteTdata1, TriggerType
  <2> QED
    BY <2>1, <2>5
<1>7. StateType' /\ MemType' /\ TriggerType' /\ flush_tlb
  BY <1>2, <1>3, <1>4, <1>5, <1>6 DEF Flushes
<1> QED
  BY <1>7, FlushType, TypeParts

\* Every access that completes keeps the types.
LEMMA CompletesType ==
  ASSUME TypeOK, Completes
  PROVE  TypeOK'
<1>1. /\ StateType /\ MemType /\ TlbType /\ IcacheType /\ TriggerType
      /\ synced \in BOOLEAN /\ fenced \in BOOLEAN
  BY TypeParts
<1>2. ASSUME NEW a \in Addresses, Load(a) PROVE TypeOK'
  <2>1. TlbType'
    BY <1>2, SlowPathType, ProgramType DEF Load, Types
  <2>2. MemType'
    BY <1>1, <1>2, MarkType DEF Load, Marks, MemType
  <2>3. StateType' /\ IcacheType' /\ TriggerType' /\ synced' \in BOOLEAN /\ fenced' \in BOOLEAN
    BY <1>1, <1>2 DEF Load, StateType, IcacheType, TriggerType
  <2> QED
    BY <2>1, <2>2, <2>3, TypeParts
<1>3. ASSUME NEW a \in Addresses, NEW page, FetchCompletes(a, page)
      PROVE  /\ TlbType' /\ MemType' /\ StateType' /\ TriggerType'
             /\ synced' \in BOOLEAN /\ fenced' \in BOOLEAN
  <2>1. TlbType'
    BY <1>3, SlowPathType, ProgramType DEF FetchCompletes, Types
  <2>2. MemType'
    BY <1>1, <1>3, MarkType DEF FetchCompletes, Marks, MemType
  <2> QED
    BY <1>1, <1>3, <2>1, <2>2 DEF FetchCompletes, StateType, TriggerType
<1>4. ASSUME NEW a \in Addresses, FetchSlow(a) PROVE TypeOK'
  <2>1. FetchCompletes(a, Where("FETCH", a[1])) /\ IcacheType'
    BY <1>1, <1>4 DEF FetchSlow, IcacheType
  <2> QED
    BY <1>3, <2>1, TypeParts
<1>5. ASSUME NEW a \in Addresses, FetchFast(a) PROVE TypeOK'
  <2> DEFINE page == Where("FETCH", a[1])
             e == IF "FETCH" \in tracer THEN NoEntry
                  ELSE [tag |-> a, data |-> Contents(mem, page, a[2])]
  <2>1. FetchCompletes(a, page) /\ icache' = [icache EXCEPT ![IcacheSlot(a)] = e]
    BY <1>5 DEF FetchFast
  <2>2. Contents(mem, page, a[2]) \in Cell
    BY <1>1, ProgramType, MemAssumption DEF MemType, Contents
  <2>3. a \in Vpns \X Cells
    BY ProgramAssumption
  <2>4. e \in [tag : (Vpns \X Cells) \cup {NoInsn}, data : Cell]
    BY <2>2, <2>3, MemAssumption DEF NoEntry, NoInsn
  <2> HIDE DEF page, e
  <2>5. IcacheType'
    BY <1>1, <2>1, <2>4 DEF IcacheType
  <2> QED
    BY <1>3, <2>1, <2>5, TypeParts
<1>6. ASSUME NEW st \in Stores, Store(st[1], st[2]) PROVE TypeOK'
  <2> DEFINE a == st[1]
             w == st[2]
             page == Where("STORE", a[1])
             bits == IF Hit("STORE", a[1]) THEN ad ELSE marked("STORE", a[1])
  <2>1. a \in Addresses /\ w \in Cell
    BY ProgramType
  <2>2. bits \in [MemPages -> [Cells -> SUBSET {"A", "D"}]]
    BY <1>1, MarkType DEF MemType
  <2>3. /\ mem' = stored(page, a[2], w)
        /\ ad' = stored_ad(bits, page, a[2])
        /\ after_slow_path("STORE", a[1], page)
        /\ synced' \in BOOLEAN /\ fenced' \in BOOLEAN
        /\ UNCHANGED <<state, icache, check, trigger, tdata2, tracer>>
    BY <1>1, <1>6 DEF Store
  <2> HIDE DEF page, bits, a, w
  <2>4. MemType'
    BY <2>1, <2>2, <2>3, StoreType, ProgramType DEF MemType
  <2>5. TlbType'
    BY <2>1, <2>3, SlowPathType, ProgramType DEF Types
  <2>6. StateType' /\ IcacheType' /\ TriggerType'
    BY <1>1, <2>3 DEF StateType, IcacheType, TriggerType
  <2> QED
    BY <2>3, <2>4, <2>5, <2>6, TypeParts
<1> QED
  BY <1>2, <1>4, <1>5, <1>6 DEF Completes

\* And so do the other writes to CSRs, and FENCE.I.
LEMMA WritesType ==
  ASSUME TypeOK, Writes
  PROVE  TypeOK'
<1>1. /\ StateType /\ MemType /\ TlbType /\ IcacheType /\ TriggerType
      /\ synced \in BOOLEAN /\ fenced \in BOOLEAN
  BY TypeParts
<1>2. ASSUME NEW s, set_mstatus(s), MachineOnly,
             s \in [prv : {PRV_U, PRV_S, PRV_M}, debug : BOOLEAN,
                    dprv : {PRV_U, PRV_S, PRV_M}, vm : BOOLEAN, mprv : BOOLEAN,
                    mpp : {PRV_U, PRV_S, PRV_M}, spp : {PRV_U, PRV_S}, pum : BOOLEAN,
                    mxr : BOOLEAN, sptbr : Pages]
      PROVE  TypeOK'
  <2>1. StateType' /\ MemType' /\ TriggerType'
    BY <1>1, <1>2 DEF set_mstatus, MachineOnly, StateType, MemType, TriggerType
  <2>2. flush_tlb \/ UNCHANGED <<tlbVars, synced, fenced>>
    BY <1>2 DEF set_mstatus
  <2>3. TlbType' /\ IcacheType' /\ synced' \in BOOLEAN /\ fenced' \in BOOLEAN
    BY <1>1, <2>2, FlushType DEF tlbVars, TlbType, IcacheType
  <2> QED
    BY <2>1, <2>3, TypeParts
<1>3. ASSUME NEW vm \in Vms, NEW mprv \in Mprvs, NEW mpp \in Mpps, NEW pum \in Pums,
             NEW mxr \in Mxrs, WriteMstatus(vm, mprv, mpp, pum, mxr)
      PROVE  TypeOK'
  BY <1>1, <1>2, <1>3, ProgramAssumption DEF WriteMstatus, StateType
<1>4. ASSUME NEW pum \in Pums, WriteSstatus(pum) PROVE TypeOK'
  BY <1>1, <1>2, <1>4, ProgramAssumption DEF WriteSstatus, StateType
<1>5. ASSUME NEW root \in Roots, WriteSptbr(root) PROVE TypeOK'
  <2>1. StateType'
    BY <1>1, <1>5, ProgramAssumption DEF WriteSptbr, StateType
  <2>2. MemType' /\ TlbType' /\ IcacheType' /\ TriggerType' /\ synced' \in BOOLEAN /\ fenced' \in BOOLEAN
    BY <1>1, <1>5 DEF WriteSptbr, tlbVars, MemType, TlbType, IcacheType, TriggerType
  <2> QED
    BY <2>1, <2>2, TypeParts
<1>6. ASSUME FenceI PROVE TypeOK'
  <2>1. IcacheType' /\ fenced' \in BOOLEAN
    BY <1>6, MemAssumption DEF FenceI, flush_icache, NoIcache, NoEntry, NoInsn, IcacheType, IcacheSlots
  <2>2. StateType' /\ MemType' /\ TlbType' /\ TriggerType' /\ synced' \in BOOLEAN
    BY <1>1, <1>6 DEF FenceI, MachineOnly, StateType, MemType, TlbType, TriggerType
  <2> QED
    BY <2>1, <2>2, TypeParts
<1>7. ASSUME NEW a \in Watched, WriteTdata2(a) PROVE TypeOK'
  <2>1. a \in Vpns \X Cells
    BY ProgramAssumption
  <2>2. /\ StateType' /\ MemType' /\ TlbType' /\ IcacheType' /\ TriggerType'
        /\ synced' \in BOOLEAN /\ fenced' \in BOOLEAN
    BY <1>1, <1>7, <2>1
    DEF WriteTdata2, tlbVars, StateType, MemType, TlbType, IcacheType, TriggerType
  <2> QED
    BY <2>2, TypeParts
<1> QED
  BY <1>3, <1>4, <1>5, <1>6, <1>7 DEF Writes

LEMMA InitType == Init => TypeOK
<1> SUFFICES ASSUME Init PROVE TypeOK
  OBVIOUS
<1>1. 0 \in Pages /\ 0 \in Vpns
  <2>1. 0 \in Pages
    BY PagesAssumption DEF Pages
  <2>2. 2^levels \in Int /\ 2^levels > 0
    BY LevelsAssumption
  <2> QED
    BY <2>1, <2>2 DEF Vpns
<1>2. StateType
  BY <1>1 DEF Init, StateType, PRV_U, PRV_S, PRV_M
<1>3. MemType /\ synced \in BOOLEAN /\ fenced \in BOOLEAN
  BY MemAssumption DEF Init, MemType
<1>4. TlbType /\ IcacheType
  BY MemAssumption DEF Init, NoTlb, NoData, NoIcache, NoTag, NoEntry, NoInsn, TlbType,
                       IcacheType, Slots, IcacheSlots
<1>5. TriggerType
  BY <1>1, ProgramAssumption DEF Init, TriggerType, NoTrigger, Trigger, Cells
<1> QED
  BY <1>2, <1>3, <1>4, <1>5, TypeParts

LEMMA TypeStep == TypeOK /\ [Next]_vars => TypeOK'
<1> SUFFICES ASSUME TypeOK, [Next]_vars PROVE TypeOK'
  OBVIOUS
<1>1. CASE Next
  BY <1>1, NextCases, CompletesType, FlushesType, WritesType
<1>2. CASE UNCHANGED vars
  BY <1>2 DEF vars, tlbVars, TypeOK
<1> QED
  BY <1>1, <1>2

\* TypeOK holds for every machine: privilege modes stay legal through traps,
\* returns and Debug Mode, the TLB never holds a page of a device, and every
\* index stays in its array.
THEOREM TypeCorrect == Spec => []TypeOK
  BY InitType, TypeStep, PTL DEF Spec

-----------------------------------------------------------------------------
(* Triggers and tracers. *)

\* Every valid tag knows whether the trigger has to be checked.
TagsChecked ==
  /\ check["FETCH"] = trigger.execute
  /\ check["LOAD"] = trigger.load
  /\ check["STORE"] = trigger.store
  /\ \A type \in Types, i \in Slots :
       tlb_tag[type][i].vpn # -1 => tlb_tag[type][i].check = check[type]

\* There are no entries for what a tracer wants to see.
NoneTraced ==
  /\ \A type \in tracer \ {"FETCH"}, i \in Slots : tlb_tag[type][i].vpn = -1
  /\ "FETCH" \in tracer => \A j \in IcacheSlots : icache[j].tag = NoInsn

\* Flushed caches hold nothing.
LEMMA FlushClears ==
  ASSUME flush_tlb
  PROVE  /\ \A type \in Types, i \in Slots : tlb_tag'[type][i].vpn = -1
         /\ \A j \in IcacheSlots : icache'[j].tag = NoInsn
  BY DEF flush_tlb, flush_icache, NoTlb, NoIcache, NoTag, NoEntry, NoInsn, Slots, IcacheSlots

\* What the end of a slow path does to a tag: the one of the access is set,
\* the others stay or become invalid.
LEMMA SlowPathTags ==
  ASSUME TypeOK, NEW type \in Types, NEW v \in Vpns, NEW page, after_slow_path(type, v, page),
         NEW t \in Types, NEW i \in Slots
  PROVE  \/ /\ tlb_tag'[t][i] = tlb_tag[t][i] /\ tlb_data'[i] = tlb_data[i]
            /\ \A o \in Types : tlb_tag'[o][i] = tlb_tag[o][i]
         \/ tlb_tag'[t][i].vpn = -1
         \/ /\ ~Hit(type, v) /\ page \in MemPages /\ i = Slot(v) /\ tlb_data'[i] = page
            /\ tlb_tag'[t][i].vpn = v /\ tlb_tag'[type][i].vpn = v
            /\ \/ /\ t = type /\ ~(type # "FETCH" /\ type \in tracer)
                  /\ tlb_tag'[t][i].check = check[type]
               \/ t # type /\ tlb_tag'[t][i] = tlb_tag[t][i]
<1>1. CASE UNCHANGED <<tlb_tag, tlb_data>>
  BY <1>1
<1>2. CASE /\ ~Hit(type, v) /\ page \in MemPages /\ ~(type # "FETCH" /\ type \in tracer)
           /\ refill_tlb(type, v, page)
  <2>1. TlbType /\ Slot(v) \in Slots
    BY TypeParts, SlotRange
  <2>2. tlb_data' = [tlb_data EXCEPT ![Slot(v)] = page]
    BY <1>2 DEF refill_tlb
  <2>3. tlb_tag'[t] = [tlb_tag[t] EXCEPT ![Slot(v)] =
                         IF t = type THEN [vpn |-> v, check |-> check[type]]
                         ELSE IF @.vpn = v THEN @ ELSE NoTag]
    BY <1>2 DEF refill_tlb
  <2>4. CASE i # Slot(v)
    <3>1. \A o \in Types :
            tlb_tag'[o] = [tlb_tag[o] EXCEPT ![Slot(v)] =
                             IF o = type THEN [vpn |-> v, check |-> check[type]]
                             ELSE IF @.vpn = v THEN @ ELSE NoTag]
      BY <1>2 DEF refill_tlb
    <3>2. ASSUME NEW o \in Types PROVE tlb_tag'[o][i] = tlb_tag[o][i]
      <4>1. PICK w : tlb_tag'[o] = [tlb_tag[o] EXCEPT ![Slot(v)] = w]
        BY <3>1
      <4>2. tlb_tag[o] \in [Slots -> [vpn : Vpns \cup {-1}, check : BOOLEAN]]
        BY <2>1 DEF TlbType
      <4> QED
        BY <2>4, <4>1, <4>2
    <3>3. tlb_data'[i] = tlb_data[i]
      BY <2>1, <2>2, <2>4 DEF TlbType
    <3> QED
      BY <3>2, <3>3
  <2>5. CASE i = Slot(v)
    <3>1. tlb_data'[i] = page
      BY <2>1, <2>2, <2>5 DEF TlbType
    <3>2. tlb_tag'[t][i] = IF t = type THEN [vpn |-> v, check |-> check[type]]
                           ELSE IF tlb_tag[t][i].vpn = v THEN tlb_tag[t][i] ELSE NoTag
      BY <2>1, <2>3, <2>5 DEF TlbType
    <3>3. NoTag.vpn = -1
      BY DEF NoTag
    <3>4. tlb_tag'[type] = [tlb_tag[type] EXCEPT ![Slot(v)] = [vpn |-> v, check |-> check[type]]]
      BY <1>2 DEF refill_tlb
    <3>5. tlb_tag'[type][i].vpn = v
      BY <2>1, <2>5, <3>4 DEF TlbType
    <3> QED
      BY <1>2, <2>5, <3>1, <3>2, <3>3, <3>5
  <2> QED
    BY <2>4, <2>5
<1> QED
  BY <1>1, <1>2 DEF after_slow_path

\* An access that completes ends with a slow path for its type and its page.
LEMMA CompletesSlowPath ==
  ASSUME Completes
  PROVE  \E type \in Types, v \in Vpns : after_slow_path(type, v, Where(type, v))
<1>1. \A a \in Addresses : a[1] \in Vpns
  BY ProgramType
<1>2. \A st \in Stores : st[1] \in Addresses
  BY ProgramType
<1>3. "LOAD" \in Types /\ "STORE" \in Types /\ "FETCH" \in Types
  BY DEF Types
<1> QED
  BY <1>1, <1>2, <1>3 DEF Completes, Load, FetchFast, FetchSlow, FetchCompletes, Store

LEMMA TagsCheckedStep == TypeOK /\ TagsChecked /\ [Next]_vars => TagsChecked'
<1> SUFFICES ASSUME TypeOK, TagsChecked, [Next]_vars PROVE TagsChecked'
  OBVIOUS
<1>1. CASE Completes
  <2>1. UNCHANGED <<check, trigger>>
    BY <1>1 DEF Completes, Load, FetchFast, FetchSlow, FetchCompletes, Store
  <2>2. PICK type \in Types, v \in Vpns : after_slow_path(type, v, Where(type, v))
    BY <1>1, CompletesSlowPath
  <2>3. ASSUME NEW t \in Types, NEW i \in Slots, tlb_tag'[t][i].vpn # -1
        PROVE  tlb_tag'[t][i].check = check[t]
    BY <2>2, <2>3, SlowPathTags DEF TagsChecked
  <2> QED
    BY <2>1, <2>3 DEF TagsChecked
<1>2. CASE Flushes
  <2>1. \A t \in Types, i \in Slots : tlb_tag'[t][i].vpn = -1
    BY <1>2, FlushesType, FlushClears
  <2>2. CASE UNCHANGED <<check, trigger>>
    BY <2>1, <2>2 DEF TagsChecked
  <2>3. CASE \E t \in Triggers : WriteTdata1(t)
    <3>1. PICK t \in Triggers : WriteTdata1(t)
      BY <2>3
    <3>2. t \in Trigger
      BY ProgramAssumption
    <3>3. trigger'.execute = t.execute /\ trigger'.load = t.load /\ trigger'.store = t.store
      BY <3>1, <3>2 DEF WriteTdata1, Trigger
    <3> QED
      BY <2>1, <3>1, <3>3 DEF WriteTdata1, trigger_updated, TagsChecked
  <2> QED
    BY <1>2, <2>2, <2>3
    DEF Flushes, Fault, TriggerFires, Trap, EnterDebugMode, Mret, Sret, Dret, SfenceVm, MachineOnly
<1>3. CASE Writes
  <2>1. UNCHANGED <<check, trigger>>
    BY <1>3 DEF Writes, WriteMstatus, WriteSstatus, WriteSptbr, FenceI, WriteTdata2, MachineOnly
  <2>2. tlb_tag' = tlb_tag \/ flush_tlb
    BY <1>3 DEF Writes, WriteMstatus, WriteSstatus, set_mstatus, WriteSptbr, FenceI, WriteTdata2, tlbVars
  <2> QED
    BY <2>1, <2>2, FlushClears DEF TagsChecked
<1>4. CASE UNCHANGED vars
  BY <1>4 DEF vars, tlbVars, TagsChecked
<1> QED
  BY <1>1, <1>2, <1>3, <1>4, NextCases

\* WatchpointsSeen holds for every machine: whatever is in the TLB, no load or
\* store that the trigger waits for completes without the check.
THEOREM WatchpointsStaySeen == Spec => []WatchpointsSeen
<1>1. Init => TagsChecked
  <2> SUFFICES ASSUME Init PROVE TagsChecked
    OBVIOUS
  <2>1. check["FETCH"] = FALSE /\ check["LOAD"] = FALSE /\ check["STORE"] = FALSE
    BY DEF Init, Types
  <2>2. trigger.execute = FALSE /\ trigger.load = FALSE /\ trigger.store = FALSE
    BY DEF Init, NoTrigger
  <2>3. \A type \in Types, i \in Slots : tlb_tag[type][i].vpn = -1
    BY DEF Init, NoTlb, NoTag, Slots
  <2> QED
    BY <2>1, <2>2, <2>3 DEF TagsChecked
<1>2. TypeOK /\ TagsChecked => WatchpointsSeen
  <2> SUFFICES ASSUME TypeOK, TagsChecked, NEW a \in Addresses, NEW type \in {"LOAD", "STORE"},
                      trigger_match(type, a), Hit(type, a[1])
               PROVE  tlb_tag[type][Slot(a[1])].check
    BY DEF WatchpointsSeen, Triggered, looks
  <2>1. a[1] # -1 /\ Slot(a[1]) \in Slots
    BY ProgramType, SlotRange
  <2>2. tlb_tag[type][Slot(a[1])].check = check[type]
    BY <2>1 DEF Hit, TagsChecked, Types
  <2>3. check[type]
    <3>1. CASE type = "LOAD"
      BY <3>1 DEF trigger_match, TagsChecked
    <3>2. CASE type = "STORE"
      BY <3>2 DEF trigger_match, TagsChecked
    <3> QED
      BY <3>1, <3>2
  <2> QED
    BY <2>2, <2>3
<1> QED
  BY <1>1, <1>2, InitType, TypeStep, TagsCheckedStep, PTL DEF Spec

LEMMA NoneTracedStep == TypeOK /\ NoneTraced /\ [Next]_vars => NoneTraced'
<1> SUFFICES ASSUME TypeOK, NoneTraced, [Next]_vars PROVE NoneTraced'
  OBVIOUS
<1>1. tracer \in SUBSET Types /\ IcacheType
  BY TypeParts DEF TriggerType
<1>2. CASE Completes
  <2>1. tracer' = tracer
    BY <1>2 DEF Completes, Load, FetchFast, FetchSlow, FetchCompletes, Store
  <2>2. PICK type \in Types, v \in Vpns : after_slow_path(type, v, Where(type, v))
    BY <1>2, CompletesSlowPath
  <2>3. ASSUME NEW t \in tracer \ {"FETCH"}, NEW i \in Slots PROVE tlb_tag'[t][i].vpn = -1
    BY <1>1, <2>2, SlowPathTags DEF NoneTraced
  <2>4. ASSUME "FETCH" \in tracer, NEW j \in IcacheSlots PROVE icache'[j].tag = NoInsn
    <3>1. CASE icache' = icache
      BY <2>4, <3>1 DEF NoneTraced
    <3>2. CASE \E a \in Addresses : icache' = [icache EXCEPT ![IcacheSlot(a)] = NoEntry]
      BY <1>1, <2>4, <3>2 DEF NoneTraced, NoEntry, NoInsn, IcacheType
    <3> QED
      BY <1>2, <2>4, <3>1, <3>2 DEF Completes, Load, FetchFast, FetchSlow, Store
  <2> QED
    BY <2>1, <2>3, <2>4 DEF NoneTraced
<1>3. CASE Flushes
  <2>1. tracer' = tracer
    BY <1>3 DEF Flushes, Fault, TriggerFires, Trap, EnterDebugMode, Mret, Sret, Dret, SfenceVm,
                MachineOnly, WriteTdata1
  <2> QED
    BY <1>1, <1>3, <2>1, FlushesType, FlushClears DEF NoneTraced
<1>4. CASE Writes
  <2>1. tracer' = tracer
    BY <1>4 DEF Writes, WriteMstatus, WriteSstatus, WriteSptbr, FenceI, WriteTdata2, MachineOnly
  <2>2. CASE flush_tlb
    BY <1>1, <2>1, <2>2, FlushClears DEF NoneTraced
  <2>3. CASE UNCHANGED <<tlb_tag, icache>>
    BY <2>1, <2>3 DEF NoneTraced
  <2>4. CASE UNCHANGED tlb_tag /\ flush_icache
    BY <2>1, <2>4 DEF NoneTraced, flush_icache, NoIcache, NoEntry, NoInsn, IcacheSlots
  <2> QED
    BY <1>4, <2>2, <2>3, <2>4
    DEF Writes, WriteMstatus, WriteSstatus, set_mstatus, WriteSptbr, FenceI, WriteTdata2, tlbVars
<1>5. CASE UNCHANGED vars
  BY <1>5 DEF vars, tlbVars, NoneTraced
<1> QED
  BY <1>2, <1>3, <1>4, <1>5, NextCases

\* TracersSeeAll holds for every machine: no entry of the TLB or the
\* instruction cache lets an access bypass a cache model.
THEOREM TracersStaySeeing == Spec => []TracersSeeAll
<1>1. Init => NoneTraced
  <2> SUFFICES ASSUME Init PROVE NoneTraced
    OBVIOUS
  <2>1. tracer \in SUBSET Types
    BY InitType, TypeParts DEF TriggerType
  <2> QED
    BY <2>1 DEF Init, NoneTraced, NoTlb, NoTag, NoIcache, NoEntry, NoInsn, Slots, IcacheSlots
<1>2. TypeOK /\ NoneTraced => TracersSeeAll
  <2> SUFFICES ASSUME TypeOK, NoneTraced PROVE TracersSeeAll
    OBVIOUS
  <2>1. ASSUME NEW type \in tracer \ {"FETCH"}, NEW v \in Vpns PROVE ~Hit(type, v)
    <3>1. Slot(v) \in Slots /\ v # -1
      BY SlotRange
    <3> QED
      BY <3>1 DEF Hit, NoneTraced
  <2>2. ASSUME "FETCH" \in tracer, NEW a \in Addresses PROVE ~IcacheHit(a)
    <3>1. a \in Vpns \X Cells
      BY ProgramAssumption
    <3>2. IcacheSlot(a) \in IcacheSlots /\ a[1] \in Nat
      BY <3>1, SlotRange
    <3>3. a # NoInsn
      BY <3>1, <3>2 DEF NoInsn
    <3> QED
      BY <2>2, <3>2, <3>3 DEF IcacheHit, NoneTraced
  <2> QED
    BY <2>1, <2>2 DEF TracersSeeAll
<1> QED
  BY <1>1, <1>2, InitType, TypeStep, NoneTracedStep, PTL DEF Spec

-----------------------------------------------------------------------------
(* The caches tell the truth as long as software fences. *)

\* A tag of type t for page v is backed by the bits of the entry that maps v.
MarkedAt(bits, t, v) ==
  LET l == leaf(mem, state.sptbr, v)
  IN /\ l.page \in MemPages /\ l.cell \in Cells
     /\ "A" \in bits[l.page][l.cell]
     /\ t = "STORE" => "D" \in bits[l.page][l.cell]

\* The access types whose tags in entry i are for the same page as that of t
\* are translated in the same mode.
Agree(t, i) ==
  \A o \in Types : tlb_tag[o][i].vpn = tlb_tag[t][i].vpn => mode_of(state, o) = mode_of(state, t)
Uniform == mode_of(state, "LOAD") = mode_of(state, "FETCH")
\* A valid tag is for a page that its access type may use; the translation is
\* its own, unless another type with another mode shares it.
TlbKnows ==
  synced => \A t \in Types, i \in Slots :
              tlb_tag[t][i].vpn # -1 =>
                /\ tlb_data[i] \in MemPages
                /\ translate(state, mem, tlb_tag[t][i].vpn, t) # NoPage
                /\ Agree(t, i) => tlb_data[i] = translate(state, mem, tlb_tag[t][i].vpn, t)
TlbMarked ==
  synced => \A t \in Types, i \in Slots :
              tlb_tag[t][i].vpn # -1 /\ mode_of(state, t) # PRV_M =>
                MarkedAt(ad, t, tlb_tag[t][i].vpn)
IcacheKnows ==
  synced /\ fenced /\ Uniform =>
    \A j \in IcacheSlots :
      icache[j].tag # NoInsn =>
        LET page == translate(state, mem, icache[j].tag[1], "FETCH")
        IN page # NoPage /\ icache[j].data = Contents(mem, page, icache[j].tag[2])
CacheInv == TlbKnows /\ TlbMarked /\ IcacheKnows

\* All access types have one mode if loads and fetches do.
LEMMA UniformModes ==
  ASSUME Uniform, NEW t \in Types, NEW o \in Types
  PROVE  mode_of(state, t) = mode_of(state, o)
  BY DEF Uniform, mode_of, Types

\* While TlbKnows holds, and all accesses have one mode, an access goes where a
\* walk would go.
LEMMA WhereTranslates ==
  ASSUME TypeOK, TlbKnows, synced, Uniform, NEW type \in Types, NEW v \in Vpns
  PROVE  Where(type, v) = translate(state, mem, v, type)
<1>1. Slot(v) \in Slots /\ v # -1
  BY SlotRange
<1>2. Agree(type, Slot(v))
  BY UniformModes DEF Agree
<1> QED
  BY <1>1, <1>2 DEF Where, Hit, TlbKnows

\* walk() takes no bit away, and marks the entry of a page that it finds.
LEMMA MarkGrows ==
  ASSUME TypeOK, NEW type, NEW v \in Vpns
  PROVE  /\ \A p \in MemPages, c \in Cells : ad[p][c] \subseteq marked(type, v)[p][c]
         /\ mode_of(state, type) # PRV_M /\ translate(state, mem, v, type) # NoPage
              => MarkedAt(marked(type, v), type, v)
<1> DEFINE l == leaf(mem, state.sptbr, v)
           mode == mode_of(state, type)
           b == IF type = "STORE" THEN {"A", "D"} ELSE {"A"}
<1>1. ad \in [MemPages -> [Cells -> SUBSET {"A", "D"}]]
  BY TypeParts DEF MemType
<1>2. marked(type, v) = IF mode = PRV_M \/ walk(state, mem, v, type, mode) = NoPage THEN ad
                        ELSE [ad EXCEPT ![l.page][l.cell] = @ \cup b]
  BY DEF marked
<1>3. \A p \in MemPages, c \in Cells : ad[p][c] \subseteq marked(type, v)[p][c]
  <2> HIDE DEF l, mode, b
  <2> QED
    BY <1>1, <1>2
<1>4. ASSUME mode # PRV_M, translate(state, mem, v, type) # NoPage
      PROVE  MarkedAt(marked(type, v), type, v)
  <2>1. walk(state, mem, v, type, mode) # NoPage
    BY <1>4, TranslateType DEF translate
  <2>2. l.found
    BY <2>1 DEF walk
  <2>3. l.page \in MemPages /\ l.cell \in Cells
    BY <2>2, LeafPlace
  <2>4. marked(type, v) = [ad EXCEPT ![l.page][l.cell] = @ \cup b]
    BY <1>2, <1>4, <2>1
  <2>5. marked(type, v)[l.page][l.cell] = ad[l.page][l.cell] \cup b
    <3> HIDE DEF l, mode, b
    <3> QED
      BY <1>1, <2>3, <2>4
  <2>6. "A" \in b /\ (type = "STORE" => "D" \in b)
    OBVIOUS
  <2>7. "A" \in marked(type, v)[l.page][l.cell] /\ (type = "STORE" => "D" \in marked(type, v)[l.page][l.cell])
    <3> HIDE DEF l, mode, b
    <3> QED
      BY <2>5, <2>6
  <2> QED
    BY <2>3, <2>7 DEF MarkedAt
<1> QED
  BY <1>3, <1>4

\* After a slow path every valid tag has a translation that is its own, unless
\* modes differ, and the bits that it needs.
LEMMA SlowPathKnows ==
  ASSUME TypeOK, CacheInv, synced, NEW type \in Types, NEW v \in Vpns,
         after_slow_path(type, v, Where(type, v)), Where(type, v) # NoPage,
         NEW t \in Types, NEW i \in Slots, tlb_tag'[t][i].vpn # -1
  PROVE  /\ tlb_data'[i] \in MemPages
         /\ translate(state, mem, tlb_tag'[t][i].vpn, t) # NoPage
         /\ (\A o \in Types : tlb_tag'[o][i].vpn = tlb_tag'[t][i].vpn
                                => mode_of(state, o) = mode_of(state, t))
              => tlb_data'[i] = translate(state, mem, tlb_tag'[t][i].vpn, t)
         /\ mode_of(state, t) # PRV_M =>
              MarkedAt(IF Hit(type, v) THEN ad ELSE marked(type, v), t, tlb_tag'[t][i].vpn)
<1> DEFINE bits == IF Hit(type, v) THEN ad ELSE marked(type, v)
           u == tlb_tag'[t][i].vpn
           Agreed == \A o \in Types : tlb_tag'[o][i].vpn = u => mode_of(state, o) = mode_of(state, t)
<1>1. \A w : MarkedAt(ad, t, w) => MarkedAt(bits, t, w)
  BY MarkGrows DEF MarkedAt
<1>2. ~Hit(type, v) => Where(type, v) = translate(state, mem, v, type)
  BY DEF Where
<1>3. CASE /\ tlb_tag'[t][i] = tlb_tag[t][i] /\ tlb_data'[i] = tlb_data[i]
           /\ \A o \in Types : tlb_tag'[o][i] = tlb_tag[o][i]
  <2>1. tlb_tag[t][i].vpn # -1
    BY <1>3
  <2>2. Agreed => Agree(t, i)
    BY <1>3 DEF Agree
  <2>3. /\ tlb_data[i] \in MemPages
        /\ translate(state, mem, u, t) # NoPage
        /\ Agreed => tlb_data[i] = translate(state, mem, u, t)
    <3> HIDE DEF Agreed
    <3> QED
      BY <1>3, <2>1, <2>2 DEF CacheInv, TlbKnows
  <2>4. mode_of(state, t) # PRV_M => MarkedAt(ad, t, u)
    BY <1>3, <2>1 DEF CacheInv, TlbMarked
  <2> HIDE DEF bits
  <2>5. mode_of(state, t) # PRV_M => MarkedAt(bits, t, u)
    BY <1>1, <2>4
  <2> QED
    BY <1>3, <2>3, <2>5 DEF bits
<1>4. CASE /\ ~Hit(type, v) /\ Where(type, v) \in MemPages /\ tlb_data'[i] = Where(type, v)
           /\ u = v /\ t = type
  <2>1. mode_of(state, t) # PRV_M => MarkedAt(bits, t, u)
    BY <1>2, <1>4, MarkGrows
  <2> QED
    BY <1>2, <1>4, <2>1
<1>5. CASE /\ ~Hit(type, v) /\ Where(type, v) \in MemPages /\ tlb_data'[i] = Where(type, v)
           /\ u = v /\ tlb_tag'[type][i].vpn = v /\ t # type /\ tlb_tag'[t][i] = tlb_tag[t][i]
  <2>1. tlb_tag[t][i].vpn = v /\ v # -1
    BY <1>5, SlotRange
  <2>2. translate(state, mem, v, t) # NoPage
    BY <2>1 DEF CacheInv, TlbKnows
  <2>3. translate(state, mem, v, type) # NoPage
    BY <1>2, <1>5, PagesAssumption DEF NoPage
  <2>4. Agreed => translate(state, mem, v, t) = translate(state, mem, v, type)
    <3>1. Agreed => mode_of(state, type) = mode_of(state, t)
      BY <1>5
    <3> HIDE DEF Agreed
    <3> QED
      BY <2>2, <2>3, <3>1, TranslateSharing
  <2>5. mode_of(state, t) # PRV_M => MarkedAt(ad, t, v)
    BY <2>1 DEF CacheInv, TlbMarked
  <2> HIDE DEF bits
  <2>6. mode_of(state, t) # PRV_M => MarkedAt(bits, t, u)
    BY <1>1, <1>5, <2>5
  <2> QED
    BY <1>2, <1>5, <2>2, <2>4, <2>6 DEF bits
<1> QED
  BY <1>3, <1>4, <1>5, SlowPathTags

\* What holds of a slow path without a store: loads and fetches.
LEMMA ReadKnows ==
  ASSUME TypeOK, TypeOK', CacheInv, NEW type \in Types, NEW v \in Vpns,
         after_slow_path(type, v, Where(type, v)), Where(type, v) # NoPage,
         Marks(type, v), UNCHANGED <<state, mem, synced>>
  PROVE  TlbKnows' /\ TlbMarked'
<1>1. ASSUME synced, NEW t \in Types, NEW i \in Slots, tlb_tag'[t][i].vpn # -1
      PROVE  /\ tlb_data'[i] \in MemPages
             /\ translate(state, mem, tlb_tag'[t][i].vpn, t) # NoPage
             /\ Agree(t, i)' => tlb_data'[i] = translate(state, mem, tlb_tag'[t][i].vpn, t)
             /\ mode_of(state, t) # PRV_M => MarkedAt(ad', t, tlb_tag'[t][i].vpn)
  BY <1>1, SlowPathKnows DEF Marks, Agree
<1>2. TlbKnows'
  BY <1>1 DEF TlbKnows
<1>3. TlbMarked'
  BY <1>1 DEF TlbMarked, MarkedAt
<1> QED
  BY <1>2, <1>3

\* The instruction cache, when neither the translation nor memory changes and
\* an entry is filled with what a fetch finds, or cleared.
LEMMA FetchKnows ==
  ASSUME TypeOK, CacheInv, NEW a \in Addresses, Where("FETCH", a[1]) # NoPage,
         UNCHANGED <<state, mem, synced, fenced>>,
         \/ icache' = icache
         \/ icache' = [icache EXCEPT ![IcacheSlot(a)] = NoEntry]
         \/ icache' = [icache EXCEPT ![IcacheSlot(a)] =
                         [tag |-> a, data |-> Contents(mem, Where("FETCH", a[1]), a[2])]]
  PROVE  IcacheKnows'
<1> SUFFICES ASSUME synced, fenced, Uniform, NEW j \in IcacheSlots, icache'[j].tag # NoInsn
             PROVE  LET page == translate(state, mem, icache'[j].tag[1], "FETCH")
                    IN page # NoPage /\ icache'[j].data = Contents(mem, page, icache'[j].tag[2])
  BY DEF IcacheKnows, Uniform
<1>1. icache \in [IcacheSlots -> [tag : (Vpns \X Cells) \cup {NoInsn}, data : Cell]]
  BY TypeParts DEF IcacheType
<1>2. CASE icache'[j] = icache[j]
  BY <1>2 DEF CacheInv, IcacheKnows
<1>3. CASE icache'[j] = NoEntry
  BY <1>3 DEF NoEntry, NoInsn
<1>4. CASE icache'[j] = [tag |-> a, data |-> Contents(mem, Where("FETCH", a[1]), a[2])]
  <2>1. icache'[j].tag = a /\ icache'[j].data = Contents(mem, Where("FETCH", a[1]), a[2])
    BY <1>4
  <2>2. Where("FETCH", a[1]) = translate(state, mem, a[1], "FETCH")
    BY WhereTranslates, ProgramType DEF CacheInv, Types
  <2> QED
    BY <2>1, <2>2
<1> QED
  BY <1>1, <1>2, <1>3, <1>4

\* A store after which the page table says the same about every page.
LEMMA StoreKnows ==
  ASSUME TypeOK, TypeOK', CacheInv, NEW a \in Addresses, NEW w \in Cell, Store(a, w)
  PROVE  CacheInv'
<1> DEFINE page == Where("STORE", a[1])
           bits == IF Hit("STORE", a[1]) THEN ad ELSE marked("STORE", a[1])
<1>1. /\ page # NoPage
      /\ mem' = stored(page, a[2], w)
      /\ ad' = stored_ad(bits, page, a[2])
      /\ after_slow_path("STORE", a[1], page)
      /\ synced' = (synced /\ Untranslated(mem', page, a[2]))
      /\ fenced' = (fenced /\ Unfetched(page))
      /\ UNCHANGED <<state, icache>>
  BY DEF Store
<1>2. a[1] \in Vpns /\ a[2] \in Cells /\ "STORE" \in Types
  BY ProgramType DEF Types
<1>3. TlbType' /\ IcacheType /\ MemType
  BY TypeParts
<1>4. bits \in [MemPages -> [Cells -> SUBSET {"A", "D"}]]
  BY <1>3, MarkType DEF MemType
<1>5. ASSUME synced' PROVE synced /\ Untranslated(mem', page, a[2])
  BY <1>1, <1>5
<1>6. ASSUME synced', NEW v \in Vpns
      PROVE  /\ leaf(mem', state'.sptbr, v) = leaf(mem, state.sptbr, v)
             /\ ~(/\ leaf(mem, state.sptbr, v).found
                  /\ leaf(mem, state.sptbr, v).page = page /\ leaf(mem, state.sptbr, v).cell = a[2])
  BY <1>1, <1>5, <1>6 DEF Untranslated
<1>7. ASSUME synced', NEW v \in Vpns, NEW t
      PROVE  /\ translate(state', mem', v, t) = translate(state, mem, v, t)
             /\ mode_of(state', t) = mode_of(state, t)
  BY <1>1, <1>6, <1>7, TranslateCongruence
<1>8. ASSUME synced', NEW t \in Types, NEW i \in Slots, tlb_tag'[t][i].vpn # -1
      PROVE  /\ tlb_tag'[t][i].vpn \in Vpns
             /\ tlb_data'[i] \in MemPages
             /\ translate(state, mem, tlb_tag'[t][i].vpn, t) # NoPage
             /\ Agree(t, i)' => tlb_data'[i] = translate(state, mem, tlb_tag'[t][i].vpn, t)
             /\ mode_of(state, t) # PRV_M => MarkedAt(bits, t, tlb_tag'[t][i].vpn)
  <2>1. tlb_tag'[t][i].vpn \in Vpns
    BY <1>3, <1>8 DEF TlbType
  <2>2. state' = state
    BY <1>1
  <2> QED
    BY <1>1, <1>2, <1>5, <1>8, <2>1, <2>2, SlowPathKnows DEF Agree
<1> HIDE DEF page, bits
<1>9. Uniform' => Uniform
  BY <1>1 DEF Uniform
<1>10. TlbKnows'
  BY <1>7, <1>8 DEF TlbKnows
<1>11. TlbMarked'
  <2> SUFFICES ASSUME synced', NEW t \in Types, NEW i \in Slots, tlb_tag'[t][i].vpn # -1,
                      mode_of(state', t) # PRV_M
               PROVE  MarkedAt(ad, t, tlb_tag[t][i].vpn)'
    BY DEF TlbMarked
  <2> DEFINE v == tlb_tag'[t][i].vpn
             l == leaf(mem, state.sptbr, v)
  <2>1. v \in Vpns /\ MarkedAt(bits, t, v) /\ leaf(mem', state'.sptbr, v) = l
    BY <1>6, <1>7, <1>8
  <2>2. translate(state, mem, v, t) # NoPage /\ mode_of(state, t) # PRV_M
    BY <1>7, <1>8, <2>1
  <2>3. l.found
    BY <2>2, TranslateType DEF translate, walk
  <2>4. ~(l.page = page /\ l.cell = a[2])
    BY <1>6, <2>1, <2>3
  <2>5. l.page \in MemPages /\ l.cell \in Cells
    BY <2>1 DEF MarkedAt
  <2>6. "A" \in bits[l.page][l.cell] /\ (t = "STORE" => "D" \in bits[l.page][l.cell])
    BY <2>1 DEF MarkedAt
  <2>7. ad'[l.page][l.cell] = bits[l.page][l.cell]
    <3> HIDE DEF l
    <3> QED
      BY <1>1, <1>4, <2>4, <2>5 DEF stored_ad
  <2> QED
    BY <2>1, <2>5, <2>6, <2>7 DEF MarkedAt
<1>12. IcacheKnows'
  <2> SUFFICES ASSUME synced', fenced', Uniform, NEW j \in IcacheSlots, icache[j].tag # NoInsn
               PROVE  LET p == translate(state', mem', icache[j].tag[1], "FETCH")
                      IN p # NoPage /\ icache[j].data = Contents(mem', p, icache[j].tag[2])
    BY <1>1, <1>9 DEF IcacheKnows
  <2> DEFINE v == icache[j].tag[1]
             c == icache[j].tag[2]
             p == translate(state, mem, v, "FETCH")
  <2>1. icache[j].tag \in Vpns \X Cells
    BY <1>3 DEF IcacheType
  <2>2. v \in Vpns /\ c \in Cells
    BY <2>1
  <2>3. synced /\ fenced /\ Unfetched(page)
    BY <1>1, <1>5
  <2>4. p # NoPage /\ icache[j].data = Contents(mem, p, c)
    BY <2>3 DEF CacheInv, IcacheKnows
  <2>5. p # page
    BY <2>2, <2>3 DEF Unfetched
  <2>6. translate(state', mem', v, "FETCH") = p
    BY <1>7, <2>2
  <2> HIDE DEF v, c, p
  <2>7. Contents(mem', p, c) = Contents(mem, p, c)
    BY <1>1, <1>3, <2>5 DEF Contents, stored, MemType
  <2> QED
    BY <2>4, <2>6, <2>7 DEF v, c
<1> QED
  BY <1>10, <1>11, <1>12 DEF CacheInv

\* A step that changes neither memory, nor the caches, nor what translation
\* reads of the state, except for a page table that says the same.
LEMMA SameKnows ==
  ASSUME TypeOK, CacheInv, UNCHANGED <<mem, ad, tlb_tag, tlb_data>>,
         \A f \in {"vm", "mprv", "debug", "mpp", "prv", "pum", "mxr"} : state'[f] = state[f],
         synced' => /\ synced
                    /\ \A v \in Vpns : leaf(mem, state'.sptbr, v) = leaf(mem, state.sptbr, v),
         \/ icache' = icache /\ fenced' = fenced
         \/ icache' = NoIcache
  PROVE  CacheInv'
<1>1. TlbType /\ IcacheType
  BY TypeParts
<1>2. /\ state'.vm = state.vm /\ state'.mprv = state.mprv /\ state'.debug = state.debug
      /\ state'.mpp = state.mpp /\ state'.prv = state.prv /\ state'.pum = state.pum
      /\ state'.mxr = state.mxr
  OBVIOUS
<1>3. ASSUME synced', NEW v \in Vpns, NEW t
      PROVE  /\ translate(state', mem', v, t) = translate(state, mem, v, t)
             /\ mode_of(state', t) = mode_of(state, t)
             /\ leaf(mem', state'.sptbr, v) = leaf(mem, state.sptbr, v)
  BY <1>2, <1>3, TranslateCongruence
<1>4. ASSUME NEW t \in Types, NEW i \in Slots, tlb_tag[t][i].vpn # -1
      PROVE  tlb_tag[t][i].vpn \in Vpns
  BY <1>1, <1>4 DEF TlbType
<1>5. \A t : mode_of(state', t) = mode_of(state, t)
  BY <1>2 DEF mode_of
<1>6. TlbKnows'
  <2>1. ASSUME NEW t \in Types, NEW i \in Slots, Agree(t, i)' PROVE Agree(t, i)
    BY <1>5, <2>1 DEF Agree
  <2> QED
    BY <1>3, <1>4, <2>1 DEF CacheInv, TlbKnows
<1>7. TlbMarked'
  <2>1. ASSUME synced', NEW t \in Types, NEW i \in Slots, tlb_tag[t][i].vpn # -1,
               mode_of(state', t) # PRV_M
        PROVE  MarkedAt(ad, t, tlb_tag[t][i].vpn)
    BY <1>3, <1>4, <2>1 DEF CacheInv, TlbMarked
  <2>2. ASSUME synced', NEW v \in Vpns, NEW t, MarkedAt(ad, t, v) PROVE MarkedAt(ad, t, v)'
    BY <1>3, <2>2 DEF MarkedAt
  <2> QED
    BY <1>4, <2>1, <2>2 DEF TlbMarked
<1>8. IcacheKnows'
  <2>1. CASE icache' = NoIcache
    BY <2>1 DEF IcacheKnows, NoIcache, NoEntry, NoInsn, IcacheSlots
  <2>2. CASE icache' = icache /\ fenced' = fenced
    <3> SUFFICES ASSUME synced', fenced, Uniform, NEW j \in IcacheSlots, icache[j].tag # NoInsn
                 PROVE  LET p == translate(state', mem', icache[j].tag[1], "FETCH")
                        IN p # NoPage /\ icache[j].data = Contents(mem, p, icache[j].tag[2])
      BY <1>5, <2>2 DEF IcacheKnows, Uniform
    <3>1. icache[j].tag \in Vpns \X Cells
      BY <1>1 DEF IcacheType
    <3>2. icache[j].tag[1] \in Vpns
      BY <3>1
    <3>3. translate(state', mem', icache[j].tag[1], "FETCH")
            = translate(state, mem, icache[j].tag[1], "FETCH")
      BY <1>3, <3>2
    <3> QED
      BY <3>3 DEF CacheInv, IcacheKnows
  <2> QED
    BY <2>1, <2>2
<1> QED
  BY <1>6, <1>7, <1>8 DEF CacheInv

LEMMA FlushKnows ==
  ASSUME flush_tlb
  PROVE  CacheInv'
  BY FlushClears DEF CacheInv, TlbKnows, TlbMarked, IcacheKnows

LEMMA CacheStep == TypeOK /\ CacheInv /\ [Next]_vars => CacheInv'
<1> SUFFICES ASSUME TypeOK, CacheInv, [Next]_vars PROVE CacheInv'
  OBVIOUS
<1>1. TypeOK' /\ StateType /\ StateType'
  BY TypeStep, TypeParts
<1>2. ASSUME NEW a \in Addresses, Load(a) PROVE CacheInv'
  <2>1. TlbKnows' /\ TlbMarked'
    BY <1>1, <1>2, ReadKnows, ProgramType DEF Load, Types
  <2>2. IcacheKnows'
    BY <1>2 DEF Load, CacheInv, IcacheKnows, Uniform
  <2> QED
    BY <2>1, <2>2 DEF CacheInv
<1>3. ASSUME NEW a \in Addresses, FetchFast(a) \/ FetchSlow(a) PROVE CacheInv'
  <2>1. FetchCompletes(a, Where("FETCH", a[1]))
    BY <1>3 DEF FetchFast, FetchSlow
  <2>2. TlbKnows' /\ TlbMarked'
    BY <1>1, <2>1, ReadKnows, ProgramType DEF FetchCompletes, Types
  <2>3. \/ icache' = icache
        \/ icache' = [icache EXCEPT ![IcacheSlot(a)] = NoEntry]
        \/ icache' = [icache EXCEPT ![IcacheSlot(a)] =
                        [tag |-> a, data |-> Contents(mem, Where("FETCH", a[1]), a[2])]]
    BY <1>3 DEF FetchFast, FetchSlow
  <2>4. IcacheKnows'
    BY <2>1, <2>3, FetchKnows DEF FetchCompletes
  <2> QED
    BY <2>2, <2>4 DEF CacheInv
<1>4. ASSUME NEW st \in Stores, Store(st[1], st[2]) PROVE CacheInv'
  BY <1>1, <1>4, StoreKnows, ProgramType
<1>5. ASSUME Flushes PROVE CacheInv'
  BY <1>5, FlushesType, FlushKnows
<1>6. ASSUME NEW s, set_mstatus(s), MachineOnly, s.prv = state.prv,
             s.debug = state.debug, s.sptbr = state.sptbr
      PROVE  CacheInv'
  <2>1. CASE flush_tlb
    BY <2>1, FlushKnows
  <2>2. CASE /\ \A f \in {"vm", "mpp", "mprv", "pum", "mxr"} : s[f] = state[f]
             /\ UNCHANGED <<tlbVars, synced, fenced>>
    <3>1. \A f \in {"vm", "mprv", "debug", "mpp", "prv", "pum", "mxr"} : state'[f] = state[f]
      BY <1>6, <2>2 DEF set_mstatus
    <3>2. state'.sptbr = state.sptbr
      BY <1>6 DEF set_mstatus
    <3>3. UNCHANGED <<mem, ad, tlb_tag, tlb_data, icache, synced, fenced>>
      BY <1>6, <2>2 DEF MachineOnly, tlbVars
    <3> QED
      BY <3>1, <3>2, <3>3, SameKnows
  <2> QED
    BY <1>6, <2>1, <2>2 DEF set_mstatus
<1>7. ASSUME NEW vm \in Vms, NEW mprv \in Mprvs, NEW mpp \in Mpps, NEW pum \in Pums,
             NEW mxr \in Mxrs, WriteMstatus(vm, mprv, mpp, pum, mxr)
      PROVE  CacheInv'
  <2> DEFINE s == [state EXCEPT !.vm = vm, !.mprv = mprv, !.mpp = mpp, !.pum = pum, !.mxr = mxr]
  <2>1. set_mstatus(s) /\ MachineOnly
    BY <1>7 DEF WriteMstatus
  <2>2. s.prv = state.prv /\ s.debug = state.debug /\ s.sptbr = state.sptbr
    BY <1>1 DEF StateType
  <2> HIDE DEF s
  <2> QED
    BY <1>6, <2>1, <2>2
<1>8. ASSUME NEW pum \in Pums, WriteSstatus(pum) PROVE CacheInv'
  <2> DEFINE s == [state EXCEPT !.pum = pum]
  <2>1. set_mstatus(s) /\ MachineOnly
    BY <1>8 DEF WriteSstatus
  <2>2. s.prv = state.prv /\ s.debug = state.debug /\ s.sptbr = state.sptbr
    BY <1>1 DEF StateType
  <2> HIDE DEF s
  <2> QED
    BY <1>6, <2>1, <2>2
<1>9. ASSUME NEW root \in Roots, WriteSptbr(root) PROVE CacheInv'
  <2>1. state' = [state EXCEPT !.sptbr = root]
    BY <1>9 DEF WriteSptbr
  <2>2. /\ \A f \in {"vm", "mprv", "debug", "mpp", "prv", "pum", "mxr"} : state'[f] = state[f]
        /\ state'.sptbr = root
    BY <1>1, <2>1 DEF StateType
  <2>3. /\ UNCHANGED <<mem, ad, tlb_tag, tlb_data, icache, fenced>>
        /\ synced' = (synced /\ \A v \in Vpns : leaf(mem, root, v) = leaf(mem, state.sptbr, v))
    BY <1>9 DEF WriteSptbr, tlbVars
  <2> QED
    BY <2>2, <2>3, SameKnows
<1>10. ASSUME FenceI PROVE CacheInv'
  BY <1>10, SameKnows DEF FenceI, flush_icache, MachineOnly
<1>11. ASSUME NEW a \in Watched, WriteTdata2(a) PROVE CacheInv'
  BY <1>11, SameKnows DEF WriteTdata2, tlbVars
<1>12. CASE UNCHANGED vars
  BY <1>12, SameKnows DEF vars, tlbVars
<1>13. CASE Completes
  BY <1>2, <1>3, <1>4, <1>13 DEF Completes
<1>14. CASE Writes
  BY <1>7, <1>8, <1>9, <1>10, <1>11, <1>14 DEF Writes
<1> QED
  BY <1>5, <1>12, <1>13, <1>14, NextCases

LEMMA CacheInit == Init => CacheInv
<1> SUFFICES ASSUME Init PROVE CacheInv
  OBVIOUS
<1>1. \A t \in Types, i \in Slots : tlb_tag[t][i].vpn = -1
  BY DEF Init, NoTlb, NoTag, Slots
<1>2. \A j \in IcacheSlots : icache[j].tag = NoInsn
  BY DEF Init, NoIcache, NoEntry, NoInsn, IcacheSlots
<1> QED
  BY <1>1, <1>2 DEF CacheInv, TlbKnows, TlbMarked, IcacheKnows

LEMMA CacheInvariant == Spec => [](TypeOK /\ CacheInv)
  BY InitType, TypeStep, CacheInit, CacheStep, PTL DEF Spec

\* TlbTruthful holds for every machine: between fences an entry of the TLB is
\* what a walk would find, although loads, stores and fetches share it, unless
\* MPRV makes two of them share it in different modes.
THEOREM TlbStaysTruthful == Spec => []TlbTruthful
<1>1. TypeOK /\ CacheInv => TlbTruthful
  <2> SUFFICES ASSUME CacheInv, synced, NEW type \in Types, NEW v \in Vpns, Hit(type, v),
                      OneMode(type, v)
               PROVE  tlb_data[Slot(v)] = translate(state, mem, v, type)
    BY DEF TlbTruthful
  <2>1. Slot(v) \in Slots /\ v # -1 /\ tlb_tag[type][Slot(v)].vpn = v
    BY SlotRange DEF Hit
  <2>2. Agree(type, Slot(v))
    BY <2>1 DEF Agree, OneMode, Hit
  <2> QED
    BY <2>1, <2>2 DEF CacheInv, TlbKnows
<1> QED
  BY <1>1, CacheInvariant, PTL

\* DirtyMarked holds for every machine: no page is written through the TLB
\* without its D bit, none used without its A bit.
THEOREM DirtyStaysMarked == Spec => []DirtyMarked
<1>1. TypeOK /\ CacheInv => DirtyMarked
  <2>1. \A v \in Vpns : Slot(v) \in Slots /\ v # -1
    BY SlotRange
  <2> QED
    BY <2>1 DEF CacheInv, TlbMarked, MarkedAt, DirtyMarked, Hit
<1> QED
  BY <1>1, CacheInvariant, PTL

\* IcacheFresh holds for every machine: between fences, and while loads and
\* fetches have one mode, the instruction cache holds what is in memory.
THEOREM IcacheStaysFresh == Spec => []IcacheFresh
<1>1. TypeOK /\ CacheInv => IcacheFresh
  <2> SUFFICES ASSUME TypeOK, CacheInv, synced, fenced, Uniform, NEW a \in Addresses, IcacheHit(a)
               PROVE  LET page == translate(state, mem, a[1], "FETCH")
                      IN page # NoPage /\ icache[IcacheSlot(a)].data = Contents(mem, page, a[2])
    BY DEF IcacheFresh, Uniform
  <2>1. a \in Vpns \X Cells
    BY ProgramAssumption
  <2>2. IcacheSlot(a) \in IcacheSlots /\ a[1] \in Nat
    BY <2>1, SlotRange
  <2>3. icache[IcacheSlot(a)].tag = a /\ a # NoInsn
    BY <2>2 DEF IcacheHit, NoInsn
  <2> QED
    BY <2>2, <2>3 DEF CacheInv, IcacheKnows
<1> QED
  BY <1>1, CacheInvariant, PTL
===============================================================================
