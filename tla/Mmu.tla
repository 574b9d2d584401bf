--------------------------------- MODULE Mmu ---------------------------------
(***************************************************************************)
(* mmu_t: the page table walk, the TLB (three tags and one translation per *)
(* entry), the instruction cache, the memory tracers and the trigger       *)
(* check, together with the instructions of one hart that change what they *)
(* depend on.  Memory is made of pages, a page of cells, and a cell holds  *)
(* a page table entry, an instruction or data.  The A and D bits of a cell *)
(* are kept in ad: walk() sets them and never reads them.                  *)
(***************************************************************************)
EXTENDS Integers

CONSTANTS
  levels,          \* of the page table, with one bit of the address each
  MemPages,        \* physical pages of main memory
  IoPages,         \* physical pages of devices
  IoCell,          \* what a device answers
  TLB_ENTRIES,
  ICACHE_ENTRIES,
  InitMem,         \* the contents of memory at the start
  Addresses,       \* <<virtual page, cell>> pairs that the program uses
  Stores,          \* <<address, cell contents>> pairs that it stores
  Vms, Mprvs, Mpps, Pums, Mxrs, Roots,   \* what it writes to mstatus and sptbr
  Triggers, Watched,   \* what is written to tdata1 and tdata2
  Tracers          \* sets of access types that cache models are interested in

PRV_U == 0
PRV_S == 1
PRV_M == 3
Types == {"FETCH", "LOAD", "STORE"}
Pages == MemPages \cup IoPages
Vpns == 0..(2^levels - 1)
Cells == {0, 1}
Cell == [v : BOOLEAN, r : BOOLEAN, w : BOOLEAN, x : BOOLEAN, u : BOOLEAN, ppn : Pages]
Trigger == [dmode : BOOLEAN, timing : {0, 1}, action : {"debug mode", "exception"},
            load : BOOLEAN, store : BOOLEAN, execute : BOOLEAN]
NoPage == -1
NoTag == [vpn |-> -1, check |-> FALSE]
NoEntry == [tag |-> <<-1, 0>>, data |-> IoCell]
NoTrigger == [dmode |-> FALSE, timing |-> 0, action |-> "exception", load |-> FALSE,
              store |-> FALSE, execute |-> FALSE]

\* The second conjunct follows from the first, but the provers know no powers.
ASSUME LevelsAssumption == levels \in Nat \ {0} /\ 2^levels > 0
ASSUME PagesAssumption == 0 \in MemPages /\ MemPages \subseteq Nat /\ IoPages \subseteq Nat
                          /\ MemPages \cap IoPages = {}
ASSUME SizesAssumption == TLB_ENTRIES \in Nat \ {0} /\ ICACHE_ENTRIES \in Nat \ {0}
ASSUME MemAssumption == InitMem \in [MemPages -> [Cells -> Cell]] /\ IoCell \in Cell
ASSUME ProgramAssumption ==
  /\ Addresses \subseteq Vpns \X Cells
  /\ Stores \subseteq Addresses \X Cell
  /\ Vms \subseteq BOOLEAN /\ Mprvs \subseteq BOOLEAN
  /\ Mpps \subseteq {PRV_U, PRV_S, PRV_M}
  /\ Pums \subseteq BOOLEAN /\ Mxrs \subseteq BOOLEAN
  /\ Roots \subseteq Pages
  /\ Triggers \subseteq Trigger /\ Watched \subseteq Addresses
  /\ Tracers \subseteq SUBSET Types

VARIABLES
  state,      \* prv, the debug flag (dcsr.cause), dcsr.prv, mstatus and sptbr
  mem, ad,
  tlb_tag,    \* tlb_insn_tag, tlb_load_tag and tlb_store_tag
  tlb_data,
  icache,
  check,      \* check_triggers_fetch, _load and _store
  trigger,    \* mcontrol[0]
  tdata2,     \* the address that it waits for
  tracer,
  synced,     \* history: no translation changed since the last flush_tlb
  fenced      \* history: no instruction was overwritten since the last flush_icache

tlbVars == <<tlb_tag, tlb_data, icache>>
vars == <<state, mem, ad, tlbVars, check, trigger, tdata2, tracer, synced, fenced>>

-----------------------------------------------------------------------------
(* Translation. *)

\* base[i] is the page that the walk reads at level i, or NoPage if an entry
\* above it was no pointer to a table.
PTE_TABLE(p) == p.v /\ ~p.r /\ ~p.w /\ ~p.x
table_base(m, root, vpn) ==
  LET base[i \in 0..levels] ==
        IF i = 0 THEN root
        ELSE LET b == base[i - 1]
             IN IF b \in MemPages /\ PTE_TABLE(m[b][(vpn \div 2^(levels - i)) % 2])
                THEN m[b][(vpn \div 2^(levels - i)) % 2].ppn ELSE NoPage
  IN base

\* The entry at which the walk ends: the first that is no pointer to a table.
leaf(m, root, vpn) ==
  LET base == table_base(m, root, vpn)
      ends == { i \in 0..(levels - 1) : base[i] \in MemPages /\ base[i + 1] = NoPage }
  IN IF ends = {} THEN [found |-> FALSE]
     ELSE LET i == CHOOSE j \in ends : TRUE
              c == (vpn \div 2^(levels - 1 - i)) % 2
          IN [found |-> TRUE, page |-> base[i], cell |-> c, pte |-> m[base[i]][c],
              ptshift |-> levels - 1 - i]

\* The checks of walk(), in its order.
permitted(s, pte, type, mode) ==
  /\ IF pte.u THEN ~(mode = PRV_S /\ s.pum) ELSE mode = PRV_S
  /\ pte.v /\ (pte.r \/ ~pte.w)
  /\ CASE type = "FETCH" -> pte.x
       [] type = "LOAD"  -> pte.r \/ (s.mxr /\ pte.x)
       [] type = "STORE" -> pte.r /\ pte.w

\* "make a fake leaf PTE": ppn | (vpn & ((1 << ptshift) - 1)).
Bit(n, k) == (n \div 2^k) % 2
superpage(ppn, vpn, ptshift) ==
  (ppn \div 2^ptshift) * 2^ptshift
    + CHOOSE low \in 0..(2^ptshift - 1) :
        \A k \in 0..(ptshift - 1) : Bit(low, k) = IF Bit(ppn, k) = 1 THEN 1 ELSE Bit(vpn, k)

walk(s, m, vpn, type, mode) ==
  LET l == leaf(m, s.sptbr, vpn)
  IN IF l.found /\ permitted(s, l.pte, type, mode)
     THEN superpage(l.pte.ppn, vpn, l.ptshift) ELSE NoPage

\* The privilege mode of an access: MPRV redirects loads and stores.
mode_of(s, type) ==
  IF ~s.vm THEN PRV_M
  ELSE IF type # "FETCH" /\ ~s.debug /\ s.mprv THEN s.mpp ELSE s.prv

translate(s, m, vpn, type) ==
  LET mode == mode_of(s, type)
      page == IF mode = PRV_M THEN vpn ELSE walk(s, m, vpn, type, mode)
  IN IF page \in Pages THEN page ELSE NoPage

\* Mutant: a store does not set the D bit.
marked_no_dirty(type, vpn) ==
  LET l == leaf(mem, state.sptbr, vpn)
      mode == mode_of(state, type)
  IN IF mode = PRV_M \/ walk(state, mem, vpn, type, mode) = NoPage THEN ad
     ELSE [ad EXCEPT ![l.page][l.cell] = @ \cup {"A"}]

\* walk() sets the A bit, and for a store the D bit, in the entry it ends at.
marked(type, vpn) ==
  LET l == leaf(mem, state.sptbr, vpn)
      mode == mode_of(state, type)
  IN IF mode = PRV_M \/ walk(state, mem, vpn, type, mode) = NoPage THEN ad
     ELSE [ad EXCEPT ![l.page][l.cell] =
             @ \cup IF type = "STORE" THEN {"A", "D"} ELSE {"A"}]

-----------------------------------------------------------------------------
(* The TLB, the instruction cache and the trigger check. *)

Slot(vpn) == vpn % TLB_ENTRIES
Hit(type, vpn) == tlb_tag[type][Slot(vpn)].vpn = vpn
Where(type, vpn) == IF Hit(type, vpn) THEN tlb_data[Slot(vpn)]
                    ELSE translate(state, mem, vpn, type)

NoTlb == [t \in Types |-> [i \in 0..(TLB_ENTRIES - 1) |-> NoTag]]
NoIcache == [i \in 0..(ICACHE_ENTRIES - 1) |-> NoEntry]
flush_icache == icache' = NoIcache /\ fenced' = TRUE
NoData == [i \in 0..(TLB_ENTRIES - 1) |-> NoPage]
\* Mutant: flush_tlb without its last line.
flush_tlb_keeps_icache ==
  tlb_tag' = NoTlb /\ tlb_data' = NoData /\ synced' = TRUE /\ UNCHANGED <<icache, fenced>>

\* Data behind a tag of -1 is never read, and forgotten here.
flush_tlb == /\ tlb_tag' = NoTlb
             /\ tlb_data' = NoData
             /\ synced' = TRUE
             /\ flush_icache

\* The three tags of an entry share one translation.
refill_tlb(type, vpn, page) ==
  LET i == Slot(vpn)
  IN /\ tlb_tag' = [t \in Types |->
           [tlb_tag[t] EXCEPT ![i] =
              IF t = type THEN [vpn |-> vpn, check |-> check[type]]
              ELSE IF @.vpn = vpn THEN @ ELSE NoTag]]
     /\ tlb_data' = [tlb_data EXCEPT ![i] = page]

\* Mutant: the TLB is refilled although a tracer is interested.
after_slow_path_untraced(type, vpn, page) ==
  IF Hit(type, vpn) \/ page \notin MemPages THEN UNCHANGED <<tlb_tag, tlb_data>>
  ELSE refill_tlb(type, vpn, page)

\* The end of a slow path: main memory is remembered, unless a tracer has to
\* see every access.
after_slow_path(type, vpn, page) ==
  IF Hit(type, vpn) \/ page \notin MemPages \/ (type # "FETCH" /\ type \in tracer)
  THEN UNCHANGED <<tlb_tag, tlb_data>>
  ELSE refill_tlb(type, vpn, page)

Marks(type, vpn) == ad' = IF Hit(type, vpn) THEN ad ELSE marked(type, vpn)

trigger_match(type, a) ==
  /\ ~state.debug
  /\ CASE type = "FETCH" -> trigger.execute
       [] type = "LOAD"  -> trigger.load
       [] type = "STORE" -> trigger.store
  /\ tdata2 = a

\* Whether the access looks at the triggers at all: on a hit the tag says so;
\* the slow path of a load or store does, the one of a fetch does not.
looks(type, vpn) == IF Hit(type, vpn) THEN tlb_tag[type][Slot(vpn)].check
                    ELSE type # "FETCH"

Triggered(type, a) == looks(type, a[1]) /\ trigger_match(type, a)

Contents(m, page, c) == IF page \in MemPages THEN m[page][c] ELSE IoCell

IcacheSlot(a) == (2 * a[1] + a[2]) % ICACHE_ENTRIES
IcacheHit(a) == icache[IcacheSlot(a)].tag = a

-----------------------------------------------------------------------------
Init ==
  /\ state = [prv |-> PRV_M, debug |-> FALSE, dprv |-> PRV_U, vm |-> FALSE,
              mprv |-> FALSE, mpp |-> PRV_U, spp |-> PRV_U, pum |-> FALSE,
              mxr |-> FALSE, sptbr |-> 0]
  /\ mem = InitMem
  /\ ad = [p \in MemPages |-> [c \in Cells |-> {}]]
  /\ tlb_tag = NoTlb
  /\ tlb_data = NoData
  /\ icache = NoIcache
  /\ check = [t \in Types |-> FALSE]
  /\ trigger = NoTrigger
  /\ tdata2 = <<0, 0>>
  /\ tracer \in Tracers
  /\ synced = TRUE /\ fenced = TRUE

-----------------------------------------------------------------------------
(* Loads, stores and fetches that complete. *)

Load(a) ==
  LET page == Where("LOAD", a[1])
  IN /\ page # NoPage /\ ~Triggered("LOAD", a)
     /\ Marks("LOAD", a[1])
     /\ after_slow_path("LOAD", a[1], page)
     /\ UNCHANGED <<state, mem, icache, check, trigger, tdata2, tracer, synced, fenced>>

\* What a store to a cell makes of the history variables: whether it changed
\* an entry at which a walk ends, or the way to one, or an instruction.
Untranslated(m, page, c) ==
  \A v \in Vpns : LET l == leaf(mem, state.sptbr, v)
                 IN leaf(m, state.sptbr, v) = l /\ ~(l.found /\ l.page = page /\ l.cell = c)
Unfetched(page) ==
  \A v \in Vpns : translate(state, mem, v, "FETCH") # page
stored(page, c, w) == IF page \in MemPages THEN [mem EXCEPT ![page][c] = w] ELSE mem
stored_ad(bits, page, c) == IF page \in MemPages THEN [bits EXCEPT ![page][c] = {}] ELSE bits

Store(a, w) ==
  LET page == Where("STORE", a[1])
      bits == IF Hit("STORE", a[1]) THEN ad ELSE marked("STORE", a[1])
  IN /\ page # NoPage /\ ~Triggered("STORE", a)
     /\ mem' = stored(page, a[2], w)
     /\ ad' = stored_ad(bits, page, a[2])
     /\ after_slow_path("STORE", a[1], page)
     /\ synced' = (synced /\ Untranslated(mem', page, a[2]))
     /\ fenced' = (fenced /\ Unfetched(page))
     /\ UNCHANGED <<state, icache, check, trigger, tdata2, tracer>>

FetchCompletes(a, page) ==
  /\ page # NoPage /\ ~Triggered("FETCH", a)
  /\ Marks("FETCH", a[1])
  /\ after_slow_path("FETCH", a[1], page)
  /\ UNCHANGED <<state, mem, check, trigger, tdata2, tracer, synced, fenced>>

\* The fast path of step(): through the instruction cache, whose entry is not
\* kept if a tracer has to see every fetch.  A hit changes nothing.
FetchFast(a) ==
  LET page == Where("FETCH", a[1])
  IN /\ ~state.debug /\ ~IcacheHit(a)
     /\ FetchCompletes(a, page)
     /\ icache' = [icache EXCEPT ![IcacheSlot(a)] =
                     IF "FETCH" \in tracer THEN NoEntry
                     ELSE [tag |-> a, data |-> Contents(mem, page, a[2])]]

\* The slow path, for single steps, logs and Debug Mode: load_insn refills an
\* entry of its own.
FetchSlow(a) == FetchCompletes(a, Where("FETCH", a[1])) /\ UNCHANGED icache

-----------------------------------------------------------------------------
(* Traps, Debug Mode and returns: every change of privilege flushes. *)

set_privilege(s, prv) == state' = [s EXCEPT !.prv = prv] /\ flush_tlb
enter_debug_mode == set_privilege([state EXCEPT !.debug = TRUE, !.dprv = state.prv], PRV_M)
take_trap ==
  \/ /\ state.prv <= PRV_S      \* delegated by medeleg or mideleg
     /\ set_privilege([state EXCEPT !.spp = state.prv], PRV_S)
  \/ set_privilege([state EXCEPT !.mpp = state.prv], PRV_M)

\* No page is found.  A store looks at the triggers before it looks for one.
Fault(type, a) ==
  /\ ~state.debug
  /\ type = "FETCH" => ~IcacheHit(a)
  /\ type = "STORE" => ~Triggered(type, a)
  /\ Where(type, a[1]) = NoPage
  /\ Marks(type, a[1])
  /\ take_trap
  /\ UNCHANGED <<mem, check, trigger, tdata2, tracer>>

\* A trigger fires.  With timing = 1 the instruction is restarted without the
\* check and completes first (a store that has no page then throws a trap that
\* nobody catches, and the simulator ends).  The breakpoint exception is
\* a trap, or enters Debug Mode if dcsr has the ebreak bit of the mode set.
TriggerFires(type, a, w) ==
  LET page == Where(type, a[1])
      bits == IF Hit(type, a[1]) THEN ad ELSE marked(type, a[1])
      store == type = "STORE" /\ trigger.timing = 1
  IN /\ Triggered(type, a)
     /\ page # NoPage \/ (type = "STORE" /\ ~store)
     /\ type = "FETCH" => ~IcacheHit(a)
     /\ mem' = IF store THEN stored(page, a[2], w) ELSE mem
     /\ ad' = IF store THEN stored_ad(bits, page, a[2]) ELSE bits
     /\ enter_debug_mode \/ (trigger.action = "exception" /\ take_trap)
     /\ UNCHANGED <<check, trigger, tdata2, tracer>>

MachineOnly == UNCHANGED <<mem, ad, check, trigger, tdata2, tracer>>

Trap == ~state.debug /\ take_trap /\ MachineOnly
EnterDebugMode == ~state.debug /\ enter_debug_mode /\ MachineOnly
Mret == /\ state.prv = PRV_M
        /\ set_privilege([state EXCEPT !.mpp = PRV_U], state.mpp)
        /\ MachineOnly
Sret == /\ state.prv >= PRV_S
        /\ set_privilege([state EXCEPT !.spp = PRV_U], state.spp)
        /\ MachineOnly
Dret == /\ state.prv = PRV_M
        /\ set_privilege([state EXCEPT !.debug = FALSE], state.dprv)
        /\ MachineOnly

-----------------------------------------------------------------------------
(* CSRs and fences. *)

\* Mutant: MPRV is missing in the mask of fields that flush.
set_mstatus_ignores_mprv(s) ==
  /\ state' = s
  /\ IF \E f \in {"vm", "mpp", "pum", "mxr"} : s[f] # state[f]
     THEN flush_tlb ELSE UNCHANGED <<tlbVars, synced, fenced>>

\* A write to mstatus flushes if it changes a field that translation reads.
set_mstatus(s) ==
  /\ state' = s
  /\ IF \E f \in {"vm", "mpp", "mprv", "pum", "mxr"} : s[f] # state[f]
     THEN flush_tlb ELSE UNCHANGED <<tlbVars, synced, fenced>>

WriteMstatus(vm, mprv, mpp, pum, mxr) ==
  /\ state.prv = PRV_M
  /\ set_mstatus([state EXCEPT !.vm = vm, !.mprv = mprv, !.mpp = mpp, !.pum = pum, !.mxr = mxr])
  /\ MachineOnly
WriteSstatus(pum) ==
  /\ state.prv >= PRV_S
  /\ set_mstatus([state EXCEPT !.pum = pum])
  /\ MachineOnly

\* sptbr is written without a flush: software has to follow it with SFENCE.VM.
WriteSptbr(root) ==
  /\ state.prv >= PRV_S
  /\ state' = [state EXCEPT !.sptbr = root]
  /\ synced' = (synced /\ \A v \in Vpns : leaf(mem, root, v) = leaf(mem, state.sptbr, v))
  /\ UNCHANGED <<mem, ad, tlbVars, check, trigger, tdata2, tracer, fenced>>

SfenceVm == state.prv >= PRV_S /\ flush_tlb /\ UNCHANGED state /\ MachineOnly
FenceI == flush_icache /\ UNCHANGED <<state, tlb_tag, tlb_data, synced>> /\ MachineOnly

TriggerWritable == state.prv = PRV_M /\ (trigger.dmode => state.debug)
\* Mutant: trigger_updated() does not flush.
trigger_updated_no_flush(t) ==
  /\ check' = [FETCH |-> t.execute, LOAD |-> t.load, STORE |-> t.store]
  /\ UNCHANGED <<tlbVars, synced, fenced>>

\* trigger_updated() flushes and computes what refill_tlb puts into the tags.
trigger_updated(t) ==
  /\ check' = [FETCH |-> t.execute, LOAD |-> t.load, STORE |-> t.store]
  /\ flush_tlb
WriteTdata1(t) ==
  /\ TriggerWritable
  /\ trigger' = [t EXCEPT !.timing = IF t.execute THEN 0 ELSE @]
  /\ trigger_updated(t)
  /\ UNCHANGED <<state, mem, ad, tdata2, tracer>>
WriteTdata2(a) ==
  /\ TriggerWritable
  /\ tdata2' = a
  /\ UNCHANGED <<state, mem, ad, tlbVars, check, trigger, tracer, synced, fenced>>

Next ==
  \/ \E a \in Addresses :
       \/ Load(a) \/ FetchFast(a) \/ FetchSlow(a)
       \/ \E type \in Types : Fault(type, a)
       \/ \E type \in {"FETCH", "LOAD"} : TriggerFires(type, a, IoCell)
  \/ \E st \in Stores : Store(st[1], st[2]) \/ TriggerFires("STORE", st[1], st[2])
  \/ Trap \/ EnterDebugMode \/ Mret \/ Sret \/ Dret
  \/ \E vm \in Vms, mprv \in Mprvs, mpp \in Mpps, pum \in Pums, mxr \in Mxrs :
       WriteMstatus(vm, mprv, mpp, pum, mxr)
  \/ \E pum \in Pums : WriteSstatus(pum)
  \/ \E root \in Roots : WriteSptbr(root)
  \/ SfenceVm \/ FenceI
  \/ \E t \in Triggers : WriteTdata1(t)
  \/ \E a \in Watched : WriteTdata2(a)

Spec == Init /\ [][Next]_vars

-----------------------------------------------------------------------------
(* Properties. *)

TypeOK ==
  /\ state \in [prv : {PRV_U, PRV_S, PRV_M}, debug : BOOLEAN, dprv : {PRV_U, PRV_S, PRV_M},
                vm : BOOLEAN, mprv : BOOLEAN, mpp : {PRV_U, PRV_S, PRV_M},
                spp : {PRV_U, PRV_S}, pum : BOOLEAN, mxr : BOOLEAN, sptbr : Pages]
  /\ mem \in [MemPages -> [Cells -> Cell]]
  /\ ad \in [MemPages -> [Cells -> SUBSET {"A", "D"}]]
  /\ tlb_tag \in [Types -> [0..(TLB_ENTRIES - 1) -> [vpn : Vpns \cup {-1}, check : BOOLEAN]]]
  /\ tlb_data \in [0..(TLB_ENTRIES - 1) -> MemPages \cup {NoPage}]
  /\ icache \in [0..(ICACHE_ENTRIES - 1) ->
                  [tag : (Vpns \X Cells) \cup {<<-1, 0>>}, data : Cell]]
  /\ check \in [Types -> BOOLEAN]
  /\ trigger \in Trigger
  /\ tdata2 \in Vpns \X Cells
  /\ tracer \in SUBSET Types
  /\ synced \in BOOLEAN /\ fenced \in BOOLEAN

\* What the TLB remembers is what a walk would find now, with the current
\* privilege, mstatus and page table: whatever changes a translation flushes,
\* except for stores to the page table and to sptbr, for which software has
\* SFENCE.VM.  The three types of access share one translation, so this is not
\* so of an entry that fetches and loads use in different modes, under MPRV:
\* there the last refill decides for both.
OneMode(type, v) ==
  \A other \in Types : Hit(other, v) => mode_of(state, other) = mode_of(state, type)
TlbTruthful ==
  synced => \A type \in Types, v \in Vpns :
              Hit(type, v) /\ OneMode(type, v)
                => tlb_data[Slot(v)] = translate(state, mem, v, type)

\* A store that goes through the TLB leaves no page that is written but not
\* marked dirty, and no access one that is not marked accessed: the slow path
\* that filled the TLB has set the bits in the entry that the page has now.
DirtyMarked ==
  synced => \A type \in Types, v \in Vpns :
              Hit(type, v) /\ mode_of(state, type) # PRV_M
                => LET l == leaf(mem, state.sptbr, v)
                   IN /\ "A" \in ad[l.page][l.cell]
                      /\ type = "STORE" => "D" \in ad[l.page][l.cell]

\* The instruction cache, which is indexed by virtual addresses and survives
\* everything but flushes, holds what a fetch would find in memory.  Not so
\* while MPRV lets loads and fetches differ in mode: then a fetch may have gone
\* through the translation of a load.
IcacheFresh ==
  synced /\ fenced /\ mode_of(state, "LOAD") = mode_of(state, "FETCH") =>
    \A a \in Addresses :
      IcacheHit(a) =>
        LET page == translate(state, mem, a[1], "FETCH")
        IN page # NoPage /\ icache[IcacheSlot(a)].data = Contents(mem, page, a[2])

\* No load, store or fetch goes past a tracer that is interested in it.
TracersSeeAll ==
  /\ \A type \in tracer \ {"FETCH"}, v \in Vpns : ~Hit(type, v)
  /\ "FETCH" \in tracer => \A a \in Addresses : ~IcacheHit(a)

\* "If a TLB tag has TLB_CHECK_TRIGGERS set, then the MMU must check for a
\* trigger match before completing an access": no load or store that a trigger
\* waits for completes unnoticed.
WatchpointsSeen ==
  \A a \in Addresses, type \in {"LOAD", "STORE"} :
    trigger_match(type, a) => Triggered(type, a)

\* The same for fetches: no instruction that a trigger waits for is run from
\* the instruction cache although its page has TLB_CHECK_TRIGGERS set.
BreakpointsSeen ==
  \A a \in Addresses :
    trigger_match("FETCH", a) /\ Hit("FETCH", a[1]) /\ looks("FETCH", a[1]) => ~IcacheHit(a)
=============================================================================
