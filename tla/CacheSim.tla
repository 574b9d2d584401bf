------------------------------ MODULE CacheSim ------------------------------
(* The cache simulator (src/riscv/cachesim.{h,cc}, memtracer.h): an          *)
(* instruction cache and a data cache that watch the harts' accesses, the L2 *)
(* that is the miss handler of both, and the ORAM behind the L2.  No data is *)
(* kept, only tags and counters.  The way that victimize picks comes from a  *)
(* linear feedback shift register; here it is any way.                       *)
(* A cache's tags are a function from slots <<index, way>> to entries; the   *)
(* map of the fully associative cache is the same with the line number in    *)
(* the place of the way, and a domain that grows.                            *)
EXTENDS Naturals, Sequences, FiniteSets, Functions

CONSTANTS
  Hierarchies,  \* the command lines: which caches there are, and their geometry,
                \* each with the byte addresses that the harts fetch, load and
                \* store and a bound on the accesses of one behaviour
  OramBase,     \* 0x80000000, written into access()
  OramSize      \* 4194304, written into access()

Levels == {"I", "D", "L2"}

IsPowerOfTwo(n) == \E k \in 0..n : n = 2^k

(* What help() demands of a geometry.                                        *)
ASSUME HierarchiesAssumption ==
  \A h \in Hierarchies :
    /\ h.has \subseteq Levels /\ h.oram \in BOOLEAN
    /\ \A k \in Levels : /\ h[k].sets \in Nat \ {0} /\ IsPowerOfTwo(h[k].sets)
                         /\ h[k].linesz \in Nat \ (0..7) /\ IsPowerOfTwo(h[k].linesz)
                         /\ h[k].ways \in Nat \ {0}
    /\ h.fetches \subseteq Nat /\ h.loads \subseteq Nat /\ h.stores \subseteq Nat
    /\ h.maxAccesses \in Nat

VARIABLES
  cfg,        \* the command line of this run
  cache,      \* level -> its tags and its counters
  unwritten,  \* history: addresses whose last store has not left the last level
  accesses    \* history: accesses traced

vars == <<cfg, cache, unwritten, accesses>>

Zero == [read_accesses |-> 0, read_misses |-> 0, bytes_read |-> 0,
         write_accesses |-> 0, write_misses |-> 0, bytes_written |-> 0,
         writebacks |-> 0, oram_accesses |-> 0]

NoTag == [line |-> 0, valid |-> FALSE, dirty |-> FALSE]

(* construct: many ways in a single set become the fully associative cache.  *)
IsFullyAssociative(g) == g.ways > 4 /\ g.sets = 1

Fresh(g) ==
  [tags |-> IF IsFullyAssociative(g)
            THEN <<>>
            ELSE [s \in (0..g.sets - 1) \X (0..g.ways - 1) |-> NoTag],
   st   |-> Zero]

Init ==
  /\ cfg \in Hierarchies
  /\ cache = [k \in Levels |-> Fresh(cfg[k])]
  /\ unwritten = {}
  /\ accesses = 0

-----------------------------------------------------------------------------
(* One cache.                                                                *)

Line(g, addr) == addr \div g.linesz

Index(g, addr) == Line(g, addr) % g.sets

(* The dirty bit is not masked in the comparison.                            *)
check_tag_unmasked(g, tags, addr) ==
  IF IsFullyAssociative(g)
  THEN {s \in DOMAIN tags : s = <<0, Line(g, addr)>>}
  ELSE {s \in DOMAIN tags : /\ s[1] = Index(g, addr)
                            /\ tags[s] = [line |-> Line(g, addr), valid |-> TRUE, dirty |-> FALSE]}

check_tag(g, tags, addr) ==
  IF IsFullyAssociative(g)
  THEN {s \in DOMAIN tags : s = <<0, Line(g, addr)>>}
  ELSE {s \in DOMAIN tags : /\ s[1] = Index(g, addr)
                            /\ tags[s].valid /\ tags[s].line = Line(g, addr)}

(* The outcomes of victimize: the new tags and the entry that had to go.  A  *)
(* set associative cache does not look for a free way first.                 *)
victimize(g, tags, addr) ==
  LET new  == [line |-> Line(g, addr), valid |-> TRUE, dirty |-> FALSE]
      key  == <<0, Line(g, addr)>>
      with(t) == [s \in DOMAIN t \cup {key} |-> IF s = key THEN new ELSE t[s]]
  IN  IF ~IsFullyAssociative(g)
      THEN {[tags   |-> [tags EXCEPT ![<<Index(g, addr), w>>] = new],
             victim |-> tags[<<Index(g, addr), w>>]] : w \in 0..g.ways - 1}
      ELSE IF Cardinality(DOMAIN tags) = g.ways
      THEN {[tags |-> with(Restrict(tags, DOMAIN tags \ {s})), victim |-> tags[s]] :
              s \in DOMAIN tags}
      ELSE {[tags |-> with(tags), victim |-> NoTag]}

(* The bit is set in a copy of the entry.                                    *)
MarkDirty_copy(tags, slots) == tags

MarkDirty(tags, slots) ==
  LET way == CHOOSE s \in slots : \A t \in slots : s[2] <= t[2]
  IN  [tags EXCEPT ![way].dirty = TRUE]

Count(st, bytes, store) ==
  IF store THEN [st EXCEPT !.write_accesses = @ + 1, !.bytes_written = @ + bytes]
           ELSE [st EXCEPT !.read_accesses = @ + 1, !.bytes_read = @ + bytes]

CountMiss(st, store, written, toOram) ==
  [st EXCEPT !.write_misses  = IF store THEN @ + 1 ELSE @,
             !.read_misses   = IF store THEN @ ELSE @ + 1,
             !.writebacks    = IF written THEN @ + 1 ELSE @,
             !.oram_accesses = IF toOram THEN @ + 1 ELSE @]

(* The outcomes of access(addr, bytes, store) on a cache c of geometry g: c  *)
(* afterwards, the calls that it makes on its miss handler, in order, and    *)
(* the lines it wrote back.  The calls touch other caches only, so what they *)
(* do cannot change what happens here.  A last level in front of the ORAM    *)
(* (oram) tells it of a miss inside the window, never of a line it drops.    *)
access(g, oram, c, addr, bytes, store) ==
  LET st   == Count(c.st, bytes, store)
      hits == check_tag(g, c.tags, addr)
      Missed(v) ==
        LET written == v.victim.valid /\ v.victim.dirty
            toOram  == oram /\ addr \in OramBase..OramBase + OramSize - 1
            fill    == [addr |-> Line(g, addr) * g.linesz, store |-> FALSE]
            back    == [addr |-> v.victim.line * g.linesz, store |-> TRUE]
        IN  [c     |-> [tags |-> IF store
                                 THEN MarkDirty(v.tags, check_tag(g, v.tags, addr))
                                 ELSE v.tags,
                        st   |-> CountMiss(st, store, written, toOram)],
             calls |-> IF written THEN <<back, fill>> ELSE <<fill>>,
             wrote |-> IF written THEN {v.victim.line} ELSE {}]
  IN  IF hits # {}
      THEN {[c     |-> [tags |-> IF store THEN MarkDirty(c.tags, hits) ELSE c.tags,
                        st   |-> st],
             calls |-> <<>>,
             wrote |-> {}]}
      ELSE {Missed(v) : v \in victimize(g, c.tags, addr)}

-----------------------------------------------------------------------------
(* The hierarchy.                                                            *)

(* The outcomes of the calls that a cache with lines of size linesz makes on *)
(* the L2, two of them at most: the L2 afterwards and the lines it wrote     *)
(* back.  Without an L2 there is no miss handler, and what the upper cache   *)
(* wrote back is out.                                                        *)
MissHandler(calls, linesz) ==
  LET before     == [c |-> cache["L2"], wrote |-> {}]
      Call(l, q) == {[c |-> o.c, wrote |-> l.wrote \cup o.wrote] :
                       o \in access(cfg["L2"], cfg.oram, l.c, q.addr, linesz, q.store)}
  IN  IF "L2" \notin cfg.has \/ calls = <<>> THEN {before}
      ELSE IF Len(calls) = 1 THEN Call(before, calls[1])
      ELSE UNION {Call(l, calls[2]) : l \in Call(before, calls[1])}

DirtyLines(tags) == {tags[s].line : s \in {t \in DOMAIN tags : tags[t].valid /\ tags[t].dirty}}

(* The line of an address in the data cache, and in the L2.                  *)
Inner(a) == Line(cfg["D"], a)

Outer(a) == Line(cfg["L2"], a)

(* The line of the L2 that is accessed when the data cache writes the line   *)
(* of a back: the one at its start, however long the line is.                *)
WrittenTo(a) == Line(cfg["L2"], Inner(a) * cfg["D"].linesz)

(* The history of the stores: a store makes its address unwritten, and it    *)
(* stays so until the last level writes back a copy that is not older than   *)
(* the one in the data cache.                                                *)
AfterStores(k, addr, store, top, below) ==
  LET stored == IF store THEN unwritten \cup {addr} ELSE unwritten
      newer  == DirtyLines(IF k = "D" THEN top.c.tags ELSE cache["D"].tags)
  IN  IF "L2" \in cfg.has
      THEN {a \in stored : Inner(a) \in newer \/ Outer(a) \notin below.wrote}
      ELSE {a \in stored : k = "D" => Inner(a) \notin top.wrote}

trace(k, addr, store) ==
  /\ k \in cfg.has
  /\ accesses < cfg.maxAccesses
  /\ \E top \in access(cfg[k], FALSE, cache[k], addr, 4, store) :
       \E below \in MissHandler(top.calls, cfg[k].linesz) :
         /\ cache' = [cache EXCEPT ![k] = top.c, !["L2"] = below.c]
         /\ unwritten' = AfterStores(k, addr, store, top, below)
  /\ accesses' = accesses + 1
  /\ UNCHANGED cfg

(* icache_sim_t hears of the fetches, dcache_sim_t of the loads and stores.  *)
Fetch == \E a \in cfg.fetches : trace("I", a, FALSE)

Load == \E a \in cfg.loads : trace("D", a, FALSE)

Store == \E a \in cfg.stores : trace("D", a, TRUE)

Next == Fetch \/ Load \/ Store

Spec == Init /\ [][Next]_vars

-----------------------------------------------------------------------------
(* Properties.                                                               *)

Entries == [line : Nat, valid : BOOLEAN, dirty : BOOLEAN]

Counters == [DOMAIN Zero -> Nat]

(* Every cache has its entries where its geometry puts them, and never more  *)
(* than its ways.                                                            *)
TypeOK ==
  /\ cfg \in Hierarchies
  /\ \A k \in Levels :
       LET t == cache[k].tags  g == cfg[k] IN
       /\ t \in [DOMAIN t -> Entries]
       /\ IF IsFullyAssociative(g)
          THEN Cardinality(DOMAIN t) <= g.ways
          ELSE DOMAIN t = (0..g.sets - 1) \X (0..g.ways - 1)
       /\ cache[k].st \in Counters
  /\ accesses \in 0..cfg.maxAccesses

(* A store is never forgotten: as long as the last level has not written     *)
(* back the newest copy of an address, its line is marked dirty in the data  *)
(* cache or in the L2, whatever was fetched, filled and replaced in between  *)
(* and in whatever order the write-back and the fill of a miss reach the L2. *)
(* The one loss there is, and it is the code's: of a data cache line that is *)
(* longer than a line of the L2, access() hands only the start to the L2     *)
(* (cachesim.cc:153), and the rest is dirty nowhere once it is written back. *)
NothingLost ==
  \A a \in unwritten :
    \/ Inner(a) \in DirtyLines(cache["D"].tags)
    \/ /\ "L2" \in cfg.has
       /\ \/ Outer(a) \in DirtyLines(cache["L2"].tags)
          \/ Outer(a) # WrittenTo(a)

(* The arrays are well formed, and a line is in a cache at most once, so the *)
(* first way that check_tag finds is the only one and no other copy of it    *)
(* can be clean while it is dirty.                                           *)
TagsUnique ==
  /\ TypeOK
  /\ \A k \in Levels :
       LET t == cache[k].tags
           held == {s \in DOMAIN t : t[s].valid}
       IN  \A s, u \in held : t[s].line = t[u].line => s = u

(* The inductive invariant behind both.  A valid entry lies in the set that  *)
(* its line number selects, or under the line number itself, so that the     *)
(* line that a miss brings in is in no other slot either.                    *)
WellFormed(g, t) ==
  /\ t \in [DOMAIN t -> Entries]
  /\ IF IsFullyAssociative(g)
     THEN /\ IsFiniteSet(DOMAIN t) /\ Cardinality(DOMAIN t) <= g.ways
          /\ \A s \in DOMAIN t : t[s].valid /\ s = <<0, t[s].line>>
     ELSE /\ DOMAIN t = (0..g.sets - 1) \X (0..g.ways - 1)
          /\ \A s \in DOMAIN t : t[s].valid => s[1] = t[s].line % g.sets
          /\ \A s, u \in DOMAIN t :
               t[s].valid /\ t[u].valid /\ t[s].line = t[u].line => s = u

IndInv ==
  /\ cfg \in Hierarchies
  /\ cache = [k \in Levels |-> [tags |-> cache[k].tags, st |-> cache[k].st]]
  /\ \A k \in Levels : WellFormed(cfg[k], cache[k].tags) /\ cache[k].st \in Counters
  /\ accesses \in 0..cfg.maxAccesses
  /\ NothingLost
=============================================================================
