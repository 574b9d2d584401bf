--------------------------- MODULE CacheSim_proofs --------------------------
(* For every hierarchy of caches, every geometry and every sequence of       *)
(* accesses: a line is in a cache at most once, and no store is forgotten    *)
(* before its line has left the last level.  The inductive invariant is      *)
(* IndInv.                                                                   *)
EXTENDS CacheSim, TLAPS, FiniteSetTheorems

-----------------------------------------------------------------------------
(* The shifts and masks of check_tag and victimize, as arithmetic.           *)
LEMMA DivNat ==
  ASSUME NEW a \in Nat, NEW z \in Nat \ (0..7)
  PROVE  a \div z \in Nat
OBVIOUS

LEMMA ModRange ==
  ASSUME NEW a \in Nat, NEW z \in Nat \ {0}
  PROVE  a % z \in 0..z - 1
OBVIOUS

LEMMA TimesNat ==
  ASSUME NEW a \in Nat, NEW z \in Nat
  PROVE  a * z \in Nat
OBVIOUS

-----------------------------------------------------------------------------
(* What help() demands of a geometry, as far as the proofs need it.          *)
Geom(g) == /\ g.sets \in Nat \ {0}
           /\ g.ways \in Nat \ {0}
           /\ g.linesz \in Nat \ (0..7)

(* The line number and the set of an address.                                *)
LEMMA AddressType ==
  ASSUME NEW g, Geom(g), NEW addr \in Nat
  PROVE  Line(g, addr) \in Nat /\ Index(g, addr) \in 0..g.sets - 1
<1>1. Line(g, addr) \in Nat
  BY DivNat DEF Geom, Line
<1>2. Index(g, addr) \in 0..g.sets - 1
  BY <1>1, ModRange DEF Geom, Index
<1> QED BY <1>1, <1>2

(* check_tag finds one entry at most: the valid one of the line.             *)
LEMMA HitUnique ==
  ASSUME NEW g, NEW t, NEW addr, WellFormed(g, t),
         NEW s \in check_tag(g, t, addr)
  PROVE  /\ s \in DOMAIN t
         /\ t[s].valid /\ t[s].line = Line(g, addr)
         /\ \A u \in check_tag(g, t, addr) : u = s
<1>1. CASE IsFullyAssociative(g)
  <2>1. s \in DOMAIN t /\ s = <<0, Line(g, addr)>>
    BY <1>1 DEF check_tag
  <2>2. t[s].valid /\ s = <<0, t[s].line>>
    BY <1>1, <2>1 DEF WellFormed
  <2>3. \A u \in check_tag(g, t, addr) : u = s
    BY <1>1, <2>1 DEF check_tag
  <2> QED BY <2>1, <2>2, <2>3
<1>2. CASE ~IsFullyAssociative(g)
  <2>1. \A u \in check_tag(g, t, addr) :
          u \in DOMAIN t /\ t[u].valid /\ t[u].line = Line(g, addr)
    BY <1>2 DEF check_tag
  <2> QED BY <1>2, <2>1 DEF WellFormed
<1> QED BY <1>1, <1>2

(* The entry of a store that hits becomes dirty, and no other changes.       *)
LEMMA Marked ==
  ASSUME NEW g, NEW t, NEW addr, WellFormed(g, t), check_tag(g, t, addr) # {}
  PROVE  LET m == MarkDirty(t, check_tag(g, t, addr))
         IN  /\ WellFormed(g, m)
             /\ DirtyLines(t) \subseteq DirtyLines(m)
             /\ Line(g, addr) \in DirtyLines(m)
<1> DEFINE slots == check_tag(g, t, addr)
           way == CHOOSE s \in slots : \A u \in slots : s[2] <= u[2]
           m == MarkDirty(t, slots)
<1>1. PICK s \in slots : TRUE
  OBVIOUS
<1>2. /\ s \in DOMAIN t
      /\ t[s].valid /\ t[s].line = Line(g, addr)
      /\ \A u \in slots : u = s
  BY <1>1, HitUnique
<1>3. slots = {s}
  BY <1>1, <1>2
<1> HIDE DEF slots
<1>4. s[2] \in Nat
  <2>1. CASE IsFullyAssociative(g)
    BY <1>2, <2>1 DEF WellFormed, Entries
  <2>2. CASE ~IsFullyAssociative(g)
    BY <1>2, <2>2 DEF WellFormed
  <2> QED BY <2>1, <2>2
<1>5. way = s
  BY <1>3, <1>4
<1>6. m = [t EXCEPT ![s].dirty = TRUE]
  BY <1>5 DEF MarkDirty
<1>7. t \in [DOMAIN t -> Entries]
  BY DEF WellFormed
<1> HIDE DEF m, way
<1>8. /\ DOMAIN m = DOMAIN t
      /\ m \in [DOMAIN t -> Entries]
      /\ \A u \in DOMAIN t : /\ m[u].line = t[u].line
                             /\ m[u].valid = t[u].valid
                             /\ t[u].dirty => m[u].dirty
      /\ m[s].dirty
  <2>1. m = [u \in DOMAIN t |-> IF u = s THEN [t[s] EXCEPT !.dirty = TRUE] ELSE t[u]]
    BY <1>2, <1>6, <1>7
  <2>2. t[s] \in Entries
    BY <1>2, <1>7
  <2> DEFINE e == [t[s] EXCEPT !.dirty = TRUE]
  <2>3. e \in Entries
    BY <2>2 DEF Entries
  <2>4. e.line = t[s].line /\ (e.valid = t[s].valid) /\ e.dirty
    BY <2>2 DEF Entries
  <2> HIDE DEF e
  <2> QED BY <1>2, <1>7, <2>1, <2>3, <2>4 DEF e
<1>9. WellFormed(g, m)
  BY <1>8 DEF WellFormed
<1>10. DirtyLines(t) \subseteq DirtyLines(m)
  BY <1>8 DEF DirtyLines
<1>11. Line(g, addr) \in DirtyLines(m)
  BY <1>2, <1>8 DEF DirtyLines
<1> QED BY <1>9, <1>10, <1>11 DEF m, slots

(* victimize puts the line, valid and clean, where no valid entry of it was, *)
(* and takes away one entry at most: the victim.                             *)
LEMMA Victim ==
  ASSUME NEW g, Geom(g), NEW t, NEW addr \in Nat, WellFormed(g, t),
         check_tag(g, t, addr) = {}, NEW v \in victimize(g, t, addr)
  PROVE  /\ v.victim \in Entries
         /\ WellFormed(g, v.tags)
         /\ check_tag(g, v.tags, addr) # {}
         /\ \A n \in DirtyLines(t) : \/ n \in DirtyLines(v.tags)
                                     \/ v.victim.valid /\ v.victim.dirty /\ n = v.victim.line
<1> DEFINE new == [line |-> Line(g, addr), valid |-> TRUE, dirty |-> FALSE]
           key == <<0, Line(g, addr)>>
<1>1. Line(g, addr) \in Nat /\ Index(g, addr) \in 0..g.sets - 1
  BY AddressType
<1>2. new \in Entries /\ NoTag \in Entries
  BY <1>1 DEF Entries, NoTag
<1>3. new.line = Line(g, addr) /\ new.valid /\ ~new.dirty
  OBVIOUS
<1>4. t \in [DOMAIN t -> Entries]
  BY DEF WellFormed
<1>5. CASE ~IsFullyAssociative(g)
  <2>1. PICK w \in 0..g.ways - 1 :
          v = [tags   |-> [t EXCEPT ![<<Index(g, addr), w>>] = new],
               victim |-> t[<<Index(g, addr), w>>]]
    BY <1>5 DEF victimize
  <2> DEFINE p == <<Index(g, addr), w>>
  <2>2. v.tags = [t EXCEPT ![p] = new] /\ v.victim = t[p]
    BY <2>1
  <2>3. p \in DOMAIN t /\ p[1] = Index(g, addr)
    BY <1>1, <1>5 DEF WellFormed
  <2>4. \A s \in DOMAIN t : s[1] = Index(g, addr) /\ t[s].valid => t[s].line # Line(g, addr)
    BY <1>5 DEF check_tag
  <2>5. \A s \in DOMAIN t : t[s].valid => t[s].line # Line(g, addr)
    BY <1>5, <2>4 DEF WellFormed, Index
  <2> HIDE DEF p, new
  <2>6. /\ DOMAIN v.tags = DOMAIN t
        /\ v.tags \in [DOMAIN t -> Entries]
        /\ v.tags[p] = new
        /\ \A s \in DOMAIN t : s # p => v.tags[s] = t[s]
    BY <1>2, <1>4, <2>2, <2>3
  <2>7. WellFormed(g, v.tags)
    <3>1. DOMAIN v.tags = (0..g.sets - 1) \X (0..g.ways - 1)
      BY <1>5, <2>6 DEF WellFormed
    <3>2. ASSUME NEW s \in DOMAIN v.tags, v.tags[s].valid
          PROVE  s[1] = v.tags[s].line % g.sets
      <4>1. CASE s = p
        BY <1>3, <2>3, <2>6, <4>1 DEF Index
      <4>2. CASE s # p
        BY <1>5, <2>6, <3>2, <4>2 DEF WellFormed
      <4> QED BY <4>1, <4>2
    <3>3. ASSUME NEW s \in DOMAIN v.tags, NEW u \in DOMAIN v.tags,
                 v.tags[s].valid, v.tags[u].valid, v.tags[s].line = v.tags[u].line
          PROVE  s = u
      <4>1. CASE s = p \/ u = p
        BY <1>3, <2>5, <2>6, <3>3, <4>1
      <4>2. CASE s # p /\ u # p
        BY <1>5, <2>6, <3>3, <4>2 DEF WellFormed
      <4> QED BY <4>1, <4>2
    <3> QED BY <1>5, <2>6, <3>1, <3>2, <3>3 DEF WellFormed
  <2>8. check_tag(g, v.tags, addr) # {}
    BY <1>3, <1>5, <2>3, <2>6 DEF check_tag
  <2>9. v.victim \in Entries
    BY <1>4, <2>2, <2>3
  <2>10. ASSUME NEW n \in DirtyLines(t)
         PROVE  \/ n \in DirtyLines(v.tags)
                \/ v.victim.valid /\ v.victim.dirty /\ n = v.victim.line
    <3>1. PICK s \in DOMAIN t : t[s].valid /\ t[s].dirty /\ t[s].line = n
      BY DEF DirtyLines
    <3>2. CASE s = p
      BY <2>2, <3>1, <3>2
    <3>3. CASE s # p
      BY <2>6, <3>1, <3>3 DEF DirtyLines
    <3> QED BY <3>2, <3>3
  <2> QED BY <2>7, <2>8, <2>9, <2>10
<1>6. CASE IsFullyAssociative(g)
  <2> DEFINE D == DOMAIN t
  <2>1. IsFiniteSet(D) /\ Cardinality(D) \in Nat /\ Cardinality(D) <= g.ways
    BY <1>6, FS_CardinalityType DEF WellFormed
  <2>2. key \notin D
    BY <1>6 DEF check_tag
  <2>3. \A s \in D : t[s].valid /\ s = <<0, t[s].line>>
    BY <1>6 DEF WellFormed
  <2>4. \E K \in SUBSET D :
          /\ v.tags = [s \in K \cup {key} |-> IF s = key THEN new ELSE t[s]]
          /\ IsFiniteSet(K) /\ Cardinality(K) < g.ways
          /\ v.victim \in Entries
          /\ \A s \in D : s \notin K => v.victim = t[s]
    <3>1. CASE Cardinality(D) = g.ways
      <4>1. PICK s \in D :
              v = [tags |-> [u \in DOMAIN Restrict(t, D \ {s}) \cup {key} |->
                               IF u = key THEN new ELSE Restrict(t, D \ {s})[u]],
                   victim |-> t[s]]
        BY <1>6, <3>1 DEF victimize
      <4>2. v.victim = t[s] /\ v.victim \in Entries
        BY <1>4, <4>1
      <4>3. v.tags = [u \in (D \ {s}) \cup {key} |-> IF u = key THEN new ELSE t[u]]
        BY <4>1 DEF Restrict
      <4>4. IsFiniteSet(D \ {s}) /\ Cardinality(D \ {s}) = Cardinality(D) - 1
        BY <2>1, FS_RemoveElement
      <4>5. Cardinality(D \ {s}) < g.ways
        BY <2>1, <3>1, <4>4
      <4> QED BY <4>2, <4>3, <4>4, <4>5
    <3>2. CASE Cardinality(D) # g.ways
      <4>1. v = [tags |-> [u \in D \cup {key} |-> IF u = key THEN new ELSE t[u]],
                 victim |-> NoTag]
        BY <1>6, <3>2 DEF victimize
      <4>2. Cardinality(D) < g.ways
        BY <2>1, <3>2 DEF Geom
      <4> QED BY <1>2, <2>1, <4>1, <4>2
    <3> QED BY <3>1, <3>2
  <2>5. PICK K \in SUBSET D :
          /\ v.tags = [s \in K \cup {key} |-> IF s = key THEN new ELSE t[s]]
          /\ IsFiniteSet(K) /\ Cardinality(K) < g.ways
          /\ v.victim \in Entries
          /\ \A s \in D : s \notin K => v.victim = t[s]
    BY <2>4
  <2>6. key \notin K
    BY <2>2
  <2> HIDE DEF new, key, D
  <2>7. /\ DOMAIN v.tags = K \cup {key}
        /\ v.tags \in [DOMAIN v.tags -> Entries]
        /\ v.tags[key] = new
        /\ \A s \in K : v.tags[s] = t[s]
    BY <1>2, <1>4, <2>5, <2>6 DEF D
  <2>8. IsFiniteSet(DOMAIN v.tags) /\ Cardinality(DOMAIN v.tags) <= g.ways
    <3>1. IsFiniteSet(K \cup {key}) /\ Cardinality(K \cup {key}) = Cardinality(K) + 1
      BY <2>5, <2>6, FS_AddElement
    <3>2. Cardinality(K) \in Nat /\ g.ways \in Nat
      BY <2>5, FS_CardinalityType DEF Geom
    <3> QED BY <2>5, <2>7, <3>1, <3>2
  <2>9. ASSUME NEW s \in DOMAIN v.tags PROVE v.tags[s].valid /\ s = <<0, v.tags[s].line>>
    <3>1. CASE s = key
      BY <1>3, <2>7, <3>1 DEF key
    <3>2. CASE s \in K
      BY <2>3, <2>7, <3>2
    <3> QED BY <2>7, <3>1, <3>2
  <2>10. WellFormed(g, v.tags)
    BY <1>6, <2>7, <2>8, <2>9 DEF WellFormed
  <2>11. check_tag(g, v.tags, addr) # {}
    BY <1>6, <2>7 DEF check_tag, key
  <2>12. ASSUME NEW n \in DirtyLines(t)
         PROVE  \/ n \in DirtyLines(v.tags)
                \/ v.victim.valid /\ v.victim.dirty /\ n = v.victim.line
    <3>1. PICK s \in D : t[s].valid /\ t[s].dirty /\ t[s].line = n
      BY DEF DirtyLines, D
    <3>2. CASE s \notin K
      BY <2>5, <3>1, <3>2
    <3>3. CASE s \in K
      BY <2>7, <3>1, <3>3 DEF DirtyLines
    <3> QED BY <3>2, <3>3
  <2> QED BY <2>5, <2>10, <2>11, <2>12
<1> QED BY <1>5, <1>6

-----------------------------------------------------------------------------
(* A counter that grows leaves the others as they are.                       *)
LEMMA CounterUpdate ==
  ASSUME NEW D, NEW st \in [D -> Nat], NEW f \in D, NEW n \in Nat
  PROVE  [st EXCEPT ![f] = n] \in [D -> Nat]
OBVIOUS

(* The counters stay counters.                                               *)
LEMMA CounterType ==
  ASSUME NEW st \in Counters, NEW bytes \in Nat, NEW store \in BOOLEAN,
         NEW written \in BOOLEAN, NEW toOram \in BOOLEAN
  PROVE  /\ Count(st, bytes, store) \in Counters
         /\ CountMiss(st, store, written, toOram) \in Counters
<1> DEFINE D == DOMAIN Zero
<1>1. D = {"read_accesses", "read_misses", "bytes_read", "write_accesses",
           "write_misses", "bytes_written", "writebacks", "oram_accesses"}
  BY DEF Zero
<1>2. st \in [D -> Nat]
  BY DEF Counters
<1> HIDE DEF D
<1>3. ASSUME NEW x \in [D -> Nat], NEW f \in D, NEW n \in Nat
      PROVE  [x EXCEPT ![f] = @ + n] \in [D -> Nat]
  <2>1. x[f] + n \in Nat
    OBVIOUS
  <2> QED BY <2>1, CounterUpdate
<1>4. Count(st, bytes, store) \in [D -> Nat]
  <2>1. CASE store
    <3> DEFINE x == [st EXCEPT !.write_accesses = @ + 1]
    <3>1. x \in [D -> Nat]
      BY <1>1, <1>2, <1>3
    <3> HIDE DEF x
    <3>2. [x EXCEPT !.bytes_written = @ + bytes] \in [D -> Nat]
      BY <1>1, <1>3, <3>1
    <3> QED BY <2>1, <3>2 DEF Count, x
  <2>2. CASE ~store
    <3> DEFINE x == [st EXCEPT !.read_accesses = @ + 1]
    <3>1. x \in [D -> Nat]
      BY <1>1, <1>2, <1>3
    <3> HIDE DEF x
    <3>2. [x EXCEPT !.bytes_read = @ + bytes] \in [D -> Nat]
      BY <1>1, <1>3, <3>1
    <3> QED BY <2>2, <3>2 DEF Count, x
  <2> QED BY <2>1, <2>2
<1>5. ASSUME NEW x \in [D -> Nat], NEW f \in D, NEW q \in BOOLEAN
      PROVE  [x EXCEPT ![f] = IF q THEN @ + 1 ELSE @] \in [D -> Nat]
  <2>1. (IF q THEN x[f] + 1 ELSE x[f]) \in Nat
    OBVIOUS
  <2> QED BY <2>1, CounterUpdate
<1>6. CountMiss(st, store, written, toOram) \in [D -> Nat]
  <2> DEFINE x1 == [st EXCEPT !.write_misses = IF store THEN @ + 1 ELSE @]
             x2 == [x1 EXCEPT !.read_misses = IF store THEN @ ELSE @ + 1]
             x3 == [x2 EXCEPT !.writebacks = IF written THEN @ + 1 ELSE @]
             x4 == [x3 EXCEPT !.oram_accesses = IF toOram THEN @ + 1 ELSE @]
  <2>1. x1 \in [D -> Nat]
    BY <1>1, <1>2, <1>5
  <2>2. x2 \in [D -> Nat]
    <3> HIDE DEF x1
    <3>1. (IF store THEN x1["read_misses"] ELSE x1["read_misses"] + 1) \in Nat
      BY <1>1, <2>1
    <3> QED BY <1>1, <2>1, <3>1, CounterUpdate
  <2>3. x3 \in [D -> Nat]
    <3> HIDE DEF x2
    <3> QED BY <1>1, <1>5, <2>2
  <2>4. x4 \in [D -> Nat]
    <3> HIDE DEF x3
    <3> QED BY <1>1, <1>5, <2>3
  <2> QED BY <2>4, Zenon DEF CountMiss
<1> QED BY <1>4, <1>6 DEF Counters, D

(* What a cache asks of its miss handler: nothing on a hit, the fill on a    *)
(* miss, and before it the write-back of a dirty victim.                     *)
CallsOf(g, calls, wrote) ==
  \/ calls = <<>> /\ wrote = {}
  \/ /\ wrote = {}
     /\ \E f \in Nat : calls = <<[addr |-> f, store |-> FALSE]>>
  \/ \E f, n \in Nat :
       /\ wrote = {n}
       /\ calls = <<[addr |-> n * g.linesz, store |-> TRUE], [addr |-> f, store |-> FALSE]>>

(* access(): a line that was dirty is still dirty or was written back, the   *)
(* line of a store is dirty, and the tags stay well formed.                  *)
LEMMA AccessOutcome ==
  ASSUME NEW g, Geom(g), NEW oram \in BOOLEAN, NEW c, WellFormed(g, c.tags),
         c.st \in Counters, NEW addr \in Nat, NEW bytes \in Nat, NEW store \in BOOLEAN,
         NEW o \in access(g, oram, c, addr, bytes, store)
  PROVE  /\ o.c = [tags |-> o.c.tags, st |-> o.c.st]
         /\ WellFormed(g, o.c.tags)
         /\ o.c.st \in Counters
         /\ DirtyLines(c.tags) \subseteq DirtyLines(o.c.tags) \cup o.wrote
         /\ store => Line(g, addr) \in DirtyLines(o.c.tags)
         /\ CallsOf(g, o.calls, o.wrote)
<1> DEFINE hits == check_tag(g, c.tags, addr)
           st == Count(c.st, bytes, store)
<1>1. st \in Counters
  BY CounterType
<1> HIDE DEF st
<1>2. CASE hits # {}
  <2> DEFINE m == IF store THEN MarkDirty(c.tags, hits) ELSE c.tags
  <2>1. o = [c |-> [tags |-> m, st |-> st], calls |-> <<>>, wrote |-> {}]
    BY <1>2 DEF access, st
  <2>2. /\ WellFormed(g, m)
        /\ DirtyLines(c.tags) \subseteq DirtyLines(m)
        /\ store => Line(g, addr) \in DirtyLines(m)
    BY <1>2, Marked
  <2> HIDE DEF m
  <2>3. o.c = [tags |-> m, st |-> st] /\ o.calls = <<>> /\ o.wrote = {}
    BY <2>1
  <2>4. o.c.tags = m /\ o.c.st = st
    BY <2>3
  <2>5. CallsOf(g, o.calls, o.wrote)
    BY <2>3 DEF CallsOf
  <2> QED BY <1>1, <2>2, <2>3, <2>4, <2>5
<1>3. CASE hits = {}
  <2> DEFINE toOram == oram /\ addr \in OramBase..OramBase + OramSize - 1
             fill == [addr |-> Line(g, addr) * g.linesz, store |-> FALSE]
             written(v) == v.victim.valid /\ v.victim.dirty
             back(v) == [addr |-> v.victim.line * g.linesz, store |-> TRUE]
             m(v) == IF store THEN MarkDirty(v.tags, check_tag(g, v.tags, addr))
                              ELSE v.tags
  <2>1. PICK v \in victimize(g, c.tags, addr) :
          o = [c     |-> [tags |-> m(v), st |-> CountMiss(st, store, written(v), toOram)],
               calls |-> IF written(v) THEN <<back(v), fill>> ELSE <<fill>>,
               wrote |-> IF written(v) THEN {v.victim.line} ELSE {}]
    BY <1>3, Zenon DEF access, st
  <2>2. /\ v.victim \in Entries
        /\ WellFormed(g, v.tags)
        /\ check_tag(g, v.tags, addr) # {}
        /\ \A n \in DirtyLines(c.tags) :
             \/ n \in DirtyLines(v.tags)
             \/ v.victim.valid /\ v.victim.dirty /\ n = v.victim.line
    BY <1>3, Victim
  <2>3. /\ WellFormed(g, m(v))
        /\ DirtyLines(v.tags) \subseteq DirtyLines(m(v))
        /\ store => Line(g, addr) \in DirtyLines(m(v))
    BY <2>2, Marked
  <2>4. written(v) \in BOOLEAN /\ toOram \in BOOLEAN /\ v.victim.line \in Nat
    BY <2>2 DEF Entries
  <2>5. CountMiss(st, store, written(v), toOram) \in Counters
    <3> HIDE DEF written, toOram
    <3> QED BY <1>1, <2>4, CounterType
  <2> HIDE DEF m, toOram
  <2>6. /\ o.c = [tags |-> m(v), st |-> CountMiss(st, store, written(v), toOram)]
        /\ o.calls = IF written(v) THEN <<back(v), fill>> ELSE <<fill>>
        /\ o.wrote = IF written(v) THEN {v.victim.line} ELSE {}
    BY <2>1
  <2>7. o.c.tags = m(v) /\ o.c.st = CountMiss(st, store, written(v), toOram)
    BY <2>6
  <2>8. DirtyLines(c.tags) \subseteq DirtyLines(o.c.tags) \cup o.wrote
    BY <2>2, <2>3, <2>6, <2>7
  <2>9. CallsOf(g, o.calls, o.wrote)
    <3>1. Line(g, addr) * g.linesz \in Nat
      BY AddressType, TimesNat DEF Geom
    <3>2. CASE ~written(v)
      BY <2>6, <3>1, <3>2 DEF CallsOf
    <3>3. CASE written(v)
      <4>1. o.wrote = {v.victim.line} /\ o.calls = <<back(v), fill>>
        BY <2>6, <3>3
      <4> QED BY <2>4, <3>1, <4>1 DEF CallsOf
    <3> QED BY <3>2, <3>3
  <2> QED BY <2>3, <2>5, <2>6, <2>7, <2>8, <2>9
<1> QED BY <1>2, <1>3

-----------------------------------------------------------------------------
GoodCache(g, c) == /\ c = [tags |-> c.tags, st |-> c.st]
                   /\ WellFormed(g, c.tags)
                   /\ c.st \in Counters

(* One call of the miss handler, on an L2 that has written some lines back   *)
(* already.                                                                  *)
Called(l, addr, store, linesz) ==
  {[c |-> o.c, wrote |-> l.wrote \cup o.wrote] :
     o \in access(cfg["L2"], cfg.oram, l.c, addr, linesz, store)}

LEMMA CallOutcome ==
  ASSUME cfg \in Hierarchies, NEW l, GoodCache(cfg["L2"], l.c), NEW addr \in Nat,
         NEW store \in BOOLEAN, NEW linesz \in Nat,
         NEW r \in Called(l, addr, store, linesz)
  PROVE  /\ GoodCache(cfg["L2"], r.c)
         /\ DirtyLines(l.c.tags) \cup l.wrote \subseteq DirtyLines(r.c.tags) \cup r.wrote
         /\ store => Line(cfg["L2"], addr) \in DirtyLines(r.c.tags)
<1>1. PICK o \in access(cfg["L2"], cfg.oram, l.c, addr, linesz, store) :
        r = [c |-> o.c, wrote |-> l.wrote \cup o.wrote]
  BY DEF Called
<1>2. Geom(cfg["L2"]) /\ cfg.oram \in BOOLEAN
  BY HierarchiesAssumption DEF Geom, Levels
<1>3. /\ o.c = [tags |-> o.c.tags, st |-> o.c.st]
      /\ WellFormed(cfg["L2"], o.c.tags)
      /\ o.c.st \in Counters
      /\ DirtyLines(l.c.tags) \subseteq DirtyLines(o.c.tags) \cup o.wrote
      /\ store => Line(cfg["L2"], addr) \in DirtyLines(o.c.tags)
  BY <1>1, <1>2, AccessOutcome DEF GoodCache
<1>4. r.c = o.c /\ r.wrote = l.wrote \cup o.wrote
  BY <1>1
<1>5. GoodCache(cfg["L2"], r.c)
  BY <1>3, <1>4 DEF GoodCache
<1> QED BY <1>3, <1>4, <1>5

(* After the calls of a miss every line that was dirty in the L2, and every  *)
(* line that the cache above wrote back, is dirty in the L2 or has left it   *)
(* by a write-back: the fill that follows the write-back may push out the    *)
(* very line that was just written, but not without writing it.              *)
LEMMA Handled ==
  ASSUME cfg \in Hierarchies, GoodCache(cfg["L2"], cache["L2"]), NEW g, Geom(g),
         NEW calls, NEW wrote, CallsOf(g, calls, wrote),
         NEW l \in MissHandler(calls, g.linesz)
  PROVE  /\ GoodCache(cfg["L2"], l.c)
         /\ DirtyLines(cache["L2"].tags) \subseteq DirtyLines(l.c.tags) \cup l.wrote
         /\ "L2" \in cfg.has => \A n \in wrote :
              Line(cfg["L2"], n * g.linesz) \in DirtyLines(l.c.tags) \cup l.wrote
<1> DEFINE before == [c |-> cache["L2"], wrote |-> {}]
<1>1. before.c = cache["L2"] /\ before.wrote = {}
  OBVIOUS
<1>2. CASE "L2" \notin cfg.has \/ calls = <<>>
  <2>1. l = before
    BY <1>2, Zenon DEF MissHandler
  <2>2. l.c = cache["L2"]
    BY <2>1
  <2>3. "L2" \in cfg.has => wrote = {}
    <3>1. \A x, y : <<x>> # <<>> /\ <<x, y>> # <<>>
      OBVIOUS
    <3> QED BY <1>2, <3>1 DEF CallsOf
  <2> QED BY <2>2, <2>3
<1>3. ASSUME "L2" \in cfg.has, wrote = {}, NEW f \in Nat,
             calls = <<[addr |-> f, store |-> FALSE]>>
      PROVE  l \in Called(before, f, FALSE, g.linesz)
  <2>1. Len(calls) = 1 /\ calls # <<>> /\ calls[1].addr = f /\ calls[1].store = FALSE
    BY <1>3
  <2> QED BY <1>3, <2>1 DEF MissHandler, Called
<1>4. ASSUME "L2" \in cfg.has, NEW f \in Nat, NEW n \in Nat, wrote = {n},
             calls = <<[addr |-> n * g.linesz, store |-> TRUE],
                       [addr |-> f, store |-> FALSE]>>
      PROVE  \E r \in Called(before, n * g.linesz, TRUE, g.linesz) :
               l \in Called(r, f, FALSE, g.linesz)
  <2>1. /\ Len(calls) = 2 /\ calls # <<>>
        /\ calls[1].addr = n * g.linesz /\ calls[1].store = TRUE
        /\ calls[2].addr = f /\ calls[2].store = FALSE
    BY <1>4
  <2>2. Len(calls) # 1
    BY <2>1
  <2>3. l \in UNION {Called(r, calls[2].addr, calls[2].store, g.linesz) :
                       r \in Called(before, calls[1].addr, calls[1].store, g.linesz)}
    BY <1>4, <2>1, <2>2, Zenon DEF MissHandler, Called
  <2>4. PICK r \in Called(before, calls[1].addr, calls[1].store, g.linesz) :
          l \in Called(r, calls[2].addr, calls[2].store, g.linesz)
    BY <2>3, Zenon
  <2> QED BY <2>1, <2>4, Zenon
<1> HIDE DEF before
<1>5. GoodCache(cfg["L2"], before.c)
  BY <1>1
<1>6. g.linesz \in Nat
  BY DEF Geom
<1>7. ASSUME "L2" \in cfg.has, wrote = {}, NEW f \in Nat,
             calls = <<[addr |-> f, store |-> FALSE]>>
      PROVE  /\ GoodCache(cfg["L2"], l.c)
             /\ DirtyLines(cache["L2"].tags) \subseteq DirtyLines(l.c.tags) \cup l.wrote
  <2>1. l \in Called(before, f, FALSE, g.linesz)
    BY <1>3, <1>7
  <2>2. /\ GoodCache(cfg["L2"], l.c)
        /\ DirtyLines(before.c.tags) \cup before.wrote
             \subseteq DirtyLines(l.c.tags) \cup l.wrote
    BY <1>5, <1>6, <2>1, CallOutcome
  <2> QED BY <1>1, <2>2
<1>8. ASSUME "L2" \in cfg.has, NEW f \in Nat, NEW n \in Nat, wrote = {n},
             calls = <<[addr |-> n * g.linesz, store |-> TRUE],
                       [addr |-> f, store |-> FALSE]>>
      PROVE  /\ GoodCache(cfg["L2"], l.c)
             /\ DirtyLines(cache["L2"].tags) \subseteq DirtyLines(l.c.tags) \cup l.wrote
             /\ Line(cfg["L2"], n * g.linesz) \in DirtyLines(l.c.tags) \cup l.wrote
  <2>1. PICK r \in Called(before, n * g.linesz, TRUE, g.linesz) :
               l \in Called(r, f, FALSE, g.linesz)
    BY <1>4, <1>8
  <2>2. n * g.linesz \in Nat
    BY <1>6, TimesNat
  <2>3. /\ GoodCache(cfg["L2"], r.c)
        /\ DirtyLines(before.c.tags) \cup before.wrote
             \subseteq DirtyLines(r.c.tags) \cup r.wrote
        /\ Line(cfg["L2"], n * g.linesz) \in DirtyLines(r.c.tags)
    BY <1>5, <1>6, <2>1, <2>2, CallOutcome
  <2>4. /\ GoodCache(cfg["L2"], l.c)
        /\ DirtyLines(r.c.tags) \cup r.wrote \subseteq DirtyLines(l.c.tags) \cup l.wrote
    BY <1>6, <2>1, <2>3, CallOutcome
  <2> QED BY <1>1, <2>3, <2>4
<1> QED BY <1>2, <1>7, <1>8 DEF CallsOf

-----------------------------------------------------------------------------
(* An access of a hart, through the first level and the miss handler.        *)
LEMMA TraceStep ==
  ASSUME IndInv, NEW k \in {"I", "D"}, NEW addr \in Nat, NEW store \in BOOLEAN,
         store => k = "D", trace(k, addr, store)
  PROVE  IndInv'
<1> DEFINE g == cfg[k]
<1>1. /\ cfg \in Hierarchies
      /\ cache = [j \in Levels |-> [tags |-> cache[j].tags, st |-> cache[j].st]]
      /\ \A j \in Levels : WellFormed(cfg[j], cache[j].tags) /\ cache[j].st \in Counters
      /\ accesses \in 0..cfg.maxAccesses
      /\ NothingLost
  BY DEF IndInv
<1>2. k \in Levels /\ "L2" \in Levels /\ "D" \in Levels /\ "L2" # k
  BY DEF Levels
<1>3. Geom(g)
  BY <1>1, <1>2, HierarchiesAssumption DEF Geom
<1>3a. PICK top \in access(g, FALSE, cache[k], addr, 4, store) :
        \E below \in MissHandler(top.calls, g.linesz) :
          /\ cache' = [cache EXCEPT ![k] = top.c, !["L2"] = below.c]
          /\ unwritten' = AfterStores(k, addr, store, top, below)
  BY DEF trace
<1>4. PICK below \in MissHandler(top.calls, g.linesz) :
        /\ cache' = [cache EXCEPT ![k] = top.c, !["L2"] = below.c]
        /\ unwritten' = AfterStores(k, addr, store, top, below)
  BY <1>3a
<1>5. /\ accesses' = accesses + 1 /\ accesses < cfg.maxAccesses
      /\ cfg' = cfg
  BY DEF trace
<1>6. \A j \in Levels : GoodCache(cfg[j], cache[j])
  <2>1. ASSUME NEW j \in Levels PROVE cache[j] = [tags |-> cache[j].tags, st |-> cache[j].st]
    BY <1>1
  <2> QED BY <1>1, <2>1 DEF GoodCache
<1>7. /\ GoodCache(g, top.c)
      /\ DirtyLines(cache[k].tags) \subseteq DirtyLines(top.c.tags) \cup top.wrote
      /\ store => Line(g, addr) \in DirtyLines(top.c.tags)
      /\ CallsOf(g, top.calls, top.wrote)
  <2> HIDE DEF g
  <2>1. WellFormed(g, cache[k].tags) /\ cache[k].st \in Counters
    BY <1>1, <1>2 DEF g
  <2> DEFINE noOram == FALSE
             bytes == 4
  <2>2. noOram \in BOOLEAN /\ bytes \in Nat
    OBVIOUS
  <2>3. top \in access(g, noOram, cache[k], addr, bytes, store)
    OBVIOUS
  <2> HIDE DEF noOram, bytes
  <2> QED BY <1>3, <2>1, <2>2, <2>3, AccessOutcome DEF GoodCache
<1>8. /\ GoodCache(cfg["L2"], below.c)
      /\ DirtyLines(cache["L2"].tags) \subseteq DirtyLines(below.c.tags) \cup below.wrote
      /\ "L2" \in cfg.has => \A n \in top.wrote :
           Line(cfg["L2"], n * g.linesz) \in DirtyLines(below.c.tags) \cup below.wrote
  <2> HIDE DEF g
  <2> QED BY <1>1, <1>2, <1>3, <1>4, <1>6, <1>7, Handled
<1>9. cache' = [j \in Levels |-> IF j = "L2" THEN below.c
                                 ELSE IF j = k THEN top.c ELSE cache[j]]
  BY <1>1, <1>2, <1>4, SMTT(30)
<1>10. cache'[k] = top.c /\ cache'["L2"] = below.c
  BY <1>2, <1>9
<1>11. \A j \in Levels : j # k /\ j # "L2" => cache'[j] = cache[j]
  BY <1>9
<1>12. ASSUME NEW j \in Levels PROVE GoodCache(cfg[j], cache'[j])
  BY <1>6, <1>7, <1>8, <1>10, <1>11
<1>13. cache' = [j \in Levels |-> [tags |-> cache'[j].tags, st |-> cache'[j].st]]
  <2>1. \A j \in Levels : cache'[j] = [tags |-> cache'[j].tags, st |-> cache'[j].st]
    BY <1>12 DEF GoodCache
  <2>2. cache' = [j \in Levels |-> cache'[j]]
    BY <1>9
  <2> QED BY <2>1, <2>2
<1>14. \A j \in Levels : WellFormed(cfg'[j], cache'[j].tags) /\ cache'[j].st \in Counters
  BY <1>5, <1>12 DEF GoodCache
<1>15. accesses' \in 0..cfg'.maxAccesses
  <2>1. cfg.maxAccesses \in Nat
    BY <1>1, HierarchiesAssumption
  <2> QED BY <1>1, <1>5, <2>1
<1>16. NothingLost'
  <2> SUFFICES ASSUME NEW a \in unwritten'
               PROVE  \/ Inner(a) \in DirtyLines(cache'["D"].tags)
                      \/ /\ "L2" \in cfg.has
                         /\ \/ Outer(a) \in DirtyLines(below.c.tags)
                            \/ Outer(a) # WrittenTo(a)
    BY <1>5, <1>10 DEF NothingLost, Inner, Outer, WrittenTo
  <2>1. a \in unwritten \/ Inner(a) \in DirtyLines(cache'["D"].tags)
    <3>1. a \in unwritten \/ (store /\ a = addr)
      BY <1>4 DEF AfterStores
    <3> QED BY <1>7, <1>10, <3>1 DEF Inner
  <2>2. k = "D" => top.c = cache'["D"]
    BY <1>10
  <2>3. k # "D" => cache["D"] = cache'["D"]
    BY <1>2, <1>11
  <2>4. "L2" \in cfg.has =>
          Inner(a) \in DirtyLines(cache'["D"].tags) \/ Outer(a) \notin below.wrote
    BY <1>4, <2>2, <2>3 DEF AfterStores
  <2>5. "L2" \notin cfg.has /\ k = "D" => Inner(a) \notin top.wrote
    BY <1>4 DEF AfterStores
  <2>6. CASE a \in unwritten /\ Inner(a) \in DirtyLines(cache["D"].tags)
    <3>1. CASE k = "D"
      <4>1. Inner(a) \in DirtyLines(cache'["D"].tags) \/ Inner(a) \in top.wrote
        BY <1>7, <2>2, <2>6, <3>1
      <4>2. "L2" \in cfg.has /\ Inner(a) \in top.wrote =>
              WrittenTo(a) \in DirtyLines(below.c.tags) \cup below.wrote
        BY <1>8, <3>1 DEF WrittenTo
      <4> QED BY <2>4, <2>5, <3>1, <4>1, <4>2
    <3>2. CASE k # "D"
      BY <2>3, <2>6, <3>2
    <3> QED BY <3>1, <3>2
  <2>7. CASE "L2" \in cfg.has /\ Outer(a) \in DirtyLines(cache["L2"].tags)
    BY <1>8, <2>4, <2>7
  <2>8. CASE "L2" \in cfg.has /\ Outer(a) # WrittenTo(a)
    BY <2>8
  <2> QED BY <1>1, <2>1, <2>6, <2>7, <2>8 DEF NothingLost
<1> QED BY <1>1, <1>5, <1>13, <1>14, <1>15, <1>16 DEF IndInv

-----------------------------------------------------------------------------
(* The caches start empty.                                                   *)
LEMMA FreshCache ==
  ASSUME NEW g, Geom(g)
  PROVE  WellFormed(g, Fresh(g).tags) /\ Fresh(g).st \in Counters
<1>1. NoTag \in Entries /\ ~NoTag.valid
  BY DEF NoTag, Entries
<1>2. Fresh(g).st \in Counters
  BY DEF Fresh, Zero, Counters
<1>3. CASE IsFullyAssociative(g)
  <2>1. Fresh(g).tags = <<>>
    BY <1>3 DEF Fresh
  <2>2. DOMAIN Fresh(g).tags = {} /\ Fresh(g).tags \in [{} -> Entries]
    BY <2>1
  <2> QED BY <1>2, <1>3, <2>2, FS_EmptySet DEF WellFormed, Geom
<1>4. CASE ~IsFullyAssociative(g)
  <2>1. Fresh(g).tags = [s \in (0..g.sets - 1) \X (0..g.ways - 1) |-> NoTag]
    BY <1>4 DEF Fresh
  <2> QED BY <1>1, <1>2, <1>4, <2>1 DEF WellFormed
<1> QED BY <1>3, <1>4

LEMMA InitInv == Init => IndInv
<1> SUFFICES ASSUME Init PROVE IndInv
  OBVIOUS
<1>1. cfg \in Hierarchies /\ unwritten = {} /\ accesses = 0
  BY DEF Init
<1>2. \A k \in Levels : cache[k] = Fresh(cfg[k])
  BY DEF Init
<1>3. \A k \in Levels : WellFormed(cfg[k], cache[k].tags) /\ cache[k].st \in Counters
  BY <1>1, <1>2, HierarchiesAssumption, FreshCache DEF Geom
<1>4. cache = [k \in Levels |-> [tags |-> cache[k].tags, st |-> cache[k].st]]
  BY DEF Init, Fresh
<1>5. accesses \in 0..cfg.maxAccesses
  BY <1>1, HierarchiesAssumption
<1> QED BY <1>1, <1>3, <1>4, <1>5 DEF IndInv, NothingLost

(* Every access, of every kind, keeps the inductive invariant.               *)
LEMMA NextInv == IndInv /\ [Next]_vars => IndInv'
<1> SUFFICES ASSUME IndInv, [Next]_vars PROVE IndInv'
  OBVIOUS
<1>1. cfg.fetches \subseteq Nat /\ cfg.loads \subseteq Nat /\ cfg.stores \subseteq Nat
  BY HierarchiesAssumption DEF IndInv
<1>2. CASE Fetch
  BY <1>1, <1>2, TraceStep DEF Fetch
<1>3. CASE Load
  BY <1>1, <1>3, TraceStep DEF Load
<1>4. CASE Store
  BY <1>1, <1>4, TraceStep DEF Store
<1>5. CASE UNCHANGED vars
  BY <1>5 DEF vars, IndInv, NothingLost, Inner, Outer, WrittenTo
<1> QED BY <1>2, <1>3, <1>4, <1>5 DEF Next

(* No store is forgotten, in any hierarchy that help() admits: whatever the  *)
(* caches replace, and although the write-back of a victim reaches the L2    *)
(* just before a fill that may replace the same line, an address that        *)
(* access() was told of with store is in a dirty line somewhere until the    *)
(* last level writes it back; an exception is the tail of a data cache line  *)
(* longer than those of the L2, which no access() of the L2 ever names.      *)
THEOREM StoresKept == Spec => []NothingLost
<1>1. IndInv => NothingLost
  BY DEF IndInv
<1> QED BY InitInv, NextInv, <1>1, PTL DEF Spec

(* In every cache of every geometry the tag array is well formed and a line  *)
(* is in one slot at most, so check_tag() has one answer.                    *)
THEOREM OneCopy == Spec => []TagsUnique
<1>1. IndInv => TagsUnique
  <2> SUFFICES ASSUME IndInv PROVE TagsUnique
    OBVIOUS
  <2>1. TypeOK
    BY DEF IndInv, TypeOK, WellFormed
  <2>2. ASSUME NEW k \in Levels, NEW s \in DOMAIN cache[k].tags,
               NEW u \in DOMAIN cache[k].tags,
               cache[k].tags[s].valid, cache[k].tags[u].valid,
               cache[k].tags[s].line = cache[k].tags[u].line
        PROVE  s = u
    <3>1. WellFormed(cfg[k], cache[k].tags)
      BY DEF IndInv
    <3>2. CASE IsFullyAssociative(cfg[k])
      <4>1. s = <<0, cache[k].tags[s].line>> /\ u = <<0, cache[k].tags[u].line>>
        BY <3>1, <3>2 DEF WellFormed
      <4> QED BY <2>2, <4>1
    <3>3. CASE ~IsFullyAssociative(cfg[k])
      BY <2>2, <3>1, <3>3 DEF WellFormed
    <3> QED BY <3>2, <3>3
  <2> QED BY <2>1, <2>2 DEF TagsUnique
<1> QED BY InitInv, NextInv, <1>1, PTL DEF Spec
=============================================================================
