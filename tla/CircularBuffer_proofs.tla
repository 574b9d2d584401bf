------------------------ MODULE CircularBuffer_proofs ------------------------
(***************************************************************************)
(* Theorems about circular_buffer_t for every capacity and every element   *)
(* type.  The argument rests on two lemmas: ViewFacts, which reads the     *)
(* array as a sequence, and WriteBlock, which says that one memcpy of no   *)
(* more than contiguous_empty_size() elements followed by data_added()     *)
(* appends exactly those elements.                                         *)
(***************************************************************************)
EXTENDS CircularBuffer, SequenceTheorems, TLAPS

\* size() and the queue of a buffer with array d, start s and end e.
Sz(s, e) == IF e >= s THEN e - s ELSE e + Capacity - s
View(d, s, e) == [i \in 1..Sz(s, e) |-> d[(s + (i - 1)) % Capacity]]

\* A position that wraps at most once.
LEMMA ModWrap ==
  ASSUME NEW c \in Nat \ {0}, NEW x \in 0..(2 * c - 1)
  PROVE  x % c = IF x < c THEN x ELSE x - c
  BY SMT

\* The queue is a sequence of size() elements, found from start on, around
\* the end of the array.
LEMMA ViewFacts ==
  ASSUME NEW d \in [Index -> Values], NEW s \in Index, NEW e \in Index
  PROVE  /\ Sz(s, e) \in 0..(Capacity - 1)
         /\ View(d, s, e) \in Seq(Values)
         /\ Len(View(d, s, e)) = Sz(s, e)
         /\ \A i \in 1..Sz(s, e) :
              View(d, s, e)[i] = IF s + i - 1 < Capacity THEN d[s + i - 1]
                                 ELSE d[s + i - 1 - Capacity]
<1>1. Sz(s, e) \in 0..(Capacity - 1)
  BY CapacityAssumption DEF Sz, Index
<1>2. ASSUME NEW i \in 1..Sz(s, e)
      PROVE  /\ (s + (i - 1)) % Capacity = IF s + i - 1 < Capacity THEN s + i - 1
                                           ELSE s + i - 1 - Capacity
             /\ (s + (i - 1)) % Capacity \in Index
  <2> DEFINE x == s + (i - 1)
  <2>1. x \in 0..(2 * Capacity - 1) /\ Capacity \in Nat \ {0}
    BY <1>1, CapacityAssumption DEF Index
  <2>2. x % Capacity = IF x < Capacity THEN x ELSE x - Capacity
    <3> HIDE DEF x
    <3> QED BY <2>1, ModWrap
  <2> QED BY <2>1, <2>2, <1>1, CapacityAssumption DEF Index
<1>3. View(d, s, e) \in [1..Sz(s, e) -> Values]
  BY <1>1, <1>2 DEF View
<1>4. View(d, s, e) \in Seq(Values) /\ Len(View(d, s, e)) = Sz(s, e)
  <2>1. Sz(s, e) \in Nat
    BY <1>1
  <2>2. Seq(Values) = UNION {[1..n -> Values] : n \in Nat}
    BY SeqDef
  <2>3. View(d, s, e) \in Seq(Values)
    BY <1>3, <2>1, <2>2
  <2>4. DOMAIN View(d, s, e) = 1..Sz(s, e)
    BY DEF View
  <2>5. Len(View(d, s, e)) \in Nat /\ DOMAIN View(d, s, e) = 1..Len(View(d, s, e))
    BY <2>3, LenProperties
  <2> QED BY <2>1, <2>3, <2>4, <2>5
<1>5. ASSUME NEW i \in 1..Sz(s, e)
      PROVE  View(d, s, e)[i] = IF s + i - 1 < Capacity THEN d[s + i - 1]
                                ELSE d[s + i - 1 - Capacity]
  BY <1>2, <1>5 DEF View
<1> QED BY <1>1, <1>4, <1>5

\* One block write.
LEMMA WriteBlock ==
  ASSUME NEW d \in [Index -> Values], NEW s \in Index, NEW e \in Index,
         NEW blk \in Seq(Values),
         Len(blk) <= contiguous_empty_size(s, e)
  PROVE  /\ data_added_ok(e, Len(blk))
         /\ memcpy(d, e, blk) \in [Index -> Values]
         /\ data_added(e, Len(blk)) \in Index
         /\ Sz(s, data_added(e, Len(blk))) = Sz(s, e) + Len(blk)
         /\ View(memcpy(d, e, blk), s, data_added(e, Len(blk))) = View(d, s, e) \o blk
<1> DEFINE d1 == memcpy(d, e, blk)
           count == Len(blk)
           e1 == data_added(e, count)
           v == View(d, s, e)
<1>0. count \in Nat /\ \A n \in 1..count : blk[n] \in Values
  BY LenProperties, ElementOfSeq
<1> HIDE DEF count
<1>1. data_added_ok(e, count) /\ e1 \in Index
  BY <1>0, CapacityAssumption
  DEF data_added_ok, data_added, contiguous_empty_size, Index, count
<1>2. d1 \in [Index -> Values]
  BY <1>0, CapacityAssumption DEF memcpy, Index, count
<1>3. Sz(s, e1) = Sz(s, e) + count
  BY <1>0, CapacityAssumption DEF Sz, data_added, contiguous_empty_size, Index, count
<1> HIDE DEF d1, e1, v
<1>4. /\ v \in Seq(Values) /\ Len(v) = Sz(s, e)
      /\ View(d1, s, e1) \in Seq(Values) /\ Len(View(d1, s, e1)) = Sz(s, e1)
      /\ Sz(s, e) \in 0..(Capacity - 1)
  BY <1>1, <1>2, ViewFacts DEF v
<1>5. /\ v \o blk \in Seq(Values)
      /\ Len(v \o blk) = Sz(s, e) + count
      /\ \A i \in 1..(Sz(s, e) + count) :
           (v \o blk)[i] = IF i <= Sz(s, e) THEN v[i] ELSE blk[i - Sz(s, e)]
  <2>1. /\ v \o blk \in Seq(Values)
        /\ Len(v \o blk) = Len(v) + Len(blk)
        /\ \A i \in 1..(Len(v) + Len(blk)) :
             (v \o blk)[i] = IF i <= Len(v) THEN v[i] ELSE blk[i - Len(v)]
    BY <1>4, ConcatProperties
  <2> QED BY <1>4, <2>1 DEF count
<1>6. ASSUME NEW i \in 1..(Sz(s, e) + count)
      PROVE  View(d1, s, e1)[i] = (v \o blk)[i]
  <2>1. i \in 1..Sz(s, e1)
    BY <1>3
  <2>2. View(d1, s, e1)[i] = IF s + i - 1 < Capacity THEN d1[s + i - 1]
                             ELSE d1[s + i - 1 - Capacity]
    BY <2>1, <1>1, <1>2, ViewFacts
  <2>3. s \in Int /\ i \in Int /\ Capacity \in Int /\ Sz(s, e) \in Int
    BY <1>4, CapacityAssumption DEF Index
  <2>4. CASE i <= Sz(s, e)
    <3>1. i \in 1..Sz(s, e)
      BY <2>4, <1>4
    <3>2. v[i] = IF s + i - 1 < Capacity THEN d[s + i - 1]
                 ELSE d[s + i - 1 - Capacity]
      BY <3>1, ViewFacts DEF v
    <3>3. /\ s + i - 1 < Capacity => d1[s + i - 1] = d[s + i - 1]
          /\ ~ (s + i - 1 < Capacity) => d1[s + i - 1 - Capacity] = d[s + i - 1 - Capacity]
      BY <1>0, <3>1, CapacityAssumption
      DEF d1, memcpy, Index, Sz, contiguous_empty_size, count
    <3>4. (v \o blk)[i] = v[i]
      BY <1>5, <2>4
    <3> QED BY <2>2, <3>2, <3>3, <3>4
  <2>5. CASE ~ (i <= Sz(s, e))
    <3>1. i - Sz(s, e) \in 1..count
      BY <2>5, <2>3, <1>0
    <3>2. /\ s + i - 1 < Capacity => d1[s + i - 1] = blk[i - Sz(s, e)]
          /\ ~ (s + i - 1 < Capacity) => d1[s + i - 1 - Capacity] = blk[i - Sz(s, e)]
      BY <1>0, <3>1, CapacityAssumption
      DEF d1, memcpy, Index, Sz, contiguous_empty_size, count
    <3>3. (v \o blk)[i] = blk[i - Sz(s, e)]
      BY <1>5, <2>5
    <3> QED BY <2>2, <3>2, <3>3
  <2> QED BY <2>4, <2>5
<1>7. View(d1, s, e1) = v \o blk
  BY <1>3, <1>4, <1>5, <1>6, SeqEqual
<1> QED BY <1>1, <1>2, <1>3, <1>7 DEF d1, e1, v, count

\* append(): a block up to the end of the array, then the rest.
LEMMA TwoBlocks ==
  ASSUME NEW d \in [Index -> Values], NEW s \in Index, NEW e \in Index,
         NEW b1 \in Seq(Values), NEW b2 \in Seq(Values),
         Len(b1) <= contiguous_empty_size(s, e),
         Len(b2) <= contiguous_empty_size(s, data_added(e, Len(b1)))
  PROVE  LET d2 == memcpy(memcpy(d, e, b1), data_added(e, Len(b1)), b2)
             e2 == data_added(data_added(e, Len(b1)), Len(b2))
         IN  /\ d2 \in [Index -> Values]
             /\ e2 \in Index
             /\ Sz(s, e2) = Sz(s, e) + Len(b1) + Len(b2)
             /\ View(d2, s, e2) = View(d, s, e) \o (b1 \o b2)
<1> DEFINE v  == View(d, s, e)
           d1 == memcpy(d, e, b1)
           e1 == data_added(e, Len(b1))
           d2 == memcpy(d1, e1, b2)
           e2 == data_added(e1, Len(b2))
<1>1. d1 \in [Index -> Values] /\ e1 \in Index /\ Sz(s, e1) = Sz(s, e) + Len(b1)
  BY WriteBlock
<1>2. View(d1, s, e1) = v \o b1
  BY WriteBlock
<1>3. Len(b2) <= contiguous_empty_size(s, e1)
  OBVIOUS
<1> HIDE DEF d1, e1
<1>4. d2 \in [Index -> Values] /\ e2 \in Index /\ Sz(s, e2) = Sz(s, e1) + Len(b2)
  BY <1>1, <1>3, WriteBlock
<1>5. View(d2, s, e2) = View(d1, s, e1) \o b2
  BY <1>1, <1>3, WriteBlock
<1>6. v \in Seq(Values)
  BY ViewFacts
<1> HIDE DEF v
<1>7. (v \o b1) \o b2 = v \o (b1 \o b2)
  BY <1>6, ConcatAssociative
<1> QED BY <1>1, <1>2, <1>4, <1>5, <1>7 DEF v, d1, e1

-----------------------------------------------------------------------------
\* What one operation does, stated over the state and its next state.
LEMMA ReadStep ==
  ASSUME TypeOK, ChunksAssumption, NEW src \in Chunks, Read(src)
  PROVE  /\ TypeOK'
         /\ aborted' = aborted
         /\ Contents' = Contents \o src
         /\ Len(Contents) + Len(src) <= Capacity - 1
<1>1. src \in Seq(Values) /\ Len(src) \in Nat
  BY ChunksAssumption, LenProperties
<1>2. Len(src) <= contiguous_empty_size(start, end)
  BY DEF Read
<1>3. data \in [Index -> Values] /\ start \in Index /\ end \in Index /\ aborted \in BOOLEAN
  BY DEF TypeOK
<1>4. /\ data_added_ok(end, Len(src))
      /\ memcpy(data, end, src) \in [Index -> Values]
      /\ data_added(end, Len(src)) \in Index
      /\ Sz(start, data_added(end, Len(src))) = Sz(start, end) + Len(src)
      /\ View(memcpy(data, end, src), start, data_added(end, Len(src)))
           = View(data, start, end) \o src
  BY <1>1, <1>2, <1>3, WriteBlock
<1>5. /\ data' = memcpy(data, end, src)
      /\ end' = data_added(end, Len(src))
      /\ start' = start /\ aborted' = aborted
  BY <1>4 DEF Read
<1>6. TypeOK'
  BY <1>3, <1>4, <1>5 DEF TypeOK
<1>7. Contents = View(data, start, end) /\ Contents' = View(data', start', end')
  BY DEF Contents, View, entry, size, Sz
<1>8. /\ Len(Contents) = Sz(start, end)
      /\ Sz(start', end') \in 0..(Capacity - 1)
      /\ Sz(start, end) \in 0..(Capacity - 1)
  BY <1>3, <1>6, <1>7, ViewFacts DEF TypeOK
<1>9. Len(Contents) + Len(src) <= Capacity - 1
  BY <1>1, <1>4, <1>5, <1>8, CapacityAssumption
<1> QED BY <1>4, <1>5, <1>6, <1>7, <1>9

LEMMA AppendStep ==
  ASSUME TypeOK, ChunksAssumption, NEW src \in Chunks, append(src)
  PROVE  /\ TypeOK'
         /\ \/ UNCHANGED Contents
            \/ /\ Contents' = Contents \o src
               /\ Len(Contents) + Len(src) <= Capacity - 1
         /\ aborted' <=> NoRoom(src)
<1> DEFINE count == Len(src)
           room  == contiguous_empty_size(start, end)
           copy  == IF count <= room THEN count ELSE room
           first == SubSeq(src, 1, copy)
           later == SubSeq(src, copy + 1, count)
           data1 == memcpy(data, end, first)
           end1  == data_added(end, copy)
           rest  == count - copy
           ok    == /\ data_added_ok(end, copy)
                    /\ rest > 0 => /\ rest < contiguous_empty_size(start, end1)
                                   /\ data_added_ok(end1, rest)
<1>1. src \in Seq(Values) /\ count \in Nat
  BY ChunksAssumption, LenProperties
<1>2. data \in [Index -> Values] /\ start \in Index /\ end \in Index /\ aborted \in BOOLEAN
  BY DEF TypeOK
<1>3. room \in Nat
  BY <1>2, CapacityAssumption DEF contiguous_empty_size, Index
<1>4. copy \in Nat /\ rest \in Nat /\ copy <= room /\ copy + rest = count
  BY <1>1, <1>3
<1>5. /\ ~aborted
      /\ start' = start
      /\ ok => /\ data' = memcpy(data1, end1, later)
               /\ end' = data_added(end1, rest)
               /\ aborted' = aborted
      /\ ~ok => aborted' = TRUE /\ data' = data /\ end' = end
  BY DEF append
<1>6. Contents = View(data, start, end) /\ Contents' = View(data', start', end')
  BY DEF Contents, View, entry, size, Sz
<1>7. data_added_ok(end, copy) /\ contiguous_empty_size(start, end1) \in Nat
  BY <1>1, <1>2, CapacityAssumption
  DEF data_added, data_added_ok, contiguous_empty_size, Index
<1> HIDE DEF count, room, copy, rest
<1>8. ok <=> ~NoRoom(src)
  <2>1. CASE rest > 0
    <3>1. /\ start \in Nat /\ end \in Nat /\ start < Capacity /\ end < Capacity
          /\ count > room /\ copy = room /\ rest = count - room
          /\ count = Len(src) /\ count \in Nat /\ Capacity \in Nat
      BY <1>1, <1>2, <1>3, <2>1, CapacityAssumption DEF Index, count, copy, rest
    <3>2. CASE end < start
      <4>1. room = start - end - 1 /\ size = end + Capacity - start
        BY <3>1, <3>2 DEF room, contiguous_empty_size, size
      <4>2. end1 = start - 1
        BY <3>1, <3>2, <4>1 DEF data_added
      <4>3. contiguous_empty_size(start, end1) = 0
        BY <3>1, <3>2, <4>2 DEF contiguous_empty_size
      <4> QED BY <1>7, <3>1, <3>2, <4>1, <4>3, <2>1 DEF NoRoom
    <3>3. CASE end >= start /\ start = 0
      <4>1. room = Capacity - end - 1 /\ size = end
        BY <3>1, <3>3 DEF room, contiguous_empty_size, size
      <4>2. end1 = Capacity - 1
        BY <3>1, <3>3, <4>1 DEF data_added
      <4>3. contiguous_empty_size(start, end1) = 0
        BY <3>1, <3>3, <4>2 DEF contiguous_empty_size
      <4> QED BY <1>7, <3>1, <3>3, <4>1, <4>3, <2>1 DEF NoRoom
    <3>4. CASE end >= start /\ start > 0
      <4>1. room = Capacity - end /\ size = end - start
        BY <3>1, <3>4 DEF room, contiguous_empty_size, size
      <4>2. end1 = 0
        BY <3>1, <3>4, <4>1 DEF data_added
      <4>3. contiguous_empty_size(start, end1) = start - 1
        BY <3>1, <3>4, <4>2 DEF contiguous_empty_size
      <4>4. data_added_ok(end1, rest) <=> rest <= Capacity
        BY <3>1, <4>2 DEF data_added_ok
      <4>5. ok <=> rest < start - 1
        BY <3>1, <3>4, <4>3, <4>4, <2>1, <1>7
      <4>6. NoRoom(src) <=> ~(rest < start - 1)
        BY <3>1, <3>4, <4>1, <2>1 DEF NoRoom
      <4> QED BY <4>5, <4>6
    <3> QED BY <3>1, <3>2, <3>3, <3>4
  <2>2. CASE rest = 0
    BY <1>1, <1>2, <1>4, <1>7, <2>2, CapacityAssumption
    DEF data_added, data_added_ok, contiguous_empty_size, Index, size, count, room,
        copy, rest, NoRoom
  <2> QED BY <2>1, <2>2, <1>4
<1>9. CASE ok
  <2>1. rest <= contiguous_empty_size(start, end1)
    <3>1. CASE rest = 0
      BY <1>7, <3>1
    <3>2. CASE rest > 0
      BY <1>9, <1>7, <3>2, <1>4
    <3> QED BY <3>1, <3>2, <1>4
  <2>2. data' = memcpy(data1, end1, later) /\ end' = data_added(end1, rest)
    BY <1>5, <1>9
  <2>3. aborted' = aborted /\ start' = start
    BY <1>5, <1>9
  <2>4. /\ first \in Seq(Values) /\ Len(first) = copy
        /\ later \in Seq(Values) /\ Len(later) = rest
        /\ first \o later = src
    <3>1. PICK m \in Nat : m = copy
      BY <1>4
    <3>2. /\ 1 \in 1..(Len(src) + 1)
          /\ m \in (1 - 1)..Len(src)
          /\ Len(src) \in m..Len(src)
      BY <1>1, <1>4, <3>1 DEF count
    <3>3. \A i \in 1..Len(src) : src[i] \in Values
      BY <1>1, ElementOfSeq
    <3>4. SubSeq(src, 1, m) \o SubSeq(src, m + 1, Len(src)) = src
      BY <1>1, <3>2, ConcatAdjacentSubSeq, SubSeqFull
    <3>5. /\ SubSeq(src, 1, m) \in Seq(Values)
          /\ Len(SubSeq(src, 1, m)) = IF 1 <= m THEN m - 1 + 1 ELSE 0
      <4>1. 1 \in Int /\ m \in Int /\ \A i \in 1..m : src[i] \in Values
        BY <3>2, <3>3
      <4> QED BY <4>1, SubSeqProperties
    <3>6. /\ SubSeq(src, m + 1, Len(src)) \in Seq(Values)
          /\ Len(SubSeq(src, m + 1, Len(src)))
               = IF m + 1 <= Len(src) THEN Len(src) - (m + 1) + 1 ELSE 0
      <4>1. PICK k \in Int : k = m + 1
        OBVIOUS
      <4>2. Len(src) \in Int /\ \A i \in k..Len(src) : src[i] \in Values
        BY <1>1, <3>3, <4>1 DEF count
      <4>3. /\ SubSeq(src, k, Len(src)) \in Seq(Values)
            /\ Len(SubSeq(src, k, Len(src))) = IF k <= Len(src) THEN Len(src) - k + 1 ELSE 0
        BY <4>2, SubSeqProperties
      <4> QED BY <4>1, <4>3
    <3>7. first = SubSeq(src, 1, m) /\ later = SubSeq(src, m + 1, Len(src))
      BY <3>1 DEF count
    <3>8. Len(src) = m + rest /\ rest \in Nat
      BY <1>4, <3>1 DEF count
    <3>9. Len(SubSeq(src, 1, m)) = m
      BY <3>5
    <3>10. Len(SubSeq(src, m + 1, Len(src))) = rest
      BY <3>6, <3>8
    <3> QED BY <3>1, <3>4, <3>5, <3>6, <3>7, <3>9, <3>10
  <2>5. copy <= contiguous_empty_size(start, end)
    BY <1>4 DEF room
  <2>6. /\ data' \in [Index -> Values] /\ end' \in Index
        /\ Sz(start, end') = Sz(start, end) + copy + rest
        /\ View(data', start, end') = View(data, start, end) \o src
    <3>1. /\ data1 = memcpy(data, end, first)
          /\ end1 = data_added(end, Len(first))
      BY <2>4
    <3> HIDE DEF first, later, data1, end1
    <3>2. /\ Len(first) <= contiguous_empty_size(start, end)
          /\ Len(later) <= contiguous_empty_size(start, data_added(end, Len(first)))
      BY <2>1, <2>4, <2>5, <3>1
    <3>7. first \in Seq(Values) /\ later \in Seq(Values)
      BY <2>4
    <3> DEFINE d2 == memcpy(memcpy(data, end, first), data_added(end, Len(first)), later)
               e2 == data_added(data_added(end, Len(first)), Len(later))
    <3>3. d2 \in [Index -> Values] /\ e2 \in Index
      BY <1>2, <3>2, <3>7, TwoBlocks
    <3>4. Sz(start, e2) = Sz(start, end) + Len(first) + Len(later)
      BY <1>2, <3>2, <3>7, TwoBlocks
    <3>5. View(d2, start, e2) = View(data, start, end) \o (first \o later)
      BY <1>2, <3>2, <3>7, TwoBlocks
    <3>6. data' = d2 /\ end' = e2
      BY <2>2, <2>4, <3>1
    <3> QED BY <2>4, <3>3, <3>4, <3>5, <3>6
  <2>7. TypeOK'
    BY <2>3, <2>6, <1>2 DEF TypeOK
  <2>8. Contents' = Contents \o src
    BY <1>6, <2>3, <2>6
  <2>9. Len(Contents) + Len(src) <= Capacity - 1
    <3>1. Sz(start, end') \in 0..(Capacity - 1)
      BY <2>6, <1>2, ViewFacts
    <3>2. Len(Contents) = Sz(start, end) /\ Sz(start, end) \in Nat
      BY <1>2, <1>6, ViewFacts
    <3>3. Len(src) = copy + rest
      BY <1>4 DEF count
    <3> QED BY <3>1, <3>2, <3>3, <2>6, <1>4, CapacityAssumption
  <2> QED BY <1>5, <1>8, <1>9, <2>3, <2>7, <2>8, <2>9
<1>10. CASE ~ok
  <2>1. UNCHANGED Contents
    BY <1>10, <1>5, <1>6
  <2>2. TypeOK'
    BY <1>10, <1>5, <1>2 DEF TypeOK
  <2>3. aborted' = TRUE
    BY <1>10, <1>5
  <2> QED BY <2>1, <2>2, <2>3, <1>8, <1>10
<1> QED BY <1>9, <1>10

LEMMA ConsumeStep ==
  ASSUME TypeOK, NEW n \in 1..size, Consume(n)
  PROVE  /\ TypeOK'
         /\ aborted' = aborted
         /\ n \in 1..Len(Contents)
         /\ Contents' = SubSeq(Contents, n + 1, Len(Contents))
<1>1. data \in [Index -> Values] /\ start \in Index /\ end \in Index /\ aborted \in BOOLEAN
  BY DEF TypeOK
<1>2. Contents = View(data, start, end) /\ Contents' = View(data', start', end')
  BY DEF Contents, View, entry, size, Sz
<1>3. size = Sz(start, end) /\ Sz(start, end) \in 0..(Capacity - 1) /\ n \in 1..Sz(start, end)
  BY <1>1, CapacityAssumption DEF size, Sz, Index
<1>4. /\ start' = IF start + n < Capacity THEN start + n ELSE start + n - Capacity
      /\ data' = data /\ end' = end /\ aborted' = aborted
  <2>1. PICK x \in 0..(2 * Capacity - 1) : x = start + n
    BY <1>1, <1>3, CapacityAssumption DEF Index
  <2>2. x % Capacity = IF x < Capacity THEN x ELSE x - Capacity
    <3>1. Capacity \in Nat \ {0}
      BY CapacityAssumption
    <3> QED BY <3>1, ModWrap
  <2>3. start' = x % Capacity
    BY <2>1 DEF Consume
  <2>4. data' = data /\ end' = end /\ aborted' = aborted
    BY DEF Consume
  <2>5. start' = IF start + n < Capacity THEN start + n ELSE start + n - Capacity
    BY <1>1, <1>3, <2>1, <2>2, <2>3, CapacityAssumption DEF Index
  <2> QED BY <2>4, <2>5
<1>5. start' \in Index /\ Sz(start', end) = Sz(start, end) - n
  BY <1>1, <1>3, <1>4, CapacityAssumption DEF Sz, Index
<1>6. TypeOK'
  BY <1>1, <1>4, <1>5 DEF TypeOK
<1> DEFINE v == View(data, start, end)
           w == View(data, start', end)
<1>7. /\ v \in Seq(Values) /\ Len(v) = Sz(start, end)
      /\ \A i \in 1..Sz(start, end) :
           v[i] = IF start + i - 1 < Capacity THEN data[start + i - 1]
                  ELSE data[start + i - 1 - Capacity]
  BY <1>1, ViewFacts
<1>8. /\ w \in Seq(Values) /\ Len(w) = Sz(start', end)
      /\ \A i \in 1..Sz(start', end) :
           w[i] = IF start' + i - 1 < Capacity THEN data[start' + i - 1]
                  ELSE data[start' + i - 1 - Capacity]
  BY <1>1, <1>5, ViewFacts
<1> HIDE DEF v, w
<1>9. /\ SubSeq(v, n + 1, Len(v)) \in Seq(Values)
      /\ Len(SubSeq(v, n + 1, Len(v))) = Sz(start, end) - n
      /\ \A i \in 1..(Sz(start, end) - n) : SubSeq(v, n + 1, Len(v))[i] = v[n + i]
  <2> DEFINE m == n + 1
             k == Len(v)
  <2>1. m \in Int /\ k \in Int /\ \A i \in m..k : v[i] \in Values
    BY <1>3, <1>7, ElementOfSeq
  <2> DEFINE t == SubSeq(v, m, k)
  <2>2. /\ t \in Seq(Values)
        /\ Len(t) = IF m <= k THEN k - m + 1 ELSE 0
        /\ \A i \in 1..(k - m + 1) : t[i] = v[m + i - 1]
    <3> HIDE DEF m, k
    <3> QED BY <2>1, SubSeqProperties
  <2> HIDE DEF t
  <2>3. Len(t) = Sz(start, end) - n /\ k - m + 1 = Sz(start, end) - n
    BY <2>2, <1>3, <1>7
  <2>4. \A i \in 1..(Sz(start, end) - n) : t[i] = v[n + i]
    <3> SUFFICES ASSUME NEW i \in 1..(Sz(start, end) - n)
                 PROVE  t[i] = v[n + i]
      OBVIOUS
    <3>1. m + i - 1 = n + i
      BY <1>3
    <3> QED BY <2>2, <2>3, <3>1
  <2> QED BY <2>2, <2>3, <2>4 DEF t
<1>10. ASSUME NEW i \in 1..(Sz(start, end) - n)
       PROVE  w[i] = v[n + i]
  <2>1. n + i \in 1..Sz(start, end) /\ i \in 1..Sz(start', end)
    BY <1>3, <1>5
  <2>2. v[n + i] = IF start + (n + i) - 1 < Capacity THEN data[start + (n + i) - 1]
                   ELSE data[start + (n + i) - 1 - Capacity]
    <3> DEFINE j == n + i
    <3> HIDE DEF j
    <3>1. j \in 1..Sz(start, end)
      BY <2>1 DEF j
    <3>2. v[j] = IF start + j - 1 < Capacity THEN data[start + j - 1]
                 ELSE data[start + j - 1 - Capacity]
      BY <3>1, <1>7
    <3> QED BY <3>2 DEF j
  <2>3. w[i] = IF start' + i - 1 < Capacity THEN data[start' + i - 1]
               ELSE data[start' + i - 1 - Capacity]
    BY <2>1, <1>8
  <2> QED BY <2>1, <2>2, <2>3, <1>1, <1>3, <1>4, CapacityAssumption DEF Index
<1>11. w = SubSeq(v, n + 1, Len(v))
  <2> DEFINE t == SubSeq(v, n + 1, Len(v))
  <2>1. \A i \in 1..Len(w) : w[i] = t[i]
    BY <1>5, <1>8, <1>9, <1>10
  <2> HIDE DEF t
  <2>2. t \in Seq(Values) /\ Len(w) = Len(t)
    BY <1>5, <1>8, <1>9 DEF t
  <2> QED BY <1>8, <2>1, <2>2, SeqEqual DEF t
<1> QED BY <1>2, <1>3, <1>4, <1>6, <1>7, <1>11 DEF v, w

LEMMA ResetStep ==
  ASSUME TypeOK, Reset
  PROVE  TypeOK' /\ aborted' = aborted /\ Contents' = <<>>
<1>1. TypeOK'
  BY CapacityAssumption DEF TypeOK, Reset, Index
<1>2. aborted' = aborted
  BY DEF Reset
<1>3. start' = 0 /\ end' = 0
  BY DEF Reset
<1>4. Contents' = View(data', start', end')
  BY DEF Contents, View, entry, size, Sz
<1>5. Contents' \in Seq(Values) /\ Len(Contents') = Sz(start', end')
  BY <1>1, <1>4, ViewFacts DEF TypeOK
<1>6. Len(Contents') = 0
  BY <1>3, <1>5 DEF Sz
<1>7. Contents' = <<>>
  BY <1>5, <1>6, EmptySeq
<1> QED BY <1>1, <1>2, <1>7

-----------------------------------------------------------------------------
\* The array, its two indices and the abort flag keep their types: start and
\* end never leave the array, whatever read(), append(), consume() and reset()
\* are called with.
THEOREM TypeCorrect == Spec => []TypeOK
<1>1. Init => TypeOK
  <2>1. 0 \in Index
    BY CapacityAssumption DEF Index
  <2> QED BY <2>1 DEF Init, TypeOK
<1>2. TypeOK /\ [Next]_vars => TypeOK'
  <2> SUFFICES ASSUME TypeOK, [Next]_vars
               PROVE  TypeOK'
    OBVIOUS
  <2>1. ASSUME NEW src \in Chunks, Read(src)
        PROVE  TypeOK'
    BY <2>1, ReadStep, ChunksAssumption
  <2>2. ASSUME NEW src \in Chunks, append(src)
        PROVE  TypeOK'
    BY <2>2, AppendStep, ChunksAssumption
  <2>3. ASSUME NEW n \in 1..size, Consume(n)
        PROVE  TypeOK'
    BY <2>3, ConsumeStep
  <2>4. CASE Reset
    BY <2>4, ResetStep
  <2>5. CASE UNCHANGED vars
    BY <2>5 DEF vars, TypeOK
  <2> QED BY <2>1, <2>2, <2>3, <2>4, <2>5 DEF Next
<1> QED BY <1>1, <1>2, PTL DEF Spec

\* The buffer implements a first-in first-out queue of Capacity - 1 elements:
\* no byte of a gdb packet is lost, repeated or reordered where the buffer
\* wraps around.
THEOREM Refinement == Spec => ImplementsFifo
<1>1. Init => Abstract!Init
  <2> SUFFICES ASSUME Init PROVE Contents = <<>>
    BY DEF Abstract!Init
  <2>1. data \in [Index -> Values] /\ start \in Index /\ end \in Index /\ start = 0 /\ end = 0
    BY CapacityAssumption DEF Init, Index
  <2>2. Contents = View(data, start, end)
    BY DEF Contents, View, entry, size, Sz
  <2>3. Contents \in Seq(Values) /\ Len(Contents) = Sz(start, end)
    BY <2>1, <2>2, ViewFacts
  <2>4. Len(Contents) = 0
    BY <2>1, <2>3 DEF Sz
  <2> QED BY <2>3, <2>4, EmptySeq
<1>2. TypeOK /\ [Next]_vars => [Abstract!Next]_Contents
  <2> SUFFICES ASSUME TypeOK, [Next]_vars
               PROVE  [Abstract!Next]_Contents
    OBVIOUS
  <2>1. ASSUME NEW src \in Chunks, Read(src)
        PROVE  Abstract!Next
    <3>1. Abstract!Put(src)
      BY <2>1, ReadStep, ChunksAssumption DEF Abstract!Put
    <3> QED BY <3>1 DEF Abstract!Next
  <2>2. ASSUME NEW src \in Chunks, append(src)
        PROVE  [Abstract!Next]_Contents
    <3>1. UNCHANGED Contents \/ Abstract!Put(src)
      BY <2>2, AppendStep, ChunksAssumption DEF Abstract!Put
    <3> QED BY <3>1 DEF Abstract!Next
  <2>3. ASSUME NEW n \in 1..size, Consume(n)
        PROVE  Abstract!Next
    <3>1. n \in 1..Len(Contents) /\ Abstract!Drop(n)
      BY <2>3, ConsumeStep DEF Abstract!Drop
    <3> QED BY <3>1 DEF Abstract!Next
  <2>4. CASE Reset
    <3>1. Abstract!Clear
      BY <2>4, ResetStep DEF Abstract!Clear
    <3> QED BY <3>1 DEF Abstract!Next
  <2>5. CASE UNCHANGED vars
    BY <2>5 DEF vars, Contents, entry, size
  <2> QED BY <2>1, <2>2, <2>3, <2>4, <2>5 DEF Next
<1> QED BY <1>1, <1>2, TypeCorrect, PTL DEF Spec, ImplementsFifo, Abstract!Spec

\* The assert of data_added() never fires on a read from the socket, and an
\* append ends the simulator exactly when the elements do not fit, or fill the
\* last slot of the buffer with a wrap.
THEOREM AbortsOnlyNearFull == Spec => AbortOnlyNearFull
<1> DEFINE A == \A src \in Chunks :
                  /\ Read(src) => ~aborted'
                  /\ append(src) => (aborted' <=> NoRoom(src))
<1>1. TypeOK => A
  <2> SUFFICES ASSUME TypeOK, NEW src \in Chunks
               PROVE  /\ Read(src) => ~aborted'
                      /\ append(src) => (aborted' <=> NoRoom(src))
    OBVIOUS
  <2>1. Read(src) => ~aborted'
    <3>1. ASSUME Read(src) PROVE ~aborted'
      <4>1. aborted' = aborted
        BY <3>1, ReadStep, ChunksAssumption
      <4>2. ~aborted
        BY <3>1 DEF Read
      <4> QED BY <4>1, <4>2
    <3> QED BY <3>1
  <2>2. append(src) => (aborted' <=> NoRoom(src))
    BY AppendStep, ChunksAssumption
  <2> QED BY <2>1, <2>2
<1>2. TypeOK /\ [Next]_vars => [A]_vars
  BY <1>1
<1> QED BY <1>1, <1>2, TypeCorrect, PTL DEF Spec, AbortOnlyNearFull
=============================================================================
