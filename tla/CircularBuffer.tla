--------------------------- MODULE CircularBuffer ---------------------------
(***************************************************************************)
(* circular_buffer_t (riscv/gdbserver.h, riscv/gdbserver.cc), the template *)
(* behind recv_buf and send_buf.  One slot stays unused so that an empty   *)
(* buffer (start = end) differs from a full one.  An assert that fails     *)
(* ends the simulator: aborted becomes TRUE and nothing happens any more.  *)
(***************************************************************************)
EXTENDS Integers, Sequences

CONSTANTS Values,    \* the elements (bytes)
          Capacity,  \* the size of the array data
          Chunks     \* the non-empty sequences a caller may add in one call

ASSUME CapacityAssumption == Capacity \in Nat /\ Capacity > 1
ASSUME ChunksAssumption == Chunks \subseteq Seq(Values) \ {<<>>}

VARIABLES data, start, end, aborted

vars == <<data, start, end, aborted>>

Index == 0..(Capacity - 1)

TypeOK == /\ data \in [Index -> Values]
          /\ start \in Index
          /\ end \in Index
          /\ aborted \in BOOLEAN

-----------------------------------------------------------------------------
size == IF end >= start THEN end - start ELSE end + Capacity - start

entry(i) == data[(start + i) % Capacity]

\* Mutant: the slot that tells full from empty is forgotten when start is 0.
contiguous_empty_size_no_gap(s, e) ==
  IF e >= s THEN Capacity - e ELSE s - e - 1

\* Mutant: the last slot of the array is left free whatever start is.
contiguous_empty_size_short(s, e) ==
  IF e >= s THEN Capacity - e - 1 ELSE s - e - 1

contiguous_empty_size(s, e) ==
  IF e >= s THEN IF s = 0 THEN Capacity - e - 1 ELSE Capacity - e
            ELSE s - e - 1

contiguous_data_size ==
  IF end >= start THEN end - start ELSE Capacity - start

\* memcpy of the elements of blk to data + e.
memcpy(d, e, blk) ==
  [i \in Index |-> IF i >= e /\ i < e + Len(blk) THEN blk[1 + i - e] ELSE d[i]]

\* Mutant: the assert does not let a block end at the end of the array.
data_added_ok_strict(e, count) == e + count < Capacity

\* data_added(count) asserts that end stays within the array.
data_added_ok(e, count) == e + count <= Capacity
data_added(e, count) == IF e + count = Capacity THEN 0 ELSE e + count

-----------------------------------------------------------------------------
Init == /\ data \in [Index -> Values]
        /\ start = 0
        /\ end = 0
        /\ aborted = FALSE

\* gdbserver_t::read(): the socket delivers at most contiguous_empty_size()
\* bytes straight into the array.
Read(src) ==
  /\ ~aborted
  /\ Len(src) <= contiguous_empty_size(start, end)
  /\ IF data_added_ok(end, Len(src))
       THEN /\ data' = memcpy(data, end, src)
            /\ end' = data_added(end, Len(src))
            /\ UNCHANGED <<start, aborted>>
       ELSE aborted' = TRUE /\ UNCHANGED <<data, start, end>>

\* append(src, count): what fits before the end of the array, then the rest
\* at its beginning.
append(src) ==
  LET count == Len(src)
      room  == contiguous_empty_size(start, end)
      copy  == IF count <= room THEN count ELSE room
      first == SubSeq(src, 1, copy)
      later == SubSeq(src, copy + 1, count)
      end1  == data_added(end, copy)
      rest  == count - copy
      ok    == /\ data_added_ok(end, copy)
               /\ rest > 0 => /\ rest < contiguous_empty_size(start, end1)
                              /\ data_added_ok(end1, rest)
  IN /\ ~aborted
     /\ IF ok
          THEN /\ data' = memcpy(memcpy(data, end, first), end1, later)
               /\ end' = data_added(end1, rest)
               /\ UNCHANGED <<start, aborted>>
          ELSE aborted' = TRUE /\ UNCHANGED <<data, start, end>>

\* consume(bytes), by process_requests() and write(); neither consumes more
\* than the buffer holds.
Consume(n) ==
  /\ ~aborted
  /\ start' = (start + n) % Capacity
  /\ UNCHANGED <<data, end, aborted>>

\* reset(), when the client disconnects.
Reset ==
  /\ ~aborted
  /\ start' = 0
  /\ end' = 0
  /\ UNCHANGED <<data, aborted>>

Next == \/ \E src \in Chunks : Read(src) \/ append(src)
        \/ \E n \in 1..size : Consume(n)
        \/ Reset

Spec == Init /\ [][Next]_vars

-----------------------------------------------------------------------------
\* The queue the buffer stands for: operator[] from 0 to size() - 1.
Contents == [i \in 1..size |-> entry(i - 1)]

Abstract == INSTANCE Fifo WITH Limit <- Capacity - 1, q <- Contents

\* Every operation does to the queue what its name says: bytes come out in
\* the order in which they went in, none is lost or invented where data_added
\* and append wrap around, and consume drops exactly the oldest ones.
ImplementsFifo == Abstract!Spec

\* The elements of src do not fit, or they fill the last slot with a wrap.
NoRoom(src) ==
  LET free == Capacity - 1 - size
  IN \/ Len(src) > free
     \/ Len(src) = free /\ end + Len(src) > Capacity

\* The assert of data_added never fails on what the socket delivers, and
\* append ends the simulator in two cases and no other: when the elements do
\* not fit, and when they fill the buffer to its last slot with a wrap.  In the
\* second case they do fit ("The buffer can store capacity-1 data elements",
\* gdbserver.h:15), but the assert asks for count < contiguous_empty_size().
AbortOnlyNearFull ==
  [][\A src \in Chunks : /\ Read(src) => ~aborted'
                         /\ append(src) => (aborted' <=> NoRoom(src))]_vars
=============================================================================
