-------------------------------- MODULE Fifo --------------------------------
(***************************************************************************)
(* What circular_buffer_t promises its two users, recv_buf and send_buf of *)
(* gdbserver_t: a bounded first-in first-out queue of bytes.               *)
(***************************************************************************)
EXTENDS Naturals, Sequences

CONSTANTS Limit,    \* how many elements fit
          Chunks    \* the sequences a caller may add in one call

VARIABLE q

Init == q = <<>>

\* Some elements are added at the end, all of them or none.
Put(s) == /\ Len(q) + Len(s) <= Limit
          /\ q' = q \o s

\* The n oldest elements leave.
Drop(n) == q' = SubSeq(q, n + 1, Len(q))

Clear == q' = <<>>

Next == \/ \E s \in Chunks : Put(s)
        \/ \E n \in 1..Len(q) : Drop(n)
        \/ Clear

Spec == Init /\ [][Next]_q
=============================================================================
