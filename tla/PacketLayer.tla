----------------------------- MODULE PacketLayer ----------------------------
(***************************************************************************)
(* The packet layer of gdbserver_t: handle() with the framing, checksums   *)
(* and acknowledgements of the remote protocol, over the byte buffers      *)
(* recv_buf (CircularBuffer's own variables) and send_buf (an instance).   *)
(* What an operation does to the hart is left to SpikeDebug; here it is    *)
(* the list of what each of its steps sends.  The client is external.      *)
(***************************************************************************)
EXTENDS CircularBuffer, SequencesExt

CONSTANTS
  Commands,      \* data of the packets a client may send
  SendCapacity,  \* the size of send_buf
  Base, Digit,   \* the Base digits of a checksum, 16 in the code
  Code,          \* the value a byte adds to a checksum
  MaxSteps       \* bound: connections, commands and damaged frames in all

ASSUME PacketAssumption ==
  /\ {"$", "#", "+", "-", "etx"} \subseteq Values
  /\ Digit \in [0..Base - 1 -> Values] /\ Code \in [Values -> Nat]
  /\ \A cmd \in Commands : /\ cmd \in Seq(Values) \ {<<>>}
                           /\ \A i \in 1..Len(cmd) : cmd[i] \notin {"$", "#"}
                           /\ 2 * (Len(cmd) + 4) + 1 < Capacity - 1

VARIABLES
  sdata, sstart, sendEnd, saborted,  \* send_buf
  at,                 \* where handle() is
  client_fd,          \* is a client connected?
  expect_ack, running_checksum,
  operation_queue,    \* an operation is the sends of its steps to come
  out,                \* send() calls yet to be made before handle() goes on
  wire, inbox,        \* bytes on their way from and to the client
  client,
  sent, handled,      \* history: commands and interrupts of this connection
  stale               \* history: an operation of an earlier client was left

sendVars == <<sdata, sstart, sendEnd, saborted>>
serverVars == <<at, client_fd, expect_ack, running_checksum, operation_queue, out>>
clientVars == <<wire, inbox, client, sent>>
packetVars == <<vars, sendVars, serverVars, clientVars, handled, stale>>

send_buf == INSTANCE CircularBuffer
              WITH Capacity <- SendCapacity,
                   data <- sdata, start <- sstart, end <- sendEnd, aborted <- saborted

-----------------------------------------------------------------------------
(* Checksums and frames.                                                     *)

Sum(bytes) == FoldLeft(LAMBDA s, b : (s + Code[b]) % (Base * Base), 0, bytes)

compute_checksum(packet) == Sum(SubSeq(packet, 2, Len(packet) - 3))

character_hex_value(b) ==
  IF \E i \in DOMAIN Digit : Digit[i] = b
  THEN CHOOSE i \in DOMAIN Digit : Digit[i] = b
  ELSE Base * Base - 1

extract_checksum(packet) ==
  (character_hex_value(packet[Len(packet)])
     + Base * character_hex_value(packet[Len(packet) - 1])) % (Base * Base)

checksum_string(sum) == <<"#", Digit[sum \div Base], Digit[sum % Base]>>

Frame(cmd) == <<"$">> \o cmd \o checksum_string(Sum(cmd))

(* send_packet as the send() calls it makes: "start" and "end" stand for     *)
(* those of start_packet and end_packet.                                     *)
send_packet(reply) == <<"start">> \o reply \o <<"end">>

-----------------------------------------------------------------------------
(* Operations, each the sends of its steps.                                  *)

halt_op(send_status) == <<<<>>, IF send_status THEN send_packet(<<"S", "0">>) ELSE <<>>>>
continue_op == <<<<>>>>
memory_write_op == <<<<>>, send_packet(<<"O", "K">>)>>

(* The reply is sent piece by piece, while the hart runs in between.         *)
general_registers_read_op == <<<<"start", "0">>, <<"1", "0">>, <<"1", "end">>>>

(* What handle_packet adds to the queue, and what it sends at once: an empty *)
(* packet for whatever is not supported.                                     *)
Operations(cmd) ==
  CASE cmd[1] = "g" -> <<general_registers_read_op>>
    [] cmd[1] = "X" -> <<memory_write_op>>
    [] cmd[1] = "c" -> <<continue_op>>
    [] OTHER -> <<>>

Reply(cmd) ==
  CASE cmd[1] \in {"g", "X", "c"} -> <<>>
    [] cmd[1] = "?" -> send_packet(<<"S", "0">>)
    [] OTHER -> send_packet(<<>>)

-----------------------------------------------------------------------------
AwayClient == [state |-> "away", left |-> MaxSteps, lost |-> FALSE, running |-> FALSE]

PacketInit ==
  /\ data = [i \in Index |-> "0"] /\ start = 0 /\ end = 0 /\ aborted = FALSE
  /\ sdata = [i \in 0..SendCapacity - 1 |-> "0"]
  /\ sstart = 0 /\ sendEnd = 0 /\ saborted = FALSE
  /\ at = "operation" /\ client_fd = FALSE
  /\ expect_ack = FALSE /\ running_checksum = 0
  /\ operation_queue = <<>> /\ out = <<>>
  /\ wire = <<>> /\ inbox = <<>> /\ client = AwayClient
  /\ sent = <<>> /\ handled = <<>> /\ stale = FALSE

At(place) == at = place /\ out = <<>> /\ ~aborted /\ ~saborted

(* A mistake: start_packet leaves the checksum as it is.                     *)
Send_no_reset ==
  /\ out # <<>> /\ ~saborted
  /\ LET t   == Head(out)
         msg == CASE t = "start" -> <<"$">>
                  [] t = "end" -> checksum_string(running_checksum)
                  [] OTHER -> <<t>>
     IN  /\ send_buf!append(msg)
         /\ running_checksum' = (running_checksum + Sum(msg)) % (Base * Base)
         /\ expect_ack' = (expect_ack \/ t = "end")
  /\ out' = Tail(out)
  /\ UNCHANGED <<vars, at, client_fd, operation_queue, clientVars, handled, stale>>

(* send(): one call.  The checksum starts anew behind the "$", and is taken  *)
(* before its own digits are added to it.                                    *)
Send ==
  /\ out # <<>> /\ ~saborted
  /\ LET t   == Head(out)
         msg == CASE t = "start" -> <<"$">>
                  [] t = "end" -> checksum_string(running_checksum)
                  [] OTHER -> <<t>>
     IN  /\ send_buf!append(msg)
         /\ running_checksum' = IF t = "start" THEN 0
                                ELSE (running_checksum + Sum(msg)) % (Base * Base)
         /\ expect_ack' = (expect_ack \/ t = "end")
  /\ out' = Tail(out)
  /\ UNCHANGED <<vars, at, client_fd, operation_queue, clientVars, handled, stale>>

(* handle(), while the debug interrupt is set or nothing is queued ...       *)
OperationWaits ==
  /\ At("operation") /\ client_fd
  /\ at' = "read"
  /\ UNCHANGED <<vars, sendVars, client_fd, expect_ack, running_checksum, operation_queue,
                 out, clientVars, handled, stale>>

(* ... and when the first operation can take its next step.                  *)
OperationSteps ==
  /\ At("operation") /\ client_fd /\ operation_queue # <<>>
  /\ out' = Head(Head(operation_queue))
  /\ operation_queue' = IF Len(Head(operation_queue)) = 1
                        THEN Tail(operation_queue)
                        ELSE [operation_queue EXCEPT ![1] = Tail(@)]
  /\ at' = "read"
  /\ UNCHANGED <<vars, sendVars, client_fd, expect_ack, running_checksum, clientVars, handled, stale>>

accept ==
  /\ At("operation") /\ ~client_fd /\ client.state = "connecting"
  /\ client_fd' = TRUE
  /\ expect_ack' = FALSE
  /\ operation_queue' = Append(operation_queue, halt_op(FALSE))
  /\ client' = [client EXCEPT !.state = "idle"]
  /\ stale' = (operation_queue # <<>>)
  /\ UNCHANGED <<vars, sendVars, at, running_checksum, out, wire, inbox, sent, handled>>

(* read(): some of what has arrived, or nothing yet.                         *)
ReadBytes ==
  /\ At("read") /\ wire # <<>>
  /\ \E n \in 1..Len(wire) :
       /\ Read(SubSeq(wire, 1, n))
       /\ wire' = SubSeq(wire, n + 1, Len(wire))
  /\ at' = "write"
  /\ UNCHANGED <<sendVars, client_fd, expect_ack, running_checksum, operation_queue, out,
                 inbox, client, sent, handled, stale>>

ReadNothing ==
  /\ At("read") /\ contiguous_empty_size(start, end) > 0
  /\ at' = "write"
  /\ UNCHANGED <<vars, sendVars, client_fd, expect_ack, running_checksum, operation_queue, out,
                 clientVars, handled, stale>>

(* An answer of zero bytes is taken for the end of the connection: that of a *)
(* client that has gone, and that to a request for zero bytes.               *)
ReadDisconnect ==
  /\ At("read")
  /\ \/ wire = <<>> /\ client.state = "away"
     \/ contiguous_empty_size(start, end) = 0
  /\ client_fd' = FALSE
  /\ Reset /\ send_buf!Reset
  /\ at' = "write"
  /\ wire' = <<>>
  /\ UNCHANGED <<expect_ack, running_checksum, operation_queue, out, inbox, client, sent,
                 handled, stale>>

(* write() goes on until send_buf is empty; the socket takes what it gets.   *)
Write ==
  /\ At("write")
  /\ IF send_buf!size > 0
     THEN LET n == send_buf!contiguous_data_size
          IN  /\ inbox' = IF client.state = "away" THEN inbox
                          ELSE inbox \o SubSeq(send_buf!Contents, 1, n)
              /\ send_buf!Consume(n)
              /\ UNCHANGED at
     ELSE /\ at' = IF operation_queue = <<>> THEN "requests" ELSE "operation"
          /\ UNCHANGED <<sendVars, inbox>>
  /\ UNCHANGED <<vars, client_fd, expect_ack, running_checksum, operation_queue, out,
                 wire, client, sent, handled, stale>>

-----------------------------------------------------------------------------
(* process_requests(): one round of its loop.  Scan is what the bytes in     *)
(* recv_buf begin with, and how many of them that is.                        *)

Stops(s, i) == (i > 1 /\ s[i] = "$") \/ (i >= 4 /\ s[i - 2] = "#")

(* A mistake: an interrupt is looked for inside a packet.                    *)
Scan_interrupt_anywhere(s) ==
  LET ends == {i \in 1..Len(s) : Stops(s, i)}
      i    == CHOOSE k \in ends : \A j \in ends : k <= j
  IN  CASE s = <<>> -> [is |-> "nothing", n |-> 0]
        [] s # <<>> /\ expect_ack /\ s[1] = "+" -> [is |-> "ack", n |-> 1]
        [] s # <<>> /\ \E j \in 1..Len(s) : s[j] = "etx" -> [is |-> "interrupt", n |-> 1]
        [] ends = {} -> [is |-> "partial", n |-> 0]
        [] ends # {} /\ i > 1 /\ s[i] = "$" -> [is |-> "malformed", n |-> i - 1]
        [] OTHER -> [is |-> "packet", n |-> i]

Scan(s) ==
  LET ends == {i \in 1..Len(s) : Stops(s, i)}
      i    == CHOOSE k \in ends : \A j \in ends : k <= j
  IN  CASE s = <<>> -> [is |-> "nothing", n |-> 0]
        [] s # <<>> /\ expect_ack /\ s[1] = "+" -> [is |-> "ack", n |-> 1]
        [] s # <<>> /\ s[1] = "etx" -> [is |-> "interrupt", n |-> 1]
        [] s # <<>> /\ ends = {} -> [is |-> "partial", n |-> 0]
        [] ends # {} /\ i > 1 /\ s[i] = "$" -> [is |-> "malformed", n |-> i - 1]
        [] OTHER -> [is |-> "packet", n |-> i]

Ack ==
  /\ At("requests") /\ Scan(Contents).is = "ack"
  /\ Consume(1)
  /\ UNCHANGED <<sendVars, serverVars, clientVars, handled, stale>>

handle_interrupt ==
  /\ At("requests") /\ Scan(Contents).is = "interrupt"
  /\ Consume(1)
  /\ operation_queue' = Append(operation_queue, halt_op(TRUE))
  /\ handled' = Append(handled, <<"etx">>)
  /\ UNCHANGED <<sendVars, at, client_fd, expect_ack, running_checksum, out, clientVars, stale>>

Malformed ==
  /\ At("requests") /\ Scan(Contents).is = "malformed"
  /\ Consume(Scan(Contents).n)
  /\ at' = "operation"
  /\ UNCHANGED <<sendVars, client_fd, expect_ack, running_checksum, operation_queue, out,
                 clientVars, handled, stale>>

(* A mistake: a packet is answered and not acknowledged.                     *)
handle_packet_no_ack ==
  /\ At("requests") /\ Scan(Contents).is = "packet"
  /\ LET packet == SubSeq(Contents, 1, Scan(Contents).n)
         cmd    == SubSeq(packet, 2, Len(packet) - 3)
     IN  IF compute_checksum(packet) # extract_checksum(packet)
         THEN /\ out' = <<"-">>
              /\ UNCHANGED <<operation_queue, handled>>
         ELSE /\ out' = Reply(cmd)
              /\ operation_queue' = operation_queue \o Operations(cmd)
              /\ handled' = Append(handled, cmd)
  /\ Consume(Scan(Contents).n)
  /\ at' = "operation"
  /\ UNCHANGED <<sendVars, client_fd, expect_ack, running_checksum, clientVars, stale>>

(* A packet is acknowledged before it is answered.                           *)
handle_packet ==
  /\ At("requests") /\ Scan(Contents).is = "packet"
  /\ LET packet == SubSeq(Contents, 1, Scan(Contents).n)
         cmd    == SubSeq(packet, 2, Len(packet) - 3)
     IN  IF compute_checksum(packet) # extract_checksum(packet)
         THEN /\ out' = <<"-">>
              /\ UNCHANGED <<operation_queue, handled>>
         ELSE /\ out' = <<"+">> \o Reply(cmd)
              /\ operation_queue' = operation_queue \o Operations(cmd)
              /\ handled' = Append(handled, cmd)
  /\ Consume(Scan(Contents).n)
  /\ at' = "operation"
  /\ UNCHANGED <<sendVars, client_fd, expect_ack, running_checksum, clientVars, stale>>

(* The rest is less than a packet; it must not fill the buffer.              *)
RequestsEnd ==
  /\ At("requests") /\ Scan(Contents).is \in {"nothing", "partial"}
  /\ at' = "operation"
  /\ aborted' = (size = Capacity - 1)
  /\ UNCHANGED <<data, start, end, sendVars, client_fd, expect_ack, running_checksum,
                 operation_queue, out, clientVars, handled, stale>>

Server ==
  \/ Send \/ OperationWaits \/ OperationSteps \/ accept \/ ReadBytes \/ ReadNothing
  \/ ReadDisconnect \/ Write \/ Ack \/ handle_interrupt \/ Malformed \/ handle_packet
  \/ RequestsEnd

-----------------------------------------------------------------------------
(* The client: gdb, with one command at a time.                              *)

Connect ==
  /\ client.state = "away" /\ ~client_fd /\ client.left > 0
  /\ client' = [client EXCEPT !.state = "connecting", !.left = @ - 1,
                              !.lost = FALSE, !.running = FALSE]
  /\ wire' = <<"+">> /\ inbox' = <<>>
  /\ sent' = <<>> /\ handled' = <<>>
  /\ UNCHANGED <<vars, sendVars, serverVars, stale>>

SendCommand ==
  /\ client.state = "idle" /\ client.left > 0
  /\ \E cmd \in Commands :
       /\ wire' = wire \o Frame(cmd)
       /\ sent' = Append(sent, cmd)
       /\ client' = [client EXCEPT !.state = "sent", !.left = @ - 1,
                                   !.lost = FALSE, !.running = cmd[1] = "c"]
  /\ UNCHANGED <<vars, sendVars, serverVars, inbox, handled, stale>>

(* Noise on the line: a wrong digit, or a last digit that is lost, but not   *)
(* in two frames in a row.                                                   *)
SendNoise ==
  /\ client.state = "idle" /\ ~client.lost /\ client.left > 0
  /\ \E cmd \in Commands, lost \in BOOLEAN :
       LET f == Frame(cmd)
           wrong == CHOOSE d \in Range(Digit) : d # Last(f)
       IN  /\ wire' = wire \o (IF lost THEN Front(f) ELSE Front(f) \o <<wrong>>)
           /\ client' = [client EXCEPT !.state = "sent", !.left = @ - 1, !.lost = lost,
                                       !.running = FALSE]
  /\ UNCHANGED <<vars, sendVars, serverVars, inbox, sent, handled, stale>>

(* No answer comes to a frame that was cut: the client gives up waiting.     *)
Timeout ==
  /\ client.state = "sent" /\ client.lost
  /\ client' = [client EXCEPT !.state = "idle"]
  /\ UNCHANGED <<vars, sendVars, serverVars, wire, inbox, sent, handled, stale>>

SendInterrupt ==
  /\ client.state = "running"
  /\ wire' = Append(wire, "etx")
  /\ sent' = Append(sent, <<"etx">>)
  /\ client' = [client EXCEPT !.state = "answer"]
  /\ UNCHANGED <<vars, sendVars, serverVars, inbox, handled, stale>>

ReceiveAck ==
  /\ client.state # "away" /\ inbox # <<>> /\ Head(inbox) \in {"+", "-"}
  /\ client' = IF client.state # "sent" THEN client
               ELSE [client EXCEPT
                       !.state = IF Head(inbox) = "-" THEN "idle"
                                 ELSE IF client.running THEN "running" ELSE "answer"]
  /\ inbox' = Tail(inbox)
  /\ UNCHANGED <<vars, sendVars, serverVars, wire, sent, handled, stale>>

ReceivePacket ==
  /\ client.state # "away" /\ inbox # <<>> /\ Head(inbox) = "$"
  /\ \E n \in 4..Len(inbox) :
       /\ inbox[n - 2] = "#" /\ \A i \in 1..n - 3 : inbox[i] # "#"
       /\ inbox' = SubSeq(inbox, n + 1, Len(inbox))
  /\ wire' = Append(wire, "+")
  /\ client' = [client EXCEPT !.state = IF @ \in {"answer", "running"} THEN "idle" ELSE @]
  /\ UNCHANGED <<vars, sendVars, serverVars, sent, handled, stale>>

(* The tail of a packet that was meant for an earlier client.                *)
ReceiveJunk ==
  /\ client.state # "away" /\ inbox # <<>> /\ Head(inbox) \notin {"$", "+", "-"}
  /\ inbox' = Tail(inbox)
  /\ UNCHANGED <<vars, sendVars, serverVars, wire, client, sent, handled, stale>>

Close ==
  /\ client.state \notin {"away", "connecting"}
  /\ client' = [client EXCEPT !.state = "away"]
  /\ inbox' = <<>>
  /\ UNCHANGED <<vars, sendVars, serverVars, wire, sent, handled, stale>>

Client ==
  \/ Connect \/ SendCommand \/ SendNoise \/ Timeout \/ SendInterrupt
  \/ ReceiveAck \/ ReceivePacket \/ ReceiveJunk \/ Close

PacketNext == Server \/ Client

(* main() goes on calling handle(), and what the client sends arrives.       *)
PacketSpec ==
  PacketInit /\ [][PacketNext]_packetVars
  /\ WF_packetVars(Server) /\ SF_packetVars(ReadBytes)

-----------------------------------------------------------------------------
(* Properties.                                                               *)

(* The server handles the packets and interrupt characters of its client,    *)
(* each once and in the order in which they were sent, however the stream is *)
(* cut into reads, whatever bytes a packet holds, and with acknowledgements, *)
(* damaged and unfinished packets in between.                                *)
HandledAsSent == IsPrefix(handled, sent)

(* A sequence of acknowledgements and packets with true checksums, of which  *)
(* the last may not be complete.                                             *)
WellFormed(s) ==
  LET Items(from) == {to \in from..Len(s) :
                        \/ to = from /\ s[from] \in {"+", "-"}
                        \/ /\ to - from >= 3 /\ s[from] = "$" /\ s[to - 2] = "#"
                           /\ \A i \in from + 1..to - 3 : s[i] \notin {"$", "#", "+", "-"}
                           /\ SubSeq(s, to - 2, to) = checksum_string(Sum(SubSeq(s, from + 1, to - 3)))}
      reach[n \in 0..Len(s)] == n = 0 \/ \E m \in 0..n - 1 : reach[m] /\ n \in Items(m + 1)
  IN  \E n \in 0..Len(s) :
        /\ reach[n]
        /\ \/ n = Len(s)
           \/ /\ s[n + 1] = "$"
              /\ \A i \in n + 2..Len(s) : /\ s[i] \notin {"$", "+", "-"}
                                          /\ s[i] = "#" => i >= Len(s) - 1

(* Everything a client is sent is well formed, replies too that an operation *)
(* sends step by step: nothing lands in the middle of them, and what         *)
(* running_checksum has summed up is the packet it ends.  A client that      *)
(* finds an operation of its predecessor may get the rest of its reply.      *)
RepliesWellFormed ==
  client_fd /\ client.state # "away" /\ ~stale => WellFormed(inbox \o send_buf!Contents)

(* As long as a client sends one command at a time, the server lets it go    *)
(* only when it has gone itself, and no assert on a buffer fails.            *)
ClientKept ==
  [][(client_fd /\ ~client_fd' => client.state = "away") /\ ~aborted' /\ ~saborted']_packetVars

(* The server never falls silent of itself: as long as the hart goes on      *)
(* finishing the debug programs of the operations, a client that waits for   *)
(* an acknowledgement or for an answer, to a frame that arrived whole, gets  *)
(* something to read.  The hart need not: with an enabled interrupt pending  *)
(* it may stay in the Debug ROM for ever, and the operation waits for it.    *)
OperationsFinish == []<>(operation_queue = <<>>)
Answered ==
  OperationsFinish =>
    (client.state \in {"sent", "answer"} /\ ~client.lost
       ~> inbox # <<>> \/ client.state \notin {"sent", "answer"})

=============================================================================
