------------------------------- MODULE MCDram -------------------------------
(* A channel of two ranks with two banks of two rows, and the timing of a   *)
(* DDR2 part scaled down.  With scheme 2 address 0 is row 0 of bank 0 of    *)
(* rank 0; 1 is in the other rank, 2 in the other bank, 4 in the other row. *)
EXTENDS Dram

ShippedPolicy == [rowBufferPolicy |-> "OpenPage", queuingStructure |-> "PerRank",
                  schedulingPolicy |-> "RankThenBankRoundRobin",
                  client |-> "trace", addresses |-> {0, 1, 4}, transactions |-> 3,
                  test |-> <<>>]

\* Two reads and 5 cycles, a write and 45 cycles, as in main(): the second read
\* finds the controller full.
SpikeTest == << [write |-> FALSE, addr |-> 0, updates |-> 0],
                [write |-> FALSE, addr |-> 2, updates |-> 5],
                [write |-> TRUE, addr |-> 0, updates |-> 45] >>

MCPolicies ==
  {ShippedPolicy,
   [ShippedPolicy EXCEPT !.queuingStructure = "PerRankPerBank",
                         !.schedulingPolicy = "BankThenRankRoundRobin",
                         !.addresses = {0, 2, 4}],
   [ShippedPolicy EXCEPT !.rowBufferPolicy = "ClosePage",
                         !.schedulingPolicy = "BankThenRankRoundRobin",
                         !.addresses = {0, 1, 2}],
   [ShippedPolicy EXCEPT !.rowBufferPolicy = "ClosePage",
                         !.queuingStructure = "PerRankPerBank",
                         !.addresses = {0, 1, 2}],
   [ShippedPolicy EXCEPT !.client = "spike", !.addresses = {0, 2}, !.transactions = 5,
                         !.test = SpikeTest]}
=============================================================================
