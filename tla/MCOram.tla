------------------------------- MODULE MCOram -------------------------------
(* Small trees for Oram: memory, bucket size and the stash as the command    *)
(* line gives them, the other sizes as init() computes them.                 *)
EXTENDS Oram

CONSTANTS MemLines,   \* cache lines of memory
          bucketsz

ASSUME MemAssumption == MemLines \in Nat /\ bucketsz \in Nat \ {0}

MCBlocks == MemLines \div bucketsz
\* log2, rounded down as the conversion to size_t does.
MCHeight == CHOOSE h \in 0..MCBlocks : 2^h <= MCBlocks /\ MCBlocks < 2^(h + 1)
MCLeaves == 2^MCHeight
MCLines == 0..(MemLines - 1)

\* cur = cur / 2, from the leaf at depth tree_height up to the root.
MCPath == [l \in MCLeaves..(2 * MCLeaves - 1) |->
            [d \in 0..MCHeight |-> l \div 2^(MCHeight - d)]]
=============================================================================
