-------------------------------- MODULE Oram --------------------------------
(***************************************************************************)
(* oram_sim_t (riscv/oramsim.cc): the tree ORAM behind the last level of   *)
(* cache.  A block lives in the node of a binary tree on the path to the   *)
(* leaf that position_map names, or in the stash.  The first Height+1      *)
(* entries of the stash hold the path while an access works on it, the     *)
(* others hold the blocks that did not fit.                                *)
(*                                                                         *)
(* An access is three actions with nothing in between, so that the loop    *)
(* over the evicted blocks is one action per iteration.  The traffic to    *)
(* DRAM and the counters are left out.                                     *)
(***************************************************************************)
EXTENDS Integers, FiniteSets

CONSTANTS tree_height,
          tree_leaves,  \* the leaves are nodes tree_leaves..2*tree_leaves-1
          Path,         \* Path[leaf][d]: the node of depth d above leaf
          stashsz,      \* the entries of the stash
          num_of_blocks,
          Lines         \* the cache lines of memory, as block numbers

is_leaf(n) == n \in tree_leaves..(2 * tree_leaves - 1)
Leaves == tree_leaves..(2 * tree_leaves - 1)
Nodes == 1..(2 * tree_leaves - 1)
Depth == 0..tree_height
StashIndex == 0..(stashsz - 1)
Evicted == (tree_height + 1)..(stashsz - 1)

ASSUME SizeAssumption ==
  /\ tree_height \in Nat /\ tree_height > 0
  /\ tree_leaves \in Nat /\ tree_leaves > 1
  /\ stashsz \in Nat /\ stashsz > tree_height
  /\ num_of_blocks \in Nat /\ num_of_blocks >= tree_leaves
  /\ Lines \subseteq Nat

\* What cur = cur / 2 gives from the leaves up: a node has one depth, paths
\* that meet stay together, and they all meet in the root.
ASSUME PathAssumption ==
  /\ Path \in [Leaves -> [Depth -> Nodes]]
  /\ \A l \in Leaves : Path[l][tree_height] = l
  /\ \A l, m \in Leaves : Path[l][0] = Path[m][0]
  /\ \A l, m \in Leaves : \A d, e \in Depth : Path[l][d] = Path[m][e] => d = e
  /\ \A l, m \in Leaves : \A d, e \in Depth :
       e <= d /\ Path[l][d] = Path[m][d] => Path[l][e] = Path[m][e]

Empty == -1
Blocks == 0..(tree_leaves - 1)   \* the blocks that init() gives a leaf
Slot == Blocks \cup {Empty}

VARIABLES oram_tree, position_map, stash,
          access,    \* the access under way: its phase, block, old leaf, loop index
          aborted    \* "no", or the assert that failed

vars == <<oram_tree, position_map, stash, access, aborted>>

Idle == [phase |-> "idle", bid |-> 0, leaf |-> tree_leaves, found |-> TRUE, sid |-> 0]

TypeOK ==
  /\ oram_tree \in [Nodes -> Slot]
  /\ position_map \in [Blocks -> Leaves]
  /\ stash \in [StashIndex -> Slot]
  /\ access \in [phase : {"idle", "bring"}, bid : Blocks, leaf : Leaves,
                 found : BOOLEAN, sid : 0..stashsz]
  /\ aborted \in {"no", "range", "leaf", "overflow"}

\* init(): all the blocks are mapped into leaves.
block_of_leaf(n) == n - tree_leaves

Init ==
  /\ oram_tree = [n \in Nodes |-> IF is_leaf(n) THEN block_of_leaf(n) ELSE Empty]
  /\ position_map = [b \in Blocks |-> b + tree_leaves]
  /\ stash = [i \in StashIndex |-> Empty]
  /\ access = Idle
  /\ aborted = "no"

-----------------------------------------------------------------------------
block_is_in_stash(b) == \E i \in StashIndex : stash[i] = b

First(S) == CHOOSE i \in S : \A j \in S : i <= j
Last(S) == CHOOSE i \in S : \A j \in S : j <= i

\* load_path_to_stash
load_path_to_stash(leaf) ==
  [i \in StashIndex |-> IF i \in Depth THEN oram_tree[Path[leaf][i]] ELSE stash[i]]

\* The height at which the two paths part.
\* Mutant: it is taken one node too low.
nearest_ancestor_low(leaf, new_leaf) ==
  LET common == {d \in Depth : Path[leaf][d] = Path[new_leaf][d]}
      last == Last(common)
  IN IF last < tree_height THEN last + 1 ELSE last
nearest_ancestor(leaf, new_leaf) ==
  Last({d \in Depth : Path[leaf][d] = Path[new_leaf][d]})

\* The first copy of the block leaves the stash.
remove_block(st, b) ==
  LET at == {i \in StashIndex : st[i] = b}
  IN IF at = {} THEN st ELSE [st EXCEPT ![First(at)] = Empty]

\* The free entries at or above height h.
Free(st, h) == {i \in 0..h : st[i] = Empty}

-----------------------------------------------------------------------------
\* access(): the asserts on the block number.
AccessOutOfRange(b) ==
  /\ aborted = "no"
  /\ access.phase = "idle"
  /\ b >= num_of_blocks
  /\ aborted' = "range"
  /\ UNCHANGED <<oram_tree, position_map, stash, access>>

\* A block above the leaves has no entry in position_map: it reads as 0, which
\* is no leaf.
AccessUnmapped(b) ==
  /\ aborted = "no"
  /\ access.phase = "idle"
  /\ b < num_of_blocks /\ b \notin Blocks
  /\ aborted' = "leaf"
  /\ UNCHANGED <<oram_tree, position_map, stash, access>>

AccessHit(b) ==
  /\ aborted = "no"
  /\ access.phase = "idle"
  /\ b \in Blocks
  /\ block_is_in_stash(b)
  /\ UNCHANGED vars

\* A miss: a random new leaf, the path to the old one into the stash, and the
\* block to the lowest free place that both paths share.
AccessMiss(b, new_leaf) ==
  /\ aborted = "no"
  /\ access.phase = "idle"
  /\ b \in Blocks
  /\ ~block_is_in_stash(b)
  /\ LET leaf  == position_map[b]
         st    == remove_block(load_path_to_stash(leaf), b)
         free  == Free(st, nearest_ancestor(leaf, new_leaf))
         found == free # {}
     IN /\ position_map' = [position_map EXCEPT ![b] = new_leaf]
        /\ stash' = IF found THEN [st EXCEPT ![Last(free)] = b] ELSE st
        /\ access' = [phase |-> "bring", bid |-> b, leaf |-> leaf, found |-> found,
                      sid |-> tree_height + 1]
  /\ UNCHANGED <<oram_tree, aborted>>

\* One iteration of "bring blocks from evicted blocks".  The entry the block
\* comes from keeps it.
BringEvicted ==
  /\ aborted = "no"
  /\ access.phase = "bring"
  /\ access.sid < stashsz
  /\ LET b    == stash[access.sid]
         free == Free(stash, tree_height - 1)
     IN stash' = IF b # Empty /\ position_map[b] = access.leaf /\ free # {}
                 THEN [stash EXCEPT ![First(free)] = b] ELSE stash
  /\ access' = [access EXCEPT !.sid = @ + 1]
  /\ UNCHANGED <<oram_tree, position_map, aborted>>

\* Mutant: the whole stash is cleared, the evicted blocks too.
cleared_all(st) == [i \in StashIndex |-> Empty]
cleared(st) == [i \in StashIndex |-> IF i \in Depth THEN Empty ELSE st[i]]

OnPath(n, leaf) == \E d \in Depth : Path[leaf][d] = n
DepthOf(n, leaf) == CHOOSE d \in Depth : Path[leaf][d] = n

\* The rest of stash_write_back: a block without a place stays in the stash,
\* and the path goes back to the tree.
WriteBack ==
  LET free == {i \in Evicted : stash[i] = Empty}
      overflow == ~access.found /\ Evicted # {} /\ free = {}
      st == IF ~access.found /\ free # {}
            THEN [stash EXCEPT ![First(free)] = access.bid] ELSE stash
  IN /\ aborted = "no"
     /\ access.phase = "bring"
     /\ access.sid = stashsz
     /\ IF overflow
          THEN /\ aborted' = "overflow"
               /\ UNCHANGED <<oram_tree, position_map, stash, access>>
          ELSE /\ oram_tree' = [n \in Nodes |->
                    IF OnPath(n, access.leaf) THEN st[DepthOf(n, access.leaf)]
                    ELSE oram_tree[n]]
               /\ stash' = cleared(st)
               /\ access' = Idle
               /\ UNCHANGED <<position_map, aborted>>

Next == \/ \E b \in Lines : \/ AccessOutOfRange(b) \/ AccessUnmapped(b) \/ AccessHit(b)
                            \/ \E l \in Leaves : AccessMiss(b, l)
        \/ BringEvicted
        \/ WriteBack

Spec == Init /\ [][Next]_vars

-----------------------------------------------------------------------------
InTree(b) == \E d \in Depth : oram_tree[Path[position_map[b]][d]] = b

\* The invariant a tree ORAM lives by: between two accesses every block is in
\* the stash or on the path to the leaf that position_map gives it, so that
\* the next access finds it.
BlockIsFound ==
  access.phase = "idle" => \A b \in Blocks : block_is_in_stash(b) \/ InTree(b)

\* "clear the stash on index 0..tree_height": what an access loads of the path
\* is back in the tree when it ends, and the next path overwrites nothing.
PathEntriesClear ==
  access.phase = "idle" => \A i \in Depth : stash[i] = Empty

\* A node never holds a block whose path does not lead through it.
NodesHoldOwnBlocks ==
  access.phase = "idle" =>
    \A n \in Nodes : oram_tree[n] # Empty => OnPath(n, position_map[oram_tree[n]])

\* While an access works on a path, the stash stands for the nodes of that path.
Kept(b) ==
  \/ \E i \in Evicted : stash[i] = b
  \/ \E d \in Depth : LET n == Path[position_map[b]][d]
                      IN IF n = Path[access.leaf][d] THEN stash[d] = b ELSE oram_tree[n] = b

\* The inductive invariant behind BlockIsFound: in the middle of an access
\* only the accessed block may be without a place, and only until WriteBack.
IndInv ==
  /\ TypeOK
  /\ PathEntriesClear
  /\ BlockIsFound
  /\ access.phase = "bring" =>
       \A b \in Blocks : Kept(b) \/ (b = access.bid /\ ~access.found)

\* What a node holds, or will when the access under way writes its path back.
Held(n) ==
  IF access.phase = "bring" /\ OnPath(n, access.leaf)
  THEN stash[DepthOf(n, access.leaf)] ELSE oram_tree[n]

IsEvicted(b) == \E i \in Evicted : stash[i] = b

\* The inductive invariant behind NodesHoldOwnBlocks: a block may be in several
\* nodes only while it is among the evicted too, where an access finds it
\* first and moves nothing; so a miss takes the only copy out of the tree
\* before it gives the block another leaf.
OwnInv ==
  /\ TypeOK
  /\ \A n \in Nodes : Held(n) # Empty => OnPath(n, position_map[Held(n)])
  /\ \A n, m \in Nodes :
       Held(n) = Held(m) /\ Held(n) # Empty /\ ~IsEvicted(Held(n)) => n = m
  /\ PathEntriesClear
  /\ access.phase = "bring" => access.sid > tree_height /\ ~IsEvicted(access.bid)
  /\ access.phase = "bring" /\ ~access.found => \A n \in Nodes : Held(n) # access.bid
=============================================================================
