---------------------------- MODULE Oram_proofs -----------------------------
(***************************************************************************)
(* The tree ORAM of Oram never loses a block, whatever the height of the   *)
(* tree and the number of lines, as long as the stash has an entry beyond  *)
(* the path (the inductive invariant is IndInv), and no node of it ever    *)
(* holds a block that position_map sends elsewhere (OwnInv).               *)
(***************************************************************************)
EXTENDS Oram, TLAPS, WellFoundedInduction

-----------------------------------------------------------------------------
\* A loop of oramsim.cc over the entries of the stash that meets a condition
\* stops at the first entry that does.
LEMMA LeastExists ==
  ASSUME NEW S, S \subseteq Nat, S # {}
  PROVE  \E x \in S : \A y \in S : x <= y
<1>1. PICK x \in S : \A y \in S : ~(<<y, x>> \in OpToRel(<, Nat))
  BY NatLessThanWellFounded, WFMin, Zenon
<1>2. OpToRel(<, Nat) = {ss \in Nat \X Nat : ss[1] < ss[2]}
  BY Zenon DEF OpToRel
<1>3. ASSUME NEW y \in S PROVE x <= y
  <2>1. ~(<<y, x>> \in {ss \in Nat \X Nat : ss[1] < ss[2]})
    BY <1>1, <1>2, Zenon
  <2>2. ~(y < x)
    BY <2>1, SMT
  <2>3. x \in Nat /\ y \in Nat
    OBVIOUS
  <2> QED BY <2>2, <2>3, SMT
<1> QED BY <1>3

\* First(S), where an upward loop stops, is in S.
LEMMA FirstIn ==
  ASSUME NEW S, S \subseteq Nat, S # {}
  PROVE  First(S) \in S
BY LeastExists, Zenon DEF First

\* Last(S), where a downward loop stops, is in S.
LEMMA LastIn ==
  ASSUME NEW h \in Nat, NEW S, S \subseteq 0..h, S # {}
  PROVE  Last(S) \in S
<1> DEFINE T == {h - i : i \in S}
<1>1. T \subseteq Nat
  <2>1. \A i \in S : i \in 0..h
    OBVIOUS
  <2>2. \A i \in 0..h : h - i \in Nat
    BY SMT
  <2> QED BY <2>1, <2>2, Zenon
<1>2. T # {}
  BY Zenon
<1>3. PICK x \in T : \A y \in T : x <= y
  <2> HIDE DEF T
  <2> QED BY <1>1, <1>2, LeastExists, Zenon
<1>4. PICK i \in S : x = h - i
  BY Zenon
<1>5. ASSUME NEW j \in S PROVE j <= i
  <2>1. h - j \in T
    BY Zenon
  <2>2. h - i <= h - j
    BY <2>1, <1>3, <1>4, Zenon
  <2>3. i \in 0..h /\ j \in 0..h
    OBVIOUS
  <2> QED BY <2>2, <2>3, SMT
<1> QED BY <1>5, Zenon DEF Last

-----------------------------------------------------------------------------
\* The paths to two leaves share every node down to their nearest ancestor.
LEMMA AncestorShared ==
  ASSUME NEW l \in Leaves, NEW m \in Leaves, NEW k \in 0..nearest_ancestor(l, m)
  PROVE  k \in Depth /\ Path[l][k] = Path[m][k]
<1> DEFINE C == {d \in Depth : Path[l][d] = Path[m][d]}
<1>1. 0 \in C /\ C \subseteq 0..tree_height
  BY SizeAssumption, PathAssumption DEF Depth
<1>2. nearest_ancestor(l, m) = Last(C)
  BY DEF nearest_ancestor
<1>3. Last(C) \in C
  <2> HIDE DEF C
  <2> QED BY <1>1, LastIn, SizeAssumption
<1>4. Last(C) \in Depth /\ Path[l][Last(C)] = Path[m][Last(C)]
  BY <1>3
<1>5. k \in Depth /\ k <= Last(C)
  BY <1>2, <1>4, SizeAssumption DEF Depth
<1> QED BY <1>4, <1>5, PathAssumption

\* The sizes as facts the provers can use without the definitions.
LEMMA Sizes ==
  /\ Depth \subseteq StashIndex
  /\ Evicted \subseteq StashIndex
  /\ \A i \in StashIndex : i \in Depth \/ i \in Evicted
  /\ \A i \in Evicted : i \notin Depth
  /\ StashIndex \subseteq Nat
  /\ Empty \notin Blocks
  /\ Empty \in Slot
  /\ Blocks \subseteq Slot
  /\ tree_leaves \in Leaves
  /\ 0 \in Blocks
  /\ tree_height + 1 \in 0..stashsz
  /\ Leaves \subseteq Nodes
BY SizeAssumption, SMT DEF Depth, StashIndex, Evicted, Empty, Blocks, Slot, Leaves, Nodes

\* The nodes that load_path_to_stash walks over are nodes of the tree.
LEMMA PathType ==
  ASSUME NEW l \in Leaves, NEW d \in Depth
  PROVE  Path[l][d] \in Nodes
BY PathAssumption

-----------------------------------------------------------------------------
\* init() maps every block into a leaf, and leaves the stash empty.
LEMMA InitInv == Init => IndInv
<1> SUFFICES ASSUME Init PROVE IndInv
  OBVIOUS
<1>1. oram_tree \in [Nodes -> Slot]
  <2>1. \A n \in Nodes : is_leaf(n) => n - tree_leaves \in Slot
    BY SizeAssumption, SMT DEF is_leaf, Slot, Blocks, Nodes
  <2> QED BY <2>1, Sizes DEF Init, block_of_leaf
<1>2. position_map \in [Blocks -> Leaves]
  <2>1. \A b \in Blocks : b + tree_leaves \in Leaves
    BY SizeAssumption, SMT DEF Blocks, Leaves
  <2> QED BY <2>1 DEF Init
<1>3. stash \in [StashIndex -> Slot]
  BY Sizes DEF Init
<1>4. access \in [phase : {"idle", "bring"}, bid : Blocks, leaf : Leaves,
                  found : BOOLEAN, sid : 0..stashsz]
  <2>1. 0 \in 0..stashsz
    BY SizeAssumption, SMT
  <2> QED BY <2>1, Sizes DEF Init, Idle
<1>5. access.phase = "idle" /\ aborted = "no"
  BY DEF Init, Idle
<1>6. PathEntriesClear
  BY Sizes DEF Init, PathEntriesClear
<1>7. ASSUME NEW b \in Blocks PROVE InTree(b)
  <2>1. b + tree_leaves \in Leaves /\ b + tree_leaves - tree_leaves = b
    BY SizeAssumption, SMT DEF Blocks, Leaves
  <2>2. tree_height \in Depth
    BY SizeAssumption, SMT DEF Depth
  <2>3. Path[position_map[b]][tree_height] = b + tree_leaves
    BY <2>1, PathAssumption DEF Init
  <2>4. oram_tree[b + tree_leaves] = b
    <3>1. b + tree_leaves \in Nodes /\ is_leaf(b + tree_leaves)
      BY <2>1, Sizes DEF is_leaf, Leaves
    <3>2. PICK n \in Nodes : n = b + tree_leaves
      BY <3>1, Zenon
    <3>3. oram_tree[n] = n - tree_leaves
      BY <3>1, <3>2 DEF Init, block_of_leaf
    <3>4. n - tree_leaves = b
      BY <3>2, SizeAssumption, SMT DEF Blocks
    <3> QED BY <3>2, <3>3, <3>4, Zenon
  <2> QED BY <2>2, <2>3, <2>4 DEF InTree
<1> QED BY <1>1, <1>2, <1>3, <1>4, <1>5, <1>6, <1>7 DEF IndInv, TypeOK, BlockIsFound

-----------------------------------------------------------------------------
\* Loading a path and taking the accessed block out leaves every other block
\* where Kept looks for it.
LEMMA LoadedType ==
  ASSUME TypeOK, NEW leaf \in Leaves, NEW b \in Blocks
  PROVE  /\ load_path_to_stash(leaf) \in [StashIndex -> Slot]
         /\ remove_block(load_path_to_stash(leaf), b) \in [StashIndex -> Slot]
         /\ \A i \in StashIndex : \A c \in Blocks :
              c # b /\ load_path_to_stash(leaf)[i] = c
                => remove_block(load_path_to_stash(leaf), b)[i] = c
<1> DEFINE st == load_path_to_stash(leaf)
           at == {i \in StashIndex : st[i] = b}
<1>1. st \in [StashIndex -> Slot]
  <2>1. \A i \in StashIndex : i \in Depth => oram_tree[Path[leaf][i]] \in Slot
    BY PathType DEF TypeOK
  <2> QED BY <2>1 DEF TypeOK, load_path_to_stash
<1> HIDE DEF st
<1>2. CASE at = {}
  <2>1. remove_block(st, b) = st
    BY <1>2 DEF remove_block
  <2> QED BY <1>1, <2>1 DEF st
<1>3. CASE at # {}
  <2>1. First(at) \in at
    <3>1. at \subseteq Nat
      BY Sizes
    <3> HIDE DEF at
    <3> QED BY <3>1, <1>3, FirstIn
  <2>2. remove_block(st, b) = [st EXCEPT ![First(at)] = Empty]
    BY <1>3 DEF remove_block
  <2> DEFINE f == First(at)
  <2>3. f \in StashIndex /\ st[f] = b
    BY <2>1
  <2> HIDE DEF f
  <2>4. remove_block(st, b) = [st EXCEPT ![f] = Empty]
    BY <2>2 DEF f
  <2> QED BY <1>1, <2>3, <2>4, Sizes DEF st
<1> QED BY <1>2, <1>3

\* The free entries that a block is put into are entries of the path.
LEMMA FreeLast ==
  ASSUME NEW st, NEW h \in Depth, Free(st, h) # {}
  PROVE  /\ Last(Free(st, h)) \in 0..h
         /\ Last(Free(st, h)) \in Depth
         /\ st[Last(Free(st, h))] = Empty
<1>1. Free(st, h) \subseteq 0..h /\ h \in Nat
  BY SizeAssumption DEF Free, Depth
<1>2. Last(Free(st, h)) \in Free(st, h)
  BY <1>1, LastIn
<1>3. 0..h \subseteq Depth
  BY SizeAssumption, SMT DEF Depth
<1> QED BY <1>2, <1>3 DEF Free

\* The entry that the loop over ssid fills is an empty entry of the path.
LEMMA FreeFirst ==
  ASSUME NEW st, Free(st, tree_height - 1) # {}
  PROVE  /\ First(Free(st, tree_height - 1)) \in Depth
         /\ st[First(Free(st, tree_height - 1))] = Empty
<1>1. Free(st, tree_height - 1) \subseteq Nat
  BY SizeAssumption, SMT DEF Free
<1>2. First(Free(st, tree_height - 1)) \in Free(st, tree_height - 1)
  BY <1>1, FirstIn
<1>3. 0..(tree_height - 1) \subseteq Depth
  BY SizeAssumption, SMT DEF Depth
<1> QED BY <1>2, <1>3 DEF Free

\* The nearest ancestor of two leaves is on their paths.
LEMMA AncestorDepth ==
  ASSUME NEW l \in Leaves, NEW m \in Leaves
  PROVE  nearest_ancestor(l, m) \in Depth
<1> DEFINE C == {d \in Depth : Path[l][d] = Path[m][d]}
<1>1. 0 \in C /\ C \subseteq 0..tree_height
  BY SizeAssumption, PathAssumption DEF Depth
<1>2. Last(C) \in C
  <2> HIDE DEF C
  <2> QED BY <1>1, LastIn, SizeAssumption
<1> QED BY <1>2 DEF nearest_ancestor

-----------------------------------------------------------------------------
\* access() on a miss, up to the point where the block has its new place.
LEMMA MissStep ==
  ASSUME IndInv, NEW b \in Nat, NEW new_leaf \in Leaves, AccessMiss(b, new_leaf)
  PROVE  IndInv'
<1> DEFINE leaf == position_map[b]
           ld == load_path_to_stash(leaf)
           st == remove_block(ld, b)
           h == nearest_ancestor(leaf, new_leaf)
           free == Free(st, h)
           k == Last(free)
<1>1. /\ b \in Blocks
      /\ leaf \in Leaves
      /\ TypeOK
  BY DEF AccessMiss, IndInv, TypeOK
<1>2. /\ ~block_is_in_stash(b)
      /\ access.phase = "idle"
      /\ position_map' = [position_map EXCEPT ![b] = new_leaf]
      /\ stash' = IF free # {} THEN [st EXCEPT ![k] = b] ELSE st
      /\ access' = [phase |-> "bring", bid |-> b, leaf |-> leaf, found |-> (free # {}),
                    sid |-> tree_height + 1]
      /\ UNCHANGED <<oram_tree, aborted>>
  BY DEF AccessMiss
<1>3. /\ st \in [StashIndex -> Slot]
      /\ \A i \in StashIndex : \A c \in Blocks : c # b /\ ld[i] = c => st[i] = c
  <2> HIDE DEF leaf
  <2> QED BY <1>1, LoadedType
<1>4. h \in Depth
  <2> HIDE DEF leaf
  <2> QED BY <1>1, AncestorDepth
<1>5. free # {} => k \in 0..h /\ k \in Depth /\ st[k] = Empty
  <2> HIDE DEF st, h
  <2> QED BY <1>4, FreeLast
<1>6. free # {} => k \in StashIndex /\ Path[leaf][k] = Path[new_leaf][k]
  <2> HIDE DEF k, free, leaf
  <2> QED BY <1>1, <1>5, AncestorShared, Sizes
<1>7. \A i \in StashIndex : ld[i] = IF i \in Depth THEN oram_tree[Path[leaf][i]] ELSE stash[i]
  BY DEF load_path_to_stash
<1> HIDE DEF leaf, ld, st, h, free, k
<1>8. stash' \in [StashIndex -> Slot]
  BY <1>1, <1>2, <1>3, <1>6, Sizes
<1>9. TypeOK'
  <2>1. position_map' \in [Blocks -> Leaves]
    BY <1>1, <1>2 DEF TypeOK
  <2>2. (free # {}) \in BOOLEAN
    BY Zenon
  <2>3. access' \in [phase : {"idle", "bring"}, bid : Blocks, leaf : Leaves,
                     found : BOOLEAN, sid : 0..stashsz]
    BY <1>1, <1>2, <2>2, Sizes
  <2> QED BY <1>1, <1>2, <1>8, <2>1, <2>3 DEF TypeOK
<1>10. access'.phase = "bring" /\ access'.bid = b /\ access'.leaf = leaf
  BY <1>2
<1>11. access'.found = (free # {})
  BY <1>2
<1>12. \A i \in StashIndex : \A c \in Blocks : c # b /\ ld[i] = c => stash'[i] = c
  BY <1>1, <1>2, <1>3, <1>5, <1>6, Sizes
<1>13. ASSUME NEW c \in Blocks, c # b PROVE Kept(c)'
  <2>1. position_map'[c] = position_map[c] /\ position_map[c] \in Leaves
    BY <1>1, <1>2, <1>13 DEF TypeOK
  <2>2. block_is_in_stash(c) \/ InTree(c)
    BY <1>2 DEF IndInv, BlockIsFound
  <2>3. CASE block_is_in_stash(c)
    <3>1. PICK i \in StashIndex : stash[i] = c
      BY <2>3 DEF block_is_in_stash
    <3>2. i \in Evicted
      BY <3>1, <1>2, Sizes DEF IndInv, PathEntriesClear
    <3>3. stash'[i] = c
      BY <3>1, <3>2, <1>7, <1>12, <1>13, Sizes
    <3> QED BY <3>2, <3>3 DEF Kept
  <2>4. CASE InTree(c)
    <3>1. PICK d \in Depth : oram_tree[Path[position_map[c]][d]] = c
      BY <2>4 DEF InTree
    <3>2. Path[position_map[c]][d] = Path[leaf][d] => stash'[d] = c
      BY <3>1, <1>7, <1>12, <1>13, Sizes
    <3>3. oram_tree'[Path[position_map'[c]][d]] = c
      BY <3>1, <2>1, <1>2
    <3> QED BY <3>2, <3>3, <2>1, <1>10 DEF Kept
  <2> QED BY <2>2, <2>3, <2>4
<1>14. ASSUME free # {} PROVE Kept(b)'
  <2>1. position_map'[b] = new_leaf
    BY <1>1, <1>2 DEF TypeOK
  <2>2. stash'[k] = b /\ k \in Depth
    BY <1>2, <1>3, <1>5, <1>6, <1>14
  <2> QED BY <2>1, <2>2, <1>6, <1>10, <1>14 DEF Kept
<1>15. \A c \in Blocks : Kept(c)' \/ (c = access'.bid /\ ~access'.found)
  BY <1>10, <1>11, <1>13, <1>14
<1>16. access'.phase # "idle"
  BY <1>10
<1> QED BY <1>9, <1>15, <1>16 DEF IndInv, PathEntriesClear, BlockIsFound

\* One iteration of the loop over the evicted blocks fills an empty entry at
\* most, so that no block is overwritten.
LEMMA BringStep ==
  ASSUME IndInv, BringEvicted
  PROVE  IndInv'
<1> DEFINE free == Free(stash, tree_height - 1)
           k == First(free)
           e == stash[access.sid]
<1>1. TypeOK /\ access.phase = "bring" /\ access.sid < stashsz
  BY DEF IndInv, BringEvicted
<1>2. /\ stash' = IF e # Empty /\ position_map[e] = access.leaf /\ free # {}
                  THEN [stash EXCEPT ![k] = e] ELSE stash
      /\ access' = [access EXCEPT !.sid = @ + 1]
      /\ UNCHANGED <<oram_tree, position_map, aborted>>
  BY DEF BringEvicted
<1>3. e \in Slot
  <2>1. access.sid \in StashIndex
    BY <1>1, SizeAssumption DEF TypeOK, StashIndex
  <2> QED BY <1>1, <2>1 DEF TypeOK
<1>4. free # {} => k \in Depth /\ k \in StashIndex /\ stash[k] = Empty
  BY FreeFirst, Sizes
<1> HIDE DEF free, k, e
<1>5. stash' \in [StashIndex -> Slot]
  BY <1>1, <1>2, <1>3, <1>4 DEF TypeOK
<1>6. \A i \in StashIndex : \A c \in Blocks : stash[i] = c => stash'[i] = c
  BY <1>1, <1>2, <1>4, Sizes DEF TypeOK
<1>7. /\ access'.phase = "bring" /\ access'.bid = access.bid
      /\ access'.leaf = access.leaf
      /\ access'.sid = access.sid + 1
  BY <1>1, <1>2 DEF TypeOK
<1>8. access'.found = access.found
  BY <1>1, <1>2 DEF TypeOK
<1>9. access' \in [phase : {"idle", "bring"}, bid : Blocks, leaf : Leaves,
                   found : BOOLEAN, sid : 0..stashsz]
  <2>1. access.sid + 1 \in 0..stashsz
    BY <1>1, SizeAssumption DEF TypeOK
  <2> QED BY <1>1, <1>2, <2>1 DEF TypeOK
<1>10. TypeOK'
  BY <1>1, <1>2, <1>5, <1>9 DEF TypeOK
<1>11. ASSUME NEW c \in Blocks, Kept(c) PROVE Kept(c)'
  BY <1>2, <1>6, <1>7, <1>11, Sizes DEF Kept
<1>12. \A c \in Blocks : Kept(c) \/ (c = access.bid /\ ~access.found)
  BY <1>1 DEF IndInv
<1>13. \A c \in Blocks : Kept(c)' \/ (c = access'.bid /\ ~access'.found)
  BY <1>7, <1>8, <1>11, <1>12
<1>14. access'.phase # "idle"
  BY <1>7
<1> QED BY <1>10, <1>13, <1>14 DEF IndInv, PathEntriesClear, BlockIsFound

\* The end of stash_write_back: the path goes back to the tree as the stash
\* holds it, and the accessed block has a place if the stash has an entry
\* beyond the path.
LEMMA WriteBackStep ==
  ASSUME stashsz > tree_height + 1, IndInv, WriteBack
  PROVE  IndInv'
<1> DEFINE free == {i \in Evicted : stash[i] = Empty}
           k == First(free)
           st == IF ~access.found /\ free # {}
                 THEN [stash EXCEPT ![k] = access.bid] ELSE stash
           overflow == ~access.found /\ Evicted # {} /\ free = {}
           leaf == access.leaf
<1>1. TypeOK /\ access.phase = "bring" /\ leaf \in Leaves /\ access.bid \in Blocks
  BY DEF IndInv, WriteBack, TypeOK
<1>2. \A c \in Blocks : Kept(c) \/ (c = access.bid /\ ~access.found)
  BY <1>1 DEF IndInv
<1>3. Evicted # {}
  <2>1. tree_height + 1 \in Evicted
    BY SizeAssumption, SMT DEF Evicted
  <2> QED BY <2>1
<1>4. CASE overflow
  <2>1. aborted' = "overflow" /\ UNCHANGED <<oram_tree, position_map, stash, access>>
    BY <1>4 DEF WriteBack
  <2>2. TypeOK'
    BY <1>1, <2>1 DEF TypeOK
  <2>3. \A c \in Blocks : Kept(c)' = Kept(c)
    BY <2>1 DEF Kept
  <2>4. access' = access /\ access'.phase # "idle"
    BY <1>1, <2>1
  <2> QED BY <1>2, <2>2, <2>3, <2>4 DEF IndInv, PathEntriesClear, BlockIsFound
<1>5. CASE ~overflow
  <2>1. /\ oram_tree' = [n \in Nodes |-> IF OnPath(n, leaf) THEN st[DepthOf(n, leaf)]
                                         ELSE oram_tree[n]]
        /\ stash' = cleared(st)
        /\ access' = Idle
        /\ UNCHANGED <<position_map, aborted>>
    BY <1>5 DEF WriteBack
  <2>2. free # {} => k \in Evicted /\ k \in StashIndex /\ stash[k] = Empty
    <3>1. free \subseteq Nat
      BY Sizes
    <3>2. free # {} => k \in free
      <4> HIDE DEF free
      <4> QED BY <3>1, FirstIn
    <3> QED BY <3>2, Sizes
  <2>3. ~access.found => free # {}
    BY <1>3, <1>5
  <2> HIDE DEF free, k, leaf, overflow
  <2>4. st \in [StashIndex -> Slot]
    BY <1>1, <2>2, Sizes DEF TypeOK
  <2>5. \A i \in StashIndex : \A c \in Blocks : stash[i] = c => st[i] = c
    BY <1>1, <2>2, Sizes DEF TypeOK
  <2>6. ~access.found => k \in Evicted /\ st[k] = access.bid
    BY <1>1, <2>2, <2>3 DEF TypeOK
  <2> HIDE DEF st
  <2>7. ASSUME NEW d \in Depth PROVE oram_tree'[Path[leaf][d]] = st[d]
    <3>1. Path[leaf][d] \in Nodes /\ OnPath(Path[leaf][d], leaf)
      BY <1>1, PathType DEF OnPath
    <3>2. DepthOf(Path[leaf][d], leaf) = d
      BY <1>1, PathAssumption DEF DepthOf
    <3> QED BY <2>1, <3>1, <3>2
  <2>8. ASSUME NEW n \in Nodes, ~OnPath(n, leaf) PROVE oram_tree'[n] = oram_tree[n]
    BY <2>1, <2>8
  <2>9. oram_tree' \in [Nodes -> Slot]
    <3>1. ASSUME NEW n \in Nodes, OnPath(n, leaf) PROVE st[DepthOf(n, leaf)] \in Slot
      <4>1. DepthOf(n, leaf) \in Depth
        BY <3>1 DEF OnPath, DepthOf
      <4> QED BY <4>1, <2>4, Sizes
    <3> QED BY <2>1, <3>1, <1>1 DEF TypeOK
  <2>10. stash' \in [StashIndex -> Slot]
    BY <2>1, <2>4, Sizes DEF cleared
  <2>11. access' \in [phase : {"idle", "bring"}, bid : Blocks, leaf : Leaves,
                      found : BOOLEAN, sid : 0..stashsz]
    <3>1. 0 \in 0..stashsz
      BY SizeAssumption, SMT
    <3> QED BY <2>1, <3>1, Sizes DEF Idle
  <2>12. TypeOK'
    BY <1>1, <2>1, <2>9, <2>10, <2>11 DEF TypeOK
  <2>13. access'.phase = "idle"
    BY <2>1 DEF Idle
  <2>14. PathEntriesClear'
    BY <2>1, Sizes DEF PathEntriesClear, cleared
  <2>15. \A i \in Evicted : stash'[i] = st[i]
    BY <2>1, Sizes DEF cleared
  <2>16. ASSUME NEW c \in Blocks PROVE block_is_in_stash(c)' \/ InTree(c)'
    <3>1. CASE \E i \in Evicted : st[i] = c
      BY <3>1, <2>15, Sizes DEF block_is_in_stash
    <3>2. CASE \E d \in Depth : LET n == Path[position_map[c]][d]
                                IN IF n = Path[leaf][d] THEN stash[d] = c
                                                        ELSE oram_tree[n] = c
      <4>1. PICK d \in Depth : IF Path[position_map[c]][d] = Path[leaf][d]
                               THEN stash[d] = c
                               ELSE oram_tree[Path[position_map[c]][d]] = c
        BY <3>2
      <4>2. position_map[c] \in Leaves /\ position_map' = position_map
        BY <1>1, <2>1 DEF TypeOK
      <4>3. CASE Path[position_map[c]][d] = Path[leaf][d]
        <5>1. st[d] = c
          BY <4>1, <4>3, <2>5, Sizes
        <5>2. oram_tree'[Path[position_map[c]][d]] = c
          BY <5>1, <4>3, <2>7
        <5> QED BY <4>2, <5>2 DEF InTree
      <4>4. CASE Path[position_map[c]][d] # Path[leaf][d]
        <5>1. ~OnPath(Path[position_map[c]][d], leaf)
          BY <1>1, <4>2, <4>4, PathAssumption DEF OnPath
        <5>2. Path[position_map[c]][d] \in Nodes
          BY <4>2, PathType
        <5>3. oram_tree'[Path[position_map[c]][d]] = c
          BY <4>1, <4>4, <5>1, <5>2, <2>8
        <5> QED BY <4>2, <5>3 DEF InTree
      <4> QED BY <4>3, <4>4
    <3>3. CASE c = access.bid /\ ~access.found
      BY <3>1, <3>3, <2>6
    <3>4. Kept(c) => \/ \E i \in Evicted : st[i] = c
                     \/ \E d \in Depth : LET n == Path[position_map[c]][d]
                                         IN IF n = Path[leaf][d] THEN stash[d] = c
                                                                 ELSE oram_tree[n] = c
      BY <2>5, Sizes DEF Kept, leaf
    <3> QED BY <1>2, <3>1, <3>2, <3>3, <3>4
  <2> QED BY <2>12, <2>13, <2>14, <2>16 DEF IndInv, BlockIsFound
<1> QED BY <1>4, <1>5

-----------------------------------------------------------------------------
\* Every step of the ORAM keeps the inductive invariant.
LEMMA NextInv ==
  ASSUME stashsz > tree_height + 1, IndInv, [Next]_vars
  PROVE  IndInv'
<1>1. ASSUME UNCHANGED <<oram_tree, position_map, stash, access>>,
             aborted' \in {"no", "range", "leaf", "overflow"}
      PROVE  IndInv'
  BY <1>1 DEF IndInv, TypeOK, PathEntriesClear, BlockIsFound, block_is_in_stash,
              InTree, Kept
<1>2. CASE UNCHANGED vars
  BY <1>1, <1>2 DEF vars, IndInv, TypeOK
<1>3. ASSUME NEW b \in Lines, AccessOutOfRange(b) PROVE IndInv'
  BY <1>1, <1>3 DEF AccessOutOfRange
<1>4. ASSUME NEW b \in Lines, AccessUnmapped(b) PROVE IndInv'
  BY <1>1, <1>4 DEF AccessUnmapped
<1>5. ASSUME NEW b \in Lines, AccessHit(b) PROVE IndInv'
  BY <1>2, <1>5 DEF AccessHit
<1>6. ASSUME NEW b \in Lines, NEW l \in Leaves, AccessMiss(b, l) PROVE IndInv'
  BY <1>6, MissStep, SizeAssumption
<1>7. CASE BringEvicted
  BY <1>7, BringStep
<1>8. CASE WriteBack
  BY <1>8, WriteBackStep
<1> QED BY <1>2, <1>3, <1>4, <1>5, <1>6, <1>7, <1>8 DEF Next

\* access() loses no block: with a stash entry beyond the path, every block is
\* in the stash or on its path whenever an access begins.
THEOREM NoBlockLost ==
  ASSUME stashsz > tree_height + 1
  PROVE  Spec => []BlockIsFound
<1>1. Init => IndInv
  BY InitInv
<1>2. IndInv /\ [Next]_vars => IndInv'
  BY NextInv
<1>3. IndInv => BlockIsFound
  BY DEF IndInv
<1> QED BY <1>1, <1>2, <1>3, PTL DEF Spec

\* The whole of IndInv, the types and the cleared path entries included, holds
\* in every state.
THEOREM InvariantHolds ==
  ASSUME stashsz > tree_height + 1
  PROVE  Spec => []IndInv
<1>1. Init => IndInv
  BY InitInv
<1>2. IndInv /\ [Next]_vars => IndInv'
  BY NextInv
<1> QED BY <1>1, <1>2, PTL DEF Spec
-----------------------------------------------------------------------------
\* A node of a path has one depth on it.
LEMMA DepthOnPath ==
  ASSUME NEW l \in Leaves, NEW n \in Nodes, OnPath(n, l)
  PROVE  DepthOf(n, l) \in Depth /\ Path[l][DepthOf(n, l)] = n
BY DEF OnPath, DepthOf

\* An entry of the path stands for one node.
LEMMA NodeOfDepth ==
  ASSUME NEW l \in Leaves, NEW d \in Depth
  PROVE  /\ Path[l][d] \in Nodes
         /\ OnPath(Path[l][d], l)
         /\ DepthOf(Path[l][d], l) = d
<1>1. Path[l][d] \in Nodes /\ OnPath(Path[l][d], l)
  BY PathType DEF OnPath
<1>2. DepthOf(Path[l][d], l) = d
  BY PathAssumption DEF DepthOf
<1> QED BY <1>1, <1>2

\* init() gives every leaf one block, and that block this leaf.
LEMMA InitOwn == Init => OwnInv
<1> SUFFICES ASSUME Init PROVE OwnInv
  OBVIOUS
<1>1. TypeOK /\ PathEntriesClear
  BY InitInv DEF IndInv
<1>2. access.phase = "idle"
  BY DEF Init, Idle
<1>3. \A n \in Nodes : Held(n) = oram_tree[n]
  BY <1>2 DEF Held
<1>4. ASSUME NEW n \in Nodes, oram_tree[n] # Empty
      PROVE  /\ oram_tree[n] = n - tree_leaves
             /\ n \in Leaves
             /\ OnPath(n, position_map[oram_tree[n]])
  <2>1. oram_tree[n] = n - tree_leaves /\ is_leaf(n)
    BY <1>4 DEF Init, block_of_leaf
  <2>2. n \in Leaves
    BY <2>1 DEF is_leaf, Leaves
  <2>3. n - tree_leaves \in Blocks /\ (n - tree_leaves) + tree_leaves = n
    BY <2>2, SizeAssumption, SMT DEF Leaves, Blocks
  <2>4. position_map[oram_tree[n]] = n
    BY <2>1, <2>3 DEF Init
  <2>5. tree_height \in Depth
    BY SizeAssumption, SMT DEF Depth
  <2> QED BY <2>1, <2>2, <2>4, <2>5, PathAssumption DEF OnPath
<1>5. ASSUME NEW n \in Nodes, NEW m \in Nodes,
             oram_tree[n] = oram_tree[m], oram_tree[n] # Empty
      PROVE  n = m
  <2>1. n - tree_leaves = m - tree_leaves
    BY <1>4, <1>5
  <2> QED BY <2>1, SizeAssumption, SMT DEF Nodes
<1> QED BY <1>1, <1>2, <1>3, <1>4, <1>5 DEF OwnInv

\* A miss takes the only copy of the block off its old path, and puts it where
\* the old path and the new one are still the same.
LEMMA MissOwn ==
  ASSUME OwnInv, NEW b \in Nat, NEW new_leaf \in Leaves, AccessMiss(b, new_leaf)
  PROVE  OwnInv'
<1> DEFINE leaf == position_map[b]
           ld == load_path_to_stash(leaf)
           at == {i \in StashIndex : ld[i] = b}
           st == remove_block(ld, b)
           h == nearest_ancestor(leaf, new_leaf)
           free == Free(st, h)
           k == Last(free)
<1>1. /\ b \in Blocks
      /\ leaf \in Leaves
      /\ TypeOK
  BY DEF AccessMiss, OwnInv, TypeOK
<1>2. /\ ~block_is_in_stash(b)
      /\ access.phase = "idle"
      /\ position_map' = [position_map EXCEPT ![b] = new_leaf]
      /\ stash' = IF free # {} THEN [st EXCEPT ![k] = b] ELSE st
      /\ access' = [phase |-> "bring", bid |-> b, leaf |-> leaf, found |-> (free # {}),
                    sid |-> tree_height + 1]
      /\ UNCHANGED <<oram_tree, aborted>>
  BY DEF AccessMiss
<1>3. st \in [StashIndex -> Slot] /\ ld \in [StashIndex -> Slot]
  <2> HIDE DEF leaf
  <2> QED BY <1>1, LoadedType
<1>4. h \in Depth
  <2> HIDE DEF leaf
  <2> QED BY <1>1, AncestorDepth
<1>5. free # {} => k \in 0..h /\ k \in Depth /\ st[k] = Empty
  <2> HIDE DEF st, h
  <2> QED BY <1>4, FreeLast
<1>6. free # {} => k \in StashIndex /\ Path[leaf][k] = Path[new_leaf][k]
  <2> HIDE DEF k, free, leaf
  <2> QED BY <1>1, <1>5, AncestorShared, Sizes
<1>7. \A i \in StashIndex : ld[i] = IF i \in Depth THEN oram_tree[Path[leaf][i]] ELSE stash[i]
  BY DEF load_path_to_stash
<1>8. at = {} => st = ld
  BY DEF remove_block
<1>9. at # {} => First(at) \in at /\ st = [ld EXCEPT ![First(at)] = Empty]
  <2>1. at \subseteq Nat
    BY Sizes
  <2>2. at # {} => First(at) \in at
    <3> HIDE DEF at
    <3> QED BY <2>1, FirstIn
  <2> QED BY <2>2 DEF remove_block
<1> HIDE DEF leaf, ld, st, h, free, k
<1>10. \A n \in Nodes : Held(n) = oram_tree[n]
  BY <1>2 DEF Held
<1>11. ~IsEvicted(b)
  BY <1>2, Sizes DEF IsEvicted, block_is_in_stash
<1>12. ASSUME NEW n \in Nodes, oram_tree[n] = b
       PROVE  OnPath(n, leaf) /\ \A m \in Nodes : oram_tree[m] = b => n = m
  <2>1. b # Empty
    BY <1>1, Sizes
  <2> QED BY <1>10, <1>11, <1>12, <2>1 DEF OwnInv, leaf
<1>13. ASSUME NEW i \in at, NEW j \in at PROVE i = j /\ i \in Depth
  <2>1. i \in StashIndex /\ j \in StashIndex /\ ld[i] = b /\ ld[j] = b
    OBVIOUS
  <2>2. i \in Depth /\ j \in Depth
    BY <2>1, <1>2, <1>7 DEF block_is_in_stash
  <2>3. oram_tree[Path[leaf][i]] = b /\ oram_tree[Path[leaf][j]] = b
    BY <2>1, <2>2, <1>7
  <2>4. Path[leaf][i] = Path[leaf][j]
    BY <2>2, <2>3, <1>1, <1>12, PathType
  <2> QED BY <2>2, <2>4, <1>1, PathAssumption
<1>14. \A i \in StashIndex : st[i] # b
  <2> SUFFICES ASSUME NEW i \in StashIndex, st[i] = b PROVE FALSE
    OBVIOUS
  <2>1. b # Empty
    BY <1>1, Sizes
  <2>2. ld[i] = b
    BY <1>3, <1>8, <1>9, <2>1
  <2>3. i \in at
    BY <2>2
  <2>4. First(at) \in at
    BY <1>9, <2>3
  <2>5. First(at) = i
    BY <2>3, <2>4, <1>13
  <2> QED BY <1>3, <1>9, <2>1, <2>3, <2>5
<1>15. \A i \in StashIndex : st[i] = ld[i] \/ (st[i] = Empty /\ i \in Depth)
  <2>1. CASE at = {}
    BY <1>8, <2>1
  <2>2. CASE at # {}
    <3>1. First(at) \in StashIndex /\ First(at) \in Depth
      BY <1>9, <1>13, <2>2
    <3> QED BY <1>3, <1>9, <2>2, <3>1
  <2> QED BY <2>1, <2>2
<1> HIDE DEF at
<1>16. /\ stash' \in [StashIndex -> Slot]
       /\ \A i \in StashIndex : \/ stash'[i] = st[i]
                                \/ free # {} /\ i = k /\ stash'[i] = b
  BY <1>1, <1>2, <1>3, <1>6, Sizes
<1>17. TypeOK'
  <2>1. position_map' \in [Blocks -> Leaves]
    BY <1>1, <1>2 DEF TypeOK
  <2>2. (free # {}) \in BOOLEAN
    BY Zenon
  <2>3. access' \in [phase : {"idle", "bring"}, bid : Blocks, leaf : Leaves,
                     found : BOOLEAN, sid : 0..stashsz]
    BY <1>1, <1>2, <2>2, Sizes
  <2> QED BY <1>1, <1>2, <1>16, <2>1, <2>3 DEF TypeOK
<1>18. /\ access'.phase = "bring" /\ access'.bid = b /\ access'.leaf = leaf
       /\ access'.sid = tree_height + 1
  BY <1>2
<1>19. access'.found = (free # {})
  BY <1>2
<1>20. ASSUME NEW i \in Evicted PROVE stash'[i] = stash[i]
  BY <1>5, <1>7, <1>15, <1>16, Sizes
<1>22. ASSUME NEW n \in Nodes
       PROVE  \/ Held(n)' = Empty
              \/ Held(n)' = oram_tree[n] /\ Held(n)' # b
              \/ Held(n)' = b /\ free # {} /\ n = Path[leaf][k]
  <2>1. CASE OnPath(n, leaf)
    <3> DEFINE d == DepthOf(n, leaf)
    <3>1. d \in Depth /\ Path[leaf][d] = n
      BY <1>1, <2>1, DepthOnPath
    <3> HIDE DEF d
    <3>2. Held(n)' = stash'[d]
      BY <1>18, <2>1 DEF Held, d
    <3>3. ld[d] = oram_tree[n] /\ d \in StashIndex
      BY <1>7, <3>1, Sizes
    <3> QED BY <3>1, <3>2, <3>3, <1>14, <1>15, <1>16
  <2>2. CASE ~OnPath(n, leaf)
    <3>1. Held(n)' = oram_tree[n]
      BY <1>2, <1>18, <2>2 DEF Held
    <3>2. oram_tree[n] # b
      BY <1>12, <2>2
    <3> QED BY <3>1, <3>2
  <2> QED BY <2>1, <2>2
<1>23. ASSUME NEW n \in Nodes, Held(n)' # Empty
       PROVE  OnPath(n, position_map'[Held(n)'])
  <2>1. CASE Held(n)' = oram_tree[n] /\ Held(n)' # b
    <3>1. oram_tree[n] \in Blocks
      BY <1>1, <1>23, <2>1 DEF TypeOK, Slot
    <3>2. position_map'[oram_tree[n]] = position_map[oram_tree[n]]
      BY <1>1, <1>2, <2>1, <3>1 DEF TypeOK
    <3>3. OnPath(n, position_map[oram_tree[n]])
      BY <1>10, <1>23, <2>1 DEF OwnInv
    <3> QED BY <2>1, <3>2, <3>3
  <2>2. CASE Held(n)' = b /\ free # {} /\ n = Path[leaf][k]
    <3>1. position_map'[b] = new_leaf
      BY <1>1, <1>2 DEF TypeOK
    <3>2. OnPath(n, new_leaf)
      BY <1>5, <1>6, <2>2 DEF OnPath
    <3> QED BY <2>2, <3>1, <3>2
  <2> QED BY <1>22, <1>23, <2>1, <2>2
<1>24. ASSUME NEW n \in Nodes, NEW m \in Nodes, Held(n)' = Held(m)',
              Held(n)' # Empty, ~IsEvicted(Held(n))'
       PROVE  n = m
  <2>1. CASE Held(n)' = b
    BY <1>22, <1>24, <2>1
  <2>2. CASE Held(n)' # b
    <3>1. Held(n)' = oram_tree[n] /\ Held(m)' = oram_tree[m]
      BY <1>22, <1>24, <2>2
    <3>2. IsEvicted(Held(n))' <=> IsEvicted(Held(n)')
      BY <1>20 DEF IsEvicted
    <3>3. ~IsEvicted(oram_tree[n])
      BY <1>24, <3>1, <3>2
    <3> QED BY <1>10, <1>24, <3>1, <3>3 DEF OwnInv
  <2> QED BY <2>1, <2>2
<1>25. ~IsEvicted(access.bid)'
  BY <1>11, <1>18, <1>20 DEF IsEvicted
<1>26. ~access'.found => \A n \in Nodes : Held(n)' # access'.bid
  <2>1. b # Empty
    BY <1>1, Sizes
  <2> QED BY <1>18, <1>19, <1>22, <2>1
<1>27. access'.phase # "idle" /\ access'.sid > tree_height
  BY <1>18, SizeAssumption
<1> QED BY <1>17, <1>23, <1>24, <1>25, <1>26, <1>27 DEF OwnInv, PathEntriesClear

\* One iteration of the loop over the evicted blocks copies a block that stays
\* among the evicted, to a node on that block's own path.
LEMMA BringOwn ==
  ASSUME OwnInv, BringEvicted
  PROVE  OwnInv'
<1> DEFINE free == Free(stash, tree_height - 1)
           k == First(free)
           e == stash[access.sid]
           copied == e # Empty /\ position_map[e] = access.leaf /\ free # {}
<1>1. /\ TypeOK /\ access.phase = "bring" /\ access.sid < stashsz
      /\ access.sid > tree_height /\ ~IsEvicted(access.bid)
  BY DEF OwnInv, BringEvicted
<1>2. /\ stash' = IF copied THEN [stash EXCEPT ![k] = e] ELSE stash
      /\ access' = [access EXCEPT !.sid = @ + 1]
      /\ UNCHANGED <<oram_tree, position_map, aborted>>
  BY DEF BringEvicted
<1>3. access.sid \in Evicted /\ access.sid \in StashIndex
  BY <1>1, SizeAssumption DEF TypeOK, StashIndex, Evicted
<1>4. e \in Slot /\ IsEvicted(e)
  BY <1>1, <1>3 DEF TypeOK, IsEvicted
<1>5. copied => k \in Depth /\ k \in StashIndex /\ stash[k] = Empty
  BY FreeFirst, Sizes
<1>6. copied => e # Empty /\ position_map[e] = access.leaf
  OBVIOUS
<1> HIDE DEF free, k, e, copied
<1>7. /\ stash' \in [StashIndex -> Slot]
      /\ \A i \in StashIndex : \/ stash'[i] = stash[i]
                               \/ copied /\ i = k /\ stash'[i] = e
  BY <1>1, <1>2, <1>4, <1>5 DEF TypeOK
<1>8. /\ access'.phase = "bring" /\ access'.bid = access.bid
      /\ access'.leaf = access.leaf
      /\ access'.sid = access.sid + 1
  BY <1>1, <1>2 DEF TypeOK
<1>9. access'.found = access.found
  BY <1>1, <1>2 DEF TypeOK
<1>10. access' \in [phase : {"idle", "bring"}, bid : Blocks, leaf : Leaves,
                    found : BOOLEAN, sid : 0..stashsz]
  <2>1. access.sid + 1 \in 0..stashsz
    BY <1>1, SizeAssumption DEF TypeOK
  <2> QED BY <1>1, <1>2, <2>1 DEF TypeOK
<1>11. TypeOK'
  BY <1>1, <1>2, <1>7, <1>10 DEF TypeOK
<1>12. ASSUME NEW i \in Evicted PROVE stash'[i] = stash[i]
  BY <1>5, <1>7, Sizes
<1>13. access.leaf \in Leaves
  BY <1>1 DEF TypeOK
<1>14. ASSUME NEW n \in Nodes
       PROVE  \/ Held(n)' = Held(n)
              \/ Held(n)' = e /\ copied /\ OnPath(n, access.leaf)
  <2>1. CASE OnPath(n, access.leaf)
    <3>1. DepthOf(n, access.leaf) \in StashIndex
      BY <1>13, <2>1, DepthOnPath, Sizes
    <3>2. /\ Held(n) = stash[DepthOf(n, access.leaf)]
          /\ Held(n)' = stash'[DepthOf(n, access.leaf)]
      BY <1>1, <1>8, <2>1 DEF Held
    <3> QED BY <1>7, <2>1, <3>1, <3>2
  <2>2. CASE ~OnPath(n, access.leaf)
    BY <1>2, <1>8, <2>2 DEF Held
  <2> QED BY <2>1, <2>2
<1>15. ASSUME NEW n \in Nodes, Held(n)' # Empty
       PROVE  OnPath(n, position_map'[Held(n)'])
  <2>1. CASE Held(n)' = Held(n)
    BY <1>2, <1>15, <2>1 DEF OwnInv
  <2>2. CASE Held(n)' = e /\ copied /\ OnPath(n, access.leaf)
    BY <1>2, <1>6, <2>2
  <2> QED BY <1>14, <2>1, <2>2
<1>16. ASSUME NEW n \in Nodes, NEW m \in Nodes, Held(n)' = Held(m)',
              Held(n)' # Empty, ~IsEvicted(Held(n))'
       PROVE  n = m
  <2>1. ~IsEvicted(Held(n)')
    BY <1>12, <1>16 DEF IsEvicted
  <2>2. Held(n)' = Held(n) /\ Held(m)' = Held(m)
    BY <1>4, <1>14, <1>16, <2>1
  <2> QED BY <1>16, <2>1, <2>2 DEF OwnInv
<1>17. ~IsEvicted(access.bid)'
  BY <1>1, <1>8, <1>12 DEF IsEvicted
<1>18. ~access'.found => \A n \in Nodes : Held(n)' # access'.bid
  BY <1>1, <1>4, <1>8, <1>9, <1>14 DEF OwnInv
<1>19. access'.phase # "idle" /\ access'.sid > tree_height
  BY <1>1, <1>8, SizeAssumption DEF TypeOK
<1> QED BY <1>11, <1>15, <1>16, <1>17, <1>18, <1>19 DEF OwnInv, PathEntriesClear

\* Writing the path back puts into every node what Held said it holds.
LEMMA WriteBackOwn ==
  ASSUME OwnInv, WriteBack
  PROVE  OwnInv'
<1> DEFINE free == {i \in Evicted : stash[i] = Empty}
           k == First(free)
           st == IF ~access.found /\ free # {}
                 THEN [stash EXCEPT ![k] = access.bid] ELSE stash
           overflow == ~access.found /\ Evicted # {} /\ free = {}
           leaf == access.leaf
<1>1. TypeOK /\ access.phase = "bring" /\ leaf \in Leaves /\ access.bid \in Blocks
  BY DEF OwnInv, WriteBack, TypeOK
<1>2. CASE overflow
  <2>1. aborted' = "overflow" /\ UNCHANGED <<oram_tree, position_map, stash, access>>
    BY <1>2 DEF WriteBack
  <2> QED BY <2>1 DEF OwnInv, TypeOK, Held, IsEvicted, PathEntriesClear
<1>3. CASE ~overflow
  <2>1. /\ oram_tree' = [n \in Nodes |-> IF OnPath(n, leaf) THEN st[DepthOf(n, leaf)]
                                         ELSE oram_tree[n]]
        /\ stash' = cleared(st)
        /\ access' = Idle
        /\ UNCHANGED <<position_map, aborted>>
    BY <1>3 DEF WriteBack
  <2>2. free # {} => k \in Evicted /\ k \in StashIndex /\ stash[k] = Empty
    <3>1. free \subseteq Nat
      BY Sizes
    <3>2. free # {} => k \in free
      <4> HIDE DEF free
      <4> QED BY <3>1, FirstIn
    <3> QED BY <3>2, Sizes
  <2> HIDE DEF free, k, leaf, overflow
  <2>3. st \in [StashIndex -> Slot]
    BY <1>1, <2>2, Sizes DEF TypeOK
  <2>4. \A d \in Depth : st[d] = stash[d]
    BY <1>1, <2>2, Sizes DEF TypeOK
  <2>5. \A i \in Evicted : stash[i] # Empty => st[i] = stash[i]
    BY <1>1, <2>2, Sizes DEF TypeOK
  <2> HIDE DEF st
  <2>6. access'.phase = "idle"
    BY <2>1 DEF Idle
  <2>7. ASSUME NEW n \in Nodes PROVE oram_tree'[n] = Held(n) /\ Held(n)' = Held(n)
    <3>1. Held(n)' = oram_tree'[n]
      BY <2>6 DEF Held
    <3>2. CASE OnPath(n, leaf)
      <4>1. DepthOf(n, leaf) \in Depth
        BY <1>1, <3>2, DepthOnPath
      <4>2. oram_tree'[n] = st[DepthOf(n, leaf)]
        BY <2>1, <3>2
      <4>3. Held(n) = stash[DepthOf(n, leaf)]
        BY <1>1, <3>2 DEF Held, leaf
      <4> QED BY <2>4, <3>1, <4>1, <4>2, <4>3
    <3>3. CASE ~OnPath(n, leaf)
      <4>1. oram_tree'[n] = oram_tree[n]
        BY <2>1, <3>3
      <4>2. Held(n) = oram_tree[n]
        BY <3>3 DEF Held, leaf
      <4> QED BY <3>1, <4>1, <4>2
    <3> QED BY <3>2, <3>3
  <2>8. ASSUME NEW n \in Nodes PROVE Held(n) \in Slot
    <3>1. OnPath(n, leaf) => DepthOf(n, leaf) \in StashIndex
      BY <1>1, DepthOnPath, Sizes
    <3> QED BY <1>1, <3>1 DEF Held, TypeOK, leaf
  <2>9. TypeOK'
    <3>1. oram_tree' \in [Nodes -> Slot]
      BY <2>1, <2>7, <2>8
    <3>2. stash' \in [StashIndex -> Slot]
      BY <2>1, <2>3, Sizes DEF cleared
    <3>3. access' \in [phase : {"idle", "bring"}, bid : Blocks, leaf : Leaves,
                       found : BOOLEAN, sid : 0..stashsz]
      <4>1. 0 \in 0..stashsz
        BY SizeAssumption, SMT
      <4> QED BY <2>1, <4>1, Sizes DEF Idle
    <3> QED BY <1>1, <2>1, <3>1, <3>2, <3>3 DEF TypeOK
  <2>10. PathEntriesClear'
    BY <2>1, Sizes DEF PathEntriesClear, cleared
  <2>11. ASSUME NEW i \in Evicted, stash[i] # Empty PROVE stash'[i] = stash[i]
    BY <2>1, <2>5, <2>11, Sizes DEF cleared
  <2>12. ASSUME NEW n \in Nodes, Held(n)' # Empty
         PROVE  OnPath(n, position_map'[Held(n)'])
    BY <2>1, <2>7, <2>12 DEF OwnInv
  <2>13. ASSUME NEW n \in Nodes, NEW m \in Nodes, Held(n)' = Held(m)',
                Held(n)' # Empty, ~IsEvicted(Held(n))'
         PROVE  n = m
    <3>1. ~IsEvicted(Held(n)')
      BY <2>7, <2>11, <2>13 DEF IsEvicted
    <3> QED BY <2>7, <2>13, <3>1 DEF OwnInv
  <2> QED BY <2>6, <2>9, <2>10, <2>12, <2>13 DEF OwnInv
<1> QED BY <1>2, <1>3

\* Every step of the ORAM keeps OwnInv, whatever the size of the stash.
LEMMA NextOwn ==
  ASSUME OwnInv, [Next]_vars
  PROVE  OwnInv'
<1>1. ASSUME UNCHANGED <<oram_tree, position_map, stash, access>>,
             aborted' \in {"no", "range", "leaf", "overflow"}
      PROVE  OwnInv'
  BY <1>1 DEF OwnInv, TypeOK, PathEntriesClear, Held, IsEvicted
<1>2. CASE UNCHANGED vars
  BY <1>1, <1>2 DEF vars, OwnInv, TypeOK
<1>3. ASSUME NEW b \in Lines, AccessOutOfRange(b) PROVE OwnInv'
  BY <1>1, <1>3 DEF AccessOutOfRange
<1>4. ASSUME NEW b \in Lines, AccessUnmapped(b) PROVE OwnInv'
  BY <1>1, <1>4 DEF AccessUnmapped
<1>5. ASSUME NEW b \in Lines, AccessHit(b) PROVE OwnInv'
  BY <1>2, <1>5 DEF AccessHit
<1>6. ASSUME NEW b \in Lines, NEW l \in Leaves, AccessMiss(b, l) PROVE OwnInv'
  BY <1>6, MissOwn, SizeAssumption
<1>7. CASE BringEvicted
  BY <1>7, BringOwn
<1>8. CASE WriteBack
  BY <1>8, WriteBackOwn
<1> QED BY <1>2, <1>3, <1>4, <1>5, <1>6, <1>7, <1>8 DEF Next

\* No node of the tree ever holds a block that position_map sends elsewhere:
\* the copies that "bring blocks from evicted blocks" leaves behind and the
\* new leaf that every miss draws put none astray, for any tree and any stash.
THEOREM OwnBlocks == Spec => []NodesHoldOwnBlocks
<1>1. Init => OwnInv
  BY InitOwn
<1>2. OwnInv /\ [Next]_vars => OwnInv'
  BY NextOwn
<1>3. OwnInv => NodesHoldOwnBlocks
  <2>1. access.phase = "idle" => \A n \in Nodes : Held(n) = oram_tree[n]
    BY DEF Held
  <2> QED BY <2>1 DEF OwnInv, NodesHoldOwnBlocks
<1> QED BY <1>1, <1>2, <1>3, PTL DEF Spec
=============================================================================
