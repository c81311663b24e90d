----------------------------- MODULE MerkleTree -----------------------------
(***************************************************************************)
(* The Merkle trees of src/src/bitcoin/merkle.cpp.  The hash of two nodes   *)
(* is the pair of them, for all that matters is that different nodes have   *)
(* different hashes; a leaf is a sequence of one element.                   *)
(***************************************************************************)
EXTENDS Powers, Sequences, SequencesExt

Hash(a, b) == <<a, b>>

(* A level of odd size repeats its last node; nodes are hashed in pairs.    *)
Evened(level) ==
    IF Len(level) % 2 # 0 THEN Append(level, Last(level)) ELSE level
Paired(level) ==
    LET even == Evened(level)
    IN  [i \in 1 .. Len(even) \div 2 |-> Hash(even[2 * i - 1], even[2 * i])]

(* The levels from the leaves up to the root, as the loop goes over them.   *)
Levels(leaves) ==
    LET level[n \in 0 .. Len(leaves)] ==
          IF n = 0 THEN leaves
          ELSE LET last == level[n - 1]
               IN  IF Len(last) > 1 THEN Paired(last) ELSE last
    IN  level

(* merkleRootFromLeaves(), of one leaf at least.                            *)
MerkleRootFromLeaves(leaves) == Levels(leaves)[Len(leaves)][1]

(* merkleBranchForCoinbase(): node 1 has the sibling 2 on every level.      *)
MerkleBranchForCoinbase(leaves) ==
    LET levels == Levels(leaves)
        below  == {n \in DOMAIN levels : Len(levels[n]) > 1}
    IN  [n \in 1 .. Cardinality(below) |-> Evened(levels[n - 1])[2]]

(* merkleRootFromBranch()                                                   *)
MerkleRootFromBranch(coinbaseHash, branch) ==
    LET acc[n \in 0 .. Len(branch)] ==
          IF n = 0 THEN coinbaseHash ELSE Hash(acc[n - 1], branch[n])
    IN  acc[Len(branch)]

-----------------------------------------------------------------------------
(* The tree by its definition: a node has the nodes below it, or the last   *)
(* one of that level in place of one that is not there.                     *)
LevelSize(leaves, height) == (Len(leaves) + Pow2[height] - 1) \div Pow2[height]
Node(leaves, top) ==
    LET node[height \in 0 .. top] ==
          IF height = 0 THEN leaves
          ELSE [i \in 1 .. LevelSize(leaves, height) |->
                  LET last == LevelSize(leaves, height - 1)
                  IN  Hash(node[height - 1][2 * i - 1],
                           node[height - 1][IF 2 * i > last THEN last ELSE 2 * i])]
    IN  node[top][1]
Height(leaves) == CHOOSE h \in 0 .. Len(leaves) :
                    Pow2[h] >= Len(leaves) /\ (h = 0 \/ Pow2[h - 1] < Len(leaves))

(* The root is that of the tree, and what a miner computes from its coinbase *)
(* and the branch alone is the same root.                                   *)
BranchGivesRoot(leaves) ==
    LET root == MerkleRootFromLeaves(leaves)
    IN  /\ root = Node(leaves, Height(leaves))
        /\ MerkleRootFromBranch(leaves[1], MerkleBranchForCoinbase(leaves)) = root
=============================================================================
