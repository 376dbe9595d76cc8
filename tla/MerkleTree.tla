------------------------------ MODULE MerkleTree -----------------------------
(***************************************************************************)
(* ligesis-pcs/src/hash/mod.rs and deepfold/utils.rs: the Merkle trees that *)
(* all the commitment schemes use.                                         *)
(*                                                                         *)
(* Digests are terms: two of them are equal only when they are made in the *)
(* same way from the same elements, which is SHA-256 without collisions.   *)
(* A proof is a sequence.                                                  *)
(***************************************************************************)
EXTENDS Vectors

CONSTANTS
  Zero,               \* [0u8; 32], what missing leaves are
  LEAF_SIZE,          \* the most field elements a leaf covers (16)
  DEFAULT_LEAF_SIZE   \* the leaf size of MerkleTree::default (8)

ASSUME LeafSizeAssumption == {LEAF_SIZE, DEFAULT_LEAF_SIZE} \subseteq Nat \ {0}

HashPair(l, r) == [left |-> l, right |-> r]
HashRow(leaf)  == [row |-> leaf]

-----------------------------------------------------------------------------
(* Building a tree.                                                        *)

\* The least number of levels above the leaves that holds m of them.
Log2Up(m) == CHOOSE k \in 0..m : m =< 2^k /\ \A h \in 0..(k - 1) : 2^h < m

\* with_leaf_size: the leaves are padded to a power of two.
WithLeafSize(leaves, leafSize) ==
  LET n == Log2Up(Size(leaves)) + 1
      layer[i \in 0..(n - 1)] ==
        [j \in 0..(2^(n - 1 - i) - 1) |->
           IF i > 0 THEN HashPair(layer[i - 1][2 * j], layer[i - 1][2 * j + 1])
           ELSE IF j \in DOMAIN leaves THEN leaves[j] ELSE Zero]
  IN  [n |-> n, leaf_size |-> leafSize, digest_layers |-> layer]

\* MerkleTree::default, the placeholder for a tree that is elsewhere.
Default == [n |-> 0, leaf_size |-> DEFAULT_LEAF_SIZE, digest_layers |-> <<>>]

NumLeaves(t) == 2^(t.n - 1)
Root(t)      == t.digest_layers[t.n - 1][0]

\* get_leaf_elements: leaf i of a vector has the elements i, i + step, ...,
\* so that conjugate points, half a vector apart, are in the same leaf.
LeafElements(v, i, step, leafSize) == [j \in 0..(leafSize - 1) |-> v[i + j * step]]

LeafSizeOf(len) == IF LEAF_SIZE < len THEN LEAF_SIZE ELSE len

\* compute_leaf_hashes
LeafHashes(v) ==
  LET leafSize == LeafSizeOf(Size(v))
      step     == Size(v) \div leafSize
  IN  [i \in 0..(step - 1) |-> HashRow(LeafElements(v, i, step, leafSize))]

\* build_merkle_tree
BuildTree(v) == WithLeafSize(LeafHashes(v), LeafSizeOf(Size(v)))

-----------------------------------------------------------------------------
(* Opening and verifying.                                                  *)

\* j ^ 1
Sibling(j) == IF j % 2 = 0 THEN j + 1 ELSE j - 1

Prove(t, pos) ==
  [i \in 1..(t.n - 1) |-> t.digest_layers[i - 1][Sibling(pos \div 2^(i - 1))]]

VerifyPath(root, pos, val, proof) ==
  LET now[i \in 0..Len(proof)] ==
        IF i = 0 THEN val
        ELSE IF (pos \div 2^(i - 1)) % 2 = 0 THEN HashPair(now[i - 1], proof[i])
        ELSE HashPair(proof[i], now[i - 1])
  IN  root = now[Len(proof)]

Conjugate(n, x) == IF x >= n \div 2 THEN x - n \div 2 ELSE x + n \div 2

Opening(v, x, leaf, proof) ==
  [x |-> x, vals |-> <<v[x], v[Conjugate(Size(v), x)]>>, leaf |-> leaf, proof |-> proof]

OpenAt(t, v, x) ==
  LET step == Size(v) \div t.leaf_size
      x0   == x % step
  IN  Opening(v, x, LeafElements(v, x0, step, t.leaf_size), Prove(t, x0))

\* Faulty variant: the values are not compared with the leaf.
VerifyAt_PathOnly(root, n, x, vals, leaf, proof) ==
  /\ n >= Size(leaf)
  /\ VerifyPath(root, x % (n \div Size(leaf)), HashRow(leaf), proof)

\* A leaf longer than the vector fails an assertion: it is not accepted.
VerifyAt(root, n, x, vals, leaf, proof) ==
  /\ n >= Size(leaf)
  /\ LET step == n \div Size(leaf) IN
       /\ vals[1] = leaf[x \div step]
       /\ vals[2] = leaf[Conjugate(n, x) \div step]
       /\ VerifyPath(root, x % step, HashRow(leaf), proof)
=============================================================================
