---------------------------- MODULE MerkleInputs -----------------------------
(* The tree of Merkle over every pair of small batches of one length, built    *)
(* leaf by leaf.                                                              *)
EXTENDS Merkle
CONSTANT MaxLeaves
VARIABLES batch, other
Init == batch = <<>> /\ other = <<>>
Next == /\ Len(batch) < MaxLeaves
        /\ \E x, y \in 0..1 : batch' = Append(batch, x) /\ other' = Append(other, y)

\* Every leaf's proof verifies, and whatever index, size and payload a proof's
\* path is presented with, it is accepted for no payload but the leaf's own,
\* and under the tree's own size for no index that holds another payload.
InclusionSound ==
    LET tree == BuildMerkleTree(batch)
    IN  \A i \in 0..Len(batch) - 1 :
            LET proof == GenerateInclusionProof(tree, i)
            IN  /\ VerifyInclusion(MerkleLeafHash(batch[i + 1]), proof, tree.hash)
                /\ \A p \in 0..1, n \in 1..Len(batch) + 1 : \A j \in 0..n - 1 :
                      VerifyInclusion(MerkleLeafHash(p), [proof EXCEPT !.leafIndex = j, !.treeSize = n],
                                      tree.hash)
                      => p = batch[i + 1] /\ (n = Len(batch) => batch[j + 1] = p)

\* Two batches of one size have the same root only when they are the same, and
\* the walk finds exactly the positions where they differ, in order.
LocatesExactly ==
    LET a == BuildMerkleTree(batch)
        b == BuildMerkleTree(other)
        differ == SelectSeq([k \in DOMAIN batch |-> k], LAMBDA k : batch[k] # other[k])
    IN  LocateMismatches(a, b) = [k \in DOMAIN differ |-> differ[k] - 1]

\* Proofs and comparisons of trees agree with their reference definitions.
MerkleExact == InclusionSound /\ LocatesExactly
=============================================================================
