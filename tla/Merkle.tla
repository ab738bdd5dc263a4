------------------------------- MODULE Merkle -------------------------------
(***************************************************************************)
(* core/merkle.go: the RFC 6962 tree over a batch, its inclusion proofs    *)
(* and the comparison of two trees.  A hash is the value it is taken of,   *)
(* with the prefix that keeps leaves and nodes apart, so no two hashes     *)
(* collide.  A tree is a record with its cached hash, as merkleNode.       *)
(***************************************************************************)
EXTENDS Integers, Sequences, SequencesExt

EmptyMerkleRoot == <<>>
MerkleLeafHash(payload) == <<0, payload>>
MerkleNodeHash(left, right) == <<1, left, right>>

\* The largest power of two below n > 1.
LargestPowerOfTwoLessThan(n) == CHOOSE k \in {2^e : e \in 0..n} : k < n /\ n <= 2 * k

Leaf(hash) == [hash |-> hash, left |-> <<>>, right |-> <<>>, leafCount |-> 1]

RECURSIVE BuildMTH(_)
BuildMTH(nodes) ==
    IF Len(nodes) = 1 THEN nodes[1]
    ELSE LET k == LargestPowerOfTwoLessThan(Len(nodes))
             left == BuildMTH(SubSeq(nodes, 1, k))
             right == BuildMTH(SubSeq(nodes, k + 1, Len(nodes)))
         IN  [hash |-> MerkleNodeHash(left.hash, right.hash), left |-> left, right |-> right,
              leafCount |-> left.leafCount + right.leafCount]

BuildMerkleTreeFromLeafHashes(hashes) ==
    IF hashes = <<>> THEN [Leaf(EmptyMerkleRoot) EXCEPT !.leafCount = 0]
    ELSE BuildMTH([i \in DOMAIN hashes |-> Leaf(hashes[i])])

BuildMerkleTree(payloads) ==
    BuildMerkleTreeFromLeafHashes([i \in DOMAIN payloads |-> MerkleLeafHash(payloads[i])])

\* The siblings met on the way down, each put in front of the ones before.
RECURSIVE Descend(_, _, _)
Descend(node, i, path) ==
    IF node.leafCount = 1 THEN path
    ELSE IF i < node.left.leafCount
         THEN Descend(node.left, i, <<node.right.hash>> \o path)
         ELSE Descend(node.right, i - node.left.leafCount, <<node.left.hash>> \o path)

\* Indices count from 0, as in the code.
GenerateInclusionProof(tree, index) ==
    [leafIndex |-> index, treeSize |-> tree.leafCount, path |-> Descend(tree, index, <<>>)]

\* TRUE for left, FALSE for right, from the root down.
RECURSIVE ComputeMerkleDirections(_, _)
ComputeMerkleDirections(index, size) ==
    IF size <= 1 THEN <<>>
    ELSE LET k == LargestPowerOfTwoLessThan(size)
         IN  IF index < k THEN <<TRUE>> \o ComputeMerkleDirections(index, k)
             ELSE <<FALSE>> \o ComputeMerkleDirections(index - k, size - k)

\* The path runs from the leaf to the root, the directions from the root to
\* the leaf: path[i] belongs to the i-th direction from the end.
VerifyInclusion(leafHash, proof, root) ==
    /\ proof.leafIndex \in 0..proof.treeSize - 1
    /\ LET dirs == Reverse(ComputeMerkleDirections(proof.leafIndex, proof.treeSize))
           Up(i, acc) == IF dirs[i] THEN MerkleNodeHash(acc, proof.path[i])
                         ELSE MerkleNodeHash(proof.path[i], acc)
       IN  /\ Len(dirs) = Len(proof.path)
           /\ root = FoldLeftDomain(LAMBDA acc, i : Up(i, acc), leafHash, dirs)

\* Only subtrees whose cached hashes differ are entered.
RECURSIVE Walk(_, _, _)
Walk(ref, act, offset) ==
    IF ref.hash = act.hash THEN <<>>
    ELSE IF ref.leafCount = 1 THEN <<offset>>
    ELSE Walk(ref.left, act.left, offset) \o Walk(ref.right, act.right, offset + ref.left.leafCount)

\* Fault: the offset of the right half is the number of leaves to its right.
RECURSIVE WalkOff(_, _, _)
WalkOff(ref, act, offset) ==
    IF ref.hash = act.hash THEN <<>>
    ELSE IF ref.leafCount = 1 THEN <<offset>>
    ELSE WalkOff(ref.left, act.left, offset) \o WalkOff(ref.right, act.right, offset + ref.right.leafCount)

\* Fault: the walk is that of WalkOff.
LocateWithOff(reference, actual) == WalkOff(reference, actual, 0)

\* The indices, ascending, at which two trees of equal size differ.
LocateMismatches(reference, actual) == Walk(reference, actual, 0)
=============================================================================
