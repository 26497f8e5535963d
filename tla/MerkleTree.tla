----------------------------- MODULE MerkleTree -----------------------------
(***************************************************************************)
(* Trees, tree heads and proofs.  A log's tree is the sequence of its      *)
(* leaves.  A tree head (size and root hash) is represented by the leaf    *)
(* sequence it commits to: the hash is collision free, so two heads are    *)
(* equal exactly when they commit to the same leaves, and the size of a    *)
(* head is the length of the sequence.  The hashing itself belongs to the  *)
(* library sigsum-go and is not part of this repository.                   *)
(***************************************************************************)
EXTENDS Integers, Sequences, FiniteSets

CONSTANT Leaf           \* the leaves that clients may submit

TreeHead == Seq(Leaf)

\* Tree t extends tree s.  (The definition in SequencesExt compares
\* subsequences; leaf by leaf is what the proofs need.)
IsPrefix(s, t) == Len(s) <= Len(t) /\ \A i \in 1..Len(s) : s[i] = t[i]

\* The tree as it was when it had n leaves.
TreeAt(tree, n) == SubSeq(tree, 1, n)

\* Leaf l is one of the first n leaves of the tree.
IncludedAt(tree, n, l) == \E i \in 1..n : tree[i] = l

(***************************************************************************)
(* GetConsistencyProof(old.Size, new.Size) answered by a backend that      *)
(* holds tree, followed by proof.Verify(old, new).  The two trivial cases  *)
(* never reach the backend: with an empty path anything extends the empty  *)
(* tree, and heads of equal size must be equal.  Otherwise the path comes  *)
(* from the backend's own tree and verifies only for heads of that tree.   *)
(***************************************************************************)
ConsistencyVerified(tree, old, new) ==
  \/ Len(old) = 0
  \/ Len(old) = Len(new) /\ old = new
  \/ /\ Len(new) <= Len(tree)
     /\ old = TreeAt(tree, Len(old))
     /\ new = TreeAt(tree, Len(new))
=============================================================================
