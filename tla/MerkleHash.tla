----------------------------- MODULE MerkleHash -----------------------------
(***************************************************************************)
(* The hash algebra of common/append_merkle (merkle_tree.rs): leaf and     *)
(* parent hashing, the null sentinel and the per-height zero-hash table.   *)
(*                                                                         *)
(* Hashes are symbolic and collision free: a leaf hash is the one-element  *)
(* sequence of its entry, a parent the pair of its children.  Two hashes   *)
(* are equal exactly when they hash the same tree of entries, which is     *)
(* the assumption the code makes of SHA3.                                  *)
(***************************************************************************)
EXTENDS Naturals, Sequences

CONSTANTS
  NULL,       \* H256::repeat_byte(1): a node whose value is not known yet
  ZeroEntry,  \* the ENTRY_SIZE block of zero bytes used for padding
  MaxHeight   \* number of precomputed zero hashes (64 in the code)

ASSUME MaxHeight \in Nat

\* Sha3Algorithm::leaf(data)
Leaf(e) == <<e>>

\* Algorithm::parent(left, right)
Parent(l, r) == <<l, r>>

\* ZERO_HASHES: the root of an all-zero subtree of each height.
ZERO_HASHES[h \in 0..MaxHeight] ==
  IF h = 0 THEN Leaf(ZeroEntry)
  ELSE Parent(ZERO_HASHES[h - 1], ZERO_HASHES[h - 1])

\* HashElement::end_pad(height)
EndPad(h) == ZERO_HASHES[h]

\* Algorithm::parent_single: a right-most node without a sibling is paired
\* with the zero subtree of its height.
ParentSingle(r, h) == Parent(r, EndPad(h))

(***************************************************************************)
(* Reference definition: node (h, i) of the perfect tree over the leaf     *)
(* hashes T whose leaves are at height lh of the whole flow tree, every    *)
(* position past Len(T) holding a zero entry.  This is what every non-null *)
(* node the code keeps must equal.                                         *)
(***************************************************************************)
RECURSIVE RefNode(_, _, _, _)
RefNode(T, lh, h, i) ==
  IF i * 2^h >= Len(T) THEN EndPad(h + lh)
  ELSE IF h = 0 THEN T[i + 1]
  ELSE Parent(RefNode(T, lh, h - 1, 2 * i), RefNode(T, lh, h - 1, 2 * i + 1))

\* Root of a perfect subtree of depth d over the 2^(d-1) leaves T.
SubtreeRoot(T, lh, d) == RefNode(T, lh, d - 1, 0)
=============================================================================
