---------------------------- MODULE AppendMerkle ----------------------------
(***************************************************************************)
(* One AppendMerkleTree (common/append_merkle/src/lib.rs) driven through   *)
(* its public methods by a client that behaves like the log manager:       *)
(* leaves and subtree roots it appends are the true hashes of its data,    *)
(* fill_leaf supplies the true leaf, commits use increasing tx_seq, and a  *)
(* revert to s is followed by commits from s+1.                            *)
(*                                                                         *)
(* Ghost state records what the tree stands for:                           *)
(*   truth   : the true hash of every leaf position, known or not          *)
(*   history : for every live commit tx_seq, the truth at that commit      *)
(*   single  : the leaf positions appended on their own, not inside a      *)
(*             subtree of several leaves                                   *)
(***************************************************************************)
EXTENDS MerkleTree

CONSTANTS
  Vals,             \* leaf hashes a client appends
  MaxLeaves,        \* bound on the number of leaves
  MaxSeq,           \* bound on tx_seq values committed
  MaxSubtreeDepth,  \* largest subtree_depth appended
  LeafHeight,       \* leaf_height of the tree
  MinDepth,         \* min_depth, 0 for None (new) or a depth (new_with_depth)
  MaxResets         \* bound on reset() calls

ASSUME /\ MaxLeaves \in Nat /\ MaxSeq \in Nat
       /\ MaxSubtreeDepth \in 1..MaxHeight /\ LeafHeight \in Nat /\ MinDepth \in Nat

VARIABLES tree, truth, history, nextSeq, panicked, single, resets

vars == <<tree, truth, history, nextSeq, panicked, single, resets>>

NumLeaves == IF Broken(tree) THEN 0 ELSE Leaves(tree)

\* Every method but reset() reads layers[0]: on a tree without layers it panics.
Use(res) == IF Broken(tree) THEN PANIC ELSE res

\* The outcome of a method call: a panic ends the worker, an Err leaves
\* everything as it was, otherwise the tree and the ghost state move on.
Outcome(res, tr, hi, ns, sg) ==
  CASE res = PANIC -> /\ panicked' = TRUE
                      /\ UNCHANGED <<tree, truth, history, nextSeq, single, resets>>
    [] res = ERR   -> UNCHANGED vars
    [] OTHER       -> /\ tree' = res /\ truth' = tr /\ history' = hi /\ nextSeq' = ns
                      /\ single' = sg /\ UNCHANGED <<panicked, resets>>

Init ==
  /\ tree = IF MinDepth = 0 THEN New(<<>>, LeafHeight, NONE)
            ELSE [NewWithDepth(<<>>, MinDepth, NONE) EXCEPT !.leafHeight = LeafHeight]
  /\ truth = <<>>
  /\ history = <<>>
  /\ nextSeq = 0
  /\ panicked = FALSE
  /\ single = {}
  /\ resets = 0

Append1(v) ==
  /\ NumLeaves < MaxLeaves
  /\ Outcome(Use(AppendLeaf(tree, v)), Append(truth, v), history, nextSeq,
             single \union {NumLeaves})

AppendList2(L) ==
  /\ NumLeaves + Len(L) <= MaxLeaves
  /\ Outcome(Use(AppendList(tree, L)), truth \o L, history, nextSeq,
             single \union (NumLeaves..(NumLeaves + Len(L) - 1)))

\* append_subtree(d, root) with root the true root of the data L.
AppendSubtreeOf(d, L) ==
  /\ NumLeaves + 2^(d - 1) <= MaxLeaves
  /\ Outcome(Use(AppendSubtree(tree, d, SubtreeRoot(L, LeafHeight, d))),
             truth \o L, history, nextSeq,
             IF d = 1 THEN single \union {NumLeaves} ELSE single)

\* update_last(v): the last leaf's true value changes (the top tree's last
\* leaf is the root of the growing last chunk).  The log manager calls it
\* only when the last leaf is that root, a leaf appended on its own.
UpdateLastTo(v) ==
  /\ IF NumLeaves = 0 THEN MaxLeaves > 0 ELSE NumLeaves - 1 \in single
  /\ Outcome(Use(UpdateLast(tree, v)),
             IF truth = <<>> THEN <<v>> ELSE [truth EXCEPT ![Len(truth)] = v],
             history, nextSeq, single \union {Max({NumLeaves - 1, 0})})

\* fill_leaf(i, leaf) with the true leaf, on a null or an equal leaf.
Fill(i) ==
  /\ i < NumLeaves
  /\ Outcome(Use(FillLeaf(tree, i, truth[i + 1])), truth, history, nextSeq, single)

DoCommit ==
  /\ nextSeq < MaxSeq
  /\ Outcome(Use(Commit(tree, nextSeq)), truth, (nextSeq :> truth) @@ history,
             nextSeq + 1, single)

DoRevert(s) ==
  /\ s \in DOMAIN history
  /\ Outcome(Use(RevertTo(tree, s)), history[s],
             RestrictDomain(history, LAMBDA x : x <= s), s + 1,
             {p \in single : p < Len(history[s])})

\* reset(), as revert_to(u64::MAX) of the log manager uses it.
DoReset ==
  /\ resets < MaxResets
  /\ tree' = Reset(tree) /\ truth' = <<>> /\ history' = <<>> /\ nextSeq' = 0
  /\ single' = {} /\ resets' = resets + 1 /\ UNCHANGED panicked

Next ==
  /\ ~panicked
  /\ \/ \E v \in Vals : Append1(v)
     \/ \E L \in SeqOf(Vals, 2) : Len(L) = 2 /\ AppendList2(L)
     \/ \E d \in 1..MaxSubtreeDepth : \E L \in [1..2^(d - 1) -> Vals] : AppendSubtreeOf(d, L)
     \/ \E v \in Vals : UpdateLastTo(v)
     \/ \E i \in 0..(MaxLeaves - 1) : Fill(i)
     \/ DoCommit
     \/ \E s \in 0..MaxSeq : DoRevert(s)
     \/ DoReset

Spec == Init /\ [][Next]_vars

-----------------------------------------------------------------------------
(***************************************************************************)
(* Properties                                                              *)
(***************************************************************************)

\* Every variable holds a value of its type; a snapshot's right-most index
\* is a position of its layer (commit records len() - 1).
TypeOK ==
  /\ panicked \in BOOLEAN
  /\ truth \in BoundedSeq(Vals, MaxLeaves)
  /\ nextSeq \in 0..MaxSeq
  /\ single \subseteq 0..(MaxLeaves - 1)
  /\ resets \in 0..MaxResets
  /\ DOMAIN history \subseteq 0..MaxSeq
  /\ DOMAIN tree.delta \subseteq 0..MaxSeq
  /\ \A s \in DOMAIN tree.delta : \A h \in 1..Len(tree.delta[s]) :
       tree.delta[s][h][1] \in 0..(MaxLeaves - 1)
  /\ \A r \in DOMAIN tree.rootMap : tree.rootMap[r] \in 0..MaxSeq
  /\ tree.minDepth = MinDepth /\ tree.leafHeight = LeafHeight

Live == ~panicked /\ ~Broken(tree)

\* The incremental recompute (append, append_list, append_subtree,
\* update_last, fill_leaf) and revert_to keep every known node of the live
\* tree equal to the node of the Merkle tree over the true leaves, padded
\* with zero subtrees of the right height (spec P1, P2).
NodesSound ==
  Live =>
    /\ Leaves(tree) = Len(truth)
    /\ \A h \in 0..(Len(tree.layers) - 1) : \A i \in 0..(LayerLen(tree.layers, h) - 1) :
         Node(tree.layers, h, i) # NULL =>
           Node(tree.layers, h, i) = RefNode(truth, LeafHeight, h, i)

\* The HistoryTree view of every live commit (its right-most nodes over the
\* live layers) still shows the tree as it was at that commit, though
\* leaves were appended, filled and updated since (spec P6, design note
\* "snapshots without copying").
HistorySound ==
  ~panicked =>
    \A s \in DOMAIN history :
      /\ s \in DOMAIN tree.delta
      /\ (tree.delta[s] = <<>>) = (history[s] = <<>>)
      /\ \A h \in 0..(Len(tree.delta[s]) - 1) : \A i \in 0..tree.delta[s][h + 1][1] :
           HistoryNode(tree, s, h, i) # NULL =>
             HistoryNode(tree, s, h, i) = RefNode(history[s], LeafHeight, h, i)

\* A proof gen_proof returns, for the live tree or any live version, whose
\* siblings are all known, validates for the true leaf and position and
\* ends with that version's root (spec P3 where the path is known).
ProofOK(p, leaf, pos, root) ==
  (p # ERR /\ \A k \in 1..Len(p.lemma) : p.lemma[k] # NULL) =>
    ProofValidates(p, leaf, pos) /\ Last(p.lemma) = root

ProofsSound ==
  Live =>
    /\ \A i \in 0..(Leaves(tree) - 1) :
         ProofOK(GenProof(tree, i), truth[i + 1], i, Root(tree))
    /\ \A s \in DOMAIN history : history[s] # <<>> =>
         \A i \in 0..(Len(history[s]) - 1) :
           ProofOK(GenHistoryProof(tree, s, i), history[s][i + 1], i,
                   Last(tree.delta[s])[2])

\* No method call panics: the recompute never meets a changed inner node,
\* and no call leaves a tree that a later call cannot index.
NoPanic == ~panicked

\* For every known leaf gen_proof returns a proof that validates (spec P3).
KnownLeafProofs ==
  Live => \A i \in 0..(Leaves(tree) - 1) :
            Node(tree.layers, 0, i) # NULL =>
              ProofValidates(GenProof(tree, i), truth[i + 1], i)
=============================================================================
