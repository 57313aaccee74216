----------------------------- MODULE MerkleTree -----------------------------
(***************************************************************************)
(* AppendMerkleTree (common/append_merkle/src/lib.rs) as operators on a    *)
(* tree value.  A tree is a record                                         *)
(*   layers     : layers[h+1] is the code's layers[h]; layers[1] = leaves  *)
(*   delta      : delta_nodes_map, tx_seq -> right_most_nodes, a sequence  *)
(*                of <<last_index, last_value>>, bottom layer first        *)
(*   rootMap    : root_to_tx_seq_map, root -> tx_seq                       *)
(*   minDepth   : min_depth (0 stands for None)                            *)
(*   leafHeight : leaf_height                                              *)
(* Every method returns the new tree, or ERR where the code returns an     *)
(* Err (the tree untouched), or PANIC where the code panics (a failed      *)
(* assertion, panic!, unreachable! or an index out of bounds).  Indices    *)
(* inside layers are the code's 0-based ones; Node(ls, h, i) translates.   *)
(***************************************************************************)
EXTENDS MerkleHash, Integers, SequencesExt, Functions

CONSTANTS ERR, PANIC

\* Option<usize> / Option<u64>: None
NONE == -1

Node(ls, h, i) == ls[h + 1][i + 1]
LayerLen(ls, h) == Len(ls[h + 1])
Leaves(t) == Len(t.layers[1])
\* MerkleTreeRead::root: node(height - 1, 0)
Root(t) == t.layers[Len(t.layers)][1]

\* A tree whose layer vector is empty: every later use indexes layers[0].
Broken(t) == t.layers = <<>>

EmptyTree(lh) ==
  [layers |-> <<<<>>>>, delta |-> <<>>, rootMap |-> <<>>,
   minDepth |-> 0, leafHeight |-> lh]

\* before_extend_layer(height) applied for every height below n.
ExtendTo(ls, n) ==
  IF Len(ls) >= n THEN ls ELSE ls \o [k \in 1..(n - Len(ls)) |-> <<>>]

(***************************************************************************)
(* recompute: the parent updates of one layer, then their write-back.      *)
(***************************************************************************)
ParentOrNull(l, r) == IF l = NULL \/ r = NULL THEN NULL ELSE Parent(l, r)
SingleOrNull(r, h) == IF r = NULL THEN NULL ELSE ParentSingle(r, h)

\* Mutant: a lone right-most node is promoted to the layer above unhashed.
ParentUpdatesPromote(seg, nextStart, h, lh) ==
  LET n == Len(seg) \div 2
      pairs == [k \in 1..n |->
                 <<nextStart + k - 1, ParentOrNull(seg[2 * k - 1], seg[2 * k])>>]
  IN IF Len(seg) % 2 = 1 THEN Append(pairs, <<nextStart + n, seg[Len(seg)]>>)
     ELSE pairs

\* parent_update for the slice seg of layer h: pairs by chunks_exact(2),
\* then the remainder paired with the padding of its height.
ParentUpdates(seg, nextStart, h, lh) ==
  LET n == Len(seg) \div 2
      pairs == [k \in 1..n |->
                 <<nextStart + k - 1, ParentOrNull(seg[2 * k - 1], seg[2 * k])>>]
  IN IF Len(seg) % 2 = 1
       THEN Append(pairs, <<nextStart + n, SingleOrNull(seg[Len(seg)], h + lh)>>)
       ELSE pairs

\* The write-back loop over parent_update on the layer above; returns
\* <<layer, last_changed_parent_index>> or PANIC.
RECURSIVE WriteBack(_, _, _)
WriteBack(layer, us, last) ==
  IF us = <<>> THEN <<layer, last>>
  ELSE LET pi == Head(us)[1]
           p  == Head(us)[2]
       IN CASE pi < Len(layer) ->
                 IF p = NULL THEN WriteBack(layer, Tail(us), last)
                 ELSE IF /\ layer[pi + 1] # NULL
                         /\ layer[pi + 1] # p
                         /\ pi # Len(layer) - 1
                      THEN PANIC   \* "Invalid append merkle tree!"
                      ELSE WriteBack([layer EXCEPT ![pi + 1] = p], Tail(us), pi)
            [] pi = Len(layer) -> WriteBack(Append(layer, p), Tail(us), pi)
            [] OTHER -> PANIC      \* unreachable!

\* recompute(start_index, maybe_end_index), one loop iteration per call.
RECURSIVE Recompute(_, _, _, _, _)
Recompute(ls, h, start, maybeEnd, lh) ==
  IF h >= Len(ls) THEN PANIC                       \* layers[height] out of bounds
  ELSE IF ~(LayerLen(ls, h) > 1 \/ h < Len(ls) - 1) THEN ls
  ELSE
    LET nextStart == start \div 2
        s  == IF start % 2 = 1 THEN start - 1 ELSE start
        e0 == IF maybeEnd = NONE THEN LayerLen(ls, h) ELSE maybeEnd
        e  == IF e0 % 2 = 1 /\ e0 # LayerLen(ls, h) THEN e0 + 1 ELSE e0
    IN IF s > e \/ e > LayerLen(ls, h) THEN PANIC  \* slice out of range
       ELSE
         LET us  == ParentUpdates(SubSeq(ls[h + 1], s + 1, e), nextStart, h, lh)
             ext == ExtendTo(ls, h + 2)
         IN IF us = <<>> THEN Recompute(ls, h + 1, nextStart, NONE, lh)
            ELSE
              LET wb == WriteBack(ext[h + 2], us, NONE)
              IN IF wb = PANIC THEN PANIC
                 ELSE Recompute([ext EXCEPT ![h + 2] = wb[1]], h + 1, nextStart,
                                IF wb[2] = NONE THEN NONE ELSE wb[2] + 1, lh)

\* Apply a recompute to a tree.
WithLayers(t, ls) == IF ls = PANIC THEN PANIC ELSE [t EXCEPT !.layers = ls]

(***************************************************************************)
(* Methods                                                                 *)
(***************************************************************************)

\* Mutant: the right-most index recorded as layer.len() instead of len() - 1.
CommitLenIndex(t, seq) ==
  IF seq = NONE THEN t
  ELSE IF Leaves(t) = 0
    THEN [t EXCEPT !.delta = (seq :> <<>>) @@ t.delta]
  ELSE IF \E h \in 1..Len(t.layers) : t.layers[h] = <<>> THEN PANIC
  ELSE
    LET rmn == [h \in 1..Len(t.layers) |-> <<Len(t.layers[h]), Last(t.layers[h])>>]
    IN [t EXCEPT !.delta   = (seq :> rmn) @@ t.delta,
                 !.rootMap = (Root(t) :> seq) @@ t.rootMap]

\* commit(Some(tx_seq)); commit(None) is the identity.
Commit(t, seq) ==
  IF seq = NONE THEN t
  ELSE IF Leaves(t) = 0
    THEN [t EXCEPT !.delta = (seq :> <<>>) @@ t.delta]
  ELSE IF \E h \in 1..Len(t.layers) : t.layers[h] = <<>> THEN PANIC  \* len() - 1 underflows
  ELSE
    LET rmn == [h \in 1..Len(t.layers) |-> <<Len(t.layers[h]) - 1, Last(t.layers[h])>>]
    IN [t EXCEPT !.delta   = (seq :> rmn) @@ t.delta,
                 !.rootMap = (Root(t) :> seq) @@ t.rootMap]

\* append(new_leaf)
AppendLeaf(t, v) ==
  LET ls == [t.layers EXCEPT ![1] = Append(@, v)]
  IN WithLayers(t, Recompute(ls, 0, Leaves(t), NONE, t.leafHeight))

\* append_list(leaf_list)
AppendList(t, L) ==
  LET ls == [t.layers EXCEPT ![1] = @ \o L]
  IN WithLayers(t, Recompute(ls, 0, Leaves(t), NONE, t.leafHeight))

\* append_subtree_inner: null leaves and inner nodes, the root on layer d-1.
AppendSubtreeInner(ls, d, root) ==
  IF d = 0 \/ Len(ls[1]) % (2^(d - 1)) # 0 THEN ERR
  ELSE LET ext == ExtendTo(ls, d)
       IN [h \in 1..Len(ext) |->
             IF h < d THEN ext[h] \o [k \in 1..2^(d - h) |-> NULL]
             ELSE IF h = d THEN Append(ext[h], root)
             ELSE ext[h]]

\* append_subtree(subtree_depth, subtree_root)
AppendSubtree(t, d, root) ==
  LET ls == AppendSubtreeInner(t.layers, d, root)
  IN IF ls = ERR THEN ERR
     ELSE WithLayers(t, Recompute(ls, 0, Leaves(t), NONE, t.leafHeight))

\* append_subtree_list: all inner appends, then one recompute.
AppendSubtreeList(t, list) ==
  LET ls == FoldLeft(LAMBDA acc, st : IF acc = ERR THEN ERR
                                     ELSE AppendSubtreeInner(acc, st[1], st[2]),
                     t.layers, list)
  IN IF ls = ERR THEN ERR
     ELSE WithLayers(t, Recompute(ls, 0, Leaves(t), NONE, t.leafHeight))

\* update_last(updated_leaf)
UpdateLast(t, v) ==
  LET ls == IF Leaves(t) = 0 THEN [t.layers EXCEPT ![1] = <<v>>]
            ELSE [t.layers EXCEPT ![1][Leaves(t)] = v]
  IN WithLayers(t, Recompute(ls, 0, Len(ls[1]) - 1, NONE, t.leafHeight))

\* fill_leaf(index, leaf)
FillLeaf(t, i, v) ==
  IF i >= Leaves(t) THEN PANIC
  ELSE IF Node(t.layers, 0, i) = NULL
    THEN WithLayers(t, Recompute([t.layers EXCEPT ![1][i + 1] = v], 0, i, i + 1,
                                 t.leafHeight))
  ELSE IF Node(t.layers, 0, i) # v THEN PANIC      \* "Fill with invalid leaf"
  ELSE t

\* leaf_at(position): the leaf, or NULL where it is unknown.
LeafAt(t, i) == IF i >= Leaves(t) THEN ERR ELSE Node(t.layers, 0, i)

\* check_root(root)
CheckRoot(t, r) == r \in DOMAIN t.rootMap

\* clear_after(tx_seq): drop the snapshots tx_seq+1, tx_seq+2, ... while
\* they are present, and the roots they recorded.
RECURSIVE ClearAfter(_, _)
ClearAfter(t, s) ==
  IF s \notin DOMAIN t.delta THEN t
  ELSE LET dn == t.delta[s]
           rm == IF dn = <<>> THEN t.rootMap
                 ELSE RestrictDomain(t.rootMap, LAMBDA r : r # Last(dn)[2])
       IN ClearAfter([t EXCEPT !.delta = RestrictDomain(@, LAMBDA x : x # s),
                               !.rootMap = rm], s + 1)

\* revert_to(tx_seq)
RevertTo(t, seq) ==
  IF Leaves(t) = 0 THEN t
  ELSE IF seq \notin DOMAIN t.delta THEN ERR
  ELSE LET dn == t.delta[seq]
       IN IF Len(dn) > Len(t.layers)
             \/ \E h \in 1..Len(dn) : Len(t.layers[h]) < dn[h][1] + 1
          THEN PANIC
          ELSE ClearAfter(
                 [t EXCEPT !.layers =
                    [h \in 1..Len(dn) |->
                       [SubSeq(t.layers[h], 1, dn[h][1] + 1) EXCEPT ![dn[h][1] + 1] = dn[h][2]]]],
                 seq + 1)

\* reset(): the layers only; the snapshot maps are left as they are.
Reset(t) ==
  [t EXCEPT !.layers = IF t.minDepth = 0 THEN <<<<>>>>
                       ELSE [k \in 1..t.minDepth |-> <<>>]]

\* new(leaves, leaf_height, start_tx_seq)
New(L, lh, seq) ==
  IF L = <<>> THEN IF seq = NONE THEN EmptyTree(lh)
                   ELSE [EmptyTree(lh) EXCEPT !.delta = (seq :> <<>>)]
  ELSE LET t == WithLayers(EmptyTree(lh), Recompute(<<L>>, 0, 0, NONE, lh))
       IN IF t = PANIC THEN PANIC ELSE Commit(t, seq)

\* new_with_subtrees(subtree_root_list, leaf_height, start_tx_seq)
NewWithSubtrees(list, lh, seq) ==
  IF list = <<>> THEN New(<<>>, lh, seq)
  ELSE LET t == AppendSubtreeList(EmptyTree(lh), list)
       IN IF t \in {ERR, PANIC} THEN t ELSE Commit(t, seq)

\* new_with_depth(leaves, depth, start_tx_seq)
NewWithDepth(L, depth, seq) ==
  LET t0 == [EmptyTree(0) EXCEPT !.layers = [k \in 1..depth |-> IF k = 1 THEN L ELSE <<>>],
                                 !.minDepth = depth]
  IN IF L = <<>> THEN IF seq = NONE THEN t0 ELSE [t0 EXCEPT !.delta = (seq :> <<>>)]
     ELSE LET t == WithLayers(t0, Recompute(t0.layers, 0, 0, NONE, 0))
          IN IF t = PANIC THEN PANIC ELSE Commit(t, seq)

(***************************************************************************)
(* Read views and proofs (MerkleTreeRead, HistoryTree)                      *)
(***************************************************************************)

\* Mutant: the history view reads the live layer for the right-most node
\* too, instead of the value the snapshot recorded.
HistoryNodeLive(t, s, h, i) ==
  LET dn == t.delta[s]
  IN IF h >= Len(dn) \/ i > dn[h + 1][1] THEN PANIC
     ELSE IF h >= Len(t.layers) \/ i >= LayerLen(t.layers, h) THEN PANIC
     ELSE Node(t.layers, h, i)

\* HistoryTree::node for the version committed as tx_seq s; PANIC where the
\* code's expect("range checked") or an index fails.
HistoryNode(t, s, h, i) ==
  LET dn == t.delta[s]
  IN IF h >= Len(dn) \/ i > dn[h + 1][1] THEN PANIC
     ELSE IF i = dn[h + 1][1] THEN dn[h + 1][2]
     ELSE IF h >= Len(t.layers) \/ i >= LayerLen(t.layers, h) THEN PANIC
     ELSE Node(t.layers, h, i)

\* MerkleTreeRead::gen_proof(leaf_index) over any view given by its node,
\* layer_len and height; padding_node(h) is end_pad(h + leaf_height).
GenProofOf(N(_, _), LL(_), H, lh, i) ==
  IF i >= LL(0) \/ N(0, i) = NULL THEN ERR
  ELSE IF H = 1 THEN [lemma |-> <<N(0, 0), N(0, 0)>>, path |-> <<>>]
  ELSE LET idx(k) == i \div 2^k
           sib(k) == IF idx(k) % 2 = 0
                       THEN IF idx(k) + 1 = LL(k) THEN EndPad(k + lh)
                            ELSE N(k, idx(k) + 1)
                       ELSE N(k, idx(k) - 1)
       IN [lemma |-> <<N(0, i)>> \o [k \in 1..(H - 1) |-> sib(k - 1)] \o <<N(H - 1, 0)>>,
           path  |-> [k \in 1..(H - 1) |-> idx(k - 1) % 2 = 0]]

\* gen_proof on the live tree
GenProof(t, i) ==
  GenProofOf(LAMBDA h, k : Node(t.layers, h, k), LAMBDA h : LayerLen(t.layers, h),
             Len(t.layers), t.leafHeight, i)

\* at_root_version(root_hash): the tx_seq of the version whose root it is,
\* or ERR when the root, its snapshot, or a non-empty snapshot is missing.
AtRootVersion(t, r) ==
  IF r \notin DOMAIN t.rootMap THEN ERR
  ELSE LET s == t.rootMap[r]
       IN IF s \notin DOMAIN t.delta \/ t.delta[s] = <<>> THEN ERR ELSE s

\* Mutant: the history layer_len taken as the right-most index itself.
GenHistoryProofShort(t, s, i) ==
  GenProofOf(LAMBDA h, k : HistoryNode(t, s, h, k), LAMBDA h : t.delta[s][h + 1][1],
             Len(t.delta[s]), t.leafHeight, i)

\* at_root_version(root)?.gen_proof(i), for the version committed as s
GenHistoryProof(t, s, i) ==
  GenProofOf(LAMBDA h, k : HistoryNode(t, s, h, k), LAMBDA h : t.delta[s][h + 1][1] + 1,
             Len(t.delta[s]), t.leafHeight, i)

(***************************************************************************)
(* Proof::validate (proof.rs, not in the sources: modelled from the spec): *)
(* fold the siblings into the leaf, path[k] TRUE meaning the running node  *)
(* is the left child, and compare with the root the lemma ends with.       *)
(***************************************************************************)
ProofRoot(p) ==
  FoldLeft(LAMBDA cur, st : IF st[1] THEN Parent(cur, st[2]) ELSE Parent(st[2], cur),
           p.lemma[1], Zip(p.path, SubSeq(p.lemma, 2, Len(p.lemma) - 1)))

ProofValidates(p, leaf, pos) ==
  /\ p # ERR
  /\ Len(p.lemma) = Len(p.path) + 2
  /\ p.lemma[1] = leaf
  /\ ProofRoot(p) = Last(p.lemma)
  /\ \A k \in 1..Len(p.path) : p.path[k] = ((pos \div 2^(k - 1)) % 2 = 0)
=============================================================================
