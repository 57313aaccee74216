----------------------------- MODULE LogManager -----------------------------
(***************************************************************************)
(* The log manager (node/storage/src/log_store/log_manager.rs): the flow   *)
(* Merkle tree kept as two AppendMerkleTrees, the top tree over segment    *)
(* (PoRA chunk) roots and the tree of the last, filling segment, together  *)
(* with the flow store and the transaction store it writes.                *)
(*                                                                         *)
(* The whole manager is one record lm with fields                          *)
(*   top   : pora_chunks_merkle (leaf_height K)                            *)
(*   last  : last_chunk_merkle  (new_with_depth K+1, leaf_height 0)        *)
(*   flow  : FlowStore entries, flow index -> leaf hash, NULL where absent *)
(*   roots : FlowStore segment-root column, segment -> <<root, span>>      *)
(*   txs   : TransactionStore, tx_seq + 1 -> [start, data, done]          *)
(*   err   : set while a handler has returned an Err ("?" in the code);    *)
(*           the writes made before it stay, as in the code                *)
(* A handler is an operator from lm to the new lm, or PANIC.  Entries are  *)
(* represented by their leaf hashes; a transaction's data root is its data *)
(* itself (collision free), so equal data means equal data_merkle_root.    *)
(***************************************************************************)
EXTENDS MerkleTree

CONSTANTS
  K,         \* log2_pow2(PORA_CHUNK_SIZE)
  SENTINEL,  \* H256::zero(), the leaf try_initialize puts at flow index 0
  FlowCap,   \* flow indices the model stores: 0..FlowCap-1
  RootListLen \* data lengths tx_subtree_root_list_padded is checked for

ASSUME K \in 1..MaxHeight /\ FlowCap \in Nat

\* PORA_CHUNK_SIZE
C == 2^K

SegIdx == 0..(FlowCap \div C - 1)

\* Leaf hash of a zero entry, as Self::padding writes it.
ZeroLeaf == Leaf(ZeroEntry)
Zeros(n) == [k \in 1..n |-> ZeroLeaf]

Seq1To(n) == [k \in 1..n |-> k]

RECURSIVE Log2(_)
\* log2_pow2(n) for a power of two n
Log2(n) == IF n <= 1 THEN 0 ELSE 1 + Log2(n \div 2)

RECURSIVE NextPow2From(_, _)
NextPow2From(n, p) == IF p >= n THEN p ELSE NextPow2From(n, 2 * p)

(***************************************************************************)
(* A transaction's layout, as the flow contract lays it out.               *)
(***************************************************************************)

\* compute_padded_chunk_size(size) (shared_types) for fewer than 16 chunks:
\* no padding, and the next power of two.
PaddedChunks(n) == n

RECURSIVE SplitFrom(_, _)
SplitFrom(n, sz) ==
  IF n = 0 THEN <<>>
  ELSE IF n >= sz THEN <<sz>> \o SplitFrom(n - sz, sz \div 2)
  ELSE SplitFrom(n, sz \div 2)

\* split_nodes(data_size): subtree sizes, largest first.
SplitNodes(n) == SplitFrom(PaddedChunks(n), NextPow2From(n, 1))

RECURSIVE NodeRanges(_, _)
\* <<first flow index, size>> of each subtree, laid out from index a.
NodeRanges(sizes, a) ==
  IF sizes = <<>> THEN <<>>
  ELSE <<<<a, Head(sizes)>>>> \o NodeRanges(Tail(sizes), a + Head(sizes))

\* Root of the perfect tree over the entries of tx data at [a, a + sz).
DataRoot(tx, a, sz) ==
  SubtreeRoot(SubSeq(tx.data, a - tx.start + 1, a - tx.start + sz), 0, Log2(sz) + 1)

\* tx.merkle_nodes: (depth, root) of every subtree of the data.
TxNodes(tx) ==
  LET rs == NodeRanges(SplitNodes(Len(tx.data)), tx.start)
  IN [j \in 1..Len(rs) |-> <<Log2(rs[j][2]) + 1, DataRoot(tx, rs[j][1], rs[j][2])>>]

\* tx_subtree_root_list_padded(data): (depth, root) of each subtree of
\* split_nodes, over the data padded with zero entries, advancing its
\* start with "start_index += end".
RECURSIVE RootListFrom(_, _, _)
RootListFrom(nodes, data, start) ==
  IF nodes = <<>> THEN <<>>
  ELSE LET sz == Head(nodes)
           end == start + sz
           leaves == CASE start >= Len(data) -> Zeros(sz)
                     [] end > Len(data) -> SubSeq(data, start + 1, Len(data)) \o Zeros(end - Len(data))
                     [] OTHER -> SubSeq(data, start + 1, end)
       IN <<<<Log2(sz) + 1, SubtreeRoot(leaves, 0, Log2(sz) + 1)>>>>
          \o RootListFrom(Tail(nodes), data, start + end)

TxSubtreeRootListPadded(data) == RootListFrom(SplitNodes(Len(data)), data, 0)

\* The chain's flow length after the transactions ts (index 0 holds the
\* sentinel), and where a transaction of n entries starts after it: the
\* flow is padded to a multiple of its first subtree's size.
ChainEnd(ts) == IF ts = <<>> THEN 1 ELSE Last(ts).start + Len(Last(ts).data)
TxStartAfter(end, n) ==
  LET f == Head(SplitNodes(n)) IN IF end % f = 0 THEN end ELSE end + f - (end % f)

\* The flow's leaves as the chain defines them: sentinel, then for every
\* transaction zero padding up to its start and its data.
Truth(ts) ==
  FoldLeft(LAMBDA acc, tx : acc \o Zeros(tx.start - Len(acc)) \o tx.data, <<SENTINEL>>, ts)

(***************************************************************************)
(* FlowStore (flow_store.rs is not in the sources: modelled from the      *)
(* spec, section 4.D).                                                     *)
(***************************************************************************)
Present(fl, p) == p \in DOMAIN fl /\ fl[p] # NULL

Complete(fl, c) == \A p \in (c * C)..(c * C + C - 1) : Present(fl, p)

SegRoot(fl, c) == SubtreeRoot([k \in 1..C |-> fl[c * C + k - 1]], 0, K + 1)

FlowWrite(fl, start, vals) ==
  IF start + Len(vals) > FlowCap THEN Assert(FALSE, "FlowCap too small")
  ELSE [p \in DOMAIN fl |-> IF p >= start /\ p < start + Len(vals)
                             THEN vals[p - start + 1] ELSE fl[p]]

\* Segments a write completes, in order.
NewlyComplete(fl, start, vals) ==
  SetToSortSeq({c \in SegIdx : ~Complete(fl, c) /\ Complete(FlowWrite(fl, start, vals), c)},
               LAMBDA a, b : a < b)

\* append_entries: store the entries and the root of every segment the
\* write completes (the caller reads those from NewlyComplete).
FlowAppend(m, start, vals) ==
  LET fl == FlowWrite(m.flow, start, vals)
      new == NewlyComplete(m.flow, start, vals)
  IN [m EXCEPT !.flow = fl,
               !.roots = [c \in SegIdx |-> IF c \in Range(new) THEN <<SegRoot(fl, c), 1>>
                                          ELSE @[c]]]

\* put_batch_root(seg_idx, root, span)
PutBatchRoot(m, seg, root, span) ==
  IF seg \notin SegIdx THEN Assert(FALSE, "FlowCap too small")
  ELSE [m EXCEPT !.roots[seg] = <<root, span>>]

\* truncate(start_index): drop entries and segment roots at and above it.
FlowTruncate(m, start) ==
  [m EXCEPT !.flow = [p \in DOMAIN @ |-> IF p >= start THEN NULL ELSE @[p]],
            !.roots = [c \in SegIdx |-> IF (c + 1) * C > start THEN NULL ELSE @[c]]]

(***************************************************************************)
(* Steps on the manager: a tree method applied to top or last.             *)
(***************************************************************************)
Err(m) == [m EXCEPT !.err = TRUE]

\* Run the rest of a handler unless it panicked or returned an Err.
Then(m, F(_)) == IF m = PANIC THEN PANIC ELSE IF m.err THEN m ELSE F(m)

SetTree(m, f, t) ==
  CASE t = PANIC -> PANIC
    [] t = ERR   -> Err(m)
    [] OTHER     -> [m EXCEPT ![f] = t]

\* Every method indexes layers[0]: on a tree without layers it panics.
TopDo(m, F(_)) == IF Broken(m.top) THEN PANIC ELSE SetTree(m, "top", F(m.top))
LastDo(m, F(_)) == IF Broken(m.last) THEN PANIC ELSE SetTree(m, "last", F(m.last))

\* root() of a tree whose top layer is empty indexes out of bounds.
RootOf(t) == IF t.layers[Len(t.layers)] = <<>> THEN PANIC ELSE Root(t)

\* Mutant: the last-chunk tree built with depth log2_pow2(PORA_CHUNK_SIZE).
FreshLastShallow == NewWithDepth(<<>>, K, NONE)

\* Merkle::new_with_depth(vec![], log2_pow2(PORA_CHUNK_SIZE) + 1, None)
FreshLast == NewWithDepth(<<>>, K + 1, NONE)

(***************************************************************************)
(* LogManager methods                                                      *)
(***************************************************************************)

\* Mutant: the start taken as that of the top tree's last leaf, though an
\* empty last-chunk tree means that segment is closed.
LastChunkStartLastLeaf(m) ==
  IF Leaves(m.top) = 0 THEN 0 ELSE C * (Leaves(m.top) - 1)

\* last_chunk_start_index()
LastChunkStart(m) ==
  IF Leaves(m.top) = 0 THEN 0
  ELSE C * (IF Leaves(m.last) = 0 THEN Leaves(m.top) ELSE Leaves(m.top) - 1)

\* The flow length the manager's trees stand for.
FlowPos(m) == LastChunkStart(m) + Leaves(m.last)

\* fill_leaf on the top tree for every segment the flow store completed;
\* a segment the top tree has no leaf for is unreachable!().
FillTopLeaves(m, done) ==
  FoldLeft(LAMBDA acc, c : Then(acc, LAMBDA a :
             IF c < Leaves(a.top) THEN TopDo(a, LAMBDA t : FillLeaf(t, c, SegRoot(a.flow, c)))
             ELSE PANIC),
           m, done)

\* append_entries(flow_entry_array)
AppendEntries(m, start, vals) ==
  LET lcs == LastChunkStart(m)
      cs == IF start >= lcs THEN start - lcs ELSE 0
      di == IF start >= lcs THEN 0 ELSE lcs - start
      m1 == IF start + Len(vals) > lcs
              THEN FoldLeft(LAMBDA acc, k : Then(acc, LAMBDA a :
                              LastDo(a, LAMBDA t : FillLeaf(t, cs + k - 1, vals[di + k]))),
                            m, Seq1To(Len(vals) - di))
              ELSE m
  IN Then(m1, LAMBDA a : FillTopLeaves(FlowAppend(a, start, vals),
                                       NewlyComplete(a.flow, start, vals)))

\* The pad_tx branch that pads the last chunk up to its end.
PadLastChunk(m, pos, n) ==
  LET m1 == LastDo(m, LAMBDA t : AppendList(t, Zeros(n)))
  IN Then(m1, LAMBDA a : FlowAppend(TopDo(a, LAMBDA t : UpdateLast(t, Root(a.last))), pos, Zeros(n)))

\* pad_tx(first_subtree_size)
PadTx(m, first) ==
  LET pos == FlowPos(m)
      extra == pos % first
      padLen == first - extra
      lastPad == IF Leaves(m.last) = 0 THEN 0 ELSE C - Leaves(m.last)
      full == (padLen - lastPad) \div C
      m1 == IF lastPad = 0 THEN m
            ELSE Then(PadLastChunk(m, pos, lastPad), LAMBDA a : [a EXCEPT !.last = FreshLast])
      m2 == FoldLeft(LAMBDA acc, j : Then(acc, LAMBDA a :
                       FlowAppend(TopDo(a, LAMBDA t : AppendLeaf(t, Root(New(Zeros(C), 0, NONE)))),
                                  pos + lastPad + (j - 1) * C, Zeros(C))),
                     m1, Seq1To(full))
  IN IF extra = 0 THEN m
     ELSE IF padLen < lastPad THEN PadLastChunk(m, pos, padLen)
     ELSE Then(m2, LAMBDA a : IF padLen = lastPad + full * C THEN a ELSE PANIC)

\* Mutant: a subtree that exactly fills the last chunk is taken not to fit.
SubtreeStepStrict(m, st) ==
  LET d == st[1]
      r == st[2]
      sz == 2^(d - 1)
      m1 == LastDo(m, LAMBDA t : AppendSubtree(t, d, r))
      m2 == Then(m1, LAMBDA a :
              IF Leaves(a.last) = sz THEN TopDo(a, LAMBDA t : AppendSubtree(t, 1, Root(a.last)))
              ELSE TopDo(a, LAMBDA t : UpdateLast(t, Root(a.last))))
  IN IF Leaves(m.last) = 0 /\ sz = C
       THEN Then(TopDo(m, LAMBDA t : AppendSubtree(t, 1, r)),
                 LAMBDA a : PutBatchRoot(a, Leaves(a.top) - 1, r, 1))
     ELSE IF Leaves(m.last) + sz < C
       THEN Then(m2, LAMBDA a :
              IF Leaves(a.last) = C
                THEN [PutBatchRoot(a, Leaves(a.top) - 1, Root(a.last), 1) EXCEPT !.last = FreshLast]
              ELSE a)
     ELSE IF Leaves(m.last) # 0 \/ sz < C THEN PANIC   \* assert_eq! / assert!
     ELSE Then(TopDo(m, LAMBDA t : AppendSubtree(t, d - K, r)),
               LAMBDA a : PutBatchRoot(a, Leaves(a.top) - 1, r, sz \div C))

\* Mutant: the closed chunk's root stored under the next segment's index.
SubtreeStepNextIdx(m, st) ==
  LET d == st[1]
      r == st[2]
      sz == 2^(d - 1)
      m1 == LastDo(m, LAMBDA t : AppendSubtree(t, d, r))
      m2 == Then(m1, LAMBDA a :
              IF Leaves(a.last) = sz THEN TopDo(a, LAMBDA t : AppendSubtree(t, 1, Root(a.last)))
              ELSE TopDo(a, LAMBDA t : UpdateLast(t, Root(a.last))))
  IN IF Leaves(m.last) = 0 /\ sz = C
       THEN Then(TopDo(m, LAMBDA t : AppendSubtree(t, 1, r)),
                 LAMBDA a : PutBatchRoot(a, Leaves(a.top) - 1, r, 1))
     ELSE IF Leaves(m.last) + sz <= C
       THEN Then(m2, LAMBDA a :
              IF Leaves(a.last) = C
                THEN [PutBatchRoot(a, Leaves(a.top), Root(a.last), 1) EXCEPT !.last = FreshLast]
              ELSE a)
     ELSE IF Leaves(m.last) # 0 \/ sz < C THEN PANIC   \* assert_eq! / assert!
     ELSE Then(TopDo(m, LAMBDA t : AppendSubtree(t, d - K, r)),
               LAMBDA a : PutBatchRoot(a, Leaves(a.top) - 1, r, sz \div C))

\* One iteration of append_subtree_list's loop.
SubtreeStep(m, st) ==
  LET d == st[1]
      r == st[2]
      sz == 2^(d - 1)
      m1 == LastDo(m, LAMBDA t : AppendSubtree(t, d, r))
      m2 == Then(m1, LAMBDA a :
              IF Leaves(a.last) = sz THEN TopDo(a, LAMBDA t : AppendSubtree(t, 1, Root(a.last)))
              ELSE TopDo(a, LAMBDA t : UpdateLast(t, Root(a.last))))
  IN IF Leaves(m.last) = 0 /\ sz = C
       THEN Then(TopDo(m, LAMBDA t : AppendSubtree(t, 1, r)),
                 LAMBDA a : PutBatchRoot(a, Leaves(a.top) - 1, r, 1))
     ELSE IF Leaves(m.last) + sz <= C
       THEN Then(m2, LAMBDA a :
              IF Leaves(a.last) = C
                THEN [PutBatchRoot(a, Leaves(a.top) - 1, Root(a.last), 1) EXCEPT !.last = FreshLast]
              ELSE a)
     ELSE IF Leaves(m.last) # 0 \/ sz < C THEN PANIC   \* assert_eq! / assert!
     ELSE Then(TopDo(m, LAMBDA t : AppendSubtree(t, d - K, r)),
               LAMBDA a : PutBatchRoot(a, Leaves(a.top) - 1, r, sz \div C))

\* append_subtree_list(merkle_list)
LogAppendSubtreeList(m, list) ==
  IF list = <<>> THEN m
  ELSE Then(PadTx(m, 2^(list[1][1] - 1)), LAMBDA a :
         FoldLeft(LAMBDA acc, st : Then(acc, LAMBDA b : SubtreeStep(b, st)), a, list))

\* Mutant: only the top tree records the snapshot.
LogCommitTopOnly(m, seq) == TopDo(m, LAMBDA t : Commit(t, seq))

\* commit(tx_seq)
LogCommit(m, seq) ==
  Then(TopDo(m, LAMBDA t : Commit(t, seq)), LAMBDA a : LastDo(a, LAMBDA t : Commit(t, seq)))

MarkDone(m, seqs) ==
  [m EXCEPT !.txs = [k \in DOMAIN @ |-> IF k - 1 \in seqs THEN [@[k] EXCEPT !.done = TRUE]
                                        ELSE @[k]]]

\* get_tx_seq_list_by_data_root: the seqs with this data, in order.
SameRoot(m, data) == SelectSeq([k \in 1..Len(m.txs) |-> k - 1], LAMBDA s : m.txs[s + 1].data = data)

\* copy_tx_data(from_tx_seq, to_tx_seq_list)
CopyTxData(m, from, tos) ==
  LET old == m.txs[from + 1]
      todo == SelectSeq(tos, LAMBDA s : ~m.txs[s + 1].done)
      rng == old.start..(old.start + Len(old.data) - 1)
      data == [k \in 1..Len(old.data) |-> m.flow[old.start + k - 1]]
  IN IF todo = <<>> THEN m
     ELSE IF \E p \in rng : ~Present(m.flow, p) THEN Err(m)   \* "tx data missing"
     ELSE Then(FoldLeft(LAMBDA acc, s : Then(acc, LAMBDA a : AppendEntries(a, m.txs[s + 1].start, data)),
                        m, todo),
               LAMBDA a : MarkDone(a, Range(todo)))

\* put_tx(tx): the tx as the chain lays it out after the current chain.
LogPutTx(m, data) ==
  LET seq == Len(m.txs)
      tx == [start |-> TxStartAfter(ChainEnd(m.txs), Len(data)), data |-> data, done |-> FALSE]
      olds == SameRoot(m, data)
      m1 == Then(Then(LogAppendSubtreeList(m, TxNodes(tx)), LAMBDA a : LogCommit(a, seq)),
                 LAMBDA a : [a EXCEPT !.txs = Append(@, tx)])
  IN IF olds = <<>> THEN m1
     ELSE Then(m1, LAMBDA a :
            IF a.txs[olds[1] + 1].done
              THEN Then(CopyTxData(a, olds[1], <<seq>>), LAMBDA b : MarkDone(b, {seq}))
            ELSE a)

\* put_chunks(tx_seq, chunks) with the tx's own data at offset off.
LogPutChunks(m, seq, off, vals) ==
  IF seq >= Len(m.txs) THEN Err(m)                                 \* missing tx
  ELSE LET tx == m.txs[seq + 1]
       IN IF off + Len(vals) > PaddedChunks(Len(tx.data)) THEN Err(m)   \* out of tx range
          ELSE AppendEntries(m, tx.start + off, vals)

\* Mutant: the tx's last entry is not looked at.
DataCompleteShort(m, tx) == \A p \in tx.start..(tx.start + Len(tx.data) - 2) : Present(m.flow, p)

\* The flow store has every entry of the tx (get_entries is Some).
DataComplete(m, tx) == \A p \in tx.start..(tx.start + Len(tx.data) - 1) : Present(m.flow, p)

\* finalize_tx(tx_seq); padding_rear_data writes nothing for fewer than
\* 16 chunks (no proof padding).
LogFinalizeTx(m, seq) ==
  IF seq >= Len(m.txs) THEN Err(m)
  ELSE IF ~DataComplete(m, m.txs[seq + 1]) THEN Err(m)           \* data missing
  ELSE LET a == MarkDone(m, {seq})
           same == SameRoot(a, a.txs[seq + 1].data)
       IN IF same[1] = seq THEN CopyTxData(a, seq, Tail(same)) ELSE a

\* Mutant: finalized without looking for the data.
LogFinalizeTxWithHashUnchecked(m, seq) ==
  IF seq >= Len(m.txs) THEN Err(m) ELSE MarkDone(m, {seq})

\* finalize_tx_with_hash(tx_seq, tx_hash) with the tx's hash: no copy.
LogFinalizeTxWithHash(m, seq) ==
  IF seq >= Len(m.txs) THEN Err(m)
  ELSE IF ~DataComplete(m, m.txs[seq + 1]) THEN Err(m)
  ELSE MarkDone(m, {seq})

\* try_initialize(): seed an empty flow with the sentinel leaf, or fill the
\* last chunk's leaves from the entries the flow store has for it.
TryInitialize(m) ==
  IF Leaves(m.top) = 0 /\ Leaves(m.last) = 0
    THEN Then(LastDo(m, LAMBDA t : AppendLeaf(t, SENTINEL)), LAMBDA a :
              TopDo(a, LAMBDA t : UpdateLast(t, Root(a.last))))
  ELSE IF Leaves(m.last) # 0
    THEN LET lcs == LastChunkStart(m)
             avail == SetToSortSeq({p \in lcs..(lcs + C - 1) : Present(m.flow, p)},
                                   LAMBDA a, b : a < b)
         IN FoldLeft(LAMBDA acc, p : Then(acc, LAMBDA a :
                       LastDo(a, LAMBDA t : FillLeaf(t, p - lcs, m.flow[p]))),
                     m, avail)
  ELSE m

(***************************************************************************)
(* TransactionStore::rebuild_last_chunk_merkle (tx_store.rs is not in the  *)
(* sources: modelled from the spec, 4.E): the last-chunk tree of segment c *)
(* in the shape it had at tx_seq s, replaying every transaction up to s    *)
(* that lies in the segment: zero leaves for its padding, its subtrees     *)
(* inside the segment (or the segment's root where one subtree covers it), *)
(* and a commit of its seq.                                                *)
(***************************************************************************)
ChunkPieces(tx, c) ==
  LET rs == NodeRanges(SplitNodes(Len(tx.data)), tx.start)
      lo == c * C
      inside(r) == r[1] >= lo /\ r[1] + r[2] <= lo + C
      covers(r) == r[1] <= lo /\ lo + C <= r[1] + r[2]
      sel == SelectSeq(rs, LAMBDA r : inside(r) \/ covers(r))
  IN [j \in 1..Len(sel) |->
        IF inside(sel[j]) THEN <<Log2(sel[j][2]) + 1, DataRoot(tx, sel[j][1], sel[j][2])>>
        ELSE <<K + 1, DataRoot(tx, lo, C)>>]

RebuildLastChunk(ts, c, s) ==
  FoldLeft(LAMBDA acc, k :
             LET ps == ChunkPieces(ts[k], c)
                 pad == ts[k].start - c * C - Leaves(acc)
                 a1 == IF pad > 0 THEN AppendList(acc, Zeros(pad)) ELSE acc
                 a2 == IF a1 = PANIC THEN PANIC ELSE AppendSubtreeList(a1, ps)
             IN IF acc \in {ERR, PANIC} \/ ps = <<>> THEN acc
                ELSE IF a2 \in {ERR, PANIC} THEN a2 ELSE Commit(a2, k - 1),
           IF c = 0 THEN NewWithDepth(<<SENTINEL>>, K + 1, NONE) ELSE FreshLast,
           Seq1To(s + 1))

\* revert_merkle_tree(tx_seq) for tx_seq # u64::MAX
RevertMerkleTree(m, s) ==
  LET old == Leaves(m.top)
      rebuilt(a) == TryInitialize(SetTree(a, "last", RebuildLastChunk(a.txs, Leaves(a.top) - 1, s)))
  IN Then(TopDo(m, LAMBDA t : RevertTo(t, s)), LAMBDA a :
       IF Broken(a.top) THEN PANIC
       ELSE IF Leaves(a.top) = old THEN LastDo(a, LAMBDA t : RevertTo(t, s))
       ELSE Then(rebuilt(a), LAMBDA b :
              IF RootOf(b.last) = LeafAt(b.top, Leaves(b.top) - 1) THEN b
              ELSE PANIC))                                   \* assert_eq!

\* revert_to(tx_seq): the trees, then the flow store, then the tx store.
\* The truncation index is last_chunk_start_index() * PORA_CHUNK_SIZE +
\* last_chunk_merkle.leaves(), and last_chunk_start_index() is already an
\* entry index: past the first segment it lies far beyond the flow's end.
RevertTruncateIndex(m) == LastChunkStart(m) * C + Leaves(m.last)

LogRevertTo(m, s) ==
  Then(RevertMerkleTree(m, s), LAMBDA a :
    IF Broken(a.last) THEN PANIC
    ELSE [FlowTruncate(a, RevertTruncateIndex(a)) EXCEPT !.txs = SubSeq(@, 1, s + 1)])

\* revert_to(u64::MAX): reset both trees and re-seed them; (tx_seq + 1)
\* wraps to 0 in a release build, so every transaction is removed.
LogRevertAll(m) ==
  Then(TryInitialize([m EXCEPT !.top = Reset(@), !.last = Reset(@)]), LAMBDA a :
    [FlowTruncate(a, FlowPos(a)) EXCEPT !.txs = <<>>])

\* FlowStore::get_chunk_root_list (flow_store.rs is not in the sources;
\* spec 4.D, 5): the segment roots the store keeps, in segment order, each
\* as (its depth in the top tree, root).  A segment with no stored root is
\* not in the list.
GetChunkRootList(m) ==
  LET idx == SetToSortSeq({c \in SegIdx : m.roots[c] # NULL}, LAMBDA a, b : a < b)
  IN [j \in 1..Len(idx) |-> <<Log2(m.roots[idx[j]][2]) + 1, m.roots[idx[j]][1]>>]

\* LogManager::new on the database m's stores hold: the top tree from the
\* stored segment roots, the last chunk rebuilt at the last tx_seq, its root
\* appended to the top tree, then try_initialize.  An Err of new stops the
\* node as a panic does.
LogNew(m) ==
  LET n == Len(m.txs)
      start == IF n > 0 THEN n - 1 ELSE NONE
      top == NewWithSubtrees(GetChunkRootList(m), K, start)
      last == IF start = NONE THEN FreshLast ELSE RebuildLastChunk(m.txs, Leaves(top), start)
  IN IF top \in {ERR, PANIC} \/ last \in {ERR, PANIC} THEN PANIC
     ELSE TryInitialize([m EXCEPT !.top = IF Leaves(last) # 0 THEN AppendLeaf(top, Root(last))
                                          ELSE top,
                                  !.last = last])

\* Mutant: the segment root kept at the join of the two proofs.
EntryProofKeepJoin(top, sub) ==
  IF top.lemma[1] # Last(sub.lemma) THEN ERR
  ELSE [lemma |-> sub.lemma \o Tail(top.lemma), path |-> sub.path \o top.path]

\* entry_proof(top_proof, sub_proof)
EntryProof(top, sub) ==
  IF top.lemma[1] # Last(sub.lemma) THEN ERR
  ELSE [lemma |-> Front(sub.lemma) \o Tail(top.lemma), path |-> sub.path \o top.path]

\* maybe_root = None (no hash is the empty sequence)
NoRoot == <<>>

\* gen_proof(flow_index, maybe_root).  A
\* segment other than the open last one is proved from its stored entries
\* (the first-segment fix-up needs get_entries to return PORA_CHUNK_SIZE-1
\* entries, which it never does).
LogGenProof(m, i, r) ==
  LET ci == i \div C
      topProof == IF r = NoRoot THEN GenProof(m.top, ci)
                  ELSE IF AtRootVersion(m.top, r) = ERR THEN ERR
                  ELSE GenHistoryProof(m.top, AtRootVersion(m.top, r), ci)
      stored == [k \in 1..C |-> m.flow[ci * C + k - 1]]
      subProof == IF ci # Leaves(m.top) - 1 \/ Leaves(m.last) = 0
                    THEN IF ~Complete(m.flow, ci) THEN ERR
                         ELSE GenProof(NewWithDepth(stored, K + 1, NONE), i % C)
                  ELSE IF r = NoRoot THEN GenProof(m.last, i % C)
                  ELSE IF AtRootVersion(m.last, r) = ERR THEN ERR
                  ELSE GenHistoryProof(m.last, AtRootVersion(m.last, r), i % C)
  IN IF topProof = ERR \/ subProof = ERR THEN ERR ELSE EntryProof(topProof, subProof)

(***************************************************************************)
(* The read side used by RPC's download_segment(_with_proof).  None is     *)
(* NULL, an Err is ERR.                                                    *)
(***************************************************************************)
\* FlowStore::get_entries(start, end) (spec 4.D): Some only when every
\* entry of [start, end) is present.
GetEntries(m, start, end) ==
  IF \A p \in start..(end - 1) : Present(m.flow, p)
  THEN [start |-> start, data |-> [k \in 1..(end - start) |-> m.flow[start + k - 1]]]
  ELSE NULL

\* Mutant: the returned start index left as a flow index.
GetChunksByTxAndIndexRangeFlowStart(m, s, i, j) ==
  IF s >= Len(m.txs) THEN NULL
  ELSE GetEntries(m, m.txs[s + 1].start + i, m.txs[s + 1].start + j)

\* get_chunks_by_tx_and_index_range(tx_seq, index_start, index_end): the
\* entries at the tx's flow positions, their start made tx-relative.
GetChunksByTxAndIndexRange(m, s, i, j) ==
  IF s >= Len(m.txs) THEN NULL
  ELSE LET st == m.txs[s + 1].start
           ch == GetEntries(m, st + i, st + j)
       IN IF ch = NULL THEN NULL ELSE [ch EXCEPT !.start = @ - st]

\* get_chunks_with_proof_by_tx_and_index_range: the chunks, then gen_proof
\* of their first and last flow index against the live trees.
GetChunksWithProof(m, s, i, j) ==
  IF s >= Len(m.txs) THEN NULL
  ELSE LET st == m.txs[s + 1].start
           ch == GetChunksByTxAndIndexRange(m, s, i, j)
           l == LogGenProof(m, st + i, NoRoot)
           r == LogGenProof(m, st + j - 1, NoRoot)
       IN IF ch = NULL THEN NULL
          ELSE IF l = ERR \/ r = ERR THEN ERR
          ELSE [chunks |-> ch, left |-> l, right |-> r]

\* RangeProof::validate (spec 4.C): both end proofs validate at the two ends
\* of the range and recover one root.  The reconstruction of the nodes
\* inside the range is not modelled: the property compares those leaves
\* with the chain's directly.
RangeProofValidates(left, right, leaves, pos) ==
  /\ ProofValidates(left, leaves[1], pos)
  /\ ProofValidates(right, leaves[Len(leaves)], pos + Len(leaves) - 1)
  /\ Last(left.lemma) = Last(right.lemma)

\* validate_range_proof(tx_seq, data): an invalid proof is an Err; a valid
\* one is accepted when pora_chunks_merkle.check_root knows its root.
LogValidateRangeProof(m, s, d) ==
  IF s >= Len(m.txs) THEN ERR                                        \* tx missing
  ELSE IF ~RangeProofValidates(d.left, d.right, d.chunks.data, d.chunks.start + m.txs[s + 1].start)
  THEN ERR
  ELSE CheckRoot(m.top, Last(d.left.lemma))

-----------------------------------------------------------------------------
(***************************************************************************)
(* The manager driven by the sync service and RPC: one handler at a time   *)
(* (every call holds the store's write lock, storage-async/src/lib.rs).    *)
(***************************************************************************)
CONSTANTS
  Vals,       \* leaf hashes of data entries
  MaxTxs,     \* bound on the transactions in the store
  MaxTxLen,   \* bound on a transaction's entries
  MaxReverts, \* bound on revert_to(tx_seq) calls
  MaxResets,  \* bound on revert_to(u64::MAX) calls
  MaxRestarts, \* bound on restarts of the node
  PutTxMayCrash \* whether a restart may also cut put_tx in two

VARIABLES lm, panicked, reverts, resets, restarts

vars == <<lm, panicked, reverts, resets, restarts>>

\* LogManager::new on an empty database.
Init ==
  /\ lm = TryInitialize([top |-> New(<<>>, K, NONE), last |-> FreshLast,
                         flow |-> [p \in 0..(FlowCap - 1) |-> NULL],
                         roots |-> [c \in SegIdx |-> NULL],
                         txs |-> <<>>, err |-> FALSE])
  /\ panicked = FALSE
  /\ reverts = 0
  /\ resets = 0
  /\ restarts = 0

\* A handler's outcome: a panic ends the node; an Err keeps what was written.
Step(res) ==
  IF res = PANIC THEN panicked' = TRUE /\ UNCHANGED lm
  ELSE lm' = [res EXCEPT !.err = FALSE] /\ UNCHANGED panicked

TxData == UNION {[1..n -> Vals] : n \in 1..MaxTxLen}

PutTx(data) == Len(lm.txs) < MaxTxs /\ Step(LogPutTx(lm, data)) /\ UNCHANGED <<reverts, resets, restarts>>

\* put_chunks / put_chunks_with_tx_hash of the tx's own data.
PutChunks(s, off, n) ==
  /\ s < Len(lm.txs) /\ off + n <= Len(lm.txs[s + 1].data)
  /\ Step(LogPutChunks(lm, s, off, SubSeq(lm.txs[s + 1].data, off + 1, off + n)))
  /\ UNCHANGED <<reverts, resets, restarts>>

FinalizeTx(s) ==
  s < Len(lm.txs) /\ Step(LogFinalizeTx(lm, s)) /\ UNCHANGED <<reverts, resets, restarts>>

FinalizeTxWithHash(s) ==
  s < Len(lm.txs) /\ Step(LogFinalizeTxWithHash(lm, s)) /\ UNCHANGED <<reverts, resets, restarts>>

Revert(s) ==
  /\ s < Len(lm.txs) /\ reverts < MaxReverts
  /\ Step(LogRevertTo(lm, s)) /\ reverts' = reverts + 1 /\ UNCHANGED <<resets, restarts>>

RevertAll ==
  /\ resets < MaxResets
  /\ Step(LogRevertAll(lm)) /\ resets' = resets + 1 /\ UNCHANGED <<reverts, restarts>>

\* The node stops between two handlers and starts again on the same
\* database: the trees, kept only in memory, are rebuilt by LogManager::new.
Restart ==
  /\ restarts < MaxRestarts
  /\ Step(LogNew(lm)) /\ restarts' = restarts + 1 /\ UNCHANGED <<reverts, resets>>

\* The node stops inside put_tx after append_subtree_list returned and
\* before tx_store.put_tx ("tx_store and the merkle tree are not updated
\* atomically"): the flow store keeps the padding and segment roots of a tx
\* the tx store never recorded, and the node starts again on that database.
PutTxCrash(data) ==
  /\ PutTxMayCrash /\ restarts < MaxRestarts /\ Len(lm.txs) < MaxTxs
  /\ LET tx == [start |-> TxStartAfter(ChainEnd(lm.txs), Len(data)), data |-> data, done |-> FALSE]
         a == LogAppendSubtreeList(lm, TxNodes(tx))
     IN /\ a # PANIC /\ ~a.err
        /\ Step(LogNew(a))
  /\ restarts' = restarts + 1 /\ UNCHANGED <<reverts, resets>>

Next ==
  /\ ~panicked
  /\ \/ \E d \in TxData : PutTx(d)
     \/ \E s \in 0..(MaxTxs - 1), off \in 0..(MaxTxLen - 1), n \in 1..MaxTxLen : PutChunks(s, off, n)
     \/ \E s \in 0..(MaxTxs - 1) : FinalizeTx(s)
     \/ \E s \in 0..(MaxTxs - 1) : FinalizeTxWithHash(s)
     \/ \E s \in 0..(MaxTxs - 1) : Revert(s)
     \/ RevertAll
     \/ Restart
     \/ \E d \in TxData : PutTxCrash(d)

Spec == Init /\ [][Next]_vars

-----------------------------------------------------------------------------
(***************************************************************************)
(* Properties                                                              *)
(***************************************************************************)
Live == ~panicked

\* Every variable holds a value of its type, and neither tree has lost its
\* layers (a tree without layers panics on the next call).
TypeOK ==
  /\ panicked \in BOOLEAN /\ reverts \in 0..MaxReverts /\ resets \in 0..MaxResets
  /\ restarts \in 0..MaxRestarts
  /\ DOMAIN lm.flow = 0..(FlowCap - 1) /\ DOMAIN lm.roots = SegIdx
  /\ lm.err = FALSE
  /\ Len(lm.txs) <= MaxTxs
  /\ \A k \in 1..Len(lm.txs) : lm.txs[k].data \in TxData /\ lm.txs[k].done \in BOOLEAN
  /\ lm.top.leafHeight = K /\ lm.last.leafHeight = 0 /\ lm.last.minDepth = K + 1
  /\ Live => ~Broken(lm.top) /\ ~Broken(lm.last)

\* The flow of the chain's transactions as of commit s.
TruthAt(s) == Truth(SubSeq(lm.txs, 1, s + 1))

\* The two trees are the flow tree of the chain's transactions (spec 4.F):
\* the flow length they stand for is where the chain's flow ends, and every
\* known node of the top tree and of the last-chunk tree is the node of
\* the Merkle tree over the chain's entries at its height and position.
\* Padding, subtree ingest, filling, and the revert and rebuild of the last
\* chunk all have to keep this.
TreesSound ==
  Live =>
    LET T == Truth(lm.txs)
        lcs == LastChunkStart(lm)
    IN /\ FlowPos(lm) = Len(T)
       /\ \A h \in 0..(Len(lm.top.layers) - 1) : \A i \in 0..(LayerLen(lm.top.layers, h) - 1) :
            Node(lm.top.layers, h, i) # NULL =>
              Node(lm.top.layers, h, i) = RefNode(T, 0, h + K, i)
       /\ \A h \in 0..(Len(lm.last.layers) - 1) : \A i \in 0..(LayerLen(lm.last.layers, h) - 1) :
            Node(lm.last.layers, h, i) # NULL =>
              Node(lm.last.layers, h, i) = RefNode(T, 0, h, lcs \div 2^h + i)

\* The flow store holds only the chain's entries: nothing past the flow's
\* end (revert_to truncates at the trees' flow length) and nothing that
\* differs from the chain's entry; every one-segment root it recorded is
\* the root of that segment.
StoreSound ==
  Live =>
    LET T == Truth(lm.txs)
    IN /\ \A p \in DOMAIN lm.flow : Present(lm.flow, p) => p < Len(T) /\ lm.flow[p] = T[p + 1]
       /\ \A c \in SegIdx : lm.roots[c] # NULL /\ lm.roots[c][2] = 1 =>
            lm.roots[c][1] = RefNode(T, 0, K, c)

\* A proof gen_proof assembles from the two trees and the stored entries,
\* for the live flow or for the root of a live commit, whose siblings are
\* all known, validates for the chain's entry at that index as of that
\* version and ends with that version's root (spec P3, P7, and gen_proof's
\* stitching of the two).
Usable(p) == p # ERR /\ \A k \in 1..Len(p.lemma) : p.lemma[k] # NULL

ProofsSound ==
  Live =>
    /\ \A i \in 0..(Len(Truth(lm.txs)) - 1) :
         LET p == LogGenProof(lm, i, NoRoot)
         IN Usable(p) => ProofValidates(p, Truth(lm.txs)[i + 1], i) /\ Last(p.lemma) = Root(lm.top)
    /\ \A s \in 0..(Len(lm.txs) - 1) :
         s \in DOMAIN lm.top.delta /\ lm.top.delta[s] # <<>> =>
           LET r == Last(lm.top.delta[s])[2]
           IN \A i \in 0..(Len(TruthAt(s)) - 1) :
                LET p == LogGenProof(lm, i, r)
                IN Usable(p) => ProofValidates(p, TruthAt(s)[i + 1], i) /\ Last(p.lemma) = r

\* validate_range_proof accepts a proof when pora_chunks_merkle.check_root
\* knows its root: every root it knows is the flow root of a live commit.
RootsSound ==
  Live =>
    \A r \in DOMAIN lm.top.rootMap :
      LET s == lm.top.rootMap[r]
      IN /\ s < Len(lm.txs) /\ s \in DOMAIN lm.top.delta /\ lm.top.delta[s] # <<>>
         /\ r = RefNode(TruthAt(s), 0, Len(lm.top.delta[s]) - 1 + K, 0)

\* The range reads RPC serves downloads from: whenever
\* get_chunks_with_proof_by_tx_and_index_range returns chunks with usable
\* proofs for a range of a tx, the chunks are that range of the tx's data,
\* tx-relative, and validate_range_proof accepts them (a valid range proof
\* whose root check_root knows).
RangeReadsSound ==
  Live =>
    \A s \in 0..(Len(lm.txs) - 1) :
      LET data == lm.txs[s + 1].data
      IN \A i \in 0..(Len(data) - 1), j \in 1..Len(data) :
           i < j =>
             \A d \in {GetChunksWithProof(lm, s, i, j)} :
               d \notin {NULL, ERR} /\ Usable(d.left) /\ Usable(d.right) =>
                  /\ d.chunks = [start |-> i, data |-> SubSeq(data, i + 1, j)]
                  /\ LogValidateRangeProof(lm, s, d) = TRUE

\* ProofsSound as long as the node has not restarted: the restarts runs
\* show what a restart does to the proofs, this one what reverts do to them
\* while restarts and crashes inside put_tx also happen.
ProofsSoundUntilRestart == restarts = 0 => ProofsSound

\* A chain reorg can be followed: revert_to(s) of every transaction the tx
\* store holds finds the snapshot of s in both trees' delta_nodes_map and
\* does not fail with "tx_seq unavailable" (a panic is NoPanic's concern).
\* Every put_tx commits both trees, revert_to keeps the snapshots up to s,
\* the last-chunk tree is replaced at a closed chunk and rebuilt at a
\* revert, and LogManager::new commits only the last tx_seq.
RevertsAvailable ==
  Live => \A s \in 0..(Len(lm.txs) - 1) :
            LET r == LogRevertTo(lm, s) IN r = PANIC \/ ~r.err

\* RevertsAvailable as long as the node has not restarted: after a restart
\* the trees hold the snapshot of the last tx_seq only.
RevertsAvailableUntilRestart == restarts = 0 => RevertsAvailable

\* No handler panics.
NoPanic == ~panicked


(***************************************************************************)
(* Refinement of FlowLog: the transactions as the tx store holds them, and *)
(* the offsets of each whose entries the flow store holds.                 *)
(***************************************************************************)
StoredOffsets(m, k) ==
  {o \in 0..(Len(m.txs[k].data) - 1) : Present(m.flow, m.txs[k].start + o)}

FL == INSTANCE FlowLog WITH
        TxValues <- TxData,
        txs <- [k \in 1..Len(lm.txs) |-> [data |-> lm.txs[k].data, done |-> lm.txs[k].done]],
        have <- [k \in 1..Len(lm.txs) |-> StoredOffsets(lm, k)]

\* The log manager implements the log store's contract: every handler is a
\* step of FlowLog or leaves the transactions and their stored entries as
\* they were.  Entries appear only for the transaction put_chunks wrote,
\* only finalize_tx or a copy from a finalized duplicate finalizes, and
\* only revert_to removes transactions or entries.
RefinesFlowLog == FL!Spec

\* A finalized transaction has every entry in the flow store.
DoneIsComplete == FL!DoneIsComplete

\* tx_subtree_root_list_padded gives the subtree list the chain lays a
\* transaction out with (its merkle_nodes), for every data of up to
\* RootListLen entries.
RootListMatchesChain ==
  \A n \in 1..RootListLen : \A d \in [1..n -> Vals] :
    TxSubtreeRootListPadded(d) = TxNodes([start |-> 0, data |-> d])
=============================================================================
