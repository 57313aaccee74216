------------------------------ MODULE IonianRpc ------------------------------
(***************************************************************************)
(* The download handlers of the Ionian JSON-RPC server (rpc/src/ionian/    *)
(* impl.rs) over the log manager's stores.  A file is named by its data    *)
(* root; the model's data root is the data itself (hashes are collision    *)
(* free).  A handler's response is None (NULL), an error response (ERR) or *)
(* the served chunks.  Each handler is an operator over one state of the   *)
(* log manager: its store calls run at separate awaits, but while no       *)
(* revert runs the tx store and the flow store only grow, so a later call  *)
(* sees a superset of what an earlier one saw and the outcome is the one   *)
(* of the state in which the last call runs.                               *)
(***************************************************************************)
EXTENDS LogManager

CONSTANTS
  ChunksPerSegment   \* config.chunks_per_segment

ASSUME ChunksPerSegment \in Nat \ {0}

\* get_first_tx_seq_by_data_root (tx_store.rs, not in the sources; spec
\* 4.E): the first seq of a transaction with this data root.
FirstTxSeqByDataRoot(m, d) ==
  LET ss == SameRoot(m, d) IN IF ss = <<>> THEN NONE ELSE ss[1]

\* download_segment(data_root, start_index, end_index): the range checks,
\* get_tx_seq_by_data_root, then get_chunks_by_tx_and_index_range.
DownloadSegment(m, d, i, j) ==
  IF i >= j \/ j - i > ChunksPerSegment THEN ERR
  ELSE LET s == FirstTxSeqByDataRoot(m, d)
           ch == IF s = NONE THEN NULL ELSE GetChunksByTxAndIndexRange(m, s, i, j)
       IN IF ch = NULL THEN NULL ELSE [start |-> i, end |-> j, data |-> ch.data]

\* SegmentWithProof::split_file_into_segments (shared_types, not in the
\* sources): the number of segments of a file of n chunks and the size of
\* its last segment, in chunks (the handler divides the byte size by
\* CHUNK_SIZE; the model's files are whole chunks).
SplitFileIntoSegments(n, cps) ==
  LET num == (n + cps - 1) \div cps IN <<num, n - (num - 1) * cps>>

\* Mutant: every segment taken as ChunksPerSegment chunks long.
DownloadSegmentWithProofNoLastClamp(m, d, index) ==
  LET s == FirstTxSeqByDataRoot(m, d)
  IN IF s = NONE THEN NULL
     ELSE IF ~m.txs[s + 1].done THEN ERR
     ELSE LET num == SplitFileIntoSegments(Len(m.txs[s + 1].data), ChunksPerSegment)[1]
              i == index * ChunksPerSegment
              j == i + ChunksPerSegment
              seg == GetChunksWithProof(m, s, i, j)
          IN IF index >= num THEN ERR
             ELSE IF seg \in {NULL, ERR} THEN seg
             ELSE [start |-> i, end |-> j, data |-> seg.chunks.data]

\* download_segment_with_proof(data_root, index): get_tx_by_data_root, the
\* check_tx_completed guard, the segment's chunk range from the tx's size,
\* then get_chunks_with_proof_by_tx_and_index_range.  compute_segment_proof
\* (shared_types, not in the sources) builds the proof in the file's own
\* tree and is not modelled.
DownloadSegmentWithProof(m, d, index) ==
  LET s == FirstTxSeqByDataRoot(m, d)
  IN IF s = NONE THEN NULL
     ELSE IF ~m.txs[s + 1].done THEN ERR                    \* "file not finalized yet"
     ELSE LET sp == SplitFileIntoSegments(Len(m.txs[s + 1].data), ChunksPerSegment)
              i == index * ChunksPerSegment
              j == IF index = sp[1] - 1 THEN i + sp[2] ELSE i + ChunksPerSegment
              seg == GetChunksWithProof(m, s, i, j)
          IN IF index >= sp[1] THEN ERR                      \* "index out of bound"
             ELSE IF seg \in {NULL, ERR} THEN seg
             ELSE [start |-> i, end |-> j, data |-> seg.chunks.data]

-----------------------------------------------------------------------------
(***************************************************************************)
(* Properties                                                              *)
(***************************************************************************)
Served(r) == r \notin {NULL, ERR}

\* The chunks a download serves are the file's own: for every file the
\* chain holds, a download_segment inside the file and every segment
\* download_segment_with_proof serves are the file's chunks at the offsets
\* the response stands for, never padding or another file's entries.  The
\* lookup by data root, the tx-relative offsets and the last segment's
\* length must all agree.
DownloadsServeFileData ==
  Live =>
    \A k \in 1..Len(lm.txs) :
      LET d == lm.txs[k].data
      IN /\ \A i \in 0..(Len(d) - 1), j \in 1..Len(d) :
              \A r \in {DownloadSegment(lm, d, i, j)} :
                Served(r) => r.data = SubSeq(d, i + 1, j)
         /\ \A index \in 0..(SplitFileIntoSegments(Len(d), ChunksPerSegment)[1] - 1) :
              \A r \in {DownloadSegmentWithProof(lm, d, index)} :
                Served(r) => r.end <= Len(d) /\ r.data = SubSeq(d, r.start + 1, r.end)

\* download_segment checks the range only against chunks_per_segment, not
\* against the file's size: a download of a file's chunks stays inside the
\* file, or is refused.
DownloadsStayInFile ==
  Live =>
    \A k \in 1..Len(lm.txs) :
      LET d == lm.txs[k].data
      IN \A i \in 0..(Len(d) - 1) : \A j \in (i + 1)..(i + ChunksPerSegment) :
           Served(DownloadSegment(lm, d, i, j)) => j <= Len(d)

\* download_segment_with_proof refuses a file as "not finalized yet" only
\* when no transaction of it is finalized: the transaction get_tx_by_data_root
\* gives (the first with the root) is finalized as soon as any is.
\* finalize_tx copies a tx's data to the later transactions with its root
\* only when it is the first of them.
FinalizedFilesNotRefused ==
  Live =>
    \A k \in 1..Len(lm.txs) :
      lm.txs[k].done => lm.txs[FirstTxSeqByDataRoot(lm, lm.txs[k].data) + 1].done

=============================================================================
