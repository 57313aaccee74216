# TLA+ models of the Ionian storage node: flow Merkle tree, log manager and miner

This directory holds TLA+ models of the data path of the Ionian storage node (`src/`):
- the append-only Merkle tree library (`common/append_merkle`);
- the log manager that keeps the flow tree, the flow store and the transaction store in step (`node/storage/src/log_store/log_manager.rs`), and the contract it promises its callers;
- the download handlers of the JSON-RPC server (`node/rpc/src/ionian/impl.rs`), over the log manager's stores;
- the miner's three tasks: the PoRA mining loop (`node/miner/src/mine.rs`), the data sealer (`sealer.rs`) and the answer submitter (`submitter.rs`).

The TLC configurations check these models. `PROJECT.json` lists the components, runs, mutants, the definition-to-source map, findings and hazards.

## The system and how its parts interact

| Part | Source | What it does |
|---|---|---|
| Hash algebra | `common/append_merkle/src/merkle_tree.rs` | `ZERO_HASHES`, `end_pad`, `parent_single`, the `MerkleTreeRead` accessors and `gen_proof` |
| AppendMerkleTree | `common/append_merkle/src/lib.rs` | Append-only tree with unknown (null) leaves filled later, subtree grafting, `update_last`, commits keyed by `tx_seq` (`delta_nodes_map`, `root_to_tx_seq_map`), `revert_to`, `reset`, and history views (`HistoryTree`) |
| LogManager | `node/storage/src/log_store/log_manager.rs` | Keeps the flow tree as two AppendMerkleTrees, described below, and writes the flow store and the tx store |
| FlowStore, TransactionStore | not in `src/` (spec 4.D, 4.E) | Entries and segment roots; txs, finalization, the data-root index, and `rebuild_last_chunk_merkle` |
| Async store | `node/storage-async/src/lib.rs` | Runs every store call under the store's write lock |
| PoRA service | `node/miner/src/mine.rs` | One task: a biased `select!` over the admin broadcast (`ToggleMining`, `SetStartPosition`, `SetEndPosition`), the watcher's mine contexts, and a mining iteration whose answers go to the submitter |
| Sealer | `node/miner/src/sealer.rs` | One task: learns the chain's flow length and epoch, pulls unsealed chunks from the flow store (read lock), seals each with the context of the epoch holding its last entry (from a cache or the chain), submits the answers (write lock) |
| Submitter | `node/miner/src/submitter.rs` | One task: for each answer, queries the sealed context on chain, builds the flow proof, sends the transaction and waits for the receipt |
| RPC | `node/rpc/src/{ionian,admin}` | Upload and download of segments, admin calls |

The two trees of the LogManager are:
- the top tree `pora_chunks_merkle`, over the roots of segments (PoRA chunks) of `PORA_CHUNK_SIZE` entries;
- the tree of the open last segment, `last_chunk_merkle`.

The root of the last segment's tree is the top tree's last leaf while that segment is open. Once the segment fills, its root is persisted and the last-chunk tree is replaced by a fresh one.

The flow on chain lays out each transaction at a start index aligned to its first subtree, padding the gap with zero entries. `put_tx` appends the tx's subtree roots (`merkle_nodes`) and commits both trees. `put_chunks` fills in the data later. `finalize_tx` marks a tx complete and copies its data to later txs with the same data root. `revert_to` undoes txs, and `gen_proof` stitches a proof from the two trees. The async wrapper serialises every call under one write lock, so the log manager runs one handler at a time.

The miner's tasks share the store (through its `RwLock`) and the chain. The sealer writes seals into the flow store's seal column (not in `src/`). The submitter reports the sealed context of the chunk an answer recalls, and the chain checks it against the seal. Between any two awaits of a task, the other writers of the store (sync, RPC) and the chain move on.

## Modules

| Module | Models | State and actions |
|---|---|---|
| `MerkleHash` | hash algebra | `Leaf`, `Parent` (symbolic, collision free), `ZERO_HASHES` (recursive), `EndPad`, `ParentSingle`; the reference tree `RefNode` |
| `MerkleTree` | `lib.rs`, `merkle_tree.rs` | A tree is a record `[layers, delta, rootMap, minDepth, leafHeight]`. Every method is an operator returning the new tree, `ERR` (the code's `Err`) or `PANIC`. `Recompute` is the code's `recompute` (pair loop, remainder with `parent_single`, write-back with its panic and unreachable cases), written recursively over heights. |
| `AppendMerkle` | one tree driven by a client | Variables: `tree`, ghost `truth` (true leaf hashes), ghost `history` (truth at each live commit), `single`, `panicked`, `resets`. Actions: `Append1`, `AppendList2`, `AppendSubtreeOf`, `UpdateLastTo`, `Fill`, `DoCommit`, `DoRevert`, `DoReset`. |
| `LogManager` | log manager with flow and tx stores | One record `lm = [top, last, flow, roots, txs, err]`, plus `panicked` and bounded counters. `Then` threads Rust's `?`: an `Err` stops the handler and keeps earlier writes, and a panic stops the node. Actions: `PutTx`, `PutChunks`, `FinalizeTx`, `FinalizeTxWithHash`, `Revert(s)`, `RevertAll` (`revert_to(u64::MAX)`), `Restart` (`LogManager::new` on the stored database) and `PutTxCrash` (a crash inside `put_tx` after `append_subtree_list`, then `LogManager::new`). |
| `IonianRpc` | `rpc/src/ionian/impl.rs` | Extends `LogManager` with no new state. `DownloadSegment` and `DownloadSegmentWithProof` are operators giving a handler's response over the log manager's state: `NULL` (None), `ERR` (an error response) or the served chunks with their range. They follow the handler's checks and store calls in order: the lookup by data root (`FirstTxSeqByDataRoot`), the finalization check, the segment range from the file size (`SplitFileIntoSegments`), and the chunk read. |
| `FlowLog` | the log store's contract (spec 4.E, 4.F) | `txs` (data, done) and `have` (stored offsets per tx). Actions `PutTx`, `PutChunks`, `Finalize`, `RevertTo`. It maps no code; `LogManager` is checked to refine it. |
| `Miner` | `mine.rs` | Variables: the broadcast buffer `msgs` with `lagged`/`msgClosed`, the context queue `ctxq`/`ctxClosed`, `puzzle`, `mineRange`, `miningEnabled`, `channelOpened`, sent `answers`; ghost `wanted` (the last settings sent). Service actions `RecvMsg`, `RecvCtx`, `Mine`, each guarded by the arms above it being not ready (biased select). Environment: `SendMsg` (overwrites the oldest when full and sets lag), `CloseMsg`, `SendCtx`, `CloseCtx`. |
| `Sealer` | `sealer.rs` | Variables: the chain's epoch ends `ends`, `context_cache`, `last_context_flow_length`, the iteration's `phase`/`tasks`/`answers`, and the flow store's `version`/`filled`/`sealed` per chunk. Actions `UpdateFlowLength`, `FetchTask`, `SealTask` (one task of the loop: cached, queried, or failed), `SubmitAnswer`; environment `ChainGrow`, `WriteChunk`. |
| `Submitter` | `submitter.rs`, composed with `Sealer` | `mined` (the answer channel), `inFlight`, `submitted`. Actions `QueryContext`, `SendTx` (sent, or a send error) and `Receipt` (accepted, or dropped after the retries); environment `MineAnswer(i)` for a sealed chunk. |
| `MCAppendMerkle`, `MCLogManager`, `MCMiner` | TLC instances | Model values for the data entries; the miner's admin messages. `MCLogManager` extends `IonianRpc`, so every log manager run can also check the download handlers. |

The read side used by RPC downloads is modelled as operators: `GetChunksByTxAndIndexRange`, `GetChunksWithProof` and `LogValidateRangeProof`. A download's store calls run at separate awaits. While no revert runs, the tx store and the flow store only grow, so each later call sees a superset of what the earlier ones saw. A download's response is therefore the one `IonianRpc`'s operator gives in the state of its last store call. Each LogManager handler (`LogPutTx`, `AppendEntries`, `PadTx`, `SubtreeStep`, `CopyTxData`, `RevertMerkleTree`, `TryInitialize`, `LogGenProof`, ...) is translated from the code with every tree, flow-store and tx-store call it makes, in the code's order.

The flow store and tx store are not in `src/`. Their operations (`FlowAppend`, `PutBatchRoot`, `FlowTruncate`, `MarkDone`, `SameRoot`, `RebuildLastChunk`) are modelled from the spec and marked `spec_modelled` in the map. So are the chain's layout of a transaction (`TxNodes`, `TxStartAfter`, `Truth`) and `Proof::validate`.

The seal column of the flow store is modelled from spec 4.D (`PullSealChunk`, `SubmitSealResult`, `spec_modelled`): a chunk's data has a version bumped on every write, and a seal is kept only if its version is still current. The chain is an environment: epochs are closed at growing flow lengths, and `query_context_at_position` returns the epoch holding the position, or fails past the flow.

### Refinement

`LogManager` ends with `FL == INSTANCE FlowLog WITH ...`. The mapping takes each tx's data and done flag from the tx store, and `have` from the flow entries present at the tx's positions (`StoredOffsets`). `RefinesFlowLog == FL!Spec` is checked as a PROPERTY. Each LogManager step must be a FlowLog step or leave the mapped state unchanged. Pad entries, tree updates and failed handlers are stuttering steps.

### Correspondence to the reference truth

The properties compare the code's state with an independent reference. `RefNode(T, lh, h, i)` is the node at height h, position i of the perfect tree over leaf hashes T, padded with zero subtrees.

For `AppendMerkle`, T is the ghost truth. For `LogManager`, T is `Truth(txs)`: the sentinel, then for each tx its zero padding and its data, as the chain lays it out.

## Runs

The project checks 12 runs (`PROJECT.json`):

| Run | Config | Expect | What it shows |
|---|---|---|---|
| `merkle_top` | `MCAppendMerkle.cfg` | pass | Top-shaped tree (leaf_height 1, 3 leaves, 2 commits, 1 reset): `NodesSound`, `HistorySound`, `ProofsSound` hold under every order of calls |
| `log_manager` | `MCLogManager.cfg` | pass | 2-entry segments, 3 txs of 1-2 entries over 2 values (equal data roots included): trees, flow store, proofs and range reads match the chain, downloads serve only the requested file's chunks (`DownloadsServeFileData`), nothing panics, and the log manager refines `FlowLog` |
| `log_manager_revert_restart` | `MCLogManagerRevert.cfg` | pass | With one `revert_to(s)`, one `revert_to(u64::MAX)` and one restart (clean, or a crash inside `put_tx`) in any order, every proof served before the restart validates (`ProofsSoundUntilRestart`), and every stored tx can be reverted to until then (`RevertsAvailableUntilRestart`) |
| `log_revert_last_chunk` | `MCLogManager_RevertLastChunk.cfg` | violation | Revert after the last chunk was closed: the trees stand for a longer flow than the chain's |
| `log_revert_pad_panic` | `MCLogManager_RevertPadPanic.cfg` | violation | Revert replays un-truncated pad entries into the rebuilt last chunk, and `fill_leaf` goes out of bounds |
| `log_reset_roots` | `MCLogManager_ResetRoots.cfg` | violation | After `revert_to(u64::MAX)`, `check_root` still accepts the roots of reverted txs |
| `log_revert_truncate` | `MCLogManager_RevertTruncate.cfg` | violation | `revert_to` past segment 0 truncates the flow store at `last_chunk_start_index() * PORA_CHUNK_SIZE + leaves`. The start index is already in entries, so it is scaled twice: the roots and entries of reverted txs stay in the store (`log_manager.rs:208`) |
| `log_restart_revert` | `MCLogManager_RestartRevert.cfg` | violation | After a restart, `revert_to` of the last tx truncates the data of that finalized tx: `new_with_subtrees` commits before `new` appends the last chunk's root (`log_manager.rs:422`) |
| `miner` | `MCMiner.cfg` | pass | Two-message broadcast buffer and both channels closing: answers stay inside the flow, the config arm is switched off only after its channel is closed and drained, every setting and context sent is eventually in force when no message is overwritten (`ServiceCatchesUpWithoutLag`), and mining proceeds while the context channel is open (`MiningProceedsWhileCtxOpen`) |
| `miner_ctx_closed` | `MCMiner_CtxClosed.cfg` | violation | Once the watcher drops the context sender, the unguarded context arm starves mining (`mine.rs:132`) |
| `submitter` | `MCSubmitter.cfg` | pass | Sealer and submitter together, with chain growth, chunk rewrites and failing calls: every kept seal is sound, every stored chunk on chain is eventually sealed, and the submitter's loop stalls only on a transaction that stays pending |
| `submitter_sealed_context` | `MCSubmitter_SealedContext.cfg` | violation | The submitter reports the context one position past the sealed chunk, the next epoch's at a boundary (`submitter.rs:66`) |

The directory also keeps configurations outside the run list. They are used while developing the models, and each was run with the result given here:
- `MCAppendMerkleWide.cfg` passes. It checks a `new_with_depth(3)` tree, the last-chunk shape.
- `MCLogManagerK2.cfg` passes, in about 2 minutes. It uses 4-entry segments and txs of up to 4 entries.
- `MCSealer.cfg` passes. It checks the sealer alone.
- `MCLogManagerRefineReset.cfg` passes. It checks the refinement across a reset.
- `MCSubmitter_ReceiptHangs.cfg` (`AnswersDrain`): a transaction stays pending, so the answers behind it are never submitted.
- `MCMinerFaults.cfg` passes. It checks `TypeOK` and `AnswersInFlow` with a one-message buffer.
- Three restart configurations report a violation:
  - `MCLogManager_PutTxCrash.cfg` (`ProofsSound`): a crash inside `put_tx`, after `append_subtree_list` and before `tx_store.put_tx`, keeps the tx's padding and segment roots. The code marks this with the TODO at `log_manager.rs:133`. After the restart the same tx is put again behind them, and its proofs no longer validate at its `start_entry_index`.
  - `MCLogManager_RestartRevertErr.cfg` (`RevertsAvailable`): `LogManager::new` gives both trees the snapshot of the last tx_seq only (`new_with_subtrees` and `new_with_depth` with `start_tx_seq`). After a restart with two txs stored, `revert_to(0)` fails with "tx_seq unavailable" (append_merkle `lib.rs:379`), and so does every retry of a reorg deeper than one tx.
  - `MCLogManager_RestartPad.cfg` (`TreesSound`): `pad_tx`'s `last_chunk_pad` branch closes segment 0 (sentinel plus pad) without `put_batch_root`. The flow store never completes that segment because the sentinel is not stored. After a restart `get_chunk_root_list` leaves it out, so the top tree is shifted by one leaf. This depends on the spec-modelled flow store.
- Several configurations report a violation:
  - `MCAppendMerkle_NoPanic.cfg`: a revert to a snapshot committed on an empty tree panics.
  - `MCAppendMerkle_KnownLeafProofs.cfg`: the proof of a leaf filled inside a grafted subtree does not validate.
  - `MCMiner_IsCovered.cfg`: `is_covered` uses `||` where an overlap test is needed.
  - `MCLogManager_RootList.cfg`: `tx_subtree_root_list_padded` advances with `start_index += end`, so a 7-entry tx gets a wrong third root. It matches for 1 to 6 entries.
  - `MCLogManager_DownloadOutOfFile.cfg` (`DownloadsStayInFile`): `download_segment` bounds the range only by `chunks_per_segment`, not by the file's size (`impl.rs:84-96`). With two one-chunk files, `download_segment(root, 0, 2)` serves the first file's chunk and the second file's.
  - `MCLogManager_FinalizedRefused.cfg` (`FinalizedFilesNotRefused`): `finalize_tx` copies data to the other txs with the root only from the first of them (`log_manager.rs:166`). If a later duplicate is uploaded and finalized first, the first tx stays unfinalized. `download_segment_with_proof` looks the file up by its first tx and refuses it as "file not finalized yet".
  - `MCLogManagerRefineRevert.cfg`: the refinement fails after a revert, because entries of reverted txs survive the flow truncate (the doubly scaled index of `log_revert_truncate`). A re-put tx is then finalized without `put_chunks`.
  - `MCMiner_Lag.cfg` (`ServiceCatchesUp`): when more config messages are queued than the broadcast channel holds, the receiver gets `Lagged`, which `Err(_) => {}` ignores (`mine.rs:126`). The overwritten setting is never applied. This was a run of its own until the run list's slots went to the log manager's findings.

### Properties

`AppendMerkle`:
- `TypeOK` is the type invariant.
- `NodesSound`: every known node equals the reference node.
- `HistorySound`: every live commit's history view equals the reference tree of that commit's truth.
- `ProofsSound`: every proof with known siblings, live or historical, validates and ends at the right root.
- `NoPanic` and `KnownLeafProofs` are the two violated properties.

`LogManager`:
- `TypeOK` is the type invariant; it also requires that neither tree has lost its layers.
- `TreesSound`: the flow length the trees stand for is the chain's, and every known node of both trees is the reference node at its height and flow position.
- `StoreSound`: the flow store holds only the chain's entries, and every segment root it recorded is that segment's root.
- `ProofsSound`: `gen_proof` with and without a root returns only valid proofs.
- `ProofsSoundUntilRestart`: `ProofsSound` in every state before the first restart. The restart configurations above show why it cannot hold after one.
- `RevertsAvailable`: `revert_to(s)` of every tx the tx store holds finds the snapshot of `s` in both trees, so a chain reorg can be followed. `RevertsAvailableUntilRestart` states it before the first restart. `MCLogManager_RestartRevertErr.cfg` shows why it cannot hold after one.
- `RootsSound`: every root `check_root` knows is the root of a live commit.
- `RangeReadsSound`: the range reads that RPC downloads are served from are correct. Whenever `get_chunks_with_proof_by_tx_and_index_range` returns chunks with usable proofs for a range of a tx, the chunks are that range of the tx's data, with a tx-relative start. `validate_range_proof` also accepts them. The range proof's check of the nodes inside the range (spec 4.C) is not modelled; the property compares those leaves with the chain's directly.
- `NoPanic`: no handler panics.
- `DoneIsComplete`: a finalized tx has all its entries in the flow store.
- `RefinesFlowLog`: every behaviour is a behaviour of `FlowLog`.
- `RootListMatchesChain`: `tx_subtree_root_list_padded` gives the chain's subtree roots.

`IonianRpc`:
- `DownloadsServeFileData`: for every file the chain holds, a `download_segment` range inside the file serves that range of the file's chunks. Every segment `download_segment_with_proof` serves ends inside the file and holds the file's chunks at its offsets.
- `DownloadsStayInFile` and `FinalizedFilesNotRefused` are the two violated properties of the extra configurations below.

`Miner`:
- `TypeOK` also states that the config arm is switched off only once the channel is closed and drained.
- `AnswersInFlow`: every answer mines whole loadings inside its context's flow, starting on a pricing boundary.
- `ServiceCatchesUp`: eventually the service's mining switch, range and puzzle are the last ones sent. `ServiceCatchesUpWithoutLag` states it for behaviours in which no message is overwritten.
- `MiningProceeds`: while mining is possible, an iteration eventually runs. `MiningProceedsWhileCtxOpen` states it for behaviours in which the context channel stays open.
- `IsCoveredMeansOverlap`: `is_covered` is the overlap of the loading window with the custom range.

`Sealer` and `Submitter`:
- `SealSound`: every seal the store keeps is for the chunk's current data, with the digest and end of the epoch holding the chunk's last entry.
- `EventuallySealed`: every stored chunk whose epoch is on chain is eventually sealed.
- `AnswersDrainUnlessPending`: every answer handed to the submitter is eventually done with, or the submitter waits forever on a pending transaction. A failed query, a send error or a dropped transaction gives the answer up and moves on. `AnswersDrain`, the same without the second case, fails (`MCSubmitter_ReceiptHangs.cfg`).
- `SubmittedContextIsSealContext`: an accepted answer reports the context its chunk was sealed with.

Every property of a passing run has a mutant in `PROJECT.json`. The mutant replaces one mapped definition by a plausible bug, defined just before it in the module, and TLC finds the property violated:
- a lone node promoted without hashing;
- `commit` recording `len()`;
- the history view reading the live layer;
- the history proof's layer length off by one;
- the last-chunk tree built one level too shallow;
- `last_chunk_start_index` ignoring a closed chunk;
- a batch root stored under the next segment;
- `entry_proof` keeping the joint node;
- `commit` recording the snapshot in the top tree only;
- an exact fill of the last chunk taken as overflow;
- `DataComplete` checking one entry too few;
- a range read returning a flow index as its start;
- the last download segment taken as a full segment;
- `finalize_tx_with_hash` skipping the data check;
- `to_valid_range` not clamping the start;
- the closed config arm left on, or a `Lagged` error closing it;
- the context arm clearing the puzzle on `None`;
- the seal cache taking an epoch that ends at the entry;
- `seal_index_max` one too low;
- the sealer's answers not cleared;
- a failed context query retried forever.

## Bounds and why they are enough

MerkleTree runs allow 3 leaves, subtrees of 1-2 leaves, 2 commits and one reset, with two leaf values. That is enough for these cases:
- an odd right-most node paired with padding;
- a subtree inserted on a middle layer;
- a fill below a committed version;
- a revert across an extension of the height;
- a revert to an empty snapshot.

The second config covers `min_depth`.

LogManager runs with `K = 1` (segments of 2 entries) and 3 txs of up to 2 entries. This reaches:
- padding that closes a segment;
- a segment closed by a subtree;
- a tx spanning two segments;
- duplicate data roots, which start the copy path;
- out-of-order and repeated `put_chunks`.

`K = 2` adds subtrees smaller than a segment and padding inside a segment. Subtrees spanning several segments (`span > 1`) need txs of at least 2 segments. Those are beyond these bounds, and the flow store's convention for them is not in the sources.

With 16 or more entries `compute_padded_chunk_size` pads, and `padding_rear_data` writes. This is not reached, so `PaddedChunks(n) = n`.

Miner runs use SECTORS_PER_LOADING = PRICING = 2, a maximum range of 4, u64::MAX = 7, and contexts with flow lengths 1, 4 and 6. This gives a flow shorter than a loading, one exactly one range, and one that needs clamping. The admin side sends up to 3 of {toggle off, toggle on, start 3, end None}. With a buffer of 2 the third unread message overwrites the first; with a buffer of 3 (`MCMiner_Lag.cfg` is the lagging counterpart) nothing lags.

Sealer runs use 2-entry seal chunks and up to 3 epochs of 1 or 3 entries, so an epoch can end inside, at the end of, or past a chunk. They allow up to 2 data rewrites and one failed call, which is enough for a rewrite between fetch and submit and for a failure in each phase.

The download handlers run with `chunks_per_segment` = 2 over files of 1 or 2 chunks. So a file has a last segment shorter than a full one, and a range may end inside the file or past it, in the next file's chunks.

The revert run is limited to one `revert_to`, one reset and one restart per behaviour, over one data value (170,904 states, under 3 minutes). Restarts are bounded by `MaxRestarts`. `PutTxMayCrash` enables the crash inside `put_tx`. `FlowCap` bounds the flow indices; an `Assert` fails if a behaviour would exceed it.

## Fairness

The Merkle tree and log manager properties are safety properties with no fairness assumed. The log manager is a passive store: its handlers run when the sync service or RPC calls them, and nothing obliges a caller to call.

The miner's three components are long-running tokio tasks. Each is a loop the executor polls again whenever one of its select arms, or the future it awaits, is ready. Each timer the sealer sleeps on elapses. So each task's steps are weakly fair:
- `WF_vars(Service)` in `Miner`;
- `WF_vars` of each of the four sealer steps;
- `WF_allVars(Submitting)`: the context query and the send, each one request that returns a result or an error. `Receipt` has no fairness. `pending_transaction.retries(3)` has no timeout: the retries only bound a transaction dropped from the mempool, and one that stays pending (a legacy transaction priced too low, say) keeps the await polling.

The environment (admin calls, the watcher, the chain, other store writers) is given no fairness. Chain calls that fail are bounded (`MaxErrs`, `MaxFails`), so a failure cannot repeat for ever; the code retries only on later iterations.

`CHECK_DEADLOCK FALSE` is set for three reasons:
- a panic ends the node, so those states have no successor;
- the bounded counters end every behaviour;
- an idle miner with nothing to receive is a normal final state.

## What is not modelled, and why

- **Crashes inside other handlers.** The only crash modelled inside a handler is the one the code flags, in `put_tx`. A restart otherwise happens between handlers: the key-value store is assumed to write each batch atomically (spec, out of scope).
- **PoRA iteration** (`pora.rs`) is not in the sources. A mining step may or may not produce an answer at its range. What a zero-length range does (a flow shorter than a loading) cannot be judged.
- **Submitter data**: the flow proof and its conversion are layout. The proof is read under the read lock after the context query. Its staleness is a hazard listed without a property, because the chain's verification is not in the sources.
- **Sealer timers** are abstracted to fairness. The `Ok(true)` path with no throttle, a busy loop when every task is skipped, is noted as a hazard.
- **RPC uploads and file info** (`upload_segment`, `check_need_cache`, `get_file_info`): they decide through the chunk pool, which is not in the sources. `get_status` reads the network globals.
- **A download racing a revert.** `IonianRpc` evaluates a download in one state, which is exact only while no revert runs. A revert between the handler's awaits makes the tx seq it holds name another transaction (hazard `impl.rs:124`). Modelling it needs a request variable across the revert run, and that run uses one data value, so it could not tell the files apart.
- **`compute_segment_proof` and `split_file_into_segments`** are in `shared_types`, which is not in the sources. The first is not modelled. The second is modelled for files of whole chunks, so the floor at `impl.rs:141` on a partial last chunk is not checked.
- **Async store wrapper** (`storage-async`): it runs each call under the write lock in a spawned task, which is why every store call is one atomic step in the models. The task completes even when the caller has given up. A retry then repeats the call, so the log manager actions may repeat any `put_chunks` (hazard `storage-async/src/lib.rs:63`). A panic inside the closure ends the spawned task, not necessarily the node. The models stop the node at a panic (`panicked`), because what the task executor does then is outside the sources (hazard `storage-async/src/lib.rs:66`).
- **Admin RPC** (`admin/impl.rs`) forwards shutdown and sync requests to the shutdown channel and the sync service, and reads the peer database. The sync service is not in the sources, so none of this has state to model. The miner's admin messages come from outside the sources; `Miner`'s `SendMsg` stands for them.
- **Config, build script, tests:** no behaviour to check.
