------------------------------- MODULE Sealer -------------------------------
(***************************************************************************)
(* The data sealer of node/miner/src/sealer.rs, with the flow contract's   *)
(* epochs and the flow store's seal column it works against.               *)
(*                                                                         *)
(* Sealer::start is one task whose biased select runs, when their timers   *)
(* have elapsed, update_flow_length (learn the chain's flow length and     *)
(* cache the epoch of the recent context) and seal_iteration.  The         *)
(* timers are abstracted away; an arm runs to completion before the next.  *)
(* seal_iteration awaits between its parts, so it is three steps:          *)
(*   FetchTask  - pull_seal_chunk(seal_index_max) under the read lock;     *)
(*   SealTask   - for each task in turn, fetch_context and seal;           *)
(*   SubmitAnswer - submit_seal_result(answers) under the write lock.      *)
(* Between them other writers of the store (put_chunks, revert) and the    *)
(* chain move on.                                                          *)
(*                                                                         *)
(* The chain's epochs are a sequence of flow lengths: epoch k (its digest) *)
(* covers flow positions [ends[k-1], ends[k]).  The flow store's seal      *)
(* column is not in the sources: a chunk has a data version, bumped when   *)
(* its data is written, and a seal; pull_seal_chunk returns the unsealed   *)
(* chunks with data below the bound, and submit_seal_result keeps an       *)
(* answer only if its version is still the chunk's.                        *)
(***************************************************************************)
EXTENDS Naturals, Sequences, FiniteSets

CONSTANTS
  NONE,       \* Option::None
  SPS,        \* SECTORS_PER_SEAL
  Grow,       \* entries one epoch may add to the flow
  MaxEpochs,  \* bound: epochs of the chain
  MaxWrites,  \* bound: data writes to chunks
  MaxErrs     \* bound: failed contract or store calls

ASSUME SPS > 0 /\ Grow \subseteq Nat \ {0}

\* Seal chunks the flow can reach within the bounds.
MaxFlow == MaxEpochs * (CHOOSE g \in Grow : \A h \in Grow : h <= g)
Chunks == 0..(MaxFlow \div SPS - 1)

VARIABLES
  ends,      \* the chain: flow length at the end of each epoch
  cache,     \* context_cache: the epoch ranges the sealer has seen
  lastLen,   \* last_context_flow_length
  phase,     \* "idle", or "sealing" inside seal_iteration
  tasks,     \* the seal tasks still to seal in this iteration
  answers,   \* the answers built in this iteration
  version,   \* flow store: data version of each chunk
  filled,    \* flow store: the chunk's data is present
  sealed,    \* flow store: the seal answer kept for each chunk, or NONE
  writes,    \* data writes so far
  errs       \* failed calls so far

vars == <<ends, cache, lastLen, phase, tasks, answers, version, filled,
          sealed, writes, errs>>

\* The chain's flow length, and the range of the epoch with digest k.
ChainLen == IF ends = <<>> THEN 0 ELSE ends[Len(ends)]
Epoch(k) == [start |-> IF k = 1 THEN 0 ELSE ends[k - 1], end |-> ends[k],
             digest |-> k]

\* The epoch that holds flow position pos; pos < ChainLen.
EpochAt(pos) ==
  Epoch(CHOOSE k \in 1..Len(ends) : Epoch(k).start <= pos /\ pos < ends[k])

\* The last flow entry of seal chunk i.
LastEntry(i) == (i + 1) * SPS - 1

Init ==
  /\ ends = <<>>
  /\ cache = {}
  /\ lastLen = 0
  /\ phase = "idle"
  /\ tasks = <<>>
  /\ answers = <<>>
  /\ version = [i \in Chunks |-> 0]
  /\ filled = [i \in Chunks |-> FALSE]
  /\ sealed = [i \in Chunks |-> NONE]
  /\ writes = 0
  /\ errs = 0

(***************************************************************************)
(* Environment: the chain and the other writers of the flow store          *)
(***************************************************************************)

\* A new epoch closes with g more entries in the flow.
ChainGrow(g) ==
  /\ Len(ends) < MaxEpochs
  /\ ends' = Append(ends, ChainLen + g)
  /\ UNCHANGED <<cache, lastLen, phase, tasks, answers, version, filled,
                 sealed, writes, errs>>

\* put_chunks or a revert and re-put writes the data of chunk i: a new
\* version, not sealed.
WriteChunk(i) ==
  /\ writes < MaxWrites
  /\ LastEntry(i) < ChainLen
  /\ version' = [version EXCEPT ![i] = @ + 1]
  /\ filled' = [filled EXCEPT ![i] = TRUE]
  /\ sealed' = [sealed EXCEPT ![i] = NONE]
  /\ writes' = writes + 1
  /\ UNCHANGED <<ends, cache, lastLen, phase, tasks, answers, errs>>

(***************************************************************************)
(* The flow store's seal interface (spec 4.D)                              *)
(***************************************************************************)

\* pull_seal_chunk(seal_index_max): the chunks below the bound with data
\* and no seal, in index order.
PullSealChunk(max) ==
  LET idx == {i \in Chunks : i < max /\ filled[i] /\ sealed[i] = NONE}
  IN [j \in 1..Cardinality(idx) |->
        LET i == CHOOSE x \in idx :
                   Cardinality({y \in idx : y < x}) = j - 1
        IN [index |-> i, version |-> version[i]]]

\* submit_seal_result(answers): answers for a rewritten chunk are stale.
SubmitSealResult(ans) ==
  [i \in Chunks |->
     IF \E a \in {ans[j] : j \in 1..Len(ans)} : a.index = i /\ a.version = version[i]
       THEN CHOOSE a \in {ans[j] : j \in 1..Len(ans)} :
              a.index = i /\ a.version = version[i]
       ELSE sealed[i]]

(***************************************************************************)
(* Sealer                                                                  *)
(***************************************************************************)

\* update_flow_length: make_context_with_result, then get_epoch_range of
\* its digest, cached under the epoch's start.
UpdateFlowLength ==
  /\ phase = "idle"
  /\ lastLen < ChainLen
  /\ cache' = {c \in cache : c.start # Epoch(Len(ends)).start}
              \cup {Epoch(Len(ends))}
  /\ lastLen' = ChainLen
  /\ UNCHANGED <<ends, phase, tasks, answers, version, filled, sealed,
                 writes, errs>>

\* Mutant: seal_index_max one lower.
FetchTaskBelowMax ==
  /\ phase = "idle"
  /\ LET ts == PullSealChunk(lastLen \div SPS - 1)
     IN /\ ts # <<>>
        /\ tasks' = ts
  /\ phase' = "sealing"
  /\ UNCHANGED <<ends, cache, lastLen, answers, version, filled, sealed,
                 writes, errs>>

\* seal_iteration, up to the tasks: fetch_task under the read lock.  No
\* task is Ok(false) and nothing changes.
FetchTask ==
  /\ phase = "idle"
  /\ LET ts == PullSealChunk(lastLen \div SPS)
     IN /\ ts # <<>>
        /\ tasks' = ts
  /\ phase' = "sealing"
  /\ UNCHANGED <<ends, cache, lastLen, answers, version, filled, sealed,
                 writes, errs>>

\* Mutant: a cached epoch that ends at last is taken to hold it.
CachedContextEndInclusive(last) ==
  LET below == {c \in cache : c.start <= last}
      top == {c \in below : \A d \in below : d.start <= c.start}
  IN IF top # {} /\ (CHOOSE c \in top : TRUE).end >= last
       THEN CHOOSE c \in top : TRUE
       ELSE NONE

\* The cached epoch with the greatest start at or before last, if it holds
\* last: context_cache.range(..=last_entry).rev().next().
CachedContext(last) ==
  LET below == {c \in cache : c.start <= last}
      top == {c \in below : \A d \in below : d.start <= c.start}
  IN IF top # {} /\ (CHOOSE c \in top : TRUE).end > last
       THEN CHOOSE c \in top : TRUE
       ELSE NONE

\* fetch_context(seal_index) for the head task, then seal and push the
\* answer; None skips the task.  Its early return for last_entry at or past
\* last_context_flow_length never fires: the tasks are below
\* seal_index_max, and last_context_flow_length does not change within the
\* iteration.  The contract's query_context_at_position
\* may fail, and fails for a position past the flow.
SealTask ==
  /\ phase = "sealing" /\ tasks # <<>>
  /\ LET t == Head(tasks)
         last == LastEntry(t.index)
         Push(c) == answers' = Append(answers,
                      [index |-> t.index, version |-> t.version,
                       context |-> c.digest, endSeal |-> c.end \div SPS])
     IN \/ /\ lastLen > last /\ CachedContext(last) # NONE
           /\ Push(CachedContext(last))
           /\ UNCHANGED <<cache, errs>>
        \/ /\ lastLen > last /\ CachedContext(last) = NONE
           /\ last < ChainLen
           /\ cache' = {c \in cache : c.start # EpochAt(last).start}
                       \cup {EpochAt(last)}
           /\ Push(EpochAt(last))
           /\ UNCHANGED errs
        \/ /\ lastLen > last /\ CachedContext(last) = NONE
           /\ errs < MaxErrs
           /\ errs' = errs + 1
           /\ UNCHANGED <<answers, cache>>
  /\ tasks' = Tail(tasks)
  /\ UNCHANGED <<ends, lastLen, phase, version, filled, sealed, writes>>

\* Mutant: the answers are not cleared for the next iteration.
SubmitAnswerKeepAnswers ==
  /\ phase = "sealing" /\ tasks = <<>>
  /\ \/ sealed' = SubmitSealResult(answers) /\ UNCHANGED errs
     \/ errs < MaxErrs /\ errs' = errs + 1 /\ UNCHANGED sealed
  /\ phase' = "idle"
  /\ UNCHANGED <<ends, cache, lastLen, tasks, answers, version, filled, writes>>

\* submit_answer under the write lock; a store error drops the answers.
SubmitAnswer ==
  /\ phase = "sealing" /\ tasks = <<>>
  /\ \/ sealed' = SubmitSealResult(answers) /\ UNCHANGED errs
     \/ errs < MaxErrs /\ errs' = errs + 1 /\ UNCHANGED sealed
  /\ phase' = "idle"
  /\ answers' = <<>>
  /\ UNCHANGED <<ends, cache, lastLen, tasks, version, filled, writes>>

Sealing == UpdateFlowLength \/ FetchTask \/ SealTask \/ SubmitAnswer

Next ==
  \/ Sealing
  \/ \E g \in Grow : ChainGrow(g)
  \/ \E i \in Chunks : WriteChunk(i)

\* The sealer task is polled again whenever an arm is ready, and each arm's
\* timer elapses: each of its steps is weakly fair.  Nothing obliges the
\* chain or the store's writers to act.
Spec == Init /\ [][Next]_vars
        /\ WF_vars(FetchTask) /\ WF_vars(SealTask) /\ WF_vars(SubmitAnswer)
        /\ WF_vars(UpdateFlowLength)

(***************************************************************************)
(* Properties                                                              *)
(***************************************************************************)

TypeOK ==
  /\ phase \in {"idle", "sealing"}
  /\ phase = "idle" => tasks = <<>> /\ answers = <<>>
  /\ lastLen \in 0..MaxFlow /\ lastLen <= ChainLen
  /\ version \in [Chunks -> 0..MaxWrites]
  /\ filled \in [Chunks -> BOOLEAN]
  /\ \A i \in Chunks : sealed[i] = NONE \/ sealed[i].index = i

\* Every chunk the store keeps as sealed was sealed for its current data
\* with the context of the epoch that holds its last entry, and with that
\* epoch's end: the cache and the chain query give the same epoch, and an
\* answer pulled before a rewrite is not kept.
SealSound ==
  \A i \in Chunks :
    sealed[i] # NONE =>
      /\ LastEntry(i) < ChainLen
      /\ sealed[i].context = EpochAt(LastEntry(i)).digest
      /\ sealed[i].endSeal = EpochAt(LastEntry(i)).end \div SPS
      /\ sealed[i].version = version[i]

\* Every chunk whose data is stored and whose epoch is on chain is
\* eventually sealed.
EventuallySealed ==
  \A i \in Chunks :
    (filled[i] /\ LastEntry(i) < ChainLen) ~> (sealed[i] # NONE)
=============================================================================
