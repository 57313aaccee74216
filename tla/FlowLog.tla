------------------------------ MODULE FlowLog ------------------------------
(***************************************************************************)
(* What the log store promises its callers (spec 4.E, 4.F and the write    *)
(* API of section 6), without trees or flow positions: a sequence of       *)
(* transactions, the entries of each that are stored, and whether it is   *)
(* finalized.                                                              *)
(*   - put_tx appends a transaction; if an earlier one with the same data  *)
(*     root is finalized, its data is copied and the new one is complete.  *)
(*   - put_chunks stores entries of one transaction and touches no other.  *)
(*   - finalize_tx finalizes a transaction all of whose entries are        *)
(*     stored, and may copy them to other transactions with its data       *)
(*     root, finalizing those.                                             *)
(*   - revert_to(s) keeps the transactions up to s with what they stored.  *)
(* A handler that fails changes none of this.                              *)
(***************************************************************************)
EXTENDS Naturals, Sequences

CONSTANTS TxValues   \* the data a transaction may carry

VARIABLES
  txs,    \* txs[k]: [data, done] of tx_seq k - 1
  have    \* have[k]: offsets of tx_seq k - 1 whose entries are stored

absVars == <<txs, have>>

Offsets(k) == 0..(Len(txs[k].data) - 1)

Init == txs = <<>> /\ have = <<>>

PutTx(d) ==
  /\ d \in TxValues
  /\ \/ /\ txs' = Append(txs, [data |-> d, done |-> FALSE])
        /\ have' = Append(have, {})
     \/ /\ \E j \in DOMAIN txs : txs[j].data = d /\ txs[j].done
        /\ txs' = Append(txs, [data |-> d, done |-> TRUE])
        /\ have' = Append(have, 0..(Len(d) - 1))

PutChunks(k) ==
  /\ k \in DOMAIN txs
  /\ DOMAIN have' = DOMAIN have
  /\ have[k] \subseteq have'[k] /\ have'[k] \subseteq Offsets(k)
  /\ \A j \in DOMAIN have \ {k} : have'[j] = have[j]
  /\ UNCHANGED txs

\* The transactions a copy from k may complete, each either finalized or
\* left as it was (a copy that fails part way).
Finalize(k) ==
  /\ k \in DOMAIN txs
  /\ have[k] = Offsets(k)
  /\ DOMAIN txs' = DOMAIN txs /\ DOMAIN have' = DOMAIN have
  /\ txs'[k] = [txs[k] EXCEPT !.done = TRUE] /\ have'[k] = have[k]
  /\ \A j \in DOMAIN txs \ {k} :
       \/ txs'[j] = txs[j] /\ have'[j] = have[j]
       \/ /\ txs[j].data = txs[k].data
          /\ have'[j] = Offsets(j)
          /\ txs'[j] \in {txs[j], [txs[j] EXCEPT !.done = TRUE]}

RevertTo(s) ==
  /\ s <= Len(txs)
  /\ txs' = SubSeq(txs, 1, s)
  /\ have' = SubSeq(have, 1, s)

Next ==
  \/ \E d \in TxValues : PutTx(d)
  \/ \E k \in DOMAIN txs : PutChunks(k)
  \/ \E k \in DOMAIN txs : Finalize(k)
  \/ \E s \in 0..Len(txs) : RevertTo(s)

Spec == Init /\ [][Next]_absVars

\* A finalized transaction has all its entries stored.
DoneIsComplete == \A k \in DOMAIN txs : txs[k].done => have[k] = Offsets(k)
=============================================================================
