------------------------------ MODULE Submitter ------------------------------
(***************************************************************************)
(* The answer submitter of node/miner/src/submitter.rs, composed with the  *)
(* sealer and the chain of Sealer.  The PoRA service hands over answers    *)
(* for sealed chunks (recall_position is the chunk's first entry, and the  *)
(* answer carries the seal the miner loaded); Submitter::start takes them  *)
(* one at a time, and submit_answer awaits between                         *)
(*   QueryContext - query_context_at_position(recall_position +            *)
(*                  SECTORS_PER_SEAL) on the flow contract, and            *)
(*   SendTx       - the flow proof under the read lock and the transaction *)
(*                  send, and                                              *)
(*   Receipt      - .retries(SUBMISSION_RETIES) for its receipt.           *)
(* Every error ends submit_answer with Err; the loop logs it and takes the *)
(* next answer.                                                            *)
(***************************************************************************)
EXTENDS Sealer

CONSTANTS
  MaxMined,   \* bound: answers the PoRA service hands over
  MaxFails    \* bound: failed submissions (send error, receipt dropped)

VARIABLES
  mined,      \* the answer channel, oldest first
  inFlight,   \* the answer from its context query to its receipt, or NONE
  submitted,  \* answers accepted on chain, with the context they reported
  minedCount, \* answers handed over so far
  fails       \* failed submissions so far

subVars == <<mined, inFlight, submitted, minedCount, fails>>
allVars == <<vars, subVars>>

SInit == Init /\ mined = <<>> /\ inFlight = NONE /\ submitted = {}
         /\ minedCount = 0 /\ fails = 0

\* The PoRA service hits an answer whose recall falls in sealed chunk i.
MineAnswer(i) ==
  /\ minedCount < MaxMined
  /\ sealed[i] # NONE
  /\ mined' = Append(mined, [recall |-> i * SPS, seal |-> sealed[i]])
  /\ minedCount' = minedCount + 1
  /\ UNCHANGED <<vars, inFlight, submitted, fails>>

\* Mutant: a failed query keeps the answer to try again.
QueryContextRetry ==
  /\ inFlight = NONE /\ mined # <<>>
  /\ LET a == Head(mined)
         pos == a.recall + SPS
     IN \/ /\ pos < ChainLen
           /\ inFlight' = [answer |-> a, sealedContext |-> EpochAt(pos).digest, sent |-> FALSE]
           /\ mined' = Tail(mined)
        \/ /\ pos >= ChainLen
           /\ UNCHANGED <<inFlight, mined>>
  /\ UNCHANGED <<vars, submitted, minedCount, fails>>

\* submit_answer up to its first await: the sealed context digest of the
\* recall position plus SECTORS_PER_SEAL.  A failed query ("Failed to fetch
\* sealed contest digest") drops the answer.
QueryContext ==
  /\ inFlight = NONE /\ mined # <<>>
  /\ LET a == Head(mined)
         pos == a.recall + SPS
     IN \/ /\ pos < ChainLen
           /\ inFlight' = [answer |-> a, sealedContext |-> EpochAt(pos).digest, sent |-> FALSE]
        \/ /\ pos >= ChainLen
           /\ UNCHANGED inFlight
  /\ mined' = Tail(mined)
  /\ UNCHANGED <<vars, submitted, minedCount, fails>>

\* The flow proof under the read lock and the transaction send: a send
\* error ends submit_answer; a sent transaction is pending.
SendTx ==
  /\ inFlight # NONE /\ ~inFlight.sent
  /\ \/ inFlight' = [inFlight EXCEPT !.sent = TRUE] /\ UNCHANGED fails
     \/ /\ fails < MaxFails
        /\ fails' = fails + 1
        /\ inFlight' = NONE
  /\ UNCHANGED <<vars, mined, submitted, minedCount>>

\* pending_transaction.retries(SUBMISSION_RETIES).await: the receipt, or
\* "dropped after 3 retires".  The chain decides when, or whether, this
\* happens: a transaction that stays pending keeps the await polling.
Receipt ==
  /\ inFlight # NONE /\ inFlight.sent
  /\ \/ /\ submitted' = submitted \cup {[answer |-> inFlight.answer,
                                          sealedContext |-> inFlight.sealedContext]}
        /\ UNCHANGED fails
     \/ /\ fails < MaxFails
        /\ fails' = fails + 1
        /\ UNCHANGED submitted
  /\ inFlight' = NONE
  /\ UNCHANGED <<vars, mined, minedCount>>

Submitting == QueryContext \/ SendTx

SNext ==
  \/ Sealing /\ UNCHANGED subVars
  \/ \E g \in Grow : ChainGrow(g) /\ UNCHANGED subVars
  \/ \E i \in Chunks : WriteChunk(i) /\ UNCHANGED subVars
  \/ \E i \in Chunks : MineAnswer(i)
  \/ Submitting
  \/ Receipt

\* The sealer's steps are weakly fair as in Sealer; the submitter task is
\* polled whenever its channel has an answer or its call returns.  A call
\* (the context query, the send) is one request and returns a result or
\* an error; the receipt is the chain's doing and has no fairness: the
\* await has no timeout, and .retries only bounds a dropped transaction.
SSpec == SInit /\ [][SNext]_allVars
         /\ WF_vars(FetchTask) /\ WF_vars(SealTask)
         /\ WF_vars(SubmitAnswer) /\ WF_vars(UpdateFlowLength)
         /\ WF_allVars(Submitting)

STypeOK ==
  /\ TypeOK
  /\ minedCount \in 0..MaxMined /\ fails \in 0..MaxFails
  /\ Len(mined) <= minedCount

\* Every answer handed to the submitter is eventually done with: the loop
\* carries on after a failed submission.  It does not hold: a transaction
\* that stays pending blocks start's loop for good.
AnswersDrain == <>[](mined = <<>> /\ inFlight = NONE)

\* The only way start's loop stalls is a receipt that never comes: every
\* answer handed over is eventually queried, sent and done with, or the
\* submitter waits forever on a pending transaction.  A failed context
\* query, a send error or a dropped transaction must each give the answer
\* up and move on to the next one.
AnswersDrainUnlessPending ==
  <>[](mined = <<>> /\ inFlight = NONE) \/ <>[](inFlight # NONE /\ inFlight.sent)

\* The sealed context digest an accepted answer reports is the context its
\* chunk was sealed with.
SubmittedContextIsSealContext ==
  \A s \in submitted : s.sealedContext = s.answer.seal.context
=============================================================================
