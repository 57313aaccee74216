------------------------------- MODULE Miner -------------------------------
(***************************************************************************)
(* The PoRA mining service of node/miner/src/mine.rs: PoraService::start,  *)
(* one task whose loop is a biased tokio::select! over three arms, in      *)
(* this priority order:                                                    *)
(*   1. msg_recv.recv(), if channel_opened   (broadcast of MinerMessage)   *)
(*   2. mine_context_receiver.recv()          (mpsc of MineContextMessage) *)
(*   3. async {}, if mining_enabled && as_miner().is_some()  (one          *)
(*      miner.iteration, which may send an answer to the submitter)        *)
(* The admin side (ToggleMining, SetStartPosition, SetEndPosition), the    *)
(* chain watcher that sends mine contexts, and the PoRA iteration itself   *)
(* (pora.rs, not in the sources) are the environment.                      *)
(*                                                                         *)
(* The broadcast channel keeps at most MsgCap messages for the receiver:   *)
(* a send to a full buffer overwrites the oldest, and the next recv()      *)
(* returns Err(Lagged), which the loop ignores.  When every sender is      *)
(* dropped, recv() drains the buffer and then returns Err(Closed).  The    *)
(* mpsc recv() returns None once the watcher is dropped, every time.       *)
(***************************************************************************)
EXTENDS Naturals, Sequences

CONSTANTS
  NONE,          \* Option::None
  LOADING,       \* SECTORS_PER_LOADING
  PRICING,       \* SECTORS_PER_PRICING
  MAX_RANGE,     \* SECTORS_PER_MAX_MINING_RANGE
  U64Max,        \* u64::MAX, the initial end_position
  MinerMsgs,     \* the MinerMessages the admin side may send
  FlowLengths,   \* flow_length of the mine contexts the watcher may send
  MsgCap,        \* capacity of the broadcast channel
  MaxMsgs,       \* bound: messages the admin side sends
  MaxCtxs,       \* bound: mine-context messages the watcher sends
  MaxIters,      \* bound: mining iterations
  CtxMayClose,   \* whether the watcher may drop its sender
  MsgMayClose    \* whether the admin side may drop its sender

ASSUME LOADING > 0 /\ PRICING > 0 /\ MsgCap > 0

Pos == 0..U64Max
OptPos == Pos \cup {NONE}

\* A MineContext, abstracted to its flow length; the digest stands for it.
Contexts == [flowLength : FlowLengths]

\* MinerMessage::{ToggleMining, SetStartPosition, SetEndPosition}
Toggle(b) == [kind |-> "toggle", v |-> b]
SetStart(p) == [kind |-> "start", v |-> p]
SetEnd(p) == [kind |-> "end", v |-> p]

VARIABLES
  msgs,           \* broadcast messages not yet received, oldest first
  lagged,         \* the receiver missed overwritten messages
  msgClosed,      \* every broadcast sender is dropped
  ctxq,           \* mpsc queue of Option<(MineContext, target_quality)>
  ctxClosed,      \* the watcher's sender is dropped
  puzzle,         \* self.puzzle: a context or NONE
  mineRange,      \* self.mine_range: [start, end] of OptPos
  miningEnabled,  \* mining_enabled
  channelOpened,  \* channel_opened
  answers,        \* answers sent to the submitter
  iters,          \* mining iterations run
  sentMsgs,       \* messages the admin side sent
  sentCtxs,       \* contexts the watcher sent
  wanted          \* ghost: the settings and context last sent

vars == <<msgs, lagged, msgClosed, ctxq, ctxClosed, puzzle, mineRange,
          miningEnabled, channelOpened, answers, iters, sentMsgs, sentCtxs,
          wanted>>

(***************************************************************************)
(* CustomMineRange                                                         *)
(***************************************************************************)

MinNat(a, b) == IF a <= b THEN a ELSE b

\* Mutant: the custom start is not clamped to the minable part.
ToValidRangeNoClamp(r, ctx) ==
  IF r.start = NONE \/ r.end = NONE \/ r.start >= r.end THEN NONE
  ELSE LET minable == (ctx.flowLength \div LOADING) * LOADING
           len == MinNat(minable, MAX_RANGE)
       IN <<(r.start \div PRICING) * PRICING, len>>

\* to_valid_range: NONE, or <<start_position, mining_length>>.
ToValidRange(r, ctx) ==
  IF r.start = NONE \/ r.end = NONE \/ r.start >= r.end THEN NONE
  ELSE LET minable == (ctx.flowLength \div LOADING) * LOADING
           len == MinNat(minable, MAX_RANGE)
           st == MinNat(r.start, minable - len)
       IN <<(st \div PRICING) * PRICING, len>>

\* is_covered(recall_position): NONE, or whether the recall is covered.
IsCovered(r, recall) ==
  IF r.start = NONE \/ r.end = NONE THEN NONE
  ELSE IF r.start >= r.end THEN FALSE
  ELSE r.start <= recall + LOADING \/ r.end > recall

\* as_miner(): the mining range of the current puzzle, or NONE.
AsMiner(p, r) == IF p = NONE THEN NONE ELSE ToValidRange(r, p)

(***************************************************************************)
(* Readiness of the select arms                                            *)
(***************************************************************************)

MsgReady == channelOpened /\ (lagged \/ msgs # <<>> \/ msgClosed)
CtxReady == ctxq # <<>> \/ ctxClosed
MineReady == miningEnabled /\ AsMiner(puzzle, mineRange) # NONE

Init ==
  /\ msgs = <<>>
  /\ lagged = FALSE
  /\ msgClosed = FALSE
  /\ ctxq = <<>>
  /\ ctxClosed = FALSE
  /\ puzzle = NONE
  /\ mineRange = [start |-> 0, end |-> U64Max]
  /\ miningEnabled = TRUE
  /\ channelOpened = TRUE
  /\ answers = <<>>
  /\ iters = 0
  /\ sentMsgs = 0
  /\ sentCtxs = 0
  /\ wanted = [enabled |-> TRUE, range |-> [start |-> 0, end |-> U64Max],
               puzzle |-> NONE]

(***************************************************************************)
(* Environment                                                             *)
(***************************************************************************)

\* broadcast::Sender::send: a full buffer drops its oldest message.
SendMsg(m) ==
  /\ ~msgClosed /\ sentMsgs < MaxMsgs
  /\ IF Len(msgs) = MsgCap
       THEN msgs' = Append(Tail(msgs), m) /\ lagged' = TRUE
       ELSE msgs' = Append(msgs, m) /\ UNCHANGED lagged
  /\ sentMsgs' = sentMsgs + 1
  /\ wanted' = CASE m.kind = "toggle" -> [wanted EXCEPT !.enabled = m.v]
               [] m.kind = "start" -> [wanted EXCEPT !.range.start = m.v]
               [] m.kind = "end" -> [wanted EXCEPT !.range.end = m.v]
  /\ UNCHANGED <<msgClosed, ctxq, ctxClosed, puzzle, mineRange, miningEnabled,
                 channelOpened, answers, iters, sentCtxs>>

CloseMsg ==
  /\ MsgMayClose /\ ~msgClosed
  /\ msgClosed' = TRUE
  /\ UNCHANGED <<msgs, lagged, ctxq, ctxClosed, puzzle, mineRange, miningEnabled,
                 channelOpened, answers, iters, sentMsgs, sentCtxs, wanted>>

\* The watcher sends Some((context, target_quality)) or None.
SendCtx(c) ==
  /\ ~ctxClosed /\ sentCtxs < MaxCtxs
  /\ ctxq' = Append(ctxq, c)
  /\ sentCtxs' = sentCtxs + 1
  /\ wanted' = [wanted EXCEPT !.puzzle = c]
  /\ UNCHANGED <<msgs, lagged, msgClosed, ctxClosed, puzzle, mineRange,
                 miningEnabled, channelOpened, answers, iters, sentMsgs>>

CloseCtx ==
  /\ CtxMayClose /\ ~ctxClosed
  /\ ctxClosed' = TRUE
  /\ UNCHANGED <<msgs, lagged, msgClosed, ctxq, puzzle, mineRange, miningEnabled,
                 channelOpened, answers, iters, sentMsgs, sentCtxs, wanted>>

(***************************************************************************)
(* PoraService::start, one turn of the loop                                *)
(***************************************************************************)

\* Arm 1: Err(Lagged) is ignored, a message is applied, Err(Closed) turns
\* the arm off.
ApplyMsg(m) ==
  /\ miningEnabled' = IF m.kind = "toggle" THEN m.v ELSE miningEnabled
  /\ mineRange' = CASE m.kind = "start" -> [mineRange EXCEPT !.start = m.v]
                  [] m.kind = "end" -> [mineRange EXCEPT !.end = m.v]
                  [] OTHER -> mineRange

\* Mutant: every Err, Lagged included, switches the arm off.
RecvMsgErrCloses ==
  /\ MsgReady
  /\ \/ /\ lagged
        /\ lagged' = FALSE /\ channelOpened' = FALSE
        /\ UNCHANGED <<msgs, mineRange, miningEnabled>>
     \/ /\ ~lagged /\ msgs # <<>>
        /\ ApplyMsg(Head(msgs))
        /\ msgs' = Tail(msgs)
        /\ UNCHANGED <<lagged, channelOpened>>
     \/ /\ ~lagged /\ msgs = <<>> /\ msgClosed
        /\ channelOpened' = FALSE
        /\ UNCHANGED <<msgs, lagged, mineRange, miningEnabled>>
  /\ UNCHANGED <<msgClosed, ctxq, ctxClosed, puzzle, answers, iters, sentMsgs,
                 sentCtxs, wanted>>

\* Mutant: Err(Closed) does not switch the arm off.
RecvMsgKeepClosedArm ==
  /\ MsgReady
  /\ \/ /\ lagged
        /\ lagged' = FALSE
        /\ UNCHANGED <<msgs, mineRange, miningEnabled, channelOpened>>
     \/ /\ ~lagged /\ msgs # <<>>
        /\ ApplyMsg(Head(msgs))
        /\ msgs' = Tail(msgs)
        /\ UNCHANGED <<lagged, channelOpened>>
     \/ /\ ~lagged /\ msgs = <<>> /\ msgClosed
        /\ UNCHANGED <<msgs, lagged, mineRange, miningEnabled, channelOpened>>
  /\ UNCHANGED <<msgClosed, ctxq, ctxClosed, puzzle, answers, iters, sentMsgs,
                 sentCtxs, wanted>>

RecvMsg ==
  /\ MsgReady
  /\ \/ /\ lagged
        /\ lagged' = FALSE
        /\ UNCHANGED <<msgs, mineRange, miningEnabled, channelOpened>>
     \/ /\ ~lagged /\ msgs # <<>>
        /\ ApplyMsg(Head(msgs))
        /\ msgs' = Tail(msgs)
        /\ UNCHANGED <<lagged, channelOpened>>
     \/ /\ ~lagged /\ msgs = <<>> /\ msgClosed
        /\ channelOpened' = FALSE
        /\ UNCHANGED <<msgs, lagged, mineRange, miningEnabled>>
  /\ UNCHANGED <<msgClosed, ctxq, ctxClosed, puzzle, answers, iters, sentMsgs,
                 sentCtxs, wanted>>

\* Mutant: a None context (no puzzle) leaves the old puzzle in place.
RecvCtxKeepOnNone ==
  /\ ~MsgReady /\ CtxReady
  /\ IF ctxq # <<>>
       THEN /\ puzzle' = IF Head(ctxq) = NONE THEN puzzle ELSE Head(ctxq)
            /\ ctxq' = Tail(ctxq)
       ELSE UNCHANGED <<puzzle, ctxq>>
  /\ UNCHANGED <<msgs, lagged, msgClosed, ctxClosed, mineRange, miningEnabled,
                 channelOpened, answers, iters, sentMsgs, sentCtxs, wanted>>

\* Arm 2: Some(msg) replaces the puzzle; None (watcher gone) does nothing,
\* and the arm is ready again at once.
RecvCtx ==
  /\ ~MsgReady /\ CtxReady
  /\ IF ctxq # <<>>
       THEN puzzle' = Head(ctxq) /\ ctxq' = Tail(ctxq)
       ELSE UNCHANGED <<puzzle, ctxq>>
  /\ UNCHANGED <<msgs, lagged, msgClosed, ctxClosed, mineRange, miningEnabled,
                 channelOpened, answers, iters, sentMsgs, sentCtxs, wanted>>

\* Arm 3: one miner.iteration over the valid range; it may hit an answer,
\* which is sent to the submitter.
Mine ==
  /\ ~MsgReady /\ ~CtxReady /\ MineReady
  /\ iters < MaxIters
  /\ iters' = iters + 1
  /\ LET rg == AsMiner(puzzle, mineRange)
         ans == [context |-> puzzle, start |-> rg[1], length |-> rg[2]]
     IN \/ answers' = Append(answers, ans)
        \/ UNCHANGED answers
  /\ UNCHANGED <<msgs, lagged, msgClosed, ctxq, ctxClosed, puzzle, mineRange,
                 miningEnabled, channelOpened, sentMsgs, sentCtxs, wanted>>

Service == RecvMsg \/ RecvCtx \/ Mine

Environment ==
  \/ \E m \in MinerMsgs : SendMsg(m)
  \/ CloseMsg
  \/ \E c \in Contexts \cup {NONE} : SendCtx(c)
  \/ CloseCtx

Next == Service \/ Environment

\* The loop is one task on the tokio executor; the executor polls it again
\* whenever an arm is ready, so the service step is weakly fair.  Nothing
\* obliges the admin side or the watcher to send.
Spec == Init /\ [][Next]_vars /\ WF_vars(Service)

(***************************************************************************)
(* Properties                                                              *)
(***************************************************************************)

TypeOK ==
  /\ msgs \in Seq(MinerMsgs) /\ Len(msgs) <= MsgCap
  /\ lagged \in BOOLEAN /\ msgClosed \in BOOLEAN /\ ctxClosed \in BOOLEAN
  /\ ctxq \in Seq(Contexts \cup {NONE})
  /\ puzzle \in Contexts \cup {NONE}
  /\ mineRange \in [start : OptPos, end : OptPos]
  /\ miningEnabled \in BOOLEAN /\ channelOpened \in BOOLEAN
  /\ iters \in 0..MaxIters
  \* the config arm is switched off only once the channel is closed and
  \* drained
  /\ ~channelOpened => msgClosed /\ msgs = <<>> /\ ~lagged

\* Every answer the service sends mines a range inside the minable part of
\* its context's flow (whole loadings), starting on a pricing boundary:
\* to_valid_range clamps the custom start and rounds it down.
AnswersInFlow ==
  \A i \in 1..Len(answers) :
    LET a == answers[i]
    IN /\ a.start % PRICING = 0
       /\ a.start + a.length <= (a.context.flowLength \div LOADING) * LOADING
       /\ a.length <= MAX_RANGE

\* Once the admin side and the watcher stop sending, the service ends up
\* with the mining switch, the custom range and the puzzle they last sent:
\* no message or context is lost or applied out of order by the loop.
ServiceCatchesUp ==
  <>[](/\ miningEnabled = wanted.enabled
       /\ mineRange = wanted.range
       /\ puzzle = wanted.puzzle)

\* While mining is switched on and there is a valid puzzle, the mining arm
\* runs: no higher-priority arm starves it.
MiningProceeds ==
  \A k \in 0..(MaxIters - 1) :
    (MineReady /\ iters = k) ~> (iters > k \/ ~MineReady)

\* ServiceCatchesUp for the behaviours in which the broadcast buffer never
\* overwrites a message (the lag run shows the others).
ServiceCatchesUpWithoutLag == []~lagged => ServiceCatchesUp

\* MiningProceeds for the behaviours in which the context channel stays
\* open (the closed-context run shows the others).
MiningProceedsWhileCtxOpen == []~ctxClosed => MiningProceeds

\* is_covered(recall) tells whether the loading window [recall,
\* recall + SECTORS_PER_LOADING) meets the custom range [start, end).
IsCoveredMeansOverlap ==
  \A s, e \in Pos, recall \in 0..U64Max :
    LET r == [start |-> s, end |-> e]
    IN IsCovered(r, recall) = (s < e /\ s < recall + LOADING /\ e > recall)
=============================================================================
