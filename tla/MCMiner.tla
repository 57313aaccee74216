------------------------------- MODULE MCMiner ------------------------------
EXTENDS Miner

\* Admin messages: switch mining off and on, move the start past the
\* minable part of a short flow, clear the end position.
MCMinerMsgs == {Toggle(FALSE), Toggle(TRUE), SetStart(3), SetEnd(NONE)}
=============================================================================
