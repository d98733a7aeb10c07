---------------------------- MODULE MCSubscriber ----------------------------
(***************************************************************************)
(* Model-checking instance of Subscriber: a log of 3 entries committed in  *)
(* batches of at most 2, a Readable high water mark of 2 so that           *)
(* backpressure happens, 2-chunk snapshots, a SUB queue of 2 messages and  *)
(* 2 injected faults.                                                      *)
(***************************************************************************)
EXTENDS Subscriber

MCMaxIndex == 3
MCMaxBatch == 2
MCHWM == 2
MCNumChunks == 2
MCMaxChan == 2
MCMaxFaults == 2
MCStartIndex == 0
MCMayClose == FALSE
MCMayCloseTrue == TRUE
=============================================================================
