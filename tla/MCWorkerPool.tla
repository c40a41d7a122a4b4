---------------------------- MODULE MCWorkerPool ----------------------------
(***************************************************************************)
(* Instances of WorkerPool: a batch of two messages, of which the handler  *)
(* panics on the second, and a single message.                             *)
(***************************************************************************)
EXTENDS WorkerPool

CONSTANTS hello, noText, reset, batch, single

MCBody == [b \in {batch, single} |-> IF b = batch THEN <<hello, noText>> ELSE <<reset>>]

=============================================================================
