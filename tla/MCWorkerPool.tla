---------------------------- MODULE MCWorkerPool ----------------------------
(* Four jobs on two workers: the semaphore fills with two jobs still to be  *)
(* dispatched, so a cancellation can fall before, during and after the      *)
(* blocked send.  The dispatcher's order makes the jobs distinguishable, so *)
(* there is no symmetry to exploit.                                         *)
EXTENDS WorkerPool
=============================================================================
