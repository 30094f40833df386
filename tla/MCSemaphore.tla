---------------------------- MODULE MCSemaphore -----------------------------
(* Instance of Semaphore for model checking: threads are interchangeable.  *)
EXTENDS Semaphore, TLC

Symmetry == Permutations(Threads)
=============================================================================
