---------------------------- MODULE MCScheduler ----------------------------
(* Small instances of Scheduler for TLC. *)
EXTENDS Scheduler, TLC

\* The worker threads are interchangeable, and so are jobs of one kind.
WorkerJobSymmetry ==
    Permutations(Workers) \union Permutations(Callbacks)
                          \union Permutations(Jobs \ Callbacks)
=============================================================================
