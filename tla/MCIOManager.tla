---------------------------- MODULE MCIOManager ----------------------------
(* Small instances of IOManager for TLC. *)
EXTENDS IOManager, TLC

\* The worker threads are interchangeable, and so are the items.
WorkerItemSymmetry ==
    Permutations(Workers) \union Permutations(Items)
=============================================================================
