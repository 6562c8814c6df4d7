----------------------------- MODULE MCFdEvents -----------------------------
(* Small instances of FdEvents for TLC. *)
EXTENDS FdEvents, TLC

\* The fibers are interchangeable, and so are the polling threads.
FiberPollerSymmetry ==
    Permutations(Fibers) \union Permutations(Pollers)
=============================================================================
