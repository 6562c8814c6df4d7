--------------------------- MODULE MCDescriptors ---------------------------
(***************************************************************************)
(* Small instances of FdEvents, FdManager and TimerManager for TLC.        *)
(* `part' says which of them a behaviour is about; the others stay in      *)
(* their initial state.                                                    *)
(*                                                                         *)
(* FdEvents has two instances over one table of contexts that has to grow  *)
(* for every descriptor.  In "events" readers wait, and descriptors are    *)
(* cancelled, closed and used again under two pollers; in "grow" three     *)
(* fibers wait for both kinds of events under one.                         *)
(***************************************************************************)
EXTENDS FdEvents, FdManager, TimerManager, TLC

CONSTANTS GrowFibers, GrowPollers

Both == {"READ", "WRITE"}

G == INSTANCE FdEvents WITH
        Fibers <- GrowFibers, Pollers <- GrowPollers, Events <- Both,
        Cancelling <- FALSE, Closing <- FALSE

\* Fibers are interchangeable, and so are polling threads.
MCSymmetry ==
    UNION {Permutations(S) : S \in {Fibers, Pollers, GrowFibers, GrowPollers}}

VARIABLE part
allVars == <<part, vars, fdVars, tmVars>>

MCInit ==
    /\ part \in {"events", "grow", "fds", "timers"}
    /\ IF part = "grow" THEN G!Init ELSE Init
    /\ FdInit
    /\ TMInit

Waits ==
    /\ part = "events" /\ Next
    /\ UNCHANGED <<part, fdVars, tmVars>>
Grows ==
    /\ part = "grow" /\ G!Next
    /\ UNCHANGED <<part, fdVars, tmVars>>
Contexts ==
    /\ part = "fds" /\ FdNext
    /\ UNCHANGED <<part, vars, tmVars>>
\* All the descriptors of the bound are used and closed.
Spent ==
    /\ part = "fds" /\ opens = MaxOpens
    /\ \A n \in FdNumbers : kernel[n] = NotOpen
    /\ UNCHANGED allVars
Timing ==
    /\ part = "timers" /\ TMNext
    /\ UNCHANGED <<part, vars, fdVars>>

MCSpec ==
    /\ MCInit
    /\ [][Waits \/ Grows \/ Contexts \/ Spent \/ Timing]_allVars

\* RecordsAgree of the instance that is running: a fiber that waits is in the
\* context of exactly one event, which epoll watches and the pending count
\* counts, after any order of addEvent, delEvent, cancelEvent, cancelAll, close
\* and triggerEvent (iomanager.cpp:95-253).
RecordsMatch == IF part = "grow" THEN G!RecordsAgree ELSE RecordsAgree
=============================================================================
