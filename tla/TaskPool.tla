------------------------------ MODULE TaskPool ------------------------------
(***************************************************************************)
(* What the scheduler promises to those who hand it work (scheduler.h):    *)
(* a job runs, may be suspended and resumed, and ends once; jobs are       *)
(* accepted from outside until stop() is called and from running jobs      *)
(* after that; stop() returns when every accepted job has ended.  Threads, *)
(* queues and fibers do not appear.                                        *)
(***************************************************************************)
CONSTANT Jobs

VARIABLES
    status,   \* of each job: "new", "pending", "running" or "done"
    pool      \* "open", "closing" (inside stop()) or "closed"

vars == <<status, pool>>

Init ==
    /\ status = [j \in Jobs |-> "new"]
    /\ pool = "open"

Become(j, from, to) ==
    /\ status[j] = from
    /\ status' = [status EXCEPT ![j] = to]
    /\ UNCHANGED pool

Submit(j) ==
    /\ pool = "open" \/ \E k \in Jobs : status[k] = "running"
    /\ Become(j, "new", "pending")

Begin(j) == Become(j, "pending", "running")

Suspend(j) == Become(j, "running", "pending")

Finish(j) == Become(j, "running", "done")

Close ==
    /\ pool = "open"
    /\ pool' = "closing"
    /\ UNCHANGED status

Closed ==
    /\ pool = "closing"
    /\ \A j \in Jobs : status[j] \in {"new", "done"}
    /\ pool' = "closed"
    /\ UNCHANGED status

Next ==
    \/ \E j \in Jobs : Submit(j) \/ Begin(j) \/ Suspend(j) \/ Finish(j)
    \/ Close
    \/ Closed

Spec == Init /\ [][Next]_vars
=============================================================================
