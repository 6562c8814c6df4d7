------------------------------ MODULE MCHookIO ------------------------------
(***************************************************************************)
(* Small instances of HookIO for TLC.  One thread has two fibers, one with *)
(* two calls and one that sleeps once; two threads have one fiber with one *)
(* call, and the other fiber is never submitted.                           *)
(***************************************************************************)
EXTENDS HookIO

Blocking(call, timeout) == [call |-> call, timeout |-> timeout]

\* A read or a connect beside a fiber that sleeps.
WithSleeper ==
    {<<Blocking("io", 1), Blocking("sleep", 1)>>,
     <<Blocking("connect", 1), Blocking("sleep", 2)>>}

\* These calls, and a read without a timeout, for two threads.
InParallel ==
    {<<Blocking("io", 1), Blocking("sleep", NoTimeout)>>,
     <<Blocking("io", NoTimeout), Blocking("sleep", NoTimeout)>>,
     <<Blocking("connect", 1), Blocking("sleep", NoTimeout)>>}

AllSetups == WithSleeper \union InParallel

\* A connect alone.
ConnectOnly ==
    {<<Blocking("connect", 1)>>}

Parallel == setup \in InParallel
Active(t) == Parallel \/ t = CHOOSE u \in Threads : TRUE

MCSpec ==
    /\ Init
    /\ [][/\ Next
          /\ \A t \in Threads : ~Active(t) => thread'[t] = thread[t]
          /\ pc'[2] = "new" => ~Parallel /\ calls[2] = 0
          /\ Parallel /\ pc'[1] = "new" => calls[1] = 0]_vars
    /\ \A t \in Threads : WF_vars(Active(t) /\ Thread_step(t))
    /\ WF_vars(Tick)

\* WaitEnds on one thread: a fiber that waits is resumed when its descriptor is
\* ready or closed.  With two threads an event that is added between cancelAll
\* and close_f of a close() (hook.cpp:309-312) is left behind.
WaitEndsAlone ==
    \A f \in Fibers :
        (~Parallel /\ pc[f] = "wait" /\ (f \in data \/ f \in closed \/ f \in Sleepers)) ~>
            (pc[f] # "wait" \/ (f \notin data /\ f \notin closed) \/ ~Alive)
=============================================================================
