------------------------------- MODULE HookIO -------------------------------
(***************************************************************************)
(* The blocking calls hook.cpp replaces, for fibers of one IOManager:      *)
(* do_io (read, recv, accept, write, send ...), connect_with_timeout,      *)
(* sleep and close.  A call that would block arms a timer, registers an    *)
(* event and yields; the event, the timer's callback or a close() puts the *)
(* fiber back into the task queue.                                         *)
(*                                                                         *)
(* Every fiber has a descriptor and a timer object of its own.  A task is  *)
(* a record: a fiber to resume, the callback of a timer with the call it   *)
(* was made for (the weak pointer to timer_info), or a close().            *)
(***************************************************************************)
EXTENDS TimerSet, Sequences, FiniteSets, SequencesExt

CONSTANTS
    Threads,
    Setups,         \* what each fiber calls, and its timeout or time to sleep
    NoTimeout,      \* (uint64_t) -1
    MaxCalls,       \* bound: calls each fiber makes
    MaxLosses,      \* bound: times what made a descriptor ready goes away again
    MaxTime         \* bound: the clock stops here

Fibers == Timers

VARIABLES
    setup,       \* chosen at the start: the timeouts of FdContext and s_connect_timeout
    thread,      \* what each thread does: a place in its loop, or a task
    queue,       \* the task queue
    pc,          \* where each fiber is in its call
    calls,       \* calls begun: names the timer_info of the current call
    cancelled,   \* timer_info::cancelled of the current call
    began,       \* when the current call first had to wait
    result,      \* what the last call returned
    event,       \* fibers with a registered event
    data,        \* fibers whose descriptor is ready
    losses,
    closed,      \* fibers whose descriptor is closed
    assertion    \* FALSE once a thread resumes a fiber that is not READY

\* The fibers in do_io, in connect_with_timeout and in sleep.
Readers == {f \in Fibers : setup[f].call = "io"}
Connectors == {f \in Fibers : setup[f].call = "connect"}
Sleepers == {f \in Fibers : setup[f].call = "sleep"}

Timeout(f) == setup[f].timeout

callVars == <<calls, cancelled, began, result>>
worldVars == <<data, losses, closed>>
vars == <<setup, now, timerVars, thread, queue, pc, callVars, event, worldVars, assertion>>

Init ==
    /\ setup \in Setups
    /\ now = 0
    /\ TimerInit
    /\ thread = [t \in Threads |-> [kind |-> "scan", fiber |-> 0, call |-> 0]]
    /\ queue = <<>>
    /\ pc = [f \in Fibers |-> "out"]
    /\ calls = [f \in Fibers |-> 0]
    /\ cancelled = [f \in Fibers |-> FALSE]
    /\ began = [f \in Fibers |-> 0]
    /\ result = [f \in Fibers |-> "none"]
    /\ event = {}
    /\ data = {}
    /\ losses = 0
    /\ closed = {}
    /\ assertion = TRUE

\* What a thread is at, for which fiber and for which call of it.
Task(kind, f, call) == [kind |-> kind, fiber |-> f, call |-> call]
Loop(place) == Task(place, 0, 0)
Resume(f) == Task("resume", f, 0)
Close(f) == Task("close", f, 0)

\* Thread t is at k; the process still runs.
On(t, k) ==
    /\ Alive /\ assertion
    /\ thread[t] = k

\* Fiber f runs on thread t and is at a place.
At(t, f, place) ==
    /\ On(t, Resume(f))
    /\ pc[f] = place

Goto(f, place) == pc' = [pc EXCEPT ![f] = place]

Free(t) == thread' = [thread EXCEPT ![t] = Loop("scan")]

\* The call returns r and the fiber ends.
Return(t, f, r) ==
    /\ Goto(f, "out")
    /\ result' = [result EXCEPT ![f] = r]
    /\ Free(t)

-----------------------------------------------------------------------------
(* The threads.                                                            *)

\* A fiber that will make the call is scheduled.
Submit(f) ==
    /\ pc[f] = "out" /\ calls[f] < MaxCalls /\ f \notin closed
    /\ now < MaxTime
    /\ Goto(f, "new")
    /\ queue' = Append(queue, Resume(f))
    /\ UNCHANGED <<setup, now, timerVars, thread, callVars, event, worldVars, assertion>>

\* Another fiber is scheduled that closes the descriptor of f.
SubmitClose(f) ==
    /\ f \notin closed /\ ~Contains(queue, Close(f))
    /\ \A t \in Threads : thread[t] # Close(f)
    /\ queue' = Append(queue, Close(f))
    /\ UNCHANGED <<setup, now, timerVars, thread, pc, callVars, event, worldVars, assertion>>

\* run() takes the first task.  Fiber::resume asserts that the fiber is READY.
Take(t) ==
    /\ On(t, Loop("scan"))
    /\ queue # <<>>
    /\ LET k == Head(queue) IN
        /\ queue' = Tail(queue)
        /\ thread' = [thread EXCEPT ![t] = k]
        /\ IF k.kind = "resume"
           THEN /\ assertion' = (pc[k.fiber] \in {"new", "wait"})
                /\ Goto(k.fiber, IF pc[k.fiber] = "new" THEN "call" ELSE "woken")
           ELSE UNCHANGED <<pc, assertion>>
    /\ UNCHANGED <<setup, now, timerVars, callVars, event, worldVars>>

EnterIdle(t) ==
    /\ On(t, Loop("scan"))
    /\ queue = <<>>
    /\ thread' = [thread EXCEPT ![t] = Loop("timers")]
    /\ UNCHANGED <<setup, now, timerVars, queue, pc, callVars, event, worldVars, assertion>>

\* idle(): the callbacks of the expired timers are scheduled, first due first.
\* The callback of a sleep resumes its fiber.
Expired(t) ==
    /\ On(t, Loop("timers"))
    /\ \E due \in SUBSET m_timers :
        /\ expire(due)
        /\ queue' = queue \o SetToSortSeq({Task("cb", f, calls[f]) : f \in due},
                                LAMBDA a, b : Before(m_next[a.fiber], a.fiber, b.fiber))
    /\ thread' = [thread EXCEPT ![t] = Loop("events")]
    /\ UNCHANGED <<setup, now, pc, callVars, event, worldVars, assertion>>

\* idle(): triggerEvent for a descriptor that is ready; then back to run().
Triggered(t) ==
    /\ On(t, Loop("events"))
    /\ \/ \E f \in event \intersect (data \ closed) :
          /\ event' = event \ {f}
          /\ queue' = Append(queue, Resume(f))
          /\ UNCHANGED thread
       \/ /\ event \intersect (data \ closed) = {}
          /\ Free(t)
          /\ UNCHANGED <<event, queue>>
    /\ UNCHANGED <<setup, now, timerVars, pc, callVars, worldVars, assertion>>

-----------------------------------------------------------------------------
(* Callbacks and close().                                                  *)

\* winfo.lock() fails because its call has returned, or the call is cancelled.
Dead(k) ==
    calls[k.fiber] # k.call \/ pc[k.fiber] \in {"out", "new"} \/ cancelled[k.fiber]

\* The callback of a timer: a sleeping fiber is scheduled; a call that waits is
\* marked as timed out before its event is cancelled.
TimerCallback(t) ==
    \E f \in Fibers :
        /\ thread[t].kind = "cb" /\ thread[t].fiber = f
        /\ On(t, thread[t])
        /\ IF f \in Sleepers
           THEN /\ queue' = Append(queue, Resume(f))
                /\ Free(t)
                /\ UNCHANGED cancelled
           ELSE IF Dead(thread[t])
           THEN Free(t) /\ UNCHANGED <<cancelled, queue>>
           ELSE /\ cancelled' = [cancelled EXCEPT ![f] = TRUE]
                /\ thread' = [thread EXCEPT ![t] = [thread[t] EXCEPT !.kind = "cancelEvent"]]
                /\ UNCHANGED queue
        /\ UNCHANGED <<setup, now, timerVars, pc, calls, began, result, event, worldVars, assertion>>

\* Mutant: the fiber is scheduled whether or not its event is registered.
Trigger_Always(f) ==
    /\ event' = event \ {f}
    /\ queue' = Append(queue, Resume(f))

\* cancelEvent and cancelAll trigger a registered event.
Trigger(f) ==
    /\ event' = event \ {f}
    /\ queue' = IF f \in event THEN Append(queue, Resume(f)) ELSE queue

cancelEvent(t) ==
    \E f \in Fibers :
        /\ thread[t].kind = "cancelEvent" /\ thread[t].fiber = f
        /\ On(t, thread[t])
        /\ Trigger(f)
        /\ Free(t)
        /\ UNCHANGED <<setup, now, timerVars, pc, callVars, worldVars, assertion>>

\* Mutant: the events of the descriptor are not cancelled.
closeCancelAll_Skipped(t) ==
    \E f \in Fibers :
        /\ On(t, Close(f))
        /\ thread' = [thread EXCEPT ![t] = [Close(f) EXCEPT !.kind = "close_f"]]
        /\ UNCHANGED <<setup, now, timerVars, queue, pc, callVars, event, worldVars, assertion>>

\* close(): cancelAll, then close_f.
closeCancelAll(t) ==
    \E f \in Fibers :
        /\ On(t, Close(f))
        /\ Trigger(f)
        /\ thread' = [thread EXCEPT ![t] = [Close(f) EXCEPT !.kind = "close_f"]]
        /\ UNCHANGED <<setup, now, timerVars, pc, callVars, worldVars, assertion>>

close_f(t) ==
    \E f \in Fibers :
        /\ On(t, [Close(f) EXCEPT !.kind = "close_f"])
        /\ closed' = closed \union {f}
        /\ Free(t)
        /\ UNCHANGED <<setup, now, timerVars, queue, pc, callVars, event, data, losses, assertion>>

-----------------------------------------------------------------------------
(* A call of fiber f on thread t.                                          *)

\* do_io for a descriptor the user has made non-blocking, or that is no socket:
\* the original call, whatever it gives.
Direct(t, f) ==
    /\ f \in Readers
    /\ At(t, f, "call")
    /\ calls' = [calls EXCEPT ![f] = @ + 1]
    /\ data' = data \ {f}
    /\ Return(t, f, IF f \in closed THEN "EBADF" ELSE IF f \in data THEN "ok" ELSE "EAGAIN")
    /\ UNCHANGED <<setup, now, timerVars, queue, cancelled, began, event, losses, closed, assertion>>

\* A call that may wait has a timer_info of its own.
Begin(t, f) ==
    /\ At(t, f, "call")
    /\ Goto(f, IF f \in Sleepers THEN "timer" ELSE "try")
    /\ calls' = [calls EXCEPT ![f] = @ + 1]
    /\ cancelled' = [cancelled EXCEPT ![f] = FALSE]
    /\ began' = [began EXCEPT ![f] = now]
    /\ UNCHANGED <<setup, now, timerVars, thread, queue, result, event, worldVars, assertion>>

\* retry: the original call.  A read takes what is there; a connect is over at
\* once when the peer has already answered.
Try(t, f) ==
    /\ At(t, f, "try")
    /\ IF f \in closed \/ f \in data
       THEN /\ Return(t, f, IF f \in closed THEN "EBADF" ELSE "ok")
            /\ data' = data \ {f}
       ELSE /\ Goto(f, IF Timeout(f) = NoTimeout THEN "add" ELSE "timer")
            /\ UNCHANGED <<thread, result, data>>
    /\ UNCHANGED <<setup, now, timerVars, queue, calls, cancelled, began, event, losses, closed,
                   assertion>>

\* addConditionTimer; for a sleep addTimer, and then the yield.
Arm(t, f) ==
    /\ At(t, f, "timer")
    /\ addTimer(f, Timeout(f), FALSE)
    /\ Goto(f, IF f \in Sleepers THEN "yield" ELSE "add")
    /\ UNCHANGED <<setup, now, thread, queue, callVars, event, worldVars, assertion>>

\* addEvent, which fails for a descriptor that is closed.
addEvent(t, f) ==
    /\ At(t, f, "add")
    /\ IF f \in closed
       THEN Goto(f, "failed") /\ UNCHANGED event
       ELSE Goto(f, "yield") /\ event' = event \union {f}
    /\ UNCHANGED <<setup, now, timerVars, thread, queue, callVars, worldVars, assertion>>

\* addEvent has failed: the timer is cancelled; a connect asks SO_ERROR next.
AddFailed(t, f) ==
    /\ At(t, f, "failed")
    /\ IF Timeout(f) = NoTimeout THEN UNCHANGED timerVars ELSE cancel(f)
    /\ Return(t, f, "error")
    /\ UNCHANGED <<setup, now, queue, calls, cancelled, began, event, worldVars, assertion>>

yield(t, f) ==
    /\ At(t, f, "yield")
    /\ Goto(f, "wait")
    /\ Free(t)
    /\ UNCHANGED <<setup, now, timerVars, queue, callVars, event, worldVars, assertion>>

\* Resumed: the timer is cancelled.  A sleep is over.
Woken(t, f) ==
    /\ At(t, f, "woken")
    /\ IF f \in Sleepers
       THEN Return(t, f, "ok") /\ UNCHANGED timerVars
       ELSE /\ Goto(f, "check")
            /\ IF Timeout(f) = NoTimeout THEN UNCHANGED timerVars ELSE cancel(f)
            /\ UNCHANGED <<thread, result>>
    /\ UNCHANGED <<setup, now, queue, calls, cancelled, began, event, worldVars, assertion>>

\* Timed out, or once more; a connect ends with what SO_ERROR says.
Check(t, f) ==
    /\ At(t, f, "check")
    /\ \/ cancelled[f] /\ Return(t, f, "ETIMEDOUT")
       \/ ~cancelled[f] /\ f \in Readers /\ Goto(f, "try") /\ UNCHANGED <<thread, result>>
       \/ ~cancelled[f] /\ f \in Connectors
          /\ Return(t, f, IF f \in closed THEN "error" ELSE "ok")
    /\ UNCHANGED <<setup, now, timerVars, queue, calls, cancelled, began, event, worldVars, assertion>>

Call_step(t, f) ==
    \/ Direct(t, f)
    \/ Begin(t, f)
    \/ Try(t, f)
    \/ Arm(t, f)
    \/ addEvent(t, f)
    \/ AddFailed(t, f)
    \/ yield(t, f)
    \/ Woken(t, f)
    \/ Check(t, f)

Thread_step(t) ==
    \/ Take(t)
    \/ EnterIdle(t)
    \/ Expired(t)
    \/ Triggered(t)
    \/ TimerCallback(t)
    \/ cancelEvent(t)
    \/ closeCancelAll(t)
    \/ close_f(t)
    \/ \E f \in Fibers : Call_step(t, f)

-----------------------------------------------------------------------------
(* The world.                                                              *)

\* Data, a connection or the answer of a peer arrives.
Arrive(f) ==
    /\ f \notin Sleepers /\ f \notin data /\ f \notin closed
    /\ data' = data \union {f}
    /\ UNCHANGED <<setup, now, timerVars, thread, queue, pc, callVars, event, losses, closed, assertion>>

\* What made a descriptor ready is gone: another process took it, or a client
\* left before it was accepted.
Lose(f) ==
    /\ f \in data /\ losses < MaxLosses
    /\ data' = data \ {f}
    /\ losses' = losses + 1
    /\ UNCHANGED <<setup, now, timerVars, thread, queue, pc, callVars, event, closed, assertion>>

Tick ==
    /\ now < MaxTime
    /\ now' = now + 1
    /\ UNCHANGED <<setup, timerVars, thread, queue, pc, callVars, event, worldVars, assertion>>

\* erase() has not come back, or an assertion has failed.
Dead_process ==
    /\ ~Alive \/ ~assertion
    /\ UNCHANGED vars

Next ==
    \/ \E f \in Fibers : Submit(f)
    \/ \E f \in Readers \union Connectors : SubmitClose(f)
    \/ \E t \in Threads : Thread_step(t)
    \/ \E f \in Fibers : Arrive(f)
    \/ \E f \in Fibers : Lose(f)
    \/ Tick
    \/ Dead_process

Spec == Init /\ [][Next]_vars

\* Every thread runs and time passes.
FairSpec ==
    /\ Spec
    /\ \A t \in Threads : WF_vars(Thread_step(t))
    /\ WF_vars(Tick)

-----------------------------------------------------------------------------
(* Properties.                                                             *)

\* The ways a suspended fiber is woken again.
Wakers(f) ==
    {w \in {"event", "queue", "timer", "callback"} :
        \/ w = "event" /\ f \in event
        \/ w = "queue" /\ Contains(queue, Resume(f))
        \/ w = "timer" /\ f \in Sleepers \intersect m_timers
        \/ w = "callback" /\ f \in Sleepers
              /\ (Contains(queue, Task("cb", f, calls[f]))
                    \/ \E t \in Threads : thread[t] = Task("cb", f, calls[f]))}

\* A suspended fiber has exactly one way to be woken, and one that is not
\* suspended has none: an event, a timeout and a close() that meet resume the
\* fiber once (triggerEvent under the lock of FdContext).
WokenOnce ==
    (Alive /\ assertion) => \A f \in Fibers :
        /\ pc[f] = "wait" => Cardinality(Wakers(f)) = 1
        /\ pc[f] \notin {"new", "wait", "yield"} => Wakers(f) = {}
        /\ \A i, j \in DOMAIN queue : queue[i] = Resume(f) /\ queue[j] = Resume(f) => i = j

\* A sleep returns no earlier than its time after it began, although its timer
\* shares the set with timers of other calls that fire and are cancelled
\* (hook.cpp:173-197, timer.cpp:135-165).
NotBeforeItsTime ==
    \A f \in Sleepers :
        pc[f] = "out" /\ result[f] = "ok" => now >= began[f] + Timeout(f)

\* "On a timeout set the error and return" (hook.cpp:260): a call that has
\* been marked as timed out returns ETIMEDOUT.
TimeoutReturns ==
    \A f \in Fibers :
        (pc[f] = "wait" /\ cancelled[f]) ~> (pc[f] = "out" /\ result[f] = "ETIMEDOUT")

=============================================================================
