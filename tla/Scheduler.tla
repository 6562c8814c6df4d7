----------------------------- MODULE Scheduler -----------------------------
(***************************************************************************)
(* The N:M scheduler of luwu: scheduler.h / scheduler.cpp together with    *)
(* the fibers it runs (fiber.cpp) and the threads it starts (thread.cpp).  *)
(*                                                                         *)
(* A job is one unit of work handed to scheduler(): a Fiber object, or a   *)
(* plain callback for which run() makes a fiber when it takes it.  A job   *)
(* that runs may hand over further jobs, put itself back into the queue    *)
(* and yield (the protocol of tests/test_scheduler.cpp), or return.        *)
(*                                                                         *)
(* The fiber switch is two steps, as in Fiber::yield: the state becomes    *)
(* READY first, the context is saved by swapcontext after that.            *)
(***************************************************************************)
EXTENDS Naturals, Sequences, FiniteSets

CONSTANTS
    Workers,      \* the threads start() creates (m_threads)
    Caller,       \* the thread that owns the scheduler and calls stop()
    UseCaller,    \* m_useCaller: the caller schedules too, inside stop()
    Jobs,         \* what can be handed to scheduler()
    Callbacks,    \* the jobs handed over as std::function, not as Fiber::ptr
    AnyThread,    \* the thread argument -1
    Unpinned,     \* may a fiber requeue itself with thread = -1?
    MaxYields     \* bound: yields of one job

Run == Workers \union (IF UseCaller THEN {Caller} ELSE {})

ASSUME SchedulerAssumption ==
    /\ IsFiniteSet(Workers)
    /\ Run # {}
    /\ Caller \notin Workers
    /\ UseCaller \in BOOLEAN
    /\ Unpinned \in BOOLEAN
    /\ Callbacks \subseteq Jobs
    /\ AnyThread \notin Run \union Jobs
    /\ MaxYields \in Nat

VARIABLES
    m_fibers,             \* the task queue
    m_activeThreadCount,
    m_idleThreadCount,
    m_stopping,
    pc,                   \* where each thread is in run()
    task,                 \* the task each thread has taken
    idleTerm,             \* threads whose idle fiber is TERM
    m_state,              \* state of each job's fiber, "NONE" before it exists
    armed,                \* fibers that requeued themselves and have not yielded
    yields,               \* how often each job has yielded
    given,                \* jobs handed to scheduler() so far
    main,                 \* where the caller is between start() and stop()
    fault                 \* a failed LUWU_ASSERT, or a switch into a live stack

vars == <<m_fibers, m_activeThreadCount, m_idleThreadCount, m_stopping, pc,
          task, idleTerm, m_state, armed, yields, given, main, fault>>

Task == [job : Jobs, cb : BOOLEAN, thread : Run \union {AnyThread}]

NoTask == [job |-> AnyThread, cb |-> FALSE, thread |-> AnyThread]

Init ==
    /\ m_fibers = <<>>
    /\ m_activeThreadCount = 0
    /\ m_idleThreadCount = 0
    /\ m_stopping = FALSE
    /\ pc = [t \in Run |-> "off"]
    /\ task = [t \in Run |-> NoTask]
    /\ idleTerm = {}
    /\ m_state = [j \in Jobs |-> IF j \in Callbacks THEN "NONE" ELSE "READY"]
    /\ armed = {}
    /\ yields = [j \in Jobs |-> 0]
    /\ given = {}
    /\ main = "init"
    /\ fault = "none"

-----------------------------------------------------------------------------
(* A failed assertion aborts the process: no step is taken after a fault.  *)

MainAt(where) ==
    fault = "none" /\ main = where

At(t, where) ==
    fault = "none" /\ pc[t] = where

Goto(t, from, to) ==
    /\ At(t, from)
    /\ pc' = [pc EXCEPT ![t] = to]

-----------------------------------------------------------------------------
(* scheduler(): push_back under m_mutex.  tickle() is empty in this class. *)

schedulerNoLock(j, cb, thr) ==
    m_fibers' = Append(m_fibers, [job |-> j, cb |-> cb, thread |-> thr])

Hand(j, thr) ==
    /\ j \notin given
    /\ given' = given \union {j}
    /\ schedulerNoLock(j, j \in Callbacks, thr)

MainSchedule(j, thr) ==
    /\ MainAt("init") \/ MainAt("started")
    /\ Hand(j, thr)
    /\ UNCHANGED <<m_activeThreadCount, m_idleThreadCount, m_stopping, pc, task,
                   idleTerm, m_state, armed, yields, main, fault>>

\* start() holds m_mutex while it creates the threads; their first queue scan
\* waits for it.
start ==
    /\ MainAt("init")
    /\ main' = "started"
    /\ pc' = [t \in Run |-> IF t \in Workers THEN "scan" ELSE pc[t]]
    /\ UNCHANGED <<m_fibers, m_activeThreadCount, m_idleThreadCount, m_stopping,
                   task, idleTerm, m_state, armed, yields, given, fault>>

\* Mutant: stopping() does not look at the active threads.
stopping_IgnoresActive ==
    m_stopping /\ m_fibers = <<>>

\* Mutant: stopping() does not look at the queue.
stopping_IgnoresQueue ==
    m_stopping /\ m_activeThreadCount = 0

stopping ==
    m_stopping /\ m_fibers = <<>> /\ m_activeThreadCount = 0

\* The first stop(): with use_caller the root fiber is resumed and run()
\* executes on the caller; otherwise the caller goes straight to the joins.
stop ==
    /\ MainAt("started")
    /\ m_stopping' = TRUE
    /\ main' = IF UseCaller THEN "root" ELSE "join"
    /\ pc' = [t \in Run |-> IF t = Caller THEN "scan" ELSE pc[t]]
    /\ UNCHANGED <<m_fibers, m_activeThreadCount, m_idleThreadCount, task,
                   idleTerm, m_state, armed, yields, given, fault>>

stopRootDone ==
    /\ MainAt("root")
    /\ pc[Caller] = "exited"
    /\ main' = "join"
    /\ UNCHANGED <<m_fibers, m_activeThreadCount, m_idleThreadCount, m_stopping,
                   pc, task, idleTerm, m_state, armed, yields, given, fault>>

stopJoin ==
    /\ MainAt("join")
    /\ \A w \in Workers : pc[w] = "exited"
    /\ main' = "stopped"
    /\ UNCHANGED <<m_fibers, m_activeThreadCount, m_idleThreadCount, m_stopping,
                   pc, task, idleTerm, m_state, armed, yields, given, fault>>

\* A second stop(), as ~IOManager makes after an explicit one.  When stopping()
\* is false it resumes the root fiber again, and that fiber is TERM.
stopAgain ==
    /\ MainAt("stopped")
    /\ main' = "destroyed"
    /\ fault' = IF ~stopping /\ UseCaller THEN "resume" ELSE fault
    /\ UNCHANGED <<m_fibers, m_activeThreadCount, m_idleThreadCount, m_stopping,
                   pc, task, idleTerm, m_state, armed, yields, given>>

-----------------------------------------------------------------------------
(* run(): one iteration of the scheduling loop on thread t.                *)

\* Mutant: the thread a task is pinned to is not compared.
Mine_IgnoresPin(t, i) ==
    t \in Run

Mine(t, i) ==
    m_fibers[i].thread \in {AnyThread, t}

\* Mutant: the task after the one taken is erased with it.
RemoveTask_OffByOne(q, i) ==
    SubSeq(q, 1, i - 1) \o SubSeq(q, i + 2, Len(q))

RemoveTask(q, i) ==
    SubSeq(q, 1, i - 1) \o SubSeq(q, i + 1, Len(q))

\* The scan under m_mutex finds a task: the first one not pinned elsewhere.
Take(t) ==
    /\ Goto(t, "scan", "resume")
    /\ \E i \in DOMAIN m_fibers :
         /\ Mine(t, i)
         /\ \A k \in 1..(i - 1) : ~Mine(t, k)
         /\ task' = [task EXCEPT ![t] = m_fibers[i]]
         /\ m_fibers' = RemoveTask(m_fibers, i)
    /\ m_activeThreadCount' = m_activeThreadCount + 1
    /\ UNCHANGED <<m_idleThreadCount, m_stopping, idleTerm, m_state, armed,
                   yields, given, main, fault>>

\* Mutant: the idle thread is not counted on the way in.
NoTaskFound_NotCounted(t) ==
    /\ \A i \in DOMAIN m_fibers : ~Mine(t, i)
    /\ Goto(t, "scan", IF t \in idleTerm THEN "exited" ELSE "idle")
    /\ UNCHANGED <<m_fibers, m_activeThreadCount, m_idleThreadCount, m_stopping,
                   task, idleTerm, m_state, armed, yields, given, main, fault>>

\* The scan finds nothing: resume the idle fiber, or leave run() when that
\* fiber has ended.
NoTaskFound(t) ==
    /\ \A i \in DOMAIN m_fibers : ~Mine(t, i)
    /\ \/ /\ t \in idleTerm
          /\ Goto(t, "scan", "exited")
          /\ UNCHANGED m_idleThreadCount
       \/ /\ t \notin idleTerm
          /\ Goto(t, "scan", "idle")
          /\ m_idleThreadCount' = m_idleThreadCount + 1
    /\ UNCHANGED <<m_fibers, m_activeThreadCount, m_stopping, task, idleTerm,
                   m_state, armed, yields, given, main, fault>>

\* idle(): test stopping() under m_mutex; end, or yield to the loop.
idle(t) ==
    /\ Goto(t, "idle", "idleBack")
    /\ idleTerm' = IF stopping THEN idleTerm \union {t} ELSE idleTerm
    /\ UNCHANGED <<m_fibers, m_activeThreadCount, m_idleThreadCount, m_stopping,
                   task, m_state, armed, yields, given, main, fault>>

IdleBack(t) ==
    /\ Goto(t, "idleBack", "scan")
    /\ m_idleThreadCount' = m_idleThreadCount - 1
    /\ UNCHANGED <<m_fibers, m_activeThreadCount, m_stopping, task, idleTerm,
                   m_state, armed, yields, given, main, fault>>

\* The fiber is on its way out of yield() on thread u: it is READY (or TERM)
\* but its context is not saved yet.
Leaving(u, j) ==
    pc[u] = "swap" /\ task[u].job = j

\* Fiber::resume for the task taken.  A callback gets its fiber here.
resume(t) ==
    LET j == task[t].job IN
    /\ Goto(t, "resume", "fiber")
    /\ fault' = IF ~task[t].cb /\ m_state[j] # "READY" THEN "resume"
                ELSE IF \E u \in Run \ {t} : Leaving(u, j) THEN "context"
                ELSE fault
    /\ m_state' = [m_state EXCEPT ![j] = "RUNNING"]
    /\ UNCHANGED <<m_fibers, m_activeThreadCount, m_idleThreadCount, m_stopping,
                   task, idleTerm, armed, yields, given, main>>

-----------------------------------------------------------------------------
(* What the fiber on thread t does.                                        *)

FiberSchedule(t, j, thr) ==
    /\ At(t, "fiber")
    /\ Hand(j, thr)
    /\ UNCHANGED <<m_activeThreadCount, m_idleThreadCount, m_stopping, pc, task,
                   idleTerm, m_state, armed, yields, main, fault>>

\* Mutant: a fiber requeues itself for any thread although others could take it.
RequeueThreads_Any(t) ==
    {t, AnyThread}

\* The thread arguments a fiber may requeue itself with.
RequeueThreads(t) ==
    IF Unpinned THEN {t, AnyThread} ELSE {t}

\* scheduler(Fiber::GetThis(), thr), the step a fiber must take before yield.
Requeue(t, thr) ==
    LET j == task[t].job IN
    /\ At(t, "fiber")
    /\ j \notin armed
    /\ yields[j] < MaxYields
    /\ thr \in RequeueThreads(t)
    /\ armed' = armed \union {j}
    /\ schedulerNoLock(j, FALSE, thr)
    /\ UNCHANGED <<m_activeThreadCount, m_idleThreadCount, m_stopping, pc, task,
                   idleTerm, m_state, yields, given, main, fault>>

\* Fiber::yield up to swapcontext: the state is READY, the stack is in use.
yield(t) ==
    LET j == task[t].job IN
    /\ Goto(t, "fiber", "swap")
    /\ j \in armed
    /\ armed' = armed \ {j}
    /\ yields' = [yields EXCEPT ![j] = @ + 1]
    /\ m_state' = [m_state EXCEPT ![j] = "READY"]
    /\ UNCHANGED <<m_fibers, m_activeThreadCount, m_idleThreadCount, m_stopping,
                   task, idleTerm, given, main, fault>>

\* MainFunc after m_cb() returned: TERM, then the last yield.
MainFunc(t) ==
    LET j == task[t].job IN
    /\ Goto(t, "fiber", "swap")
    /\ j \notin armed
    /\ m_state' = [m_state EXCEPT ![j] = "TERM"]
    /\ UNCHANGED <<m_fibers, m_activeThreadCount, m_idleThreadCount, m_stopping,
                   task, idleTerm, armed, yields, given, main, fault>>

\* swapcontext saves the context and control is back in run().
Swap(t) ==
    /\ Goto(t, "swap", "after")
    /\ UNCHANGED <<m_fibers, m_activeThreadCount, m_idleThreadCount, m_stopping,
                   task, idleTerm, m_state, armed, yields, given, main, fault>>

Queued(j) ==
    \E i \in DOMAIN m_fibers : m_fibers[i].job = j

\* Mutant: the thread stays counted as active.
After_NotDecremented(t) ==
    /\ Goto(t, "after", "scan")
    /\ task' = [task EXCEPT ![t] = NoTask]
    /\ UNCHANGED <<m_fibers, m_activeThreadCount, m_idleThreadCount, m_stopping, idleTerm,
                   m_state, armed, yields, given, main, fault>>

\* After resume(): --m_activeThreadCount, then the reference is dropped.  The
\* destructor asserts TERM when it was the last one.
After(t) ==
    LET j == task[t].job IN
    /\ Goto(t, "after", "scan")
    /\ m_activeThreadCount' = m_activeThreadCount - 1
    /\ task' = [task EXCEPT ![t] = NoTask]
    /\ fault' = IF /\ m_state[j] # "TERM"
                   /\ ~Queued(j)
                   /\ \A u \in Run \ {t} : task[u].job # j
                THEN "destroy" ELSE fault
    /\ UNCHANGED <<m_fibers, m_idleThreadCount, m_stopping, idleTerm, m_state,
                   armed, yields, given, main>>

-----------------------------------------------------------------------------
Caller_step ==
    \/ \E j \in Jobs, thr \in Run \union {AnyThread} : MainSchedule(j, thr)
    \/ start
    \/ stop
    \/ stopRootDone
    \/ stopJoin
    \/ stopAgain

Thread_step(t) ==
    \/ Take(t)
    \/ NoTaskFound(t)
    \/ idle(t)
    \/ IdleBack(t)
    \/ resume(t)
    \/ \E j \in Jobs, thr \in Run \union {AnyThread} : FiberSchedule(t, j, thr)
    \/ \E thr \in Run \union {AnyThread} : Requeue(t, thr)
    \/ yield(t)
    \/ MainFunc(t)
    \/ Swap(t)
    \/ After(t)

\* The process has ended.
Terminated ==
    /\ MainAt("destroyed")
    /\ UNCHANGED vars

Next ==
    \/ Caller_step
    \/ \E t \in Run : Thread_step(t)
    \/ Terminated

Spec == Init /\ [][Next]_vars

\* The kernel runs every thread, and the caller finishes a stop() it began.
Fairness ==
    /\ \A t \in Run : WF_vars(Thread_step(t))
    /\ WF_vars(stopRootDone \/ stopJoin)

FairSpec == Spec /\ Fairness

-----------------------------------------------------------------------------
(* Properties.                                                             *)

\* Every variable stays in its domain.
TypeOK ==
    /\ m_fibers \in Seq(Task)
    /\ m_activeThreadCount \in Nat
    /\ m_idleThreadCount \in Nat
    /\ m_stopping \in BOOLEAN
    /\ pc \in [Run -> {"off", "scan", "resume", "fiber", "swap", "after",
                        "idle", "idleBack", "exited"}]
    /\ task \in [Run -> Task \union {NoTask}]
    /\ idleTerm \subseteq Run
    /\ m_state \in [Jobs -> {"NONE", "READY", "RUNNING", "TERM"}]
    /\ armed \subseteq Jobs
    /\ yields \in [Jobs -> 0..MaxYields]
    /\ given \subseteq Jobs
    /\ main \in {"init", "started", "root", "join", "stopped", "destroyed"}
    /\ fault \in {"none", "resume", "context", "destroy"}

\* The asserts of Fiber::resume (READY) and ~Fiber (TERM) never fail and no
\* thread switches to a context that is not saved (fiber.cpp:116, 82, 142),
\* for fibers that requeue themselves on their own thread.
NoFault ==
    fault = "none"

\* LUWU_ASSERT(m_state == READY) in Fiber::resume (fiber.cpp:116): the fiber a
\* thread takes from the queue is not running.
ResumeReady ==
    fault # "resume"

\* stop() "waits until all tasks are executed" (scheduler.h:54): once it has
\* returned, every job ever handed over has run to its end, nothing is queued
\* and no thread is counted as active.
StopDrains ==
    main \in {"stopped", "destroyed"} =>
        /\ m_fibers = <<>>
        /\ m_activeThreadCount = 0
        /\ \A j \in given : m_state[j] = "TERM"

\* A thread decides to leave run() from what it sees in one critical section
\* (stopping(), scheduler.cpp:84) and acts on it later, without the lock. The
\* decision never becomes stale: from then on there is no task and no thread
\* working on one, so no task can be pinned to a thread that has left.
ExitIsFinal ==
    idleTerm # {} =>
        /\ m_fibers = <<>>
        /\ \A t \in Run : pc[t] \notin {"resume", "fiber", "swap", "after"}

\* No job is lost between the queue, a thread and its end: every job handed to
\* scheduler() that has not ended is queued or in the hands of a thread.
NoLostJob ==
    \A j \in given :
        \/ m_state[j] = "TERM"
        \/ Queued(j)
        \/ \E t \in Run : task[t].job = j

\* One fiber is never on two threads: the stack of a fiber has one user.
OneThreadPerFiber ==
    \A t, u \in Run :
        /\ pc[t] \in {"fiber", "swap"}
        /\ pc[u] \in {"fiber", "swap"}
        /\ task[t].job = task[u].job
        => t = u

\* stop() returns: once the caller is in it, the root fiber's run() and all the
\* joins end, provided the jobs themselves do.
StopReturns ==
    (main \in {"root", "join"}) ~> (main = "stopped")

-----------------------------------------------------------------------------
(* The scheduler implements TaskPool.                                      *)

statusOf(j) ==
    IF j \notin given THEN "new"
    ELSE IF m_state[j] = "TERM" THEN "done"
    ELSE IF m_state[j] = "RUNNING" THEN "running"
    ELSE "pending"

jobStatus == [j \in Jobs |-> statusOf(j)]

poolStatus ==
    IF ~m_stopping THEN "open"
    ELSE IF main \in {"root", "join"} THEN "closing"
    ELSE "closed"

Pool == INSTANCE TaskPool WITH status <- jobStatus, pool <- poolStatus

\* Every step of run(), of the fibers and of start() and stop() is a step of
\* the task pool or invisible in it: work is accepted, run, suspended and ended
\* once, and stop() returns only when all of it has ended.
ImplementsTaskPool ==
    Pool!Spec
=============================================================================
