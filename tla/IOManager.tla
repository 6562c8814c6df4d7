----------------------------- MODULE IOManager -----------------------------
(***************************************************************************)
(* The scheduling loop of IOManager: run() with the overridden tickle(),   *)
(* stopping() and idle() (iomanager.cpp), and the timer set idle() polls   *)
(* (timer.cpp).                                                            *)
(*                                                                         *)
(* An item is a piece of work.  It reaches the task queue at once, by      *)
(* scheduler(), or later: as the callback of a timer or of an I/O event.   *)
(* Here the threads, the wake-up pipe and the stop condition matter; what  *)
(* FdContext and epoll do for one descriptor is in FdEvents, and what a    *)
(* fiber is in Scheduler.                                                  *)
(*                                                                         *)
(* stopping(timeout) is three reads under three different locks, and every *)
(* tickle() follows the critical section that made it necessary: each is a *)
(* step of its own.                                                        *)
(***************************************************************************)
EXTENDS Naturals, Sequences, FiniteSets

CONSTANTS
    Workers,      \* the threads the constructor starts
    Caller,       \* the thread that owns the IOManager and calls stop()
    UseCaller,    \* the caller schedules too, inside stop()
    Items,        \* pieces of work
    NoItem,
    Delays,       \* the ms arguments of addTimer
    MaxTime,      \* bound: the clock stops here, after the last timer is due
    MAX_TIMEOUT   \* the longest epoll_wait

Run == Workers \union (IF UseCaller THEN {Caller} ELSE {})

Agents == Workers \union {Caller}

Never == MaxTime + 1

ASSUME IOManagerAssumption ==
    /\ IsFiniteSet(Workers) /\ Run # {} /\ Caller \notin Workers
    /\ UseCaller \in BOOLEAN
    /\ IsFiniteSet(Items) /\ NoItem \notin Items
    /\ Delays \subseteq Nat /\ MaxTime \in Nat /\ MAX_TIMEOUT \in Nat

VARIABLES
    pc,                    \* where each thread is
    tickling,              \* the threads that owe a call of tickle()
    held,                  \* the item each thread runs
    where,                 \* where each item is
    m_fibers,              \* the task queue
    m_activeThreadCount,
    m_idleThreadCount,
    m_stopping,
    stopTickles,           \* tickle() calls stop() has still to make
    now,                   \* the clock
    m_next,                \* when the timer of an item is due
    m_tickled,
    m_pendingEventCount,
    ready,                 \* epoll's ready list: the items with an event
    pipeReady,             \* epoll's ready list: the read end of m_tickleFds
    wakeAt,                \* when the epoll_wait of a thread times out
    events,                \* what epoll_wait gave to a thread
    cbs,                   \* the callbacks listExpiredCb gave to a thread
    idleTerm               \* the threads whose idle fiber is TERM

loopVars == <<m_fibers, m_activeThreadCount, held, cbs>>
idleVars == <<m_idleThreadCount, wakeAt, events, idleTerm>>
timerVars == <<m_next, m_tickled>>
eventVars == <<m_pendingEventCount, ready>>
stopVars == <<m_stopping, stopTickles>>
vars == <<pc, tickling, where, now, pipeReady, loopVars, idleVars, timerVars,
          eventVars, stopVars>>

Init ==
    /\ pc = [a \in Agents |-> IF a = Caller THEN "main" ELSE "scan"]
    /\ tickling = {}
    /\ held = [t \in Run |-> NoItem]
    /\ where = [w \in Items |-> "new"]
    /\ m_fibers = <<>>
    /\ m_activeThreadCount = 0
    /\ m_idleThreadCount = 0
    /\ m_stopping = FALSE
    /\ stopTickles = 0
    /\ now = 0
    /\ m_next = [w \in Items |-> 0]
    /\ m_tickled = FALSE
    /\ m_pendingEventCount = 0
    /\ ready = {}
    /\ pipeReady = FALSE
    /\ wakeAt = [t \in Run |-> 0]
    /\ events = [t \in Run |-> {}]
    /\ cbs = [t \in Run |-> {}]
    /\ idleTerm = {}

\* Agent a is at a place and owes no tickle().
At(a, place) ==
    pc[a] = place /\ a \notin tickling

Goto(a, from, to) ==
    /\ At(a, from)
    /\ pc' = [pc EXCEPT ![a] = to]

m_timers == {w \in Items : where[w] = "timer"}

-----------------------------------------------------------------------------
(* Waking a thread.                                                        *)

\* One byte into the pipe when some thread is idle.
tickle(a) ==
    /\ a \in tickling
    /\ tickling' = tickling \ {a}
    /\ pipeReady' = (pipeReady \/ m_idleThreadCount > 0)
    /\ UNCHANGED <<pc, where, now, loopVars, idleVars, timerVars, eventVars,
                   stopVars>>

\* schedulerNoLock, and the tickle() it asks for when the queue was empty.
scheduler(a, w) ==
    /\ m_fibers' = Append(m_fibers, w)
    /\ where' = [where EXCEPT ![w] = "queue"]
    /\ tickling' = IF m_fibers = <<>> THEN tickling \union {a} ELSE tickling

\* The insert of addTimer: tickle() when the new timer is the first one and no
\* thread has been told since one last looked.  Timers due at the same time are
\* ordered by their addresses.
addTimer(a, w, ms) ==
    \E first \in BOOLEAN :
        /\ first => \A v \in m_timers : now + ms <= m_next[v]
        /\ (\A v \in m_timers : now + ms < m_next[v]) => first
        /\ where' = [where EXCEPT ![w] = "timer"]
        /\ m_next' = [m_next EXCEPT ![w] = now + ms]
        /\ m_tickled' = (m_tickled \/ first)
        /\ tickling' = IF first /\ ~m_tickled THEN tickling \union {a} ELSE tickling

\* addEvent: the item waits for its descriptor.
addEvent(w) ==
    /\ where' = [where EXCEPT ![w] = "event"]
    /\ m_pendingEventCount' = m_pendingEventCount + 1

\* The caller before stop(), or the item thread a runs, hands over new work.
CanSubmit(a, w) ==
    /\ At(a, "main") \/ At(a, "work")
    /\ where[w] = "new"

SubmitTask(a, w) ==
    /\ CanSubmit(a, w)
    /\ scheduler(a, w)
    /\ UNCHANGED <<pc, now, pipeReady, m_activeThreadCount, held, cbs, idleVars,
                   timerVars, eventVars, stopVars>>

SubmitTimer(a, w, ms) ==
    /\ CanSubmit(a, w)
    /\ now + ms < MaxTime
    /\ addTimer(a, w, ms)
    /\ UNCHANGED <<pc, now, pipeReady, loopVars, idleVars, eventVars, stopVars>>

\* The event's scheduler is Scheduler::GetThis(): a thread of Run.
SubmitEvent(a, w) ==
    /\ a \in Run
    /\ CanSubmit(a, w)
    /\ addEvent(w)
    /\ UNCHANGED <<pc, tickling, now, pipeReady, ready, loopVars, idleVars, timerVars,
                   stopVars>>

-----------------------------------------------------------------------------
(* run() on thread t.                                                      *)

\* A thread that leaves tasks behind calls tickle() (tickle_me).
Take(t) ==
    /\ m_fibers # <<>>
    /\ Goto(t, "scan", "work")
    /\ held' = [held EXCEPT ![t] = Head(m_fibers)]
    /\ m_fibers' = Tail(m_fibers)
    /\ m_activeThreadCount' = m_activeThreadCount + 1
    /\ where' = [where EXCEPT ![Head(m_fibers)] = "held"]
    /\ tickling' = IF Tail(m_fibers) # <<>> THEN tickling \union {t} ELSE tickling
    /\ UNCHANGED <<now, pipeReady, cbs, idleVars, timerVars, eventVars, stopVars>>

Done(t) ==
    /\ Goto(t, "work", "scan")
    /\ held' = [held EXCEPT ![t] = NoItem]
    /\ m_activeThreadCount' = m_activeThreadCount - 1
    /\ where' = [where EXCEPT ![held[t]] = "done"]
    /\ UNCHANGED <<tickling, now, pipeReady, m_fibers, cbs, idleVars, timerVars,
                   eventVars, stopVars>>

\* Nothing to do: the idle fiber, or out of run() when that fiber is TERM.
NoTaskFound(t) ==
    /\ m_fibers = <<>>
    /\ Goto(t, "scan", IF t \in idleTerm THEN "exited" ELSE "enter")
    /\ UNCHANGED <<tickling, where, now, pipeReady, loopVars, idleVars, timerVars,
                   eventVars, stopVars>>

\* Mutant: the thread is not counted as idle on its way in.
EnterIdle_NotCounted(t) ==
    /\ Goto(t, "enter", "next")
    /\ UNCHANGED <<tickling, where, now, pipeReady, loopVars, idleVars, timerVars,
                   eventVars, stopVars>>

EnterIdle(t) ==
    /\ Goto(t, "enter", "next")
    /\ m_idleThreadCount' = m_idleThreadCount + 1
    /\ UNCHANGED <<tickling, where, now, pipeReady, loopVars, idleTerm, wakeAt, events,
                   timerVars, eventVars, stopVars>>

LeaveIdle(t) ==
    /\ Goto(t, "yield", "scan")
    /\ m_idleThreadCount' = m_idleThreadCount - 1
    /\ UNCHANGED <<tickling, where, now, pipeReady, loopVars, idleTerm, wakeAt, events,
                   timerVars, eventVars, stopVars>>

-----------------------------------------------------------------------------
(* idle() on thread t.                                                     *)

Min(x, y) == IF x < y THEN x ELSE y

\* Mutant: without a timer epoll_wait has no timeout.
Sleep_NoCap(t, timeout) ==
    wakeAt' = [wakeAt EXCEPT ![t] = Min(now + timeout,
                                        IF timeout = MAX_TIMEOUT THEN Never ELSE MaxTime)]

\* epoll_wait begins: at most timeout, at most MAX_TIMEOUT.
Sleep(t, timeout) ==
    wakeAt' = [wakeAt EXCEPT ![t] = Min(now + Min(timeout, MAX_TIMEOUT), MaxTime)]

\* Mutant: m_tickled stays set.
getNextTimer_KeepsTickled(t) ==
    /\ \/ /\ m_timers = {}
          /\ Goto(t, "next", "pending")
          /\ UNCHANGED wakeAt
       \/ \E w \in m_timers :
          /\ \A v \in m_timers : m_next[w] <= m_next[v]
          /\ Goto(t, "next", "poll")
          /\ Sleep(t, IF now >= m_next[w] THEN 0 ELSE m_next[w] - now)
    /\ UNCHANGED <<tickling, where, now, pipeReady, timerVars, loopVars, idleTerm,
                   m_idleThreadCount, events, eventVars, stopVars>>

\* stopping(timeout), first read: getNextTimer.
getNextTimer(t) ==
    /\ m_tickled' = FALSE
    /\ \/ /\ m_timers = {}
          /\ Goto(t, "next", "pending")
          /\ UNCHANGED wakeAt
       \/ \E w \in m_timers :
          /\ \A v \in m_timers : m_next[w] <= m_next[v]
          /\ Goto(t, "next", "poll")
          /\ Sleep(t, IF now >= m_next[w] THEN 0 ELSE m_next[w] - now)
    /\ UNCHANGED <<tickling, where, now, pipeReady, m_next, loopVars, idleTerm,
                   m_idleThreadCount, events, eventVars, stopVars>>

\* Mutant: the pending events are not looked at.
PendingCheck_Ignored(t) ==
    /\ Goto(t, "pending", "stopping")
    /\ UNCHANGED <<tickling, where, now, pipeReady, loopVars, idleVars, timerVars,
                   eventVars, stopVars>>

\* stopping(timeout), second read: the pending events.
PendingCheck(t) ==
    /\ \/ /\ m_pendingEventCount = 0
          /\ Goto(t, "pending", "stopping")
          /\ UNCHANGED wakeAt
       \/ /\ m_pendingEventCount # 0
          /\ Goto(t, "pending", "poll")
          /\ Sleep(t, MAX_TIMEOUT)
    /\ UNCHANGED <<tickling, where, now, pipeReady, loopVars, idleTerm,
                   m_idleThreadCount, events, timerVars, eventVars, stopVars>>

\* Scheduler::stopping.
stopping ==
    m_stopping /\ m_fibers = <<>> /\ m_activeThreadCount = 0

\* stopping(timeout), third read: Scheduler::stopping.  The idle fiber ends, or
\* goes to wait.
StoppingCheck(t) ==
    /\ \/ /\ stopping
          /\ Goto(t, "stopping", "yield")
          /\ idleTerm' = idleTerm \union {t}
          /\ UNCHANGED wakeAt
       \/ /\ ~stopping
          /\ Goto(t, "stopping", "poll")
          /\ Sleep(t, MAX_TIMEOUT)
          /\ UNCHANGED idleTerm
    /\ UNCHANGED <<tickling, where, now, pipeReady, loopVars, m_idleThreadCount, events,
                   timerVars, eventVars, stopVars>>

\* epoll_wait returns with everything on the ready list, or with nothing when
\* its time is up.  The list is edge-triggered: what it gave is off the list.
epoll_wait(t) ==
    /\ ready # {} \/ pipeReady \/ now >= wakeAt[t]
    /\ Goto(t, "poll", "expire")
    /\ events' = [events EXCEPT ![t] = ready \union (IF pipeReady THEN {NoItem} ELSE {})]
    /\ ready' = {}
    /\ pipeReady' = FALSE
    /\ UNCHANGED <<tickling, where, now, loopVars, idleTerm, m_idleThreadCount, wakeAt,
                   timerVars, m_pendingEventCount, stopVars>>

\* Mutant: of several timers that leave the set together one callback is kept.
listExpiredCb_OneOnly(t) ==
    /\ Goto(t, "expire", "cbs")
    /\ \E due \in SUBSET m_timers :
        /\ \A w \in m_timers : (m_next[w] < now => w \in due) /\ (w \in due => m_next[w] <= now)
        /\ where' = [w \in Items |-> IF w \in due THEN "cbs" ELSE where[w]]
        /\ \E kept \in SUBSET due : /\ kept # {} <=> due # {}
                                    /\ \A v, w \in kept : v = w
                                    /\ cbs' = [cbs EXCEPT ![t] = kept]
    /\ UNCHANGED <<tickling, now, pipeReady, m_fibers, m_activeThreadCount, held,
                   idleVars, timerVars, eventVars, stopVars>>

\* listExpiredCb: the timers due before now, and those due now whose address is
\* below that of the timer upper_bound is asked about.
listExpiredCb(t) ==
    /\ Goto(t, "expire", "cbs")
    /\ \E due \in SUBSET m_timers :
        /\ \A w \in m_timers : (m_next[w] < now => w \in due) /\ (w \in due => m_next[w] <= now)
        /\ where' = [w \in Items |-> IF w \in due THEN "cbs" ELSE where[w]]
        /\ cbs' = [cbs EXCEPT ![t] = due]
    /\ UNCHANGED <<tickling, now, pipeReady, m_fibers, m_activeThreadCount, held,
                   idleVars, timerVars, eventVars, stopVars>>

\* The loop over cbs, in the order of the timers.
ScheduleCb(t) ==
    /\ \/ \E w \in cbs[t] :
          /\ At(t, "cbs")
          /\ \A v \in cbs[t] : m_next[w] <= m_next[v]
          /\ scheduler(t, w)
          /\ cbs' = [cbs EXCEPT ![t] = @ \ {w}]
          /\ UNCHANGED pc
       \/ /\ cbs[t] = {}
          /\ Goto(t, "cbs", "events")
          /\ UNCHANGED <<tickling, where, m_fibers, cbs>>
    /\ UNCHANGED <<now, pipeReady, m_activeThreadCount, held, idleVars, timerVars,
                   eventVars, stopVars>>

\* The loop over events: the pipe is read empty, an event that another thread
\* has handled is skipped, any other is triggered.
HandleEvent(t) ==
    /\ At(t, "events")
    /\ \E w \in events[t] :
        /\ events' = [events EXCEPT ![t] = @ \ {w}]
        /\ pipeReady' = (pipeReady /\ w # NoItem)
        /\ IF w # NoItem /\ where[w] = "event"
           THEN scheduler(t, w) /\ pc' = [pc EXCEPT ![t] = "unpend"]
           ELSE UNCHANGED <<pc, tickling, where, m_fibers>>
    /\ UNCHANGED <<now, m_activeThreadCount, held, cbs, idleTerm, m_idleThreadCount, wakeAt,
                   timerVars, eventVars, stopVars>>

\* Mutant: the event stays counted.
Unpend_StillCounted(t) ==
    /\ Goto(t, "unpend", "events")
    /\ UNCHANGED <<tickling, where, now, pipeReady, loopVars, idleVars, timerVars,
                   eventVars, stopVars>>

Unpend(t) ==
    /\ Goto(t, "unpend", "events")
    /\ m_pendingEventCount' = m_pendingEventCount - 1
    /\ UNCHANGED <<tickling, where, now, pipeReady, ready, loopVars, idleVars, timerVars,
                   stopVars>>

EventsDone(t) ==
    /\ events[t] = {}
    /\ Goto(t, "events", "yield")
    /\ UNCHANGED <<tickling, where, now, pipeReady, loopVars, idleVars, timerVars,
                   eventVars, stopVars>>

-----------------------------------------------------------------------------
(* stop() on the caller.                                                   *)

\* Its first stopping() finds m_stopping false, after getNextTimer has cleared
\* m_tickled.
stop ==
    /\ Goto(Caller, "main", "stop")
    /\ m_tickled' = FALSE
    /\ m_stopping' = TRUE
    /\ stopTickles' = Cardinality(Run)
    /\ UNCHANGED <<tickling, where, now, pipeReady, loopVars, idleVars, m_next, eventVars>>

stopTickle ==
    /\ At(Caller, "stop")
    /\ stopTickles > 0
    /\ stopTickles' = stopTickles - 1
    /\ tickling' = tickling \union {Caller}
    /\ UNCHANGED <<pc, where, now, pipeReady, loopVars, idleVars, timerVars, eventVars,
                   m_stopping>>

\* The root fiber is resumed; without one the caller goes to the joins.
stopResume ==
    /\ stopTickles = 0
    /\ Goto(Caller, "stop", IF UseCaller THEN "scan" ELSE "exited")
    /\ UNCHANGED <<tickling, where, now, pipeReady, loopVars, idleVars, timerVars,
                   eventVars, stopVars>>

\* Mutant: the threads are not joined.
stopJoin_NoJoin ==
    /\ Goto(Caller, "exited", "stopped")
    /\ UNCHANGED <<tickling, where, now, pipeReady, loopVars, idleVars, timerVars,
                   eventVars, stopVars>>

stopJoin ==
    /\ \A w \in Workers : pc[w] = "exited"
    /\ Goto(Caller, "exited", "stopped")
    /\ UNCHANGED <<tickling, where, now, pipeReady, loopVars, idleVars, timerVars,
                   eventVars, stopVars>>

-----------------------------------------------------------------------------
(* The world.                                                              *)

\* A descriptor becomes ready for an item that waits for it.
Arrive(w) ==
    /\ where[w] = "event"
    /\ w \notin ready
    /\ ready' = ready \union {w}
    /\ UNCHANGED <<pc, tickling, where, now, pipeReady, loopVars, idleVars, timerVars,
                   m_pendingEventCount, stopVars>>

Tick ==
    /\ now < MaxTime
    /\ now' = now + 1
    /\ UNCHANGED <<pc, tickling, where, pipeReady, loopVars, idleVars, timerVars,
                   eventVars, stopVars>>

Submit(a) ==
    \E w \in Items :
        \/ SubmitTask(a, w)
        \/ \E ms \in Delays : SubmitTimer(a, w, ms)
        \/ SubmitEvent(a, w)

Thread_step(t) ==
    \/ tickle(t)
    \/ Take(t)
    \/ Done(t)
    \/ NoTaskFound(t)
    \/ EnterIdle(t)
    \/ getNextTimer(t)
    \/ PendingCheck(t)
    \/ StoppingCheck(t)
    \/ epoll_wait(t)
    \/ listExpiredCb(t)
    \/ ScheduleCb(t)
    \/ HandleEvent(t)
    \/ Unpend(t)
    \/ EventsDone(t)
    \/ LeaveIdle(t)

Stop_step ==
    \/ stopTickle
    \/ stopResume
    \/ stopJoin

\* stop() has returned.
Stopped ==
    /\ pc[Caller] = "stopped"
    /\ UNCHANGED vars

Next ==
    \/ \E a \in Agents : Submit(a)
    \/ \E t \in Run : Thread_step(t)
    \/ tickle(Caller)
    \/ stop
    \/ Stop_step
    \/ \E w \in Items : Arrive(w)
    \/ Tick
    \/ Stopped

Spec == Init /\ [][Next]_vars

\* The kernel runs every thread, time passes, stop() goes on once called, and
\* what an item waits for arrives.
FairSpec ==
    /\ Spec
    /\ \A t \in Run : WF_vars(Thread_step(t))
    /\ WF_vars(tickle(Caller))
    /\ WF_vars(Stop_step)
    /\ WF_vars(Tick)
    /\ \A w \in Items : WF_vars(Arrive(w))

-----------------------------------------------------------------------------
(* Properties.                                                             *)

\* Every variable stays in its domain; no counter falls below zero.
TypeOK ==
    /\ pc \in [Agents -> {"main", "stop", "scan", "work", "enter", "next", "pending",
                           "stopping", "poll", "expire", "cbs", "events", "unpend",
                           "yield", "exited", "stopped"}]
    /\ tickling \subseteq Agents
    /\ held \in [Run -> Items \union {NoItem}]
    /\ where \in [Items -> {"new", "timer", "event", "queue", "cbs", "held", "done"}]
    /\ m_fibers \in Seq(Items)
    /\ m_activeThreadCount \in Nat
    /\ m_idleThreadCount \in Nat
    /\ m_stopping \in BOOLEAN
    /\ stopTickles \in Nat
    /\ now \in 0..MaxTime
    /\ m_next \in [Items -> 0..MaxTime]
    /\ m_tickled \in BOOLEAN
    /\ m_pendingEventCount \in Nat
    /\ ready \subseteq Items
    /\ pipeReady \in BOOLEAN
    /\ wakeAt \in [Run -> 0..MaxTime]
    /\ events \in [Run -> SUBSET (Items \union {NoItem})]
    /\ cbs \in [Run -> SUBSET Items]
    /\ idleTerm \subseteq Run

Asleep == {t \in Run : pc[t] = "poll"}

\* No thread is awake and nothing on epoll's lists will wake one.
Quiet ==
    /\ \A t \in Run : pc[t] \in {"poll", "main", "exited"}
    /\ Asleep # {}
    /\ tickling = {}
    /\ ~pipeReady
    /\ ready = {}

\* No timer is slept through (getNextTimer, addTimer's at_front, m_tickled):
\* when all threads sleep, each timer has one whose epoll_wait ends in time.
TimerCovered ==
    Quiet => \A w \in m_timers : \E t \in Asleep : wakeAt[t] <= m_next[w] \/ wakeAt[t] <= now

\* tickle() "tells the scheduler that there is a task" (scheduler.h:63): with a
\* task in the queue the threads do not all sleep.
WakeOnTask ==
    Quiet => m_fibers = <<>>

\* stop() "returns when all scheduled tasks have been executed"
\* (scheduler.h:54): nothing is queued, collected or running.
StopDrains ==
    pc[Caller] = "stopped" =>
        /\ m_fibers = <<>> /\ m_activeThreadCount = 0
        /\ \A w \in Items : where[w] \notin {"queue", "cbs", "held"}

\* "Only when all tasks have been executed may the scheduler stop"
\* (scheduler.cpp:80): when stop() has returned every item has been executed, also
\* one that came as a timer or as an event, which IOManager::stopping() looks for.
StopComplete ==
    pc[Caller] = "stopped" => \A w \in Items : where[w] \in {"new", "done"}

\* stop() returns, whatever is queued, timed or awaited when it is called.
StopReturns ==
    (pc[Caller] = "stop") ~> (pc[Caller] = "stopped")

\* Work handed over is done in the end, by whatever way it was handed over and
\* whether or not a tickle() was lost, unless stop() ends the threads.
ItemsGetDone ==
    \A w \in Items : (where[w] # "new") ~> (where[w] = "done" \/ m_stopping)

=============================================================================
