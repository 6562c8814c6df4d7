---------------------------- MODULE TimerManager ----------------------------
(***************************************************************************)
(* The timers of a TimerManager against the threads that sleep until the   *)
(* first one is due: a user adds, cancels, refreshes and resets timers     *)
(* while the threads of idle() look for the next deadline, sleep, and take *)
(* what has expired (timer.cpp, with idle() of iomanager.cpp).             *)
(***************************************************************************)
EXTENDS TimerSet

CONSTANTS
    IdleThreads, \* the threads inside idle()
    Ms,          \* periods
    LastMs       \* bound: the clock stops here

ASSUME IdleAssumption ==
    IdleThreads # {} /\ Ms \subseteq Nat /\ LastMs \in Nat

VARIABLES
    owed,         \* the user is about to call onTimerInsertAtFront
    poller,       \* where each polling thread is
    wakeAt,       \* when its epoll_wait ends
    pipe          \* the wake-up pipe is readable

pollVars == <<poller, wakeAt, pipe>>
tmVars == <<now, timerVars, owed, pollVars>>

TMInit ==
    /\ now = 0
    /\ TimerInit
    /\ owed = FALSE
    /\ poller = [p \in IdleThreads |-> "busy"]
    /\ wakeAt = [p \in IdleThreads |-> 0]
    /\ pipe = FALSE

-----------------------------------------------------------------------------
(* The polling threads.                                                    *)

Move(p, from, to) ==
    /\ poller[p] = from
    /\ poller' = [poller EXCEPT ![p] = to]

EnterIdle(p) ==
    /\ Move(p, "busy", "next")
    /\ UNCHANGED <<now, timerVars, owed, wakeAt, pipe>>

\* Mutant: m_tickled stays set.
getNextTimer_KeepsTickled(p) ==
    /\ Alive
    /\ Move(p, "next", "poll")
    /\ \E first \in m_timers \union {0} :
        /\ IF first = 0 THEN m_timers = {}
           ELSE \A y \in m_timers \ {first} : Before(m_next[first], first, y)
        /\ wakeAt' = [wakeAt EXCEPT ![p] =
                        IF first = 0 \/ m_next[first] > LastMs THEN LastMs ELSE m_next[first]]
    /\ UNCHANGED <<now, timerVars, owed, pipe>>

\* getNextTimer, and the epoll_wait it bounds.
getNextTimer(p) ==
    /\ Alive
    /\ Move(p, "next", "poll")
    /\ m_tickled' = FALSE
    /\ \E first \in m_timers \union {0} :
        /\ IF first = 0 THEN m_timers = {}
           ELSE \A y \in m_timers \ {first} : Before(m_next[first], first, y)
        /\ wakeAt' = [wakeAt EXCEPT ![p] =
                        IF first = 0 \/ m_next[first] > LastMs THEN LastMs ELSE m_next[first]]
    /\ UNCHANGED <<now, m_timers, m_next, m_ms, m_recurring, m_cb, owed, erased, pipe>>

\* epoll_wait returns: a byte in the pipe, or the first deadline.
PollEnds(p) ==
    /\ pipe \/ now >= wakeAt[p]
    /\ Move(p, "poll", "expire")
    /\ pipe' = FALSE
    /\ UNCHANGED <<now, timerVars, owed, wakeAt>>

listExpiredCb(p) ==
    /\ Alive
    /\ Move(p, "expire", "busy")
    /\ \E due \in SUBSET m_timers : expire(due)
    /\ UNCHANGED <<now, owed, wakeAt, pipe>>

\* tickle() writes when a thread is idle.
onTimerInsertAtFront ==
    /\ owed
    /\ owed' = FALSE
    /\ pipe' = (pipe \/ \E p \in IdleThreads : poller[p] # "busy")
    /\ UNCHANGED <<now, timerVars, poller, wakeAt>>

Tick ==
    /\ now < LastMs
    /\ now' = now + 1
    /\ UNCHANGED <<timerVars, owed, pollVars>>

-----------------------------------------------------------------------------
(* A user that holds timers, on a thread of its own.                       *)

\* Each timer object is created once, and no deadline lies past the bound.
Add(x) ==
    /\ Alive /\ ~owed
    /\ m_ms[x] = 0
    /\ \E ms \in Ms, recurring \in BOOLEAN :
        now + ms <= LastMs /\ addTimer(x, ms, recurring)
    /\ owed' = (m_tickled' # m_tickled)
    /\ UNCHANGED <<now, pollVars>>

Cancel(x) ==
    /\ Alive /\ ~owed
    /\ m_ms[x] # 0
    /\ cancel(x)
    /\ UNCHANGED <<now, owed, pollVars>>

Refresh(x) ==
    /\ Alive /\ ~owed
    /\ m_ms[x] # 0
    /\ now + m_ms[x] <= LastMs
    /\ refresh(x)
    /\ UNCHANGED <<now, owed, pollVars>>

Reset(x) ==
    /\ Alive /\ ~owed
    /\ m_ms[x] # 0
    /\ \E ms \in Ms, from_now \in BOOLEAN :
        now + ms <= LastMs /\ m_next[x] - m_ms[x] + ms <= LastMs /\ reset(x, ms, from_now)
    /\ owed' = (m_tickled' # m_tickled)
    /\ UNCHANGED <<now, pollVars>>

Poll(p) ==
    \/ EnterIdle(p)
    \/ getNextTimer(p)
    \/ PollEnds(p)
    \/ listExpiredCb(p)

\* The clock has reached its bound, or erase() has not come back.
Stopped ==
    /\ now = LastMs \/ ~Alive
    /\ UNCHANGED tmVars

TMNext ==
    \/ \E x \in Timers : Add(x)
    \/ \E x \in Timers : Cancel(x)
    \/ \E x \in Timers : Refresh(x)
    \/ \E x \in Timers : Reset(x)
    \/ \E p \in IdleThreads : Poll(p)
    \/ onTimerInsertAtFront
    \/ Tick
    \/ Stopped

TMSpec == TMInit /\ [][TMNext]_tmVars

-----------------------------------------------------------------------------
(* Properties.                                                             *)

\* No sleep outlasts a timer (at_front, m_tickled, reset() to an earlier time):
\* when all threads sleep and no wake-up is on its way, one of them wakes no
\* later than the first timer is due.
SleepCovers ==
    (Alive /\ ~owed /\ ~pipe /\ \A p \in IdleThreads : poller[p] = "poll") =>
        \A x \in m_timers : \E p \in IdleThreads : wakeAt[p] <= m_next[x]

\* A recurring timer stays armed until it is cancelled, whatever refresh(),
\* reset() and listExpiredCb() do to it, and no cancelled timer is in the set.
RecurringStaysArmed ==
    /\ m_timers \subseteq m_cb
    /\ \A x \in m_cb : m_recurring[x] => x \in m_timers

=============================================================================
