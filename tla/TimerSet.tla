------------------------------ MODULE TimerSet ------------------------------
(***************************************************************************)
(* The set of timers of a TimerManager (timer.cpp) and what addTimer,      *)
(* listExpiredCb and Timer::cancel, refresh and reset do to it under its   *)
(* write lock.                                                             *)
(*                                                                         *)
(* A timer is a number; the order of the numbers is the order of the       *)
(* addresses, which decides between timers due at the same time.           *)
(***************************************************************************)
EXTENDS Naturals

CONSTANTS
    Timers      \* timer objects, positive numbers

ASSUME TimersAssumption == Timers \subseteq Nat \ {0}

VARIABLES
    now,          \* GetCurrentMS()
    m_timers,     \* the set of the manager
    m_next,
    m_ms,
    m_recurring,
    m_cb,         \* the timers whose callback is not null
    m_tickled,
    erased        \* "ok", or what erase(end()) has done: "spin" or "abort"

timerVars == <<m_timers, m_next, m_ms, m_recurring, m_cb, m_tickled, erased>>

TimerInit ==
    /\ m_timers = {}
    /\ m_next = [x \in Timers |-> 0]
    /\ m_ms = [x \in Timers |-> 0]
    /\ m_recurring = [x \in Timers |-> FALSE]
    /\ m_cb = {}
    /\ m_tickled = FALSE
    /\ erased = "ok"

\* A thread that spins inside erase() holds the lock: nobody else gets it, and
\* after an abort there is no process.
Alive == erased = "ok"

-----------------------------------------------------------------------------
(* The set, under its write lock.                                          *)

\* Comparator: x with deadline next comes before y.
Before(next, x, y) ==
    next < m_next[y] \/ (next = m_next[y] /\ x < y)

\* Mutant: only a timer added to an empty set is at the front.
insert_FrontIfEmpty(x, S, next) ==
    LET at_front == ~m_tickled /\ S = {}
    IN  /\ m_timers' = S \union {x}
        /\ m_next' = [m_next EXCEPT ![x] = next]
        /\ m_tickled' = (m_tickled \/ at_front)

\* The protected addTimer: x joins the timers S.  When it is the first one, and
\* no thread has been told since one last looked, m_tickled is set and
\* onTimerInsertAtFront follows.
insert(x, S, next) ==
    LET at_front == ~m_tickled /\ \A y \in S : Before(next, x, y)
    IN  /\ m_timers' = S \union {x}
        /\ m_next' = [m_next EXCEPT ![x] = next]
        /\ m_tickled' = (m_tickled \/ at_front)

addTimer(x, ms, recurring) ==
    /\ insert(x, m_timers, now + ms)
    /\ m_ms' = [m_ms EXCEPT ![x] = ms]
    /\ m_recurring' = [m_recurring EXCEPT ![x] = recurring]
    /\ m_cb' = m_cb \union {x}
    /\ UNCHANGED erased

\* Timer::cancel.  A one-shot timer that has expired still has its callback but
\* is no longer found: erase(end()) then walks the header of an empty set for
\* ever, with the lock held, or frees it.
cancel(x) ==
    /\ m_cb' = m_cb \ {x}
    /\ m_timers' = m_timers \ {x}
    /\ erased' = IF x \notin m_cb \/ x \in m_timers THEN erased
                 ELSE IF m_timers = {} THEN "spin" ELSE "abort"
    /\ UNCHANGED <<m_next, m_ms, m_recurring, m_tickled>>

refresh(x) ==
    /\ IF x \in m_cb /\ x \in m_timers
       THEN m_next' = [m_next EXCEPT ![x] = now + m_ms[x]]
       ELSE UNCHANGED m_next
    /\ UNCHANGED <<m_timers, m_ms, m_recurring, m_cb, m_tickled, erased>>

reset(x, ms, from_now) ==
    /\ IF (ms = m_ms[x] /\ ~from_now) \/ x \notin m_cb \/ x \notin m_timers
       THEN UNCHANGED <<m_timers, m_next, m_ms, m_tickled>>
       ELSE /\ m_ms' = [m_ms EXCEPT ![x] = ms]
            /\ insert(x, m_timers \ {x},
                      IF from_now THEN now + ms ELSE m_next[x] - m_ms[x] + ms)
    /\ UNCHANGED <<m_recurring, m_cb, erased>>

\* Mutant: a recurring timer leaves as well.
Leaving_All(due) == due

\* The expired timers that listExpiredCb does not insert again.
Leaving(due) == {x \in due : ~m_recurring[x]}

\* Mutant: the limit is one too high.
IsDue_Early(x) == m_next[x] <= now + 1

IsDue(x) == m_next[x] <= now

\* listExpiredCb with upper_bound of a fresh timer due now: the timers due
\* before now, and those due now with a lower address.  A recurring timer stays.
expire(due) ==
    /\ \A x \in m_timers : (m_next[x] < now => x \in due) /\ (x \in due => IsDue(x))
    /\ \A x, y \in m_timers : y \in due /\ Before(m_next[x], x, y) => x \in due
    /\ m_timers' = m_timers \ Leaving(due)
    /\ m_next' = [x \in Timers |-> IF x \in due /\ m_recurring[x] THEN now + m_ms[x]
                                   ELSE m_next[x]]
    /\ UNCHANGED <<m_ms, m_recurring, m_cb, m_tickled, erased>>

=============================================================================
