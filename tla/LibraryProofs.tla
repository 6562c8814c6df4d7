--------------------------- MODULE LibraryProofs ----------------------------
(***************************************************************************)
(* Three parts of the library, for any number of threads, timers, files    *)
(* and loads: no sleep outlasts a timer, and a recurring timer stays armed *)
(* (TimerManager); opening a log file removes older lines only (LogFile);  *)
(* a module is unloaded once before it is destroyed, and a library is open *)
(* as often as it has living modules (ModuleManager).                      *)
(***************************************************************************)
EXTENDS TimerManager, LogFile, ModuleManager, Integers, TLAPS

-----------------------------------------------------------------------------
(* TimerManager.                                                           *)

TMTypeOK ==
    /\ now \in Nat
    /\ m_timers \subseteq Timers
    /\ m_next \in [Timers -> Nat]
    /\ m_ms \in [Timers -> Nat]
    /\ m_recurring \in [Timers -> BOOLEAN]
    /\ m_cb \subseteq Timers
    /\ {m_tickled, owed, pipe} \subseteq BOOLEAN
    /\ poller \in [IdleThreads -> {"busy", "next", "poll", "expire"}]
    /\ wakeAt \in [IdleThreads -> Nat]

\* A timer in the set was started at m_next - m_ms, which is not in the future:
\* refresh() and listExpiredCb() only ever move its deadline to a later time.
Started ==
    \A x \in m_timers : m_ms[x] <= m_next[x] /\ m_next[x] <= now + m_ms[x]

\* While m_tickled keeps addTimer from telling the threads, they are about to be
\* told, or one of them is awake and has yet to look for the next deadline.
TickledIsSeen ==
    m_tickled => owed \/ pipe \/ \E p \in IdleThreads : poller[p] # "poll"

TMInv == TMTypeOK /\ Started /\ TickledIsSeen /\ SleepCovers /\ RecurringStaysArmed

-----------------------------------------------------------------------------

\* TMInv holds with an empty set and no thread asleep.
LEMMA TMInitInv == TMInit => TMInv
  <1> SUFFICES ASSUME TMInit PROVE TMInv
    OBVIOUS
  <1>1. TMTypeOK
    BY DEF TMInit, TimerInit, TMTypeOK
  <1>2. Started /\ TickledIsSeen /\ SleepCovers /\ RecurringStaysArmed
    BY DEF TMInit, TimerInit, Started, TickledIsSeen, SleepCovers, RecurringStaysArmed
  <1> QED
    BY <1>1, <1>2 DEF TMInv

\* A timer x joins the timers S of the set: either somebody is going
\* to be told, or a timer that is already covered is due no later.
LEMMA InsertCovers ==
  ASSUME TMInv, ~owed, NEW x \in Timers, NEW S \in SUBSET m_timers,
         NEW next \in Nat, insert(x, S, next),
         Alive, owed' = (m_tickled' # m_tickled), UNCHANGED <<now, pollVars>>
  PROVE  /\ m_timers' = S \union {x}
         /\ m_next' \in [Timers -> Nat] /\ m_next'[x] = next
         /\ \A y \in Timers : y # x => m_next'[y] = m_next[y]
         /\ {m_tickled', owed', pipe'} \subseteq BOOLEAN
         /\ TickledIsSeen' /\ SleepCovers'
  <1>1. /\ m_timers \subseteq Timers /\ m_next \in [Timers -> Nat] /\ m_tickled \in BOOLEAN
        /\ pipe \in BOOLEAN
        /\ wakeAt \in [IdleThreads -> Nat]
    BY DEF TMInv, TMTypeOK
  <1>2. /\ m_timers' = S \union {x}
        /\ m_next' = [m_next EXCEPT ![x] = next]
        /\ m_tickled' = (m_tickled \/ (~m_tickled /\ \A y \in S : Before(next, x, y)))
    BY DEF insert
  <1>3. /\ m_next' \in [Timers -> Nat] /\ m_next'[x] = next
        /\ \A y \in Timers : y # x => m_next'[y] = m_next[y]
    BY <1>1, <1>2
  <1>4. {m_tickled', owed', pipe'} \subseteq BOOLEAN
    BY <1>1, <1>2 DEF pollVars
  <1>5. TickledIsSeen'
    <2>1. CASE m_tickled
      BY <2>1, <1>2 DEF TMInv, TickledIsSeen, pollVars
    <2>2. CASE ~m_tickled
      BY <2>2, <1>2, <1>4 DEF TickledIsSeen, pollVars
    <2> QED
      BY <2>1, <2>2
  <1>6. SleepCovers'
    <2> SUFFICES ASSUME ~owed', ~pipe, \A p \in IdleThreads : poller[p] = "poll", NEW z \in m_timers'
                 PROVE  \E p \in IdleThreads : wakeAt[p] <= m_next'[z]
      BY DEF SleepCovers, pollVars
    <2>1. ~m_tickled
      BY DEF TMInv, TickledIsSeen
    <2>2. PICK y \in S : ~Before(next, x, y)
      BY <2>1, <1>1, <1>2
    <2>3. \A w \in m_timers : \E p \in IdleThreads : wakeAt[p] <= m_next[w]
      BY DEF TMInv, SleepCovers
    <2>4. CASE z = x
      <3>1. m_next[y] <= next
        BY <2>2, <1>1 DEF Before
      <3>2. PICK p \in IdleThreads : wakeAt[p] <= m_next[y]
        BY <2>3
      <3> QED
        BY <3>1, <3>2, <2>4, <1>1, <1>3
    <2>5. CASE z # x
      BY <2>3, <2>5, <1>1, <1>2, <1>3
    <2> QED
      BY <2>4, <2>5
  <1> QED
    BY <1>2, <1>3, <1>4, <1>5, <1>6

\* addTimer, which may suppress its wake-up.
LEMMA AddKeeps ==
  ASSUME TMInv, NEW x \in Timers, Add(x)
  PROVE  TMInv'
  <1>1. PICK ms \in Ms, recurring \in BOOLEAN : addTimer(x, ms, recurring)
    BY DEF Add
  <1>2. /\ now' = now /\ pollVars' = pollVars /\ ~owed /\ Alive /\ erased' = erased
        /\ owed' = (m_tickled' # m_tickled)
        /\ insert(x, m_timers, now + ms)
        /\ m_ms' = [m_ms EXCEPT ![x] = ms]
        /\ m_recurring' = [m_recurring EXCEPT ![x] = recurring]
        /\ m_cb' = m_cb \union {x}
    BY <1>1 DEF Add, addTimer
  <1>3. ms \in Nat /\ now + ms \in Nat /\ m_ms \in [Timers -> Nat] /\ now \in Nat
    BY IdleAssumption DEF TMInv, TMTypeOK
  <1>4. /\ m_timers' = m_timers \union {x}
        /\ m_next' \in [Timers -> Nat] /\ m_next'[x] = now + ms
        /\ \A y \in Timers : y # x => m_next'[y] = m_next[y]
        /\ {m_tickled', owed', pipe'} \subseteq BOOLEAN
        /\ TickledIsSeen' /\ SleepCovers'
    BY <1>2, <1>3, InsertCovers
  <1>5. TMTypeOK'
    BY <1>2, <1>3, <1>4 DEF TMInv, TMTypeOK, pollVars
  <1>6. Started'
    <2>1. m_ms'[x] = ms /\ \A y \in Timers : y # x => m_ms'[y] = m_ms[y]
      BY <1>2, <1>3
    <2>2. \A y \in m_timers' : y \in Timers /\ (y # x => y \in m_timers)
      BY <1>4 DEF TMInv, TMTypeOK
    <2> QED
      BY <1>2, <1>3, <1>4, <2>1, <2>2 DEF TMInv, Started
  <1>7. RecurringStaysArmed'
    BY <1>2, <1>4 DEF TMInv, TMTypeOK, RecurringStaysArmed
  <1> QED
    BY <1>4, <1>5, <1>6, <1>7 DEF TMInv

\* Timer::reset, which may move a deadline to an earlier time.
LEMMA ResetKeeps ==
  ASSUME TMInv, NEW x \in Timers, Reset(x)
  PROVE  TMInv'
  <1>1. PICK ms \in Ms, from_now \in BOOLEAN : reset(x, ms, from_now)
    BY DEF Reset
  <1>2. /\ now' = now /\ pollVars' = pollVars /\ ~owed /\ Alive /\ erased' = erased
        /\ owed' = (m_tickled' # m_tickled)
        /\ m_recurring' = m_recurring /\ m_cb' = m_cb
    BY <1>1 DEF Reset, reset
  <1>3. ms \in Nat /\ m_ms \in [Timers -> Nat] /\ m_next \in [Timers -> Nat] /\ now \in Nat
    BY IdleAssumption DEF TMInv, TMTypeOK
  <1>4. CASE UNCHANGED <<m_timers, m_next, m_ms, m_tickled>>
    BY <1>2, <1>4 DEF TMInv, TMTypeOK, Started, TickledIsSeen, SleepCovers, RecurringStaysArmed,
       pollVars, Alive
  <1>5. CASE ~UNCHANGED <<m_timers, m_next, m_ms, m_tickled>>
    <2> DEFINE next == IF from_now THEN now + ms ELSE m_next[x] - m_ms[x] + ms
    <2>1. /\ x \in m_timers
          /\ m_ms' = [m_ms EXCEPT ![x] = ms]
          /\ insert(x, m_timers \ {x}, next)
      BY <1>1, <1>5 DEF reset
    <2>2. m_ms[x] <= m_next[x] /\ m_next[x] <= now + m_ms[x]
      BY <2>1 DEF TMInv, Started
    <2>3. next \in Nat /\ ms <= next /\ next <= now + ms
      <3>1. m_ms[x] \in Nat /\ m_next[x] \in Nat
        BY <1>3
      <3> QED
        BY <1>3, <2>2, <3>1
    <2> HIDE DEF next
    <2>4. /\ m_timers' = (m_timers \ {x}) \union {x}
          /\ m_next' \in [Timers -> Nat] /\ m_next'[x] = next
          /\ \A y \in Timers : y # x => m_next'[y] = m_next[y]
          /\ {m_tickled', owed', pipe'} \subseteq BOOLEAN
          /\ TickledIsSeen' /\ SleepCovers'
      <3>1. m_timers \ {x} \in SUBSET m_timers
        OBVIOUS
      <3> QED
        BY <1>2, <2>1, <2>3, <3>1, InsertCovers
    <2>5. m_timers' = m_timers
      BY <2>1, <2>4
    <2>6. TMTypeOK'
      BY <1>2, <1>3, <2>1, <2>4, <2>5 DEF TMInv, TMTypeOK, pollVars
    <2>7. Started'
      <3>1. m_ms'[x] = ms /\ \A y \in Timers : y # x => m_ms'[y] = m_ms[y]
        BY <1>3, <2>1
      <3>2. \A y \in m_timers' : y \in Timers /\ y \in m_timers
        BY <2>5 DEF TMInv, TMTypeOK
      <3> QED
        BY <1>2, <2>3, <2>4, <3>1, <3>2 DEF TMInv, Started
    <2>8. RecurringStaysArmed'
      BY <1>2, <2>5 DEF TMInv, RecurringStaysArmed
    <2> QED
      BY <2>4, <2>6, <2>7, <2>8 DEF TMInv
  <1> QED
    BY <1>4, <1>5

\* Timer::cancel, also of a timer that has expired.
LEMMA CancelKeeps ==
  ASSUME TMInv, NEW x \in Timers, Cancel(x)
  PROVE  TMInv'
  <1>1. /\ m_cb' = m_cb \ {x}
        /\ m_timers' = m_timers \ {x}
        /\ UNCHANGED <<now, m_next, m_ms, m_recurring, m_tickled, owed, pollVars>>
        /\ Alive
    BY DEF Cancel, cancel
  <1>2. TMTypeOK'
    BY <1>1 DEF TMInv, TMTypeOK, pollVars
  <1>3. Started' /\ TickledIsSeen'
    BY <1>1 DEF TMInv, Started, TickledIsSeen, pollVars
  <1>4. SleepCovers'
    BY <1>1 DEF TMInv, SleepCovers, pollVars
  <1>5. RecurringStaysArmed'
    BY <1>1 DEF TMInv, RecurringStaysArmed
  <1> QED
    BY <1>2, <1>3, <1>4, <1>5 DEF TMInv

\* Deadlines of timers in the set move to later times only.
LEMMA LaterCovers ==
  ASSUME TMInv, Alive, m_next' \in [Timers -> Nat], m_timers' \subseteq m_timers,
         \A y \in m_timers' : m_next[y] <= m_next'[y],
         UNCHANGED <<owed, wakeAt, pipe>>,
         (\A p \in IdleThreads : poller'[p] = "poll") => (\A p \in IdleThreads : poller[p] = "poll")
  PROVE  SleepCovers'
  <1> SUFFICES ASSUME ~owed, ~pipe, \A p \in IdleThreads : poller[p] = "poll", NEW y \in m_timers'
               PROVE  \E p \in IdleThreads : wakeAt[p] <= m_next'[y]
    BY DEF SleepCovers
  <1>1. PICK p \in IdleThreads : wakeAt[p] <= m_next[y]
    BY DEF TMInv, SleepCovers
  <1>2. wakeAt[p] \in Nat /\ m_next[y] \in Nat /\ m_next'[y] \in Nat
    BY DEF TMInv, TMTypeOK
  <1> QED
    BY <1>1, <1>2

\* Timer::refresh, which moves a deadline to a later time.
LEMMA RefreshKeeps ==
  ASSUME TMInv, NEW x \in Timers, Refresh(x)
  PROVE  TMInv'
  <1>1. /\ UNCHANGED <<now, m_timers, m_ms, m_recurring, m_cb, m_tickled, owed, pollVars>>
        /\ Alive
        /\ \/ m_next' = m_next
           \/ m_next' = [m_next EXCEPT ![x] = now + m_ms[x]]
    BY DEF Refresh, refresh
  <1>2. now \in Nat /\ m_ms \in [Timers -> Nat] /\ m_next \in [Timers -> Nat] /\ m_timers \subseteq Timers
    BY DEF TMInv, TMTypeOK
  <1>3. /\ m_next' \in [Timers -> Nat]
        /\ \A y \in Timers : m_next'[y] = m_next[y] \/ m_next'[y] = now + m_ms[y]
    BY <1>1, <1>2
  <1>4. \A y \in m_timers : /\ m_next[y] <= m_next'[y]
                            /\ m_ms[y] <= m_next'[y] /\ m_next'[y] <= now + m_ms[y]
    BY <1>2, <1>3 DEF TMInv, Started
  <1>5. TMTypeOK' /\ Started' /\ TickledIsSeen' /\ RecurringStaysArmed'
    BY <1>1, <1>3, <1>4 DEF TMInv, TMTypeOK, Started, TickledIsSeen, RecurringStaysArmed, pollVars
  <1>6. SleepCovers'
    BY <1>1, <1>3, <1>4, LaterCovers DEF pollVars
  <1> QED
    BY <1>5, <1>6 DEF TMInv

\* listExpiredCb takes timers out and puts the recurring ones back.
LEMMA ListExpiredKeeps ==
  ASSUME TMInv, NEW p \in IdleThreads, listExpiredCb(p)
  PROVE  TMInv'
  <1>1. PICK due \in SUBSET m_timers : expire(due)
    BY DEF listExpiredCb
  <1>2. /\ UNCHANGED <<now, m_ms, m_recurring, m_cb, m_tickled, owed, wakeAt, pipe>>
        /\ Alive /\ poller' = [poller EXCEPT ![p] = "busy"]
        /\ m_timers' = m_timers \ Leaving(due)
        /\ m_next' = [x \in Timers |-> IF x \in due /\ m_recurring[x] THEN now + m_ms[x]
                                       ELSE m_next[x]]
    BY <1>1 DEF listExpiredCb, expire, Move
  <1>3. now \in Nat /\ m_ms \in [Timers -> Nat] /\ m_next \in [Timers -> Nat] /\ m_timers \subseteq Timers
    BY DEF TMInv, TMTypeOK
  <1>4. /\ m_next' \in [Timers -> Nat]
        /\ \A y \in Timers : m_next'[y] = m_next[y] \/ m_next'[y] = now + m_ms[y]
    BY <1>2, <1>3
  <1>5. \A y \in m_timers : /\ m_next[y] <= m_next'[y]
                            /\ m_ms[y] <= m_next'[y] /\ m_next'[y] <= now + m_ms[y]
    BY <1>3, <1>4 DEF TMInv, Started
  <1>6. m_timers' \subseteq m_timers
    BY <1>2
  <1>7. poller' \in [IdleThreads -> {"busy", "next", "poll", "expire"}] /\ poller'[p] = "busy"
    BY <1>2 DEF TMInv, TMTypeOK
  <1>8. TMTypeOK' /\ Started'
    BY <1>2, <1>3, <1>4, <1>5, <1>6, <1>7 DEF TMInv, TMTypeOK, Started
  <1>9. TickledIsSeen' /\ SleepCovers'
    BY <1>7 DEF TickledIsSeen, SleepCovers
  <1>10. RecurringStaysArmed'
    BY <1>2 DEF TMInv, RecurringStaysArmed, Leaving
  <1> QED
    BY <1>8, <1>9, <1>10 DEF TMInv

\* getNextTimer clears m_tickled and fixes how long the thread sleeps.
LEMMA GetNextKeeps ==
  ASSUME TMInv, NEW p \in IdleThreads, getNextTimer(p)
  PROVE  TMInv'
  <1>1. /\ UNCHANGED <<now, m_timers, m_next, m_ms, m_recurring, m_cb, owed, erased, pipe>>
        /\ m_tickled' = FALSE /\ poller' = [poller EXCEPT ![p] = "poll"]
    BY DEF getNextTimer, Move
  <1>2. PICK first \in m_timers \union {0} :
           /\ IF first = 0 THEN m_timers = {}
              ELSE \A y \in m_timers \ {first} : Before(m_next[first], first, y)
           /\ wakeAt' = [wakeAt EXCEPT ![p] =
                           IF first = 0 \/ m_next[first] > LastMs THEN LastMs ELSE m_next[first]]
    BY DEF getNextTimer
  <1>3. m_next \in [Timers -> Nat] /\ m_timers \subseteq Timers /\ wakeAt \in [IdleThreads -> Nat]
    BY DEF TMInv, TMTypeOK
  <1>4. \A y \in m_timers : m_next[first] <= m_next[y] /\ first \in m_timers
    BY <1>2, <1>3 DEF Before
  <1>5. wakeAt'[p] \in Nat /\ \A y \in m_timers : wakeAt'[p] <= m_next[first]
    <2>1. CASE m_timers = {}
      <3>1. first = 0
        BY <2>1
      <3> QED
        BY <2>1, <3>1, <1>2, <1>3, IdleAssumption
    <2>2. CASE m_timers # {}
      <3>1. first # 0 /\ m_next[first] \in Nat
        BY <2>2, <1>2, <1>3, TimersAssumption
      <3> QED
        BY <3>1, <1>2, <1>3, IdleAssumption
    <2> QED
      BY <2>1, <2>2
  <1>6. TMTypeOK'
    <2>1. wakeAt' \in [IdleThreads -> Nat]
      BY <1>2, <1>3, <1>5
    <2> QED
      BY <1>1, <2>1 DEF TMInv, TMTypeOK
  <1>7. Started' /\ TickledIsSeen' /\ RecurringStaysArmed'
    BY <1>1 DEF TMInv, Started, TickledIsSeen, RecurringStaysArmed
  <1>8. SleepCovers'
    <2>1. \A y \in m_timers : wakeAt'[p] <= m_next[y]
      BY <1>3, <1>4, <1>5
    <2> QED
      BY <1>1, <2>1 DEF SleepCovers
  <1> QED
    BY <1>6, <1>7, <1>8 DEF TMInv

\* The wake-ups, the clock and the threads that do other work.
LEMMA RestKeeps ==
  ASSUME TMInv,
         \/ \E p \in IdleThreads : EnterIdle(p) \/ PollEnds(p)
         \/ onTimerInsertAtFront
         \/ Tick
         \/ UNCHANGED tmVars
  PROVE  TMInv'
  <1>1. CASE \E p \in IdleThreads : EnterIdle(p) \/ PollEnds(p)
    <2>1. PICK p \in IdleThreads, to \in {"next", "expire"} :
             /\ UNCHANGED <<now, timerVars, owed, wakeAt>>
             /\ poller' = [poller EXCEPT ![p] = to]
             /\ pipe' \in {pipe, FALSE}
      BY <1>1 DEF EnterIdle, PollEnds, Move
    <2>2. /\ poller' \in [IdleThreads -> {"busy", "next", "poll", "expire"}]
          /\ poller'[p] # "poll"
      BY <2>1 DEF TMInv, TMTypeOK
    <2>3. TickledIsSeen' /\ SleepCovers'
      BY <2>2 DEF TickledIsSeen, SleepCovers
    <2>4. TMTypeOK' /\ Started' /\ RecurringStaysArmed'
      BY <2>1, <2>2 DEF TMInv, TMTypeOK, Started, RecurringStaysArmed, timerVars
    <2> QED
      BY <2>3, <2>4 DEF TMInv
  <1>2. CASE onTimerInsertAtFront
    <2>1. /\ UNCHANGED <<now, timerVars, poller, wakeAt>> /\ owed' = FALSE
          /\ pipe' = (pipe \/ \E p \in IdleThreads : poller[p] # "busy")
      BY <1>2 DEF onTimerInsertAtFront
    <2>2. pipe' \/ \E p \in IdleThreads : poller'[p] # "poll"
      BY <2>1, IdleAssumption
    <2>3. TickledIsSeen' /\ SleepCovers'
      BY <2>2 DEF TickledIsSeen, SleepCovers
    <2>4. TMTypeOK' /\ Started' /\ RecurringStaysArmed'
      BY <2>1 DEF TMInv, TMTypeOK, Started, RecurringStaysArmed, timerVars
    <2> QED
      BY <2>3, <2>4 DEF TMInv
  <1>3. CASE Tick
    <2>1. now' = now + 1 /\ UNCHANGED <<timerVars, owed, pollVars>>
      BY <1>3 DEF Tick
    <2>2. TMTypeOK' /\ TickledIsSeen' /\ SleepCovers' /\ RecurringStaysArmed'
      BY <2>1 DEF TMInv, TMTypeOK, TickledIsSeen, SleepCovers, RecurringStaysArmed, Alive, timerVars,
         pollVars
    <2>3. Started'
      BY <2>1 DEF TMInv, TMTypeOK, Started, timerVars
    <2> QED
      BY <2>2, <2>3 DEF TMInv
  <1>4. CASE UNCHANGED tmVars
    BY <1>4 DEF TMInv, TMTypeOK, Started, TickledIsSeen, SleepCovers, RecurringStaysArmed, Alive,
       tmVars, timerVars, pollVars
  <1> QED
    BY <1>1, <1>2, <1>3, <1>4

-----------------------------------------------------------------------------

\* TMInv is an inductive invariant of the timers and the threads that sleep
\* for them (timer.cpp, idle() of iomanager.cpp).
THEOREM TimersInductive == TMSpec => []TMInv
  <1>1. TMInv /\ [TMNext]_tmVars => TMInv'
    <2> SUFFICES ASSUME TMInv, [TMNext]_tmVars PROVE TMInv'
      OBVIOUS
    <2>1. CASE \E x \in Timers : Add(x)
      BY <2>1, AddKeeps
    <2>2. CASE \E x \in Timers : Cancel(x)
      BY <2>2, CancelKeeps
    <2>3. CASE \E x \in Timers : Refresh(x)
      BY <2>3, RefreshKeeps
    <2>4. CASE \E x \in Timers : Reset(x)
      BY <2>4, ResetKeeps
    <2>5. CASE \E p \in IdleThreads : Poll(p)
      BY <2>5, GetNextKeeps, ListExpiredKeeps, RestKeeps DEF Poll
    <2>6. CASE onTimerInsertAtFront \/ Tick \/ Stopped \/ UNCHANGED tmVars
      BY <2>6, RestKeeps DEF Stopped
    <2> QED
      BY <2>1, <2>2, <2>3, <2>4, <2>5, <2>6 DEF TMNext
  <1> QED
    BY <1>1, TMInitInv, PTL DEF TMSpec

\* SleepCovers holds for any timers, periods and threads: addTimer's at_front
\* and m_tickled, reset() to an earlier deadline and getNextTimer together never
\* leave all threads of idle() asleep past the first deadline.
THEOREM NoSleepOutlastsATimer == TMSpec => []SleepCovers
  <1>1. TMInv => SleepCovers
    BY DEF TMInv
  <1> QED
    BY <1>1, TimersInductive, PTL

\* RecurringStaysArmed holds: listExpiredCb re-inserts a recurring timer, and
\* refresh() and reset() put back what they erase.
THEOREM RecurringTimersStay == TMSpec => []RecurringStaysArmed
  <1>1. TMInv => RecurringStaysArmed
    BY DEF TMInv
  <1> QED
    BY <1>1, TimersInductive, PTL

-----------------------------------------------------------------------------
(* LogFile.                                                                *)

LineRecord == [at : {"none", "reopen", "stamp", "check"}, time : Nat]

LogTypeOK ==
    /\ clock \in Nat /\ m_lastTime \in Nat
    /\ content \subseteq Nat
    /\ line \in [LogThreads -> LineRecord]

Opens(t) == line[t].at \in {"reopen", "stamp"}

\* As long as no two threads have found one period over: one thread at a time
\* opens the file, for a line of the next period, and what is written or about
\* to be is of the period that m_lastTime began.
OnePeriod ==
    ~raced =>
        /\ \A t, u \in LogThreads : Opens(t) /\ Opens(u) => t = u
        /\ \A t \in LogThreads : Opens(t) => line[t].time >= m_lastTime + Period
        /\ \A t \in LogThreads : line[t].at = "check" => line[t].time < m_lastTime + Period
        /\ \A x \in content : x < m_lastTime + Period

LogInv == LogTypeOK /\ OnePeriod

LEMMA LogStarts == LogFileInit => LogInv
BY PeriodLength DEF LogFileInit, LogInv, LogTypeOK, OnePeriod, Opens, LineRecord, NoLine

LEMMA Logged ==
    ASSUME LogInv, NEW t \in LogThreads, NEW level, log(t, level)
    PROVE  LogInv'
<1> DEFINE due == clock >= m_lastTime + Period
           racing == due /\ \E u \in LogThreads : Opens(u)
<1>1. /\ line' = [line EXCEPT ![t] = [at |-> IF due THEN "reopen" ELSE "check", time |-> clock]]
      /\ raced' = (raced \/ racing)
      /\ UNCHANGED <<clock, content, m_lastTime>>
  BY DEF log, Opens
<1>2. LogTypeOK'
  BY <1>1 DEF LogInv, LogTypeOK, LineRecord
<1>3. /\ line'[t].at = (IF due THEN "reopen" ELSE "check") /\ line'[t].time = clock
      /\ \A u \in LogThreads \ {t} : line'[u] = line[u]
  BY <1>1 DEF LogInv, LogTypeOK
<1>4. ~raced' => ~raced /\ ~racing
  BY <1>1, Zenon
<1>5. OnePeriod'
  BY <1>1, <1>3, <1>4, PeriodLength DEF LogInv, LogTypeOK, OnePeriod, Opens
<1> QED
  BY <1>2, <1>5 DEF LogInv

LEMMA Reopened ==
    ASSUME LogInv, NEW t \in LogThreads, reopen(t)
    PROVE  LogInv'
<1>1. /\ line[t].at = "reopen" /\ line' = [line EXCEPT ![t].at = "stamp"]
      /\ content' \subseteq content
      /\ UNCHANGED <<clock, m_lastTime, raced>>
  BY DEF reopen
<1>2. /\ LogTypeOK' /\ line'[t].at = "stamp" /\ line'[t].time = line[t].time
      /\ \A u \in LogThreads \ {t} : line'[u] = line[u]
  BY <1>1 DEF LogInv, LogTypeOK, LineRecord
<1>3. OnePeriod'
  BY <1>1, <1>2 DEF LogInv, OnePeriod, Opens
<1> QED
  BY <1>2, <1>3 DEF LogInv

LEMMA Stamped ==
    ASSUME LogInv, NEW t \in LogThreads, Stamp(t)
    PROVE  LogInv'
<1>1. /\ line[t].at = "stamp" /\ line' = [line EXCEPT ![t].at = "check"]
      /\ m_lastTime' = line[t].time
      /\ UNCHANGED <<clock, content, raced>>
  BY DEF Stamp
<1>2. /\ LogTypeOK' /\ line'[t].at = "check" /\ line'[t].time = line[t].time
      /\ \A u \in LogThreads \ {t} : line'[u] = line[u]
  BY <1>1 DEF LogInv, LogTypeOK, LineRecord
<1>3. \A u \in LogThreads : line[u].time \in Nat
  BY DEF LogInv, LogTypeOK, LineRecord
<1>4. OnePeriod'
  BY <1>1, <1>2, <1>3, PeriodLength DEF LogInv, LogTypeOK, OnePeriod, Opens
<1> QED
  BY <1>2, <1>4 DEF LogInv

LEMMA Wrote ==
    ASSUME LogInv, NEW t \in LogThreads, WriteLine(t)
    PROVE  LogInv'
<1>1. /\ line[t].at = "check" /\ line' = [line EXCEPT ![t] = NoLine]
      /\ content' \subseteq content \cup {line[t].time}
      /\ UNCHANGED <<clock, m_lastTime, raced>>
  BY DEF WriteLine
<1>2. /\ LogTypeOK' /\ line'[t].at = "none"
      /\ \A u \in LogThreads \ {t} : line'[u] = line[u]
  BY <1>1 DEF LogInv, LogTypeOK, LineRecord, NoLine
<1>3. OnePeriod'
  BY <1>1, <1>2 DEF LogInv, OnePeriod, Opens
<1> QED
  BY <1>2, <1>3 DEF LogInv

\* An opening of the log file removes only lines of seconds before the one it
\* was made for, unless two threads have both found the period over before
\* either took note of it: the check of FileLogAppender::log is outside the
\* lock (log.cpp:368-383).  For any number of threads and any period.
THEOREM OpeningRemovesOlder == LogFileSpec => RemovesOlder
<1> DEFINE Removes == \A t \in LogThreads :
               line[t].at = "reopen" /\ line'[t].at = "stamp" /\ ~raced =>
                   \A x \in content \ content' : x < line[t].time
<1>1. LogInv /\ [LogFileNext]_logVars => LogInv'
  <2> SUFFICES ASSUME LogInv, [LogFileNext]_logVars PROVE LogInv'
    OBVIOUS
  <2>1. CASE \E t \in LogThreads : \E level \in LineLevels : log(t, level)
    BY <2>1, Logged
  <2>2. CASE \E t \in LogThreads : reopen(t) \/ Stamp(t) \/ WriteLine(t)
    BY <2>2, Reopened, Stamped, Wrote
  <2>3. CASE LogTick
    BY <2>3 DEF LogTick, LogInv, LogTypeOK, OnePeriod, Opens
  <2>4. CASE UNCHANGED logVars
    BY <2>4 DEF logVars, LogInv, LogTypeOK, OnePeriod, Opens
  <2> QED
    BY <2>1, <2>2, <2>3, <2>4 DEF LogFileNext
<1>2. LogInv => Removes
  <2> SUFFICES ASSUME LogInv, NEW t \in LogThreads, line[t].at = "reopen", ~raced, NEW x \in content
               PROVE  x < line[t].time
    BY Zenon
  <2>1. line[t].time >= m_lastTime + Period /\ x < m_lastTime + Period
    BY DEF LogInv, OnePeriod, Opens
  <2>2. line[t].time \in Nat /\ m_lastTime \in Nat /\ x \in Nat
    BY DEF LogInv, LogTypeOK, LineRecord
  <2> QED
    BY <2>1, <2>2, PeriodLength
<1>3. LogInv => [Removes]_logVars
  BY <1>2, Zenon
<1> QED
  BY LogStarts, <1>1, <1>3, PTL DEF LogFileSpec, RemovesOlder

-----------------------------------------------------------------------------
(* ModuleManager.                                                          *)

Mods == 1..MaxLoads
DoingRecord ==
    [at : {"none", "del", "unload"}, ids : SUBSET Ids, copy : SUBSET Mods,
     old : Mods \cup {0}, new : Mods \cup {0}]

ModRecord == [file : Files \cup {NoFile}, unloads : Nat]

ModTypeOK ==
    /\ m_modules \in [Ids -> Mods \cup {0}]
    /\ module \in [Mods -> ModRecord]
    /\ doing \in [ModThreads -> DoingRecord]
    /\ handles \in [Files -> Int]

\* Modules are numbered as they are made.
Numbered ==
    \E k \in Nat : k <= MaxLoads /\ \A m \in Mods : module[m].file # NoFile <=> m <= k

\* A thread holds the module it has taken out of the map until onUnload() is
\* over, and only the loader holds one that is not in the map yet.
HandsFull ==
    /\ \A t \in ModThreads : doing[t].at = "unload" <=> doing[t].old # 0
    /\ \A t \in ModThreads \ {Loader} : doing[t].new = 0
    /\ doing[Loader].at = "none" <=> doing[Loader].new = 0

\* When add() puts its module in, the entry is empty: del() has emptied it,
\* and only the loader fills entries.
EntryFree ==
    doing[Loader].new # 0 =>
        LET i == IdOf[module[doing[Loader].new].file]
        IN doing[Loader].ids \subseteq {i} /\ (i \notin doing[Loader].ids => m_modules[i] = 0)

\* Where a module is that has not been unloaded yet: in the map, with a thread
\* that is about to unload it, or with the loader.
InMap(m) == \E i \in Ids : m_modules[i] = m
TakenOut(m) == \E t \in ModThreads : doing[t].old = m
IsNew(m) == doing[Loader].new = m
Loaded(m) == InMap(m) \/ TakenOut(m) \/ IsNew(m)

OnePlace ==
    /\ \A i, j \in Ids : m_modules[i] = m_modules[j] /\ m_modules[i] # 0 => i = j
    /\ \A t, u \in ModThreads : doing[t].old = doing[u].old /\ doing[t].old # 0 => t = u
    /\ \A m \in Mods : /\ ~(InMap(m) /\ TakenOut(m))
                       /\ ~(InMap(m) /\ IsNew(m))
                       /\ ~(TakenOut(m) /\ IsNew(m))

Unloads ==
    \A m \in Mods : /\ Loaded(m) => module[m].file # NoFile /\ module[m].unloads = 0
                    /\ module[m].file # NoFile /\ ~Loaded(m) => module[m].unloads = 1
                    /\ module[m].file = NoFile => module[m].unloads = 0

\* The map that delAll has copied.
Copied(m) == \E t \in ModThreads : m \in doing[t].copy
CopiesMade == \A m \in Mods : Copied(m) => module[m].file # NoFile

AliveHeld == alive \subseteq Mods /\ \A m \in Mods : m \in alive <=> Loaded(m) \/ Copied(m)

ModInv ==
    /\ ModTypeOK /\ Numbered /\ HandsFull /\ EntryFree
    /\ OnePlace /\ Unloads /\ CopiesMade /\ AliveHeld /\ HandlesHeld

LEMMA LoaderIsThread == Loader \in ModThreads /\ Loader \notin Removers /\ Removers \subseteq ModThreads
BY ModuleNames DEF Loader, ModThreads

LEMMA ModsPositive == \A m \in Mods : m \in Nat /\ m # 0
BY LoadsBound DEF Mods

LEMMA RestIs ==
    /\ Rest.at = "none" /\ Rest.old = 0 /\ Rest.new = 0 /\ Rest.copy = {}
    /\ Rest \in DoingRecord
BY DEF Rest, DoingRecord

LEMMA DeletingIs ==
    ASSUME NEW S \in SUBSET Ids, NEW C \in SUBSET Mods, NEW n \in Mods \cup {0}
    PROVE  LET d == Deleting(S, C, n)
           IN /\ d.at = "del" /\ d.ids = S /\ d.copy = C /\ d.old = 0 /\ d.new = n
              /\ d \in DoingRecord
BY DEF Deleting, DoingRecord

\* What HeldModules counts, as long as only the loader has a new module.
LEMMA HeldIs ==
    ASSUME NEW map, NEW does, NEW m \in Mods, \A t \in ModThreads \ {Loader} : does[t].new = 0
    PROVE  m \in HeldModules(map, does) <=>
             \/ \E i \in Ids : map[i] = m
             \/ \E t \in ModThreads : does[t].old = m \/ m \in does[t].copy
             \/ does[Loader].new = m
<1> DEFINE inHand == UNION {does[t].copy \cup {does[t].old, does[t].new} : t \in ModThreads}
<1>1. m # 0
  BY ModsPositive
<1>2. m \in inHand <=> \E t \in ModThreads : m \in does[t].copy \cup {does[t].old, does[t].new}
  OBVIOUS
<1>3. m \in {map[i] : i \in Ids} <=> \E i \in Ids : map[i] = m
  OBVIOUS
<1>4. m \in HeldModules(map, does) <=> m \in {map[i] : i \in Ids} \/ m \in inHand
  BY <1>1 DEF HeldModules
<1>5. (\E t \in ModThreads : m = does[t].new) <=> does[Loader].new = m
  BY <1>1, LoaderIsThread
<1> HIDE DEF inHand
<1> QED
  BY <1>2, <1>3, <1>4, <1>5

INSTANCE FiniteSetTheorems

LEMMA SomeFinite == ASSUME NEW S, S \subseteq Mods PROVE IsFiniteSet(S) /\ Cardinality(S) \in Nat
<1>1. 1 \in Int /\ MaxLoads \in Int
  BY LoadsBound
<1>2. IsFiniteSet(Mods)
  BY <1>1, FS_Interval DEF Mods
<1>3. IsFiniteSet(S)
  BY <1>2, FS_Subset
<1> QED
  BY <1>3, FS_CardinalityType

\* The number of the next module is free.
LEMMA NextIsFree ==
    ASSUME ModTypeOK, Numbered
    PROVE  \E k \in Nat : NextModule = k + 1 /\ \A m \in Mods : module[m].file # NoFile <=> m <= k
<1>1. PICK k \in Nat : k <= MaxLoads /\ \A m \in Mods : module[m].file # NoFile <=> m <= k
  BY DEF Numbered
<1>2. {m \in 1..MaxLoads : module[m].file # NoFile} = 1..k
  <2>0. k <= MaxLoads
    BY <1>1
  <2>1. \A m : m \in 1..k <=> m \in Mods /\ m <= k
    BY <2>0, LoadsBound DEF Mods
  <2>2. \A m : m \in {x \in 1..MaxLoads : module[x].file # NoFile} <=> m \in 1..k
    BY <1>1, <2>1 DEF Mods
  <2> QED
    BY <2>2, Zenon
<1>3. Cardinality(1..k) = k
  <2>1. 1 \in Int /\ k \in Int /\ (k < 1 => k = 0)
    OBVIOUS
  <2>2. Cardinality(1..k) = IF 1 > k THEN 0 ELSE k - 1 + 1
    BY <2>1, FS_Interval
  <2> QED
    BY <2>1, <2>2
<1>4. NextModule = k + 1
  BY <1>2, <1>3 DEF NextModule
<1> QED
  BY <1>1, <1>4

LEMMA DifferenceCounts ==
    ASSUME NEW S, NEW T, IsFiniteSet(S), T \subseteq S
    PROVE  Cardinality(S \ T) = Cardinality(S) - Cardinality(T)
<1>1. S \cap T = T
  OBVIOUS
<1> QED
  BY <1>1, FS_Difference

\* ModuleCloser closes a handle for each module that dies.
LEMMA Closes ==
    ASSUME ModInv, ModuleCloser, HandsFull',
           \A m \in Mods : module'[m].file = module[m].file,
           \A m \in Mods : (Loaded(m) \/ Copied(m))' => Loaded(m) \/ Copied(m)
    PROVE  AliveHeld' /\ HandlesHeld' /\ handles' \in [Files -> Int]
<1> DEFINE dying == alive \ HeldModules(m_modules', doing')
           of(S, f) == {m \in S : module[m].file = f}
<1>1. alive' = alive \ dying
  BY Zenon DEF ModuleCloser
<1>2. handles' = [f \in Files |-> handles[f] - Cardinality(of(dying, f))]
  BY Zenon DEF ModuleCloser
<1>3. alive \subseteq Mods /\ handles \in [Files -> Int] /\ dying \subseteq Mods
  BY DEF ModInv, AliveHeld, ModTypeOK
<1>4. \A m \in Mods : m \in HeldModules(m_modules', doing') <=> (Loaded(m) \/ Copied(m))'
  <2>1. \A t \in ModThreads \ {Loader} : doing'[t].new = 0
    BY DEF HandsFull
  <2> QED
    BY <2>1, HeldIs DEF Loaded, InMap, TakenOut, IsNew, Copied
<1>5. AliveHeld'
  BY <1>1, <1>3, <1>4 DEF AliveHeld, ModInv
<1> HIDE DEF dying
<1>6. \A f \in Files : handles'[f] = Cardinality({m \in alive' : module'[m].file = f})
  <2> SUFFICES ASSUME NEW f \in Files
               PROVE  handles'[f] = Cardinality({m \in alive' : module'[m].file = f})
    OBVIOUS
  <2>1. {m \in alive' : module'[m].file = f} = of(alive, f) \ of(dying, f)
    BY <1>1, <1>3
  <2>2. of(dying, f) \subseteq of(alive, f)
    BY DEF dying
  <2>3. of(alive, f) \subseteq Mods
    BY <1>3
  <2> HIDE DEF of
  <2>5. Cardinality(of(alive, f) \ of(dying, f)) = Cardinality(of(alive, f)) - Cardinality(of(dying, f))
    BY <2>2, <2>3, SomeFinite, DifferenceCounts
  <2>6. handles[f] = Cardinality(of(alive, f))
    BY DEF ModInv, HandlesHeld, of
  <2> QED
    BY <1>2, <2>1, <2>5, <2>6
<1>7. \A f \in Files : Cardinality(of(dying, f)) \in Nat
  BY <1>3, SomeFinite
<1> QED
  BY <1>2, <1>3, <1>5, <1>6, <1>7 DEF HandlesHeld

LEMMA ModulesStart == ModInit => ModInv
<1> SUFFICES ASSUME ModInit PROVE ModInv
  OBVIOUS
<1>1. /\ \A i \in Ids : m_modules[i] = 0
      /\ \A t \in ModThreads : doing[t].at = "none" /\ doing[t].old = 0 /\ doing[t].new = 0
                              /\ doing[t].copy = {}
      /\ \A m \in Mods : module[m].file = NoFile /\ module[m].unloads = 0
      /\ \A m \in Mods : m # 0
  BY ModsPositive, RestIs DEF ModInit, Mods
<1>2. ModTypeOK
  <2>1. m_modules \in [Ids -> Mods \cup {0}] /\ doing \in [ModThreads -> DoingRecord]
    BY RestIs DEF ModInit
  <2>2. module \in [Mods -> ModRecord]
    <3>1. [file |-> NoFile, unloads |-> 0] \in ModRecord
      BY DEF ModRecord
    <3>2. module = [m \in Mods |-> [file |-> NoFile, unloads |-> 0]]
      BY DEF ModInit, Mods
    <3> QED
      BY <3>1, <3>2
  <2>3. handles \in [Files -> Int]
    BY DEF ModInit
  <2> QED
    BY <2>1, <2>2, <2>3 DEF ModTypeOK
<1>3. Numbered
  <2>1. 0 <= MaxLoads /\ \A m \in Mods : ~(m <= 0)
    BY LoadsBound DEF Mods
  <2> QED
    BY <1>1, <2>1 DEF Numbered
<1>4. HandsFull /\ EntryFree
  BY <1>1, LoaderIsThread DEF HandsFull, EntryFree
<1>5. \A m \in Mods : ~InMap(m) /\ ~TakenOut(m) /\ ~IsNew(m) /\ ~Copied(m)
  BY <1>1, LoaderIsThread DEF InMap, TakenOut, IsNew, Copied
<1>6. OnePlace
  BY <1>1, <1>5 DEF OnePlace
<1>7. Unloads /\ CopiesMade
  BY <1>1, <1>5 DEF Unloads, CopiesMade, Loaded
<1>8. alive = {} /\ \A f \in Files : handles[f] = 0
  BY DEF ModInit
<1>9. AliveHeld
  BY <1>5, <1>8 DEF AliveHeld, Loaded
<1>10. HandlesHeld
  <2>1. \A f \in Files : {m \in alive : module[m].file = f} = {}
    BY <1>8
  <2> QED
    BY <1>8, <2>1, FS_EmptySet DEF HandlesHeld
<1> QED
  BY <1>2, <1>3, <1>4, <1>6, <1>7, <1>9, <1>10 DEF ModInv

\* A module is made: a number of its own, in the loader's hand.
LEMMA Makes ==
    ASSUME ModInv, NEW f \in Files, doing[Loader] = Rest, Made(f), m_modules' = m_modules
    PROVE  ModInv'
<1>0. /\ ModTypeOK /\ Numbered /\ HandsFull /\ OnePlace /\ Unloads
      /\ CopiesMade /\ AliveHeld /\ HandlesHeld
  BY DEF ModInv
<1>1. PICK k \in Nat : NextModule = k + 1 /\ \A m \in Mods : module[m].file # NoFile <=> m <= k
  BY <1>0, NextIsFree
<1> DEFINE N == k + 1
<1>a. NextModule = N /\ N <= MaxLoads
  BY <1>1 DEF Made
<1>b. N \in Mods /\ N # 0 /\ ~(N <= k) /\ N \in Nat /\ \A m \in Mods \ {N} : m <= N <=> m <= k
  BY <1>a, LoadsBound DEF Mods
<1>c. module[N].file = NoFile /\ \A m \in Mods : module[m].file # NoFile <=> m <= k
  BY <1>1, <1>b
<1> HIDE DEF N
<1>2. /\ module' = [module EXCEPT ![N].file = f] /\ alive' = alive \cup {N}
      /\ doing' = [doing EXCEPT ![Loader] = Deleting({IdOf[f]}, {}, N)]
  BY <1>a DEF Made
<1>d. handles' = [handles EXCEPT ![f] = @ + 1]
  BY DEF Made
<1>e. module \in [Mods -> ModRecord]
  BY <1>0 DEF ModTypeOK
<1>3. /\ module' \in [Mods -> ModRecord]
      /\ module'[N].file = f /\ module'[N].unloads = module[N].unloads
      /\ \A m \in Mods \ {N} : module'[m] = module[m]
  BY <1>b, <1>2, <1>e DEF ModRecord
<1>4. IdOf[f] \in Ids /\ f # NoFile
  BY ModuleNames DEF Ids
<1>5. /\ doing'[Loader].at = "del" /\ doing'[Loader].ids = {IdOf[f]} /\ doing'[Loader].new = N
      /\ doing'[Loader].old = 0 /\ doing'[Loader].copy = {}
      /\ \A t \in ModThreads \ {Loader} : doing'[t] = doing[t]
      /\ doing' \in [ModThreads -> DoingRecord]
  <2>1. {IdOf[f]} \in SUBSET Ids /\ {} \in SUBSET Mods
    BY <1>4
  <2> DEFINE d == Deleting({IdOf[f]}, {}, N)
  <2>2. /\ d.at = "del" /\ d.ids = {IdOf[f]} /\ d.copy = {} /\ d.old = 0 /\ d.new = N
        /\ d \in DoingRecord
    BY <1>b, <2>1, DeletingIs
  <2> HIDE DEF d
  <2>3. doing' = [doing EXCEPT ![Loader] = d] /\ doing \in [ModThreads -> DoingRecord]
    BY <1>0, <1>2 DEF ModTypeOK, d
  <2>4. /\ doing' \in [ModThreads -> DoingRecord] /\ doing'[Loader] = d
        /\ \A t \in ModThreads \ {Loader} : doing'[t] = doing[t]
    BY <2>2, <2>3, LoaderIsThread
  <2> QED
    BY <2>2, <2>4
<1>6. doing[Loader].old = 0 /\ doing[Loader].new = 0 /\ doing[Loader].copy = {}
  BY RestIs
<1>7. ModTypeOK'
  <2>0. handles \in [Files -> Int]
    BY <1>0 DEF ModTypeOK
  <2>1. handles' \in [Files -> Int]
    BY <1>d, <2>0
  <2> QED
    BY <1>0, <1>3, <1>5, <2>1 DEF ModTypeOK
<1>8. Numbered'
  <2>1. \A m \in Mods \ {N} : module'[m].file # NoFile <=> m <= N
    BY <1>b, <1>c, <1>3
  <2>2. module'[N].file # NoFile
    BY <1>3, <1>4
  <2>3. N <= N
    BY <1>b
  <2> QED
    BY <1>a, <1>b, <2>1, <2>2, <2>3 DEF Numbered
<1>9. HandsFull' /\ EntryFree'
  <2>1. HandsFull'
    BY <1>0, <1>b, <1>5 DEF HandsFull
  <2>2. EntryFree'
    BY <1>3, <1>5 DEF EntryFree
  <2> QED
    BY <2>1, <2>2
<1>10. \A m \in Mods : /\ InMap(m)' <=> InMap(m)
                       /\ TakenOut(m)' <=> TakenOut(m)
                       /\ IsNew(m)' <=> m = N
                       /\ Copied(m)' <=> Copied(m)
                       /\ ~IsNew(m)
  <2> QED
    BY <1>5, <1>6, ModsPositive, LoaderIsThread DEF InMap, TakenOut, IsNew, Copied
<1>11. ~InMap(N) /\ ~TakenOut(N) /\ ~Copied(N) /\ N \notin alive
  BY <1>0, <1>b, <1>c DEF Unloads, Loaded, CopiesMade, AliveHeld
<1>12. OnePlace'
  <2>1. \A t \in ModThreads : doing'[t].old = doing[t].old
    BY <1>5, <1>6
  <2> QED
    BY <1>0, <2>1, <1>10, <1>11 DEF OnePlace
<1>13. Unloads' /\ CopiesMade'
  <2>1. \A m \in Mods : Loaded(m)' <=> Loaded(m) \/ m = N
    BY <1>10 DEF Loaded
  <2>2. module[N].file = NoFile /\ N \in Mods
    BY <1>b, <1>c
  <2>3. Unloads'
    BY <1>0, <1>3, <1>4, <2>1, <2>2 DEF Unloads
  <2>4. CopiesMade'
    BY <1>0, <1>3, <1>4, <1>10, <2>2 DEF CopiesMade
  <2> QED
    BY <2>3, <2>4
<1>14. AliveHeld'
  BY <1>0, <1>b, <1>2, <1>10 DEF AliveHeld, Loaded
<1>15. HandlesHeld'
  <2> SUFFICES ASSUME NEW g \in Files
               PROVE  handles'[g] = Cardinality({m \in alive' : module'[m].file = g})
    BY DEF HandlesHeld
  <2> DEFINE S == {m \in alive : module[m].file = g}
  <2>1. S \subseteq Mods /\ N \notin S /\ handles[g] = Cardinality(S)
    BY <1>0, <1>11 DEF AliveHeld, HandlesHeld
  <2>2. alive \subseteq Mods
    BY <1>0 DEF AliveHeld
  <2>3. CASE g = f
    <3>1. {m \in alive' : module'[m].file = g} = S \cup {N}
      BY <1>2, <1>3, <1>11, <2>2, <2>3
    <3> HIDE DEF S
    <3>2. Cardinality(S \cup {N}) = Cardinality(S) + 1
      BY <2>1, SomeFinite, FS_AddElement
    <3>3. handles'[g] = handles[g] + 1
      BY <1>0, <1>d, <2>3 DEF ModTypeOK
    <3> QED
      BY <2>1, <3>1, <3>2, <3>3
  <2>4. CASE g # f
    <3>1. {m \in alive' : module'[m].file = g} = S
      BY <1>2, <1>3, <1>11, <2>2, <2>4
    <3>2. handles'[g] = handles[g]
      BY <1>0, <1>d, <2>4 DEF ModTypeOK
    <3> QED
      BY <2>1, <3>1, <3>2
  <2> QED
    BY <2>3, <2>4
<1> QED
  BY <1>7, <1>8, <1>9, <1>12, <1>13, <1>14, <1>15 DEF ModInv

\* del() or delAll() is called: a thread takes note of ids and copies the map.
LEMMA Copies ==
    ASSUME ModInv, NEW r \in Removers, RemoveModule(r)
    PROVE  ModInv'
<1>0. /\ ModTypeOK /\ Numbered /\ HandsFull /\ EntryFree /\ OnePlace /\ Unloads
      /\ CopiesMade /\ AliveHeld /\ HandlesHeld
      /\ doing[r] = Rest /\ UNCHANGED <<m_modules, module, alive, handles>>
  BY DEF ModInv, RemoveModule
<1>1. r \in ModThreads /\ r # Loader
  BY LoaderIsThread
<1>2. PICK S \in SUBSET Ids, C \in SUBSET {m \in Mods : InMap(m)} :
          doing' = [doing EXCEPT ![r] = Deleting(S, C, 0)]
  <2>1. CASE \E i \in Ids : doing' = [doing EXCEPT ![r] = Deleting({i}, {}, 0)]
    BY <2>1
  <2>2. CASE doing' = [doing EXCEPT ![r] = Deleting({i \in Ids : m_modules[i] # 0},
                                                  {m_modules[i] : i \in Ids} \ {0}, 0)]
    <3>1. {m_modules[i] : i \in Ids} \ {0} \in SUBSET {m \in Mods : InMap(m)}
      BY <1>0 DEF ModTypeOK, InMap
    <3>2. {i \in Ids : m_modules[i] # 0} \in SUBSET Ids
      OBVIOUS
    <3> QED
      BY <2>2, <3>1, <3>2
  <2> QED
    BY <2>1, <2>2 DEF RemoveModule
<1>3. /\ doing'[r].at = "del" /\ doing'[r].old = 0 /\ doing'[r].new = 0 /\ doing'[r].copy = C
      /\ \A t \in ModThreads \ {r} : doing'[t] = doing[t]
      /\ doing' \in [ModThreads -> DoingRecord]
  <2>0. doing \in [ModThreads -> DoingRecord]
    BY <1>0 DEF ModTypeOK
  <2>1. C \in SUBSET Mods
    OBVIOUS
  <2>2. doing'[r] = Deleting(S, C, 0) /\ \A t \in ModThreads \ {r} : doing'[t] = doing[t]
    BY <1>1, <1>2, <2>0
  <2> DEFINE d == Deleting(S, C, 0)
  <2>3. /\ d.at = "del" /\ d.old = 0 /\ d.new = 0 /\ d.copy = C
        /\ d \in DoingRecord
    BY <2>1, DeletingIs
  <2> HIDE DEF d
  <2>4. doing' \in [ModThreads -> DoingRecord]
    BY <1>2, <2>0, <2>3 DEF d
  <2> QED
    BY <2>2, <2>3, <2>4 DEF d
<1>4. doing[r].old = 0 /\ doing[r].new = 0 /\ doing[r].copy = {}
  BY <1>0, RestIs
<1>5. /\ doing'[Loader] = doing[Loader]
      /\ \A t \in ModThreads : doing'[t].old = doing[t].old /\ doing'[t].new = doing[t].new
  BY <1>1, <1>3, <1>4, LoaderIsThread
<1>6. ModTypeOK' /\ Numbered'
  BY <1>0, <1>3 DEF ModTypeOK, Numbered
<1>7. HandsFull'
  BY <1>0, <1>1, <1>3, <1>5 DEF HandsFull
<1>8. EntryFree'
  BY <1>0, <1>5 DEF EntryFree
<1>9. \A m \in Mods : /\ InMap(m)' <=> InMap(m)
                      /\ TakenOut(m)' <=> TakenOut(m)
                      /\ IsNew(m)' <=> IsNew(m)
                      /\ Copied(m)' <=> Copied(m) \/ m \in C
  BY <1>0, <1>1, <1>3, <1>4, <1>5 DEF InMap, TakenOut, IsNew, Copied
<1>10. OnePlace'
  BY <1>0, <1>5, <1>9 DEF OnePlace
<1>11. Unloads' /\ CopiesMade' /\ AliveHeld'
  BY <1>0, <1>2, <1>9 DEF Unloads, CopiesMade, AliveHeld, Loaded
<1>12. HandlesHeld'
  BY <1>0 DEF HandlesHeld
<1> QED
  BY <1>6, <1>7, <1>8, <1>10, <1>11, <1>12 DEF ModInv

\* del() under the lock.
LEMMA Deletes ==
    ASSUME ModInv, NEW t \in ModThreads, del(t)
    PROVE  ModInv'
<1>0. /\ ModTypeOK /\ Numbered /\ HandsFull /\ EntryFree /\ OnePlace /\ Unloads
      /\ CopiesMade /\ AliveHeld /\ HandlesHeld
      /\ doing[t].at = "del" /\ UNCHANGED <<module, alive, handles>>
  BY DEF ModInv, del
<1>1. PICK i \in doing[t].ids :
        /\ doing' = [doing EXCEPT ![t].ids = @ \ {i}, ![t].old = m_modules[i],
                                  ![t].at = IF m_modules[i] = 0 THEN "del" ELSE "unload"]
        /\ m_modules' = [m_modules EXCEPT ![i] = 0]
  BY DEF del
<1> DEFINE o == m_modules[i]
<1>2. doing[t] \in DoingRecord /\ doing[t].old = 0
  BY <1>0 DEF ModTypeOK, HandsFull
<1>3. i \in Ids /\ o \in Mods \cup {0}
  BY <1>0, <1>1, <1>2 DEF ModTypeOK, DoingRecord
<1>4. /\ doing' \in [ModThreads -> DoingRecord]
      /\ doing'[t].at = IF o = 0 THEN "del" ELSE "unload"
      /\ doing'[t].ids = doing[t].ids \ {i} /\ doing'[t].old = o
      /\ doing'[t].copy = doing[t].copy /\ doing'[t].new = doing[t].new
      /\ \A u \in ModThreads \ {t} : doing'[u] = doing[u]
  <2> DEFINE at == IF o = 0 THEN "del" ELSE "unload"
             d == [doing[t] EXCEPT !.ids = @ \ {i}, !.old = o, !.at = at]
  <2>1. doing \in [ModThreads -> DoingRecord]
    BY <1>0 DEF ModTypeOK
  <2>2. doing' = [doing EXCEPT ![t] = d]
    BY <1>1
  <2>3. at \in {"del", "unload"}
    OBVIOUS
  <2> HIDE DEF o, at
  <2>4. /\ d \in DoingRecord /\ d.at = at /\ d.ids = doing[t].ids \ {i} /\ d.old = o
        /\ d.copy = doing[t].copy /\ d.new = doing[t].new
    BY <1>2, <1>3, <2>3 DEF DoingRecord
  <2> HIDE DEF d
  <2>5. /\ doing' \in [ModThreads -> DoingRecord] /\ doing'[t] = d
        /\ \A u \in ModThreads \ {t} : doing'[u] = doing[u]
    BY <2>1, <2>2, <2>4
  <2> QED
    BY <2>4, <2>5 DEF at
<1>5. /\ m_modules' \in [Ids -> Mods \cup {0}] /\ m_modules'[i] = 0
      /\ \A j \in Ids \ {i} : m_modules'[j] = m_modules[j]
  BY <1>0, <1>1, <1>3 DEF ModTypeOK
<1> HIDE DEF o
<1>6. ModTypeOK' /\ Numbered' /\ HandlesHeld'
  <2>1. ModTypeOK'
    BY <1>0, <1>4, <1>5 DEF ModTypeOK
  <2>2. Numbered' /\ HandlesHeld'
    BY <1>0 DEF Numbered, HandlesHeld
  <2> QED
    BY <2>1, <2>2
<1>7. HandsFull'
  BY <1>0, <1>4, LoaderIsThread DEF HandsFull
<1>8. EntryFree'
  <2>1. doing'[Loader].new = doing[Loader].new
    BY <1>4, LoaderIsThread
  <2> SUFFICES ASSUME doing[Loader].new # 0,
                      NEW e, e = IdOf[module[doing[Loader].new].file]
               PROVE  /\ doing'[Loader].ids \subseteq {e}
                      /\ e \notin doing'[Loader].ids => m_modules'[e] = 0
    BY <1>0, <2>1 DEF EntryFree
  <2>2. doing[Loader].ids \subseteq {e} /\ (e \notin doing[Loader].ids => m_modules[e] = 0)
    BY <1>0 DEF EntryFree
  <2>3. e \in Ids
    <3>1. doing[Loader].new \in Mods
      BY <1>0, LoaderIsThread DEF ModTypeOK, DoingRecord
    <3>2. module[doing[Loader].new].file \in Files
      BY <1>0, <3>1 DEF ModTypeOK, ModRecord, Unloads, Loaded, IsNew
    <3> QED
      BY <3>2 DEF Ids
  <2>4. CASE t = Loader
    BY <1>1, <1>4, <1>5, <2>2, <2>4
  <2>5. CASE t # Loader
    BY <1>4, <1>5, <2>2, <2>3, <2>5, LoaderIsThread
  <2> QED
    BY <2>4, <2>5
<1>9. \A m \in Mods : /\ InMap(m)' <=> InMap(m) /\ m # o
                      /\ TakenOut(m)' <=> TakenOut(m) \/ m = o
                      /\ IsNew(m)' <=> IsNew(m)
                      /\ Copied(m)' <=> Copied(m)
                      /\ m = o => InMap(m)
  <2> SUFFICES ASSUME NEW m \in Mods
               PROVE  /\ InMap(m)' <=> InMap(m) /\ m # o
                      /\ TakenOut(m)' <=> TakenOut(m) \/ m = o
                      /\ IsNew(m)' <=> IsNew(m)
                      /\ Copied(m)' <=> Copied(m)
                      /\ m = o => InMap(m)
    BY Zenon
  <2>1. m # 0
    BY ModsPositive
  <2>2. m = o => InMap(m)
    BY <1>3 DEF InMap, o
  <2>3. InMap(m)' <=> InMap(m) /\ m # o
    BY <1>0, <1>3, <1>5, <2>1 DEF InMap, o, OnePlace
  <2>4. TakenOut(m)' <=> TakenOut(m) \/ m = o
    BY <1>2, <1>4, <2>1 DEF TakenOut
  <2>5. IsNew(m)' <=> IsNew(m)
    BY <1>4, LoaderIsThread DEF IsNew
  <2>6. Copied(m)' <=> Copied(m)
    BY <1>4 DEF Copied
  <2> QED
    BY <2>2, <2>3, <2>4, <2>5, <2>6
<1>10. OnePlace'
  <2>1. \A j, l \in Ids : m_modules'[j] = m_modules'[l] /\ m_modules'[j] # 0 => j = l
    BY <1>0, <1>5 DEF OnePlace
  <2>2. o # 0 => \A u \in ModThreads : doing[u].old # o
    BY <1>0, <1>3, <1>9 DEF OnePlace, TakenOut
  <2>3. \A u, v \in ModThreads : doing'[u].old = doing'[v].old /\ doing'[u].old # 0 => u = v
    <3>1. \A u, v \in ModThreads : doing[u].old = doing[v].old /\ doing[u].old # 0 => u = v
      BY <1>0 DEF OnePlace
    <3> QED
      BY <1>4, <2>2, <3>1
  <2>4. \A m \in Mods : ~(InMap(m)' /\ TakenOut(m)') /\ ~(InMap(m)' /\ IsNew(m)')
                        /\ ~(TakenOut(m)' /\ IsNew(m)')
    BY <1>0, <1>9 DEF OnePlace
  <2> QED
    BY <2>1, <2>3, <2>4 DEF OnePlace
<1>11. \A m \in Mods : Loaded(m)' <=> Loaded(m)
  BY <1>9 DEF Loaded
<1>12. Unloads' /\ CopiesMade' /\ AliveHeld'
  BY <1>0, <1>9, <1>11 DEF Unloads, CopiesMade, AliveHeld
<1> QED
  BY <1>6, <1>7, <1>8, <1>10, <1>12 DEF ModInv

\* onUnload(), and del() lets go of the module.
LEMMA Unloading ==
    ASSUME ModInv, NEW t \in ModThreads, onUnload(t)
    PROVE  ModInv'
<1> DEFINE o == doing[t].old
<1>0. /\ ModTypeOK /\ Numbered /\ HandsFull /\ EntryFree /\ OnePlace /\ Unloads
      /\ CopiesMade /\ AliveHeld
      /\ doing[t].at = "unload" /\ m_modules' = m_modules /\ ModuleCloser
  BY DEF ModInv, onUnload
<1>1. /\ module' = [module EXCEPT ![o].unloads = @ + 1]
      /\ doing' = [doing EXCEPT ![t].at = "del", ![t].old = 0]
  BY DEF onUnload
<1>2. o \in Mods /\ o # 0 /\ TakenOut(o)
  BY <1>0 DEF ModTypeOK, DoingRecord, HandsFull, TakenOut
<1>3. /\ doing' \in [ModThreads -> DoingRecord]
      /\ doing'[t].at = "del" /\ doing'[t].old = 0 /\ doing'[t].ids = doing[t].ids
      /\ doing'[t].copy = doing[t].copy /\ doing'[t].new = doing[t].new
      /\ \A u \in ModThreads \ {t} : doing'[u] = doing[u]
  <2>1. doing \in [ModThreads -> DoingRecord]
    BY <1>0 DEF ModTypeOK
  <2> QED
    BY <1>1, <2>1 DEF DoingRecord
<1>4. /\ module[o].unloads = 0 /\ module[o].file # NoFile
  BY <1>0, <1>2 DEF Unloads, Loaded
<1> HIDE DEF o
<1>5. /\ module' \in [Mods -> ModRecord]
      /\ module'[o].unloads = 1
      /\ \A m \in Mods : module'[m].file = module[m].file
      /\ \A m \in Mods \ {o} : module'[m].unloads = module[m].unloads
  <2>1. module \in [Mods -> ModRecord]
    BY <1>0 DEF ModTypeOK
  <2> DEFINE w == module[o].unloads + 1
  <2>2. w = 1 /\ w \in Nat
    BY <1>4
  <2>3. module' = [module EXCEPT ![o] = [module[o] EXCEPT !.unloads = w]]
    BY <1>1
  <2> HIDE DEF w
  <2> DEFINE x == [module[o] EXCEPT !.unloads = w]
  <2>4. x \in ModRecord /\ x.file = module[o].file /\ x.unloads = 1
    BY <1>2, <2>1, <2>2 DEF ModRecord
  <2> HIDE DEF x
  <2> QED
    BY <1>2, <2>1, <2>3, <2>4 DEF x
<1>6. HandsFull'
  BY <1>0, <1>3, LoaderIsThread DEF HandsFull
<1>7. \A m \in Mods : /\ InMap(m)' <=> InMap(m)
                      /\ TakenOut(m)' <=> TakenOut(m) /\ m # o
                      /\ IsNew(m)' <=> IsNew(m)
                      /\ Copied(m)' <=> Copied(m)
  <2> SUFFICES ASSUME NEW m \in Mods
               PROVE  /\ InMap(m)' <=> InMap(m)
                      /\ TakenOut(m)' <=> TakenOut(m) /\ m # o
                      /\ IsNew(m)' <=> IsNew(m)
                      /\ Copied(m)' <=> Copied(m)
    BY Zenon
  <2>1. m # 0
    BY ModsPositive
  <2>2. InMap(m)' <=> InMap(m)
    BY <1>0 DEF InMap
  <2>3. TakenOut(m)' <=> TakenOut(m) /\ m # o
    BY <1>0, <1>3, <2>1 DEF TakenOut, OnePlace, o
  <2>4. (IsNew(m)' <=> IsNew(m)) /\ (Copied(m)' <=> Copied(m))
    BY <1>3, LoaderIsThread DEF IsNew, Copied
  <2> QED
    BY <2>2, <2>3, <2>4
<1>8. \A m \in Mods : Loaded(m)' <=> Loaded(m) /\ m # o
  BY <1>0, <1>2, <1>7 DEF Loaded, OnePlace
<1>9. AliveHeld' /\ HandlesHeld' /\ handles' \in [Files -> Int]
  BY <1>0, <1>5, <1>6, <1>7, <1>8, Closes
<1>10. ModTypeOK' /\ Numbered'
  BY <1>0, <1>3, <1>5, <1>9 DEF ModTypeOK, Numbered
<1>11. EntryFree'
  <2>1. doing'[Loader].new = doing[Loader].new /\ doing'[Loader].ids = doing[Loader].ids
    BY <1>3, LoaderIsThread
  <2>2. doing[Loader].new # 0 => doing[Loader].new \in Mods
    BY <1>0, LoaderIsThread DEF ModTypeOK, DoingRecord
  <2> QED
    BY <1>0, <1>5, <2>1, <2>2 DEF EntryFree
<1>12. OnePlace'
  <2>1. \A u, v \in ModThreads : doing'[u].old = doing'[v].old /\ doing'[u].old # 0 => u = v
    <3>1. \A u, v \in ModThreads : doing[u].old = doing[v].old /\ doing[u].old # 0 => u = v
      BY <1>0 DEF OnePlace
    <3>2. \A u \in ModThreads : doing'[u].old = IF u = t THEN 0 ELSE doing[u].old
      BY <1>3
    <3> QED
      BY <3>1, <3>2
  <2> QED
    BY <1>0, <1>7, <2>1 DEF OnePlace
<1>13. Unloads' /\ CopiesMade'
  BY <1>0, <1>4, <1>5, <1>7, <1>8 DEF Unloads, CopiesMade
<1> QED
  BY <1>6, <1>9, <1>10, <1>11, <1>12, <1>13 DEF ModInv

\* add() puts its module in; del() and delAll() return.
LEMMA Returns ==
    ASSUME ModInv, NEW t \in ModThreads, Done(t)
    PROVE  ModInv'
<1>0. /\ ModTypeOK /\ Numbered /\ HandsFull /\ EntryFree /\ OnePlace /\ Unloads
      /\ CopiesMade /\ AliveHeld
      /\ doing[t].at = "del" /\ doing[t].ids = {} /\ module' = module /\ ModuleCloser
      /\ doing' = [doing EXCEPT ![t] = Rest]
  BY DEF ModInv, Done
<1>1. /\ doing' \in [ModThreads -> DoingRecord] /\ doing'[t] = Rest
      /\ \A u \in ModThreads \ {t} : doing'[u] = doing[u]
  BY <1>0, RestIs DEF ModTypeOK
<1>2. /\ doing'[t].at = "none" /\ doing'[t].old = 0 /\ doing'[t].new = 0 /\ doing'[t].copy = {}
      /\ doing[t].old = 0
  BY <1>0, <1>1, RestIs DEF HandsFull
<1>3. HandsFull'
  BY <1>0, <1>1, <1>2 DEF HandsFull
<1>4. \A m \in Mods : (TakenOut(m)' <=> TakenOut(m)) /\ (Copied(m)' => Copied(m))
  BY <1>1, <1>2, ModsPositive DEF TakenOut, Copied
<1>5. \A u \in ModThreads : doing'[u].old = doing[u].old
  BY <1>1, <1>2
<1>6. /\ m_modules' \in [Ids -> Mods \cup {0}] /\ EntryFree'
      /\ \A i, j \in Ids : m_modules'[i] = m_modules'[j] /\ m_modules'[i] # 0 => i = j
      /\ \A m \in Mods : /\ InMap(m)' <=> InMap(m) \/ (t = Loader /\ IsNew(m))
                         /\ IsNew(m)' <=> IsNew(m) /\ t # Loader
  <2>1. CASE t # Loader
    <3>1. m_modules' = m_modules /\ doing'[Loader] = doing[Loader]
      BY <1>1, <2>1, LoaderIsThread DEF Done
    <3> QED
      BY <1>0, <2>1, <3>1 DEF ModTypeOK, EntryFree, OnePlace, InMap, IsNew
  <2>2. CASE t = Loader
    <3> DEFINE n == doing[Loader].new
               e == IdOf[module[n].file]
    <3>1. m_modules' = [m_modules EXCEPT ![e] = n]
      BY <2>2 DEF Done
    <3>2. n \in Mods /\ n # 0
      BY <1>0, <2>2, LoaderIsThread DEF HandsFull, ModTypeOK, DoingRecord
    <3>3. m_modules[e] = 0
      BY <1>0, <2>2, <3>2 DEF EntryFree
    <3>4. ~InMap(n)
      BY <1>0, <3>2 DEF OnePlace, IsNew
    <3>5. e \in Ids
      <4>1. module[n].file \in Files
        BY <1>0, <3>2 DEF ModTypeOK, ModRecord, Unloads, Loaded, IsNew
      <4> QED
        BY <4>1 DEF Ids
    <3>6. \A m \in Mods : IsNew(m) <=> m = n
      BY DEF IsNew
    <3> HIDE DEF n, e
    <3>7. /\ m_modules' \in [Ids -> Mods \cup {0}] /\ m_modules'[e] = n
          /\ \A i \in Ids \ {e} : m_modules'[i] = m_modules[i]
      BY <1>0, <3>1, <3>2, <3>5 DEF ModTypeOK
    <3>8. EntryFree'
      BY <1>2, <2>2 DEF EntryFree
    <3>9. \A i, j \in Ids : m_modules'[i] = m_modules'[j] /\ m_modules'[i] # 0 => i = j
      BY <1>0, <3>4, <3>7 DEF OnePlace, InMap
    <3>10. \A m \in Mods : InMap(m)' <=> InMap(m) \/ m = n
      BY <3>3, <3>5, <3>7, ModsPositive DEF InMap
    <3>11. \A m \in Mods : ~IsNew(m)'
      BY <1>2, <2>2, ModsPositive DEF IsNew
    <3> QED
      BY <2>2, <3>6, <3>7, <3>8, <3>9, <3>10, <3>11
  <2> QED
    BY <2>1, <2>2
<1>7. \A m \in Mods : Loaded(m)' <=> Loaded(m)
  BY <1>4, <1>6 DEF Loaded
<1>8. AliveHeld' /\ HandlesHeld' /\ handles' \in [Files -> Int]
  BY <1>0, <1>3, <1>4, <1>7, Closes
<1>9. ModTypeOK' /\ Numbered'
  BY <1>0, <1>1, <1>6, <1>8 DEF ModTypeOK, Numbered
<1>10. OnePlace'
  <2>1. \A u, v \in ModThreads : doing'[u].old = doing'[v].old /\ doing'[u].old # 0 => u = v
    BY <1>0, <1>5 DEF OnePlace
  <2>2. \A m \in Mods : ~(InMap(m)' /\ TakenOut(m)') /\ ~(InMap(m)' /\ IsNew(m)')
                        /\ ~(TakenOut(m)' /\ IsNew(m)')
    BY <1>0, <1>4, <1>6 DEF OnePlace
  <2> QED
    BY <1>6, <2>1, <2>2 DEF OnePlace
<1>11. Unloads' /\ CopiesMade'
  BY <1>0, <1>4, <1>7 DEF Unloads, CopiesMade
<1> QED
  BY <1>3, <1>6, <1>8, <1>9, <1>10, <1>11 DEF ModInv

LEMMA ModulesIdle == ModInv /\ UNCHANGED modVars => ModInv'
<1> SUFFICES ASSUME ModInv, UNCHANGED <<m_modules, module, alive, handles, doing>> PROVE ModInv'
  BY DEF modVars
<1>1. (ModTypeOK /\ Numbered /\ HandsFull /\ EntryFree)'
  BY DEF ModInv, ModTypeOK, Numbered, HandsFull, EntryFree
<1>2. \A m \in Mods : /\ InMap(m)' <=> InMap(m)
                      /\ TakenOut(m)' <=> TakenOut(m)
                      /\ IsNew(m)' <=> IsNew(m)
                      /\ Copied(m)' <=> Copied(m)
  BY DEF InMap, TakenOut, IsNew, Copied
<1>3. (OnePlace /\ Unloads)'
  BY <1>2 DEF ModInv, OnePlace, Unloads, Loaded
<1>4. (CopiesMade /\ AliveHeld /\ HandlesHeld)'
  BY <1>2 DEF ModInv, CopiesMade, AliveHeld, HandlesHeld, Loaded
<1> QED
  BY <1>1, <1>3, <1>4 DEF ModInv

\* Every module is unloaded exactly once before it dies, and its library is open
\* as long as it lives (module.cpp:40-110, library.cpp:15-75), for any number of
\* threads that remove modules while others are loaded in their place.
THEOREM ModulesAlwaysRight == ModSpec => []ModulesRight
<1>1. ModInv /\ [ModNext]_modVars => ModInv'
  <2> SUFFICES ASSUME ModInv, [ModNext]_modVars PROVE ModInv'
    OBVIOUS
  <2>1. CASE \E f \in Files : GetModule(f)
    <3>1. PICK f \in Files : GetModule(f)
      BY <2>1
    <3>2. CASE Made(f)
      BY <3>1, <3>2, Makes DEF GetModule
    <3>3. CASE UNCHANGED modVars
      BY <3>3, ModulesIdle
    <3> QED
      BY <3>1, <3>2, <3>3 DEF GetModule, modVars
  <2>2. CASE \E r \in Removers : RemoveModule(r)
    BY <2>2, Copies
  <2>3. CASE \E t \in ModThreads : del(t) \/ onUnload(t) \/ Done(t)
    BY <2>3, Deletes, Unloading, Returns
  <2>4. CASE UNCHANGED modVars
    BY <2>4, ModulesIdle
  <2> QED
    BY <2>1, <2>2, <2>3, <2>4 DEF ModNext
<1>2. ModInv => ModulesRight
  <2> SUFFICES ASSUME ModInv PROVE ModulesRight
    OBVIOUS
  <2>0. \A m \in Mods : module[m].unloads \in {0, 1}
    BY Zenon DEF ModInv, Unloads
  <2>1. \A m \in Mods : module[m].unloads <= 1
    BY <2>0
  <2>2. \A m \in Mods : module[m].file # NoFile /\ m \notin alive => module[m].unloads = 1
    BY DEF ModInv, Unloads, AliveHeld
  <2> QED
    BY <2>1, <2>2 DEF ModInv, ModulesRight, UnloadedOnce, Mods
<1> QED
  BY ModulesStart, <1>1, <1>2, PTL DEF ModSpec
=============================================================================
