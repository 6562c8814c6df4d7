-------------------------- MODULE IOManagerProofs --------------------------
(***************************************************************************)
(* Proofs about IOManager, for any number of threads, items and delays: no *)
(* timer is slept through, stop() drains the queue, and with the caller as *)
(* the only thread it leaves no task, timer or event behind.               *)
(***************************************************************************)
EXTENDS IOManagerInvariant

-----------------------------------------------------------------------------
(* The counters.                                                           *)

\* A count n of S goes to a count m of T with the element that came or went.
Follows(S, T, n, m) ==
    \/ T = S /\ m = n
    \/ \E x \in T : x \notin S /\ T = S \union {x} /\ m = n + 1
    \/ \E x \in S : T = S \ {x} /\ m = n - 1


\* A thread that moves keeps the two thread counters in step with the threads.
LEMMA MoveCounts ==
  ASSUME NEW t \in Run, Moves(t)
  PROVE  /\ Follows(Working, Working', m_activeThreadCount, m_activeThreadCount')
         /\ Follows(Idling, Idling', m_idleThreadCount, m_idleThreadCount')
  <1>1. Arc(pc[t], pc'[t]) /\ \A u \in Run : u # t => pc'[u] = pc[u]
    BY Threads DEF Moves
  <1>2. CASE pc'[t] = "work"
    <2>1. t \in Working' /\ t \notin Working /\ Working' = Working \union {t}
      BY <1>1, <1>2 DEF Working, Arc
    <2>2. Idling' = Idling
      BY <1>1, <1>2 DEF Idling, Arc
    <2> QED
      BY <1>1, <1>2, <2>1, <2>2 DEF Follows, Moves, Arc
  <1>3. CASE pc[t] = "work"
    <2>1. t \in Working /\ Working' = Working \ {t}
      BY <1>1, <1>3 DEF Working, Arc
    <2>2. Idling' = Idling
      BY <1>1, <1>3 DEF Idling, Arc
    <2> QED
      BY <1>1, <1>3, <2>1, <2>2 DEF Follows, Moves, Arc
  <1>4. CASE pc[t] = "enter"
    <2>1. t \in Idling' /\ t \notin Idling /\ Idling' = Idling \union {t}
      BY <1>1, <1>4 DEF Idling, Arc
    <2>2. Working' = Working
      BY <1>1, <1>4 DEF Working, Arc
    <2> QED
      BY <1>1, <1>4, <2>1, <2>2 DEF Follows, Moves, Arc
  <1>5. CASE pc[t] = "yield"
    <2>1. t \in Idling /\ Idling' = Idling \ {t}
      BY <1>1, <1>5 DEF Idling, Arc
    <2>2. Working' = Working
      BY <1>1, <1>5 DEF Working, Arc
    <2> QED
      BY <1>1, <1>5, <2>1, <2>2 DEF Follows, Moves, Arc
  <1>6. CASE pc'[t] # "work" /\ pc[t] \notin {"work", "enter", "yield"}
    <2>1. Working' = Working
      BY <1>1, <1>6 DEF Working, Arc
    <2>2. Idling' = Idling
      BY <1>1, <1>6 DEF Idling, Arc
    <2> QED
      BY <1>6, <2>1, <2>2 DEF Follows, Moves
  <1> QED
    BY <1>2, <1>3, <1>4, <1>5, <1>6


\* What every step does to the two thread counters.
ThreadsFollow ==
    /\ Follows(Working, Working', m_activeThreadCount, m_activeThreadCount')
    /\ Follows(Idling, Idling', m_idleThreadCount, m_idleThreadCount')

\* m_activeThreadCount and m_idleThreadCount follow the threads that run a task and those in
\* the idle fiber (run()).
LEMMA ThreadCounts ==
  ASSUME TypeOK, [Next]_vars
  PROVE  ThreadsFollow
  <1>1. ASSUME NEW a \in Agents, NEW w \in Items, Submits(a, w) PROVE ThreadsFollow
    BY <1>1, SubmitMoves DEF ThreadsFollow, Follows, Working, Idling
  <1>2. ASSUME NEW t \in Run, Works(t) PROVE ThreadsFollow
    BY <1>2, WorkMoves, MoveCounts DEF ThreadsFollow
  <1>3. ASSUME NEW t \in Run, Idles(t) PROVE ThreadsFollow
    BY <1>3, IdleMoves, MoveCounts DEF ThreadsFollow
  <1>4. CASE Stops
    <2>1. Working' = Working /\ Idling' = Idling
      BY <1>4, StopMoves, Threads DEF Working, Idling
    <2> QED
      BY <1>4, <2>1, StopMoves DEF ThreadsFollow, Follows
  <1>5. CASE Aside
    BY <1>5, AsideMoves DEF ThreadsFollow, Follows, Working, Idling
  <1> QED
    BY <1>1, <1>2, <1>3, <1>4, <1>5, Kinds


\* The pending count follows the events that are registered and those that were
\* triggered and are still counted.
EventsFollow ==
    \/ Awaited' = Awaited /\ Unpending' = Unpending /\ m_pendingEventCount' = m_pendingEventCount
    \/ \E w \in Items : /\ w \notin Awaited /\ Awaited' = Awaited \union {w}
                        /\ Unpending' = Unpending
                        /\ m_pendingEventCount' = m_pendingEventCount + 1
    \/ \E w \in Awaited, t \in Run \ Unpending :
          /\ Awaited' = Awaited \ {w} /\ Unpending' = Unpending \union {t}
          /\ m_pendingEventCount' = m_pendingEventCount
    \/ \E t \in Unpending : /\ Awaited' = Awaited /\ Unpending' = Unpending \ {t}
                            /\ m_pendingEventCount' = m_pendingEventCount - 1

\* m_pendingEventCount follows addEvent and triggerEvent.
LEMMA PendingFollows ==
  ASSUME TypeOK, Flow, Single, [Next]_vars
  PROVE  EventsFollow
  <1>1. ASSUME NEW a \in Agents, NEW w \in Items, Submits(a, w) PROVE EventsFollow
    <2>1. Unpending' = Unpending /\ where[w] = "new"
      BY <1>1, SubmitMoves DEF Unpending
    <2>2. CASE SubmitTask(a, w)
      BY <2>1, <2>2 DEF SubmitTask, scheduler, EventsFollow, Awaited, TypeOK, eventVars
    <2>3. CASE SubmitEvent(a, w)
      <3>1. w \notin Awaited /\ Awaited' = Awaited \union {w}
        BY <2>1, <2>3 DEF SubmitEvent, addEvent, Awaited, TypeOK
      <3> QED
        BY <2>1, <2>3, <3>1 DEF SubmitEvent, addEvent, EventsFollow
    <2>4. CASE \E ms \in Delays : SubmitTimer(a, w, ms)
      BY <2>1, <2>4 DEF SubmitTimer, addTimer, EventsFollow, Awaited, TypeOK, eventVars
    <2> QED
      BY <1>1, <2>2, <2>3, <2>4 DEF Submits
  <1>2. ASSUME NEW t \in Run, Works(t) PROVE EventsFollow
    <2>1. CASE Take(t)
      <3>1. Head(m_fibers) \in Items /\ where[Head(m_fibers)] = "queue"
        BY <2>1 DEF Take, Single, QueueOnce, TypeOK
      <3> QED
        BY <2>1, <3>1, Threads DEF Take, Goto, At, EventsFollow, Awaited, Unpending, TypeOK,
           eventVars
    <2>2. CASE Done(t)
      <3>1. held[t] \in Items /\ where[held[t]] = "held"
        BY <2>2 DEF Done, Goto, At, Single, HandOnce
      <3> QED
        BY <2>2, <3>1, Threads DEF Done, Goto, At, EventsFollow, Awaited, Unpending, TypeOK,
           eventVars
    <2>3. CASE listExpiredCb(t)
      <3>1. Awaited' = Awaited
        BY <2>3 DEF listExpiredCb, Awaited, m_timers, TypeOK
      <3>2. Unpending' = Unpending /\ m_pendingEventCount' = m_pendingEventCount
        BY <2>3, Threads DEF listExpiredCb, Goto, At, Unpending, TypeOK, eventVars
      <3> QED
        BY <3>1, <3>2 DEF EventsFollow
    <2>4. CASE ScheduleCb(t)
      <3>1. Awaited' = Awaited
        BY <2>4 DEF ScheduleCb, scheduler, Awaited, Single, CbsOnce, TypeOK
      <3>2. Unpending' = Unpending /\ m_pendingEventCount' = m_pendingEventCount
        BY <2>4, Threads DEF ScheduleCb, Goto, At, Unpending, TypeOK, eventVars
      <3> QED
        BY <3>1, <3>2 DEF EventsFollow
    <2>5. CASE HandleEvent(t)
      <3>1. pc[t] = "events" /\ m_pendingEventCount' = m_pendingEventCount
        BY <2>5 DEF HandleEvent, At, eventVars
      <3>2. CASE UNCHANGED <<pc, where>>
        BY <3>1, <3>2 DEF EventsFollow, Awaited, Unpending
      <3>3. ASSUME NEW w \in events[t], w # NoItem, where[w] = "event", scheduler(t, w),
                   pc' = [pc EXCEPT ![t] = "unpend"]
            PROVE  EventsFollow
        <4>1. w \in Awaited /\ Awaited' = Awaited \ {w}
          BY <3>3 DEF TypeOK, scheduler, Awaited
        <4>2. t \in Run \ Unpending /\ Unpending' = Unpending \union {t}
          BY <3>1, <3>3, Threads DEF TypeOK, Unpending
        <4> QED
          BY <3>1, <4>1, <4>2 DEF EventsFollow
      <3> QED
        BY <2>5, <3>2, <3>3 DEF HandleEvent
    <2> QED
      BY <1>2, <2>1, <2>2, <2>3, <2>4, <2>5 DEF Works
  <1>3. ASSUME NEW t \in Run, Idles(t) PROVE EventsFollow
    <2>1. Awaited' = Awaited
      BY <1>3, IdleMoves DEF Awaited
    <2>2. CASE pc[t] = "unpend"
      <3>1. t \in Unpending /\ Unpending' = Unpending \ {t}
        BY <1>3, <2>2, IdleMoves, Threads DEF Unpending, Moves
      <3> QED
        BY <1>3, <2>1, <2>2, <3>1, IdleMoves DEF EventsFollow
    <2>3. CASE pc[t] # "unpend"
      <3>1. Unpending' = Unpending
        BY <1>3, <2>3, IdleMoves, Threads DEF Unpending, Moves
      <3> QED
        BY <1>3, <2>1, <2>3, <3>1, IdleMoves DEF EventsFollow
    <2> QED
      BY <2>2, <2>3
  <1>4. CASE Stops
    <2>1. Awaited' = Awaited /\ Unpending' = Unpending
      BY <1>4, StopMoves, Threads DEF Awaited, Unpending
    <2> QED
      BY <1>4, <2>1, StopMoves DEF EventsFollow
  <1>5. CASE Aside
    BY <1>5, AsideMoves DEF EventsFollow, Awaited, Unpending
  <1> QED
    BY <1>1, <1>2, <1>3, <1>4, <1>5, Kinds


\* epoll_wait is given an end that the clock reaches.
LEMMA SleepEnds ==
  ASSUME TypeOK, NEW t \in Run, NEW n \in Nat, Sleep(t, n)
  PROVE  /\ wakeAt' \in [Run -> 0..MaxTime]
         /\ wakeAt'[t] <= now + n
         /\ \A u \in Run : u # t => wakeAt'[u] = wakeAt[u]
  <1> DEFINE e == Min(now + Min(n, MAX_TIMEOUT), MaxTime)
  <1>1. e \in 0..MaxTime /\ e <= now + n
    BY IOManagerAssumption DEF Min, TypeOK
  <1>2. wakeAt' = [wakeAt EXCEPT ![t] = e]
    BY DEF Sleep
  <1> QED
    BY <1>1, <1>2 DEF TypeOK

\* scheduler() appends an item.
LEMMA SchedulerTyped ==
  ASSUME TypeOK, NEW t \in Run, NEW w \in Items, scheduler(t, w)
  PROVE  /\ m_fibers' \in Seq(Items) /\ tickling' \subseteq Agents
         /\ where' \in [Items -> {"new", "timer", "event", "queue", "cbs", "held", "done"}]
  <1>1. m_fibers' \in Seq(Items)
    BY DEF scheduler, TypeOK
  <1>2. tickling' \subseteq Agents
    BY Threads DEF scheduler, TypeOK
  <1>3. where' \in [Items -> {"new", "timer", "event", "queue", "cbs", "held", "done"}]
    BY DEF scheduler, TypeOK
  <1> QED
    BY <1>1, <1>2, <1>3

\* Every variable keeps its domain, once the counters do.
LEMMA TypesKept ==
  ASSUME TypeOK, Flow, Cardinality(Run) \in Nat,
         m_activeThreadCount' \in Nat, m_idleThreadCount' \in Nat,
            m_pendingEventCount' \in Nat, [Next]_vars
  PROVE  TypeOK'
  <1>1. ASSUME NEW a \in Agents, NEW w \in Items, Submits(a, w) PROVE TypeOK'
    <2>1. CASE SubmitTask(a, w)
      BY <2>1 DEF SubmitTask, scheduler, TypeOK, idleVars, timerVars, eventVars, stopVars
    <2>2. CASE SubmitEvent(a, w)
      BY <2>2 DEF SubmitEvent, addEvent, TypeOK, loopVars, idleVars, timerVars, stopVars
    <2>3. CASE \E ms \in Delays : SubmitTimer(a, w, ms)
      <3>1. PICK ms \in Delays : SubmitTimer(a, w, ms)
        BY <2>3
      <3>2. now + ms \in 0..MaxTime
        BY <3>1, IOManagerAssumption DEF SubmitTimer, TypeOK
      <3>3. /\ where' \in [Items -> {"new", "timer", "event", "queue", "cbs", "held", "done"}]
            /\ m_next' \in [Items -> 0..MaxTime] /\ m_tickled' \in BOOLEAN
            /\ tickling' \subseteq Agents
        BY <3>1, <3>2 DEF SubmitTimer, addTimer, TypeOK
      <3> QED
        BY <3>1, <3>3 DEF SubmitTimer, TypeOK, loopVars, idleVars, eventVars, stopVars
    <2> QED
      BY <1>1, <2>1, <2>2, <2>3 DEF Submits
  <1>2. ASSUME NEW t \in Run, Works(t) PROVE TypeOK'
    <2>1. CASE Take(t)
      <3>1. Head(m_fibers) \in Items /\ Tail(m_fibers) \in Seq(Items)
        BY <2>1 DEF Take, TypeOK
      <3> QED
        BY <2>1, <3>1, Threads DEF Take, Goto, At, TypeOK, idleVars, timerVars, eventVars,
           stopVars
    <2>2. CASE Done(t)
      BY <2>2, Threads DEF Done, Goto, At, TypeOK, m_timers, loopVars, idleVars, timerVars,
         eventVars, stopVars
    <2>3. CASE listExpiredCb(t)
      <3>1. /\ where' \in [Items -> {"new", "timer", "event", "queue", "cbs", "held", "done"}]
            /\ cbs' \in [Run -> SUBSET Items]
        BY <2>3 DEF listExpiredCb, TypeOK, m_timers
      <3>2. pc' \in [Agents -> PCs]
        BY <2>3, Threads DEF listExpiredCb, Goto, TypeOK, PCs
      <3>9. UNCHANGED <<tickling, now, pipeReady, m_fibers, held, wakeAt, events, idleTerm, m_next,
                      m_tickled, ready, m_stopping, stopTickles>>
        BY <2>3 DEF listExpiredCb, idleVars, timerVars, eventVars, stopVars
      <3> QED
        BY <3>1, <3>2, <3>9 DEF TypeOK, PCs
    <2>4. CASE ScheduleCb(t)
      <3>1. /\ m_fibers' \in Seq(Items) /\ tickling' \subseteq Agents
            /\ where' \in [Items -> {"new", "timer", "event", "queue", "cbs", "held", "done"}]
            /\ cbs' \in [Run -> SUBSET Items]
        <4>1. CASE UNCHANGED <<tickling, where, m_fibers, cbs>>
          BY <4>1 DEF TypeOK
        <4>2. ASSUME NEW w \in cbs[t], scheduler(t, w), cbs' = [cbs EXCEPT ![t] = @ \ {w}]
              PROVE  /\ m_fibers' \in Seq(Items) /\ tickling' \subseteq Agents
                     /\ where' \in [Items -> {"new", "timer", "event", "queue", "cbs", "held",
                        "done"}]
                     /\ cbs' \in [Run -> SUBSET Items]
          <5>1. w \in Items
            BY <4>2 DEF TypeOK
          <5> QED
            BY <4>2, <5>1, SchedulerTyped DEF TypeOK
        <4> QED
          BY <2>4, <4>1, <4>2 DEF ScheduleCb
      <3>2. pc' \in [Agents -> PCs]
        BY <2>4, Threads DEF ScheduleCb, Goto, TypeOK, PCs
      <3>9. UNCHANGED <<now, pipeReady, held, wakeAt, events, idleTerm, m_next, m_tickled, ready,
                      m_stopping, stopTickles>>
        BY <2>4 DEF ScheduleCb, idleVars, timerVars, eventVars, stopVars
      <3> QED
        BY <3>1, <3>2, <3>9 DEF TypeOK, PCs
    <2>5. CASE HandleEvent(t)
      <3>1. /\ m_fibers' \in Seq(Items) /\ tickling' \subseteq Agents
            /\ where' \in [Items -> {"new", "timer", "event", "queue", "cbs", "held", "done"}]
        <4>1. CASE UNCHANGED <<tickling, where, m_fibers>>
          BY <4>1 DEF TypeOK
        <4>2. ASSUME NEW w \in events[t], w # NoItem, scheduler(t, w)
              PROVE  /\ m_fibers' \in Seq(Items) /\ tickling' \subseteq Agents
                     /\ where' \in [Items -> {"new", "timer", "event", "queue", "cbs", "held",
                        "done"}]
          <5>1. w \in Items
            BY <4>2 DEF TypeOK
          <5> QED
            BY <4>2, <5>1, SchedulerTyped
        <4> QED
          BY <2>5, <4>1, <4>2 DEF HandleEvent
      <3>2. pc' \in [Agents -> PCs]
        BY <2>5, Threads DEF HandleEvent, TypeOK, PCs
      <3>3. events' \in [Run -> SUBSET (Items \union {NoItem})] /\ pipeReady' \in BOOLEAN
        BY <2>5 DEF HandleEvent, TypeOK
      <3>9. UNCHANGED <<now, held, cbs, wakeAt, idleTerm, m_next, m_tickled, ready, m_stopping,
                      stopTickles>>
        BY <2>5 DEF HandleEvent, timerVars, eventVars, stopVars
      <3> QED
        BY <3>1, <3>2, <3>3, <3>9 DEF TypeOK, PCs
    <2> QED
      BY <1>2, <2>1, <2>2, <2>3, <2>4, <2>5 DEF Works
  <1>3. ASSUME NEW t \in Run, Idles(t) PROVE TypeOK'
    <2>1. CASE NoTaskFound(t)
      BY <2>1, Threads DEF NoTaskFound, Goto, At, TypeOK, m_timers, loopVars, idleVars,
         timerVars, eventVars, stopVars
    <2>2. CASE EnterIdle(t)
      BY <2>2, Threads DEF EnterIdle, Goto, At, TypeOK, m_timers, loopVars, idleVars,
         timerVars, eventVars, stopVars
    <2>3. CASE getNextTimer(t)
      <3>1. wakeAt' \in [Run -> 0..MaxTime]
        <4>1. ASSUME NEW w \in m_timers, Sleep(t,
           IF now >= m_next[w] THEN 0 ELSE m_next[w] - now)
              PROVE  wakeAt' \in [Run -> 0..MaxTime]
          <5>1. (IF now >= m_next[w] THEN 0 ELSE m_next[w] - now) \in Nat
            BY IOManagerAssumption DEF TypeOK, m_timers
          <5> QED
            BY <4>1, <5>1, SleepEnds
        <4> QED
          BY <2>3, <4>1 DEF getNextTimer, TypeOK
      <3>2. pc' \in [Agents -> PCs]
        BY <2>3, Threads DEF getNextTimer, Goto, TypeOK, PCs
      <3>3. m_tickled' \in BOOLEAN
        BY <2>3 DEF getNextTimer
      <3>9. UNCHANGED <<tickling, where, now, pipeReady, m_next, m_fibers, held, cbs, idleTerm, events,
                      ready, m_stopping, stopTickles>>
        BY <2>3 DEF getNextTimer, loopVars, eventVars, stopVars
      <3> QED
        BY <3>1, <3>2, <3>3, <3>9 DEF TypeOK, PCs
    <2>4. CASE PendingCheck(t)
      <3>1. wakeAt' \in [Run -> 0..MaxTime]
        BY <2>4, SleepEnds, IOManagerAssumption DEF PendingCheck, TypeOK
      <3>2. pc' \in [Agents -> PCs]
        BY <2>4, Threads DEF PendingCheck, Goto, TypeOK, PCs
      <3>9. UNCHANGED <<tickling, where, now, pipeReady, m_next, m_tickled, m_fibers, held, cbs, idleTerm,
                      events, ready, m_stopping, stopTickles>>
        BY <2>4 DEF PendingCheck, loopVars, timerVars, eventVars, stopVars
      <3> QED
        BY <3>1, <3>2, <3>9 DEF TypeOK, PCs
    <2>5. CASE StoppingCheck(t)
      <3>1. wakeAt' \in [Run -> 0..MaxTime]
        BY <2>5, SleepEnds, IOManagerAssumption DEF StoppingCheck, TypeOK
      <3>2. pc' \in [Agents -> PCs]
        BY <2>5, Threads DEF StoppingCheck, Goto, TypeOK, PCs
      <3>3. idleTerm' \subseteq Run
        BY <2>5 DEF StoppingCheck, TypeOK
      <3>9. UNCHANGED <<tickling, where, now, pipeReady, m_next, m_tickled, m_fibers, held, cbs, events,
                      ready, m_stopping, stopTickles>>
        BY <2>5 DEF StoppingCheck, loopVars, timerVars, eventVars, stopVars
      <3> QED
        BY <3>1, <3>2, <3>3, <3>9 DEF TypeOK, PCs
    <2>6. CASE epoll_wait(t)
      BY <2>6, Threads DEF epoll_wait, Goto, At, TypeOK, m_timers, loopVars, idleVars,
         timerVars, eventVars, stopVars
    <2>7. CASE Unpend(t)
      BY <2>7, Threads DEF Unpend, Goto, At, TypeOK, m_timers, loopVars, idleVars, timerVars,
         eventVars, stopVars
    <2>8. CASE EventsDone(t)
      BY <2>8, Threads DEF EventsDone, Goto, At, TypeOK, m_timers, loopVars, idleVars,
         timerVars, eventVars, stopVars
    <2>9. CASE LeaveIdle(t)
      BY <2>9, Threads DEF LeaveIdle, Goto, At, TypeOK, m_timers, loopVars, idleVars,
         timerVars, eventVars, stopVars
    <2> QED
      BY <1>3, <2>1, <2>2, <2>3, <2>4, <2>5, <2>6, <2>7, <2>8, <2>9 DEF Idles
  <1>4. CASE Stops
    <2>1. CASE stop
      <3>1. stopTickles' \in Nat
        BY <2>1 DEF stop
      <3> QED
        BY <2>1, <3>1, Threads DEF stop, Goto, TypeOK, loopVars, idleVars, eventVars
    <2>2. CASE stopResume \/ stopJoin
      BY <2>2, Threads DEF stopResume, stopJoin, Goto, TypeOK, loopVars, idleVars, timerVars,
         eventVars, stopVars
    <2> QED
      BY <1>4, <2>1, <2>2 DEF Stops
  <1>5. CASE Aside
    <2>1. /\ tickling' \subseteq Agents /\ stopTickles' \in Nat /\ now' \in 0..MaxTime
          /\ ready' \subseteq Items /\ pipeReady' \in BOOLEAN
      <3>1. CASE (\E a \in Agents : tickle(a)) \/ (\E w \in Items : Arrive(w))
        BY <3>1 DEF tickle, Arrive, TypeOK, eventVars, stopVars
      <3>2. CASE stopTickle \/ UNCHANGED vars
        <4>1. CASE stopTickle
          BY <4>1, Threads DEF stopTickle, TypeOK, eventVars
        <4>2. CASE UNCHANGED vars
          BY <4>2 DEF TypeOK, vars, eventVars, stopVars
        <4> QED
          BY <3>2, <4>1, <4>2
      <3>3. CASE Tick
        BY <3>3, IOManagerAssumption DEF Tick, TypeOK, eventVars, stopVars
      <3> QED
        BY <1>5, <3>1, <3>2, <3>3 DEF Aside
    <2> QED
      BY <1>5, <2>1, AsideMoves DEF TypeOK
  <1> QED
    BY <1>1, <1>2, <1>3, <1>4, <1>5, Kinds


\* A thread that will look again is enough.
LEMMA Rouses ==
  ASSUME NEW t \in Run, t \notin idleTerm',
         pc'[t] \in {"scan", "work", "enter", "next", "expire", "cbs", "events", "unpend",
            "yield"}
  PROVE  TimersTold'
  BY DEF TimersTold, Told, Looking

\* A step that adds no timer and lets nobody who was told sleep.
LEMMA StaysTold ==
  ASSUME TypeOK, TimersTold, Waiting' # {} => Waiting # {}, Told => Told',
         \A w \in m_timers' : w \in m_timers /\ m_next'[w] = m_next[w],
         m_tickled' => m_tickled, now' = now,
         \A u \in Asleep : u \in Asleep' /\ wakeAt'[u] = wakeAt[u]
  PROVE  TimersTold'
  <1>1. ASSUME NEW w \in m_timers', Covered(w) PROVE Covered(w)'
    BY <1>1 DEF Covered
  <1> QED
    BY <1>1 DEF TimersTold

\* tickle() writes to the pipe unless no thread is idle, and then none sleeps.
LEMMA TickleTells ==
  ASSUME TypeOK, TimersTold, m_idleThreadCount = 0 => Idling = {}, NEW a, tickle(a)
  PROVE  TimersTold'
  <1>1. CASE m_idleThreadCount > 0
    BY <1>1 DEF tickle, TimersTold, Told
  <1>2. CASE m_idleThreadCount = 0
    <2>1. Waiting' = {}
      BY <1>2 DEF tickle, Waiting, Idling
    <2> QED
      BY <2>1 DEF TimersTold
  <1> QED
    BY <1>1, <1>2 DEF TypeOK


\* A thread whose idle fiber has ended neither waits nor looks.
LEMMA EndedTells ==
  ASSUME TypeOK, Flow, TimersTold, NEW t \in idleTerm, Moves(t), tickling \subseteq tickling',
         UNCHANGED <<now, pipeReady, m_next, m_tickled, wakeAt>>, m_timers' = m_timers
  PROVE  TimersTold'
  <1>1. t \in Run /\ pc[t] \in {"yield", "scan", "work", "exited", "stopped"}
    BY DEF TypeOK, Flow, Over
  <1>2. pc'[t] \in {"scan", "work", "exited"} /\ idleTerm' = idleTerm
    BY <1>1 DEF Moves, Arc
  <1>3. \A u \in Run : u # t => pc'[u] = pc[u]
    BY Threads DEF Moves
  <1>4. Waiting' = Waiting /\ Asleep' = Asleep /\ Looking' = Looking
    BY <1>1, <1>2, <1>3 DEF Waiting, Asleep, Looking
  <1>5. Told => Told'
    BY <1>4 DEF Told
  <1> QED
    BY <1>4, <1>5, StaysTold

\* A step that leaves its thread in a place from where it looks again.
LEMMA MoverLooks ==
  ASSUME TypeOK, Flow, TimersTold, NEW t \in Run \ idleTerm, Moves(t),
         pc'[t] \notin {"pending", "stopping", "poll", "exited"}, idleTerm' = idleTerm
  PROVE  TimersTold'
  BY Rouses DEF Moves, Arc

\* TimersTold is kept: whoever wakes up looks again before it sleeps, and a new first
\* timer is told unless that was done before and nobody has looked since.
LEMMA ToldKept ==
  ASSUME TypeOK, Flow, Single, TimersTold, m_idleThreadCount = 0 => Idling = {}, [Next]_vars
  PROVE  TimersTold'
  <1>1. ASSUME NEW a \in Agents, NEW w \in Items, Submits(a, w) PROVE TimersTold'
    <2>1. CASE SubmitTask(a, w)
      <3>1. /\ UNCHANGED <<pc, now, pipeReady, m_next, m_tickled, wakeAt, idleTerm>>
            /\ m_timers' = m_timers /\ tickling \subseteq tickling'
        BY <2>1 DEF SubmitTask, CanSubmit, scheduler, idleVars, timerVars, m_timers, TypeOK
      <3> QED
        BY <3>1, StaysTold DEF Waiting, Asleep, Looking, Told
    <2>2. CASE SubmitEvent(a, w)
      <3>1. /\ UNCHANGED <<pc, tickling, now, pipeReady, m_next, m_tickled, wakeAt, idleTerm>>
            /\ m_timers' = m_timers
        BY <2>2 DEF SubmitEvent, CanSubmit, addEvent, idleVars, timerVars, m_timers, TypeOK
      <3> QED
        BY <3>1, StaysTold DEF Waiting, Asleep, Looking, Told
    <2>3. CASE \E ms \in Delays : SubmitTimer(a, w, ms)
      <3>1. PICK ms \in Delays, first \in BOOLEAN :
              /\ (\A v \in m_timers : now + ms < m_next[v]) => first
              /\ where' = [where EXCEPT ![w] = "timer"]
              /\ m_next' = [m_next EXCEPT ![w] = now + ms]
              /\ m_tickled' = (m_tickled \/ first)
              /\ tickling' = IF first /\ ~m_tickled THEN tickling \union {a} ELSE tickling
        BY <2>3 DEF SubmitTimer, addTimer
      <3>2. where[w] = "new" /\ UNCHANGED <<pc, now, pipeReady, wakeAt, idleTerm>>
        BY <2>3 DEF SubmitTimer, CanSubmit, idleVars
      <3>3. Looking' = Looking /\ Waiting' = Waiting /\ Asleep' = Asleep
        BY <3>2 DEF Looking, Waiting, Asleep
      <3>4. CASE Told
        BY <3>1, <3>2, <3>3, <3>4 DEF Told, TimersTold
      <3>5. CASE ~Told /\ first /\ ~m_tickled
        BY <3>1, <3>5 DEF Told, TimersTold
      <3>6. CASE ~Told /\ m_tickled
        BY <3>3, <3>6 DEF TimersTold
      <3>7. CASE ~Told /\ ~m_tickled /\ ~first
        <4> SUFFICES ASSUME Waiting # {} PROVE \A v \in m_timers' : Covered(v)'
          BY <3>1, <3>3, <3>7 DEF TimersTold
        <4>1. \A v \in m_timers : Covered(v)
          BY <3>7 DEF TimersTold
        <4>2. PICK x \in m_timers : ~(now + ms < m_next[x])
          BY <3>1, <3>7
        <4>3. x \in Items /\ m_next[x] \in Nat /\ now + ms \in Nat /\ m_next[x] <= now + ms
          BY <4>2, IOManagerAssumption DEF m_timers, TypeOK
        <4>4. \A u \in Asleep : u \in Run /\ wakeAt[u] \in Nat
          BY DEF Asleep, TypeOK
        <4>5. ASSUME NEW v \in m_timers' PROVE Covered(v)'
          <5>1. CASE v = w
            <6>1. PICK u \in Asleep : wakeAt[u] <= m_next[x] \/ wakeAt[u] <= now
              BY <4>1 DEF Covered
            <6>2. m_next'[w] = now + ms
              BY <3>1 DEF TypeOK
            <6>3. wakeAt[u] <= m_next'[w] \/ wakeAt[u] <= now
              BY <6>1, <6>2, <4>3, <4>4 DEF TypeOK
            <6> QED
              BY <5>1, <6>3, <3>2, <3>3 DEF Covered
          <5>2. CASE v # w
            <6>1. v \in m_timers /\ m_next'[v] = m_next[v]
              BY <3>1, <5>2 DEF m_timers, TypeOK
            <6> QED
              BY <6>1, <4>1, <3>2, <3>3 DEF Covered
          <5> QED
            BY <5>1, <5>2
        <4> QED
          BY <4>5
      <3> QED
        BY <3>4, <3>5, <3>6, <3>7 DEF TypeOK
    <2> QED
      BY <1>1, <2>1, <2>2, <2>3 DEF Submits
  <1>2. ASSUME NEW t \in Run, Works(t) PROVE TimersTold'
    <2>1. Moves(t) /\ idleTerm' = idleTerm /\ pc'[t] \notin {"exited", "pending", "stopping",
       "poll"}
      BY <1>2, WorkMoves
    <2>2. CASE t \notin idleTerm
      BY <2>1, <2>2, MoverLooks
    <2>3. CASE t \in idleTerm
      <3>1. Take(t) \/ Done(t)
        BY <1>2, <2>3 DEF Works, listExpiredCb, ScheduleCb, HandleEvent, Goto, At, Flow, Over
      <3>3. CASE Take(t)
        <4>1. Head(m_fibers) \in Items /\ where[Head(m_fibers)] = "queue"
          <5>1. m_fibers \in Seq(Items) /\ m_fibers # <<>>
            BY <3>3 DEF Take, TypeOK
          <5>2. Head(m_fibers) = m_fibers[1] /\ 1 \in 1..Len(m_fibers) /\ m_fibers[1] \in Items
            BY <5>1
          <5> QED
            BY <5>2 DEF Single, QueueOnce
        <4>2. m_timers' = m_timers
          BY <3>3, <4>1 DEF Take, m_timers, TypeOK
        <4> QED
          BY <2>1, <2>3, <3>3, <4>2, EndedTells DEF Take, idleVars, timerVars
      <3>4. CASE Done(t)
        <4>1. held[t] \in Items /\ where[held[t]] = "held"
          BY <1>2, <3>4 DEF Done, Goto, At, Single, HandOnce
        <4>2. m_timers' = m_timers
          BY <3>4, <4>1 DEF Done, m_timers, TypeOK
        <4> QED
          BY <2>1, <2>3, <3>4, <4>2, EndedTells DEF Done, idleVars, timerVars
      <3> QED
        BY <3>1, <3>3, <3>4
    <2> QED
      BY <2>2, <2>3
  <1>3. ASSUME NEW t \in Run, Idles(t) PROVE TimersTold'
    <2>0. Moves(t)
      BY <1>3, IdleMoves
    <2>1. CASE NoTaskFound(t)
      <3>1. /\ UNCHANGED <<tickling, now, pipeReady, m_next, m_tickled, wakeAt, idleTerm>>
            /\ m_timers' = m_timers
        BY <2>1 DEF NoTaskFound, idleVars, timerVars, m_timers
      <3>2. CASE t \in idleTerm
        BY <2>0, <3>1, <3>2, EndedTells
      <3>3. CASE t \notin idleTerm
        <4>1. pc'[t] \notin {"pending", "stopping", "poll", "exited"}
          BY <2>1, <3>3, Threads DEF NoTaskFound, Goto, TypeOK
        <4> QED
          BY <2>0, <3>1, <3>3, <4>1, MoverLooks
      <3> QED
        BY <3>2, <3>3
    <2>2. CASE EnterIdle(t)
      <3>1. Moves(t) /\ idleTerm' = idleTerm /\ pc'[t] \notin {"pending", "stopping", "poll",
         "exited"}
        BY <2>2, <2>0, Threads DEF EnterIdle, Goto, TypeOK, idleVars
      <3>2. t \notin idleTerm
        BY <2>2 DEF EnterIdle, Goto, At, Flow, Over
      <3> QED
        BY <3>1, <3>2, MoverLooks
    <2>3. CASE getNextTimer(t)
      <3>1. m_tickled' = FALSE /\ UNCHANGED <<where, m_next, now>> /\ m_timers' = m_timers
        BY <2>3 DEF getNextTimer, m_timers
      <3>2. CASE m_timers = {}
        BY <3>1, <3>2 DEF TimersTold
      <3>3. ASSUME NEW w \in m_timers, \A v \in m_timers : m_next[w] <= m_next[v],
                   pc' = [pc EXCEPT ![t] = "poll"],
                   Sleep(t, IF now >= m_next[w] THEN 0 ELSE m_next[w] - now)
            PROVE  TimersTold'
        <4>1. t \in Asleep'
          BY <3>3, Threads DEF Asleep, TypeOK
        <4>2. now \in Nat /\ m_next[w] \in Nat /\ \A v \in m_timers : m_next[v] \in Nat
          BY IOManagerAssumption DEF TypeOK, m_timers
        <4>3. wakeAt'[t] \in Nat /\ (wakeAt'[t] <= m_next[w] \/ wakeAt'[t] <= now)
          <5>1. CASE now >= m_next[w]
            BY <3>3, <4>2, <5>1, SleepEnds
          <5>2. CASE ~(now >= m_next[w])
            <6>1. m_next[w] - now \in Nat /\ now + (m_next[w] - now) = m_next[w]
              BY <4>2, <5>2
            <6>2. Sleep(t, m_next[w] - now)
              BY <3>3, <5>2
            <6> QED
              BY <6>1, <6>2, SleepEnds
          <5> QED
            BY <5>1, <5>2
        <4>4. \A v \in m_timers : Covered(v)'
          BY <3>1, <3>3, <4>1, <4>2, <4>3 DEF Covered
        <4> QED
          BY <3>1, <4>4 DEF TimersTold
      <3> QED
        BY <2>3, <3>2, <3>3 DEF getNextTimer, Goto
    <2>4. CASE PendingCheck(t)
      <3>1. /\ pc[t] = "pending"
            /\ UNCHANGED <<tickling, where, now, pipeReady, m_next, m_tickled, idleTerm>>
            /\ pc' \in {[pc EXCEPT ![t] = "stopping"], [pc EXCEPT ![t] = "poll"]}
        BY <2>4 DEF PendingCheck, Goto, At, timerVars
      <3>2. \A u \in Run : u # t => wakeAt'[u] = wakeAt[u]
        BY <2>4, SleepEnds, IOManagerAssumption DEF PendingCheck
      <3>3. t \in Waiting /\ \A u \in Asleep : u \in Asleep' /\ wakeAt'[u] = wakeAt[u]
        BY <3>1, <3>2, Threads DEF Waiting, Asleep, TypeOK
      <3>4. Told => Told'
        BY <3>1, Threads DEF Told, Looking, TypeOK
      <3> QED
        BY <3>1, <3>3, <3>4, StaysTold DEF m_timers
    <2>5. CASE StoppingCheck(t)
      <3>1. /\ pc[t] = "stopping"
            /\ UNCHANGED <<tickling, where, now, pipeReady, m_next, m_tickled>>
            /\ pc' \in {[pc EXCEPT ![t] = "yield"], [pc EXCEPT ![t] = "poll"]}
            /\ idleTerm' \in {idleTerm, idleTerm \union {t}}
        BY <2>5 DEF StoppingCheck, Goto, At, timerVars
      <3>2. \A u \in Run : u # t => wakeAt'[u] = wakeAt[u]
        BY <2>5, SleepEnds, IOManagerAssumption DEF StoppingCheck
      <3>3. t \in Waiting /\ \A u \in Asleep : u \in Asleep' /\ wakeAt'[u] = wakeAt[u]
        BY <3>1, <3>2, Threads DEF Waiting, Asleep, TypeOK
      <3>4. Told => Told'
        BY <3>1, Threads DEF Told, Looking, TypeOK
      <3> QED
        BY <3>1, <3>3, <3>4, StaysTold DEF m_timers
    <2>6. CASE epoll_wait(t)
      <3>1. Moves(t) /\ idleTerm' = idleTerm /\ pc'[t] \notin {"pending", "stopping", "poll",
         "exited"}
        BY <2>6, <2>0, Threads DEF epoll_wait, Goto, TypeOK, idleVars
      <3>2. t \notin idleTerm
        BY <2>6 DEF epoll_wait, Goto, At, Flow, Over
      <3> QED
        BY <3>1, <3>2, MoverLooks
    <2>7. CASE Unpend(t)
      <3>1. Moves(t) /\ idleTerm' = idleTerm /\ pc'[t] \notin {"pending", "stopping", "poll",
         "exited"}
        BY <2>7, <2>0, Threads DEF Unpend, Goto, TypeOK, idleVars
      <3>2. t \notin idleTerm
        BY <2>7 DEF Unpend, Goto, At, Flow, Over
      <3> QED
        BY <3>1, <3>2, MoverLooks
    <2>8. CASE EventsDone(t)
      <3>1. Moves(t) /\ idleTerm' = idleTerm /\ pc'[t] \notin {"pending", "stopping", "poll",
         "exited"}
        BY <2>8, <2>0, Threads DEF EventsDone, Goto, TypeOK, idleVars
      <3>2. t \notin idleTerm
        BY <2>8 DEF EventsDone, Goto, At, Flow, Over
      <3> QED
        BY <3>1, <3>2, MoverLooks
    <2>9. CASE LeaveIdle(t)
      <3>1. /\ UNCHANGED <<tickling, now, pipeReady, m_next, m_tickled, wakeAt, idleTerm>>
            /\ m_timers' = m_timers
        BY <2>9 DEF LeaveIdle, idleVars, timerVars, m_timers
      <3>2. CASE t \in idleTerm
        BY <2>0, <3>1, <3>2, EndedTells
      <3>3. CASE t \notin idleTerm
        <4>1. pc'[t] \notin {"pending", "stopping", "poll", "exited"}
          BY <2>9, <3>3, Threads DEF LeaveIdle, Goto, TypeOK
        <4> QED
          BY <2>0, <3>1, <3>3, <4>1, MoverLooks
      <3> QED
        BY <3>2, <3>3
    <2> QED
      BY <1>3, <2>1, <2>2, <2>3, <2>4, <2>5, <2>6, <2>7, <2>8, <2>9 DEF Idles
  <1>4. CASE Stops
    <2>1. /\ UNCHANGED <<tickling, where, now, pipeReady, m_next>>
          /\ m_tickled' \in {m_tickled, FALSE}
          /\ m_timers' = m_timers
      BY <1>4 DEF Stops, stop, stopResume, stopJoin, timerVars, m_timers
    <2>2. Waiting' = Waiting /\ Asleep' = Asleep /\ Looking \subseteq Looking'
      BY <1>4, StopMoves, Threads DEF Waiting, Looking, Asleep
    <2>3. wakeAt' = wakeAt
      BY <1>4, StopMoves
    <2>4. Told => Told'
      BY <2>1, <2>2 DEF Told
    <2>5. m_tickled' => m_tickled
      BY <2>1, Zenon
    <2> QED
      BY <2>1, <2>2, <2>3, <2>4, <2>5, StaysTold
  <1>5. CASE Aside
    <2>1. CASE \E a \in Agents : tickle(a)
      BY <2>1, TickleTells
    <2>2. CASE Tick
      <3>1. Waiting' = Waiting /\ Asleep' = Asleep /\ Told' = Told /\ m_timers' = m_timers
        BY <2>2 DEF Tick, Waiting, Asleep, Told, Looking, m_timers, idleVars
      <3>2. \A u \in Run : wakeAt[u] <= now => wakeAt'[u] <= now'
        BY <2>2 DEF Tick, TypeOK, idleVars
      <3> QED
        BY <2>2, <3>1, <3>2 DEF Tick, TimersTold, Covered, Asleep, timerVars, idleVars
    <2>3. CASE (\E v \in Items : Arrive(v)) \/ stopTickle \/ UNCHANGED vars
      <3>1. now' = now /\ pipeReady' = pipeReady /\ tickling \subseteq tickling'
        BY <2>3 DEF Arrive, stopTickle, vars
      <3> QED
        <4>1. UNCHANGED <<pc, where, idleTerm, m_next, m_tickled, wakeAt>>
          BY <1>5, AsideMoves
        <4>2. /\ Waiting' = Waiting /\ Asleep' = Asleep /\ Looking' = Looking
              /\ m_timers' = m_timers
          BY <4>1 DEF Waiting, Asleep, Looking, m_timers
        <4>3. Told => Told'
          BY <3>1, <4>2 DEF Told
        <4> QED
          BY <3>1, <4>1, <4>2, <4>3, StaysTold
    <2> QED
      BY <1>5, <2>1, <2>2, <2>3 DEF Aside
  <1> QED
    BY <1>1, <1>2, <1>3, <1>4, <1>5, Kinds


-----------------------------------------------------------------------------
(* The caller as the only thread.                                          *)

\* With one thread nothing changes between the three reads of stopping(): what
\* the first two found still holds when the idle fiber ends.
Alone ==
    Workers = {} =>
        /\ (pc[Caller] \in {"pending", "stopping"} \/ Caller \in idleTerm) => m_timers = {}
        /\ (pc[Caller] = "stopping" \/ Caller \in idleTerm) => m_pendingEventCount = 0
        /\ Caller \in idleTerm => (m_fibers = <<>> /\ pc[Caller] # "work")

\* Alone is kept: no other thread submits anything or ends an idle fiber.
LEMMA AloneKept ==
  ASSUME TypeOK, Flow, Alone, [Next]_vars
  PROVE  Alone'
  <1>1. ASSUME NEW a \in Agents, NEW w \in Items, Submits(a, w) PROVE Alone'
    <2>1. ASSUME Workers = {}, a # Caller PROVE FALSE
      BY <2>1, Threads
    <2>2. Workers = {} => (pc[Caller] \in {"main", "work"} /\ Caller \notin idleTerm)
      BY <1>1, <2>1, SubmitMoves DEF Alone, Flow, Over
    <2> QED
      BY <1>1, <2>2, SubmitMoves DEF Alone
  <1>2. ASSUME NEW t \in Run, Works(t) PROVE Alone'
    <2>1. Workers = {} => t = Caller
      BY Threads
    <2>2. CASE t \in idleTerm
      <3>1. Workers = {} => (pc[t] = "yield" \/ pc[t] = "scan" \/ pc[t] \in Over) /\ m_fibers = <<>>
        BY <2>1, <2>2 DEF Alone, Flow, Over
      <3>2. Workers # {}
        BY <1>2, <3>1, WorkPlaces DEF Over
      <3> QED
        BY <3>2 DEF Alone
    <2>3. CASE t \notin idleTerm
      <3>1. idleTerm' = idleTerm /\ pc'[t] \notin {"pending", "stopping"}
        BY <1>2, WorkMoves
      <3> QED
        BY <2>1, <2>3, <3>1 DEF Alone
    <2> QED
      BY <2>2, <2>3
  <1>3. ASSUME NEW t \in Run, Idles(t) PROVE Alone'
    <2>1. /\ UNCHANGED <<where, m_fibers>> /\ m_timers' = m_timers
          /\ Workers = {} => t = Caller
          /\ pc'[t] \notin {"work", "cbs"} /\ Moves(t)
      BY <1>3, IdleMoves, Threads DEF m_timers
    <2>2. CASE getNextTimer(t) \/ PendingCheck(t)
      <3>1. /\ pc[t] \in {"next", "pending"} /\ m_pendingEventCount' = m_pendingEventCount
            /\ idleTerm' = idleTerm /\ (pc'[t] = "pending" => m_timers = {})
            /\ (pc'[t] = "stopping" => pc[t] = "pending" /\ m_pendingEventCount = 0)
        BY <2>2, Threads DEF getNextTimer, PendingCheck, Goto, At, TypeOK, eventVars
      <3>2. t \notin idleTerm
        BY <3>1 DEF Flow, Over
      <3> QED
        BY <2>1, <3>1, <3>2 DEF Alone
    <2>3. CASE StoppingCheck(t)
      <3>1. pc[t] = "stopping" /\ pc'[t] \in {"yield",
         "poll"} /\ m_pendingEventCount' = m_pendingEventCount
        BY <2>3, Threads DEF StoppingCheck, Goto, At, TypeOK, eventVars
      <3>2. \/ idleTerm' = idleTerm
            \/ stopping /\ idleTerm' = idleTerm \union {t}
        BY <2>1 DEF Moves
      <3>3. t \notin idleTerm
        BY <3>1 DEF Flow, Over
      <3> QED
        BY <2>1, <3>1, <3>2, <3>3 DEF Alone, stopping
    <2>4. CASE ~(getNextTimer(t) \/ PendingCheck(t) \/ StoppingCheck(t))
      <3>1. /\ pc[t] \in {"scan", "enter", "poll", "unpend", "events", "yield"}
            /\ pc'[t] \notin {"pending", "stopping"}
        BY <1>3, <2>4, <2>1, Threads DEF Idles, NoTaskFound, EnterIdle, epoll_wait, Unpend,
           EventsDone,
           LeaveIdle, Goto, At, Moves, Arc
      <3>2. idleTerm' = idleTerm
        BY <2>1, <3>1 DEF Moves
      <3>3. t \in idleTerm => (m_pendingEventCount' = m_pendingEventCount)
        BY <1>3, <3>1, IdleMoves DEF Flow, Over
      <3> QED
        BY <2>1, <3>1, <3>2, <3>3 DEF Alone
    <2> QED
      BY <2>2, <2>3, <2>4
  <1>4. CASE Stops
    <2>1. UNCHANGED <<where, m_fibers, idleTerm, m_pendingEventCount>> /\ m_timers' = m_timers
      BY <1>4, StopMoves DEF m_timers
    <2> QED
      BY <1>4, <2>1, StopMoves DEF Alone
  <1>5. CASE Aside
    BY <1>5, AsideMoves DEF Alone, m_timers
  <1> QED
    BY <1>1, <1>2, <1>3, <1>4, <1>5, Kinds


-----------------------------------------------------------------------------
(* Sizes of finite sets.                                                   *)

INSTANCE FiniteSetTheorems

\* A counter that follows its set stays equal to its size.
LEMMA Counted ==
  ASSUME NEW S, NEW T, NEW n, NEW m, IsFiniteSet(S), n = Cardinality(S), Follows(S, T, n, m)
  PROVE  m = Cardinality(T)
  <1>1. CASE T = S /\ m = n
    BY <1>1
  <1>2. ASSUME NEW x \in T, x \notin S, T = S \union {x}, m = n + 1 PROVE m = Cardinality(T)
    BY <1>2, FS_AddElement
  <1>3. ASSUME NEW x \in S, T = S \ {x}, m = n - 1 PROVE m = Cardinality(T)
    BY <1>3, FS_RemoveElement
  <1> QED
    BY <1>1, <1>2, <1>3 DEF Follows


\* What is counted is finite.
LEMMA Finite ==
  /\ IsFiniteSet(Run) /\ Cardinality(Run) \in Nat
  /\ IsFiniteSet(Working) /\ IsFiniteSet(Idling)
  /\ IsFiniteSet(Awaited) /\ IsFiniteSet(Unpending)
  <1>1. IsFiniteSet({Caller}) /\ IsFiniteSet({})
    BY FS_Singleton, FS_EmptySet
  <1>2. IsFiniteSet(Run)
    BY <1>1, FS_Union, IOManagerAssumption DEF Run
  <1>3. Cardinality(Run) \in Nat
    BY <1>2, FS_CardinalityType
  <1>4. IsFiniteSet(Working) /\ IsFiniteSet(Idling) /\ IsFiniteSet(Unpending)
    BY <1>2, FS_Subset DEF Working, Idling, Unpending
  <1>5. IsFiniteSet(Awaited)
    BY IOManagerAssumption, FS_Subset DEF Awaited
  <1> QED
    BY <1>2, <1>3, <1>4, <1>5

\* The counters stay the sizes of what they count.
LEMMA CountsKept ==
  ASSUME TypeOK, Flow, Single, Counts, [Next]_vars
  PROVE  Counts'
  <1>1. /\ IsFiniteSet(Working) /\ IsFiniteSet(Idling)
        /\ IsFiniteSet(Awaited) /\ IsFiniteSet(Unpending)
    BY Finite
  <1>2. m_activeThreadCount' = Cardinality(Working')
    BY <1>1, ThreadCounts, Counted DEF ThreadsFollow, Counts
  <1>3. m_idleThreadCount' = Cardinality(Idling')
    BY <1>1, ThreadCounts, Counted DEF ThreadsFollow, Counts
  <1>4. m_pendingEventCount' = Cardinality(Awaited') + Cardinality(Unpending')
    <2>1. Cardinality(Awaited) \in Nat /\ Cardinality(Unpending) \in Nat
      BY <1>1, FS_CardinalityType
    <2>2. CASE Awaited' = Awaited /\ Unpending' = Unpending /\ m_pendingEventCount' = m_pendingEventCount
      BY <2>2 DEF Counts
    <2>3. ASSUME NEW w \in Items, w \notin Awaited, Awaited' = Awaited \union {w},
                 Unpending' = Unpending, m_pendingEventCount' = m_pendingEventCount + 1
          PROVE  m_pendingEventCount' = Cardinality(Awaited') + Cardinality(Unpending')
      <3>1. Cardinality(Awaited') = Cardinality(Awaited) + 1
        BY <1>1, <2>3, FS_AddElement
      <3> QED
        BY <2>1, <2>3, <3>1 DEF Counts
    <2>4. ASSUME NEW w \in Awaited, NEW t \in Run \ Unpending, Awaited' = Awaited \ {w},
                 Unpending' = Unpending \union {t}, m_pendingEventCount' = m_pendingEventCount
          PROVE  m_pendingEventCount' = Cardinality(Awaited') + Cardinality(Unpending')
      <3>1. Cardinality(Awaited') = Cardinality(Awaited) - 1
        BY <1>1, <2>4, FS_RemoveElement
      <3>2. Cardinality(Unpending') = Cardinality(Unpending) + 1
        BY <1>1, <2>4, FS_AddElement
      <3> QED
        BY <2>1, <2>4, <3>1, <3>2 DEF Counts
    <2>5. ASSUME NEW t \in Unpending, Awaited' = Awaited, Unpending' = Unpending \ {t},
                 m_pendingEventCount' = m_pendingEventCount - 1
          PROVE  m_pendingEventCount' = Cardinality(Awaited') + Cardinality(Unpending')
      <3>1. Cardinality(Unpending') = Cardinality(Unpending) - 1
        BY <1>1, <2>5, FS_RemoveElement
      <3> QED
        BY <2>1, <2>5, <3>1 DEF Counts
    <2> QED
      BY <2>2, <2>3, <2>4, <2>5, PendingFollows DEF EventsFollow
  <1> QED
    BY <1>2, <1>3, <1>4 DEF Counts

-----------------------------------------------------------------------------
(* The theorems.                                                           *)

\* The constructor's state satisfies the invariant.
LEMMA IOStart ==
  ASSUME Init PROVE IOInv
  <1>1. TypeOK
    <2>1. pc \in [Agents -> PCs]
      BY DEF Init, PCs
    <2>2. m_fibers \in Seq(Items) /\ tickling \subseteq Agents /\ ready \subseteq Items
      BY DEF Init
    <2>3. /\ held \in [Run -> Items \union {NoItem}] /\ wakeAt \in [Run -> 0..MaxTime]
          /\ events \in [Run -> SUBSET (Items \union {NoItem})] /\ cbs \in [Run -> SUBSET Items]
      BY IOManagerAssumption DEF Init
    <2>4. m_next \in [Items -> 0..MaxTime] /\ now \in 0..MaxTime
      BY IOManagerAssumption DEF Init
    <2> QED
      BY <2>1, <2>2, <2>3, <2>4 DEF Init, TypeOK, PCs
  <1>2. Flow
    <2>1. pc[Caller] = "main" /\ \A t \in Workers : pc[t] = "scan"
      BY Threads DEF Init
    <2>2. \A t \in Run : pc[t] \in {"main", "scan"}
      BY <2>1, Threads
    <2> QED
      BY <2>1, <2>2 DEF Init, Flow, Over
  <1>3. Single
    BY Threads DEF Init, Single, QueueOnce, HandOnce, CbsOnce
  <1>4. Placed /\ Drained
    BY DEF Init, Placed, Drained
  <1>5. Working = {} /\ Idling = {} /\ Awaited = {} /\ Unpending = {}
    BY Threads DEF Init, Working, Idling, Awaited, Unpending
  <1>6. Counts
    BY <1>5, FS_EmptySet DEF Init, Counts
  <1>7. Waiting = {}
    BY Threads DEF Init, Waiting
  <1> QED
    BY <1>1, <1>2, <1>3, <1>4, <1>6, <1>7 DEF IOInv, TimersTold

\* Every step of every thread, of stop() and of the world keeps the invariant.
LEMMA IOStep ==
  ASSUME IOInv, [Next]_vars PROVE IOInv'
  <1>1. TypeOK /\ Flow /\ Placed /\ Single /\ Drained /\ Counts /\ TimersTold
    BY DEF IOInv
  <1>2. Counts'
    BY <1>1, CountsKept
  <1>3. m_activeThreadCount' \in Nat /\ m_idleThreadCount' \in Nat /\ m_pendingEventCount' \in Nat
    <2>1. /\ IsFiniteSet(Working') /\ IsFiniteSet(Idling')
          /\ IsFiniteSet(Awaited') /\ IsFiniteSet(Unpending')
      BY Finite, IOManagerAssumption, FS_Subset DEF Working, Idling, Awaited, Unpending
    <2>2. /\ Cardinality(Working') \in Nat /\ Cardinality(Idling') \in Nat
          /\ Cardinality(Awaited') \in Nat /\ Cardinality(Unpending') \in Nat
      BY <2>1, FS_CardinalityType
    <2> QED
      BY <1>2, <2>2 DEF Counts
  <1>4. TypeOK'
    BY <1>1, <1>3, Finite, TypesKept
  <1>5. m_idleThreadCount = 0 => Idling = {}
    BY <1>1, Finite, FS_EmptySet DEF Counts
  <1>6. Flow' /\ Placed' /\ Single' /\ Drained' /\ TimersTold'
    BY <1>1, <1>5, FlowKept, PlacedKept, SingleKept, DrainedKept, ToldKept
  <1> QED
    BY <1>2, <1>4, <1>6 DEF IOInv

\* IOInv is an invariant of IOManager's scheduling loop (run, idle, tickle, stop): the
\* counters equal the numbers of threads and events they stand for, every queued,
\* collected or running item is in exactly one place, and a timer that no sleeping
\* thread covers has a wake-up on its way.
THEOREM IOInductive == Spec => []IOInv
  <1>1. Init => IOInv
    BY IOStart
  <1>2. IOInv /\ [Next]_vars => IOInv'
    BY IOStep
  <1> QED
    BY <1>1, <1>2, PTL DEF Spec

\* When all threads sleep in epoll_wait and nothing will wake them, each timer has a
\* thread whose sleep ends in time: getNextTimer, addTimer's at_front and m_tickled
\* lose no timer, whatever the number of threads and timers.
THEOREM NoTimerIsSleptThrough == Spec => []TimerCovered
  <1>1. ASSUME IOInv PROVE TimerCovered
    <2> SUFFICES ASSUME Quiet
                 PROVE  \A w \in m_timers : \E t \in Asleep : wakeAt[t] <= m_next[w] \/ wakeAt[t] <= now
      BY DEF TimerCovered
    <2>1. Looking = {}
      BY DEF Quiet, Looking
    <2>2. ~Told
      BY <2>1 DEF Told, Quiet
    <2>3. Waiting # {}
      BY DEF Quiet, Asleep, Waiting
    <2> QED
      BY <1>1, <2>2, <2>3 DEF IOInv, TimersTold, Covered
  <1> QED
    BY <1>1, IOInductive, PTL

\* When stop() has returned nothing is queued, collected or running, whatever the
\* number of threads: a thread leaves run() only after its idle fiber ended, and the
\* last one found the queue empty.
THEOREM StopLeavesNoTask == Spec => []StopDrains
  <1>1. ASSUME IOInv PROVE StopDrains
    <2> SUFFICES ASSUME pc[Caller] = "stopped"
                 PROVE  /\ m_fibers = <<>> /\ m_activeThreadCount = 0
                        /\ \A w \in Items : where[w] \notin {"queue", "cbs", "held"}
      BY DEF StopDrains
    <2>1. \A t \in Run : pc[t] \in Over
      BY <1>1, Threads DEF IOInv, Flow, Over
    <2>2. m_fibers = <<>>
      BY <1>1, <2>1 DEF IOInv, Drained
    <2>3. Working = {}
      BY <2>1 DEF Working, Over
    <2>4. m_activeThreadCount = 0
      BY <1>1, <2>3, FS_EmptySet DEF IOInv, Counts
    <2>5. \A w \in Items : where[w] \notin {"queue", "cbs", "held"}
      BY <1>1, <2>1, <2>2 DEF IOInv, Placed, InQueue, InHand, InCbs, Over
    <2> QED
      BY <2>2, <2>4, <2>5
  <1> QED
    BY <1>1, IOInductive, PTL


\* With the caller as the only thread stop() returns when every item has been executed,
\* also one that came as a timer or as an event: IOManager::stopping() sees them all.
THEOREM StopLeavesNothingAlone == Spec => [](Workers = {} => StopComplete)
  <1>1. Init => Alone
    BY Threads DEF Init, Alone
  <1>2. IOInv /\ Alone /\ [Next]_vars => Alone'
    BY AloneKept DEF IOInv
  <1>3. ASSUME IOInv, Alone, StopDrains PROVE Workers = {} => StopComplete
    <2> SUFFICES ASSUME Workers = {}, pc[Caller] = "stopped", NEW w \in Items
                 PROVE  where[w] \in {"new", "done"}
      BY DEF StopComplete
    <2>1. Caller \in idleTerm
      BY <1>3, Threads DEF IOInv, Flow, Over
    <2>2. m_timers = {} /\ m_pendingEventCount = 0
      BY <1>3, <2>1 DEF Alone
    <2>3. IsFiniteSet(Awaited) /\ IsFiniteSet(Unpending)
      BY Finite
    <2>4. Cardinality(Awaited) \in Nat /\ Cardinality(Unpending) \in Nat
      BY <2>3, FS_CardinalityType
    <2>5. Cardinality(Awaited) = 0
      BY <1>3, <2>2, <2>4 DEF IOInv, Counts
    <2>6. Awaited = {}
      BY <2>3, <2>5, FS_EmptySet
    <2>7. where[w] \notin {"timer", "event"}
      BY <2>2, <2>6 DEF m_timers, Awaited
    <2> QED
      BY <1>3, <2>7 DEF StopDrains, IOInv, TypeOK
  <1> QED
    BY <1>1, <1>2, <1>3, IOInductive, StopLeavesNoTask, PTL DEF Spec
=============================================================================
