------------------------- MODULE IOManagerInvariant -------------------------
(***************************************************************************)
(* The inductive invariant of IOManager, and the proof that every step     *)
(* keeps the parts of it that follow an item: where it is, that it is      *)
(* there once, and that stop() finds none left.                            *)
(***************************************************************************)
EXTENDS IOManager, TLAPS

-----------------------------------------------------------------------------
(* The inductive invariant.                                                *)

\* The places of a thread that has left run(), and all places.
Over == {"exited", "stopped"}
PCs == {"main", "stop", "scan", "work", "enter", "next", "pending", "stopping", "poll",
        "expire", "cbs", "events", "unpend", "yield", "exited", "stopped"}

\* How far the caller is in stop(), and which threads may have ended: an idle
\* fiber ends only after stop() was called, and its thread never polls again.
Flow ==
    /\ \A t \in Workers : pc[t] \notin {"main", "stop", "stopped"}
    /\ ~UseCaller => pc[Caller] \in {"main", "stop", "exited", "stopped"}
    /\ pc[Caller] = "main" => ~m_stopping
    /\ idleTerm # {} => m_stopping
    /\ \A t \in idleTerm : pc[t] \in {"yield", "scan", "work"} \union Over
    /\ \A t \in Run : pc[t] \in Over => t \in idleTerm
    /\ pc[Caller] = "stopped" => \A t \in Workers : pc[t] = "exited"

\* An item that is queued, collected or run is where it is said to be.
InQueue(w) == \E i \in 1..Len(m_fibers) : m_fibers[i] = w
InHand(w) == \E t \in Run : pc[t] = "work" /\ held[t] = w
InCbs(w) == \E t \in Run : pc[t] = "cbs" /\ w \in cbs[t]

Placed ==
    \A w \in Items :
        /\ where[w] = "queue" => InQueue(w)
        /\ where[w] = "held" => InHand(w)
        /\ where[w] = "cbs" => InCbs(w)

\* And it is nowhere else.
QueueOnce ==
    /\ \A i \in 1..Len(m_fibers) : where[m_fibers[i]] = "queue"
    /\ \A i, j \in 1..Len(m_fibers) : m_fibers[i] = m_fibers[j] => i = j
HandOnce ==
    /\ \A t \in Run : pc[t] = "work" => held[t] \in Items /\ where[held[t]] = "held"
    /\ \A t, u \in Run : pc[t] = "work" /\ pc[u] = "work" /\ held[t] = held[u] => t = u
CbsOnce ==
    /\ \A t \in Run : \A w \in cbs[t] : pc[t] = "cbs" /\ where[w] = "cbs"
    /\ \A t, u \in Run : cbs[t] \intersect cbs[u] # {} => t = u

Single == QueueOnce /\ HandOnce /\ CbsOnce

\* Threads that have all left run() left an empty queue.
Drained ==
    (\A t \in Run : pc[t] \in Over) => m_fibers = <<>>

\* The counters are the numbers of threads, and of events, that they count.
Working == {t \in Run : pc[t] = "work"}
Idling == {t \in Run : pc[t] \in {"next", "pending", "stopping", "poll", "expire", "cbs",
                                  "events", "unpend", "yield"}}
Awaited == {w \in Items : where[w] = "event"}
Unpending == {t \in Run : pc[t] = "unpend"}

Counts ==
    /\ m_activeThreadCount = Cardinality(Working)
    /\ m_idleThreadCount = Cardinality(Idling)
    /\ m_pendingEventCount = Cardinality(Awaited) + Cardinality(Unpending)

\* The threads that have looked for the next timer and sleep or are about to,
\* and those that will look before they sleep.
Waiting == {t \in Run : pc[t] \in {"pending", "stopping", "poll"}}
Looking == {t \in Run \ idleTerm : pc[t] \in {"scan", "work", "enter", "next", "expire", "cbs",
                                              "events", "unpend", "yield"}}

\* A wake-up is on its way, or not needed to make a thread look.
Told == tickling # {} \/ pipeReady \/ Looking # {}

Covered(w) == \E t \in Asleep : wakeAt[t] <= m_next[w] \/ wakeAt[t] <= now

\* A timer no sleep covers, and a wake-up that m_tickled suppresses, are told.
TimersTold ==
    Waiting # {} => /\ Told \/ \A w \in m_timers : Covered(w)
                    /\ m_tickled => Told

IOInv == TypeOK /\ Flow /\ Placed /\ Single /\ Drained /\ Counts /\ TimersTold

-----------------------------------------------------------------------------
(* The steps, by what they touch.                                          *)

\* The work of a thread, the steps of its idle fiber, the caller's way through
\* stop(), and the steps that move no thread.
Submits(a, w) ==
    SubmitTask(a, w) \/ SubmitEvent(a, w) \/ \E ms \in Delays : SubmitTimer(a, w, ms)
Works(t) == Take(t) \/ Done(t) \/ listExpiredCb(t) \/ ScheduleCb(t) \/ HandleEvent(t)
Idles(t) ==
    \/ NoTaskFound(t) \/ EnterIdle(t) \/ getNextTimer(t) \/ PendingCheck(t)
    \/ StoppingCheck(t) \/ epoll_wait(t) \/ Unpend(t) \/ EventsDone(t) \/ LeaveIdle(t)
Stops == stop \/ stopResume \/ stopJoin
Aside ==
    \/ \E a \in Agents : tickle(a)
    \/ \E w \in Items : Arrive(w)
    \/ stopTickle \/ Tick \/ UNCHANGED vars

\* The caller is an agent, and a thread of run() when UseCaller is set.
LEMMA Threads ==
  /\ Caller \in Agents /\ Run \subseteq Agents /\ Workers \subseteq Run
  /\ Caller \notin Workers /\ Run # {}
  /\ UseCaller => Caller \in Run
  /\ \A a \in Agents : a = Caller \/ a \in Workers
  /\ \A t \in Run : t \in Workers \/ (t = Caller /\ UseCaller)
  <1>1. Caller \notin Workers /\ Run # {} /\ UseCaller \in BOOLEAN
    BY IOManagerAssumption
  <1>2. Workers \subseteq Run /\ (UseCaller => Caller \in Run)
    BY DEF Run
  <1>3. \A t \in Run : t \in Workers \/ (t = Caller /\ UseCaller)
    <2>1. CASE UseCaller
      BY <2>1 DEF Run
    <2>2. CASE ~UseCaller
      BY <2>2 DEF Run
    <2> QED
      BY <2>1, <2>2
  <1>4. Caller \in Agents /\ Run \subseteq Agents /\ \A a \in Agents : a = Caller \/ a \in Workers
    BY <1>3 DEF Agents
  <1> QED
    BY <1>1, <1>2, <1>3, <1>4

\* Every step is of one of these kinds.
LEMMA Kinds ==
  ASSUME [Next]_vars
  PROVE  \/ \E a \in Agents, w \in Items : Submits(a, w)
         \/ \E t \in Run : Works(t)
         \/ \E t \in Run : Idles(t)
         \/ Stops
         \/ Aside
  <1>1. ASSUME NEW t \in Run, Thread_step(t) PROVE Works(t) \/ Idles(t) \/ Aside
    BY <1>1, Threads DEF Thread_step, Works, Idles, Aside
  <1>2. ASSUME NEW a \in Agents, Submit(a) PROVE \E w \in Items : Submits(a, w)
    BY <1>2 DEF Submit, Submits
  <1>3. Stop_step => Stops \/ Aside
    BY DEF Stop_step, Stops, Aside
  <1> QED
    BY <1>1, <1>2, <1>3, Threads DEF Next, Stopped, Stops, Aside

\* Where a step of run() or idle() takes its thread.
Arc(p, q) ==
    \/ p = "scan" /\ q \in {"work", "enter", "exited"}
    \/ p = "work" /\ q = "scan"
    \/ p = "enter" /\ q = "next"
    \/ p = "next" /\ q \in {"pending", "poll"}
    \/ p = "pending" /\ q \in {"stopping", "poll"}
    \/ p = "stopping" /\ q \in {"yield", "poll"}
    \/ p = "poll" /\ q = "expire"
    \/ p = "expire" /\ q = "cbs"
    \/ p = "cbs" /\ q \in {"cbs", "events"}
    \/ p = "events" /\ q \in {"events", "unpend", "yield"}
    \/ p = "unpend" /\ q = "events"
    \/ p = "yield" /\ q = "scan"

\* Thread t moves along an arc and counts itself; its idle fiber ends only when
\* stopping() holds, and it leaves run() only when that fiber has ended.
Moves(t) ==
    /\ Arc(pc[t], pc'[t])
    /\ \A a \in Agents : a # t => pc'[a] = pc[a]
    /\ m_stopping' = m_stopping
    /\ \/ idleTerm' = idleTerm
       \/ pc[t] = "stopping" /\ pc'[t] = "yield" /\ stopping /\ idleTerm' = idleTerm \union {t}
    /\ pc'[t] = "exited" => (t \in idleTerm /\ m_fibers' = <<>>)
    /\ pc'[t] = "enter" => t \notin idleTerm
    /\ m_activeThreadCount' = IF pc'[t] = "work" THEN m_activeThreadCount + 1
                              ELSE IF pc[t] = "work" THEN m_activeThreadCount - 1
                              ELSE m_activeThreadCount
    /\ m_idleThreadCount' = IF pc[t] = "enter" THEN m_idleThreadCount + 1
                            ELSE IF pc[t] = "yield" THEN m_idleThreadCount - 1
                            ELSE m_idleThreadCount

\* A thread that works only moves, as far as threads are concerned.
LEMMA WorkMoves ==
  ASSUME TypeOK, NEW t \in Run, Works(t)
  PROVE  Moves(t) /\ idleTerm' = idleTerm /\ pc'[t] \in {"work", "scan", "cbs", "events",
     "unpend"}
  <1>1. CASE Take(t)
    BY <1>1, Threads DEF Take, Goto, At, Moves, Arc, stopping, TypeOK, loopVars, idleVars,
       stopVars
  <1>2. CASE Done(t)
    BY <1>2, Threads DEF Done, Goto, At, Moves, Arc, stopping, TypeOK, loopVars, idleVars,
       stopVars
  <1>3. CASE listExpiredCb(t)
    BY <1>3, Threads DEF listExpiredCb, Goto, At, Moves, Arc, stopping, TypeOK, loopVars,
       idleVars, stopVars
  <1>4. CASE ScheduleCb(t)
    BY <1>4, Threads DEF ScheduleCb, Goto, At, Moves, Arc, stopping, TypeOK, loopVars,
       idleVars, stopVars
  <1>5. CASE HandleEvent(t)
    BY <1>5, Threads DEF HandleEvent, At, Moves, Arc, stopping, TypeOK, loopVars, idleVars,
       stopVars
  <1> QED
    BY <1>1, <1>2, <1>3, <1>4, <1>5 DEF Works

\* A thread in its idle fiber only moves, as far as items are concerned.
LEMMA IdleMoves ==
  ASSUME TypeOK, NEW t \in Run, Idles(t)
  PROVE  /\ Moves(t) /\ UNCHANGED <<where, m_fibers, held, cbs>>
         /\ pc[t] \notin {"work", "cbs"} /\ pc'[t] \notin {"work", "cbs"}
         /\ pc'[t] \notin {"unpend"} /\ m_activeThreadCount' = m_activeThreadCount
         /\ m_pendingEventCount' = IF pc[t] = "unpend" THEN m_pendingEventCount - 1
                                   ELSE m_pendingEventCount
  <1>1. CASE NoTaskFound(t)
    BY <1>1, Threads DEF NoTaskFound, Goto, At, Moves, Arc, stopping, TypeOK, loopVars,
       idleVars, eventVars, stopVars
  <1>2. CASE EnterIdle(t)
    BY <1>2, Threads DEF EnterIdle, Goto, At, Moves, Arc, stopping, TypeOK, loopVars,
       idleVars, eventVars, stopVars
  <1>3. CASE getNextTimer(t)
    BY <1>3, Threads DEF getNextTimer, Goto, At, Moves, Arc, stopping, TypeOK, loopVars,
       idleVars, eventVars, stopVars
  <1>4. CASE PendingCheck(t)
    BY <1>4, Threads DEF PendingCheck, Goto, At, Moves, Arc, stopping, TypeOK, loopVars,
       idleVars, eventVars, stopVars
  <1>5. CASE StoppingCheck(t)
    BY <1>5, Threads DEF StoppingCheck, Goto, At, Moves, Arc, stopping, TypeOK, loopVars,
       idleVars, eventVars, stopVars
  <1>6. CASE epoll_wait(t)
    BY <1>6, Threads DEF epoll_wait, Goto, At, Moves, Arc, stopping, TypeOK, loopVars,
       idleVars, eventVars, stopVars
  <1>7. CASE Unpend(t)
    BY <1>7, Threads DEF Unpend, Goto, At, Moves, Arc, stopping, TypeOK, loopVars, idleVars,
       eventVars, stopVars
  <1>8. CASE EventsDone(t)
    BY <1>8, Threads DEF EventsDone, Goto, At, Moves, Arc, stopping, TypeOK, loopVars,
       idleVars, eventVars, stopVars
  <1>9. CASE LeaveIdle(t)
    BY <1>9, Threads DEF LeaveIdle, Goto, At, Moves, Arc, stopping, TypeOK, loopVars,
       idleVars, eventVars, stopVars
  <1> QED
    BY <1>1, <1>2, <1>3, <1>4, <1>5, <1>6, <1>7, <1>8, <1>9 DEF Idles


\* Handing over work moves no thread.
LEMMA SubmitMoves ==
  ASSUME NEW a \in Agents, NEW w \in Items, Submits(a, w)
  PROVE  /\ UNCHANGED <<pc, held, cbs, idleTerm, m_stopping>>
         /\ UNCHANGED <<m_activeThreadCount, m_idleThreadCount>>
         /\ pc[a] \in {"main", "work"} /\ where[w] = "new"
  <1>1. CASE SubmitTask(a, w)
    BY <1>1 DEF SubmitTask, CanSubmit, At, idleVars, stopVars
  <1>2. CASE SubmitEvent(a, w)
    BY <1>2 DEF SubmitEvent, CanSubmit, At, loopVars, idleVars, stopVars
  <1>3. CASE \E ms \in Delays : SubmitTimer(a, w, ms)
    BY <1>3 DEF SubmitTimer, CanSubmit, At, loopVars, idleVars, stopVars
  <1> QED
    BY <1>1, <1>2, <1>3 DEF Submits

\* stop() takes the caller to the threads' loop or past it, and touches no item.
LEMMA StopMoves ==
  ASSUME TypeOK, Stops
  PROVE  /\ UNCHANGED <<where, m_fibers, held, cbs, idleTerm, wakeAt>>
         /\ UNCHANGED <<m_activeThreadCount, m_idleThreadCount, m_pendingEventCount>>
         /\ \A a \in Agents : a # Caller => pc'[a] = pc[a]
         /\ \/ pc[Caller] = "main" /\ pc'[Caller] = "stop" /\ m_stopping'
            \/ /\ m_stopping' = m_stopping
               /\ \/ pc[Caller] = "stop" /\ UseCaller /\ pc'[Caller] = "scan"
                  \/ pc[Caller] = "stop" /\ ~UseCaller /\ pc'[Caller] = "exited"
                  \/ /\ pc[Caller] = "exited" /\ pc'[Caller] = "stopped"
                     /\ \A t \in Workers : pc[t] = "exited"
  <1>1. CASE stop
    BY <1>1, Threads DEF stop, Goto, At, TypeOK, loopVars, idleVars, eventVars
  <1>2. CASE stopResume
    BY <1>2, Threads, IOManagerAssumption DEF stopResume, Goto, At, TypeOK, loopVars, idleVars,
       eventVars, stopVars
  <1>3. CASE stopJoin
    BY <1>3, Threads DEF stopJoin, Goto, At, TypeOK, loopVars, idleVars, eventVars, stopVars
  <1> QED
    BY <1>1, <1>2, <1>3 DEF Stops

\* The other steps move nothing.
LEMMA AsideMoves ==
  ASSUME Aside
  PROVE  /\ UNCHANGED <<pc, where, m_fibers, held, cbs, idleTerm, m_stopping>>
         /\ UNCHANGED <<m_activeThreadCount, m_idleThreadCount, m_pendingEventCount>>
         /\ UNCHANGED <<m_next, m_tickled, wakeAt, events>>
  <1> USE DEF loopVars, idleVars, timerVars, eventVars, stopVars
  <1> QED
    BY DEF Aside, tickle, Arrive, stopTickle, Tick, vars


-----------------------------------------------------------------------------
(* One lemma per part of the invariant: every step keeps it.               *)

\* A thread that moves and ends no idle fiber keeps Flow.
LEMMA MovesFlow ==
  ASSUME TypeOK, Flow, NEW t \in Run, Moves(t), idleTerm' = idleTerm
  PROVE  Flow'
  <1>1. /\ pc[t] \notin {"main", "stop", "exited", "stopped"}
        /\ pc'[t] \notin {"main", "stop", "stopped"}
        /\ m_stopping' = m_stopping /\ (pc'[t] = "exited" => t \in idleTerm)
    BY DEF Moves, Arc
  <1>2. pc[t] \in {"yield", "scan", "work"} => pc'[t] \in {"scan", "work", "enter", "exited"}
    BY DEF Moves, Arc
  <1>3. pc'[t] = "enter" => t \notin idleTerm
    BY DEF Moves
  <1>4. \A a \in Agents : a # t => pc'[a] = pc[a]
    BY DEF Moves
  <1>5. t \in idleTerm => pc'[t] \in {"yield", "scan", "work"} \union Over
    BY <1>1, <1>2, <1>3 DEF Flow, Over
  <1>6. /\ \A u \in Workers : pc'[u] \notin {"main", "stop", "stopped"}
        /\ ~UseCaller => pc'[Caller] \in {"main", "stop", "exited", "stopped"}
        /\ pc'[Caller] = "main" => ~m_stopping
    BY <1>1, <1>4, Threads DEF Flow
  <1>7. /\ \A u \in idleTerm : pc'[u] \in {"yield", "scan", "work"} \union Over
        /\ \A u \in Run : pc'[u] \in Over => u \in idleTerm
    <2>1. \A u \in idleTerm : pc'[u] \in {"yield", "scan", "work"} \union Over
      BY <1>4, <1>5, Threads DEF Flow, TypeOK
    <2>2. \A u \in Run : pc'[u] \in Over => u \in idleTerm
      BY <1>1, <1>4, Threads DEF Flow, Over
    <2> QED
      BY <2>1, <2>2
  <1>8. pc'[Caller] = "stopped" => \A u \in Workers : pc'[u] = "exited"
    BY <1>1, <1>4, Threads DEF Flow
  <1> QED
    BY <1>1, <1>6, <1>7, <1>8 DEF Flow

\* Flow is kept: only the caller moves m_stopping, and only StoppingCheck, after stop(),
\* ends an idle fiber.
LEMMA FlowKept ==
  ASSUME TypeOK, Flow, [Next]_vars
  PROVE  Flow'
  <1>1. ASSUME NEW a \in Agents, NEW w \in Items, Submits(a, w) PROVE Flow'
    BY <1>1, SubmitMoves DEF Flow
  <1>2. ASSUME NEW t \in Run, Works(t) PROVE Flow'
    BY <1>2, WorkMoves, MovesFlow
  <1>3. ASSUME NEW t \in Run, Idles(t) PROVE Flow'
    <2>1. Moves(t)
      BY <1>3, IdleMoves
    <2>2. CASE idleTerm' = idleTerm
      BY <2>1, <2>2, MovesFlow
    <2>3. CASE pc[t] = "stopping" /\ pc'[t] = "yield" /\ stopping /\ idleTerm' = idleTerm \union {t}
      BY <2>1, <2>3, Threads DEF Flow, Over, Moves, stopping, TypeOK
    <2> QED
      BY <2>1, <2>2, <2>3 DEF Moves
  <1>4. CASE Stops
    BY <1>4, StopMoves, Threads DEF Flow, Over, TypeOK
  <1>5. CASE Aside
    BY <1>5, AsideMoves DEF Flow
  <1> QED
    BY <1>1, <1>2, <1>3, <1>4, <1>5, Kinds

\* Drained is kept: whoever hands over work has not left, and run() is left only when the
\* queue is empty.
LEMMA DrainedKept ==
  ASSUME TypeOK, Flow, Drained, [Next]_vars
  PROVE  Drained'
  <1>1. ASSUME NEW a \in Agents, NEW w \in Items, Submits(a, w) PROVE Drained'
    <2>1. CASE a \in Run
      BY <1>1, <2>1, SubmitMoves DEF Drained, Over
    <2>2. CASE a \notin Run
      <3>1. pc[Caller] = "main"
        BY <1>1, <2>2, SubmitMoves, Threads DEF Flow
      <3> QED
        BY <1>1, <3>1, SubmitMoves, Threads DEF Flow, Drained
    <2> QED
      BY <2>1, <2>2
  <1>2. ASSUME NEW t \in Run, Works(t) PROVE Drained'
    BY <1>2, WorkMoves DEF Drained, Moves, Arc, Over
  <1>3. ASSUME NEW t \in Run, Idles(t) PROVE Drained'
    <2>1. m_fibers' = m_fibers /\ Moves(t)
      BY <1>3, IdleMoves
    <2>2. \A u \in Run : u # t => pc'[u] = pc[u]
      BY <2>1, Threads DEF Moves
    <2> QED
      BY <2>1, <2>2 DEF Drained, Moves, Arc, Over
  <1>4. CASE Stops
    <2>1. m_fibers' = m_fibers /\ \A u \in Run : pc'[u] \in Over => pc[u] \in Over
      BY <1>4, StopMoves, Threads DEF Over
    <2> QED
      BY <2>1 DEF Drained
  <1>5. CASE Aside
    BY <1>5, AsideMoves DEF Drained
  <1> QED
    BY <1>1, <1>2, <1>3, <1>4, <1>5, Kinds


\* What was in the queue stays there when an item is appended, and so does the item.
LEMMA Appended ==
  ASSUME NEW q \in Seq(Items), NEW w \in Items, NEW v \in Items,
         v = w \/ \E i \in 1..Len(q) : q[i] = v
  PROVE  \E i \in 1..Len(Append(q, w)) : Append(q, w)[i] = v
  <1>1. CASE v = w
    <2>1. Append(q, w)[Len(q) + 1] = v /\ Len(q) + 1 \in 1..Len(Append(q, w))
      BY <1>1
    <2> QED
      BY <2>1
  <1>2. ASSUME NEW i \in 1..Len(q), q[i] = v PROVE \E j \in 1..Len(Append(q, w)) : Append(q,
     w)[j] = v
    <2>1. Append(q, w)[i] = v /\ i \in 1..Len(Append(q, w))
      BY <1>2
    <2> QED
      BY <2>1
  <1> QED
    BY <1>1, <1>2


\* Where a thread works, and that it takes nothing from an empty queue.
LEMMA WorkPlaces ==
  ASSUME NEW t \in Run, Works(t)
  PROVE  /\ pc[t] \in {"scan", "work", "expire", "cbs", "events"}
         /\ pc[t] = "scan" => m_fibers # <<>>
  <1>1. Take(t) => pc[t] = "scan" /\ m_fibers # <<>>
    BY DEF Take, Goto, At
  <1>2. Done(t) => pc[t] = "work"
    BY DEF Done, Goto, At
  <1>3. listExpiredCb(t) \/ ScheduleCb(t) => pc[t] \in {"expire", "cbs"}
    BY DEF listExpiredCb, ScheduleCb, Goto, At
  <1>4. HandleEvent(t) => pc[t] = "events"
    BY DEF HandleEvent, At
  <1> QED
    BY <1>1, <1>2, <1>3, <1>4 DEF Works


\* The threads that run a task or collect callbacks stay where they are.
StaysPut ==
    /\ UNCHANGED <<held, cbs>>
    /\ \A u \in Run : pc'[u] \in {"work", "cbs"} \/ pc[u] \in {"work", "cbs"} => pc'[u] = pc[u]

\* Only a thread that works changes what threads hold.
LEMMA OthersStay ==
  ASSUME TypeOK,
         \/ \E a \in Agents, w \in Items : Submits(a, w)
         \/ \E t \in Run : Idles(t)
         \/ Stops \/ Aside
  PROVE  StaysPut
  <1>1. ASSUME NEW a \in Agents, NEW w \in Items, Submits(a, w) PROVE StaysPut
    BY <1>1, SubmitMoves DEF StaysPut
  <1>2. ASSUME NEW t \in Run, Idles(t) PROVE StaysPut
    BY <1>2, IdleMoves, Threads DEF StaysPut, Moves
  <1>3. CASE Stops
    BY <1>3, StopMoves, Threads DEF StaysPut
  <1>4. CASE Aside
    BY <1>4, AsideMoves DEF StaysPut
  <1> QED
    BY <1>1, <1>2, <1>3, <1>4

\* Then an item held or collected before is so after.
LEMMA PlacesStay ==
  ASSUME StaysPut, NEW v
  PROVE  (InHand(v) => InHand(v)') /\ (InCbs(v) => InCbs(v)')
  BY DEF StaysPut, InHand, InCbs

\* The steps of SubmitEvent and SubmitTimer leave the queue, and put the item elsewhere.
LEMMA SubmitPlaces ==
  ASSUME TypeOK, NEW a \in Agents, NEW w \in Items, Submits(a, w)
  PROVE  \/ m_fibers' = Append(m_fibers, w) /\ where' = [where EXCEPT ![w] = "queue"]
         \/ /\ m_fibers' = m_fibers /\ where'[w] \in {"timer", "event"}
            /\ \A v \in Items : v # w => where'[v] = where[v]
  <1>1. SubmitTask(a, w) => m_fibers' = Append(m_fibers, w) /\ where' = [where EXCEPT ![w] = "queue"]
    BY DEF SubmitTask, scheduler
  <1>2. ASSUME SubmitEvent(a, w) \/ \E ms \in Delays : SubmitTimer(a, w, ms)
        PROVE  /\ m_fibers' = m_fibers
               /\ where' = [where EXCEPT ![w] = "timer"] \/ where' = [where EXCEPT ![w] = "event"]
    BY <1>2 DEF SubmitEvent, SubmitTimer, addEvent, addTimer, loopVars
  <1>3. where \in [Items -> {"new", "timer", "event", "queue", "cbs", "held", "done"}]
    BY DEF TypeOK
  <1> QED
    BY <1>1, <1>2, <1>3 DEF Submits

\* schedulerNoLock keeps the queued items in the queue and moves no other item.
LEMMA QueuePlaced ==
  ASSUME TypeOK, Placed, NEW w \in Items,
         m_fibers' = Append(m_fibers, w), where' = [where EXCEPT ![w] = "queue"],
         NEW v \in Items
  PROVE  /\ where'[v] = "queue" => InQueue(v)'
         /\ where'[v] # "queue" => where[v] = where'[v] /\ v # w
  <1>1. m_fibers \in Seq(Items) /\ (v # w => where'[v] = where[v]) /\ (v = w => where'[v] = "queue")
    BY DEF TypeOK
  <1>2. where'[v] = "queue" => v = w \/ InQueue(v)
    BY <1>1 DEF Placed
  <1>3. where'[v] = "queue" => \E i \in 1..Len(Append(m_fibers, w)) : Append(m_fibers, w)[i] = v
    BY <1>1, <1>2, Appended DEF InQueue
  <1> QED
    BY <1>1, <1>3 DEF InQueue

\* Placed is kept: an item leaves the queue, a thread or its list of callbacks only
\* to be somewhere else.
LEMMA PlacedKept ==
  ASSUME TypeOK, Flow, Placed, [Next]_vars
  PROVE  Placed'
  <1> SUFFICES ASSUME NEW v \in Items
               PROVE  /\ where'[v] = "queue" => InQueue(v)'
                      /\ where'[v] = "held" => InHand(v)'
                      /\ where'[v] = "cbs" => InCbs(v)'
    BY DEF Placed
  <1> DEFINE Here == /\ where'[v] = "queue" => InQueue(v)'
                     /\ where'[v] = "held" => InHand(v)'
                     /\ where'[v] = "cbs" => InCbs(v)'
  <1>0. /\ where[v] = "queue" => InQueue(v)
        /\ where[v] = "held" => InHand(v)
        /\ where[v] = "cbs" => InCbs(v)
    BY DEF Placed
  <1>1. ASSUME NEW a \in Agents, NEW w \in Items, Submits(a, w) PROVE Here
    <2>1. StaysPut
      BY <1>1, OthersStay
    <2>2. (InHand(v) => InHand(v)') /\ (InCbs(v) => InCbs(v)')
      BY <2>1, PlacesStay
    <2>3. CASE m_fibers' = Append(m_fibers, w) /\ where' = [where EXCEPT ![w] = "queue"]
      BY <1>0, <2>2, <2>3, QueuePlaced
    <2>4. CASE /\ m_fibers' = m_fibers /\ where'[w] \in {"timer", "event"}
               /\ \A u \in Items : u # w => where'[u] = where[u]
      <3>1. InQueue(v)' = InQueue(v)
        BY <2>4 DEF InQueue
      <3> QED
        BY <1>0, <2>2, <2>4, <3>1
    <2> QED
      BY <1>1, <2>3, <2>4, SubmitPlaces
  <1>2. ASSUME NEW t \in Run, Works(t) PROVE Here
    <2>1. CASE Take(t)
      <3>1. /\ t \in Agents /\ pc[t] = "scan" /\ pc' = [pc EXCEPT ![t] = "work"]
            /\ m_fibers \in Seq(Items) /\ m_fibers # <<>> /\ m_fibers' = Tail(m_fibers)
            /\ held' = [held EXCEPT ![t] = Head(m_fibers)]
            /\ where' = [where EXCEPT ![Head(m_fibers)] = "held"]
            /\ cbs' = cbs
        BY <2>1, Threads DEF Take, Goto, At, TypeOK
      <3>2. CASE v = Head(m_fibers)
        <4>1. where'[v] = "held" /\ pc'[t] = "work" /\ held'[t] = v
          BY <3>1, <3>2 DEF TypeOK
        <4> QED
          BY <4>1 DEF InHand
      <3>3. CASE v # Head(m_fibers)
        <4>1. where'[v] = where[v]
          BY <3>1, <3>3 DEF TypeOK
        <4>2. ASSUME InQueue(v) PROVE InQueue(v)'
          <5>1. PICK i \in 1..Len(m_fibers) : m_fibers[i] = v
            BY <4>2 DEF InQueue
          <5>2. i # 1
            BY <3>1, <3>3, <5>1
          <5>3. i - 1 \in 1..Len(m_fibers') /\ m_fibers'[i - 1] = v
            BY <3>1, <5>1, <5>2
          <5> QED
            BY <5>3 DEF InQueue
        <4>3. \A u \in Run : pc[u] \in {"work", "cbs"} => pc'[u] = pc[u] /\ held'[u] = held[u]
          BY <3>1 DEF TypeOK
        <4>4. (InHand(v) => InHand(v)') /\ (InCbs(v) => InCbs(v)')
          BY <3>1, <4>3 DEF InHand, InCbs
        <4> QED
          BY <1>0, <4>1, <4>2, <4>4
      <3> QED
        BY <3>2, <3>3
    <2>2. CASE Done(t)
      <3>1. /\ t \in Agents /\ pc[t] = "work" /\ pc' = [pc EXCEPT ![t] = "scan"]
            /\ held' = [held EXCEPT ![t] = NoItem]
            /\ where' = [where EXCEPT ![held[t]] = "done"]
            /\ UNCHANGED <<cbs, m_fibers>>
        BY <2>2, Threads DEF Done, Goto, At, TypeOK
      <3>2. CASE v = held[t]
        BY <3>1, <3>2 DEF TypeOK
      <3>3. CASE v # held[t]
        <4>1. where'[v] = where[v]
          BY <3>1, <3>3 DEF TypeOK
        <4>2. \A u \in Run : u # t => pc'[u] = pc[u] /\ held'[u] = held[u]
          BY <3>1, Threads DEF TypeOK
        <4>3. (InHand(v) => InHand(v)') /\ (InCbs(v) => InCbs(v)')
          BY <3>1, <3>3, <4>2 DEF InHand, InCbs
        <4>4. InQueue(v)' = InQueue(v)
          BY <3>1 DEF InQueue
        <4> QED
          BY <1>0, <4>1, <4>3, <4>4
      <3> QED
        BY <3>2, <3>3
    <2>3. CASE listExpiredCb(t)
      <3>1. /\ pc[t] = "expire" /\ pc' = [pc EXCEPT ![t] = "cbs"]
            /\ UNCHANGED <<held, m_fibers>>
        BY <2>3 DEF listExpiredCb, Goto, At
      <3>2. PICK due \in SUBSET m_timers :
              /\ where' = [w \in Items |-> IF w \in due THEN "cbs" ELSE where[w]]
              /\ cbs' = [cbs EXCEPT ![t] = due]
        BY <2>3 DEF listExpiredCb
      <3>3. /\ pc'[t] = "cbs" /\ cbs'[t] = due
            /\ \A u \in Run : u # t => pc'[u] = pc[u] /\ cbs'[u] = cbs[u]
        BY <3>1, <3>2, Threads DEF TypeOK
      <3>4. InQueue(v)' = InQueue(v)
        BY <3>1 DEF InQueue
      <3>5. (InHand(v) => InHand(v)') /\ (InCbs(v) => InCbs(v)')
        BY <3>1, <3>3 DEF InHand, InCbs
      <3>6. v \in due => where'[v] = "cbs" /\ InCbs(v)'
        BY <3>2, <3>3 DEF InCbs
      <3>7. v \notin due => where'[v] = where[v]
        BY <3>2
      <3> QED
        BY <1>0, <3>4, <3>5, <3>6, <3>7
    <2>4. CASE ScheduleCb(t)
      <3>1. CASE /\ UNCHANGED <<where, m_fibers, cbs>> /\ cbs[t] = {}
                 /\ pc' = [pc EXCEPT ![t] = "events"]
        <4>1. held' = held /\ pc[t] = "cbs" /\ \A u \in Run : u # t => pc'[u] = pc[u]
          BY <2>4, <3>1, Threads DEF ScheduleCb, Goto, At, TypeOK
        <4>2. (InHand(v) => InHand(v)') /\ (InCbs(v) => InCbs(v)') /\ InQueue(v)' = InQueue(v)
          BY <3>1, <4>1 DEF InHand, InCbs, InQueue
        <4> QED
          BY <1>0, <3>1, <4>2
      <3>2. ASSUME NEW w \in cbs[t], scheduler(t, w),
                   cbs' = [cbs EXCEPT ![t] = @ \ {w}], pc' = pc
            PROVE  Here
        <4>1. w \in Items /\ held' = held
          BY <2>4, <3>2 DEF ScheduleCb, TypeOK
        <4>2. \A u \in Run : v # w /\ v \in cbs[u] => v \in cbs'[u]
          BY <3>2 DEF TypeOK
        <4>3. (InHand(v) => InHand(v)') /\ (v # w /\ InCbs(v) => InCbs(v)')
          BY <3>2, <4>1, <4>2 DEF InHand, InCbs
        <4>4. /\ where'[v] = "queue" => InQueue(v)'
              /\ where'[v] # "queue" => where[v] = where'[v] /\ v # w
          BY <3>2, <4>1, QueuePlaced DEF scheduler
        <4> QED
          BY <1>0, <4>3, <4>4
      <3> QED
        BY <2>4, <3>1, <3>2 DEF ScheduleCb, Goto
    <2>5. CASE HandleEvent(t)
      <3>1. pc[t] = "events" /\ UNCHANGED <<held, cbs>>
        BY <2>5 DEF HandleEvent, At
      <3>2. CASE UNCHANGED <<pc, where, m_fibers>>
        BY <1>0, <3>1, <3>2 DEF InQueue, InHand, InCbs
      <3>3. ASSUME NEW w \in events[t], w # NoItem, scheduler(t, w),
                   pc' = [pc EXCEPT ![t] = "unpend"]
            PROVE  Here
        <4>1. w \in Items
          BY <3>3 DEF TypeOK
        <4>2. StaysPut
          BY <3>1, <3>3, Threads DEF TypeOK, StaysPut
        <4>3. (InHand(v) => InHand(v)') /\ (InCbs(v) => InCbs(v)')
          BY <4>2, PlacesStay
        <4>4. /\ where'[v] = "queue" => InQueue(v)'
              /\ where'[v] # "queue" => where[v] = where'[v] /\ v # w
          BY <3>3, <4>1, QueuePlaced DEF scheduler
        <4> QED
          BY <1>0, <4>3, <4>4
      <3> QED
        BY <2>5, <3>2, <3>3 DEF HandleEvent
    <2> QED
      BY <1>2, <2>1, <2>2, <2>3, <2>4, <2>5 DEF Works
  <1>3. ASSUME (\E t \in Run : Idles(t)) \/ Stops \/ Aside PROVE Here
    <2>1. UNCHANGED <<where, m_fibers>> /\ StaysPut
      BY <1>3, IdleMoves, StopMoves, AsideMoves, OthersStay
    <2>2. InQueue(v)' = InQueue(v) /\ (InHand(v) => InHand(v)') /\ (InCbs(v) => InCbs(v)')
      BY <2>1, PlacesStay DEF InQueue
    <2> QED
      BY <1>0, <2>1, <2>2
  <1> QED
    BY <1>1, <1>2, <1>3, Kinds


\* The items of a queue q are there once, and f says that they are queued.
OnceIn(q, f) ==
    /\ \A i \in 1..Len(q) : f[q[i]] = "queue"
    /\ \A i, j \in 1..Len(q) : q[i] = q[j] => i = j

\* An item that was not in the queue joins it at the end.
LEMMA Joins ==
  ASSUME NEW q \in Seq(Items), NEW w \in Items,
         NEW f \in [Items -> {"new", "timer", "event", "queue", "cbs", "held", "done"}],
         f[w] # "queue", OnceIn(q, f)
  PROVE  OnceIn(Append(q, w), [f EXCEPT ![w] = "queue"])
  <1>1. \A i \in 1..Len(Append(q, w)) :
          (i \in 1..Len(q) /\ Append(q, w)[i] = q[i]) \/ (i = Len(q) + 1 /\ Append(q, w)[i] = w)
    OBVIOUS
  <1>2. \A i \in 1..Len(q) : q[i] \in Items /\ q[i] # w
    BY DEF OnceIn
  <1>3. \A i \in 1..Len(Append(q, w)) : [f EXCEPT ![w] = "queue"][Append(q, w)[i]] = "queue"
    BY <1>1, <1>2 DEF OnceIn
  <1>4. \A i, j \in 1..Len(Append(q, w)) : Append(q, w)[i] = Append(q, w)[j] => i = j
    BY <1>1, <1>2 DEF OnceIn
  <1> QED
    BY <1>3, <1>4, Zenon DEF OnceIn


\* schedulerNoLock of an item that is not queued.
LEMMA QueueSingle ==
  ASSUME TypeOK, QueueOnce, NEW w \in Items, where[w] # "queue",
         m_fibers' = Append(m_fibers, w), where' = [where EXCEPT ![w] = "queue"]
  PROVE  QueueOnce'
  <1>1. /\ m_fibers \in Seq(Items)
        /\ where \in [Items -> {"new", "timer", "event", "queue", "cbs", "held", "done"}]
    BY DEF TypeOK
  <1>2. OnceIn(m_fibers, where)
    BY DEF QueueOnce, OnceIn
  <1>3. OnceIn(Append(m_fibers, w), [where EXCEPT ![w] = "queue"])
    BY <1>1, <1>2, Joins
  <1>4. OnceIn(m_fibers', where')
    BY <1>3
  <1> QED
    BY <1>4, Zenon DEF QueueOnce, OnceIn

\* What is in the queue stays there once, when no queued item moves.
LEMMA QueueStays ==
  ASSUME TypeOK, QueueOnce, m_fibers' = m_fibers,
         \A v \in Items : where[v] = "queue" => where'[v] = where[v]
  PROVE  QueueOnce'
  <1>1. \A i \in 1..Len(m_fibers) : m_fibers[i] \in Items
    BY DEF TypeOK
  <1> QED
    BY <1>1 DEF QueueOnce

\* The same for the items that are held, and for those that are collected.
LEMMA OnceStays ==
  ASSUME TypeOK, HandOnce, CbsOnce, StaysPut,
         \A v \in Items : where[v] \in {"held", "cbs"} => where'[v] = where[v]
  PROVE  HandOnce' /\ CbsOnce'
  <1>1. HandOnce'
    BY DEF HandOnce, StaysPut
  <1>2. \A u \in Run : \A v \in cbs[u] : v \in Items
    BY DEF TypeOK
  <1>3. CbsOnce'
    BY <1>2 DEF CbsOnce, StaysPut
  <1> QED
    BY <1>1, <1>3

\* Single is kept: an item is put where it was not.
LEMMA SingleKept ==
  ASSUME TypeOK, Flow, Single, [Next]_vars
  PROVE  Single'
  <1>0. QueueOnce /\ HandOnce /\ CbsOnce
    BY DEF Single
  <1>1. ASSUME NEW a \in Agents, NEW w \in Items, Submits(a, w) PROVE Single'
    <2>1. StaysPut /\ where[w] = "new"
      BY <1>1, SubmitMoves, OthersStay
    <2>2. CASE m_fibers' = Append(m_fibers, w) /\ where' = [where EXCEPT ![w] = "queue"]
      <3>1. QueueOnce'
        BY <1>0, <2>1, <2>2, QueueSingle
      <3>2. \A v \in Items : where[v] \in {"held", "cbs"} => where'[v] = where[v]
        BY <2>1, <2>2 DEF TypeOK
      <3> QED
        BY <1>0, <2>1, <3>1, <3>2, OnceStays DEF Single
    <2>3. CASE /\ m_fibers' = m_fibers /\ where'[w] \in {"timer", "event"}
               /\ \A v \in Items : v # w => where'[v] = where[v]
      <3>1. \A v \in Items : where[v] \in {"queue", "held", "cbs"} => where'[v] = where[v]
        BY <2>1, <2>3
      <3> QED
        BY <1>0, <2>1, <2>3, <3>1, QueueStays, OnceStays DEF Single
    <2> QED
      BY <1>1, <2>2, <2>3, SubmitPlaces
  <1>2. ASSUME NEW t \in Run, Works(t) PROVE Single'
    <2>1. CASE Take(t)
      <3> DEFINE h == Head(m_fibers)
      <3>1. /\ pc[t] = "scan" /\ pc' = [pc EXCEPT ![t] = "work"] /\ cbs' = cbs
            /\ m_fibers \in Seq(Items) /\ m_fibers # <<>> /\ m_fibers' = Tail(m_fibers)
            /\ held' = [held EXCEPT ![t] = h] /\ where' = [where EXCEPT ![h] = "held"]
        BY <2>1 DEF Take, Goto, At, TypeOK
      <3>2. h \in Items /\ 1 \in 1..Len(m_fibers) /\ h = m_fibers[1] /\ where[h] = "queue"
        BY <1>0, <3>1 DEF QueueOnce
      <3>3. where'[h] = "held" /\ \A v \in Items : v # h => where'[v] = where[v]
        BY <3>1, <3>2 DEF TypeOK
      <3>4. /\ pc'[t] = "work" /\ held'[t] = h
            /\ \A u \in Run : u # t => pc'[u] = pc[u] /\ held'[u] = held[u]
        BY <3>1, Threads DEF TypeOK
      <3>5. \A i \in 1..Len(m_fibers') : /\ i + 1 \in 1..Len(m_fibers) /\ i + 1 # 1
                                         /\ m_fibers'[i] = m_fibers[i + 1] /\ m_fibers'[i] \in Items
        BY <3>1
      <3> HIDE DEF h
      <3>6. QueueOnce'
        <4>1. \A i \in 1..Len(m_fibers') : m_fibers'[i] # h
          BY <1>0, <3>2, <3>5 DEF QueueOnce
        <4>2. \A i, j \in 1..Len(m_fibers') : m_fibers'[i] = m_fibers'[j] => i + 1 = j + 1
          BY <1>0, <3>5 DEF QueueOnce
        <4>3. \A i \in 1..Len(m_fibers') : where'[m_fibers'[i]] = "queue"
          BY <1>0, <3>3, <3>5, <4>1 DEF QueueOnce
        <4>4. \A i, j \in 1..Len(m_fibers') : m_fibers'[i] = m_fibers'[j] => i = j
          BY <4>2
        <4> QED
          BY <4>3, <4>4, Zenon DEF QueueOnce
      <3>7. HandOnce'
        BY <1>0, <3>2, <3>3, <3>4 DEF HandOnce
      <3>8. CbsOnce'
        <4>1. \A u \in Run : \A w \in cbs[u] : w \in Items /\ pc[u] = "cbs" /\ where[w] = "cbs"
          BY <1>0 DEF CbsOnce, TypeOK
        <4>2. \A u \in Run : \A w \in cbs'[u] : pc'[u] = "cbs" /\ where'[w] = "cbs"
          BY <3>1, <3>2, <3>3, <3>4, <4>1
        <4> QED
          BY <1>0, <3>1, <4>2 DEF CbsOnce
      <3> QED
        BY <3>6, <3>7, <3>8 DEF Single
    <2>2. CASE Done(t)
      <3>1. /\ pc[t] = "work" /\ pc' = [pc EXCEPT ![t] = "scan"]
            /\ held' = [held EXCEPT ![t] = NoItem]
            /\ where' = [where EXCEPT ![held[t]] = "done"]
            /\ UNCHANGED <<cbs, m_fibers>>
        BY <2>2 DEF Done, Goto, At
      <3>2. held[t] \in Items /\ where[held[t]] = "held"
        BY <1>0, <3>1 DEF HandOnce
      <3>3. \A v \in Items : v # held[t] => where'[v] = where[v]
        BY <3>1, <3>2 DEF TypeOK
      <3>4. pc'[t] = "scan" /\ \A u \in Run : u # t => pc'[u] = pc[u] /\ held'[u] = held[u]
        BY <3>1, Threads DEF TypeOK
      <3>5. QueueOnce'
        BY <1>0, <3>1, <3>2, <3>3, QueueStays
      <3>6. HandOnce'
        BY <1>0, <3>1, <3>3, <3>4 DEF HandOnce
      <3>7. \A u \in Run : \A w \in cbs[u] : w \in Items /\ pc[u] = "cbs" /\ where[w] = "cbs"
        BY <1>0 DEF CbsOnce, TypeOK
      <3>8. CbsOnce'
        BY <1>0, <3>1, <3>2, <3>3, <3>4, <3>7 DEF CbsOnce
      <3> QED
        BY <3>5, <3>6, <3>8 DEF Single
    <2>3. CASE listExpiredCb(t)
      <3>1. /\ pc[t] = "expire" /\ pc' = [pc EXCEPT ![t] = "cbs"]
            /\ UNCHANGED <<held, m_fibers>>
        BY <2>3 DEF listExpiredCb, Goto, At
      <3>2. PICK due \in SUBSET m_timers :
              /\ where' = [w \in Items |-> IF w \in due THEN "cbs" ELSE where[w]]
              /\ cbs' = [cbs EXCEPT ![t] = due]
        BY <2>3 DEF listExpiredCb
      <3>3. \A v \in Items : /\ v \in due => where[v] = "timer" /\ where'[v] = "cbs"
                             /\ v \notin due => where'[v] = where[v]
        BY <3>2 DEF m_timers
      <3>4. /\ due \subseteq Items /\ pc'[t] = "cbs" /\ cbs'[t] = due
            /\ \A u \in Run : u # t => pc'[u] = pc[u] /\ cbs'[u] = cbs[u]
        BY <3>1, <3>2, Threads DEF TypeOK, m_timers
      <3>5. QueueOnce'
        BY <1>0, <3>1, <3>3, QueueStays
      <3>6. HandOnce'
        BY <1>0, <3>1, <3>3, <3>4 DEF HandOnce
      <3>7. \A u \in Run : \A w \in cbs[u] : w \in Items /\ pc[u] = "cbs" /\ where[w] = "cbs"
        BY <1>0 DEF CbsOnce, TypeOK
      <3>8. \A u \in Run : \A w \in cbs'[u] : pc'[u] = "cbs" /\ where'[w] = "cbs"
        BY <3>3, <3>4, <3>7
      <3>9. ASSUME NEW u \in Run, NEW v \in Run, NEW w \in cbs'[u], w \in cbs'[v] PROVE u = v
        <4>1. CASE w \in due
          <5>1. w \in Items /\ where[w] = "timer"
            BY <3>3, <3>4, <4>1
          <5>2. \A x \in Run : w \notin cbs[x]
            BY <3>7, <5>1
          <5>3. \A x \in Run : w \in cbs'[x] => x = t
            BY <3>4, <5>2
          <5> QED
            BY <3>9, <5>3
        <4>2. CASE w \notin due
          BY <1>0, <3>4, <3>9, <4>2 DEF CbsOnce
        <4> QED
          BY <4>1, <4>2
      <3>10. CbsOnce'
        BY <3>8, <3>9 DEF CbsOnce
      <3> QED
        BY <3>5, <3>6, <3>10 DEF Single
    <2>4. CASE ScheduleCb(t)
      <3>1. CASE /\ UNCHANGED <<where, m_fibers, cbs>> /\ cbs[t] = {}
                 /\ pc' = [pc EXCEPT ![t] = "events"]
        <4>1. held' = held /\ pc[t] = "cbs"
          BY <2>4, <3>1 DEF ScheduleCb, Goto, At
        <4>2. pc'[t] = "events" /\ \A u \in Run : u # t => pc'[u] = pc[u]
          BY <3>1, Threads DEF TypeOK
        <4>3. HandOnce' /\ CbsOnce'
          BY <1>0, <3>1, <4>1, <4>2 DEF HandOnce, CbsOnce
        <4> QED
          BY <1>0, <3>1, <4>3, QueueStays DEF Single
      <3>2. ASSUME NEW w \in cbs[t], scheduler(t, w),
                   cbs' = [cbs EXCEPT ![t] = @ \ {w}], pc' = pc
            PROVE  Single'
        <4>1. w \in Items /\ where[w] = "cbs" /\ held' = held
          BY <1>0, <2>4, <3>2 DEF ScheduleCb, CbsOnce, TypeOK
        <4>2. /\ cbs'[t] = cbs[t] \ {w}
              /\ \A u \in Run : u # t => cbs'[u] = cbs[u] /\ w \notin cbs[u]
          BY <1>0, <3>2 DEF TypeOK, CbsOnce
        <4>3. \A u \in Run : \A v \in cbs'[u] : v \in cbs[u] /\ v # w
          BY <4>2
        <4>4. \A v \in Items : v # w => where'[v] = where[v]
          BY <3>2, <4>1 DEF TypeOK, scheduler
        <4>5. \A u \in Run : \A v \in cbs[u] : v \in Items
          BY DEF TypeOK
        <4>6. CbsOnce'
          BY <1>0, <3>2, <4>3, <4>4, <4>5 DEF CbsOnce
        <4>7. QueueOnce'
          BY <1>0, <3>2, <4>1, QueueSingle DEF scheduler
        <4>8. HandOnce'
          BY <1>0, <3>2, <4>1, <4>4 DEF HandOnce
        <4> QED
          BY <4>6, <4>7, <4>8 DEF Single
      <3> QED
        BY <2>4, <3>1, <3>2 DEF ScheduleCb, Goto
    <2>5. CASE HandleEvent(t)
      <3>1. pc[t] = "events" /\ UNCHANGED <<held, cbs>>
        BY <2>5 DEF HandleEvent, At
      <3>2. CASE UNCHANGED <<pc, where, m_fibers>>
        BY <1>0, <3>1, <3>2, QueueStays, OnceStays DEF Single, StaysPut
      <3>3. ASSUME NEW w \in events[t], w # NoItem, where[w] = "event", scheduler(t, w),
                   pc' = [pc EXCEPT ![t] = "unpend"]
            PROVE  Single'
        <4>1. w \in Items
          BY <3>3 DEF TypeOK
        <4>2. StaysPut
          BY <3>1, <3>3, Threads DEF TypeOK, StaysPut
        <4>3. QueueOnce'
          BY <1>0, <3>3, <4>1, QueueSingle DEF scheduler
        <4>4. \A v \in Items : where[v] \in {"held", "cbs"} => where'[v] = where[v]
          BY <3>3, <4>1 DEF scheduler, TypeOK
        <4> QED
          BY <1>0, <4>2, <4>3, <4>4, OnceStays DEF Single
      <3> QED
        BY <2>5, <3>2, <3>3 DEF HandleEvent
    <2> QED
      BY <1>2, <2>1, <2>2, <2>3, <2>4, <2>5 DEF Works
  <1>3. ASSUME (\E t \in Run : Idles(t)) \/ Stops \/ Aside PROVE Single'
    <2>1. UNCHANGED <<where, m_fibers>> /\ StaysPut
      BY <1>3, IdleMoves, StopMoves, AsideMoves, OthersStay
    <2> QED
      BY <1>0, <2>1, QueueStays, OnceStays DEF Single
  <1> QED
    BY <1>1, <1>2, <1>3, Kinds

=============================================================================
