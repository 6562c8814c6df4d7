-------------------------- MODULE SchedulerProofs ---------------------------
(***************************************************************************)
(* Theorems about Scheduler, for any set of threads and any set of jobs:   *)
(* its safety properties, and that it implements TaskPool.                 *)
(*                                                                         *)
(* The inductive invariant has three parts.  Counts ties the two atomic    *)
(* counters to the program counters; Phase ties the caller's progress      *)
(* through stop() to the threads and says that the decision to leave run() *)
(* is final; JobInv follows each job from the queue to a thread and back.  *)
(***************************************************************************)
EXTENDS Scheduler, TLAPS

Busy == {t \in Run : pc[t] \in {"resume", "fiber", "swap", "after"}}

InIdle == {t \in Run : pc[t] \in {"idle", "idleBack"}}

Counts ==
    /\ m_activeThreadCount = Cardinality(Busy)
    /\ m_idleThreadCount = Cardinality(InIdle)

Phase ==
    /\ m_stopping <=> main \notin {"init", "started"}
    /\ main = "init" => \A t \in Run : pc[t] = "off"
    /\ main \in {"init", "started"} /\ UseCaller => pc[Caller] = "off"
    /\ idleTerm # {} => m_stopping /\ m_fibers = <<>> /\ Busy = {}
    /\ \A t \in Run : pc[t] = "exited" => t \in idleTerm
    /\ main \in {"join", "stopped", "destroyed"} /\ UseCaller => pc[Caller] = "exited"
    /\ main \in {"stopped", "destroyed"} => \A w \in Workers : pc[w] = "exited"

\* A fiber that requeues itself is out of other threads' reach.
Disciplined ==
    Unpinned => \A t, u \in Run : t = u

QueuedOnce ==
    \A i, k \in DOMAIN m_fibers : m_fibers[i].job = m_fibers[k].job => i = k

OneHolder ==
    \A t, u \in Busy : task[t].job = task[u].job => t = u

\* A queued fiber is READY, or it is about to be: it is on the only thread that
\* may take it.
ItemInv(q) ==
    /\ q.job \in given
    /\ q.cb => m_state[q.job] = "NONE"
    /\ ~q.cb => m_state[q.job] \in {"READY", "RUNNING"}
    /\ m_state[q.job] = "RUNNING" => \E t \in Busy : task[t].job = q.job
    /\ \A t \in Busy : task[t].job = q.job =>
           /\ q.thread = t \/ \A u \in Run : u = t
           /\ pc[t] # "resume"

QueueInv ==
    \A i \in DOMAIN m_fibers : ItemInv(m_fibers[i])

\* The fiber a busy thread holds is in the state that the thread's place in
\* run() calls for, and is queued just when it has requeued itself.
HolderInv(t, j) ==
    /\ task[t] \in Task
    /\ j \in given
    /\ pc[t] = "resume" =>
          /\ ~Queued(j) /\ j \notin armed
          /\ m_state[j] = IF task[t].cb THEN "NONE" ELSE "READY"
    /\ pc[t] = "fiber" =>
          m_state[j] = "RUNNING" /\ (j \in armed <=> Queued(j))
    /\ pc[t] \in {"swap", "after"} =>
          /\ j \notin armed
          /\ \/ m_state[j] = "TERM" /\ ~Queued(j)
             \/ m_state[j] = "READY" /\ Queued(j)

ThreadInv ==
    /\ \A t \in Run \ Busy : task[t] = NoTask
    /\ \A t \in Busy : HolderInv(t, task[t].job)

ArmedInv ==
    \A j \in armed :
        /\ \E t \in Busy : pc[t] = "fiber" /\ task[t].job = j
        /\ yields[j] < MaxYields

FreshInv ==
    \A j \in Jobs \ given : m_state[j] = IF j \in Callbacks THEN "NONE" ELSE "READY"

JobInv ==
    /\ QueuedOnce
    /\ OneHolder
    /\ QueueInv
    /\ ThreadInv
    /\ ArmedInv
    /\ FreshInv
    /\ NoLostJob

IInv == TypeOK /\ Counts /\ Phase /\ JobInv /\ NoFault

-----------------------------------------------------------------------------
(* The queue operations, and what a thread holds.                          *)

\* What schedulerNoLock's push_back does to the queue.
LEMMA AppendFacts ==
    ASSUME NEW S, NEW q \in Seq(S), NEW x \in S
    PROVE  /\ Append(q, x) \in Seq(S)
           /\ DOMAIN Append(q, x) = DOMAIN q \union {Len(q) + 1}
           /\ Len(q) + 1 \notin DOMAIN q
           /\ \A k \in DOMAIN q : Append(q, x)[k] = q[k]
           /\ Append(q, x)[Len(q) + 1] = x
  OBVIOUS

LEMMA ConcatFacts ==
    ASSUME NEW S, NEW a \in Seq(S), NEW b \in Seq(S)
    PROVE  /\ a \o b \in Seq(S)
           /\ Len(a \o b) = Len(a) + Len(b)
           /\ \A k \in 1..(Len(a) + Len(b)) :
                 (a \o b)[k] = IF k <= Len(a) THEN a[k] ELSE b[k - Len(a)]
  OBVIOUS

\* What run()'s erase does to the queue: the rest stays, in its order.
LEMMA RemoveFacts ==
    ASSUME NEW S, NEW q \in Seq(S), NEW i \in DOMAIN q
    PROVE  /\ RemoveTask(q, i) \in Seq(S)
           /\ DOMAIN RemoveTask(q, i) = 1..(Len(q) - 1)
           /\ \A k \in 1..(Len(q) - 1) :
                 RemoveTask(q, i)[k] = IF k < i THEN q[k] ELSE q[k + 1]
  <1> DEFINE a == SubSeq(q, 1, i - 1)
             b == SubSeq(q, i + 1, Len(q))
  <1>0. Len(q) \in Nat /\ i \in 1..Len(q)
    OBVIOUS
  <1>1. /\ a \in Seq(S)
        /\ Len(a) = i - 1
        /\ \A k \in 1..(i - 1) : a[k] = q[k]
    OBVIOUS
  <1>2. /\ b \in Seq(S)
        /\ Len(b) = Len(q) - i
        /\ \A k \in 1..(Len(q) - i) : b[k] = q[k + i]
    OBVIOUS
  <1>3. RemoveTask(q, i) = a \o b
    BY DEF RemoveTask
  <1> HIDE DEF a, b
  <1>4. /\ a \o b \in Seq(S)
        /\ Len(a \o b) = Len(q) - 1
        /\ \A k \in 1..(Len(q) - 1) :
              (a \o b)[k] = IF k <= Len(a) THEN a[k] ELSE b[k - Len(a)]
    <2>1. Len(a) + Len(b) = Len(q) - 1
      BY <1>0, <1>1, <1>2
    <2>2. /\ a \o b \in Seq(S)
          /\ Len(a \o b) = Len(a) + Len(b)
          /\ \A k \in 1..(Len(a) + Len(b)) :
                (a \o b)[k] = IF k <= Len(a) THEN a[k] ELSE b[k - Len(a)]
      BY <1>1, <1>2, ConcatFacts, Zenon
    <2>3. QED
      BY <2>1, <2>2, Zenon
  <1>5. ASSUME NEW k \in 1..(Len(q) - 1)
        PROVE  (a \o b)[k] = IF k < i THEN q[k] ELSE q[k + 1]
    <2>1. CASE k < i
      BY <1>0, <1>1, <1>4, <2>1
    <2>2. CASE ~(k < i)
      <3>1. /\ ~(k <= Len(a))
            /\ k - Len(a) \in 1..(Len(q) - i)
            /\ (k - Len(a)) + i = k + 1
        BY <1>0, <1>1, <2>2
      <3>2. b[k - Len(a)] = q[k + 1]
        BY <1>2, <3>1
      <3>3. QED
        BY <1>4, <2>2, <3>1, <3>2
    <2>3. QED
      BY Zenon, <2>1, <2>2
  <1>6. QED
    BY <1>0, <1>3, <1>4, <1>5

\* What erase leaves, in terms of the tasks: every task but the i-th.
LEMMA RemoveMembers ==
    ASSUME NEW S, NEW q \in Seq(S), NEW i \in DOMAIN q,
           \A k, l \in DOMAIN q : q[k].job = q[l].job => k = l
    PROVE  LET r == RemoveTask(q, i) IN
           /\ \A k \in DOMAIN r : \E l \in DOMAIN q : l # i /\ r[k] = q[l]
           /\ \A l \in DOMAIN q : l # i => \E k \in DOMAIN r : r[k] = q[l]
           /\ \A k, l \in DOMAIN r : r[k].job = r[l].job => k = l
  <1> DEFINE r == RemoveTask(q, i)
             src(k) == IF k < i THEN k ELSE k + 1
  <1>1. /\ DOMAIN r = 1..(Len(q) - 1)
        /\ \A k \in 1..(Len(q) - 1) : r[k] = q[src(k)]
    BY Zenon, RemoveFacts
  <1>2. Len(q) \in Nat /\ DOMAIN q = 1..Len(q) /\ i \in 1..Len(q)
    OBVIOUS
  <1> HIDE DEF r
  <1>3. \A k \in DOMAIN r : src(k) \in DOMAIN q /\ src(k) # i
    BY <1>1, <1>2
  <1>4. \A k, l \in DOMAIN r : src(k) = src(l) => k = l
    BY <1>1, <1>2
  <1>5. ASSUME NEW l \in DOMAIN q, l # i
        PROVE  \E k \in DOMAIN r : src(k) = l
    <2>1. CASE l < i
      <3>1. l \in DOMAIN r /\ src(l) = l
        BY <1>1, <1>2, <2>1
      <3>2. QED
        BY <3>1
    <2>2. CASE ~(l < i)
      <3>1. l - 1 \in DOMAIN r /\ src(l - 1) = l
        BY <1>1, <1>2, <1>5, <2>2
      <3>2. QED
        BY <3>1
    <2>3. QED
      BY <2>1, <2>2
  <1> HIDE DEF src
  <1>6. \A k \in DOMAIN r : r[k] = q[src(k)]
    BY <1>1
  <1>7. /\ \A k \in DOMAIN r : \E l \in DOMAIN q : l # i /\ r[k] = q[l]
        /\ \A l \in DOMAIN q : l # i => \E k \in DOMAIN r : r[k] = q[l]
    BY <1>3, <1>5, <1>6
  <1>8. \A k, l \in DOMAIN r : r[k].job = r[l].job => k = l
    BY <1>3, <1>4, <1>6
  <1>9. QED
    BY <1>7, <1>8 DEF r

LEMMA PushType ==
    ASSUME TypeOK, NEW j \in Jobs, NEW cb \in BOOLEAN, NEW thr \in Run \union {AnyThread},
           schedulerNoLock(j, cb, thr)
    PROVE  m_fibers' \in Seq(Task)
  BY DEF TypeOK, schedulerNoLock, Task

\* A thread that has taken a task holds a real one.
LEMMA HeldTask ==
    ASSUME IInv, NEW t \in Busy
    PROVE  t \in Run /\ task[t] \in Task /\ task[t].job \in Jobs /\ task[t].cb \in BOOLEAN
  BY DEF IInv, JobInv, ThreadInv, HolderInv, Busy, Task

LEMMA CallerRuns ==
    /\ \A w \in Workers : w \in Run /\ w # Caller
    /\ Caller \in Run <=> UseCaller
    /\ \A t \in Run : t = Caller \/ t \in Workers
  BY SchedulerAssumption DEF Run

-----------------------------------------------------------------------------
(* The way of a job: handing over, taking, resuming, suspending, ending and*)
(* letting go of a job preserve JobInv.                                    *)

LEMMA JobInit == Init => JobInv
  <1> SUFFICES ASSUME Init PROVE JobInv
    OBVIOUS
  <1>1. Busy = {} /\ DOMAIN m_fibers = {}
    BY DEF Init, Busy
  <1>2. QED
    BY <1>1 DEF Init, JobInv, QueuedOnce, OneHolder, QueueInv, ThreadInv, ArmedInv,
                  FreshInv, NoLostJob

\* Steps that move no job.
LEMMA JobFrame ==
    ASSUME IInv, UNCHANGED <<m_fibers, task, m_state, armed, yields, given>>,
           Busy' = Busy, \A t \in Busy : pc'[t] = pc[t]
    PROVE  JobInv'
  <1>0. /\ TypeOK /\ QueuedOnce /\ OneHolder /\ QueueInv
        /\ ThreadInv /\ ArmedInv /\ FreshInv /\ NoLostJob
    BY DEF IInv, JobInv
  <1>1. \A j : Queued(j)' <=> Queued(j)
    BY DEF Queued
  <1>2. QueuedOnce' /\ OneHolder'
    BY <1>0 DEF QueuedOnce, OneHolder
  <1>3. QueueInv'
    BY <1>0 DEF QueueInv, ItemInv
  <1>4. ThreadInv'
    BY <1>0, <1>1 DEF ThreadInv, HolderInv
  <1>5. ArmedInv' /\ FreshInv' /\ NoLostJob'
    <2>1. ArmedInv'
      BY <1>0, <1>1 DEF ArmedInv
    <2>2. FreshInv'
      BY <1>0, <1>1 DEF FreshInv
    <2>3. NoLostJob'
      BY <1>0, <1>1 DEF NoLostJob
    <2>4. QED
      BY <2>1, <2>2, <2>3
  <1>6. QED
    BY Zenon, <1>2, <1>3, <1>4, <1>5 DEF JobInv

\* A new job enters the queue.
LEMMA JobHand ==
    ASSUME IInv, NEW j \in Jobs, NEW thr \in Run \union {AnyThread}, Hand(j, thr),
           UNCHANGED <<pc, task, m_state, armed, yields>>
    PROVE  JobInv'
  <1> DEFINE new == [job |-> j, cb |-> (j \in Callbacks), thread |-> thr]
             n == Len(m_fibers) + 1
  <1>1. /\ DOMAIN m_fibers' = DOMAIN m_fibers \union {n}
        /\ n \notin DOMAIN m_fibers
        /\ \A k \in DOMAIN m_fibers : m_fibers'[k] = m_fibers[k]
        /\ m_fibers'[n] = new
    <2>1. new \in Task
      <3>1. (j \in Callbacks) \in BOOLEAN
        OBVIOUS
      <3>2. QED
        BY <3>1 DEF Task
    <2>2. m_fibers \in Seq(Task) /\ m_fibers' = Append(m_fibers, new)
      BY DEF IInv, TypeOK, Hand, schedulerNoLock
    <2>3. QED
      BY <2>1, <2>2, AppendFacts
  <1>0. /\ TypeOK /\ QueuedOnce /\ OneHolder /\ QueueInv
        /\ ThreadInv /\ ArmedInv /\ FreshInv /\ NoLostJob
    BY DEF IInv, JobInv
  <1>2. /\ j \notin given
        /\ given' = given \union {j}
        /\ m_state[j] = IF new.cb THEN "NONE" ELSE "READY"
        /\ new.job = j
    BY <1>0, Zenon DEF Hand, FreshInv
  <1>3. /\ \A k \in DOMAIN m_fibers : m_fibers[k].job # j
        /\ \A t \in Busy : task[t].job # j
    BY <1>0, <1>2 DEF QueueInv, ItemInv, ThreadInv, HolderInv
  <1>4. Busy' = Busy
    BY DEF Busy
  <1>5. /\ \A k : k # j => (Queued(k)' <=> Queued(k))
        /\ Queued(j)'
    BY <1>1, <1>2 DEF Queued
  <1> HIDE DEF new, n
  <1>6. QueuedOnce' /\ OneHolder'
    BY <1>0, <1>1, <1>2, <1>3, <1>4 DEF QueuedOnce, OneHolder
  <1>7. QueueInv'
    <2>1. \A k \in DOMAIN m_fibers : ItemInv(m_fibers[k])'
      BY <1>0, <1>1, <1>2, <1>4 DEF QueueInv, ItemInv
    <2>2. ItemInv(new)'
      BY <1>2, <1>3, <1>4 DEF ItemInv
    <2>3. QED
      BY <1>0, <1>1, <2>1, <2>2 DEF QueueInv
  <1>8. ThreadInv'
    BY <1>0, <1>2, <1>3, <1>4, <1>5 DEF ThreadInv, HolderInv
  <1>9. ArmedInv' /\ FreshInv' /\ NoLostJob'
    <2>1. ArmedInv'
      BY <1>0, <1>2, <1>4, <1>5 DEF ArmedInv
    <2>2. FreshInv'
      BY <1>0, <1>2, <1>4, <1>5 DEF FreshInv
    <2>3. NoLostJob'
      BY <1>0, <1>2, <1>4, <1>5 DEF NoLostJob
    <2>4. QED
      BY <2>1, <2>2, <2>3
  <1>10. QED
    BY <1>6, <1>7, <1>8, <1>9 DEF JobInv

\* A thread takes a task: nobody else works on that job.
LEMMA JobTake ==
    ASSUME IInv, NEW t \in Run, Take(t)
    PROVE  JobInv'
  <1>0. /\ TypeOK /\ QueuedOnce /\ OneHolder /\ QueueInv
        /\ ThreadInv /\ ArmedInv /\ FreshInv /\ NoLostJob
    BY DEF IInv, JobInv
  <1>1. PICK i \in DOMAIN m_fibers :
            /\ Mine(t, i)
            /\ task' = [task EXCEPT ![t] = m_fibers[i]]
            /\ m_fibers' = RemoveTask(m_fibers, i)
    BY Zenon DEF Take
  <1> DEFINE q == m_fibers[i]
  <1>2. q \in Task
    BY <1>0 DEF TypeOK
  <1>3. /\ \A k \in DOMAIN m_fibers' : \E l \in DOMAIN m_fibers : l # i /\ m_fibers'[k] = m_fibers[l]
        /\ \A l \in DOMAIN m_fibers : l # i => \E k \in DOMAIN m_fibers' : m_fibers'[k] = m_fibers[l]
        /\ QueuedOnce'
    BY <1>0, <1>1, RemoveMembers DEF TypeOK, QueuedOnce
  <1>4. /\ t \notin Busy
        /\ Busy' = Busy \union {t}
        /\ pc'[t] = "resume" /\ task'[t] = q
        /\ \A u \in Run : u # t => pc'[u] = pc[u] /\ task'[u] = task[u]
        /\ Busy \subseteq Run
        /\ UNCHANGED <<m_state, armed, yields, given>>
    BY <1>0, <1>1 DEF Take, Goto, At, Busy, TypeOK
  <1>5. \A k : Queued(k)' <=> Queued(k) /\ k # q.job
    BY <1>0, <1>3 DEF Queued, QueuedOnce
  <1>6. ItemInv(q)
    BY <1>0 DEF QueueInv
  <1>7. \A u \in Busy : task[u].job # q.job
    BY <1>1, <1>4, <1>6, SchedulerAssumption DEF ItemInv, Mine
  <1> HIDE DEF q
  <1>8. OneHolder'
    BY <1>0, <1>4, <1>7 DEF OneHolder
  <1>9. QueueInv'
    <2> SUFFICES ASSUME NEW k \in DOMAIN m_fibers'
                 PROVE  ItemInv(m_fibers[k])'
      BY <1>0 DEF QueueInv
    <2>1. PICK l \in DOMAIN m_fibers : l # i /\ m_fibers'[k] = m_fibers[l]
      BY <1>3
    <2>2. ItemInv(m_fibers[l]) /\ m_fibers[l].job # q.job
      BY <1>0, <2>1 DEF QueueInv, QueuedOnce, q
    <2>3. \A u \in Busy' : task'[u].job = m_fibers[l].job =>
             u \in Busy /\ task[u].job = m_fibers[l].job /\ pc'[u] = pc[u]
      BY <1>4, <2>2
    <2>4. \A u \in Busy : u \in Busy' /\ task'[u] = task[u]
      BY <1>4
    <2>5. QED
      BY <1>4, <2>1, <2>2, <2>3, <2>4 DEF ItemInv
  <1>10. ThreadInv'
    <2>1. HolderInv(t, task[t].job)'
      <3>1. /\ m_state[q.job] = IF q.cb THEN "NONE" ELSE "READY"
            /\ q.job \in given
        BY <1>6, <1>7 DEF ItemInv
      <3>2. q.job \notin armed
        BY <1>0, <1>7 DEF ArmedInv
      <3>3. QED
        BY <1>2, <1>4, <1>5, <3>1, <3>2 DEF HolderInv
    <2>2. ASSUME NEW u \in Busy
          PROVE  HolderInv(u, task[u].job)'
      BY <1>0, <1>4, <1>5, <1>7 DEF ThreadInv, HolderInv
    <2>3. QED
      BY <1>0, <1>4, <2>1, <2>2 DEF ThreadInv
  <1>11. ArmedInv' /\ FreshInv'
    BY <1>0, <1>4 DEF ArmedInv, FreshInv
  <1>12. NoLostJob'
    <2>1. \A u \in Run : u # t => task'[u] = task[u]
      BY <1>4
    <2>2. task[t] = NoTask
      BY <1>0, <1>4 DEF ThreadInv
    <2>3. \A j \in given : task[t].job # j
      BY <1>0, <2>2, SchedulerAssumption DEF NoTask, TypeOK
    <2>4. QED
      BY <1>0, <1>4, <1>5, <2>1, <2>3 DEF NoLostJob
  <1>13. QED
    BY <1>3, <1>8, <1>9, <1>10, <1>11, <1>12 DEF JobInv

\* The steps of a busy thread that leave its task with it.
LEMMA HolderSteps ==
    ASSUME IInv, NEW t \in Run, NEW from \in {"resume", "fiber", "swap"},
           NEW to \in {"fiber", "swap", "after"}, Goto(t, from, to), UNCHANGED task
    PROVE  /\ t \in Busy /\ Busy' = Busy /\ Busy \subseteq Run
           /\ pc'[t] = to
           /\ \A u \in Busy : u # t => pc'[u] = pc[u]
           /\ OneHolder'
           /\ \A u \in Busy : u # t => task[u].job # task[t].job
  <1>1. /\ t \in Busy /\ Busy' = Busy /\ Busy \subseteq Run
        /\ pc'[t] = to
        /\ \A u \in Busy : u # t => pc'[u] = pc[u]
    BY DEF IInv, TypeOK, Goto, At, Busy
  <1>2. QED
    BY <1>1 DEF IInv, JobInv, OneHolder

LEMMA JobResume ==
    ASSUME IInv, NEW t \in Run, resume(t)
    PROVE  JobInv'
  <1>0. /\ TypeOK /\ QueuedOnce /\ OneHolder /\ QueueInv
        /\ ThreadInv /\ ArmedInv /\ FreshInv /\ NoLostJob
    BY DEF IInv, JobInv
  <1> DEFINE j == task[t].job
  <1>1. /\ t \in Busy /\ Busy' = Busy /\ Busy \subseteq Run /\ OneHolder'
        /\ pc'[t] = "fiber"
        /\ \A u \in Busy : u # t => pc'[u] = pc[u] /\ task[u].job # j
        /\ UNCHANGED <<m_fibers, task, armed, yields, given>>
    BY HolderSteps DEF resume
  <1>2. HolderInv(t, j) /\ pc[t] = "resume"
    BY <1>0, <1>1 DEF ThreadInv, resume, Goto, At
  <1>3. j \in Jobs /\ j \in given /\ ~Queued(j) /\ j \notin armed
    BY <1>0, <1>2 DEF HolderInv, TypeOK
  <1>4. m_state'[j] = "RUNNING" /\ \A k \in Jobs : k # j => m_state'[k] = m_state[k]
    BY <1>0, <1>3 DEF resume, TypeOK
  <1>5. given \subseteq Jobs /\ \A k : Queued(k)' <=> Queued(k)
    BY <1>0, <1>1 DEF Queued, TypeOK
  <1> HIDE DEF j
  <1>6. QueuedOnce'
    BY <1>0, <1>1 DEF QueuedOnce
  <1>7. QueueInv'
    <2>1. \A i \in DOMAIN m_fibers : m_fibers[i].job # j /\ m_fibers[i].job \in given
      BY <1>0, <1>3 DEF Queued, QueueInv, ItemInv
    <2>2. QED
      BY <1>0, <1>1, <1>2, <1>4, <1>5, <2>1 DEF QueueInv, ItemInv
  <1>8. ThreadInv'
    <2>1. HolderInv(t, task[t].job)'
      BY <1>1, <1>2, <1>3, <1>4, <1>5 DEF HolderInv, j
    <2>2. ASSUME NEW u \in Busy, u # t
          PROVE  HolderInv(u, task[u].job)'
      BY <1>0, <1>1, <1>4, <1>5, <2>2 DEF ThreadInv, HolderInv
    <2>3. QED
      BY <1>0, <1>1, <2>1, <2>2 DEF ThreadInv
  <1>9. ArmedInv' /\ FreshInv' /\ NoLostJob'
    <2>1. ArmedInv'
      BY <1>0, <1>1, <1>2, <1>3, <1>4, <1>5 DEF ArmedInv, j
    <2>2. FreshInv'
      BY <1>0, <1>1, <1>2, <1>3, <1>4, <1>5 DEF FreshInv, j
    <2>3. NoLostJob'
      BY <1>0, <1>1, <1>2, <1>3, <1>4, <1>5 DEF NoLostJob, j
    <2>4. QED
      BY <2>1, <2>2, <2>3
  <1>10. QED
    BY <1>1, <1>6, <1>7, <1>8, <1>9 DEF JobInv

LEMMA JobYield ==
    ASSUME IInv, NEW t \in Run, yield(t)
    PROVE  JobInv'
  <1>0. /\ TypeOK /\ QueuedOnce /\ OneHolder /\ QueueInv
        /\ ThreadInv /\ ArmedInv /\ FreshInv /\ NoLostJob
    BY DEF IInv, JobInv
  <1> DEFINE j == task[t].job
  <1>1. /\ t \in Busy /\ Busy' = Busy /\ Busy \subseteq Run /\ OneHolder'
        /\ pc'[t] = "swap"
        /\ \A u \in Busy : u # t => pc'[u] = pc[u] /\ task[u].job # j
        /\ UNCHANGED <<m_fibers, task, given>>
        /\ armed' = armed \ {j}
    BY HolderSteps DEF yield
  <1>2. HolderInv(t, j) /\ pc[t] = "fiber" /\ j \in armed
    BY <1>0, <1>1 DEF ThreadInv, yield, Goto, At
  <1>3. j \in Jobs /\ j \in given /\ Queued(j) /\ m_state[j] = "RUNNING"
    BY <1>0, <1>2 DEF HolderInv, TypeOK
  <1>4. /\ m_state'[j] = "READY"
        /\ \A k \in Jobs : k # j => m_state'[k] = m_state[k] /\ yields'[k] = yields[k]
    BY <1>0, <1>3 DEF yield, TypeOK
  <1>5. given \subseteq Jobs /\ armed \subseteq Jobs /\ \A k : Queued(k)' <=> Queued(k)
    BY <1>0, <1>1 DEF Queued, TypeOK
  <1> HIDE DEF j
  <1>6. QueuedOnce'
    BY <1>0, <1>1 DEF QueuedOnce
  <1>7. QueueInv'
    <2> SUFFICES ASSUME NEW i \in DOMAIN m_fibers
                 PROVE  ItemInv(m_fibers[i])'
      BY <1>0, <1>1 DEF QueueInv
    <2>1. ItemInv(m_fibers[i])
      BY <1>0 DEF QueueInv
    <2>2. CASE m_fibers[i].job = j
      BY <1>1, <1>3, <1>4, <2>1, <2>2 DEF ItemInv
    <2>3. CASE m_fibers[i].job # j
      BY <1>1, <1>2, <1>4, <1>5, <2>1, <2>3 DEF ItemInv
    <2>4. QED
      BY <2>2, <2>3
  <1>8. ThreadInv'
    <2>1. HolderInv(t, task[t].job)'
      BY <1>1, <1>2, <1>3, <1>4, <1>5 DEF HolderInv, j
    <2>2. ASSUME NEW u \in Busy, u # t
          PROVE  HolderInv(u, task[u].job)'
      BY <1>0, <1>1, <1>4, <1>5, <2>2 DEF ThreadInv, HolderInv
    <2>3. QED
      BY <1>0, <1>1, <2>1, <2>2 DEF ThreadInv
  <1>9. ArmedInv' /\ FreshInv' /\ NoLostJob'
    <2>1. ArmedInv'
      BY <1>0, <1>1, <1>2, <1>3, <1>4, <1>5 DEF ArmedInv, j
    <2>2. FreshInv'
      BY <1>0, <1>1, <1>2, <1>3, <1>4, <1>5 DEF FreshInv, j
    <2>3. NoLostJob'
      BY <1>0, <1>1, <1>2, <1>3, <1>4, <1>5 DEF NoLostJob, j
    <2>4. QED
      BY <2>1, <2>2, <2>3
  <1>10. QED
    BY <1>1, <1>6, <1>7, <1>8, <1>9 DEF JobInv

\* The function of the job returned: the fiber is TERM and nowhere queued.
LEMMA JobMainFunc ==
    ASSUME IInv, NEW t \in Run, MainFunc(t)
    PROVE  JobInv'
  <1>0. /\ TypeOK /\ QueuedOnce /\ OneHolder /\ QueueInv
        /\ ThreadInv /\ ArmedInv /\ FreshInv /\ NoLostJob
    BY DEF IInv, JobInv
  <1> DEFINE j == task[t].job
  <1>1. /\ t \in Busy /\ Busy' = Busy /\ Busy \subseteq Run /\ OneHolder'
        /\ pc'[t] = "swap"
        /\ \A u \in Busy : u # t => pc'[u] = pc[u] /\ task[u].job # j
        /\ UNCHANGED <<m_fibers, task, armed, yields, given>>
    BY HolderSteps DEF MainFunc
  <1>2. HolderInv(t, j) /\ pc[t] = "fiber" /\ j \notin armed
    BY <1>0, <1>1 DEF ThreadInv, MainFunc, Goto, At
  <1>3. j \in Jobs /\ j \in given /\ ~Queued(j)
    BY <1>0, <1>2 DEF HolderInv, TypeOK
  <1>4. m_state'[j] = "TERM" /\ \A k \in Jobs : k # j => m_state'[k] = m_state[k]
    BY <1>0, <1>3 DEF MainFunc, TypeOK
  <1>5. given \subseteq Jobs /\ \A k : Queued(k)' <=> Queued(k)
    BY <1>0, <1>1 DEF Queued, TypeOK
  <1> HIDE DEF j
  <1>6. QueuedOnce'
    BY <1>0, <1>1 DEF QueuedOnce
  <1>7. QueueInv'
    <2>1. \A i \in DOMAIN m_fibers : m_fibers[i].job # j /\ m_fibers[i].job \in given
      BY <1>0, <1>3 DEF Queued, QueueInv, ItemInv
    <2>2. QED
      BY <1>0, <1>1, <1>2, <1>4, <1>5, <2>1 DEF QueueInv, ItemInv
  <1>8. ThreadInv'
    <2>1. HolderInv(t, task[t].job)'
      BY <1>1, <1>2, <1>3, <1>4, <1>5 DEF HolderInv, j
    <2>2. ASSUME NEW u \in Busy, u # t
          PROVE  HolderInv(u, task[u].job)'
      BY <1>0, <1>1, <1>4, <1>5, <2>2 DEF ThreadInv, HolderInv
    <2>3. QED
      BY <1>0, <1>1, <2>1, <2>2 DEF ThreadInv
  <1>9. ArmedInv' /\ FreshInv' /\ NoLostJob'
    <2>1. ArmedInv'
      BY <1>0, <1>1, <1>2, <1>3, <1>4, <1>5 DEF ArmedInv, j
    <2>2. FreshInv'
      BY <1>0, <1>1, <1>2, <1>3, <1>4, <1>5 DEF FreshInv, j
    <2>3. NoLostJob'
      BY <1>0, <1>1, <1>2, <1>3, <1>4, <1>5 DEF NoLostJob, j
    <2>4. QED
      BY <2>1, <2>2, <2>3
  <1>10. QED
    BY <1>1, <1>6, <1>7, <1>8, <1>9 DEF JobInv

LEMMA JobSwap ==
    ASSUME IInv, NEW t \in Run, Swap(t)
    PROVE  JobInv'
  <1>0. /\ TypeOK /\ QueuedOnce /\ OneHolder /\ QueueInv
        /\ ThreadInv /\ ArmedInv /\ FreshInv /\ NoLostJob
    BY DEF IInv, JobInv
  <1>1. /\ t \in Busy /\ Busy' = Busy /\ Busy \subseteq Run /\ OneHolder'
        /\ pc[t] = "swap" /\ pc'[t] = "after"
        /\ \A u \in Busy : u # t => pc'[u] = pc[u]
        /\ UNCHANGED <<m_fibers, task, m_state, armed, yields, given>>
    BY Zenon, HolderSteps DEF Swap, Goto, At
  <1>2. QueuedOnce' /\ \A k : Queued(k)' <=> Queued(k)
    BY <1>0, <1>1 DEF QueuedOnce, Queued
  <1>3. QueueInv'
    BY <1>0, <1>1 DEF QueueInv, ItemInv
  <1>4. ThreadInv'
    BY <1>0, <1>1, <1>2 DEF ThreadInv, HolderInv
  <1>5. ArmedInv' /\ FreshInv' /\ NoLostJob'
    <2>1. ArmedInv'
      BY <1>0, <1>1, <1>2 DEF ArmedInv
    <2>2. FreshInv'
      BY <1>0, <1>1, <1>2 DEF FreshInv
    <2>3. NoLostJob'
      BY <1>0, <1>1, <1>2 DEF NoLostJob
    <2>4. QED
      BY <2>1, <2>2, <2>3
  <1>6. QED
    BY <1>1, <1>2, <1>3, <1>4, <1>5 DEF JobInv

\* The thread lets go of a job that has ended or waits in the queue.
LEMMA JobAfter ==
    ASSUME IInv, NEW t \in Run, After(t)
    PROVE  JobInv'
  <1>0. /\ TypeOK /\ QueuedOnce /\ OneHolder /\ QueueInv
        /\ ThreadInv /\ ArmedInv /\ FreshInv /\ NoLostJob
    BY DEF IInv, JobInv
  <1> DEFINE j == task[t].job
  <1>1. /\ t \in Busy /\ Busy' = Busy \ {t} /\ Busy \subseteq Run
        /\ pc[t] = "after"
        /\ task'[t] = NoTask
        /\ \A u \in Run : u # t => pc'[u] = pc[u] /\ task'[u] = task[u]
        /\ UNCHANGED <<m_fibers, m_state, armed, yields, given>>
    BY <1>0 DEF After, Goto, At, Busy, TypeOK
  <1>2. HolderInv(t, j)
    BY <1>0, <1>1 DEF ThreadInv
  <1>3. /\ j \notin armed
        /\ m_state[j] = "TERM" \/ (m_state[j] = "READY" /\ Queued(j))
    BY <1>1, <1>2 DEF HolderInv
  <1>4. QueuedOnce' /\ \A k : Queued(k)' <=> Queued(k)
    BY <1>0, <1>1 DEF QueuedOnce, Queued
  <1> HIDE DEF j
  <1>5. OneHolder'
    BY <1>0, <1>1 DEF OneHolder
  <1>6. QueueInv'
    <2> SUFFICES ASSUME NEW i \in DOMAIN m_fibers
                 PROVE  ItemInv(m_fibers[i])'
      BY <1>0, <1>1 DEF QueueInv
    <2>1. ItemInv(m_fibers[i])
      BY <1>0 DEF QueueInv
    <2>2. m_state[m_fibers[i].job] = "RUNNING" =>
             \E u \in Busy' : task'[u].job = m_fibers[i].job
      BY <1>1, <1>3, <2>1 DEF ItemInv, j
    <2>3. QED
      BY <1>1, <2>1, <2>2 DEF ItemInv
  <1>7. ThreadInv'
    <2>1. ASSUME NEW u \in Busy, u # t
          PROVE  HolderInv(u, task[u].job)'
      BY <1>0, <1>1, <1>4, <2>1 DEF ThreadInv, HolderInv
    <2>2. QED
      BY <1>0, <1>1, <2>1 DEF ThreadInv
  <1>8. ArmedInv' /\ FreshInv' /\ NoLostJob'
    <2>1. ArmedInv'
      BY <1>0, <1>1, <1>3, <1>4 DEF ArmedInv, j
    <2>2. FreshInv'
      BY <1>0, <1>1, <1>3, <1>4 DEF FreshInv, j
    <2>3. NoLostJob'
      BY <1>0, <1>1, <1>3, <1>4 DEF NoLostJob, j
    <2>4. QED
      BY <2>1, <2>2, <2>3
  <1>9. QED
    BY <1>4, <1>5, <1>6, <1>7, <1>8 DEF JobInv

-----------------------------------------------------------------------------
(* Requeueing, the step that needs Disciplined, completes the way of a     *)
(* job.                                                                    *)

\* A running fiber queues itself, where only its own thread can take it.
LEMMA JobRequeue ==
    ASSUME IInv, Disciplined, NEW t \in Run, NEW thr \in Run \union {AnyThread},
           Requeue(t, thr)
    PROVE  JobInv'
  <1>0. /\ TypeOK /\ QueuedOnce /\ OneHolder /\ QueueInv
        /\ ThreadInv /\ ArmedInv /\ FreshInv /\ NoLostJob
    BY DEF IInv, JobInv
  <1>j. PICK j : j = task[t].job
    OBVIOUS
  <1>n. PICK n : n = Len(m_fibers) + 1
    OBVIOUS
  <1> DEFINE new == [job |-> j, cb |-> FALSE, thread |-> thr]
  <1>1. /\ t \in Busy /\ Busy \subseteq Run /\ Busy' = Busy
        /\ pc[t] = "fiber" /\ j \notin armed /\ yields[j] < MaxYields
        /\ armed' = armed \union {j}
        /\ UNCHANGED <<pc, task, m_state, yields, given>>
        /\ thr = t \/ \A u \in Run : u = t
    BY <1>j DEF Requeue, RequeueThreads, At, Busy, Disciplined
  <1>2. HolderInv(t, j)
    BY <1>0, <1>1, <1>j DEF ThreadInv
  <1>3. j \in Jobs /\ j \in given /\ ~Queued(j) /\ m_state[j] = "RUNNING"
    BY <1>0, <1>1, <1>2, <1>j DEF HolderInv, TypeOK
  <1>4. /\ DOMAIN m_fibers' = DOMAIN m_fibers \union {n}
        /\ n \notin DOMAIN m_fibers
        /\ \A k \in DOMAIN m_fibers : m_fibers'[k] = m_fibers[k]
        /\ m_fibers'[n] = new
    <2>1. new \in Task
      BY <1>3 DEF Task
    <2>2. m_fibers \in Seq(Task) /\ m_fibers' = Append(m_fibers, new)
      BY <1>0, <1>j DEF TypeOK, Requeue, schedulerNoLock
    <2>3. QED
      BY <1>n, <2>1, <2>2, AppendFacts
  <1>5. new.job = j /\ new.cb = FALSE /\ new.thread = thr
    OBVIOUS
  <1> HIDE DEF new
  <1>6. /\ \A k : k # j => (Queued(k)' <=> Queued(k))
        /\ Queued(j)'
    BY <1>4, <1>5 DEF Queued
  <1>7. QueuedOnce'
    BY <1>0, <1>3, <1>4, <1>5 DEF QueuedOnce, Queued
  <1>8. OneHolder'
    BY <1>0, <1>1 DEF OneHolder
  <1>9. QueueInv'
    <2>1. \A k \in DOMAIN m_fibers : ItemInv(m_fibers[k])'
      BY <1>0, <1>1, <1>4 DEF QueueInv, ItemInv
    <2>2. \A u \in Busy : task[u].job = j => u = t
      BY <1>0, <1>j, <1>1 DEF OneHolder
    <2>3. ItemInv(m_fibers[n])'
      BY <1>j, <1>1, <1>3, <1>4, <1>5, <2>2 DEF ItemInv
    <2>4. QED
      BY <1>0, <1>4, <2>1, <2>3 DEF QueueInv
  <1>10. ThreadInv'
    <2>1. HolderInv(t, task[t].job)'
      BY <1>j, <1>1, <1>2, <1>3, <1>6 DEF HolderInv
    <2>2. ASSUME NEW u \in Busy, u # t
          PROVE  HolderInv(u, task[u].job)'
      <3>1. task[u].job # j
        BY <1>0, <1>j, <1>1, <2>2 DEF OneHolder
      <3>2. QED
        BY <1>0, <1>1, <1>6, <3>1 DEF ThreadInv, HolderInv
    <2>3. QED
      BY <1>0, <1>1, <2>1, <2>2 DEF ThreadInv
  <1>11. ArmedInv' /\ FreshInv' /\ NoLostJob'
    <2>1. ArmedInv'
      BY <1>0, <1>j, <1>1, <1>6 DEF ArmedInv
    <2>2. FreshInv'
      BY <1>0, <1>j, <1>1, <1>6 DEF FreshInv
    <2>3. NoLostJob'
      BY <1>0, <1>j, <1>1, <1>6 DEF NoLostJob
    <2>4. QED
      BY <2>1, <2>2, <2>3
  <1>12. QED
    BY <1>7, <1>8, <1>9, <1>10, <1>11 DEF JobInv

LEMMA JobNext ==
    ASSUME IInv, Disciplined, [Next]_vars
    PROVE  JobInv'
  <1>1. ASSUME NEW j \in Jobs, NEW thr \in Run \union {AnyThread}, MainSchedule(j, thr)
        PROVE  JobInv'
    BY <1>1, JobHand DEF MainSchedule
  <1>2. CASE start \/ stop
    <2>1. Busy' = Busy
      BY <1>2, CallerRuns DEF start, stop, MainAt, IInv, Phase, Busy
    <2>2. \A t \in Busy : pc'[t] = pc[t]
      BY <1>2, CallerRuns DEF start, stop, MainAt, IInv, Phase, Busy
    <2>3. QED
      BY <1>2, <2>1, <2>2, JobFrame DEF start, stop
  <1>3. ASSUME NEW t \in Run, NoTaskFound(t) \/ idle(t) \/ IdleBack(t)
        PROVE  JobInv'
    <2>1. Busy' = Busy /\ \A u \in Busy : pc'[u] = pc[u]
      BY <1>3 DEF NoTaskFound, idle, IdleBack, Goto, At, IInv, TypeOK, Busy
    <2>2. QED
      BY <1>3, <2>1, JobFrame DEF NoTaskFound, idle, IdleBack
  <1>4. ASSUME NEW t \in Run, NEW j \in Jobs, NEW thr \in Run \union {AnyThread},
               FiberSchedule(t, j, thr)
        PROVE  JobInv'
    BY <1>4, JobHand DEF FiberSchedule
  <1>5. ASSUME UNCHANGED <<m_fibers, pc, task, m_state, armed, yields, given>>
        PROVE  JobInv'
    <2>1. Busy' = Busy /\ \A u \in Busy : pc'[u] = pc[u]
      BY <1>5 DEF Busy
    <2>2. QED
      BY <1>5, <2>1, JobFrame
  <1>6. QED
    BY <1>1, <1>2, <1>3, <1>4, <1>5, JobTake, JobResume, JobRequeue, JobYield,
       JobMainFunc, JobSwap, JobAfter
       DEF Next, Caller_step, Thread_step, Terminated, stopRootDone, stopJoin,
           stopAgain, vars

-----------------------------------------------------------------------------
(* What the refinement mapping makes of a step.                            *)

\* A step that changes the status of one job.
LEMMA OneJobChanges ==
    ASSUME NEW j \in Jobs, NEW from, NEW to,
           jobStatus[j] = from, jobStatus'[j] = to,
           \A k \in Jobs : k # j => jobStatus'[k] = jobStatus[k],
           poolStatus' = poolStatus
    PROVE  Pool!Become(j, from, to)
  <1>1. jobStatus' = [jobStatus EXCEPT ![j] = to]
    BY Zenon DEF jobStatus
  <1>2. QED
    BY <1>1 DEF Pool!Become

\* A step that leaves the jobs and the caller alone is invisible.
LEMMA Invisible ==
    ASSUME \A k \in Jobs : statusOf(k)' = statusOf(k), poolStatus' = poolStatus
    PROVE  UNCHANGED Pool!vars
  BY DEF jobStatus, Pool!vars

\* The running fiber of a thread is a running job of the pool.
LEMMA RunningJob ==
    ASSUME IInv, NEW t \in Run, pc[t] = "fiber"
    PROVE  /\ task[t].job \in Jobs
           /\ task[t].job \in given
           /\ m_state[task[t].job] = "RUNNING"
  BY HeldTask DEF Busy, IInv, JobInv, ThreadInv, HolderInv

\* Handing over a job is Submit.
LEMMA SubmitStep ==
    ASSUME IInv, NEW j \in Jobs, NEW thr, Hand(j, thr),
           ~m_stopping \/ \E t \in Run : pc[t] = "fiber",
           UNCHANGED <<m_stopping, m_state, main>>
    PROVE  Pool!Next
  <1>1. /\ jobStatus[j] = "new" /\ jobStatus'[j] = "pending"
        /\ \A k \in Jobs : k # j => jobStatus'[k] = jobStatus[k]
        /\ poolStatus' = poolStatus
    BY DEF Hand, jobStatus, statusOf, poolStatus, IInv, JobInv, FreshInv
  <1>2. Pool!Become(j, "new", "pending")
    BY <1>1, OneJobChanges
  <1>3. poolStatus = "open" \/ \E k \in Jobs : jobStatus[k] = "running"
    <2>1. CASE ~m_stopping
      BY <2>1 DEF poolStatus
    <2>2. ASSUME NEW t \in Run, pc[t] = "fiber"
          PROVE  \E k \in Jobs : jobStatus[k] = "running"
      BY <2>2, RunningJob DEF jobStatus, statusOf
    <2>3. QED
      BY <2>1, <2>2
  <1>4. QED
    BY <1>2, <1>3 DEF Pool!Next, Pool!Submit

INSTANCE FiniteSetTheorems

-----------------------------------------------------------------------------
(* The counters.                                                           *)

LEMMA RunIsFinite == IsFiniteSet(Run)
  BY Zenon, SchedulerAssumption, FS_Union, FS_Singleton, FS_EmptySet DEF Run

\* Any set of threads is finite; a member makes its cardinality positive.
LEMMA ThreadSets ==
    ASSUME NEW S, S \subseteq Run
    PROVE  /\ IsFiniteSet(S)
           /\ Cardinality(S) \in Nat
           /\ \A t : t \notin S => Cardinality(S \union {t}) = Cardinality(S) + 1
           /\ \A t \in S : Cardinality(S \ {t}) = Cardinality(S) - 1
           /\ \A t \in S : Cardinality(S) > 0
           /\ Cardinality(S) = 0 <=> S = {}
  <1>1. IsFiniteSet(S)
    BY RunIsFinite, FS_Subset
  <1>2. QED
    BY <1>1, FS_CardinalityType, FS_AddElement, FS_RemoveElement, FS_EmptySet

LEMMA CountsInit == Init => Counts
  <1> SUFFICES ASSUME Init PROVE Counts
    OBVIOUS
  <1>1. Busy = {} /\ InIdle = {}
    BY DEF Init, Busy, InIdle
  <1>2. QED
    BY <1>1, FS_EmptySet DEF Init, Counts

LEMMA CountsNext ==
    ASSUME IInv, [Next]_vars
    PROVE  Counts'
  <1> USE DEF At, MainAt, Goto
  <1>i. TypeOK /\ Counts /\ Phase /\ JobInv /\ NoFault
    BY DEF IInv
  <1>0. Busy \subseteq Run /\ InIdle \subseteq Run
    BY DEF Busy, InIdle
  <1>1. ASSUME UNCHANGED <<m_activeThreadCount, m_idleThreadCount>>,
               Busy' = Busy, InIdle' = InIdle
        PROVE  Counts'
    BY <1>i, <1>1 DEF Counts
  <1>2. CASE start
    <2>1. Busy' = Busy /\ InIdle' = InIdle
      BY <1>i, <1>2 DEF start, Phase, Busy, InIdle
    <2>2. QED
      BY <1>1, <1>2, <2>1 DEF start
  <1>3. CASE stop
    <2>1. Busy' = Busy /\ InIdle' = InIdle
      BY <1>i, <1>3, CallerRuns DEF stop, Phase, Busy, InIdle
    <2>2. QED
      BY <1>1, <1>3, <2>1 DEF stop
  <1>4. ASSUME NEW t \in Run, Take(t)
        PROVE  Counts'
    <2>1. t \notin Busy /\ Busy' = Busy \union {t} /\ InIdle' = InIdle
      BY <1>i, <1>4 DEF Take, Busy, InIdle, TypeOK
    <2>2. QED
      BY <1>i, <1>0, <1>4, <2>1, ThreadSets DEF Take, Counts
  <1>5. ASSUME NEW t \in Run, NoTaskFound(t)
        PROVE  Counts'
    <2>1. CASE t \in idleTerm
      <3>1. Busy' = Busy /\ InIdle' = InIdle
        BY <1>i, <1>5, <2>1 DEF NoTaskFound, Busy, InIdle, TypeOK
      <3>2. QED
        BY <1>1, <1>5, <2>1, <3>1 DEF NoTaskFound
    <2>2. CASE t \notin idleTerm
      <3>1. Busy' = Busy /\ InIdle' = InIdle \union {t} /\ t \notin InIdle
        BY <1>i, <1>5, <2>2 DEF NoTaskFound, Busy, InIdle, TypeOK
      <3>2. QED
        BY <1>i, <1>0, <1>5, <2>2, <3>1, ThreadSets DEF NoTaskFound, Counts
    <2>3. QED
      BY <2>1, <2>2
  <1>6. ASSUME NEW t \in Run, idle(t)
        PROVE  Counts'
    <2>1. Busy' = Busy /\ InIdle' = InIdle
      BY <1>i, <1>6 DEF idle, Busy, InIdle, TypeOK
    <2>2. QED
      BY <1>1, <1>6, <2>1 DEF idle
  <1>7. ASSUME NEW t \in Run, IdleBack(t)
        PROVE  Counts'
    <2>1. Busy' = Busy /\ InIdle' = InIdle \ {t} /\ t \in InIdle
      BY <1>i, <1>7 DEF IdleBack, Busy, InIdle, TypeOK
    <2>2. QED
      BY <1>i, <1>0, <1>7, <2>1, ThreadSets DEF IdleBack, Counts
  <1>8. ASSUME NEW t \in Run, resume(t) \/ yield(t) \/ MainFunc(t) \/ Swap(t)
        PROVE  Counts'
    <2>1. Busy' = Busy /\ InIdle' = InIdle
      BY <1>i, <1>8 DEF resume, yield, MainFunc, Swap, Busy, InIdle, TypeOK
    <2>2. QED
      BY <1>1, <1>8, <2>1 DEF resume, yield, MainFunc, Swap
  <1>9. ASSUME NEW t \in Run, After(t)
        PROVE  Counts'
    <2>1. Busy' = Busy \ {t} /\ t \in Busy /\ InIdle' = InIdle
      BY <1>i, <1>9 DEF After, Busy, InIdle, TypeOK
    <2>2. QED
      BY <1>i, <1>0, <1>9, <2>1, ThreadSets DEF After, Counts
  <1>10. ASSUME UNCHANGED <<m_activeThreadCount, m_idleThreadCount, pc>>
         PROVE  Counts'
    BY <1>1, <1>10 DEF Busy, InIdle
  <1>11. QED
    BY Zenon, <1>2, <1>3, <1>4, <1>5, <1>6, <1>7, <1>8, <1>9, <1>10
       DEF Next, Caller_step, Thread_step, Terminated, MainSchedule, stopRootDone,
           stopJoin, stopAgain, FiberSchedule, Requeue, vars

-----------------------------------------------------------------------------
(* Type correctness.                                                       *)

LEMMA TypeInit == Init => TypeOK
  <1> SUFFICES ASSUME Init PROVE TypeOK
    OBVIOUS
  <1>1. /\ m_fibers \in Seq(Task)
        /\ m_state \in [Jobs -> {"NONE", "READY", "RUNNING", "TERM"}]
        /\ yields \in [Jobs -> 0..MaxYields]
        /\ task \in [Run -> Task \union {NoTask}]
    BY SchedulerAssumption DEF Init
  <1>2. QED
    BY Zenon, <1>1 DEF Init, TypeOK

LEMMA TypeNext ==
    ASSUME IInv, [Next]_vars
    PROVE  TypeOK'
  <1> USE DEF At, MainAt, Goto
  <1>i. TypeOK /\ Counts /\ Phase /\ JobInv /\ NoFault
    BY DEF IInv
  <1>1. ASSUME NEW j \in Jobs, NEW thr \in Run \union {AnyThread}, MainSchedule(j, thr)
        PROVE  TypeOK'
    <2>1. m_fibers' \in Seq(Task)
      <3>1. (j \in Callbacks) \in BOOLEAN
        OBVIOUS
      <3>2. QED
        BY <1>i, Zenon, <1>1, <3>1, PushType DEF MainSchedule, Hand
    <2>2. QED
      BY <1>i, <1>1, <2>1 DEF MainSchedule, Hand, TypeOK
  <1>2. CASE start \/ stop \/ stopRootDone \/ stopJoin \/ stopAgain
    BY <1>i, Zenon, <1>2 DEF start, stop, stopRootDone, stopJoin, stopAgain, TypeOK
  <1>3. ASSUME NEW t \in Run, Take(t)
        PROVE  TypeOK'
    <2>1. PICK i \in DOMAIN m_fibers : /\ task' = [task EXCEPT ![t] = m_fibers[i]]
                                       /\ m_fibers' = RemoveTask(m_fibers, i)
      BY Zenon, <1>3 DEF Take
    <2>2. m_fibers' \in Seq(Task) /\ m_fibers[i] \in Task
      BY <1>i, <2>1, RemoveFacts DEF TypeOK
    <2>3. QED
      BY <1>i, <1>3, <2>1, <2>2 DEF Take, TypeOK
  <1>4. ASSUME NEW t \in Run, NoTaskFound(t)
        PROVE  TypeOK'
    <2>1. /\ m_idleThreadCount' \in Nat
          /\ pc' = [pc EXCEPT ![t] = "exited"] \/ pc' = [pc EXCEPT ![t] = "idle"]
      BY <1>i, <1>4 DEF NoTaskFound, TypeOK
    <2>2. QED
      BY <1>i, Zenon, <1>4, <2>1 DEF NoTaskFound, TypeOK
  <1>5. ASSUME NEW t \in Run, idle(t)
        PROVE  TypeOK'
    BY <1>i, <1>5 DEF idle, TypeOK
  <1>6. ASSUME NEW t \in Run, IdleBack(t)
        PROVE  TypeOK'
    <2>1. InIdle \subseteq Run /\ t \in InIdle
      BY <1>6 DEF IdleBack, InIdle
    <2>2. m_idleThreadCount - 1 \in Nat
      BY <1>i, <2>1, ThreadSets DEF Counts
    <2>3. QED
      BY <1>i, <1>6, <2>2 DEF IdleBack, TypeOK
  <1>7. ASSUME NEW t \in Run, resume(t)
        PROVE  TypeOK'
    BY <1>i, Zenon, <1>7 DEF resume, TypeOK
  <1>8. ASSUME NEW t \in Run, NEW j \in Jobs, NEW thr \in Run \union {AnyThread},
               FiberSchedule(t, j, thr)
        PROVE  TypeOK'
    <2>1. m_fibers' \in Seq(Task)
      <3>1. (j \in Callbacks) \in BOOLEAN
        OBVIOUS
      <3>2. QED
        BY <1>i, Zenon, <1>8, <3>1, PushType DEF FiberSchedule, Hand
    <2>2. QED
      BY <1>i, <1>8, <2>1 DEF FiberSchedule, Hand, TypeOK
  <1>9. ASSUME NEW t \in Run, NEW thr \in Run \union {AnyThread}, Requeue(t, thr)
        PROVE  TypeOK'
    <2>1. task[t].job \in Jobs
      BY <1>9, HeldTask DEF Requeue, Busy
    <2>2. m_fibers' \in Seq(Task)
      BY <1>i, Zenon, <1>9, <2>1, PushType DEF Requeue
    <2>3. QED
      BY <1>i, <1>9, <2>1, <2>2 DEF Requeue, TypeOK
  <1>10. ASSUME NEW t \in Run, yield(t)
         PROVE  TypeOK'
    <2>1. task[t].job \in Jobs
      BY <1>10, HeldTask DEF yield, Busy
    <2>2. yields[task[t].job] + 1 \in 0..MaxYields
      BY <1>i, <1>10, <2>1, SchedulerAssumption DEF yield, JobInv, ArmedInv, TypeOK
    <2>3. QED
      BY <1>i, <1>10, <2>1, <2>2 DEF yield, TypeOK
  <1>11. ASSUME NEW t \in Run, MainFunc(t)
         PROVE  TypeOK'
    BY <1>i, Zenon, <1>11 DEF MainFunc, TypeOK
  <1>12. ASSUME NEW t \in Run, Swap(t)
         PROVE  TypeOK'
    BY <1>i, <1>12 DEF Swap, TypeOK
  <1>13. ASSUME NEW t \in Run, After(t)
         PROVE  TypeOK'
    <2>1. Busy \subseteq Run /\ t \in Busy
      BY <1>13 DEF After, Busy
    <2>2. m_activeThreadCount - 1 \in Nat
      BY <1>i, <2>1, ThreadSets DEF Counts
    <2>3. QED
      BY <1>i, <1>13, <2>2 DEF After, TypeOK
  <1>14. CASE UNCHANGED vars
    BY <1>i, <1>14 DEF vars, TypeOK
  <1>15. QED
    BY <1>1, <1>2, <1>3, <1>4, <1>5, <1>6, <1>7, <1>8, <1>9, <1>10, <1>11,
       <1>12, <1>13, <1>14 DEF Next, Caller_step, Thread_step, Terminated

-----------------------------------------------------------------------------
(* The course of stop().                                                   *)

LEMMA PhaseInit == Init => Phase
  BY SchedulerAssumption DEF Init, Phase, Run

LEMMA PhaseNext ==
    ASSUME IInv, [Next]_vars
    PROVE  Phase'
  <1> USE DEF At, MainAt, Goto
  <1>i. TypeOK /\ Counts /\ Phase /\ JobInv /\ NoFault
    BY DEF IInv
  <1>1. ASSUME NEW j \in Jobs, NEW thr \in Run \union {AnyThread}, MainSchedule(j, thr)
        PROVE  Phase'
    BY <1>i, <1>1 DEF MainSchedule, Phase, Busy
  <1>2. CASE start \/ stopRootDone \/ stopJoin \/ stopAgain
    BY <1>i, <1>2, CallerRuns DEF start, stopRootDone, stopJoin, stopAgain, Phase, Busy
  <1>2a. CASE stop
    BY <1>i, <1>2a, CallerRuns, SchedulerAssumption DEF stop, Phase, Busy, TypeOK
  <1>3. ASSUME NEW t \in Run, Take(t)
        PROVE  Phase'
    <2>1. idleTerm = {}
      BY <1>i, <1>3 DEF Take, Phase
    <2>2. QED
      BY <1>i, <1>3, <2>1, CallerRuns DEF Take, Phase, TypeOK
  <1>4. ASSUME NEW t \in Run, NoTaskFound(t)
        PROVE  Phase'
    BY <1>i, <1>4, CallerRuns DEF NoTaskFound, Phase, Busy, TypeOK
  <1>5. ASSUME NEW t \in Run, idle(t)
        PROVE  Phase'
    <2>1. stopping => Busy = {}
      BY <1>i, Zenon, ThreadSets DEF Counts, stopping, Busy
    <2>2. Busy' = Busy
      BY <1>i, <1>5 DEF idle, Busy, TypeOK
    <2>3. QED
      BY <1>i, <1>5, <2>1, <2>2, CallerRuns DEF idle, Phase, TypeOK, stopping
  <1>6. ASSUME NEW t \in Run, IdleBack(t)
        PROVE  Phase'
    BY <1>i, <1>6, CallerRuns DEF IdleBack, Phase, Busy, TypeOK
  <1>7. ASSUME NEW t \in Run, resume(t) \/ yield(t) \/ MainFunc(t) \/ Swap(t) \/ After(t)
        PROVE  Phase'
    <2>1. /\ m_stopping' = m_stopping /\ main' = main /\ idleTerm' = idleTerm
          /\ pc[t] \in {"resume", "fiber", "swap", "after"}
          /\ \E p \in {"fiber", "swap", "after", "scan"} : pc' = [pc EXCEPT ![t] = p]
      <3>1. CASE resume(t)
        BY <3>1 DEF resume
      <3>2. CASE yield(t)
        BY <3>2 DEF yield
      <3>3. CASE MainFunc(t)
        BY <3>3 DEF MainFunc
      <3>4. CASE Swap(t)
        BY <3>4 DEF Swap
      <3>5. CASE After(t)
        BY <3>5 DEF After
      <3>6. QED
        BY Zenon, <1>7, <3>1, <3>2, <3>3, <3>4, <3>5
    <2>2. idleTerm = {}
      BY <1>i, <2>1 DEF Phase, Busy
    <2>3. QED
      BY <1>i, <2>1, <2>2, CallerRuns DEF Phase, TypeOK
  <1>8. ASSUME NEW t \in Run, pc[t] = "fiber", UNCHANGED <<m_stopping, main, idleTerm, pc>>
        PROVE  Phase'
    BY <1>i, <1>8 DEF Phase, Busy
  <1>9. CASE UNCHANGED vars
    BY <1>i, <1>9 DEF vars, Phase, Busy
  <1>10. QED
    BY Zenon, <1>1, <1>2, <1>2a, <1>3, <1>4, <1>5, <1>6, <1>7, <1>8, <1>9
       DEF Next, Caller_step, Thread_step, Terminated, FiberSchedule, Requeue

-----------------------------------------------------------------------------
(* The assertions.                                                         *)

\* Once a thread has left run() a repeated stop() finds stopping() true.
LEMMA StoppedIsStopping ==
    ASSUME IInv, NEW t \in Run, pc[t] = "exited"
    PROVE  stopping
  <1>1. m_stopping /\ m_fibers = <<>> /\ Busy = {}
    BY DEF IInv, Phase
  <1>2. m_activeThreadCount = 0
    BY <1>1, FS_EmptySet DEF IInv, Counts
  <1>3. QED
    BY <1>1, <1>2 DEF stopping

\* When every thread has left run() nothing is left to do.
LEMMA AllExited ==
    ASSUME IInv, \A t \in Run : pc[t] = "exited"
    PROVE  /\ m_fibers = <<>>
           /\ m_activeThreadCount = 0
           /\ \A j \in given : m_state[j] = "TERM"
  <1>1. m_fibers = <<>> /\ Busy = {} /\ m_activeThreadCount = 0
    BY StoppedIsStopping, SchedulerAssumption DEF stopping, Busy
  <1>2. \A t \in Run : task[t] = NoTask
    BY <1>1 DEF IInv, JobInv, ThreadInv
  <1>3. \A j \in given : ~Queued(j) /\ \A t \in Run : task[t].job # j
    BY <1>1, <1>2, SchedulerAssumption DEF Queued, NoTask, IInv, TypeOK
  <1>4. QED
    BY <1>1, <1>3 DEF IInv, JobInv, NoLostJob

LEMMA NoFaultNext ==
    ASSUME IInv, [Next]_vars
    PROVE  NoFault'
  <1> USE DEF NoFault
  <1>i. TypeOK /\ Counts /\ Phase /\ JobInv /\ NoFault
    BY DEF IInv
  <1>1. CASE stopAgain
    <2>1. UseCaller => stopping
      BY <1>i, <1>1, CallerRuns, StoppedIsStopping DEF stopAgain, MainAt, Phase
    <2>2. QED
      BY <1>i, <1>1, <2>1 DEF stopAgain
  <1>2. ASSUME NEW t \in Run, resume(t)
        PROVE  NoFault'
    <2>1. t \in Busy /\ pc[t] = "resume"
      BY <1>2 DEF resume, Goto, At, Busy
    <2>2. ~task[t].cb => m_state[task[t].job] = "READY"
      BY <1>i, <2>1 DEF JobInv, ThreadInv, HolderInv
    <2>3. \A u \in Run \ {t} : ~Leaving(u, task[t].job)
      BY <1>i, <2>1 DEF JobInv, OneHolder, Leaving, Busy
    <2>4. QED
      BY <1>i, <1>2, <2>2, <2>3 DEF resume
  <1>3. ASSUME NEW t \in Run, After(t)
        PROVE  NoFault'
    <2>1. t \in Busy /\ pc[t] = "after"
      BY <1>3 DEF After, Goto, At, Busy
    <2>2. m_state[task[t].job] = "TERM" \/ Queued(task[t].job)
      BY <1>i, <2>1 DEF JobInv, ThreadInv, HolderInv
    <2>3. QED
      BY <1>i, <1>3, <2>2 DEF After
  <1>4. CASE UNCHANGED fault
    BY <1>i, <1>4
  <1>5. QED
    BY Zenon, <1>1, <1>2, <1>3, <1>4
       DEF Next, Caller_step, Thread_step, Terminated, MainSchedule, start, stop,
           stopRootDone, stopJoin, Take, NoTaskFound, idle, IdleBack, FiberSchedule,
           Requeue, yield, MainFunc, Swap, vars

-----------------------------------------------------------------------------
(* The theorems, for schedulers whose fibers requeue themselves on their   *)
(* own thread, or that have a single thread.                               *)

\* IInv is an inductive invariant of the scheduler.
THEOREM Inductive == Disciplined => (Spec => []IInv)
  <1> SUFFICES ASSUME Disciplined PROVE Spec => []IInv
    OBVIOUS
  <1>1. Init => IInv
    BY TypeInit, CountsInit, PhaseInit, JobInit DEF IInv, NoFault, Init
  <1>2. IInv /\ [Next]_vars => IInv'
    <2> SUFFICES ASSUME IInv, [Next]_vars PROVE IInv'
      OBVIOUS
    <2>1. TypeOK' /\ Counts' /\ Phase'
      BY TypeNext, CountsNext, PhaseNext
    <2>2. JobInv' /\ NoFault'
      BY JobNext, NoFaultNext
    <2>3. QED
      BY <2>1, <2>2 DEF IInv
  <1>3. QED
    BY <1>1, <1>2, PTL DEF Spec

\* Every variable keeps its domain: the queue holds tasks, the two counters
\* never fall below zero.
THEOREM TypeCorrect == Disciplined => (Spec => []TypeOK)
  <1>1. IInv => TypeOK
    BY DEF IInv
  <1>2. QED
    BY <1>1, Inductive, PTL

\* The assertions of Fiber::resume and ~Fiber hold, and no thread switches to a
\* context another one has not saved yet.
THEOREM AssertionsHold == Disciplined => (Spec => []NoFault)
  <1>1. IInv => NoFault
    BY DEF IInv
  <1>2. QED
    BY <1>1, Inductive, PTL

\* When stop() has returned all work handed over has ended.
THEOREM StopIsComplete == Disciplined => (Spec => []StopDrains)
  <1>1. IInv => StopDrains
    <2>1. IInv /\ main \in {"stopped", "destroyed"} => \A t \in Run : pc[t] = "exited"
      BY CallerRuns DEF IInv, Phase
    <2>2. QED
      BY <2>1, AllExited DEF StopDrains
  <1>2. QED
    BY <1>1, Inductive, PTL

\* The decision to leave run() is final on every thread.
THEOREM ExitDecisionIsFinal == Disciplined => (Spec => []ExitIsFinal)
  <1>1. IInv => ExitIsFinal
    BY DEF IInv, Phase, Busy, ExitIsFinal
  <1>2. QED
    BY <1>1, Inductive, PTL

\* No job is lost between the queue, the threads and its end.
THEOREM NoJobIsLost == Disciplined => (Spec => []NoLostJob)
  <1>1. IInv => NoLostJob
    BY DEF IInv, JobInv
  <1>2. QED
    BY <1>1, Inductive, PTL

\* No two threads are ever on one fiber's stack.
THEOREM FiberHasOneThread == Disciplined => (Spec => []OneThreadPerFiber)
  <1>1. IInv => OneThreadPerFiber
    BY DEF IInv, JobInv, OneHolder, OneThreadPerFiber, Busy
  <1>2. QED
    BY <1>1, Inductive, PTL

-----------------------------------------------------------------------------
(* The scheduler implements the task pool.  The invariant supplies what    *)
(* the refinement mapping needs to know of the state before a step.        *)

\* Every step of the scheduler is a step of the pool, or invisible in it.
LEMMA StepSimulation ==
    ASSUME IInv, [Next]_vars
    PROVE  [Pool!Next]_(Pool!vars)
  <1> USE DEF At, MainAt, Goto
  <1>i. TypeOK /\ Counts /\ Phase /\ JobInv /\ NoFault
    BY DEF IInv
  <1>1. ASSUME NEW j \in Jobs, NEW thr \in Run \union {AnyThread}, MainSchedule(j, thr)
        PROVE  Pool!Next
    BY <1>i, <1>1, SubmitStep DEF MainSchedule, Phase
  <1>2. ASSUME NEW t \in Run, NEW j \in Jobs, NEW thr \in Run \union {AnyThread},
               FiberSchedule(t, j, thr)
        PROVE  Pool!Next
    BY <1>2, SubmitStep DEF FiberSchedule
  <1>3. CASE stop
    <2>1. poolStatus = "open" /\ poolStatus' = "closing" /\ UNCHANGED jobStatus
      BY <1>i, <1>3 DEF stop, poolStatus, Phase, jobStatus, statusOf
    <2>2. QED
      BY <2>1 DEF Pool!Next, Pool!Close
  <1>4. CASE stopJoin
    <2>1. poolStatus = "closing" /\ poolStatus' = "closed" /\ UNCHANGED jobStatus
      BY <1>i, <1>4 DEF stopJoin, poolStatus, Phase, jobStatus, statusOf
    <2>2. \A j \in Jobs : jobStatus[j] \in {"new", "done"}
      <3>1. \A t \in Run : pc[t] = "exited"
        BY <1>i, <1>4, CallerRuns DEF stopJoin, Phase
      <3>2. \A j \in given : m_state[j] = "TERM"
        BY <3>1, AllExited
      <3>3. QED
        BY <3>2 DEF jobStatus, statusOf
    <2>3. QED
      BY <2>1, <2>2 DEF Pool!Next, Pool!Closed
  <1>5. ASSUME NEW t \in Run, resume(t)
        PROVE  Pool!Next
    <2>0. PICK j : j = task[t].job
      OBVIOUS
    <2>1. /\ j \in Jobs /\ j \in given
          /\ m_state[j] \in {"NONE", "READY"}
      BY <1>i, <1>5, <2>0, HeldTask DEF resume, Busy, JobInv, ThreadInv, HolderInv
    <2>2. /\ m_state'[j] = "RUNNING"
          /\ \A k \in Jobs : k # j => m_state'[k] = m_state[k]
          /\ UNCHANGED <<given, main, m_stopping>>
      BY <1>i, <1>5, <2>0, <2>1 DEF resume, TypeOK
    <2>3. Pool!Become(j, "pending", "running")
      BY <2>1, <2>2, OneJobChanges DEF jobStatus, statusOf, poolStatus
    <2>4. QED
      BY <2>1, <2>3 DEF Pool!Next, Pool!Begin
  <1>6. ASSUME NEW t \in Run, yield(t) \/ MainFunc(t)
        PROVE  Pool!Next
    <2>0. PICK j : j = task[t].job
      OBVIOUS
    <2>1. j \in Jobs /\ j \in given /\ m_state[j] = "RUNNING"
      BY <1>6, <2>0, RunningJob DEF yield, MainFunc
    <2>2. /\ \A k \in Jobs : k # j => m_state'[k] = m_state[k]
          /\ UNCHANGED <<given, main, m_stopping>>
      BY <1>i, <1>6, <2>0, <2>1 DEF yield, MainFunc, TypeOK
    <2>3. CASE yield(t)
      <3>1. m_state'[j] = "READY"
        BY <1>i, <2>0, <2>1, <2>3 DEF yield, TypeOK
      <3>2. Pool!Become(j, "running", "pending")
        BY <2>1, <2>2, <3>1, OneJobChanges DEF jobStatus, statusOf, poolStatus
      <3>3. QED
        BY <2>1, <3>2 DEF Pool!Next, Pool!Suspend
    <2>4. CASE MainFunc(t)
      <3>1. m_state'[j] = "TERM"
        BY <1>i, <2>0, <2>1, <2>4 DEF MainFunc, TypeOK
      <3>2. Pool!Become(j, "running", "done")
        BY <2>1, <2>2, <3>1, OneJobChanges DEF jobStatus, statusOf, poolStatus
      <3>3. QED
        BY <2>1, <3>2 DEF Pool!Next, Pool!Finish
    <2>5. QED
      BY <1>6, <2>3, <2>4
  <1>7. CASE start \/ stopRootDone \/ stopAgain
    <2>1. poolStatus' = poolStatus /\ UNCHANGED <<m_state, given>>
      BY <1>7 DEF start, stopRootDone, stopAgain, poolStatus
    <2>2. QED
      BY <2>1, Invisible DEF statusOf
  <1>8. ASSUME UNCHANGED <<m_state, given, main, m_stopping>>
        PROVE  UNCHANGED Pool!vars
    BY <1>8, Invisible DEF statusOf, poolStatus
  <1>9. QED
    BY Zenon, <1>1, <1>2, <1>3, <1>4, <1>5, <1>6, <1>7, <1>8
       DEF Next, Caller_step, Thread_step, Terminated, Take, NoTaskFound, idle,
           IdleBack, Requeue, Swap, After, vars

\* The scheduler promises what the task pool promises: run(), the fibers and
\* stop() together take only the pool's steps.
THEOREM Refinement == Disciplined => (Spec => ImplementsTaskPool)
  <1> SUFFICES ASSUME Disciplined PROVE Spec => Pool!Spec
    BY DEF ImplementsTaskPool
  <1>1. Init => Pool!Init
    BY DEF Init, Pool!Init, jobStatus, statusOf, poolStatus
  <1>2. Spec => []IInv
    BY Inductive
  <1>3. QED
    BY <1>1, <1>2, StepSimulation, PTL DEF Spec, Pool!Spec

=============================================================================
