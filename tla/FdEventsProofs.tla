--------------------------- MODULE FdEventsProofs ---------------------------
(***************************************************************************)
(* The records of waiting fibers, for any number of fibers, pollers and    *)
(* descriptors.                                                            *)
(***************************************************************************)
EXTENDS FdEvents, FiniteSetTheorems, TLAPS

\* close() is not raced by an addEvent for the same descriptor.
CloseIsAlone == ~AddWhileClosing

\* The table that has grown for one descriptor is large enough for all: no later
\* contextResize(fd * 2) makes it smaller than a descriptor in use.
NoShrink == \A d, k \in Fds : InitSize <= d => k < 2 * d

Assumed == CloseIsAlone /\ NoShrink

-----------------------------------------------------------------------------
(* The inductive invariant.                                                *)

Places == {"idle", "resize", "add", "waiting", "ready", "dropped"}
Fiber == [at : Places, fd : Fds \union {0}, e : Events \union {""}, ctx : Ctx \union {NoCtx}]
Harvest == [ctx : Ctx, events : SUBSET Events, err : BOOLEAN]

Types ==
    /\ size \in Nat /\ InitSize <= size
    /\ event \in [Ctx -> SUBSET Events]
    /\ waiter \in [Ctx -> [Events -> Fibers \union {NoFiber}]]
    /\ m_pendingEventCount \in Int
    /\ epoll \in [Fds -> [ctx : Ctx \union {NoCtx}, events : SUBSET Events]]
    /\ open \in [Fds -> {"yes", "closing", "no"}]
    /\ fiber \in [Fibers -> Fiber]
    /\ harvest \in [Pollers -> SUBSET Harvest]

\* Every descriptor below the size has its first and only context.
TableRight ==
    /\ m_fdContexts = [d \in Fds |-> IF d < size THEN 1 ELSE 0]
    /\ gens = m_fdContexts

\* What a fiber knows of the event it is after, with n entries in the table.
Knows(q, n) ==
    /\ q.at \in {"add", "waiting", "ready", "dropped"} =>
         /\ q.fd \in Fds /\ q.e \in Events
         /\ q.ctx = <<q.fd, 1>> /\ q.fd < n
    /\ q.at = "resize" =>
         q.fd \in Fds /\ q.e \in Events /\ InitSize <= q.fd

FibersKnow == \A f \in Fibers : Knows(fiber[f], size)

\* Two fibers are after the same event.
Clash(q, r) ==
    /\ q.at \notin {"idle", "ready"} /\ r.at \notin {"idle", "ready"}
    /\ q.fd = r.fd /\ q.e = r.e

NoClash == \A f, g \in Fibers : Clash(fiber[f], fiber[g]) => f = g

\* Only a first context has events, and it is in the table.
FirstContexts ==
    \A c \in Ctx : event[c] # {} => c = <<c[1], 1>> /\ c[1] < size

Watched ==
    \A d \in Fds :
        epoll[d] = IF event[<<d, 1>>] = {} THEN Unwatched
                   ELSE [ctx |-> <<d, 1>>, events |-> event[<<d, 1>>]]

ClosedEmpty ==
    \A d \in Fds : open[d] # "yes" => event[<<d, 1>>] = {}

HarvestedFirst ==
    \A p \in Pollers : \A h \in harvest[p] : \E d \in Fds : h.ctx = <<d, 1>>

Body ==
    /\ Types /\ TableRight /\ FibersKnow /\ NoClash /\ WaitersMatch
    /\ FirstContexts /\ Watched /\ ClosedEmpty /\ HarvestedFirst /\ PendingExact

\* After the assertion of triggerEvent has failed nothing moves.
EInv ==
    /\ fault \in {"none", "trigger"}
    /\ fault = "none" => Body
    /\ fault # "none" => AllContexts

-----------------------------------------------------------------------------
(* Facts.                                                                  *)

\* The first context of a descriptor is a context.
LEMMA FirstCtx ==
  ASSUME NEW d \in Fds
  PROVE  <<d, 1>> \in Ctx /\ <<d, 1>>[1] = d /\ <<d, 1>> # NoCtx /\ d \in Nat /\ d > 0
  <1>1. 1 \in 1..MaxGen
    BY FdEventsAssumption
  <1>2. d \in Nat /\ d > 0
    BY FdEventsAssumption
  <1> QED
    BY <1>1, <1>2 DEF Ctx, NoCtx

\* A registered event, and how many there are.
Registered == {r \in Ctx \X Events : r[2] \in event[r[1]]}

\* The pairs of context and event are finitely many, so they can be counted.
LEMMA RegisteredFinite == IsFiniteSet(Ctx \X Events) /\ IsFiniteSet(Events)
  <1>1. IsFiniteSet(1..MaxGen)
    BY FdEventsAssumption, FS_Interval
  <1>2. IsFiniteSet(Ctx)
    BY <1>1, FdEventsAssumption, FS_Product DEF Ctx
  <1>3. IsFiniteSet({"READ", "WRITE"})
    <2>1. {"READ", "WRITE"} = {"READ"} \union {"WRITE"}
      OBVIOUS
    <2>2. IsFiniteSet({"READ"})
      BY FS_Singleton
    <2> QED
      BY <2>1, <2>2, FS_AddElement
  <1>4. IsFiniteSet(Events)
    BY <1>3, FdEventsAssumption, FS_Subset
  <1> QED
    BY <1>2, <1>4, FS_Product

\* Another place for the same fiber.
LEMMA Moves ==
  ASSUME NEW q \in Fiber, NEW at \in Places
  PROVE  LET r == [q EXCEPT !.at = at]
         IN  r \in Fiber /\ r.at = at /\ r.fd = q.fd /\ r.e = q.e /\ r.ctx = q.ctx
  BY DEF Fiber

\* In the table a descriptor finds its first context.
LEMMA Finds ==
  ASSUME TableRight, NEW d \in Fds, size > d, size \in Nat
  PROVE  Find(d) = <<d, 1>>
  <1>1. d < size
    BY FirstCtx
  <1> QED
    BY <1>1 DEF TableRight, Find

\* The invariant gives AllContexts.
LEMMA BodyAllContexts ==
  ASSUME Body
  PROVE  AllContexts
  <1> SUFFICES ASSUME NEW c \in Ctx, event[c] # {} PROVE size > c[1] /\ Find(c[1]) = c
    BY DEF AllContexts
  <1>1. c = <<c[1], 1>> /\ c[1] < size /\ c[1] \in Fds /\ size \in Nat
    BY DEF Body, FirstContexts, Types, Ctx
  <1>2. size > c[1]
    BY <1>1, FirstCtx
  <1> QED
    BY <1>1, <1>2, Finds DEF Body

\* The invariant gives RecordsAgree.
LEMMA BodyRecordsAgree ==
  ASSUME Body
  PROVE  RecordsAgree
  <1>1. EpollAgrees
    <2> SUFFICES ASSUME NEW c \in Ctx
                 PROVE  IF event[c] = {} THEN epoll[c[1]].ctx # c
                        ELSE epoll[c[1]] = [ctx |-> c, events |-> event[c]]
      BY DEF EpollAgrees
    <2>1. c[1] \in Fds /\ c # NoCtx
      BY FdEventsAssumption DEF Ctx, NoCtx
    <2>2. epoll[c[1]] = IF event[<<c[1], 1>>] = {} THEN Unwatched
                        ELSE [ctx |-> <<c[1], 1>>, events |-> event[<<c[1], 1>>]]
      BY <2>1 DEF Body, Watched
    <2>3. CASE event[c] = {}
      <3>1. CASE c = <<c[1], 1>>
        BY <2>1, <2>2, <2>3, <3>1 DEF Unwatched
      <3>2. CASE c # <<c[1], 1>>
        <4>1. epoll[c[1]].ctx \in {NoCtx, <<c[1], 1>>}
          BY <2>2 DEF Unwatched
        <4> QED
          BY <2>1, <2>3, <3>2, <4>1
      <3> QED
        BY <3>1, <3>2
    <2>4. CASE event[c] # {}
      <3>1. c = <<c[1], 1>>
        BY <2>4 DEF Body, FirstContexts
      <3> QED
        BY <2>2, <2>4, <3>1
    <2> QED
      BY <2>3, <2>4
  <1>2. ClosedHasNoEvents
    <2> SUFFICES ASSUME NEW c \in Ctx, open[c[1]] = "no", event[c] # {} PROVE FALSE
      BY DEF ClosedHasNoEvents
    <2>1. c = <<c[1], 1>> /\ c[1] \in Fds
      BY DEF Body, FirstContexts, Ctx
    <2> QED
      BY <2>1 DEF Body, ClosedEmpty
  <1> QED
    BY <1>1, <1>2 DEF Body, RecordsAgree

\* The invariant holds when the IOManager has been made.
LEMMA EInitInv == Init => EInv
  <1> SUFFICES ASSUME Init PROVE EInv
    OBVIOUS
  <1>1. Types
    <2>1. Idle \in Fiber /\ Unwatched \in [ctx : Ctx \union {NoCtx}, events : SUBSET Events]
      BY DEF Idle, Fiber, Places, Unwatched
    <2> QED
      BY <2>1, FdEventsAssumption DEF Init, Types
  <1>2. TableRight /\ FibersKnow /\ NoClash /\ FirstContexts
    BY DEF Init, TableRight, FibersKnow, Knows, NoClash, Clash, FirstContexts, Idle
  <1>3. WaitersMatch
    BY FdEventsAssumption DEF Init, WaitersMatch, Idle, NoFiber
  <1>4. Watched /\ ClosedEmpty /\ HarvestedFirst
    BY FirstCtx DEF Init, Watched, ClosedEmpty, HarvestedFirst
  <1>5. PendingExact
    <2>1. {r \in Ctx \X Events : r[2] \in event[r[1]]} = {}
      BY DEF Init
    <2> QED
      BY <2>1, FS_EmptySet DEF Init, PendingExact
  <1>6. Body
    BY <1>1, <1>2, <1>3, <1>4, <1>5 DEF Body
  <1> QED
    BY <1>6 DEF Init, EInv
-----------------------------------------------------------------------------
(* Steps that register and unregister nothing.                             *)

\* One fiber f, which waits for nothing, goes on with q.
LEMMA FiberMoves ==
  ASSUME Body, NEW f \in Fibers, NEW q \in Fiber, fiber' = [fiber EXCEPT ![f] = q],
         fiber[f].at # "waiting", q.at # "waiting", Knows(q, size'),
         \A g \in Fibers : g # f => ~Clash(fiber[g], q),
         \A g \in Fibers : Knows(fiber[g], size'),
         UNCHANGED <<event, waiter, m_pendingEventCount>>
  PROVE  fiber' \in [Fibers -> Fiber] /\ FibersKnow' /\ NoClash' /\ WaitersMatch' /\ PendingExact'
  <1>1. /\ fiber \in [Fibers -> Fiber] /\ fiber' \in [Fibers -> Fiber] /\ fiber'[f] = q
        /\ \A g \in Fibers : g # f => fiber'[g] = fiber[g]
    BY DEF Body, Types
  <1>2. FibersKnow'
    <2> SUFFICES ASSUME NEW g \in Fibers PROVE Knows(fiber'[g], size')
      BY DEF FibersKnow, Knows
    <2> QED
      BY <1>1
  <1>3. NoClash'
    <2> SUFFICES ASSUME NEW g \in Fibers, NEW h \in Fibers, Clash(fiber'[g], fiber'[h]), g # h
                 PROVE  FALSE
      BY DEF NoClash, Clash
    <2>1. CASE g = f
      BY <1>1, <2>1 DEF Clash
    <2>2. CASE h = f
      BY <1>1, <2>2 DEF Clash
    <2>3. CASE g # f /\ h # f
      BY <1>1, <2>3 DEF Body, NoClash, Clash
    <2> QED
      BY <2>1, <2>2, <2>3
  <1>4. WaitersMatch'
    BY <1>1 DEF Body, WaitersMatch
  <1>5. PendingExact'
    BY DEF Body, PendingExact
  <1> QED
    BY <1>1, <1>2, <1>3, <1>4, <1>5
LEMMA BeginKeeps ==
  ASSUME Body, NEW f \in Fibers, NEW d \in Fds, NEW e \in Events, Begin(f, d, e)
  PROVE  Body'
  <1> DEFINE q == IF size > d THEN [at |-> "add", fd |-> d, e |-> e, ctx |-> Find(d)]
                  ELSE [at |-> "resize", fd |-> d, e |-> e, ctx |-> NoCtx]
  <1>1. /\ fiber[f].at = "idle"
        /\ \A g \in Fibers : fiber[g].at \in {"idle", "ready"} \/ fiber[g].fd # d \/ fiber[g].e # e
        /\ fiber' = [fiber EXCEPT ![f] = q]
        /\ UNCHANGED <<m_fdContexts, size, gens, event, waiter, m_pendingEventCount, epoll,
                       open, harvest>>
    BY DEF Begin
  <1>2. Types /\ TableRight /\ size \in Nat /\ InitSize <= size /\ d \in Nat /\ InitSize \in Nat
    BY FirstCtx, FdEventsAssumption DEF Body, Types
  <1>3. /\ q \in Fiber /\ q.fd = d /\ q.e = e /\ q.at \in {"add", "resize"}
        /\ q.at = "add" => q.ctx = <<d, 1>> /\ d < size
        /\ q.at = "resize" => InitSize <= d
    <2>1. CASE size > d
      <3>1. Find(d) = <<d, 1>> /\ <<d, 1>> \in Ctx
        BY <1>2, <2>1, Finds, FirstCtx
      <3> QED
        BY <1>2, <2>1, <3>1 DEF Fiber, Places
    <2>2. CASE ~(size > d)
      <3>1. q = [at |-> "resize", fd |-> d, e |-> e, ctx |-> NoCtx]
        BY <2>2
      <3>2. InitSize <= d
        BY <1>2, <2>2
      <3> HIDE DEF q
      <3> QED
        BY <3>1, <3>2 DEF Fiber, Places
    <2> QED
      BY <2>1, <2>2
  <1> HIDE DEF q
  <1>4. /\ Knows(q, size') /\ \A g \in Fibers : Knows(fiber[g], size')
    BY <1>1, <1>3 DEF Body, FibersKnow, Knows
  <1>5. \A g \in Fibers : g # f => ~Clash(fiber[g], q)
    BY <1>1, <1>3 DEF Clash
  <1>6. fiber' \in [Fibers -> Fiber] /\ FibersKnow' /\ NoClash' /\ WaitersMatch' /\ PendingExact'
    BY <1>1, <1>3, <1>4, <1>5, FiberMoves
  <1>7. Types' /\ TableRight' /\ FirstContexts' /\ Watched' /\ ClosedEmpty' /\ HarvestedFirst'
    BY <1>1, <1>6 DEF Body, Types, TableRight, FirstContexts, Watched, ClosedEmpty, HarvestedFirst
  <1> QED
    BY <1>6, <1>7 DEF Body

\* contextResize under the write lock makes contexts and loses none.
LEMMA ResizeKeeps ==
  ASSUME NoShrink, Body, NEW f \in Fibers, Resize(f)
  PROVE  Body'
  <1> DEFINE d == fiber[f].fd
             q == [fiber[f] EXCEPT !.at = "add", !.ctx = <<d, m_fdContexts'[d]>>]
  <1>1. /\ fiber[f].at = "resize" /\ contextResize(d * 2)
        /\ fiber' = [fiber EXCEPT ![f].at = "add", ![f].ctx = <<d, m_fdContexts'[d]>>]
        /\ UNCHANGED <<event, waiter, m_pendingEventCount, epoll, open, harvest>>
    BY DEF Resize
  <1>2. /\ fiber[f] \in Fiber /\ size \in Nat /\ d \in Fds /\ fiber[f].e \in Events /\ InitSize <= d
        /\ d \in Nat /\ InitSize \in Nat /\ fiber \in [Fibers -> Fiber]
    BY <1>1, FirstCtx, FdEventsAssumption DEF Body, Types, FibersKnow, Knows
  <1>3. \A k \in Fds : k \in Nat /\ k < d * 2
    <2> HIDE DEF d
    <2> SUFFICES ASSUME NEW k \in Fds PROVE k \in Nat /\ k < d * 2
      OBVIOUS
    <2>1. k < 2 * d
      BY <1>2 DEF NoShrink
    <2>2. k \in Nat
      BY FirstCtx
    <2> QED
      BY <1>2, <2>1, <2>2
  <1>4. /\ size' = d * 2 /\ size' \in Nat /\ InitSize <= size'
        /\ \A k \in Fds : k < size' /\ ~(k >= size')
    BY <1>1, <1>2, <1>3 DEF contextResize
  <1>5. TableRight'
    <2>1. /\ m_fdContexts = [k \in Fds |-> IF k < size THEN 1 ELSE 0]
          /\ gens = m_fdContexts
      BY DEF Body, TableRight
    <2> DEFINE missing == {k \in Fds : k < d * 2 /\ (m_fdContexts[k] = 0 \/ k >= size)}
    <2>2. /\ gens' = [k \in Fds |-> IF k \in missing THEN gens[k] + 1 ELSE gens[k]]
          /\ m_fdContexts' = [k \in Fds |-> IF k >= d * 2 THEN 0
                                            ELSE IF k \in missing THEN gens[k] + 1
                                            ELSE m_fdContexts[k]]
      BY <1>1 DEF contextResize
    <2>3. \A k \in Fds : /\ k \in missing => gens[k] + 1 = 1
                         /\ k \notin missing => gens[k] = 1 /\ m_fdContexts[k] = 1
      BY <1>2, <1>3, <2>1
    <2> HIDE DEF missing
    <2>4. gens' = [k \in Fds |-> 1] /\ m_fdContexts' = [k \in Fds |-> 1]
      BY <1>3, <1>4, <2>2, <2>3
    <2> QED
      BY <1>4, <2>4 DEF TableRight
  <1>6. m_fdContexts'[d] = 1 /\ <<d, 1>> \in Ctx
    BY <1>2, <1>4, <1>5, FirstCtx DEF TableRight
  <1>7. /\ q \in Fiber /\ q.at = "add" /\ q.fd = d /\ q.e = fiber[f].e /\ q.ctx = <<d, 1>>
    BY <1>2, <1>6 DEF Fiber, Places
  <1>8. fiber' = [fiber EXCEPT ![f] = q]
    BY <1>1, <1>2
  <1> HIDE DEF q, d
  <1>9. /\ Knows(q, size') /\ \A g \in Fibers : Knows(fiber[g], size')
    BY <1>2, <1>4, <1>7 DEF Body, FibersKnow, Knows
  <1>10. \A g \in Fibers : g # f => ~Clash(fiber[g], q)
    BY <1>1, <1>7 DEF Clash, Body, NoClash, d
  <1>11. fiber' \in [Fibers -> Fiber] /\ FibersKnow' /\ NoClash' /\ WaitersMatch' /\ PendingExact'
    BY <1>1, <1>7, <1>8, <1>9, <1>10, FiberMoves
  <1>12. Types' /\ Watched' /\ ClosedEmpty' /\ HarvestedFirst'
    BY <1>1, <1>4, <1>11 DEF Body, Types, Watched, ClosedEmpty, HarvestedFirst
  <1>13. FirstContexts'
    <2>1. \A c \in Ctx : c[1] \in Fds
      BY DEF Ctx
    <2> QED
      BY <1>1, <1>4, <2>1 DEF Body, FirstContexts
  <1> QED
    BY <1>5, <1>11, <1>12, <1>13 DEF Body

\* A fiber gives up, or has been resumed: it is idle again.
LEMMA IdleKeeps ==
  ASSUME Body, NEW f \in Fibers, fiber[f].at \in {"add", "ready"}, fiber' = [fiber EXCEPT ![f] = Idle],
         UNCHANGED <<m_fdContexts, size, gens, event, waiter, m_pendingEventCount, epoll, open,
                     harvest>>
  PROVE  Body'
  <1>1. Idle \in Fiber /\ Idle.at = "idle"
    BY DEF Idle, Fiber, Places
  <1>2. /\ Knows(Idle, size') /\ \A g \in Fibers : Knows(fiber[g], size')
        /\ \A g \in Fibers : ~Clash(fiber[g], Idle)
    BY <1>1 DEF Body, FibersKnow, Knows, Clash
  <1>3. fiber' \in [Fibers -> Fiber] /\ FibersKnow' /\ NoClash' /\ WaitersMatch' /\ PendingExact'
    BY <1>1, <1>2, FiberMoves
  <1>4. Types' /\ TableRight' /\ FirstContexts' /\ Watched' /\ ClosedEmpty' /\ HarvestedFirst'
    BY <1>3 DEF Body, Types, TableRight, FirstContexts, Watched, ClosedEmpty, HarvestedFirst
  <1> QED
    BY <1>3, <1>4 DEF Body

\* A descriptor is opened or closed, or events are harvested.
LEMMA OpenKeeps ==
  ASSUME Body, open' \in [Fds -> {"yes", "closing", "no"}],
         \A d \in Fds : open'[d] # "yes" => event[<<d, 1>>] = {},
         harvest' \in [Pollers -> SUBSET Harvest], HarvestedFirst',
         UNCHANGED <<m_fdContexts, size, gens, event, waiter, m_pendingEventCount, epoll, fiber>>
  PROVE  Body'
  <1>1. Types' /\ TableRight' /\ FibersKnow' /\ NoClash' /\ WaitersMatch'
    BY DEF Body, Types, TableRight, FibersKnow, Knows, NoClash, Clash, WaitersMatch
  <1>2. FirstContexts' /\ Watched' /\ ClosedEmpty' /\ PendingExact'
    BY DEF Body, FirstContexts, Watched, ClosedEmpty, PendingExact
  <1> QED
    BY <1>1, <1>2 DEF Body

\* close_f, and the kernel giving the number out again.
LEMMA CloseEndReopenKeep ==
  ASSUME Body, NEW d \in Fds, CloseEnd(d) \/ Reopen(d)
  PROVE  Body'
  <1>1. Types
    BY DEF Body
  <1>2. CASE CloseEnd(d)
    <2>1. /\ open[d] = "closing" /\ open' = [open EXCEPT ![d] = "no"]
          /\ epoll' = [epoll EXCEPT ![d] = Unwatched]
          /\ UNCHANGED <<m_fdContexts, size, gens, event, waiter, m_pendingEventCount, fiber,
                         harvest>>
      BY <1>2 DEF CloseEnd
    <2>2. event[<<d, 1>>] = {} /\ epoll[d] = Unwatched
      BY <2>1 DEF Body, ClosedEmpty, Watched
    <2>3. epoll' = epoll
      BY <2>1, <2>2, <1>1 DEF Types
    <2>4. /\ open' \in [Fds -> {"yes", "closing", "no"}]
          /\ \A k \in Fds : open'[k] # "yes" => event[<<k, 1>>] = {}
      BY <1>1, <2>1, <2>2 DEF Types, Body, ClosedEmpty
    <2> QED
      BY <1>1, <2>1, <2>3, <2>4, OpenKeeps DEF Types, Body, HarvestedFirst
  <1>3. CASE Reopen(d)
    <2>1. /\ open' = [open EXCEPT ![d] = "yes"]
          /\ UNCHANGED <<m_fdContexts, size, gens, event, waiter, m_pendingEventCount, epoll, fiber,
                         harvest>>
      BY <1>3 DEF Reopen
    <2>2. /\ open' \in [Fds -> {"yes", "closing", "no"}]
          /\ \A k \in Fds : open'[k] # "yes" => event[<<k, 1>>] = {}
      BY <1>1, <2>1 DEF Types, Body, ClosedEmpty
    <2> QED
      BY <1>1, <2>1, <2>2, OpenKeeps DEF Types, Body, HarvestedFirst
  <1> QED
    BY <1>2, <1>3

\* epoll_wait hands a poller some of what is watched.
LEMMA EpollWaitKeeps ==
  ASSUME Body, NEW p \in Pollers, epoll_wait(p)
  PROVE  Body'
  <1>1. PICK H \in SUBSET Reports : harvest' = [harvest EXCEPT ![p] = H]
    BY DEF epoll_wait
  <1>2. UNCHANGED <<m_fdContexts, size, gens, event, waiter, m_pendingEventCount, epoll, open, fiber>>
    BY DEF epoll_wait
  <1>3. ASSUME NEW h \in Reports
        PROVE  h \in Harvest /\ \E d \in Fds : h.ctx = <<d, 1>>
    <2>1. PICK d \in Fds : h.ctx = epoll[d].ctx /\ h.ctx # NoCtx
      BY DEF Reports
    <2>2. h.ctx = <<d, 1>>
      <3>1. epoll[d] = Unwatched \/ epoll[d] = [ctx |-> <<d, 1>>, events |-> event[<<d, 1>>]]
        BY DEF Body, Watched
      <3>2. epoll[d].ctx = NoCtx \/ epoll[d].ctx = <<d, 1>>
        BY <3>1 DEF Unwatched
      <3> QED
        BY <2>1, <3>2
    <2>3. h.ctx \in Ctx
      BY <2>2, FirstCtx
    <2>4. h \in [ctx : {epoll[k].ctx : k \in Fds} \ {NoCtx}, events : SUBSET Events, err : BOOLEAN]
      BY DEF Reports
    <2> QED
      BY <2>2, <2>3, <2>4 DEF Harvest
  <1>4. harvest' \in [Pollers -> SUBSET Harvest]
    BY <1>1, <1>3 DEF Body, Types
  <1>5. HarvestedFirst'
    BY <1>1, <1>3 DEF Body, Types, HarvestedFirst
  <1> QED
    BY <1>2, <1>4, <1>5, OpenKeeps DEF Body, Types, ClosedEmpty
-----------------------------------------------------------------------------
(* addEvent.                                                               *)

\* The fiber of an EventContext waits for its event.
LEMMA WaiterWaits ==
  ASSUME Body, NEW c \in Ctx, NEW e \in Events, NEW g \in Fibers, waiter[c][e] = g
  PROVE  fiber[g].at = "waiting" /\ fiber[g].e = e /\ c = <<fiber[g].fd, 1>>
  <1>1. fiber[g].at = "waiting" /\ fiber[g].ctx = c /\ fiber[g].e = e
    BY DEF Body, WaitersMatch
  <1>2. fiber[g].ctx = <<fiber[g].fd, 1>>
    BY <1>1 DEF Body, FibersKnow, Knows
  <1> QED
    BY <1>1, <1>2

\* A fiber before epoll_ctl: its event is not registered.
LEMMA NotYet ==
  ASSUME Body, NEW f \in Fibers, fiber[f].at = "add"
  PROVE  /\ fiber[f].fd \in Fds /\ fiber[f].e \in Events /\ fiber[f].ctx = <<fiber[f].fd, 1>>
         /\ fiber[f].fd < size
         /\ fiber[f].e \notin event[fiber[f].ctx] /\ waiter[fiber[f].ctx][fiber[f].e] = NoFiber
  <1> DEFINE d == fiber[f].fd
             e == fiber[f].e
             c == fiber[f].ctx
  <1>1. d \in Fds /\ e \in Events /\ c = <<d, 1>> /\ d < size
    BY DEF Body, FibersKnow, Knows
  <1>2. c \in Ctx
    BY <1>1, FirstCtx
  <1>3. waiter[c][e] \in Fibers \union {NoFiber}
    BY <1>1, <1>2 DEF Body, Types
  <1>4. ASSUME waiter[c][e] \in Fibers PROVE FALSE
    <2>1. PICK g \in Fibers : waiter[c][e] = g
      BY <1>4
    <2> HIDE DEF d, e, c
    <2>2. fiber[g].at = "waiting" /\ fiber[g].e = e /\ c = <<fiber[g].fd, 1>>
      BY <1>1, <1>2, <2>1, WaiterWaits
    <2>3. fiber[g].fd = d
      <3>1. <<fiber[g].fd, 1>> = <<d, 1>>
        BY <1>1, <2>2, Zenon
      <3> QED
        BY <3>1
    <2>4. Clash(fiber[g], fiber[f])
      BY <2>2, <2>3 DEF Clash, d, e
    <2>5. g = f
      BY <2>4 DEF Body, NoClash
    <2> QED
      BY <2>2, <2>5
  <1>5. waiter[c][e] = NoFiber
    BY <1>3, <1>4
  <1>6. e \notin event[c]
    BY <1>1, <1>2, <1>5 DEF Body, WaitersMatch
  <1> QED
    BY <1>1, <1>5, <1>6

\* The last disjunct of addEvent: e of d is registered for f.
LEMMA RegisterKeeps ==
  ASSUME Body, NEW f \in Fibers, fiber[f].at = "add",
         NEW d \in Fds, d = fiber[f].fd, NEW e \in Events, e = fiber[f].e,
         NEW c \in Ctx, c = <<d, 1>>, c = fiber[f].ctx,
         open[d] = "yes", d < size, e \notin event[c], waiter[c][e] = NoFiber,
         epoll' = [epoll EXCEPT ![d] = [ctx |-> c, events |-> event[c] \union {e}]],
         m_pendingEventCount' = m_pendingEventCount + 1,
         event' = [event EXCEPT ![c] = @ \union {e}],
         waiter' = [waiter EXCEPT ![c][e] = f],
         fiber' = [fiber EXCEPT ![f].at = "waiting"],
         UNCHANGED <<m_fdContexts, size, gens, open, harvest>>
  PROVE  Body'
  <1>1. /\ event \in [Ctx -> SUBSET Events] /\ fiber \in [Fibers -> Fiber] /\ fiber[f] \in Fiber
        /\ waiter \in [Ctx -> [Events -> Fibers \union {NoFiber}]]
        /\ epoll \in [Fds -> [ctx : Ctx \union {NoCtx}, events : SUBSET Events]]
        /\ f # NoFiber
    BY FdEventsAssumption DEF Body, Types, NoFiber
  <1>2. /\ event' \in [Ctx -> SUBSET Events] /\ event'[c] = event[c] \union {e}
        /\ \A b \in Ctx : b # c => event'[b] = event[b]
    BY <1>1
  <1>3. /\ waiter' \in [Ctx -> [Events -> Fibers \union {NoFiber}]] /\ waiter'[c][e] = f
        /\ \A b \in Ctx, x \in Events : b # c \/ x # e => waiter'[b][x] = waiter[b][x]
    BY <1>1
  <1>4. /\ fiber' \in [Fibers -> Fiber]
        /\ fiber'[f].at = "waiting" /\ fiber'[f].fd = d /\ fiber'[f].e = e /\ fiber'[f].ctx = c
        /\ \A g \in Fibers : g # f => fiber'[g] = fiber[g]
    BY <1>1, Moves DEF Places
  <1>5. /\ epoll' \in [Fds -> [ctx : Ctx \union {NoCtx}, events : SUBSET Events]]
        /\ epoll'[d] = [ctx |-> c, events |-> event[c] \union {e}]
        /\ \A k \in Fds : k # d => epoll'[k] = epoll[k]
    BY <1>1
  <1>6. Types'
    BY <1>2, <1>3, <1>4, <1>5 DEF Body, Types
  <1>7. TableRight' /\ HarvestedFirst'
    BY DEF Body, TableRight, HarvestedFirst
  <1>8. FibersKnow'
    BY <1>4 DEF Body, FibersKnow, Knows
  <1>9. NoClash'
    <2>1. \A g \in Fibers : /\ fiber'[g].fd = fiber[g].fd /\ fiber'[g].e = fiber[g].e
                            /\ fiber'[g].at \in {"idle", "ready"} <=> fiber[g].at \in {"idle", "ready"}
      BY <1>4
    <2> QED
      BY <2>1 DEF Body, NoClash, Clash
  <1>10. WaitersMatch'
    <2>1. ASSUME NEW b \in Ctx, NEW x \in Events
          PROVE  x \in event'[b] <=> waiter'[b][x] # NoFiber
      <3>1. x \in event[b] <=> waiter[b][x] # NoFiber
        BY DEF Body, WaitersMatch
      <3>2. CASE b = c /\ x = e
        BY <1>1, <1>2, <1>3, <3>2
      <3>3. CASE b # c \/ x # e
        BY <1>2, <1>3, <3>1, <3>3
      <3> QED
        BY <3>2, <3>3
    <2>2. ASSUME NEW g \in Fibers, NEW b \in Ctx, NEW x \in Events
          PROVE  waiter'[b][x] = g <=> /\ fiber'[g].at = "waiting"
                                       /\ fiber'[g].ctx = b /\ fiber'[g].e = x
      <3>1. waiter[b][x] = g <=> /\ fiber[g].at = "waiting"
                                 /\ fiber[g].ctx = b /\ fiber[g].e = x
        BY DEF Body, WaitersMatch
      <3>2. CASE g = f
        BY <1>3, <1>4, <3>1, <3>2
      <3>3. CASE g # f
        <4>1. g # NoFiber
          BY FdEventsAssumption DEF NoFiber
        <4> QED
          BY <1>3, <1>4, <3>1, <3>3, <4>1
      <3> QED
        BY <3>2, <3>3
    <2> QED
      BY <2>1, <2>2 DEF WaitersMatch
  <1>11. FirstContexts'
    BY <1>2, FirstCtx DEF Body, FirstContexts
  <1>12. Watched'
    <2> SUFFICES ASSUME NEW k \in Fds
                 PROVE  epoll'[k] = IF event'[<<k, 1>>] = {} THEN Unwatched
                                    ELSE [ctx |-> <<k, 1>>, events |-> event'[<<k, 1>>]]
      BY DEF Watched
    <2>1. CASE k = d
      BY <1>2, <1>5, <2>1
    <2>2. CASE k # d
      <3>1. <<k, 1>> # c /\ <<k, 1>> \in Ctx
        BY <2>2, FirstCtx
      <3>2. event'[<<k, 1>>] = event[<<k, 1>>] /\ epoll'[k] = epoll[k]
        BY <1>2, <1>5, <2>2, <3>1
      <3> QED
        BY <3>2 DEF Body, Watched
    <2> QED
      BY <2>1, <2>2
  <1>13. ClosedEmpty'
    <2> SUFFICES ASSUME NEW k \in Fds, open[k] # "yes" PROVE event'[<<k, 1>>] = {}
      BY DEF ClosedEmpty
    <2>1. <<k, 1>> # c /\ <<k, 1>> \in Ctx
      BY FirstCtx
    <2> QED
      BY <1>2, <2>1 DEF Body, ClosedEmpty
  <1>14. PendingExact'
    <2>1. Registered' = Registered \union {<<c, e>>}
      <3>1. \A r \in Ctx \X Events : r[1] \in Ctx /\ r[2] \in Events /\ r = <<r[1], r[2]>>
        OBVIOUS
      <3>2. \A r \in Ctx \X Events :
               r[2] \in event'[r[1]] <=> r[2] \in event[r[1]] \/ r = <<c, e>>
        BY <1>2, <3>1
      <3> QED
        BY <3>2 DEF Registered
    <2>2. <<c, e>> \notin Registered
      BY DEF Registered
    <2>3. IsFiniteSet(Registered)
      BY RegisteredFinite, FS_Subset DEF Registered
    <2>4. Cardinality(Registered') = Cardinality(Registered) + 1
      BY <2>1, <2>2, <2>3, FS_AddElement
    <2> QED
      BY <2>4 DEF Body, PendingExact, Registered
  <1> QED
    BY <1>6, <1>7, <1>8, <1>9, <1>10, <1>11, <1>12, <1>13, <1>14 DEF Body

\* addEvent under the lock of the context.
LEMMA AddEventKeeps ==
  ASSUME CloseIsAlone, fault = "none", Body, NEW f \in Fibers, addEvent(f)
  PROVE  Body' /\ fault' = "none"
  <1> DEFINE d == fiber[f].fd
             e == fiber[f].e
             c == fiber[f].ctx
             op == IF event[c] = {} THEN "ADD" ELSE "MOD"
  <1>1. fiber[f].at = "add"
    BY DEF addEvent
  <1>2. /\ d \in Fds /\ e \in Events /\ c = <<d, 1>> /\ d < size
        /\ e \notin event[c] /\ waiter[c][e] = NoFiber
    BY <1>1, NotYet
  <1>3. open[d] # "closing" /\ UNCHANGED <<m_fdContexts, size, gens, open, harvest>>
    BY DEF addEvent, CloseIsAlone
  <1>4. CASE /\ fiber' = [fiber EXCEPT ![f] = Idle]
             /\ UNCHANGED <<event, waiter, m_pendingEventCount, epoll, fault>>
    BY <1>1, <1>3, <1>4, IdleKeeps
  <1>5. CASE /\ ~CtlFails(op, d)
             /\ CtlDone(op, d, c, event[c] \union {e})
             /\ m_pendingEventCount' = m_pendingEventCount + 1
             /\ event' = [event EXCEPT ![c] = @ \union {e}]
             /\ waiter' = [waiter EXCEPT ![c][e] = f]
             /\ fiber' = [fiber EXCEPT ![f].at = "waiting"]
             /\ UNCHANGED fault
    <2>1. open[d] = "yes"
      BY <1>2, <1>3, <1>5 DEF CtlFails, Body, Types
    <2>2. epoll' = [epoll EXCEPT ![d] = [ctx |-> c, events |-> event[c] \union {e}]]
      BY <1>5 DEF CtlDone
    <2>3. c \in Ctx
      BY <1>2, FirstCtx
    <2> HIDE DEF d, e, c
    <2> QED
      BY <1>1, <1>2, <1>3, <1>5, <2>1, <2>2, <2>3, RegisterKeeps DEF d, e, c
  <1> QED
    BY <1>2, <1>4, <1>5 DEF addEvent
-----------------------------------------------------------------------------
(* Events are taken away.                                                  *)

\* What else such a step does when left is still waited for on d.
Beside(d, left) ==
    /\ open' \in [Fds -> {"yes", "closing", "no"}]
    /\ \A k \in Fds : k # d => open'[k] = open[k]
    /\ open'[d] # "yes" => open[d] # "yes" \/ left = {}
    /\ harvest' \in [Pollers -> SUBSET Harvest] /\ HarvestedFirst'
    /\ UNCHANGED <<m_fdContexts, size, gens>>

\* delEvent, cancelEvent, cancelAll and the event loop: es is unregistered, and
\* its fibers are at to.
LEMMA ClearKeeps ==
  ASSUME Body, NEW d \in Fds, NEW c \in Ctx, c = <<d, 1>>, NEW es \in SUBSET event[c],
         NEW left, left = event[c] \ es,
         NEW to \in {"ready", "dropped"}, Clear(c, es),
         epoll' = [epoll EXCEPT ![d] = IF left = {} THEN Unwatched
                                       ELSE [ctx |-> c, events |-> left]],
         fiber' = [f \in Fibers |-> IF f \in Waiters(c, es) THEN [fiber[f] EXCEPT !.at = to]
                                    ELSE fiber[f]],
         Beside(d, left)
  PROVE  Body'
  <1>1. /\ event \in [Ctx -> SUBSET Events] /\ fiber \in [Fibers -> Fiber]
        /\ waiter \in [Ctx -> [Events -> Fibers \union {NoFiber}]]
        /\ epoll \in [Fds -> [ctx : Ctx \union {NoCtx}, events : SUBSET Events]]
        /\ m_pendingEventCount \in Int
    BY DEF Body, Types
  <1>2. event[c] \in SUBSET Events /\ es \subseteq Events /\ left \in SUBSET Events
    BY <1>1
  <1>3. /\ event' \in [Ctx -> SUBSET Events] /\ event'[c] = left
        /\ \A b \in Ctx : b # c => event'[b] = event[b]
    BY <1>1, <1>2 DEF Clear
  <1>4. /\ waiter' \in [Ctx -> [Events -> Fibers \union {NoFiber}]]
        /\ \A x \in es : waiter'[c][x] = NoFiber
        /\ \A b \in Ctx, x \in Events : b # c \/ x \notin es => waiter'[b][x] = waiter[b][x]
    BY <1>1, <1>2 DEF Clear
  <1>5. \A f \in Fibers : f \in Waiters(c, es) <=> \E x \in es : waiter[c][x] = f
    BY DEF Waiters
  <1>6. \A f \in Fibers : f \in Waiters(c, es) =>
            fiber[f].at = "waiting" /\ fiber[f].ctx = c /\ fiber[f].e \in es
    BY <1>2, <1>5 DEF Body, WaitersMatch
  <1>7. /\ fiber' \in [Fibers -> Fiber]
        /\ \A f \in Fibers : /\ fiber'[f].fd = fiber[f].fd /\ fiber'[f].e = fiber[f].e
                             /\ fiber'[f].ctx = fiber[f].ctx
                             /\ fiber'[f].at = IF f \in Waiters(c, es) THEN to ELSE fiber[f].at
    <2> SUFFICES ASSUME NEW f \in Fibers
                 PROVE  /\ fiber'[f] \in Fiber
                        /\ fiber'[f].fd = fiber[f].fd /\ fiber'[f].e = fiber[f].e
                        /\ fiber'[f].ctx = fiber[f].ctx
                        /\ fiber'[f].at = IF f \in Waiters(c, es) THEN to ELSE fiber[f].at
      OBVIOUS
    <2>1. fiber[f] \in Fiber /\ to \in Places
      BY <1>1 DEF Places
    <2>2. CASE f \in Waiters(c, es)
      <3>1. fiber'[f] = [fiber[f] EXCEPT !.at = to]
        BY <2>2
      <3> DEFINE r == [fiber[f] EXCEPT !.at = to]
      <3>2. /\ r \in Fiber /\ r.at = to
            /\ r.fd = fiber[f].fd /\ r.e = fiber[f].e /\ r.ctx = fiber[f].ctx
        BY <2>1, Moves
      <3>3. fiber'[f] = r
        BY <3>1
      <3> HIDE DEF r
      <3> QED
        BY <2>2, <3>2, <3>3
    <2>3. CASE f \notin Waiters(c, es)
      BY <2>1, <2>3
    <2> QED
      BY <2>2, <2>3
  <1>8. /\ epoll' \in [Fds -> [ctx : Ctx \union {NoCtx}, events : SUBSET Events]]
        /\ epoll'[d] = IF left = {} THEN Unwatched ELSE [ctx |-> c, events |-> left]
        /\ \A k \in Fds : k # d => epoll'[k] = epoll[k]
    <2>1. (IF left = {} THEN Unwatched ELSE [ctx |-> c, events |-> left])
            \in [ctx : Ctx \union {NoCtx}, events : SUBSET Events]
      BY <1>2 DEF Unwatched
    <2> QED
      BY <1>1, <2>1
  <1>9. IsFiniteSet(es) /\ Cardinality(es) \in Nat
    BY <1>2, RegisteredFinite, FS_Subset, FS_CardinalityType
  <1>10. Types'
    <2>1. m_pendingEventCount' \in Int
      BY <1>1, <1>9 DEF Clear
    <2> QED
      BY <1>3, <1>4, <1>7, <1>8, <2>1 DEF Body, Types, Beside
  <1>11. TableRight' /\ HarvestedFirst'
    BY DEF Body, TableRight, Beside
  <1>12. FibersKnow'
    BY <1>6, <1>7 DEF Body, FibersKnow, Knows, Beside
  <1>13. NoClash'
    <2>1. \A f \in Fibers : fiber'[f].at \notin {"idle", "ready"} => fiber[f].at \notin {"idle", "ready"}
      BY <1>6, <1>7
    <2> QED
      BY <1>7, <2>1 DEF Body, NoClash, Clash
  <1>14. WaitersMatch'
    <2>1. ASSUME NEW b \in Ctx, NEW x \in Events
          PROVE  x \in event'[b] <=> waiter'[b][x] # NoFiber
      <3>1. x \in event[b] <=> waiter[b][x] # NoFiber
        BY DEF Body, WaitersMatch
      <3>2. CASE b = c /\ x \in es
        BY <1>3, <1>4, <3>2
      <3>3. CASE b # c \/ x \notin es
        BY <1>3, <1>4, <3>1, <3>3
      <3> QED
        BY <3>2, <3>3
    <2>2. ASSUME NEW g \in Fibers, NEW b \in Ctx, NEW x \in Events
          PROVE  waiter'[b][x] = g <=> /\ fiber'[g].at = "waiting"
                                       /\ fiber'[g].ctx = b /\ fiber'[g].e = x
      <3>1. waiter[b][x] = g <=> /\ fiber[g].at = "waiting"
                                 /\ fiber[g].ctx = b /\ fiber[g].e = x
        BY DEF Body, WaitersMatch
      <3>2. g # NoFiber
        BY FdEventsAssumption DEF NoFiber
      <3>3. CASE b = c /\ x \in es
        <4>1. waiter'[b][x] # g
          BY <1>4, <3>2, <3>3
        <4>2. fiber[g].at = "waiting" /\ fiber[g].ctx = b /\ fiber[g].e = x => g \in Waiters(c, es)
          BY <1>5, <3>1, <3>3
        <4> QED
          BY <1>7, <4>1, <4>2
      <3>4. CASE b # c \/ x \notin es
        <4>1. waiter'[b][x] = waiter[b][x]
          BY <1>4, <3>4
        <4>2. g \in Waiters(c, es) => ~(fiber[g].ctx = b /\ fiber[g].e = x)
          BY <1>6, <3>4
        <4> QED
          BY <1>7, <3>1, <4>1, <4>2
      <3> QED
        BY <3>3, <3>4
    <2> QED
      BY <2>1, <2>2 DEF WaitersMatch
  <1>15. FirstContexts'
    BY <1>3 DEF Body, FirstContexts, Beside
  <1>16. Watched'
    <2> SUFFICES ASSUME NEW k \in Fds
                 PROVE  epoll'[k] = IF event'[<<k, 1>>] = {} THEN Unwatched
                                    ELSE [ctx |-> <<k, 1>>, events |-> event'[<<k, 1>>]]
      BY DEF Watched
    <2>1. CASE k = d
      BY <1>3, <1>8, <2>1
    <2>2. CASE k # d
      <3>1. <<k, 1>> # c /\ <<k, 1>> \in Ctx
        BY <2>2, FirstCtx
      <3>2. event'[<<k, 1>>] = event[<<k, 1>>] /\ epoll'[k] = epoll[k]
        BY <1>3, <1>8, <2>2, <3>1
      <3> QED
        BY <3>2 DEF Body, Watched
    <2> QED
      BY <2>1, <2>2
  <1>17. ClosedEmpty'
    <2> SUFFICES ASSUME NEW k \in Fds, open'[k] # "yes" PROVE event'[<<k, 1>>] = {}
      BY DEF ClosedEmpty
    <2>1. CASE k = d
      BY <1>3, <2>1 DEF Body, ClosedEmpty, Beside
    <2>2. CASE k # d
      <3>1. <<k, 1>> # c /\ <<k, 1>> \in Ctx
        BY <2>2, FirstCtx
      <3> QED
        BY <1>3, <2>2, <3>1 DEF Body, ClosedEmpty, Beside
    <2> QED
      BY <2>1, <2>2
  <1>18. PendingExact'
    <2> DEFINE gone == {c} \X es
    <2>1. Registered' = Registered \ gone
      <3>1. \A r \in Ctx \X Events : r[1] \in Ctx /\ r[2] \in Events /\ r = <<r[1], r[2]>>
        OBVIOUS
      <3>2. \A r \in Ctx \X Events : r \in gone <=> r[1] = c /\ r[2] \in es
        BY <3>1
      <3>3. \A r \in Ctx \X Events :
               r[2] \in event'[r[1]] <=> r[2] \in event[r[1]] /\ ~(r[1] = c /\ r[2] \in es)
        BY <1>3, <3>1
      <3> HIDE DEF gone
      <3> QED
        BY <3>2, <3>3 DEF Registered
    <2>2. gone \subseteq Registered
      BY <1>2 DEF Registered
    <2>3. IsFiniteSet(Registered)
      BY RegisteredFinite, FS_Subset DEF Registered
    <2>4. Cardinality(gone) = Cardinality(es)
      <3>1. IsFiniteSet({c}) /\ Cardinality({c}) = 1
        BY FS_Singleton
      <3>2. Cardinality(gone) = 1 * Cardinality(es)
        BY <1>9, <3>1, FS_Product
      <3> QED
        BY <1>9, <3>2
    <2> HIDE DEF gone
    <2>5. Cardinality(Registered') = Cardinality(Registered) - Cardinality(es)
      <3>1. Registered \cap gone = gone
        BY <2>2
      <3>2. Cardinality(Registered \ gone) = Cardinality(Registered) - Cardinality(Registered \cap gone)
        BY <2>2, <2>3, FS_Subset, FS_Difference
      <3> QED
        BY <2>1, <2>4, <3>1, <3>2
    <2>6. m_pendingEventCount' = m_pendingEventCount - Cardinality(es)
      BY DEF Clear
    <2> QED
      BY <2>5, <2>6 DEF Body, PendingExact, Registered
  <1> QED
    BY <1>10, <1>11, <1>12, <1>13, <1>14, <1>15, <1>16, <1>17, <1>18 DEF Body
\* Of a context with events epoll_ctl fails only if the descriptor is closed,
\* and then there are none.
LEMMA CtlLeaves ==
  ASSUME NEW d \in Fds, NEW c, NEW left, CtlDone(Op(left), d, c, left)
  PROVE  epoll' = [epoll EXCEPT ![d] = IF left = {} THEN Unwatched ELSE [ctx |-> c, events |-> left]]
  <1>1. CASE left = {}
    BY <1>1 DEF CtlDone, Op
  <1>2. CASE left # {}
    BY <1>2 DEF CtlDone, Op
  <1> QED
    BY <1>1, <1>2

\* The descriptor has the event: what is found is its first context.
LEMMA HasFirst ==
  ASSUME Body, NEW d \in Fds, NEW es, Has(d, es)
  PROVE  Find(d) = <<d, 1>> /\ <<d, 1>> \in Ctx /\ event[<<d, 1>>] \intersect es # {}
  <1>1. size \in Nat /\ size > d /\ TableRight
    BY DEF Has, Body, Types
  <1>2. Find(d) = <<d, 1>> /\ <<d, 1>> \in Ctx
    BY <1>1, Finds, FirstCtx
  <1> QED
    BY <1>2 DEF Has

\* delEvent.
LEMMA DelEventKeeps ==
  ASSUME Body, fault = "none", NEW d \in Fds, NEW e \in Events, delEvent(d, e)
  PROVE  Body' /\ fault' = "none"
  <1> DEFINE c == <<d, 1>>
             left == event[c] \ {e}
  <1>1. Has(d, {e})
    BY DEF delEvent
  <1>2. Find(d) = c /\ c \in Ctx /\ {e} \in SUBSET event[c]
    BY <1>1, HasFirst
  <1>3. /\ CtlDone(Op(left), d, c, left) /\ Clear(c, {e})
        /\ fiber' = [f \in Fibers |-> IF f = waiter[c][e] THEN [fiber[f] EXCEPT !.at = "dropped"]
                                      ELSE fiber[f]]
        /\ UNCHANGED <<m_fdContexts, size, gens, open, harvest, fault>>
    BY <1>2 DEF delEvent
  <1>4. fiber' = [f \in Fibers |-> IF f \in Waiters(c, {e}) THEN [fiber[f] EXCEPT !.at = "dropped"]
                                   ELSE fiber[f]]
    <2>1. \A f \in Fibers : f \in Waiters(c, {e}) <=> f = waiter[c][e]
      BY DEF Waiters
    <2> QED
      BY <1>3, <2>1
  <1>5. epoll' = [epoll EXCEPT ![d] = IF left = {} THEN Unwatched ELSE [ctx |-> c, events |-> left]]
    BY <1>3, CtlLeaves
  <1>6. Beside(d, left)
    BY <1>3 DEF Body, Types, HarvestedFirst, Beside
  <1>7. left = event[c] \ {e} /\ c = <<d, 1>>
    OBVIOUS
  <1> HIDE DEF c, left
  <1> QED
    BY <1>2, <1>3, <1>4, <1>5, <1>6, <1>7, ClearKeeps

\* triggerEvent takes es away, or its assertion fails and only epoll has changed.
LEMMA TriggerKeeps ==
  ASSUME Body, fault = "none", NEW d \in Fds, NEW c \in Ctx, c = <<d, 1>>, NEW es,
         NEW left, left = event[c] \ es, triggerEvent(c, es),
         CtlDone(Op(left), d, c, left),
         Beside(d, left)
  PROVE  /\ \/ fault' = "none" /\ Body'
            \/ fault' = "trigger" /\ event' = event
         /\ es \subseteq event[c] => fault' = "none"
  <1>1. CASE ~(es \subseteq event[c])
    BY <1>1 DEF triggerEvent
  <1>2. CASE es \subseteq event[c]
    <2>1. /\ Clear(c, es) /\ fault' = "none"
          /\ fiber' = [f \in Fibers |-> IF f \in Waiters(c, es) THEN [fiber[f] EXCEPT !.at = "ready"]
                                        ELSE fiber[f]]
      BY <1>2 DEF triggerEvent
    <2>2. epoll' = [epoll EXCEPT ![d] = IF left = {} THEN Unwatched ELSE [ctx |-> c, events |-> left]]
      BY CtlLeaves
    <2>3. es \in SUBSET event[c]
      BY <1>2
    <2>4. "ready" \in {"ready", "dropped"}
      OBVIOUS
    <2>5. Body'
      BY <2>1, <2>2, <2>3, <2>4, ClearKeeps
    <2> QED
      BY <2>1, <2>5
  <1> QED
    BY <1>1, <1>2

\* cancelEvent, which triggers what it takes out.
LEMMA CancelEventKeeps ==
  ASSUME Body, fault = "none", NEW d \in Fds, NEW e \in Events, cancelEvent(d, e)
  PROVE  Body' /\ fault' = "none"
  <1> DEFINE c == <<d, 1>>
             left == event[c] \ {e}
  <1>1. Has(d, {e})
    BY DEF cancelEvent
  <1>2. Find(d) = c /\ c \in Ctx /\ {e} \subseteq event[c]
    BY <1>1, HasFirst
  <1>3. /\ CtlDone(Op(left), d, c, left) /\ triggerEvent(c, {e})
        /\ UNCHANGED <<m_fdContexts, size, gens, open, harvest>>
    BY <1>2 DEF cancelEvent
  <1>4. Beside(d, left)
    BY <1>3 DEF Body, Types, HarvestedFirst, Beside
  <1>5. left = event[c] \ {e} /\ c = <<d, 1>>
    OBVIOUS
  <1> HIDE DEF c, left
  <1> QED
    BY <1>2, <1>3, <1>4, <1>5, TriggerKeeps

\* cancelAll leaves no event of d, whatever becomes of open[d].
LEMMA CancelAllKeeps ==
  ASSUME Body, fault = "none", NEW d \in Fds, cancelAll(d), open[d] = "yes" \/ open' = open,
         open' \in [Fds -> {"yes", "closing", "no"}],
         \A k \in Fds : k # d => open'[k] = open[k],
         UNCHANGED <<m_fdContexts, size, gens, harvest>>
  PROVE  Body' /\ fault' = "none"
  <1> DEFINE c == <<d, 1>>
  <1>1. harvest' \in [Pollers -> SUBSET Harvest] /\ HarvestedFirst'
    BY DEF Body, Types, HarvestedFirst
  <1>2. CASE Has(d, Events) /\ ~CtlFails("DEL", d)
    <2>1. Find(d) = c /\ c \in Ctx
      BY <1>2, HasFirst
    <2>2. CtlDone("DEL", d, c, {}) /\ triggerEvent(c, event[c])
      BY <1>2, <2>1 DEF cancelAll
    <2>3. event[c] \ event[c] = {} /\ Op({}) = "DEL"
      BY DEF Op
    <2> HIDE DEF c
    <2>4. CtlDone(Op({}), d, c, {}) /\ {} = event[c] \ event[c] /\ c = <<d, 1>>
      BY <2>2, <2>3 DEF c
    <2>5. Beside(d, {})
      BY <1>1 DEF Beside
    <2> QED
      BY <2>1, <2>2, <2>4, <2>5, TriggerKeeps
  <1>3. CASE ~(Has(d, Events) /\ ~CtlFails("DEL", d))
    <2>1. UNCHANGED <<event, waiter, m_pendingEventCount, epoll, fiber, fault>>
      BY <1>3 DEF cancelAll
    <2>2. open[d] = "yes" => event[c] = {}
      <3> SUFFICES ASSUME open[d] = "yes", event[c] # {} PROVE FALSE
        OBVIOUS
      <3>1. c \in Ctx /\ c[1] = d /\ c # NoCtx /\ d \in Nat
        BY FirstCtx
      <3>2. size > d /\ TableRight /\ size \in Nat /\ event[c] \subseteq Events
        BY <3>1 DEF Body, FirstContexts, Types
      <3>3. Find(d) = c
        BY <3>2, Finds
      <3>4. Has(d, Events)
        BY <3>2, <3>3 DEF Has
      <3>5. epoll[d] = [ctx |-> c, events |-> event[c]]
        BY DEF Body, Watched
      <3>6. epoll[d] # Unwatched
        BY <3>1, <3>5 DEF Unwatched
      <3>7. ~CtlFails("DEL", d)
        BY <3>6 DEF CtlFails
      <3> QED
        BY <1>3, <3>4, <3>7
    <2>3. \A k \in Fds : open'[k] # "yes" => event[<<k, 1>>] = {}
      BY <2>2 DEF Body, ClosedEmpty
    <2> QED
      BY <1>1, <2>1, <2>3, OpenKeeps
  <1> QED
    BY <1>2, <1>3

\* cancelAll at the beginning of close().
LEMMA CloseBeginKeeps ==
  ASSUME Body, fault = "none", NEW d \in Fds, CancelAll(d) \/ CloseBegin(d)
  PROVE  Body' /\ fault' = "none"
  <1>1. CASE CancelAll(d)
    BY <1>1, CancelAllKeeps DEF CancelAll, Body, Types
  <1>2. CASE CloseBegin(d)
    <2>1. /\ open[d] = "yes" /\ open' = [open EXCEPT ![d] = "closing"] /\ cancelAll(d)
          /\ UNCHANGED <<m_fdContexts, size, gens, harvest>>
      BY <1>2 DEF CloseBegin
    <2>2. open' \in [Fds -> {"yes", "closing", "no"}] /\ \A k \in Fds : k # d => open'[k] = open[k]
      BY <2>1 DEF Body, Types
    <2> QED
      BY <2>1, <2>2, CancelAllKeeps
  <1> QED
    BY <1>1, <1>2

\* What a poller does with one entry.
LEMMA HandleEventKeeps ==
  ASSUME Body, fault = "none", NEW p \in Pollers, NEW h \in harvest[p], HandleEvent(p, h)
  PROVE  /\ \/ fault' = "none" /\ Body'
            \/ fault' = "trigger" /\ event' = event /\ UNCHANGED <<m_fdContexts, size>>
         /\ fault' = "trigger" => /\ event[h.ctx] \intersect (h.events \union event[h.ctx]) # {}
                                  /\ ~(h.events \subseteq event[h.ctx])
  <1>1. PICK d \in Fds : h.ctx = <<d, 1>>
    BY DEF Body, HarvestedFirst
  <1> DEFINE c == h.ctx
             real_events == h.events \union (IF h.err THEN event[c] ELSE {})
             left_events == event[c] \ real_events
  <1>2. c \in Ctx /\ c[1] = d
    BY <1>1, FirstCtx
  <1>3. /\ harvest' = [harvest EXCEPT ![p] = @ \ {h}]
        /\ UNCHANGED <<m_fdContexts, size, gens, open>>
        /\ \/ UNCHANGED <<event, waiter, m_pendingEventCount, epoll, fiber, fault>>
           \/ /\ event[c] \intersect real_events # {}
              /\ CtlDone(Op(left_events), d, c, left_events) /\ triggerEvent(c, real_events)
    BY <1>2 DEF HandleEvent
  <1>4. harvest' \in [Pollers -> SUBSET Harvest] /\ HarvestedFirst'
    BY <1>3 DEF Body, Types, HarvestedFirst
  <1>5. /\ open' \in [Fds -> {"yes", "closing", "no"}] /\ \A k \in Fds : open'[k] = open[k]
        /\ \A k \in Fds : open'[k] # "yes" => event[<<k, 1>>] = {}
    BY <1>3 DEF Body, Types, ClosedEmpty
  <1>6. CASE UNCHANGED <<event, waiter, m_pendingEventCount, epoll, fiber, fault>>
    BY <1>3, <1>4, <1>5, <1>6, OpenKeeps
  <1>7. CASE /\ event[c] \intersect real_events # {}
             /\ CtlDone(Op(left_events), d, c, left_events) /\ triggerEvent(c, real_events)
    <2>1. h.events \subseteq event[c] => real_events \subseteq event[c]
      OBVIOUS
    <2>2. event[c] \intersect (h.events \union event[c]) # {}
      BY <1>7
    <2>3. left_events = event[c] \ real_events /\ c = <<d, 1>>
      BY <1>1
    <2> HIDE DEF c, real_events, left_events
    <2>4. Beside(d, left_events)
      BY <1>3, <1>4, <1>5 DEF Beside
    <2>5. /\ \/ fault' = "none" /\ Body'
             \/ fault' = "trigger" /\ event' = event
          /\ real_events \subseteq event[c] => fault' = "none"
      BY <1>2, <1>7, <2>3, <2>4, TriggerKeeps
    <2> QED
      BY <1>3, <2>1, <2>2, <2>5 DEF c
  <1> QED
    BY <1>3, <1>6, <1>7
-----------------------------------------------------------------------------
(* The theorems.                                                           *)

\* Every step keeps Body, or is a triggerEvent whose assertion fails.
LEMMA StepKeeps ==
  ASSUME Assumed, Body, fault = "none", Next
  PROVE  \/ fault' = "none" /\ Body'
         \/ /\ fault' = "trigger" /\ UNCHANGED <<event, m_fdContexts, size>>
            /\ \E p \in Pollers : \E h \in harvest[p] : HandleEvent(p, h)
  <1> USE DEF Assumed
  <1>1. CASE \E f \in Fibers, d \in Fds, e \in Events : Begin(f, d, e)
    <2>1. PICK f \in Fibers, d \in Fds, e \in Events : Begin(f, d, e)
      BY <1>1
    <2>2. fault' = "none"
      BY <2>1 DEF Begin
    <2> QED
      BY <2>1, <2>2, BeginKeeps
  <1>2. CASE \E f \in Fibers : Resize(f)
    BY <1>2, ResizeKeeps DEF Resize
  <1>3. CASE \E f \in Fibers : addEvent(f)
    BY <1>3, AddEventKeeps
  <1>4. CASE \E f \in Fibers : Resumed(f)
    BY <1>4, IdleKeeps DEF Resumed
  <1>5. CASE \E d \in Fds, e \in Events : delEvent(d, e)
    BY <1>5, DelEventKeeps
  <1>6. CASE \E d \in Fds, e \in Events : cancelEvent(d, e)
    BY <1>6, CancelEventKeeps
  <1>7. CASE \E d \in Fds : CancelAll(d)
    BY <1>7, CloseBeginKeeps
  <1>8. CASE \E d \in Fds : CloseBegin(d)
    BY <1>8, CloseBeginKeeps
  <1>9. CASE \E d \in Fds : CloseEnd(d)
    BY <1>9, CloseEndReopenKeep DEF CloseEnd
  <1>10. CASE \E d \in Fds : Reopen(d)
    BY <1>10, CloseEndReopenKeep DEF Reopen
  <1>11. CASE \E p \in Pollers : epoll_wait(p)
    BY <1>11, EpollWaitKeeps DEF epoll_wait
  <1>12. CASE \E p \in Pollers : \E h \in harvest[p] : HandleEvent(p, h)
    BY <1>12, HandleEventKeeps
  <1> QED
    BY <1>1, <1>2, <1>3, <1>4, <1>5, <1>6, <1>7, <1>8, <1>9, <1>10, <1>11, <1>12 DEF Next

\* Nothing moves after a failed assertion.
LEMMA NextNeedsNoFault == Next => fault = "none"
  BY DEF Next, Begin, Resize, addEvent, Resumed, delEvent, cancelEvent, CancelAll, Has, CloseBegin,
     CloseEnd, Reopen, epoll_wait, HandleEvent

\* A step that changes nothing keeps the invariant.
LEMMA EStutter ==
  ASSUME EInv, UNCHANGED vars
  PROVE  EInv'
  <1>1. fault' \in {"none", "trigger"} /\ (fault # "none" => AllContexts')
    BY DEF EInv, vars, AllContexts, Find
  <1>2. ASSUME Body PROVE Body'
    <2>1. Types' /\ TableRight' /\ FibersKnow' /\ NoClash' /\ WaitersMatch'
      BY <1>2 DEF Body, vars, Types, TableRight, FibersKnow, Knows, NoClash, Clash, WaitersMatch
    <2>2. FirstContexts' /\ Watched' /\ ClosedEmpty' /\ HarvestedFirst' /\ PendingExact'
      BY <1>2 DEF Body, vars, FirstContexts, Watched, ClosedEmpty, HarvestedFirst, PendingExact
    <2> QED
      BY <2>1, <2>2 DEF Body
  <1> QED
    BY <1>1, <1>2 DEF EInv, vars

\* EInv is inductive when addEvent does not race close() and the table of
\* contexts never shrinks below a descriptor in use.
THEOREM EventsInductive ==
  ASSUME Assumed
  PROVE  Spec => []EInv
  <1>1. EInv /\ [Next]_vars => EInv'
    <2> SUFFICES ASSUME EInv, [Next]_vars PROVE EInv'
      OBVIOUS
    <2>1. CASE UNCHANGED vars
      BY <2>1, EStutter
    <2>2. CASE Next
      <3>1. fault = "none" /\ Body
        BY <2>2, NextNeedsNoFault DEF EInv
      <3>2. CASE fault' = "none" /\ Body'
        BY <3>2 DEF EInv
      <3>3. CASE fault' = "trigger" /\ UNCHANGED <<event, m_fdContexts, size>>
        BY <3>1, <3>3, BodyAllContexts DEF EInv, AllContexts, Find
      <3> QED
        BY <2>2, <3>1, <3>2, <3>3, StepKeeps
    <2> QED
      BY <2>1, <2>2
  <1> QED
    BY <1>1, EInitInv, PTL DEF Spec

\* AllContexts holds: the context of a waiting fiber is the one that delEvent,
\* cancelEvent and cancelAll find in m_fdContexts, also while contextResize grows
\* the table under other fibers.
THEOREM ContextsAreFound ==
  ASSUME Assumed
  PROVE  Spec => []AllContexts
  <1>1. EInv => AllContexts
    BY BodyAllContexts DEF EInv
  <1> QED
    BY <1>1, EventsInductive, PTL

\* The assertions of addEvent never fail, and as long as that of triggerEvent
\* has not failed either the four records of every waiting fiber agree.
THEOREM RecordsAlwaysAgree ==
  ASSUME Assumed
  PROVE  Spec => [](fault # "addEvent" /\ (fault = "none" => RecordsAgree))
  <1>1. EInv => fault # "addEvent" /\ (fault = "none" => RecordsAgree)
    BY BodyRecordsAgree DEF EInv
  <1> QED
    BY <1>1, EventsInductive, PTL

-----------------------------------------------------------------------------
(* When the assertion of triggerEvent cannot fail.                         *)

\* One poller, and nobody else takes events away.
OnePoller ==
    ~Cancelling /\ ~Closing /\ \A p, q \in Pollers : p = q

\* Descriptors are waited for in one direction, or by one poller alone.
Undisturbed ==
    (\A a, b \in Events : a = b) \/ OnePoller

\* What the one poller has harvested is still registered.
StillThere ==
    \A p \in Pollers : \A h \in harvest[p] :
        /\ h.events \subseteq event[h.ctx]
        /\ \A k \in harvest[p] : k.ctx = h.ctx => k = h

\* With one poller nothing but the poller takes an event out of its context.
LEMMA StillThereKept ==
  ASSUME Assumed, OnePoller, Body, fault = "none", StillThere, Next
  PROVE  StillThere'
  <1>1. CASE UNCHANGED <<event, harvest>>
    BY <1>1 DEF StillThere
  <1>2. CASE \E f \in Fibers : addEvent(f)
    <2>1. PICK f \in Fibers : addEvent(f)
      BY <1>2
    <2>2. harvest' = harvest /\ (event' = event \/ event' = [event EXCEPT ![fiber[f].ctx] = @ \union {fiber[f].e}])
      BY <2>1 DEF addEvent
    <2>3. \A c \in Ctx : event[c] \subseteq event'[c]
      BY <2>2 DEF Body, Types
    <2>4. \A p \in Pollers : \A h \in harvest[p] : h.ctx \in Ctx
      BY DEF Body, Types, Harvest
    <2> QED
      BY <2>2, <2>3, <2>4 DEF StillThere
  <1>3. CASE \E p \in Pollers : epoll_wait(p)
    <2>1. PICK p \in Pollers : epoll_wait(p)
      BY <1>3
    <2>2. PICK H \in SUBSET Reports : /\ \A h, k \in H : h.ctx = k.ctx => h = k
                                      /\ harvest' = [harvest EXCEPT ![p] = H]
      BY <2>1 DEF epoll_wait
    <2>3. event' = event
      BY <2>1 DEF epoll_wait
    <2>4. ASSUME NEW h \in H PROVE h.events \subseteq event[h.ctx]
      <3>1. PICK d \in Fds : h.ctx = epoll[d].ctx /\ h.ctx # NoCtx
        BY DEF Reports
      <3>2. epoll[d] = Unwatched \/ epoll[d] = [ctx |-> <<d, 1>>, events |-> event[<<d, 1>>]]
        BY DEF Body, Watched
      <3>3. epoll[d] # Unwatched
        BY <3>1 DEF Unwatched
      <3>4. epoll[d].ctx = <<d, 1>> /\ epoll[d].events = event[<<d, 1>>]
        BY <3>2, <3>3
      <3>5. h.ctx[1] = d
        BY <3>1, <3>4, FirstCtx
      <3>6. h.events \subseteq epoll[h.ctx[1]].events
        BY DEF Reports
      <3> QED
        BY <3>1, <3>4, <3>5, <3>6
    <2>5. \A q \in Pollers : harvest'[q] = H
      BY <2>2 DEF Body, Types, OnePoller
    <2> QED
      BY <2>2, <2>3, <2>4, <2>5 DEF StillThere
  <1>4. CASE \E p \in Pollers : \E h \in harvest[p] : HandleEvent(p, h)
    <2>1. PICK p \in Pollers : \E h \in harvest[p] : HandleEvent(p, h)
      BY <1>4
    <2>2. PICK h \in harvest[p] : HandleEvent(p, h)
      BY <2>1
    <2>3. /\ harvest' = [harvest EXCEPT ![p] = @ \ {h}]
          /\ event' = event \/ \E es : event' = [event EXCEPT ![h.ctx] = @ \ es]
      BY <2>2 DEF HandleEvent, triggerEvent, Clear
    <2>4. \A c \in Ctx : c # h.ctx => event'[c] = event[c]
      BY <2>3 DEF Body, Types
    <2>5. \A q \in Pollers : q = p /\ harvest'[q] = harvest[p] \ {h}
      BY <2>3 DEF Body, Types, OnePoller
    <2>6. \A k \in harvest[p] : k.ctx \in Ctx
      BY DEF Body, Types, Harvest
    <2>7. \A k \in harvest[p] \ {h} : k.ctx # h.ctx
      BY DEF StillThere
    <2> QED
      BY <2>4, <2>5, <2>6, <2>7 DEF StillThere
  <1> QED
    <2>1. \/ UNCHANGED <<event, harvest>>
          \/ \E f \in Fibers : addEvent(f)
          \/ \E p \in Pollers : epoll_wait(p)
          \/ \E p \in Pollers : \E h \in harvest[p] : HandleEvent(p, h)
      BY DEF Next, OnePoller, Begin, Resize, Resumed, delEvent, cancelEvent, CancelAll, CloseBegin,
         CloseEnd, Reopen
    <2> QED
      BY <1>1, <1>2, <1>3, <1>4, <2>1

\* With events of one kind, or one undisturbed poller, triggerEvent finds its event.
LEMMA NoTrigger ==
  ASSUME Assumed, Undisturbed, Body, fault = "none", OnePoller => StillThere, Next
  PROVE  fault' = "none"
  <1> SUFFICES ASSUME fault' = "trigger", NEW p \in Pollers, NEW h \in harvest[p], HandleEvent(p, h)
               PROVE  FALSE
    BY StepKeeps
  <1>1. /\ event[h.ctx] \intersect (h.events \union event[h.ctx]) # {}
        /\ ~(h.events \subseteq event[h.ctx])
    BY HandleEventKeeps
  <1>2. CASE OnePoller
    BY <1>1, <1>2 DEF StillThere
  <1>3. CASE \A a, b \in Events : a = b
    <2>1. h.ctx \in Ctx /\ h.events \subseteq Events
      BY DEF Body, Types, Harvest
    <2>2. event[h.ctx] \subseteq Events
      BY <2>1 DEF Body, Types
    <2> QED
      BY <1>1, <1>3, <2>1, <2>2
  <1> QED
    BY <1>2, <1>3 DEF Undisturbed

\* NoFault holds when descriptors are waited for in one direction, or by one
\* poller alone: then no assertion of addEvent and triggerEvent ever fails, and
\* the records agree in every state (iomanager.cpp:35, 114, 135).  Two pollers
\* and two directions are what run fd_stale shows to break it.
THEOREM NoAssertionFails ==
  ASSUME Assumed, Undisturbed
  PROVE  Spec => [](NoFault /\ RecordsAgree)
  <1> DEFINE UInv == EInv /\ fault = "none" /\ (OnePoller => StillThere)
  <1>1. Init => UInv
    BY EInitInv DEF Init, StillThere
  <1>2. UInv /\ EInv' /\ [Next]_vars => UInv'
    <2> SUFFICES ASSUME UInv, EInv', [Next]_vars
                 PROVE  fault' = "none" /\ (OnePoller => StillThere')
      OBVIOUS
    <2>1. CASE UNCHANGED vars
      BY <2>1 DEF vars, StillThere
    <2>2. CASE Next
      BY <2>2, NoTrigger, StillThereKept DEF EInv
    <2> QED
      BY <2>1, <2>2
  <1>3. UInv => NoFault /\ RecordsAgree
    BY BodyRecordsAgree DEF EInv, NoFault
  <1> HIDE DEF UInv
  <1> QED
    BY <1>1, <1>2, <1>3, EventsInductive, PTL DEF Spec
=============================================================================
