------------------------------ MODULE FdEvents ------------------------------
(***************************************************************************)
(* I/O events: the FdContext table of IOManager, its epoll instance, and   *)
(* the operations on them (addEvent, delEvent, cancelEvent, cancelAll, the *)
(* event loop of idle(), and close() from hook.cpp).                       *)
(*                                                                         *)
(* Fibers wait for events of descriptors; pollers are the threads inside   *)
(* idle().  A poller takes an event from epoll first and locks the context *)
(* later: everything may happen in between.                                *)
(***************************************************************************)
EXTENDS Integers, FiniteSets

CONSTANTS
    Fibers,
    Pollers,
    Fds,           \* descriptors, positive numbers
    Events,        \* a subset of {"READ", "WRITE"}
    InitSize,      \* contexts made by the constructor, contextResize(32)
    MaxGen,        \* bound: contexts made for one descriptor
    Cancelling,    \* are events cancelled (timeouts, shutdown)?
    Closing,       \* are descriptors closed?
    AddWhileClosing   \* may addEvent come between cancelAll and close_f?

ASSUME FdEventsAssumption ==
    /\ IsFiniteSet(Fibers) /\ "none" \notin Fibers
    /\ IsFiniteSet(Fds) /\ Fds \subseteq Nat \ {0}
    /\ Events \subseteq {"READ", "WRITE"}
    /\ InitSize \in Nat /\ MaxGen \in Nat \ {0}
    /\ {Cancelling, Closing, AddWhileClosing} \subseteq BOOLEAN

VARIABLES
    m_fdContexts,          \* descriptor -> generation of its FdContext, 0 if none
    size,                  \* m_fdContexts.size()
    gens,                  \* contexts made so far for a descriptor
    event,                 \* FdContext::event
    waiter,                \* the fiber in an EventContext
    m_pendingEventCount,
    epoll,                 \* what epoll watches, and for which context
    open,                  \* is the descriptor open: "yes", "closing", "no"
    fiber,                 \* what each fiber does
    harvest,               \* events a poller has taken from epoll_wait
    fault                  \* a failed LUWU_ASSERT

vars == <<m_fdContexts, size, gens, event, waiter, m_pendingEventCount, epoll, open,
          fiber, harvest, fault>>

Ctx == Fds \X (1..MaxGen)

NoFiber == "none"

NoCtx == <<0, 0>>

Unwatched == [ctx |-> NoCtx, events |-> {}]

Idle == [at |-> "idle", fd |-> 0, e |-> "", ctx |-> NoCtx]

Init ==
    /\ size = InitSize
    /\ m_fdContexts = [d \in Fds |-> IF d < InitSize THEN 1 ELSE 0]
    /\ gens = m_fdContexts
    /\ event = [c \in Ctx |-> {}]
    /\ waiter = [c \in Ctx |-> [e \in Events |-> NoFiber]]
    /\ m_pendingEventCount = 0
    /\ epoll = [d \in Fds |-> Unwatched]
    /\ open = [d \in Fds |-> "yes"]
    /\ fiber = [f \in Fibers |-> Idle]
    /\ harvest = [p \in Pollers |-> {}]
    /\ fault = "none"

-----------------------------------------------------------------------------
(* epoll_ctl, by what the kernel does with the operation.                  *)

\* EPOLL_CTL_ADD wants a descriptor epoll does not watch, MOD and DEL want one
\* it watches; a closed descriptor is not watched.
CtlFails(op, d) ==
    \/ open[d] = "no"
    \/ op = "ADD" /\ epoll[d] # Unwatched
    \/ op # "ADD" /\ epoll[d] = Unwatched

CtlDone(op, d, c, es) ==
    epoll' = [epoll EXCEPT ![d] = IF op = "DEL" THEN Unwatched
                                  ELSE [ctx |-> c, events |-> es]]

\* Mutant: the descriptor is left in epoll when nothing is waited for.
Op_AlwaysMod(es) == "MOD"

\* Mutant: the descriptor is taken out of epoll although events are left.
Op_AlwaysDel(es) == "DEL"

\* The operation that leaves es watched.
Op(es) ==
    IF es = {} THEN "DEL" ELSE "MOD"

-----------------------------------------------------------------------------
(* The context table.                                                      *)

\* Mutant: every entry gets a new context, used or not.
contextResize_Fresh(n) ==
    /\ \A d \in Fds : gens[d] < MaxGen
    /\ size' = n
    /\ gens' = [d \in Fds |-> IF d < n THEN gens[d] + 1 ELSE gens[d]]
    /\ m_fdContexts' = [d \in Fds |-> IF d < n THEN gens[d] + 1 ELSE 0]

\* resize() drops the entries from n on; every empty entry below gets a context.
contextResize(n) ==
    LET missing == {d \in Fds : d < n /\ (m_fdContexts[d] = 0 \/ d >= size)} IN
    /\ \A d \in missing : gens[d] < MaxGen
    /\ size' = n
    /\ gens' = [d \in Fds |-> IF d \in missing THEN gens[d] + 1 ELSE gens[d]]
    /\ m_fdContexts' = [d \in Fds |-> IF d >= n THEN 0
                                      ELSE IF d \in missing THEN gens[d] + 1
                                      ELSE m_fdContexts[d]]

Find(d) == <<d, m_fdContexts[d]>>

-----------------------------------------------------------------------------
(* addEvent(fd, event) by a fiber, which then yields.                      *)

\* A fiber is about to wait for e on d.  Two fibers never wait for the same
\* event (the assertion of addEvent); do_io and accept keep to that.
Begin(f, d, e) ==
    /\ fault = "none"
    /\ fiber[f].at = "idle"
    /\ open[d] = "yes"
    /\ \A g \in Fibers : fiber[g].at \in {"idle", "ready"} \/ fiber[g].fd # d \/ fiber[g].e # e
    /\ fiber' = [fiber EXCEPT ![f] =
                    IF size > d THEN [at |-> "add", fd |-> d, e |-> e, ctx |-> Find(d)]
                    ELSE [at |-> "resize", fd |-> d, e |-> e, ctx |-> NoCtx]]
    /\ UNCHANGED <<m_fdContexts, size, gens, event, waiter, m_pendingEventCount, epoll,
                   open, harvest, fault>>

\* The table was too small when the fiber looked; it takes the write lock now.
Resize(f) ==
    LET d == fiber[f].fd IN
    /\ fault = "none"
    /\ fiber[f].at = "resize"
    /\ contextResize(d * 2)
    /\ fiber' = [fiber EXCEPT ![f].at = "add", ![f].ctx = <<d, m_fdContexts'[d]>>]
    /\ UNCHANGED <<event, waiter, m_pendingEventCount, epoll, open, harvest, fault>>

addEvent(f) ==
    LET d == fiber[f].fd
        e == fiber[f].e
        c == fiber[f].ctx
        op == IF event[c] = {} THEN "ADD" ELSE "MOD"
    IN
    /\ fault = "none"
    /\ fiber[f].at = "add"
    /\ open[d] = "closing" => AddWhileClosing
    /\ \/ /\ e \in event[c] \/ (~CtlFails(op, d) /\ waiter[c][e] # NoFiber)
          /\ fault' = "addEvent"
          /\ UNCHANGED <<event, waiter, m_pendingEventCount, epoll, fiber>>
       \/ /\ e \notin event[c]
          /\ CtlFails(op, d)
          /\ fiber' = [fiber EXCEPT ![f] = Idle]
          /\ UNCHANGED <<event, waiter, m_pendingEventCount, epoll, fault>>
       \/ /\ e \notin event[c]
          /\ ~CtlFails(op, d)
          /\ waiter[c][e] = NoFiber
          /\ CtlDone(op, d, c, event[c] \union {e})
          /\ m_pendingEventCount' = m_pendingEventCount + 1
          /\ event' = [event EXCEPT ![c] = @ \union {e}]
          /\ waiter' = [waiter EXCEPT ![c][e] = f]
          /\ fiber' = [fiber EXCEPT ![f].at = "waiting"]
          /\ UNCHANGED fault
    /\ UNCHANGED <<m_fdContexts, size, gens, open, harvest>>

\* The fiber runs again.
Resumed(f) ==
    /\ fault = "none"
    /\ fiber[f].at = "ready"
    /\ fiber' = [fiber EXCEPT ![f] = Idle]
    /\ UNCHANGED <<m_fdContexts, size, gens, event, waiter, m_pendingEventCount, epoll,
                   open, harvest, fault>>
-----------------------------------------------------------------------------
(* Taking events away.                                                     *)

Waiters(c, es) == {waiter[c][e] : e \in es}

\* Mutant: both the caller and triggerEvent count down.
Clear_CountedTwice(c, es) ==
    /\ event' = [event EXCEPT ![c] = @ \ es]
    /\ waiter' = [waiter EXCEPT ![c] = [e \in Events |-> IF e \in es THEN NoFiber ELSE @[e]]]
    /\ m_pendingEventCount' = m_pendingEventCount - 2 * Cardinality(es)

\* Mutant: nobody counts down.
Clear_NotCounted(c, es) ==
    /\ event' = [event EXCEPT ![c] = @ \ es]
    /\ waiter' = [waiter EXCEPT ![c] = [e \in Events |-> IF e \in es THEN NoFiber ELSE @[e]]]
    /\ UNCHANGED m_pendingEventCount

\* Mutant: resetEventContext is forgotten.
Clear_KeepsContext(c, es) ==
    /\ event' = [event EXCEPT ![c] = @ \ es]
    /\ m_pendingEventCount' = m_pendingEventCount - Cardinality(es)
    /\ UNCHANGED waiter

\* The EventContexts of es are reset and es is not waited for any more.
Clear(c, es) ==
    /\ event' = [event EXCEPT ![c] = @ \ es]
    /\ waiter' = [waiter EXCEPT ![c] = [e \in Events |-> IF e \in es THEN NoFiber ELSE @[e]]]
    /\ m_pendingEventCount' = m_pendingEventCount - Cardinality(es)

\* triggerEvent for each of es: its fiber is scheduled, its context reset.  An
\* event the context does not have fails the assertion.
triggerEvent(c, es) ==
    \/ /\ es \subseteq event[c]
       /\ Clear(c, es)
       /\ fiber' = [f \in Fibers |-> IF f \in Waiters(c, es) THEN [fiber[f] EXCEPT !.at = "ready"]
                                     ELSE fiber[f]]
       /\ UNCHANGED fault
    \/ /\ ~(es \subseteq event[c])
       /\ fault' = "trigger"
       /\ UNCHANGED <<event, waiter, m_pendingEventCount, fiber>>

\* The descriptor has a context and the context has an event of es.
Has(d, es) ==
    /\ fault = "none"
    /\ size > d
    /\ event[Find(d)] \intersect es # {}

delEvent(d, e) ==
    LET c == Find(d)
        left == event[c] \ {e}
    IN
    /\ Cancelling
    /\ Has(d, {e})
    /\ ~CtlFails(Op(left), d)
    /\ CtlDone(Op(left), d, c, left)
    /\ Clear(c, {e})
    /\ fiber' = [f \in Fibers |-> IF f = waiter[c][e] THEN [fiber[f] EXCEPT !.at = "dropped"]
                                  ELSE fiber[f]]
    /\ UNCHANGED <<m_fdContexts, size, gens, open, harvest, fault>>

cancelEvent(d, e) ==
    LET c == Find(d)
        left == event[c] \ {e}
    IN
    /\ Cancelling
    /\ Has(d, {e})
    /\ ~CtlFails(Op(left), d)
    /\ CtlDone(Op(left), d, c, left)
    /\ triggerEvent(c, {e})
    /\ UNCHANGED <<m_fdContexts, size, gens, open, harvest>>

cancelAll(d) ==
    LET c == Find(d) IN
    IF Has(d, Events) /\ ~CtlFails("DEL", d)
    THEN CtlDone("DEL", d, c, {}) /\ triggerEvent(c, event[c])
    ELSE UNCHANGED <<event, waiter, m_pendingEventCount, epoll, fiber, fault>>

\* Socket::cancelAll, as TCPServer::stop uses it.
CancelAll(d) ==
    /\ Cancelling
    /\ Has(d, Events)
    /\ cancelAll(d)
    /\ UNCHANGED <<m_fdContexts, size, gens, open, harvest>>

-----------------------------------------------------------------------------
(* close() from hook.cpp: cancelAll, then close_f.                         *)

\* Mutant: close() does not cancel the events.
CloseBegin_NoCancel(d) ==
    /\ Closing
    /\ fault = "none"
    /\ open[d] = "yes"
    /\ open' = [open EXCEPT ![d] = "closing"]
    /\ UNCHANGED <<m_fdContexts, size, gens, event, waiter, m_pendingEventCount, epoll,
                   fiber, harvest, fault>>

CloseBegin(d) ==
    /\ Closing
    /\ fault = "none"
    /\ open[d] = "yes"
    /\ open' = [open EXCEPT ![d] = "closing"]
    /\ cancelAll(d)
    /\ UNCHANGED <<m_fdContexts, size, gens, harvest>>

\* The kernel forgets what epoll watched.
CloseEnd(d) ==
    /\ fault = "none"
    /\ open[d] = "closing"
    /\ open' = [open EXCEPT ![d] = "no"]
    /\ epoll' = [epoll EXCEPT ![d] = Unwatched]
    /\ UNCHANGED <<m_fdContexts, size, gens, event, waiter, m_pendingEventCount, fiber,
                   harvest, fault>>

\* socket() or accept() returns the number again.
Reopen(d) ==
    /\ fault = "none"
    /\ open[d] = "no"
    /\ open' = [open EXCEPT ![d] = "yes"]
    /\ UNCHANGED <<m_fdContexts, size, gens, event, waiter, m_pendingEventCount, epoll,
                   fiber, harvest, fault>>

-----------------------------------------------------------------------------
(* The event loop of idle().                                               *)

\* What epoll may report: some of the watched events, an error or a hang-up
\* (EPOLLERR, EPOLLHUP), or both; one report for a descriptor.
Reports ==
    {h \in [ctx : {epoll[d].ctx : d \in Fds} \ {NoCtx}, events : SUBSET Events, err : BOOLEAN] :
        /\ h.events \subseteq epoll[h.ctx[1]].events
        /\ h.events # {} \/ h.err}

epoll_wait(p) ==
    /\ fault = "none"
    /\ harvest[p] = {}
    /\ \E H \in SUBSET Reports \ {{}} :
        /\ \A h, k \in H : h.ctx = k.ctx => h = k
        /\ harvest' = [harvest EXCEPT ![p] = H]
    /\ UNCHANGED <<m_fdContexts, size, gens, event, waiter, m_pendingEventCount, epoll,
                   open, fiber, fault>>

\* Under the context's lock: the events of one harvested entry are triggered.
HandleEvent(p, h) ==
    LET c == h.ctx
        d == c[1]
        real_events == h.events \union (IF h.err THEN event[c] ELSE {})
        left_events == event[c] \ real_events
    IN
    /\ fault = "none"
    /\ h \in harvest[p]
    /\ harvest' = [harvest EXCEPT ![p] = @ \ {h}]
    /\ IF event[c] \intersect real_events = {} \/ CtlFails(Op(left_events), d)
       THEN UNCHANGED <<event, waiter, m_pendingEventCount, epoll, fiber, fault>>
       ELSE CtlDone(Op(left_events), d, c, left_events) /\ triggerEvent(c, real_events)
    /\ UNCHANGED <<m_fdContexts, size, gens, open>>

-----------------------------------------------------------------------------
Next ==
    \/ \E f \in Fibers, d \in Fds, e \in Events : Begin(f, d, e)
    \/ \E f \in Fibers : Resize(f)
    \/ \E f \in Fibers : addEvent(f)
    \/ \E f \in Fibers : Resumed(f)
    \/ \E d \in Fds, e \in Events : delEvent(d, e)
    \/ \E d \in Fds, e \in Events : cancelEvent(d, e)
    \/ \E d \in Fds : CancelAll(d)
    \/ \E d \in Fds : CloseBegin(d)
    \/ \E d \in Fds : CloseEnd(d)
    \/ \E d \in Fds : Reopen(d)
    \/ \E p \in Pollers : epoll_wait(p)
    \/ \E p \in Pollers : \E h \in harvest[p] : HandleEvent(p, h)

Spec == Init /\ [][Next]_vars

-----------------------------------------------------------------------------
(* Properties.                                                             *)

\* Every variable stays in its domain; the count of pending events is no less
\* than zero.
TypeOK ==
    /\ size \in Nat
    /\ m_fdContexts \in [Fds -> 0..MaxGen]
    /\ gens \in [Fds -> 0..MaxGen]
    /\ event \in [Ctx -> SUBSET Events]
    /\ waiter \in [Ctx -> [Events -> Fibers \union {NoFiber}]]
    /\ m_pendingEventCount \in Nat
    /\ epoll \in [Fds -> [ctx : Ctx \union {NoCtx}, events : SUBSET Events]]
    /\ open \in [Fds -> {"yes", "closing", "no"}]
    /\ fiber \in [Fibers -> [at : {"idle", "resize", "add", "waiting", "ready", "dropped"},
                             fd : Fds \union {0}, e : Events \union {""},
                             ctx : Ctx \union {NoCtx}]]
    /\ harvest \in [Pollers -> SUBSET [ctx : Ctx, events : SUBSET Events, err : BOOLEAN]]
    /\ fault \in {"none", "addEvent", "trigger"}

\* The assertions of addEvent and triggerEvent hold (iomanager.cpp:35, 114, 135).
NoFault ==
    fault = "none"

\* m_pendingEventCount, on which IOManager::stopping relies, is the number of
\* events registered in the contexts.
PendingExact ==
    m_pendingEventCount = Cardinality({r \in Ctx \X Events : r[2] \in event[r[1]]})

\* epoll watches just what the contexts have registered, and reports it to the
\* context that has it: no fiber waits for an event nobody watches.
EpollAgrees ==
    \A c \in Ctx :
        IF event[c] = {} THEN epoll[c[1]].ctx # c
        ELSE epoll[c[1]] = [ctx |-> c, events |-> event[c]]

\* A waiting fiber is in one EventContext, of the event it waits for, and every
\* EventContext with a registered event has such a fiber: nobody is woken twice
\* and nobody is forgotten.
WaitersMatch ==
    /\ \A c \in Ctx, e \in Events : e \in event[c] <=> waiter[c][e] # NoFiber
    /\ \A f \in Fibers : \A c \in Ctx, e \in Events :
          waiter[c][e] = f <=> /\ fiber[f].at = "waiting"
                               /\ fiber[f].ctx = c /\ fiber[f].e = e

\* triggerEvent asserts that the event is registered (iomanager.cpp:35).
TriggerRegistered ==
    fault # "trigger"

\* close() must "cancel all the events of the fd" (hook.cpp:308): no event is
\* registered for a closed descriptor.
ClosedHasNoEvents ==
    \A c \in Ctx : open[c[1]] = "no" => event[c] = {}

\* m_fdContexts holds "all the contexts of socket fds" (iomanager.h:91): a
\* context with a registered event is the one delEvent, cancelEvent and
\* cancelAll find.
AllContexts ==
    \A c \in Ctx : event[c] # {} => size > c[1] /\ Find(c[1]) = c

\* The four records of a waiting fiber agree after every step of addEvent,
\* delEvent, cancelEvent, cancelAll, close and triggerEvent: the event's
\* context, what epoll watches, the count of pending events and the fiber
\* itself; and a closed descriptor has none (iomanager.cpp:95-253, 345-397).
RecordsAgree == PendingExact /\ EpollAgrees /\ WaitersMatch /\ ClosedHasNoEvents
=============================================================================
