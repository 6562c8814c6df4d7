------------------------------ MODULE TCPServer ------------------------------
(***************************************************************************)
(* TCPServer (tcp_server.cpp): bind, start, the accept loops and stop, over *)
(* one thread of the accepting IOManager, which runs its tasks in order    *)
(* and switches only where a hooked accept waits.                          *)
(*                                                                         *)
(* Sockets are objects that close their descriptor with their last         *)
(* reference; numbers are reused by the kernel.                            *)
(***************************************************************************)
EXTENDS Integers, FiniteSets, SequencesExt

CONSTANTS
    Addrs,        \* addresses to listen on
    Peers,        \* remote clients, each of which connects once
    ServerFds,    \* descriptor numbers of the process
    Loops,        \* bound: accept loops ever started
    MaxUses       \* bound: calls of bind, start and stop

VARIABLES
    m_stop,       \* the flag of the server
    m_socks,      \* the listening Sockets, as object numbers
    object,       \* object number -> m_sock of a living Socket, or -1
    table,        \* the kernel's descriptors
    loop,         \* each accept loop: its Socket, and where it is
    queue,        \* tasks of the accepting scheduler
    cur,          \* the loop that runs on its thread, or 0
    handling,     \* accepted Sockets handed to the worker
    served,       \* peers whose Socket was handed to the worker
    uses,         \* calls made so far
    misused       \* was bind or start called on a server that was not quiet?

tcpVars == <<m_stop, m_socks, object, table, loop, queue, cur, handling, served,
                uses, misused>>

Unused == [st |-> "closed", addr |-> 0, backlog |-> <<>>]
NoLoop == [at |-> "none", sock |-> 0, fd |-> -1]
StopTask == 0
Objects == 1..(Cardinality(ServerFds) + Loops + 1)

ServerInit ==
    /\ m_stop = TRUE /\ m_socks = <<>>
    /\ object = [o \in Objects |-> -1]
    /\ table = [n \in ServerFds |-> Unused]
    /\ loop = [l \in 1..Loops |-> NoLoop]
    /\ queue = <<>> /\ cur = 0
    /\ handling = {} /\ served = {}
    /\ uses = 0 /\ misused = FALSE

HeldFds(socks, lps, hand) ==
    ToSet(socks) \cup {lps[l].sock : l \in 1..Loops} \cup hand

FreeFds(t) == {n \in ServerFds : t[n].st = "closed"}
Lowest(S) == CHOOSE x \in S : \A y \in S : x <= y

\* Loops that wait on one of the numbers in ns, in the order they are queued.
Waiting(lps, ns) == SetToSortSeq({l \in 1..Loops : lps[l].at = "wait" /\ lps[l].fd \in ns}, <)

\* The event or the cancellation makes each a task again.
Woken(lps, ws) == [l \in 1..Loops |-> IF l \in ToSet(ws) THEN [lps[l] EXCEPT !.at = "retry"] ELSE lps[l]]

\* A destructor that leaves the descriptor open.
Release_Leaks(obj, tab, socks, lps, hand) ==
    [object |-> [o \in Objects |-> IF o \in HeldFds(socks, lps, hand) THEN obj[o] ELSE -1],
     table |-> tab]

\* ~Socket() closes the descriptor of every object nobody holds.
Release(obj, tab, socks, lps, hand) ==
    LET gone == Objects \ HeldFds(socks, lps, hand)
    IN [object |-> [o \in Objects |-> IF o \in gone THEN -1 ELSE obj[o]],
        table |-> [n \in ServerFds |-> IF \E o \in gone : obj[o] = n THEN Unused ELSE tab[n]]]

Settle(obj, tab, socks, lps, hand) ==
    LET r == Release(obj, tab, socks, lps, hand)
    IN object' = r.object /\ table' = r.table

\* The server does not run, and the last stop() is over.
Quiet == m_stop /\ StopTask \notin ToSet(queue) /\ \A l \in 1..Loops : loop[l].at = "none"

-----------------------------------------------------------------------------
(* bind, start and stop, called outside the accepting thread.              *)

\* One bind(): a Socket of its own, bound and listening, or nothing.
BindOne(s, a) ==
    LET o == Lowest({o \in Objects : s.object[o] = -1 /\ o \notin HeldFds(s.socks, loop, handling)})
        n == Lowest(FreeFds(s.table))
    IN IF ~s.ok \/ FreeFds(s.table) = {} \/ \E i \in ServerFds : s.table[i].addr = a
       THEN [s EXCEPT !.ok = FALSE]
       ELSE [s EXCEPT !.object = [s.object EXCEPT ![o] = n],
                      !.table = [s.table EXCEPT ![n] = [st |-> "listen", addr |-> a, backlog |-> <<>>]],
                      !.socks = Append(@, o)]

\* bind(addresses) stops at the first that fails and then drops all of m_socks.
bind(addrs) ==
    LET s == FoldLeft(BindOne, [object |-> object, table |-> table, socks |-> m_socks, ok |-> TRUE], addrs)
    IN /\ uses < MaxUses /\ uses' = uses + 1
       /\ m_socks' = IF s.ok THEN s.socks ELSE <<>>
       /\ Settle(s.object, s.table, m_socks', loop, handling)
       /\ misused' = (misused \/ ~Quiet)
       /\ UNCHANGED <<m_stop, loop, queue, cur, handling, served>>

FreeLoops == {l \in 1..Loops : loop[l].at = "none"}

\* One accept loop is scheduled for each Socket.
ScheduleLoops ==
    /\ Len(m_socks) <= Cardinality(FreeLoops)
    /\ LET ls == SubSeq(SetToSortSeq(FreeLoops, <), 1, Len(m_socks))
           at(l) == CHOOSE i \in DOMAIN ls : ls[i] = l
       IN /\ queue' = queue \o ls
          /\ loop' = [l \in 1..Loops |->
                        IF l \in ToSet(ls)
                        THEN [at |-> "head", sock |-> m_socks[at(l)], fd |-> -1] ELSE loop[l]]
    /\ UNCHANGED <<m_socks, object, table, cur, handling, served>>

\* start() without its guard.
start_Unguarded ==
    /\ uses < MaxUses /\ uses' = uses + 1
    /\ m_stop' = FALSE
    /\ ScheduleLoops
    /\ misused' = (misused \/ (m_stop /\ ~Quiet))

\* start() does nothing on a server that runs.
start ==
    /\ uses < MaxUses /\ uses' = uses + 1
    /\ m_stop /\ m_stop' = FALSE
    /\ ScheduleLoops
    /\ misused' = (misused \/ ~Quiet)

\* stop() that schedules its task without setting the flag.
stop_NoFlag ==
    /\ uses < MaxUses /\ uses' = uses + 1
    /\ queue' = Append(queue, StopTask)
    /\ UNCHANGED <<m_stop, m_socks, object, table, loop, cur, handling, served, misused>>

stop ==
    /\ uses < MaxUses /\ uses' = uses + 1
    /\ m_stop' = TRUE
    /\ queue' = Append(queue, StopTask)
    /\ UNCHANGED <<m_socks, object, table, loop, cur, handling, served, misused>>

-----------------------------------------------------------------------------
(* The accepting thread.                                                   *)

\* The task of stop(): cancelAll and close on every Socket, then m_socks is
\* cleared.  Both wake the loops that wait on the descriptor.
Stopped ==
    /\ cur = 0 /\ queue # <<>> /\ Head(queue) = StopTask
    /\ LET ns == {object[o] : o \in ToSet(m_socks)} \ {-1}
           ws == Waiting(loop, ns)
           obj == [o \in Objects |-> IF o \in ToSet(m_socks) THEN -1 ELSE object[o]]
           tab == [n \in ServerFds |-> IF n \in ns THEN Unused ELSE table[n]]
       IN /\ queue' = Tail(queue) \o ws
          /\ loop' = Woken(loop, ws)
          /\ m_socks' = <<>>
          /\ Settle(obj, tab, <<>>, loop', handling)
    /\ UNCHANGED <<m_stop, cur, handling, served, uses, misused>>

Resume ==
    /\ cur = 0 /\ queue # <<>> /\ Head(queue) # StopTask
    /\ cur' = Head(queue)
    /\ queue' = Tail(queue)
    /\ UNCHANGED <<m_stop, m_socks, object, table, loop, handling, served, uses, misused>>

\* while (!m_stop): the loop ends, or calls accept with the Socket's m_sock.
LoopHead ==
    /\ cur # 0 /\ loop[cur].at = "head"
    /\ \/ /\ m_stop
          /\ loop' = [loop EXCEPT ![cur] = NoLoop]
          /\ cur' = 0
          /\ Settle(object, table, m_socks, loop', handling)
       \/ /\ ~m_stop
          /\ loop' = [loop EXCEPT ![cur].at = "retry", ![cur].fd = object[loop[cur].sock]]
          /\ UNCHANGED <<object, table, cur>>
    /\ UNCHANGED <<m_stop, m_socks, queue, handling, served, uses, misused>>

Listening(n) == n # -1 /\ table[n].st = "listen"

\* accept fails: no such descriptor any more, or no number for a new one.
Refused(n) ==
    Listening(n) => table[n].backlog # <<>> /\ FreeFds(table) = {}

\* A loop that ends when accept fails.
AcceptFails_Ends ==
    /\ cur # 0 /\ loop[cur].at = "retry" /\ Refused(loop[cur].fd)
    /\ loop' = [loop EXCEPT ![cur] = NoLoop]
    /\ cur' = 0
    /\ Settle(object, table, m_socks, loop', handling)
    /\ UNCHANGED <<m_stop, m_socks, queue, handling, served, uses, misused>>

\* The error is logged and the loop goes on, without leaving the thread.
AcceptFails ==
    /\ cur # 0 /\ loop[cur].at = "retry" /\ Refused(loop[cur].fd)
    /\ loop' = [loop EXCEPT ![cur].at = "head", ![cur].fd = -1]
    /\ UNCHANGED <<m_stop, m_socks, object, table, queue, cur, handling, served, uses, misused>>

\* accept gives a Socket (init() finds the context accept has made) and it is
\* handed to the worker.
Accepted ==
    /\ cur # 0 /\ loop[cur].at = "retry" /\ ~Refused(loop[cur].fd)
    /\ LET n == loop[cur].fd
           new == Lowest(FreeFds(table))
           o == Lowest(Objects \ HeldFds(m_socks, loop, handling))
       IN /\ table[n].backlog # <<>>
          /\ table' = [table EXCEPT ![n].backlog = Tail(@),
                                    ![new] = [Unused EXCEPT !.st = "connected"]]
          /\ object' = [object EXCEPT ![o] = new]
          /\ handling' = handling \cup {o}
          /\ served' = served \cup {Head(table[n].backlog)}
    /\ loop' = [loop EXCEPT ![cur].at = "head", ![cur].fd = -1]
    /\ UNCHANGED <<m_stop, m_socks, queue, cur, uses, misused>>

\* Nothing to accept: the hook waits for the event of this number.
AcceptWaits ==
    /\ cur # 0 /\ loop[cur].at = "retry" /\ ~Refused(loop[cur].fd)
    /\ table[loop[cur].fd].backlog = <<>>
    /\ loop' = [loop EXCEPT ![cur].at = "wait"]
    /\ cur' = 0
    /\ UNCHANGED <<m_stop, m_socks, object, table, queue, handling, served, uses, misused>>

-----------------------------------------------------------------------------
(* The worker and the peers.                                               *)

\* handleClient returns and the Socket goes.
HandlerEnds ==
    \E o \in handling :
        /\ handling' = handling \ {o}
        /\ Settle(object, table, m_socks, loop, handling')
        /\ UNCHANGED <<m_stop, m_socks, loop, queue, cur, served, uses, misused>>

\* A peer connects to a listening descriptor, which wakes a waiting loop.
Arrive(p) ==
    /\ p \notin served
    /\ \A n \in ServerFds : p \notin ToSet(table[n].backlog)
    /\ \E n \in ServerFds :
        /\ table[n].st = "listen"
        /\ table' = [table EXCEPT ![n].backlog = Append(@, p)]
        /\ LET ws == Waiting(loop, {n})
           IN queue' = queue \o ws /\ loop' = Woken(loop, ws)
    /\ UNCHANGED <<m_stop, m_socks, object, cur, handling, served, uses, misused>>

AcceptThread ==
    Stopped \/ Resume \/ LoopHead \/ AcceptFails \/ Accepted \/ AcceptWaits

AddrLists == {<<a>> : a \in Addrs} \cup {<<a, b>> : a, b \in Addrs}

ServerNext ==
    \/ AcceptThread
    \/ HandlerEnds
    \/ start \/ stop
    \/ \E addrs \in AddrLists : bind(addrs)
    \/ \E p \in Peers : Arrive(p)

\* The thread runs; nothing is assumed of handlers, peers or callers.
ServerSpec == ServerInit /\ [][ServerNext]_tcpVars /\ WF_tcpVars(AcceptThread)

-----------------------------------------------------------------------------
\* No descriptor outlives its last Socket: every open one belongs to exactly
\* one Socket somebody holds, also after a bind() that failed half way, a
\* stop() during an accept and the reuse of a number.
NoLeak ==
    \A n \in ServerFds : table[n].st # "closed" =>
        Cardinality({o \in HeldFds(m_socks, loop, handling) \ {0} : object[o] = n}) = 1

\* A server that was started, and not bound or started again on the way, has
\* one accept loop on each of its listening Sockets, and none elsewhere.
OneLoopEach ==
    ~misused /\ ~m_stop =>
        \A o \in ToSet(m_socks) :
            /\ object[o] # -1
            /\ Cardinality({l \in 1..Loops : loop[l].sock = o}) = 1

\* After stop() every accept loop ends and every listening Socket is closed,
\* unless start() or bind() came before that: then a loop may spin for ever
\* on a Socket that is closed, or wait on a number that was bound again.
StopEnds ==
    (StopTask \in ToSet(queue)) ~>
        (misused \/ (m_socks = <<>> /\ \A l \in 1..Loops : loop[l].at = "none"))

\* A peer that waits in the backlog of a running server is handed to the
\* worker, unless the server is stopped or no descriptor is left.
PeerServed ==
    \A p \in Peers :
        (\E n \in ServerFds : p \in ToSet(table[n].backlog)) ~>
            (p \in served \/ misused \/ m_stop \/ FreeFds(table) = {})

\* Every open descriptor has one holder, and every listening Socket one accept
\* loop (tcp_server.cpp 13-87).
SocketsHeld == NoLeak /\ OneLoopEach
=============================================================================
