------------------------------- MODULE HttpPool -------------------------------
(***************************************************************************)
(* HttpConnectionPool (http_connection.cpp 187-376): getConnection,        *)
(* doRequest and ReleasePtr, called by fibers on several threads, against  *)
(* a server that may close a connection at any time.                       *)
(*                                                                         *)
(* m_coons is changed under m_mutex, m_total is an atomic beside it, and a *)
(* connect in between may take long.                                       *)
(***************************************************************************)
EXTENDS Integers, FiniteSets, SequencesExt

CONSTANTS
    PoolFibers,     \* callers of doRequest
    MaxRequest,     \* m_maxRequest
    MaxAliveTime,   \* m_maxAliveTime
    NowMS,          \* GetCurrentMS(), long after a start at 0
    MaxConnections, \* bound: connections ever made
    MaxCalls        \* bound: requests ever made

ASSUME PoolBounds == MaxRequest \in Nat \ {0} /\ MaxConnections \in Nat

VARIABLES
    m_coons,        \* the idle connections
    m_total,        \* the count of connections
    conn,           \* each HttpConnection
    user,           \* each caller: where it is, the connection it holds, those it
                    \* has deleted and not yet counted, its request and response
    calls           \* requests made so far: tells them apart

poolVars == <<m_coons, m_total, conn, user, calls>>

NotMade == [st |-> "none", m_request |-> 0, peer |-> FALSE, answers |-> <<>>]
Away == [at |-> "none", conn |-> 0, drop |-> {}, id |-> 0, rsp |-> 0]

PoolInit ==
    /\ m_coons = <<>> /\ m_total = 0 /\ calls = 0
    /\ conn = [c \in 1..MaxConnections |-> NotMade]
    /\ user = [f \in PoolFibers |-> Away]

isConnected(c) == conn[c].st = "connected"

\* m_createTime is 0 for ever: it is never assigned.
Young == 0 + MaxAliveTime > NowMS

\* The loop under the lock drops connections until one is fit for use.
Unfit(c) == ~isConnected(c) \/ Young

\* A getConnection that leaves the connection it hands out in the list.
getConnection_Peeks(f) ==
    LET fit == SelectInSeq(m_coons, LAMBDA c : ~Unfit(c))
        n == IF fit = 0 THEN Len(m_coons) ELSE fit - 1
        bad == ToSet(SubSeq(m_coons, 1, n))
    IN /\ user[f].at = "none" /\ calls < MaxCalls /\ calls' = calls + 1
       /\ m_coons' = SubSeq(m_coons, n + 1, Len(m_coons))
       /\ conn' = [c \in 1..MaxConnections |->
                     IF c \in bad THEN [conn[c] EXCEPT !.st = "deleted"] ELSE conn[c]]
       /\ user' = [user EXCEPT ![f] = [at |-> "count", conn |-> IF fit = 0 THEN 0 ELSE m_coons[fit],
                                       drop |-> bad, id |-> calls + 1, rsp |-> 0]]
       /\ m_total' = m_total

getConnection(f) ==
    LET fit == SelectInSeq(m_coons, LAMBDA c : ~Unfit(c))
        n == IF fit = 0 THEN Len(m_coons) ELSE fit - 1
        bad == ToSet(SubSeq(m_coons, 1, n))
    IN /\ user[f].at = "none" /\ calls < MaxCalls /\ calls' = calls + 1
       /\ m_coons' = SubSeq(m_coons, n + 2, Len(m_coons))
       /\ conn' = [c \in 1..MaxConnections |->
                     IF c \in bad THEN [conn[c] EXCEPT !.st = "deleted"] ELSE conn[c]]
       /\ user' = [user EXCEPT ![f] = [at |-> "count", conn |-> IF fit = 0 THEN 0 ELSE m_coons[fit],
                                       drop |-> bad, id |-> calls + 1, rsp |-> 0]]
       /\ m_total' = m_total

\* m_total -= invalid_conns.size(), after the unlock.
Counted(f) ==
    /\ user[f].at = "count"
    /\ m_total' = m_total - Cardinality(user[f].drop)
    /\ user' = [user EXCEPT ![f].at = IF user[f].conn = 0 THEN "connect" ELSE "send", ![f].drop = {}]
    /\ UNCHANGED <<m_coons, conn, calls>>

\* No connection was left: connect, which may fail (POOL_GET_CONNECTION).
Connect(f) ==
    /\ user[f].at = "connect"
    /\ \/ /\ user' = [user EXCEPT ![f] = Away]
          /\ UNCHANGED <<m_total, conn>>
       \/ \E c \in 1..MaxConnections :
            /\ conn[c].st = "none" /\ \A d \in 1..(c - 1) : conn[d].st # "none"
            /\ conn' = [conn EXCEPT ![c] = [NotMade EXCEPT !.st = "connected", !.peer = TRUE]]
            /\ m_total' = m_total + 1
            /\ user' = [user EXCEPT ![f].at = "send", ![f].conn = c]
    /\ UNCHANGED <<m_coons, calls>>

\* sendRequest, and the answer of a server that is still there.
sendRequest(f) ==
    LET c == user[f].conn IN
    /\ user[f].at = "send"
    /\ conn' = IF conn[c].peer THEN [conn EXCEPT ![c].answers = Append(@, user[f].id)] ELSE conn
    /\ user' = [user EXCEPT ![f].at = "recv"]
    /\ UNCHANGED <<m_coons, m_total, calls>>

\* A recvResponse that reports a bad response and leaves the connection open.
recvResponse_KeepsOpen(f) ==
    LET c == user[f].conn IN
    /\ user[f].at = "recv"
    /\ \/ /\ conn[c].answers # <<>>
          /\ user' = [user EXCEPT ![f].at = "release", ![f].rsp = Head(conn[c].answers)]
          /\ conn' = [conn EXCEPT ![c].answers = Tail(@)]
       \/ /\ user' = [user EXCEPT ![f].at = "release"]
          /\ conn' = conn
    /\ UNCHANGED <<m_coons, m_total, calls>>

\* recvResponse reads one response; the end of the connection or a response
\* that is not well formed closes it (TIMEOUT).
recvResponse(f) ==
    LET c == user[f].conn IN
    /\ user[f].at = "recv"
    /\ \/ /\ conn[c].answers # <<>>
          /\ user' = [user EXCEPT ![f].at = "release", ![f].rsp = Head(conn[c].answers)]
          /\ conn' = [conn EXCEPT ![c].answers = Tail(@)]
       \/ /\ conn[c].answers # <<>> \/ ~conn[c].peer
          /\ user' = [user EXCEPT ![f].at = "release"]
          /\ conn' = [conn EXCEPT ![c].st = "closed"]
    /\ UNCHANGED <<m_coons, m_total, calls>>

\* The test of ReleasePtr with > for >=.
Spent_OneMore(c) == ~isConnected(c) \/ 0 + MaxAliveTime >= NowMS \/ conn[c].m_request + 1 > MaxRequest

\* Whether ReleasePtr deletes c, after ++m_request.
Spent(c) == ~isConnected(c) \/ 0 + MaxAliveTime >= NowMS \/ conn[c].m_request + 1 >= MaxRequest

\* ReleasePtr deletes the connection, and counts it later, or puts it back.
ReleasePtr(f) ==
    LET c == user[f].conn IN
    /\ user[f].at = "release"
    /\ \/ /\ Spent(c)
          /\ conn' = [conn EXCEPT ![c].st = "deleted", ![c].m_request = @ + 1]
          /\ user' = [user EXCEPT ![f] = [Away EXCEPT !.at = "deleted", !.drop = {c}]]
          /\ m_coons' = m_coons
       \/ /\ ~Spent(c)
          /\ conn' = [conn EXCEPT ![c].m_request = @ + 1]
          /\ user' = [user EXCEPT ![f] = Away]
          /\ m_coons' = Append(m_coons, c)
    /\ UNCHANGED <<m_total, calls>>

\* A ReleasePtr that does not count what it deletes.
Uncounted_Not(f) ==
    /\ user[f].at = "deleted"
    /\ user' = [user EXCEPT ![f] = Away]
    /\ UNCHANGED <<m_coons, m_total, conn, calls>>

\* --pool->m_total.
Uncounted(f) ==
    /\ user[f].at = "deleted"
    /\ m_total' = m_total - 1
    /\ user' = [user EXCEPT ![f] = Away]
    /\ UNCHANGED <<m_coons, conn, calls>>

\* The server closes a connection; nothing here notices before it is read.
PeerCloses(c) ==
    /\ conn[c].peer
    /\ conn' = [conn EXCEPT ![c].peer = FALSE]
    /\ UNCHANGED <<m_coons, m_total, user, calls>>

PoolNext ==
    \/ \E f \in PoolFibers :
        \/ getConnection(f) \/ Counted(f) \/ Connect(f)
        \/ sendRequest(f) \/ recvResponse(f) \/ ReleasePtr(f) \/ Uncounted(f)
    \/ \E c \in 1..MaxConnections : PeerCloses(c)

PoolSpec == PoolInit /\ [][PoolNext]_poolVars

-----------------------------------------------------------------------------
Live == {c \in 1..MaxConnections : conn[c].st \in {"connected", "closed"}}

\* m_total is the number of connections that exist once every caller has done
\* its counting, on each path that makes, drops or deletes one.
TotalExact ==
    (\A f \in PoolFibers : user[f].at \notin {"count", "deleted"}) => m_total = Cardinality(Live)

\* A connection has one owner: it is held by one caller, or idle in the list
\* once; a deleted one is nowhere.
OneOwner ==
    /\ IsInjective(m_coons)
    /\ ToSet(m_coons) \subseteq Live
    /\ \A f \in PoolFibers : user[f].conn # 0 =>
        /\ user[f].conn \in Live \ ToSet(m_coons)
        /\ \A g \in PoolFibers : user[g].conn = user[f].conn => g = f

\* The response doRequest returns answers its own request: no connection goes
\* back to the list with an answer somebody else gave up on.
OwnAnswer == \A f \in PoolFibers : user[f].rsp \in {0, user[f].id}

\* No connection carries more requests than m_maxRequest allows.
RequestsBounded == \A c \in 1..MaxConnections : conn[c].m_request <= MaxRequest

\* The pool counts its connections, gives each to one caller, never beyond its
\* number of requests, and returns to a caller the answer to its own request
\* (http_connection.cpp 188-262, 340-380).
PoolRight == TotalExact /\ OneOwner /\ OwnAnswer /\ RequestsBounded
=============================================================================
