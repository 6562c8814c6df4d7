------------------------------- MODULE Socket -------------------------------
(***************************************************************************)
(* Socket (socket.cpp) as fibers use it to reach other hosts: bind,        *)
(* connect, reconnect, send and recv, close and the cached addresses,      *)
(* over the descriptors of the kernel.                                     *)
(*                                                                         *)
(* A hooked call reads m_sock once.  It may wait for its event inside the  *)
(* hook and then goes on with the number it has read, whatever has become  *)
(* of the Socket in between.                                               *)
(***************************************************************************)
EXTENDS Integers, FiniteSets

CONSTANTS
    Socks,        \* Socket objects
    SockFibers,   \* fibers that use them
    SockFds,      \* descriptor numbers of the process
    UsersOf,        \* Socket -> the fibers that use it
    Remotes,      \* addresses to connect to: [family, host]
    OwnPort,      \* a local address to bind to
    Binders,      \* Sockets that are bound before they connect
    MaxConns      \* bound: connections begun

\* -1 is no descriptor, and finitely many fibers use a Socket.
ASSUME SockAssumption ==
    /\ SockFds \subseteq Nat
    /\ \A s \in Socks : UsersOf[s] \subseteq SockFibers /\ IsFiniteSet(UsersOf[s])

VARIABLES
    sock,         \* the members of each Socket
    kern,         \* the kernel's descriptors
    pend,         \* the call each fiber is in
    conns,        \* connections begun so far: tells them apart
    crossed       \* Sockets of which a call moved data of another connection

sockVars == <<sock, kern, pend, conns, crossed>>

NoPeer == [family |-> 0, host |-> 0]
Closed == [st |-> "closed", local |-> 0, peer |-> NoPeer, id |-> 0]
NoSockCall == [op |-> "none", s |-> 0, fd |-> -1, id |-> 0]

\* Every Socket here is CreateTCP(): AF_INET, no descriptor yet.
AF_INET == 4

SockInit ==
    /\ sock = [s \in Socks |-> [m_sock |-> -1, m_isConnected |-> FALSE,
                                m_local |-> 0, m_remote |-> NoPeer, odd |-> FALSE]]
    /\ kern = [n \in SockFds |-> Closed]
    /\ pend = [f \in SockFibers |-> NoSockCall]
    /\ conns = 0 /\ crossed = {}

isValid(x) == x.m_sock # -1
Open(k, n) == n # -1 /\ k[n].st # "closed"

-----------------------------------------------------------------------------
(* What the members do to one Socket x and to the descriptors k.           *)

\* socket() gives the lowest free number, or none; initSock() only sets
\* SO_REUSEADDR and TCP_NODELAY.
newSock(x, k) ==
    LET free == {n \in SockFds : k[n].st = "closed"}
        n == CHOOSE n \in free : \A i \in free : n <= i
    IN IF isValid(x) \/ free = {} THEN [x |-> x, k |-> k]
       ELSE [x |-> [x EXCEPT !.m_sock = n],
             k |-> [k EXCEPT ![n] = [Closed EXCEPT !.st = "new"]]]

\* A close() that leaves m_sock at the number it has closed.
Socket_close_KeepsNumber(x, k) ==
    IF ~x.m_isConnected /\ ~isValid(x) THEN [x |-> x, k |-> k]
    ELSE [x |-> [x EXCEPT !.m_isConnected = FALSE],
          k |-> IF isValid(x) THEN [k EXCEPT ![x.m_sock] = Closed] ELSE k]

\* A close() that does nothing for a Socket that is not connected.
Socket_close_OnlyConnected(x, k) ==
    IF ~x.m_isConnected THEN [x |-> [x EXCEPT !.m_sock = -1], k |-> k]
    ELSE [x |-> [x EXCEPT !.m_isConnected = FALSE, !.m_sock = -1],
          k |-> IF isValid(x) THEN [k EXCEPT ![x.m_sock] = Closed] ELSE k]

Socket_close(x, k) ==
    IF ~x.m_isConnected /\ ~isValid(x) THEN [x |-> x, k |-> k]
    ELSE [x |-> [x EXCEPT !.m_isConnected = FALSE, !.m_sock = -1],
          k |-> IF isValid(x) THEN [k EXCEPT ![x.m_sock] = Closed] ELSE k]

\* getLocalAddress() asks the kernel only when nothing is cached.
getLocalAddress(x, k) ==
    IF x.m_local # 0 \/ ~Open(k, x.m_sock) THEN x
    ELSE [x EXCEPT !.m_local = k[x.m_sock].local]

\* getRemoteAddress() likewise; connect() has cached its argument before.
getRemoteAddress(x, k) ==
    IF x.m_remote # NoPeer \/ ~Open(k, x.m_sock) \/ k[x.m_sock].st # "connected"
    THEN x ELSE [x EXCEPT !.m_remote = k[x.m_sock].peer]

\* The end of connect(): both addresses are looked up, or the Socket is closed.
Connected(x, k) ==
    LET y == [x EXCEPT !.m_isConnected = TRUE]
    IN [x |-> getLocalAddress(getRemoteAddress(y, k), k), k |-> k]

StoreSock(s, r) ==
    /\ sock' = [sock EXCEPT ![s] = r.x]
    /\ kern' = r.k

-----------------------------------------------------------------------------
(* bind, connect and reconnect.                                            *)

\* bind(): an address of another family, here 0, is refused after newSock().
Socket_bind(f, s, p) ==
    /\ pend[f] = NoSockCall
    /\ LET r == newSock(sock[s], kern)
           n == r.x.m_sock
           k == [r.k EXCEPT ![n].local = p]
       IN StoreSock(s, IF p = 0 \/ n = -1 \/ (n # -1 /\ (r.k[n].st # "new" \/ r.k[n].local # 0))
                      \/ \E i \in SockFds : r.k[i].local = p
                   THEN r
                   ELSE [x |-> getLocalAddress(r.x, k), k |-> k])
    /\ UNCHANGED <<pend, conns, crossed>>

\* ::connect on the descriptor of x: it fails when there is none or it is in
\* use, ends at once, or waits inside the hook with the number it was given.
Begin(f, s, x) ==
    LET r == newSock(x, kern)
        n == r.x.m_sock
    IN \/ /\ x.m_remote.family # AF_INET
          /\ pend' = pend /\ conns' = conns
          /\ StoreSock(s, r)
       \/ /\ x.m_remote.family = AF_INET
          /\ n = -1 \/ (n # -1 /\ r.k[n].st # "new")
          /\ pend' = pend /\ conns' = conns
          /\ StoreSock(s, Socket_close(r.x, r.k))
       \/ /\ x.m_remote.family = AF_INET /\ n # -1 /\ r.k[n].st = "new"
          /\ conns < MaxConns /\ conns' = conns + 1
          /\ \E st \in {"connected", "connecting"} :
              LET local == IF r.k[n].local = 0 THEN conns + 1 ELSE r.k[n].local
                  k == [r.k EXCEPT ![n] = [st |-> st, local |-> local,
                                           peer |-> x.m_remote, id |-> conns + 1]]
              IN /\ pend' = IF st = "connected" THEN pend
                            ELSE [pend EXCEPT ![f] = [op |-> "connect", s |-> s, fd |-> n,
                                                      id |-> conns + 1]]
                 /\ StoreSock(s, IF st = "connected" THEN Connected(r.x, k)
                             ELSE [x |-> r.x, k |-> k])

\* connect() stores its argument first.  A Socket that is open, or that has
\* been connected before, is noted: its cached addresses are not looked up.
\* Such a second connect() is taken once per Socket.
connect(f, s, a) ==
    /\ pend[f] = NoSockCall /\ ~sock[s].odd
    /\ Begin(f, s, [sock[s] EXCEPT !.m_remote = a,
                                   !.odd = @ \/ isValid(sock[s]) \/ sock[s].m_local # 0])
    /\ crossed' = crossed

\* reconnect() that keeps the cached local address.
reconnect_KeepsLocal(f, s) ==
    /\ pend[f] = NoSockCall /\ sock[s].m_remote # NoPeer
    /\ Begin(f, s, sock[s])
    /\ crossed' = crossed

reconnect(f, s) ==
    /\ pend[f] = NoSockCall /\ sock[s].m_remote # NoPeer
    /\ Begin(f, s, [sock[s] EXCEPT !.m_local = 0])
    /\ crossed' = crossed

\* The call that waited is resumed by its event, by its timeout or by the
\* close of its descriptor.  SO_ERROR of the number it has is all it asks.
connected(f) ==
    /\ pend[f].op = "connect"
    /\ pend' = [pend EXCEPT ![f] = NoSockCall]
    /\ LET s == pend[f].s
           n == pend[f].fd
           k == IF kern[n].st = "connecting" /\ kern[n].id = pend[f].id
                THEN [kern EXCEPT ![n].st = "connected"] ELSE kern
       IN \/ Open(kern, n) /\ StoreSock(s, Connected(sock[s], k))
          \/ StoreSock(s, Socket_close(sock[s], kern))
    /\ UNCHANGED <<conns, crossed>>

-----------------------------------------------------------------------------
(* send, recv and close.                                                   *)

\* send() and recv() and their variants: -1 unless connected, else the hooked
\* call on m_sock, which fails, moves data at once or waits for its event.
Transfer(f, s) ==
    /\ pend[f] = NoSockCall
    /\ sock[s].m_isConnected /\ Open(kern, sock[s].m_sock)
    /\ pend' = [pend EXCEPT ![f] = [op |-> "io", s |-> s, fd |-> sock[s].m_sock,
                                    id |-> kern[sock[s].m_sock].id]]
    /\ UNCHANGED <<sock, kern, conns, crossed>>

\* The waiting call tries again on its number, or gives up at its timeout.
Retried(f) ==
    /\ pend[f].op = "io"
    /\ pend' = [pend EXCEPT ![f] = NoSockCall]
    /\ LET k == kern[pend[f].fd]
       IN \/ crossed' = crossed
          \/ /\ k.st = "connected" /\ k.id # pend[f].id
             /\ crossed' = crossed \cup {pend[f].s}
    /\ UNCHANGED <<sock, kern, conns>>

\* close(), by any fiber that holds the Socket, and by the destructor.
Destroy(f, s) ==
    /\ pend[f] = NoSockCall
    /\ pend' = pend
    /\ StoreSock(s, Socket_close(sock[s], kern))
    /\ UNCHANGED <<conns, crossed>>

SockNext ==
    \E f \in SockFibers :
        \/ connected(f)
        \/ Retried(f)
        \/ \E s \in {s \in Socks : f \in UsersOf[s]} :
            \/ reconnect(f, s) \/ Transfer(f, s) \/ Destroy(f, s)
            \/ s \in Binders /\ \E p \in {0, OwnPort} : Socket_bind(f, s, p)
            \/ \E a \in Remotes : connect(f, s, a)

SockSpec == SockInit /\ [][SockNext]_sockVars

-----------------------------------------------------------------------------
\* Every open descriptor is the m_sock of exactly one Socket, and a Socket's
\* m_sock is open: no path through bind, connect, a failed or overtaken
\* connect or close leaves a descriptor behind or closes one twice.
FdsOwned ==
    /\ \A n \in SockFds : Open(kern, n) =>
        Cardinality({s \in Socks : sock[s].m_sock = n}) = 1
    /\ \A s \in Socks : isValid(sock[s]) => Open(kern, sock[s].m_sock)

Shared(s) == Cardinality(UsersOf[s]) > 1

\* The addresses a connected Socket reports are those of its connection, as
\* long as one fiber uses it, with connect() once and reconnect() after that.
AddressesTrue ==
    \A s \in Socks :
        LET x == sock[s] IN
        x.m_isConnected /\ isValid(x) /\ ~x.odd /\ ~Shared(s) =>
            x.m_local = kern[x.m_sock].local /\ x.m_remote = kern[x.m_sock].peer

\* A send or recv on a Socket that only one fiber uses never moves data of
\* another connection, however numbers are reused; on a shared one it may,
\* when one fiber closes the Socket while the other waits in a call.
OwnDataOnly == \A s \in crossed : Shared(s)

\* Sockets own their descriptors, tell the addresses of their connection and
\* carry its data only (socket.cpp 98-330).
SocketsRight == FdsOwned /\ AddressesTrue /\ OwnDataOnly
=============================================================================
