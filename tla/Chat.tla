-------------------------------- MODULE Chat --------------------------------
(***************************************************************************)
(* The chat service: WSServer::handleClient runs one fiber per connection, *)
(* which receives messages and hands them to ChatServlet. The fibers share *)
(* the map m_sessions from the user's name to the session.                 *)
(*                                                                         *)
(* A fiber leaves its thread only where it waits: for a message, or for    *)
(* room in the socket buffer of the connection it writes to. `running' is  *)
(* the set of fibers that are on a thread; the others that could go on     *)
(* wait for a thread. Application runs the servers on one thread           *)
(* (application.cpp:122), Threads is that number.                          *)
(*                                                                         *)
(* A write to a connection of which the buffer is full waits with addEvent *)
(* (hook.cpp:137), which aborts when another fiber waits already. A write  *)
(* to a session that is closed returns (size_t)-1, which writeFixSize      *)
(* takes for progress (stream.cpp:39): the loop never ends.                *)
(***************************************************************************)
EXTENDS Naturals, Sequences, FiniteSets, SequencesExt

CONSTANTS Conns,      \* connections (positive numbers), one handler fiber each
          Users,      \* user names: positive numbers, in the order of std::map
          Threads,    \* threads of the IOManager
          Slow,       \* connections of which the socket buffer may be full
          MaxMsgs     \* bound: messages received on a connection

Nobody == 0             \* no name ("$id" not set), no session, no connection

ASSUME ChatNames == Nobody \notin Conns /\ Nobody \notin Users

VARIABLES m_sessions, \* ChatServlet::m_sessions: from Users to Conns or Nobody
          id,         \* the header "$id" of the connection
          pc,         \* where the handler fiber of the connection is
          todo,       \* connections the handler has yet to write to, in order
          after,      \* where the handler goes on when todo is empty
          want,       \* the name in the login request being handled
          open,       \* the session is connected (Socket::m_isConnected)
          gone,       \* the peer has left
          full,       \* the socket buffer of the connection is full
          waits,      \* the connection a fiber waits to write to, or Nobody
          running,    \* handler fibers that are on a thread
          received,   \* messages received on the connection
          fate        \* "ok", or how the process was lost
chatVars == <<m_sessions, id, pc, todo, after, want, open, gone, full, waits,
              running, received, fate>>

ChatInit ==
    /\ m_sessions = [n \in Users |-> Nobody]
    /\ id = [c \in Conns |-> Nobody]
    /\ pc = [c \in Conns |-> "recv"]
    /\ todo = [c \in Conns |-> <<>>]
    /\ after = [c \in Conns |-> "recv"]
    /\ want = [c \in Conns |-> Nobody]
    /\ open = [c \in Conns |-> TRUE]
    /\ gone = [c \in Conns |-> FALSE]
    /\ full = [c \in Conns |-> FALSE]
    /\ waits = [c \in Conns |-> Nobody]
    /\ running = {}
    /\ received = [c \in Conns |-> 0]
    /\ fate = "ok"

At(c, where) == fate = "ok" /\ pc[c] = where /\ c \in running
Goto(c, where) == pc' = [pc EXCEPT ![c] = where]

\* The scheduler gives a thread to a fiber that can go on.
ResumeHandler(c) ==
    /\ fate = "ok" /\ c \notin running
    /\ pc[c] \notin {"recv", "done"} /\ waits[c] = Nobody
    /\ Cardinality(running) < Threads
    /\ running' = running \cup {c}
    /\ UNCHANGED <<m_sessions, id, pc, todo, after, want, open, gone, full,
                   waits, received, fate>>

\* recvMessage returns: a message of the peer, or nothing when the peer is
\* gone; then WSRecvMessage has closed the session.
recvMessage(c) ==
    /\ fate = "ok" /\ pc[c] = "recv" /\ Cardinality(running) < Threads
    /\ running' = running \cup {c}
    /\ \/ /\ received[c] < MaxMsgs
          /\ received' = [received EXCEPT ![c] = @ + 1]
          /\ \E n \in Users \cup {Nobody}, kind \in {"bad", "login", "send"} :
                want' = [want EXCEPT ![c] = n] /\ Goto(c, kind)
          /\ UNCHANGED open
       \/ /\ gone[c]
          /\ open' = [open EXCEPT ![c] = FALSE]
          /\ Goto(c, "onClose")
          /\ UNCHANGED <<received, want>>
    /\ UNCHANGED <<m_sessions, id, todo, after, gone, full, waits, fate>>

\* What sessionNotify writes to: the sessions of a copy of the map, in the
\* order of the names, without the session that is excluded.
sessionNotify(map, excluded) ==
    LET seq == SetToSortSeq({n \in Users : map[n] \notin {Nobody, excluded}}, <)
    IN  [i \in DOMAIN seq |-> map[seq[i]]]

\* A bug in sessionDel: the name is kept.
sessionDel_Keeps(n) == m_sessions

sessionDel(n) == IF n = Nobody THEN m_sessions ELSE [m_sessions EXCEPT ![n] = Nobody]

\* The handler goes on to write to the connections of seq.
WriteTo(c, seq, next) ==
    /\ todo' = [todo EXCEPT ![c] = seq]
    /\ after' = [after EXCEPT ![c] = next]
    /\ Goto(c, "write")

\* handle() with a message that is not JSON: the name is dropped, and the
\* loop of handleClient ends.
HandleBad(c) ==
    /\ At(c, "bad")
    /\ m_sessions' = sessionDel(id[c])
    /\ Goto(c, "onClose")
    /\ UNCHANGED <<id, todo, after, want, open, gone, full, waits, running,
                   received, fate>>

\* A bug in the login: a user with a name may log in under another one.
LoginRefused_Again(c) == want[c] = Nobody \/ m_sessions[want[c]] # Nobody

\* The answers 400, 401 and 402 of the login.
LoginRefused(c) == want[c] = Nobody \/ id[c] # Nobody \/ m_sessions[want[c]] # Nobody

\* handle() with login_request: the answers 400, 401 and 402, or the name is
\* free; the session is added in a later step, under another lock.
HandleLogin(c) ==
    /\ At(c, "login")
    /\ IF LoginRefused(c)
       THEN WriteTo(c, <<c>>, "recv")
       ELSE Goto(c, "add") /\ UNCHANGED <<todo, after>>
    /\ UNCHANGED <<m_sessions, id, want, open, gone, full, waits, running,
                   received, fate>>

\* The successful login: "$id", sessionAdd, the others are told, the answer.
HandleAdd(c) ==
    /\ At(c, "add")
    /\ id' = [id EXCEPT ![c] = want[c]]
    /\ m_sessions' = [m_sessions EXCEPT ![want[c]] = c]
    /\ WriteTo(c, Append(sessionNotify(m_sessions', c), c), "recv")
    /\ UNCHANGED <<want, open, gone, full, waits, running, received, fate>>

\* handle() with send_request: 500 (an empty message, want = Nobody) and 501,
\* or everybody is told, then the answer.
HandleSend(c) ==
    /\ At(c, "send")
    /\ WriteTo(c, IF want[c] = Nobody \/ id[c] = Nobody THEN <<c>>
                ELSE Append(sessionNotify(m_sessions, Nobody), c), "recv")
    /\ UNCHANGED <<m_sessions, id, want, open, gone, full, waits, running,
                   received, fate>>

\* One WSSendMessage: it is written and the buffer may now be full; or the
\* fiber waits for room; or the assertion of addEvent fails, since another
\* fiber waits for the same event; or the peer is gone and SIGPIPE, which
\* main() does not ignore, ends the process; or the session is closed and
\* writeFixSize loops.
WSSendMessage(c) ==
    /\ At(c, "write") /\ todo[c] # <<>>
    /\ LET d == Head(todo[c]) IN
       \/ /\ open[d] /\ ~full[d]
          /\ todo' = [todo EXCEPT ![c] = Tail(@)]
          /\ \E b \in IF d \in Slow /\ ~gone[d] THEN BOOLEAN ELSE {FALSE} : full' = [full EXCEPT ![d] = b]
          /\ UNCHANGED <<waits, running, fate>>
       \/ /\ open[d] /\ full[d] /\ \A e \in Conns : waits[e] # d
          /\ waits' = [waits EXCEPT ![c] = d]
          /\ running' = running \ {c}
          /\ UNCHANGED <<todo, full, fate>>
       \/ /\ open[d] /\ full[d] /\ \E e \in Conns : waits[e] = d
          /\ fate' = "abort"
          /\ UNCHANGED <<todo, full, waits, running>>
       \/ /\ open[d] /\ gone[d]
          /\ fate' = "sigpipe"
          /\ UNCHANGED <<todo, full, waits, running>>
       \/ /\ ~open[d]
          /\ fate' = "spin"
          /\ UNCHANGED <<todo, full, waits, running>>
    /\ UNCHANGED <<m_sessions, id, pc, after, want, open, gone, received>>

\* Everything is written: receive again, which waits, or close.
Written(c) ==
    /\ At(c, "write") /\ todo[c] = <<>>
    /\ Goto(c, after[c])
    /\ running' = IF after[c] = "recv" THEN running \ {c} ELSE running
    /\ UNCHANGED <<m_sessions, id, todo, after, want, open, gone, full, waits,
                   received, fate>>

\* ChatServlet::onClose: the name is dropped and the others are told.
onClose(c) ==
    /\ At(c, "onClose")
    /\ m_sessions' = sessionDel(id[c])
    /\ WriteTo(c, IF id[c] = Nobody THEN <<>> ELSE sessionNotify(m_sessions', c), "close")
    /\ UNCHANGED <<id, want, open, gone, full, waits, running, received, fate>>

\* The end of handleClient: Socket::close, whose cancelAll wakes the fiber
\* that waits to write to this connection.
CloseSession(c) ==
    /\ At(c, "close")
    /\ open' = [open EXCEPT ![c] = FALSE]
    /\ waits' = [e \in Conns |-> IF waits[e] = c THEN Nobody ELSE waits[e]]
    /\ Goto(c, "done")
    /\ running' = running \ {c}
    /\ UNCHANGED <<m_sessions, id, todo, after, want, gone, full, received, fate>>

\* The peer reads: there is room again and the waiting fiber is woken.
Drain(d) ==
    /\ fate = "ok" /\ full[d] /\ ~gone[d]
    /\ full' = [full EXCEPT ![d] = FALSE]
    /\ waits' = [e \in Conns |-> IF waits[e] = d THEN Nobody ELSE waits[e]]
    /\ UNCHANGED <<m_sessions, id, pc, todo, after, want, open, gone, running,
                   received, fate>>

\* The peer closes its side; a fiber that waits to write is woken.
Leave(d) ==
    /\ fate = "ok" /\ ~gone[d]
    /\ gone' = [gone EXCEPT ![d] = TRUE]
    /\ full' = [full EXCEPT ![d] = FALSE]
    /\ waits' = [e \in Conns |-> IF waits[e] = d THEN Nobody ELSE waits[e]]
    /\ UNCHANGED <<m_sessions, id, pc, todo, after, want, open, running,
                   received, fate>>

\* All handlers are done, or the process is lost.
Over ==
    /\ fate # "ok" \/ \A c \in Conns : pc[c] = "done"
    /\ UNCHANGED chatVars

ChatNext ==
    \/ \E c \in Conns :
          \/ ResumeHandler(c) \/ recvMessage(c) \/ HandleBad(c) \/ HandleLogin(c)
          \/ HandleAdd(c) \/ HandleSend(c) \/ WSSendMessage(c) \/ Written(c)
          \/ onClose(c) \/ CloseSession(c) \/ Drain(c) \/ Leave(c)
    \/ Over

ChatSpec == ChatInit /\ [][ChatNext]_chatVars

-----------------------------------------------------------------------------
\* A connection is in the map under the name it is logged in with, and under
\* that name only, from its login until it leaves. So no two connections have
\* one name although handle() tests for the name and adds it under two locks
\* (chat_servlet.cpp:69 and 78), and the double sessionDel of a connection
\* that is dropped for a bad message (49 and 27) never hits the session of
\* somebody else who has taken the name in between.
NameOwned ==
    \A c \in Conns : \A n \in Users :
        m_sessions[n] = c <=>
            /\ id[c] = n
            /\ pc[c] \notin {"close", "done"}
            /\ ~(pc[c] = "write" /\ after[c] = "close")
            /\ ~(pc[c] = "onClose" /\ open[c])

\* A session in the map is open whenever its own handler is not on a thread.
\* With one thread sessionNotify never copies a session that is closed, since
\* a handler that closes its session drops the name before it waits again
\* (ws_session.cpp:178, ws_server.cpp:36-44, chat_servlet.cpp:27).
RegisteredIsOpen ==
    \A n \in Users :
        m_sessions[n] \in Conns \ running => open[m_sessions[n]]

\* The map of sessions holds each logged-in connection under its name, and no
\* connection that is closed (chat_servlet.cpp 20-143).
SessionsRight == NameOwned /\ RegisteredIsOpen
=============================================================================
