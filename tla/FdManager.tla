------------------------------ MODULE FdManager ------------------------------
(***************************************************************************)
(* FdManager and FdContext (fd_manager.cpp), and the hooked calls that     *)
(* make, drop and change a context: socket, accept, close, fcntl, ioctl    *)
(* and setsockopt (hook.cpp).                                              *)
(*                                                                         *)
(* The kernel gives the number of a closed descriptor out again.  Threads  *)
(* of a scheduler have the hook enabled; Main has not.                     *)
(***************************************************************************)
EXTENDS Naturals

CONSTANTS
    Hooked,       \* threads with t_hook_enable
    Main,         \* a thread without
    FdNumbers,    \* descriptor numbers, positive
    InitFds,      \* m_fds.resize(64) in the constructor
    MaxOpens,     \* bound: descriptors opened
    MainCloses    \* may Main close a descriptor a hooked thread has opened?

ASSUME FdAssumption ==
    /\ Main \notin Hooked
    /\ FdNumbers \subseteq Nat \ {0}
    /\ InitFds \in Nat /\ MaxOpens \in Nat
    /\ MainCloses \in BOOLEAN

FdThreads == Hooked \union {Main}

VARIABLES
    m_fds,        \* number -> its FdContext
    fdSize,       \* m_fds.size()
    kernel,       \* number -> the open descriptor, if any, its O_NONBLOCK, and
                  \* whether a hooked thread has opened it
    opens,        \* descriptors opened so far: tells them apart
    user,         \* number -> what its user last set O_NONBLOCK to
    timeo,        \* number -> SO_RCVTIMEO as the user has set it
    ioctled,      \* numbers made blocking by ioctl(FIONBIO)
    op            \* what each thread does, and to which number

fdVars == <<m_fds, fdSize, kernel, opens, user, timeo, ioctled, op>>

NoContext == [of |-> 0, userNonBlock |-> FALSE, recvTimeout |-> FALSE]
NotOpen == [id |-> 0, nonBlock |-> FALSE, hooked |-> FALSE]
NoCall == [at |-> "idle", fd |-> 0]

FdInit ==
    /\ m_fds = [n \in FdNumbers |-> NoContext]
    /\ fdSize = InitFds
    /\ kernel = [n \in FdNumbers |-> NotOpen]
    /\ opens = 0
    /\ user = [n \in FdNumbers |-> FALSE]
    /\ timeo = [n \in FdNumbers |-> FALSE]
    /\ ioctled = {}
    /\ op = [t \in FdThreads |-> NoCall]

\* Thread t goes from a place in its call on n to the next.
Step(t, n, from, to) ==
    /\ op[t] = [at |-> from, fd |-> n]
    /\ op' = [op EXCEPT ![t] = IF to = "idle" THEN NoCall ELSE [at |-> to, fd |-> n]]

InTable(n) == n < fdSize /\ m_fds[n].of # 0

\* n is open and no thread is inside a call on it.
Settled(n) ==
    kernel[n].id # 0 /\ \A t \in FdThreads : op[t].fd # n

-----------------------------------------------------------------------------
(* socket() and accept().                                                  *)

\* socket_f or accept_f gives the lowest free number; with the hook enabled
\* get(fd, true) follows.
socket(t) ==
    /\ op[t] = NoCall /\ opens < MaxOpens
    /\ \E n \in FdNumbers :
        /\ kernel[n].id = 0 /\ \A k \in FdNumbers : k < n => kernel[k].id # 0
        /\ kernel' = [kernel EXCEPT ![n] = [id |-> opens + 1, nonBlock |-> FALSE,
                                            hooked |-> t # Main]]
        /\ user' = [user EXCEPT ![n] = FALSE]
        /\ timeo' = [timeo EXCEPT ![n] = FALSE]
        /\ ioctled' = ioctled \ {n}
        /\ op' = IF t = Main THEN op ELSE [op EXCEPT ![t] = [at |-> "get", fd |-> n]]
    /\ opens' = opens + 1
    /\ UNCHANGED <<m_fds, fdSize>>

\* get(fd, true) under the read lock: there is a context, or one is made.
get(t, n) ==
    /\ Step(t, n, "get", IF InTable(n) THEN "idle" ELSE "create")
    /\ UNCHANGED <<m_fds, fdSize, kernel, opens, user, timeo, ioctled>>

\* Mutant: the table grows to hold the new number only as its last but one.
Grown_Short(n) == IF n >= fdSize THEN n ELSE fdSize

Grown(n) == IF n >= fdSize THEN n * 2 ELSE fdSize

\* Mutant: FdContext::init does not make the descriptor non-blocking.
create_LeavesBlocking(t, n) ==
    /\ Step(t, n, "create", "idle")
    /\ fdSize' = Grown(n)
    /\ m_fds' = [m_fds EXCEPT ![n] = [NoContext EXCEPT !.of = kernel[n].id]]
    /\ UNCHANGED <<kernel, opens, user, timeo, ioctled>>

\* get(fd, true) under the write lock, with FdContext::init.
create(t, n) ==
    /\ Step(t, n, "create", "idle")
    /\ fdSize' = Grown(n)
    /\ m_fds' = [m_fds EXCEPT ![n] = [NoContext EXCEPT !.of = kernel[n].id]]
    /\ kernel' = [kernel EXCEPT ![n].nonBlock = TRUE]
    /\ UNCHANGED <<opens, user, timeo, ioctled>>

-----------------------------------------------------------------------------
(* close().                                                                *)

\* Without the hook, or without a context, only close_f.  A number opened by a
\* hooked thread is left to hooked threads unless MainCloses.
close(t, n) ==
    /\ op[t] = NoCall /\ Settled(n)
    /\ t = Main => MainCloses \/ ~InTable(n)
    /\ op' = [op EXCEPT ![t] = [at |-> IF t # Main /\ InTable(n) THEN "del" ELSE "close_f",
                                fd |-> n]]
    /\ UNCHANGED <<m_fds, fdSize, kernel, opens, user, timeo, ioctled>>

\* Mutant: the context is dropped after the descriptor is closed.
del_AfterClose(t, n) ==
    \/ /\ Step(t, n, "del", "late")
       /\ kernel' = [kernel EXCEPT ![n] = NotOpen]
       /\ UNCHANGED <<m_fds, fdSize, opens, user, timeo, ioctled>>
    \/ /\ Step(t, n, "late", "idle")
       /\ m_fds' = [m_fds EXCEPT ![n] = IF n >= fdSize THEN @ ELSE NoContext]
       /\ UNCHANGED <<fdSize, kernel, opens, user, timeo, ioctled>>

del(t, n) ==
    /\ Step(t, n, "del", "close_f")
    /\ m_fds' = [m_fds EXCEPT ![n] = IF n >= fdSize THEN @ ELSE NoContext]
    /\ UNCHANGED <<fdSize, kernel, opens, user, timeo, ioctled>>

close_f(t, n) ==
    /\ Step(t, n, "close_f", "idle")
    /\ kernel' = [kernel EXCEPT ![n] = NotOpen]
    /\ UNCHANGED <<m_fds, fdSize, opens, user, timeo, ioctled>>

-----------------------------------------------------------------------------
(* Flags and options; fcntl and ioctl do not look at t_hook_enable.        *)

\* Mutant: what the user asks for reaches the kernel.
SetFlag_Kernel(n, nonBlock) == nonBlock

\* The O_NONBLOCK that F_SETFL hands to the kernel: that of getSysNonBlock.
SetFlag(n, nonBlock) == InTable(n) \/ nonBlock

fcntl(t, n, nonBlock) ==
    /\ op[t] = NoCall /\ Settled(n)
    /\ m_fds' = IF InTable(n) THEN [m_fds EXCEPT ![n].userNonBlock = nonBlock] ELSE m_fds
    /\ kernel' = [kernel EXCEPT ![n].nonBlock = SetFlag(n, nonBlock)]
    /\ user' = [user EXCEPT ![n] = nonBlock]
    /\ ioctled' = IF InTable(n) THEN ioctled \ {n} ELSE ioctled
    /\ UNCHANGED <<fdSize, opens, timeo, op>>

\* FIONBIO is noted in the context and then done by the kernel as well.
ioctl(t, n, nonBlock) ==
    /\ op[t] = NoCall /\ Settled(n)
    /\ m_fds' = IF InTable(n) THEN [m_fds EXCEPT ![n].userNonBlock = nonBlock] ELSE m_fds
    /\ kernel' = [kernel EXCEPT ![n].nonBlock = nonBlock]
    /\ user' = [user EXCEPT ![n] = nonBlock]
    /\ ioctled' = IF nonBlock THEN ioctled \ {n} ELSE ioctled \union {n}
    /\ UNCHANGED <<fdSize, opens, timeo, op>>

\* SO_RCVTIMEO: only a thread without the hook tells the context.
setsockopt(t, n) ==
    /\ op[t] = NoCall /\ Settled(n)
    /\ timeo' = [timeo EXCEPT ![n] = TRUE]
    /\ m_fds' = IF t = Main /\ InTable(n) THEN [m_fds EXCEPT ![n].recvTimeout = TRUE] ELSE m_fds
    /\ UNCHANGED <<fdSize, kernel, opens, user, ioctled, op>>

FdNext ==
    \E t \in FdThreads :
        \/ socket(t)
        \/ \E n \in FdNumbers :
            \/ get(t, n)
            \/ create(t, n)
            \/ close(t, n)
            \/ del(t, n)
            \/ close_f(t, n)
            \/ \E nonBlock \in BOOLEAN : fcntl(t, n, nonBlock)
            \/ \E nonBlock \in BOOLEAN : ioctl(t, n, nonBlock)
            \/ setsockopt(t, n)

FdSpec == FdInit /\ [][FdNext]_fdVars

-----------------------------------------------------------------------------
(* Properties.                                                             *)

\* The F_GETFL hook: the user's flag when there is a context, else the kernel's.
F_GETFL(n) ==
    IF InTable(n) THEN m_fds[n].userNonBlock ELSE kernel[n].nonBlock

\* A descriptor opened by a hooked thread has a context, and the context of a
\* number is the one made for the descriptor that is open under it now, also
\* when the number is reused at once by another thread (del() before close_f()).
FreshContext ==
    \A n \in FdNumbers :
        Settled(n) => /\ kernel[n].hooked => InTable(n)
                      /\ InTable(n) => m_fds[n].of = kernel[n].id

\* do_io never blocks its thread: a descriptor with a context is O_NONBLOCK in
\* the kernel whatever its user asks fcntl for.  ioctl(FIONBIO) with 0 is the
\* one call that makes it blocking.
NeverBlocks ==
    \A n \in FdNumbers :
        (Settled(n) /\ InTable(n) /\ n \notin ioctled) => kernel[n].nonBlock

\* F_GETFL tells the user what the user has set, although the kernel's flag is
\* another one (m_isUserNonBlock against m_isSysNonBlock).
UserSeesOwnFlag ==
    \A n \in FdNumbers : Settled(n) => F_GETFL(n) = user[n]

\* "There is a read timeout here" (test_tcp_server.cpp:19): when SO_RCVTIMEO has
\* been set for a descriptor, do_io knows of it.
TimeoutRecorded ==
    \A n \in FdNumbers : (Settled(n) /\ InTable(n) /\ timeo[n]) => m_fds[n].recvTimeout

\* The kernel's flag and the user's flag of a descriptor are kept apart through
\* socket(), fcntl and ioctl (hook.cpp:383-461, fd_manager.cpp:16-45).
FlagsRight == NeverBlocks /\ UserSeesOwnFlag
=============================================================================
