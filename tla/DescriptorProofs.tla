-------------------------- MODULE DescriptorProofs --------------------------
(***************************************************************************)
(* What the hooks and Socket keep of a descriptor: its context and flags   *)
(* (FdManager), and its owner, addresses and data (Socket).  The contexts  *)
(* and flags are right for any number of threads and descriptors when      *)
(* descriptors opened under the hook are closed under the hook; Sockets    *)
(* are right for any number of Sockets, fibers and descriptors.            *)
(***************************************************************************)
EXTENDS FdManager, Socket, TLAPS

-----------------------------------------------------------------------------
(* FdManager.                                                              *)

Calls == [at : {"idle", "get", "create", "del", "close_f"}, fd : FdNumbers \union {0}]
Contexts == [of : Nat, userNonBlock : BOOLEAN, recvTimeout : BOOLEAN]
Files == [id : Nat, nonBlock : BOOLEAN, hooked : BOOLEAN]

FdTypeOK ==
    /\ m_fds \in [FdNumbers -> Contexts]
    /\ fdSize \in Nat
    /\ kernel \in [FdNumbers -> Files]
    /\ opens \in Nat
    /\ user \in [FdNumbers -> BOOLEAN]
    /\ op \in [FdThreads -> Calls]
    /\ \A t \in FdThreads : op[t].at = "idle" <=> op[t].fd = 0

\* Inside a call on n the descriptor is open; there is no context before create
\* and none after del, and the user has set no flag before socket() returns.
InCall(t, n) ==
    /\ kernel[n].id # 0
    /\ op[t].at # "del" => m_fds[n] = NoContext
    /\ op[t].at \in {"get", "create"} => user[n] = FALSE

\* One thread at a time is inside a call that opens or closes n.
OneCall(n) ==
    \A t, u \in FdThreads : op[t].fd = n /\ op[u].fd = n => t = u

\* A context lies in the table and is that of the open descriptor.
OfTheOpen(n) ==
    /\ n >= fdSize \/ m_fds[n].of = 0 => m_fds[n] = NoContext
    /\ m_fds[n].of # 0 => m_fds[n].of = kernel[n].id

\* What is known of n between calls.
Between(n) ==
    /\ kernel[n].hooked => m_fds[n].of # 0
    /\ m_fds[n].of # 0 => /\ m_fds[n].userNonBlock = user[n]
                          /\ n \notin ioctled => kernel[n].nonBlock
    /\ m_fds[n].of = 0 => kernel[n].nonBlock = user[n]

Right(n) ==
    /\ OneCall(n)
    /\ \A t \in FdThreads : op[t].fd = n => InCall(t, n)
    /\ OfTheOpen(n)
    /\ Settled(n) => Between(n)

FdInv == FdTypeOK /\ \A n \in FdNumbers : Right(n)

-----------------------------------------------------------------------------

\* FdInv holds when the process starts: no descriptor, no context, no call.
LEMMA FdInitInv == FdInit => FdInv
  <1> SUFFICES ASSUME FdInit PROVE FdInv
    OBVIOUS
  <1>1. FdTypeOK
    BY FdAssumption DEF FdInit, FdTypeOK, Calls, Contexts, Files, NoContext, NotOpen, NoCall
  <1>2. ASSUME NEW n \in FdNumbers PROVE Right(n)
    <2>1. n # 0
      BY FdAssumption
    <2>2. kernel[n].id = 0 /\ m_fds[n] = NoContext /\ m_fds[n].of = 0
      BY DEF FdInit, NotOpen, NoContext
    <2>3. \A t \in FdThreads : op[t].fd = 0
      BY DEF FdInit, NoCall
    <2> QED
      BY <2>1, <2>2, <2>3 DEF Right, OneCall, OfTheOpen, Settled
  <1> QED
    BY <1>1, <1>2 DEF FdInv

\* A step of thread t that is about n, and leaves the table no smaller.
About(t, n) ==
    /\ \A k \in FdNumbers : k # n => /\ m_fds'[k] = m_fds[k]
                                     /\ kernel'[k] = kernel[k]
                                     /\ user'[k] = user[k]
                                     /\ k \in ioctled' <=> k \in ioctled
    /\ fdSize' \in Nat /\ fdSize <= fdSize'
    /\ op[t].fd \in {0, n} /\ op'[t].fd \in {0, n}
    /\ \A u \in FdThreads : u # t => op'[u] = op[u]

\* A step that touches one number leaves what is known of every other number.
LEMMA Elsewhere ==
  ASSUME FdInv, NEW t \in FdThreads, NEW n \in FdNumbers, About(t, n), FdTypeOK', Right(n)'
  PROVE  FdInv'
  <1> SUFFICES ASSUME NEW k \in FdNumbers, k # n PROVE Right(k)'
    BY DEF FdInv
  <1>1. k # 0 /\ k \in Nat
    BY FdAssumption
  <1>2. /\ m_fds'[k] = m_fds[k] /\ kernel'[k] = kernel[k] /\ user'[k] = user[k]
        /\ k \in ioctled' <=> k \in ioctled
    BY DEF About
  <1>3. \A u \in FdThreads : /\ op'[u].fd = k <=> op[u].fd = k
                             /\ op[u].fd = k => op'[u] = op[u]
    BY <1>1 DEF About
  <1>4. Right(k)
    BY DEF FdInv
  <1>5. OneCall(k)' /\ \A u \in FdThreads : op'[u].fd = k => InCall(u, k)'
    BY <1>2, <1>3, <1>4 DEF Right, OneCall, InCall
  <1>6. OfTheOpen(k)'
    <2>1. fdSize \in Nat /\ fdSize' \in Nat /\ fdSize <= fdSize'
      BY DEF FdInv, FdTypeOK, About
    <2>2. k >= fdSize' => k >= fdSize
      BY <1>1, <2>1
    <2> QED
      BY <1>2, <1>4, <2>2 DEF Right, OfTheOpen
  <1>7. Settled(k)' => Between(k)'
    BY <1>2, <1>3, <1>4 DEF Right, Settled, Between
  <1> QED
    BY <1>5, <1>6, <1>7 DEF Right

\* n has a context in the table if and only if there is one.
LEMMA TableHolds ==
  ASSUME FdInv, NEW n \in FdNumbers
  PROVE  InTable(n) <=> m_fds[n].of # 0
  <1>1. n \in Nat /\ fdSize \in Nat /\ OfTheOpen(n)
    BY FdAssumption DEF FdInv, FdTypeOK, Right
  <1>2. n >= fdSize => m_fds[n].of = 0
    BY <1>1 DEF OfTheOpen, NoContext
  <1> QED
    BY <1>1, <1>2 DEF InTable

\* A thread that is not inside a call.
LEMMA NotInCall ==
  ASSUME FdInv, NEW t \in FdThreads
  PROVE  op[t] = NoCall <=> op[t].fd = 0
  <1>1. op[t] \in Calls /\ (op[t].at = "idle" <=> op[t].fd = 0)
    BY DEF FdInv, FdTypeOK
  <1> QED
    BY <1>1 DEF Calls, NoCall

-----------------------------------------------------------------------------

\* The kernel gives socket() or accept() a number that nobody has.
LEMMA SocketKeeps ==
  ASSUME FdInv, NEW t \in FdThreads, socket(t)
  PROVE  FdInv'
  <1>1. PICK n \in FdNumbers :
        /\ kernel[n].id = 0
        /\ kernel' = [kernel EXCEPT ![n] = [id |-> opens + 1, nonBlock |-> FALSE,
                                            hooked |-> t # Main]]
        /\ user' = [user EXCEPT ![n] = FALSE]
        /\ ioctled' = ioctled \ {n}
        /\ op' = IF t = Main THEN op ELSE [op EXCEPT ![t] = [at |-> "get", fd |-> n]]
    BY DEF socket
  <1>2. op[t] = NoCall /\ opens' = opens + 1 /\ m_fds' = m_fds /\ fdSize' = fdSize
    BY DEF socket
  <1>3. FdTypeOK /\ Right(n) /\ n # 0
    BY FdAssumption DEF FdInv
  <1>4. \A u \in FdThreads : op[u].fd # n
    BY <1>1, <1>3 DEF Right, InCall
  <1>5. m_fds[n].of = 0 /\ m_fds[n] = NoContext
    BY <1>1, <1>3 DEF Right, OfTheOpen
  <1>6. FdTypeOK'
    <2>1. opens \in Nat /\ kernel' \in [FdNumbers -> Files]
      BY <1>1, <1>3 DEF FdTypeOK, Files
    <2>2. user' \in [FdNumbers -> BOOLEAN]
      BY <1>1, <1>3 DEF FdTypeOK
    <2>3. op' \in [FdThreads -> Calls] /\ \A u \in FdThreads : op'[u].at = "idle" <=> op'[u].fd = 0
      BY <1>1, <1>3 DEF FdTypeOK, Calls
    <2> QED
      BY <1>2, <1>3, <2>1, <2>2, <2>3 DEF FdTypeOK
  <1>7. About(t, n)
    <2>1. op[t].fd \in {0, n} /\ op'[t].fd \in {0, n} /\ \A u \in FdThreads : u # t => op'[u] = op[u]
      BY <1>1, <1>2, <1>3 DEF NoCall, FdTypeOK
    <2> QED
      BY <1>1, <1>2, <1>3, <2>1 DEF About, FdTypeOK
  <1>8. Right(n)'
    <2>1. /\ kernel'[n] = [id |-> opens + 1, nonBlock |-> FALSE, hooked |-> t # Main]
          /\ opens + 1 # 0 /\ user'[n] = FALSE
      BY <1>1, <1>3 DEF FdTypeOK
    <2>2. \A u \in FdThreads : op'[u].fd = n => u = t /\ t # Main /\ op'[u].at = "get"
      BY <1>1, <1>3, <1>4 DEF FdTypeOK
    <2>3. t # Main => op'[t].fd = n
      BY <1>1, <1>3 DEF FdTypeOK
    <2>4. OneCall(n)' /\ \A u \in FdThreads : op'[u].fd = n => InCall(u, n)'
      BY <1>2, <1>5, <2>1, <2>2 DEF OneCall, InCall
    <2>5. OfTheOpen(n)'
      BY <1>2, <1>5 DEF OfTheOpen
    <2>6. Settled(n)' => Between(n)'
      <3>1. (kernel'[n].hooked => t # Main) /\ kernel'[n].nonBlock = FALSE
        <4>1. CASE t = Main
          <5>1. (t # Main) = FALSE
            BY <4>1
          <5>2. kernel'[n] = [id |-> opens + 1, nonBlock |-> FALSE, hooked |-> FALSE]
            BY <2>1, <5>1, Zenon
          <5> QED
            BY <5>2
        <4>2. CASE t # Main
          BY <2>1, <4>2
        <4> QED
          BY <4>1, <4>2
      <3>2. m_fds'[n].of = 0
        BY <1>2, <1>5
      <3> QED
        BY <2>1, <2>3, <3>1, <3>2 DEF Settled, Between
    <2> QED
      BY <2>4, <2>5, <2>6 DEF Right
  <1> QED
    BY <1>3, <1>6, <1>7, <1>8, Elsewhere

\* Inside a call, Step moves on.
LEMMA StepMoves ==
  ASSUME FdInv, NEW t \in FdThreads, NEW n \in FdNumbers,
         NEW from \in {"get", "create", "del", "close_f"},
         NEW to \in {"idle", "create", "close_f"}, Step(t, n, from, to)
  PROVE  /\ op[t].fd = n /\ op[t].at = from /\ InCall(t, n)
         /\ op' \in [FdThreads -> Calls]
         /\ \A u \in FdThreads : op'[u].at = "idle" <=> op'[u].fd = 0
         /\ op'[t].fd = IF to = "idle" THEN 0 ELSE n
         /\ op'[t].at = to
         /\ \A u \in FdThreads : u # t => op'[u] = op[u] /\ op'[u].fd # n
  <1>1. op \in [FdThreads -> Calls] /\ n # 0 /\ Right(n)
    BY FdAssumption DEF FdInv, FdTypeOK
  <1>2. op[t] = [at |-> from, fd |-> n]
    BY DEF Step
  <1>3. op' = [op EXCEPT ![t] = IF to = "idle" THEN NoCall ELSE [at |-> to, fd |-> n]]
    BY DEF Step
  <1>4. op[t].fd = n /\ op[t].at = from
    BY <1>2
  <1>5. InCall(t, n) /\ \A u \in FdThreads : u # t => op[u].fd # n
    BY <1>1, <1>4 DEF Right, OneCall
  <1>6. /\ op'[t] = IF to = "idle" THEN NoCall ELSE [at |-> to, fd |-> n]
        /\ \A u \in FdThreads : u # t => op'[u] = op[u]
    BY <1>1, <1>3
  <1>7. op' \in [FdThreads -> Calls]
    BY <1>1, <1>3 DEF Calls, NoCall
  <1>8. op'[t].fd = (IF to = "idle" THEN 0 ELSE n) /\ op'[t].at = to
    BY <1>6 DEF NoCall
  <1>9. \A u \in FdThreads : op'[u].at = "idle" <=> op'[u].fd = 0
    BY <1>1, <1>6, <1>8 DEF FdInv, FdTypeOK
  <1> QED
    BY <1>4, <1>5, <1>6, <1>7, <1>8, <1>9

\* get() under the read lock finds no context (fd_manager.cpp).
LEMMA GetKeeps ==
  ASSUME FdInv, NEW t \in FdThreads, NEW n \in FdNumbers, get(t, n)
  PROVE  FdInv'
  <1>1. /\ Step(t, n, "get", IF InTable(n) THEN "idle" ELSE "create")
        /\ UNCHANGED <<m_fds, fdSize, kernel, opens, user, timeo, ioctled>>
    BY DEF get
  <1>2. op[t].fd = n /\ op[t].at = "get" /\ InCall(t, n)
    BY <1>1, StepMoves
  <1>3. ~InTable(n)
    BY <1>2 DEF InCall, InTable, NoContext
  <1>4. Step(t, n, "get", "create")
    BY <1>1, <1>3
  <1>5. /\ op' \in [FdThreads -> Calls]
        /\ \A u \in FdThreads : op'[u].at = "idle" <=> op'[u].fd = 0
        /\ op'[t].fd = n /\ op'[t].at = "create"
        /\ \A u \in FdThreads : u # t => op'[u] = op[u] /\ op'[u].fd # n
    BY <1>4, StepMoves
  <1>6. FdTypeOK' /\ About(t, n)
    BY <1>1, <1>2, <1>5 DEF FdInv, FdTypeOK, About
  <1>7. Right(n)'
    <2>1. Right(n)
      BY DEF FdInv
    <2>2. OneCall(n)' /\ \A u \in FdThreads : op'[u].fd = n => InCall(u, n)'
      BY <1>1, <1>2, <1>5 DEF OneCall, InCall
    <2>3. OfTheOpen(n)' /\ ~Settled(n)'
      BY <1>1, <1>5, <2>1 DEF Right, OfTheOpen, Settled
    <2> QED
      BY <2>2, <2>3 DEF Right
  <1> QED
    BY <1>6, <1>7, Elsewhere

\* get() under the write lock grows the table and makes the context.
LEMMA CreateKeeps ==
  ASSUME FdInv, NEW t \in FdThreads, NEW n \in FdNumbers, create(t, n)
  PROVE  FdInv'
  <1>1. /\ Step(t, n, "create", "idle")
        /\ fdSize' = Grown(n)
        /\ m_fds' = [m_fds EXCEPT ![n] = [NoContext EXCEPT !.of = kernel[n].id]]
        /\ kernel' = [kernel EXCEPT ![n].nonBlock = TRUE]
        /\ UNCHANGED <<opens, user, timeo, ioctled>>
    BY DEF create
  <1>2. /\ op[t].fd = n /\ op[t].at = "create" /\ InCall(t, n)
        /\ op' \in [FdThreads -> Calls]
        /\ \A u \in FdThreads : op'[u].at = "idle" <=> op'[u].fd = 0
        /\ op'[t].fd = 0
        /\ \A u \in FdThreads : u # t => op'[u] = op[u] /\ op'[u].fd # n
    BY <1>1, StepMoves
  <1>3. /\ m_fds \in [FdNumbers -> Contexts] /\ fdSize \in Nat /\ kernel \in [FdNumbers -> Files]
        /\ n \in Nat /\ n > 0
    BY FdAssumption DEF FdInv, FdTypeOK
  <1>4. fdSize' \in Nat /\ fdSize <= fdSize' /\ ~(n >= fdSize')
    BY <1>1, <1>3 DEF Grown
  <1>5. /\ kernel[n].id \in Nat \ {0}
        /\ m_fds'[n] = [NoContext EXCEPT !.of = kernel[n].id]
        /\ \A k \in FdNumbers : k # n => m_fds'[k] = m_fds[k]
    BY <1>1, <1>2, <1>3 DEF InCall, Files
  <1>6. /\ m_fds'[n].of = kernel[n].id /\ m_fds'[n].userNonBlock = FALSE /\ m_fds'[n] \in Contexts
    BY <1>5 DEF NoContext, Contexts
  <1>7. /\ kernel'[n].id = kernel[n].id /\ kernel'[n].nonBlock = TRUE /\ kernel'[n] \in Files
        /\ \A k \in FdNumbers : k # n => kernel'[k] = kernel[k]
    BY <1>1, <1>3 DEF Files
  <1>8. m_fds' \in [FdNumbers -> Contexts] /\ kernel' \in [FdNumbers -> Files]
    BY <1>1, <1>3, <1>5, <1>6, <1>7
  <1>9. FdTypeOK'
    BY <1>1, <1>2, <1>4, <1>8 DEF FdInv, FdTypeOK
  <1>10. About(t, n)
    BY <1>1, <1>2, <1>4, <1>5, <1>7 DEF About
  <1>11. Right(n)'
    <2>1. \A u \in FdThreads : op'[u].fd # n
      BY <1>2, <1>3
    <2>2. OfTheOpen(n)'
      BY <1>4, <1>5, <1>6, <1>7 DEF OfTheOpen
    <2>3. user'[n] = FALSE
      BY <1>1, <1>2 DEF InCall
    <2>4. Between(n)'
      BY <1>5, <1>6, <1>7, <2>3 DEF Between
    <2> QED
      BY <2>1, <2>2, <2>4 DEF Right, OneCall
  <1> QED
    BY <1>9, <1>10, <1>11, Elsewhere

\* The two ways close() begins: del() of a context, or close_f at once when there
\* is none.
LEMMA CloseKeeps ==
  ASSUME ~MainCloses, FdInv, NEW t \in FdThreads, NEW n \in FdNumbers, close(t, n)
  PROVE  FdInv'
  <1>1. /\ op[t] = NoCall /\ Settled(n)
        /\ t = Main => ~InTable(n)
        /\ op' = [op EXCEPT ![t] = [at |-> IF t # Main /\ InTable(n) THEN "del" ELSE "close_f",
                                    fd |-> n]]
        /\ UNCHANGED <<m_fds, fdSize, kernel, opens, user, timeo, ioctled>>
    BY DEF close
  <1>2. PICK at \in {"del", "close_f"} : /\ op' = [op EXCEPT ![t] = [at |-> at, fd |-> n]]
                                         /\ at = "close_f" => ~InTable(n)
    BY <1>1
  <1>3. op \in [FdThreads -> Calls] /\ Right(n) /\ n # 0
    BY FdAssumption DEF FdInv, FdTypeOK
  <1>4. /\ op' \in [FdThreads -> Calls]
        /\ op'[t].at = at /\ op'[t].fd = n
        /\ \A u \in FdThreads : u # t => op'[u] = op[u]
    BY <1>2, <1>3 DEF Calls
  <1>5. FdTypeOK'
    BY <1>1, <1>3, <1>4 DEF FdInv, FdTypeOK
  <1>6. About(t, n)
    BY <1>1, <1>4 DEF FdInv, FdTypeOK, About, NoCall
  <1>7. Right(n)'
    <2>1. \A u \in FdThreads : op'[u].fd = n => u = t
      BY <1>1, <1>4 DEF Settled
    <2>2. at = "close_f" => m_fds[n] = NoContext
      BY <1>2, <1>3, TableHolds DEF Right, OfTheOpen
    <2>3. InCall(t, n)'
      BY <1>1, <1>4, <2>2 DEF InCall, Settled
    <2>4. OfTheOpen(n)' /\ ~Settled(n)'
      BY <1>1, <1>3, <1>4 DEF Right, OfTheOpen, Settled
    <2> QED
      BY <2>1, <2>3, <2>4 DEF Right, OneCall
  <1> QED
    BY <1>5, <1>6, <1>7, Elsewhere

\* close() takes the context out of the table before it closes.
LEMMA DelKeeps ==
  ASSUME FdInv, NEW t \in FdThreads, NEW n \in FdNumbers, del(t, n)
  PROVE  FdInv'
  <1>1. /\ Step(t, n, "del", "close_f")
        /\ m_fds' = [m_fds EXCEPT ![n] = IF n >= fdSize THEN @ ELSE NoContext]
        /\ UNCHANGED <<fdSize, kernel, opens, user, timeo, ioctled>>
    BY DEF del
  <1>2. /\ op[t].fd = n /\ op[t].at = "del" /\ InCall(t, n)
        /\ op' \in [FdThreads -> Calls]
        /\ \A u \in FdThreads : op'[u].at = "idle" <=> op'[u].fd = 0
        /\ op'[t].fd = n /\ op'[t].at = "close_f"
        /\ \A u \in FdThreads : u # t => op'[u] = op[u] /\ op'[u].fd # n
    BY <1>1, StepMoves
  <1>3. m_fds \in [FdNumbers -> Contexts] /\ NoContext \in Contexts /\ Right(n)
    BY DEF FdInv, FdTypeOK, NoContext, Contexts
  <1>4. m_fds'[n] = NoContext /\ \A k \in FdNumbers : k # n => m_fds'[k] = m_fds[k]
    BY <1>1, <1>3 DEF Right, OfTheOpen
  <1>5. FdTypeOK'
    BY <1>1, <1>2, <1>3 DEF FdInv, FdTypeOK
  <1>6. About(t, n)
    BY <1>1, <1>2, <1>4 DEF FdInv, FdTypeOK, About
  <1>7. Right(n)'
    <2>1. InCall(t, n)'
      BY <1>1, <1>2, <1>4 DEF InCall
    <2>2. OfTheOpen(n)' /\ ~Settled(n)'
      BY <1>2, <1>4 DEF OfTheOpen, Settled, NoContext
    <2> QED
      BY <1>2, <2>1, <2>2 DEF Right, OneCall
  <1> QED
    BY <1>5, <1>6, <1>7, Elsewhere

\* close_f gives the number back to the kernel.
LEMMA CloseFKeeps ==
  ASSUME FdInv, NEW t \in FdThreads, NEW n \in FdNumbers, close_f(t, n)
  PROVE  FdInv'
  <1>1. /\ Step(t, n, "close_f", "idle")
        /\ kernel' = [kernel EXCEPT ![n] = NotOpen]
        /\ UNCHANGED <<m_fds, fdSize, opens, user, timeo, ioctled>>
    BY DEF close_f
  <1>2. /\ op[t].fd = n /\ op[t].at = "close_f" /\ InCall(t, n)
        /\ op' \in [FdThreads -> Calls]
        /\ \A u \in FdThreads : op'[u].at = "idle" <=> op'[u].fd = 0
        /\ op'[t].fd = 0
        /\ \A u \in FdThreads : u # t => op'[u] = op[u] /\ op'[u].fd # n
    BY <1>1, StepMoves
  <1>3. kernel \in [FdNumbers -> Files] /\ NotOpen \in Files /\ n # 0
    BY FdAssumption DEF FdInv, FdTypeOK, NotOpen, Files
  <1>4. kernel'[n] = NotOpen /\ \A k \in FdNumbers : k # n => kernel'[k] = kernel[k]
    BY <1>1, <1>3
  <1>5. FdTypeOK'
    BY <1>1, <1>2, <1>3 DEF FdInv, FdTypeOK
  <1>6. About(t, n)
    BY <1>1, <1>2, <1>4 DEF FdInv, FdTypeOK, About
  <1>7. Right(n)'
    <2>1. \A u \in FdThreads : op'[u].fd # n
      BY <1>2, <1>3
    <2>2. OfTheOpen(n)'
      BY <1>1, <1>2 DEF OfTheOpen, InCall, NoContext
    <2>3. ~Settled(n)'
      BY <1>4 DEF Settled, NotOpen
    <2> QED
      BY <2>1, <2>2, <2>3 DEF Right, OneCall
  <1> QED
    BY <1>5, <1>6, <1>7, Elsewhere

\* fcntl, ioctl and setsockopt: the thread is in no call, n is settled, and only
\* the flags of n, of its context and of its user change.
LEMMA FlagsKeep ==
  ASSUME FdInv, NEW t \in FdThreads, NEW n \in FdNumbers, op[t] = NoCall, Settled(n),
         NEW c \in Contexts, NEW s \in Files,
         c.of = m_fds[n].of, m_fds[n].of = 0 => c = m_fds[n],
         s.id = kernel[n].id, s.hooked = kernel[n].hooked,
         m_fds' = [m_fds EXCEPT ![n] = c],
         kernel' = [kernel EXCEPT ![n] = s],
         user' \in [FdNumbers -> BOOLEAN],
         \A k \in FdNumbers : k # n => user'[k] = user[k] /\ (k \in ioctled' <=> k \in ioctled),
         Between(n)',
         UNCHANGED <<fdSize, opens, op>>
  PROVE  FdInv'
  <1>1. /\ m_fds \in [FdNumbers -> Contexts] /\ kernel \in [FdNumbers -> Files] /\ Right(n)
        /\ fdSize \in Nat
    BY DEF FdInv, FdTypeOK
  <1>2. /\ m_fds'[n] = c /\ kernel'[n] = s
        /\ \A k \in FdNumbers : k # n => m_fds'[k] = m_fds[k] /\ kernel'[k] = kernel[k]
    BY <1>1
  <1>3. FdTypeOK'
    BY <1>1 DEF FdInv, FdTypeOK
  <1>4. About(t, n)
    BY <1>1, <1>2 DEF About, NoCall
  <1>5. Right(n)'
    <2>1. n >= fdSize => m_fds[n].of = 0
      BY <1>1 DEF Right, OfTheOpen, NoContext
    <2>2. OfTheOpen(n)'
      BY <1>1, <1>2, <2>1 DEF Right, OfTheOpen
    <2>3. \A u \in FdThreads : op'[u].fd # n
      BY DEF Settled
    <2> QED
      BY <2>2, <2>3 DEF Right, OneCall
  <1> QED
    BY <1>3, <1>4, <1>5, Elsewhere

\* What fcntl and ioctl have in common: flag is what the kernel is given.
LEMMA SetsFlag ==
  ASSUME FdInv, NEW t \in FdThreads, NEW n \in FdNumbers, NEW nonBlock \in BOOLEAN,
         NEW flag \in BOOLEAN, op[t] = NoCall, Settled(n),
         m_fds' = IF InTable(n) THEN [m_fds EXCEPT ![n].userNonBlock = nonBlock] ELSE m_fds,
         kernel' = [kernel EXCEPT ![n].nonBlock = flag],
         user' = [user EXCEPT ![n] = nonBlock],
         \A k \in FdNumbers : k # n => (k \in ioctled' <=> k \in ioctled),
         InTable(n) => n \in ioctled' \/ flag,
         ~InTable(n) => flag = nonBlock,
         UNCHANGED <<fdSize, opens, op>>
  PROVE  FdInv'
  <1> DEFINE c == IF InTable(n) THEN [m_fds[n] EXCEPT !.userNonBlock = nonBlock] ELSE m_fds[n]
             s == [kernel[n] EXCEPT !.nonBlock = flag]
  <1>1. /\ m_fds \in [FdNumbers -> Contexts] /\ kernel \in [FdNumbers -> Files] /\ Right(n)
        /\ user \in [FdNumbers -> BOOLEAN]
        /\ m_fds[n] \in Contexts /\ kernel[n] \in Files
    BY DEF FdInv, FdTypeOK
  <1>2. /\ c \in Contexts /\ c.of = m_fds[n].of
        /\ InTable(n) => c.userNonBlock = nonBlock
        /\ ~InTable(n) => c = m_fds[n]
    BY <1>1 DEF Contexts
  <1>3. s \in Files /\ s.id = kernel[n].id /\ s.hooked = kernel[n].hooked /\ s.nonBlock = flag
    BY <1>1 DEF Files
  <1>4. m_fds' = [m_fds EXCEPT ![n] = c] /\ kernel' = [kernel EXCEPT ![n] = s]
    BY <1>1
  <1> HIDE DEF c, s
  <1>5. InTable(n) <=> m_fds[n].of # 0
    BY TableHolds
  <1>6. user' \in [FdNumbers -> BOOLEAN] /\ user'[n] = nonBlock
        /\ \A k \in FdNumbers : k # n => user'[k] = user[k]
    BY <1>1
  <1>7. Between(n)'
    <2>1. m_fds'[n] = c /\ kernel'[n] = s
      BY <1>1, <1>4
    <2>2. Between(n)
      BY <1>1 DEF Right
    <2> QED
      BY <1>2, <1>3, <1>5, <1>6, <2>1, <2>2 DEF Between
  <1> QED
    BY <1>2, <1>3, <1>4, <1>5, <1>6, <1>7, FlagsKeep

\* fcntl(F_SETFL) and ioctl(FIONBIO).
LEMMA FcntlKeeps ==
  ASSUME FdInv, NEW t \in FdThreads, NEW n \in FdNumbers, NEW nonBlock \in BOOLEAN,
         fcntl(t, n, nonBlock) \/ ioctl(t, n, nonBlock)
  PROVE  FdInv'
  <1>1. CASE fcntl(t, n, nonBlock)
    <2>1. SetFlag(n, nonBlock) \in BOOLEAN /\ (InTable(n) => SetFlag(n, nonBlock))
      BY DEF SetFlag, InTable
    <2>2. ~InTable(n) => SetFlag(n, nonBlock) = nonBlock
      BY DEF SetFlag
    <2>3. \A k \in FdNumbers : k # n => (k \in ioctled' <=> k \in ioctled)
      BY <1>1 DEF fcntl
    <2> QED
      BY <1>1, <2>1, <2>2, <2>3, SetsFlag DEF fcntl
  <1>2. CASE ioctl(t, n, nonBlock)
    <2>1. /\ \A k \in FdNumbers : k # n => (k \in ioctled' <=> k \in ioctled)
          /\ n \in ioctled' \/ nonBlock
      BY <1>2 DEF ioctl
    <2> QED
      BY <1>2, <2>1, SetsFlag DEF ioctl
  <1> QED
    BY <1>1, <1>2

\* setsockopt notes a timeout and changes no flag.
LEMMA SetsockoptKeeps ==
  ASSUME FdInv, NEW t \in FdThreads, NEW n \in FdNumbers, setsockopt(t, n)
  PROVE  FdInv'
  <1> DEFINE c == IF t = Main /\ InTable(n) THEN [m_fds[n] EXCEPT !.recvTimeout = TRUE]
                  ELSE m_fds[n]
             s == kernel[n]
  <1>1. /\ op[t] = NoCall /\ Settled(n)
        /\ m_fds' = IF t = Main /\ InTable(n) THEN [m_fds EXCEPT ![n].recvTimeout = TRUE] ELSE m_fds
        /\ UNCHANGED <<fdSize, kernel, opens, user, ioctled, op>>
    BY DEF setsockopt
  <1>2. /\ m_fds \in [FdNumbers -> Contexts] /\ kernel \in [FdNumbers -> Files] /\ Right(n)
        /\ user \in [FdNumbers -> BOOLEAN]
        /\ m_fds[n] \in Contexts /\ kernel[n] \in Files
    BY DEF FdInv, FdTypeOK
  <1>3. /\ c \in Contexts /\ c.of = m_fds[n].of /\ c.userNonBlock = m_fds[n].userNonBlock
        /\ ~InTable(n) => c = m_fds[n]
    BY <1>2 DEF Contexts
  <1>4. m_fds' = [m_fds EXCEPT ![n] = c] /\ kernel' = [kernel EXCEPT ![n] = s] /\ s \in Files
    BY <1>1, <1>2
  <1>5. m_fds'[n] = c /\ kernel'[n] = kernel[n]
    BY <1>2, <1>4
  <1>6. s.id = kernel[n].id /\ s.hooked = kernel[n].hooked
    OBVIOUS
  <1> HIDE DEF c, s
  <1>7. InTable(n) <=> m_fds[n].of # 0
    BY TableHolds
  <1>8. Between(n)'
    <2>1. Between(n)
      BY <1>1, <1>2 DEF Right
    <2> QED
      BY <1>1, <1>3, <1>5, <2>1 DEF Between
  <1> QED
    BY <1>1, <1>2, <1>3, <1>4, <1>6, <1>7, <1>8, FlagsKeep

-----------------------------------------------------------------------------

\* FdInv is inductive as long as Main closes no descriptor that has a context: it
\* holds through get under two locks, del and close_f (fd_manager.cpp, hook.cpp).
THEOREM ContextsInductive ==
  ASSUME ~MainCloses
  PROVE  FdSpec => []FdInv
  <1>1. FdInv /\ [FdNext]_fdVars => FdInv'
    <2> SUFFICES ASSUME FdInv, [FdNext]_fdVars PROVE FdInv'
      OBVIOUS
    <2>1. CASE UNCHANGED fdVars
      BY <2>1 DEF fdVars, FdInv, FdTypeOK, Right, OneCall, InCall, OfTheOpen, Settled, Between
    <2>2. CASE FdNext
      BY <2>2, SocketKeeps, GetKeeps, CreateKeeps, CloseKeeps, DelKeeps, CloseFKeeps, FcntlKeeps,
         SetsockoptKeeps DEF FdNext
    <2> QED
      BY <2>1, <2>2
  <1> QED
    BY <1>1, FdInitInv, PTL DEF FdSpec

\* FreshContext holds: FdManager never hands out the context of a descriptor
\* that was closed before, however threads reuse its number, and a descriptor
\* opened under the hook has one.
THEOREM ContextIsFresh ==
  ASSUME ~MainCloses
  PROVE  FdSpec => []FreshContext
  <1>1. FdInv => FreshContext
    BY TableHolds DEF FdInv, Right, Between, OfTheOpen, FreshContext
  <1> QED
    BY <1>1, ContextsInductive, PTL

\* FlagsRight holds: fcntl and ioctl keep the user's O_NONBLOCK and the
\* kernel's apart, for every order of calls.
THEOREM FlagsAreRight ==
  ASSUME ~MainCloses
  PROVE  FdSpec => []FlagsRight
  <1>1. FdInv => FlagsRight
    <2> SUFFICES ASSUME FdInv, NEW n \in FdNumbers, Settled(n)
                 PROVE  /\ InTable(n) /\ n \notin ioctled => kernel[n].nonBlock
                        /\ F_GETFL(n) = user[n]
      BY DEF FlagsRight, NeverBlocks, UserSeesOwnFlag
    <2>1. Between(n)
      BY DEF FdInv, Right
    <2> QED
      BY <2>1, TableHolds DEF Between, F_GETFL
  <1> QED
    BY <1>1, ContextsInductive, PTL

-----------------------------------------------------------------------------
(* Socket.                                                                 *)

Locals == Nat \cup {OwnPort}
Peers == Remotes \cup {NoPeer}
SockRecord ==
    [m_sock : SockFds \cup {-1}, m_isConnected : BOOLEAN, m_local : Locals, m_remote : Peers,
     odd : BOOLEAN]
KernRecord ==
    [st : {"closed", "new", "connecting", "connected"}, local : Locals, peer : Peers, id : Nat]
PendRecord ==
    [op : {"none", "connect", "io"}, s : Socks \cup {0}, fd : SockFds \cup {-1}, id : Nat]

SockTypeOK ==
    /\ sock \in [Socks -> SockRecord]
    /\ kern \in [SockFds -> KernRecord]
    /\ pend \in [SockFibers -> PendRecord]
    /\ conns \in Nat

\* Every open descriptor is the m_sock of some Socket, no two Sockets have the
\* same one, and the one that a Socket has is open.
Owned ==
    /\ \A n \in SockFds : kern[n].st # "closed" => \E s \in Socks : sock[s].m_sock = n
    /\ \A s \in Socks : sock[s].m_sock # -1 => kern[sock[s].m_sock].st # "closed"
    /\ \A s, u \in Socks : sock[s].m_sock = sock[u].m_sock /\ sock[s].m_sock # -1 => s = u

\* The same if Socket s had the descriptor n and the kernel the descriptors k.
OwnedWith(s, n, k) ==
    /\ \A i \in SockFds : k[i].st # "closed" => i = n \/ \E u \in Socks \ {s} : sock[u].m_sock = i
    /\ n # -1 => k[n].st # "closed"
    /\ \A u \in Socks \ {s} : sock[u].m_sock # -1 =>
                                k[sock[u].m_sock].st # "closed" /\ sock[u].m_sock # n

\* A Socket x of one fiber that says it is connected has a descriptor that was
\* used to connect, and the addresses of that.
AddrRight(s, x, k) ==
    ~Shared(s) /\ x.m_isConnected =>
        /\ x.m_sock # -1 /\ k[x.m_sock].st # "new"
        /\ ~x.odd => /\ x.m_local = k[x.m_sock].local /\ x.m_remote = k[x.m_sock].peer
                     /\ x.m_remote.family = AF_INET

\* A call p on a Socket x of one fiber is about the descriptor that x has.  One
\* that connects finds no local address and the right remote address in x.
CallRight(s, x, k, p) ==
    ~Shared(s) =>
        /\ x.m_sock = p.fd
        /\ p.op = "io" => k[p.fd].id = p.id
        /\ p.op = "connect" =>
             /\ k[p.fd].st # "new"
             /\ ~x.odd => /\ x.m_local = 0 /\ x.m_remote = k[p.fd].peer
                          /\ x.m_remote.family = AF_INET

CallOf(f, p, sk, k) ==
    p.op # "none" =>
        p.s \in Socks /\ p.fd \in SockFds /\ f \in UsersOf[p.s] /\ CallRight(p.s, sk[p.s], k, p)

\* Of the constants: a Socket that is not shared has one fiber at most, and of
\* free descriptors one is the lowest.
Lone == \A s \in Socks : ~Shared(s) => \A f, g \in UsersOf[s] : f = g
Lowest ==
    \A F \in SUBSET SockFds : F # {} => (CHOOSE n \in F : \A i \in F : n <= i) \in F

SockInv ==
    /\ Lone /\ Lowest
    /\ SockTypeOK
    /\ Owned
    /\ \A s \in Socks : AddrRight(s, sock[s], kern)
    /\ \A f \in SockFibers : CallOf(f, pend[f], sock, kern)
    /\ OwnDataOnly

\* What is left of a descriptor that others may wait for.
SameConn(a, b) ==
    a.local = b.local /\ a.peer = b.peer /\ a.id = b.id /\ (a.st # "new" => b.st # "new")

LEMMA FdsPositive == -1 \notin SockFds
BY SockAssumption

\* A fiber g works on its Socket s: what has to be shown of s and of g.
LEMMA StepKeeps ==
    ASSUME SockInv, NEW g \in SockFibers, NEW s \in Socks, g \in UsersOf[s],
           NEW x \in SockRecord, NEW k \in [SockFds -> KernRecord], NEW p \in PendRecord,
           sock' = [sock EXCEPT ![s] = x], kern' = k, pend' = [pend EXCEPT ![g] = p],
           conns' \in Nat, crossed' = crossed,
           \A u \in Socks \ {s} : sock[u].m_sock # -1 =>
               SameConn(kern[sock[u].m_sock], k[sock[u].m_sock]),
           OwnedWith(s, x.m_sock, k), AddrRight(s, x, k),
           p.op # "none" => p.s = s /\ p.fd \in SockFds /\ CallRight(s, x, k, p)
    PROVE  SockInv'
<1>1. /\ sock' \in [Socks -> SockRecord] /\ sock'[s] = x
      /\ \A u \in Socks \ {s} : sock'[u] = sock[u]
  BY DEF SockInv, SockTypeOK
<1>2. /\ pend' \in [SockFibers -> PendRecord] /\ pend'[g] = p
      /\ \A h \in SockFibers \ {g} : pend'[h] = pend[h]
  BY DEF SockInv, SockTypeOK
<1>3. SockTypeOK'
  BY <1>1, <1>2 DEF SockTypeOK
<1>7. Owned'
  <2>1. \A u \in Socks : sock'[u].m_sock = IF u = s THEN x.m_sock ELSE sock[u].m_sock
    BY <1>1
  <2>2. \A u, v \in Socks : sock[u].m_sock = sock[v].m_sock /\ sock[u].m_sock # -1 => u = v
    BY DEF SockInv, Owned
  <2> QED
    BY <2>1, <2>2 DEF Owned, OwnedWith
<1>4. ASSUME NEW u \in Socks PROVE AddrRight(u, sock'[u], k)
  <2>1. CASE u = s
    BY <1>1, <2>1
  <2>2. CASE u # s
    <3>1. AddrRight(u, sock[u], kern) /\ sock'[u] = sock[u]
      BY <1>1, <2>2 DEF SockInv
    <3>2. sock[u].m_sock # -1 => SameConn(kern[sock[u].m_sock], k[sock[u].m_sock])
      BY <2>2
    <3> QED
      BY <3>1, <3>2 DEF AddrRight, SameConn
  <2> QED
    BY <2>1, <2>2
<1>5. ASSUME NEW h \in SockFibers PROVE CallOf(h, pend'[h], sock', k)
  <2>1. CASE h = g
    BY <1>1, <1>2, <2>1 DEF CallOf
  <2>2. CASE h # g
    <3>1. CallOf(h, pend[h], sock, kern) /\ pend'[h] = pend[h]
      BY <1>2, <2>2 DEF SockInv
    <3> SUFFICES ASSUME pend[h].op # "none"
                 PROVE  CallRight(pend[h].s, sock'[pend[h].s], k, pend[h])
      BY <3>1 DEF CallOf
    <3> DEFINE u == pend[h].s
    <3>2. u \in Socks /\ pend[h].fd \in SockFds /\ h \in UsersOf[u] /\ CallRight(u, sock[u], kern, pend[h])
      BY <3>1 DEF CallOf
    <3> HIDE DEF u
    <3>3. CASE Shared(u)
      BY <3>3 DEF CallRight, u
    <3>4. CASE ~Shared(u)
      <4>1. u # s
        BY <2>2, <3>2, <3>4 DEF SockInv, Lone
      <4>2. sock'[u] = sock[u] /\ sock[u].m_sock = pend[h].fd /\ sock[u].m_sock # -1
        BY <1>1, <3>2, <3>4, <4>1, FdsPositive DEF CallRight
      <4>3. SameConn(kern[pend[h].fd], k[pend[h].fd])
        BY <3>2, <4>1, <4>2
      <4>4. CallRight(u, sock[u], k, pend[h])
        BY <3>2, <4>3 DEF CallRight, SameConn
      <4> QED
        BY <4>2, <4>4 DEF u
    <3> QED
      BY <3>3, <3>4
  <2> QED
    BY <2>1, <2>2
<1>6. OwnDataOnly'
  BY DEF SockInv, OwnDataOnly
<1>8. Lone' /\ Lowest'
  BY DEF SockInv, Lone, Lowest, Shared
<1> QED
  BY <1>3, <1>4, <1>5, <1>6, <1>7, <1>8 DEF SockInv

\* The descriptors of the other Sockets are as they were.
OthersSame(s, k) ==
    \A u \in Socks \ {s} : sock[u].m_sock # -1 => k[sock[u].m_sock] = kern[sock[u].m_sock]

\* Socket s may be x, and the descriptors k.
MayBe(s, x, k) ==
    /\ x \in SockRecord /\ k \in [SockFds -> KernRecord]
    /\ OwnedWith(s, x.m_sock, k) /\ OthersSame(s, k)

\* A Socket as it is.
LEMMA IsMayBe == ASSUME SockInv, NEW s \in Socks PROVE MayBe(s, sock[s], kern)
<1>1. OwnedWith(s, sock[s].m_sock, kern)
  BY DEF SockInv, Owned, OwnedWith
<1> QED
  BY <1>1 DEF SockInv, SockTypeOK, MayBe, OthersSame

\* newSock() leaves what is open, or opens a descriptor that nobody has.
LEMMA NewSockIs ==
    ASSUME SockInv, NEW s \in Socks, NEW x \in SockRecord, x.m_sock = sock[s].m_sock
    PROVE  LET r == newSock(x, kern)
           IN /\ MayBe(s, r.x, r.k)
              /\ r.x.m_isConnected = x.m_isConnected /\ r.x.m_local = x.m_local
              /\ r.x.m_remote = x.m_remote /\ r.x.odd = x.odd
              /\ x.m_sock # -1 => r.x.m_sock = x.m_sock /\ r.k = kern
<1> DEFINE free == {n \in SockFds : kern[n].st = "closed"}
           n == CHOOSE n \in free : \A i \in free : n <= i
           r == newSock(x, kern)
<1>0. SockTypeOK /\ Owned /\ OwnedWith(s, x.m_sock, kern)
  BY IsMayBe DEF SockInv, MayBe
<1>4. Lowest
  BY DEF SockInv
<1>1. CASE isValid(x) \/ free = {}
  <2>1. r.x = x /\ r.k = kern
    BY <1>1, Zenon DEF newSock
  <2>3. OthersSame(s, kern)
    BY DEF OthersSame
  <2> HIDE DEF r
  <2>4. MayBe(s, r.x, r.k)
    BY <1>0, <2>1, <2>3 DEF MayBe, SockTypeOK
  <2> QED
    BY <2>1, <2>4 DEF r
<1>2. CASE ~isValid(x) /\ free # {}
  <2>0. free \subseteq SockFds
    OBVIOUS
  <2>1. n \in free
    BY <1>2, <2>0, <1>4 DEF Lowest
  <2>2. r = [x |-> [x EXCEPT !.m_sock = n], k |-> [kern EXCEPT ![n] = [Closed EXCEPT !.st = "new"]]]
    BY <1>2, Zenon DEF newSock
  <2>3. n \in SockFds /\ kern[n].st = "closed" /\ x.m_sock = -1 /\ sock[s].m_sock = -1
    BY <1>2, <2>1 DEF isValid
  <2> HIDE DEF n, free, r
  <2>4. [Closed EXCEPT !.st = "new"] \in KernRecord /\ [Closed EXCEPT !.st = "new"].st = "new"
    BY DEF Closed, KernRecord, Locals, Peers
  <2>5. /\ r.x \in SockRecord /\ r.x.m_sock = n
        /\ r.x.m_isConnected = x.m_isConnected /\ r.x.m_local = x.m_local
        /\ r.x.m_remote = x.m_remote /\ r.x.odd = x.odd
    BY <2>2, <2>3 DEF SockRecord
  <2>6. /\ r.k \in [SockFds -> KernRecord] /\ r.k[n].st = "new"
        /\ \A i \in SockFds \ {n} : r.k[i] = kern[i]
    BY <1>0, <2>2, <2>3, <2>4 DEF SockTypeOK
  <2>7. \A u \in Socks : sock[u].m_sock # n /\ sock[u].m_sock \in SockFds \cup {-1}
    BY <1>0, <2>3, FdsPositive DEF Owned, SockTypeOK, SockRecord
  <2>9. OwnedWith(s, n, r.k)
    BY <1>0, <2>3, <2>6, <2>7, FdsPositive DEF OwnedWith
  <2>10. OthersSame(s, r.k)
    BY <2>6, <2>7 DEF OthersSame
  <2> QED
    BY <2>3, <2>5, <2>6, <2>9, <2>10 DEF MayBe, r
<1> QED
  BY <1>1, <1>2

\* close() frees the descriptor that the Socket has, and no other.
LEMMA CloseIs ==
    ASSUME SockInv, NEW s \in Socks, NEW x, NEW k, MayBe(s, x, k)
    PROVE  LET r == Socket_close(x, k)
           IN MayBe(s, r.x, r.k) /\ r.x.m_isConnected = FALSE
<1> DEFINE r == Socket_close(x, k)
<1>0. /\ SockTypeOK /\ x \in SockRecord /\ k \in [SockFds -> KernRecord]
      /\ OwnedWith(s, x.m_sock, k) /\ OthersSame(s, k)
  BY DEF SockInv, MayBe
<1>1. CASE ~x.m_isConnected /\ ~isValid(x)
  <2>1. r.x = x /\ r.k = k
    BY <1>1 DEF Socket_close
  <2>2. x.m_isConnected = FALSE
    BY <1>0, <1>1 DEF SockRecord
  <2> QED
    BY <2>1, <2>2
<1>2. CASE ~(~x.m_isConnected /\ ~isValid(x))
  <2>1. /\ r.x = [x EXCEPT !.m_isConnected = FALSE, !.m_sock = -1]
        /\ r.k = IF isValid(x) THEN [k EXCEPT ![x.m_sock] = Closed] ELSE k
    BY <1>2 DEF Socket_close
  <2> HIDE DEF r
  <2>2. r.x \in SockRecord /\ r.x.m_sock = -1 /\ r.x.m_isConnected = FALSE
    BY <1>0, <2>1 DEF SockRecord
  <2>3. Closed \in KernRecord /\ Closed.st = "closed"
    BY DEF Closed, KernRecord, Locals, Peers
  <2>4. /\ r.k \in [SockFds -> KernRecord]
        /\ \A i \in SockFds : r.k[i] = IF i = x.m_sock THEN Closed ELSE k[i]
    <3>1. CASE isValid(x)
      <4>1. x.m_sock \in SockFds
        BY <1>0, <3>1 DEF isValid, SockRecord
      <4> QED
        BY <1>0, <2>1, <2>3, <3>1, <4>1
    <3>2. CASE ~isValid(x)
      <4>1. x.m_sock \notin SockFds
        BY <3>2, FdsPositive DEF isValid
      <4> QED
        BY <1>0, <2>1, <3>2, <4>1
    <3> QED
      BY <3>1, <3>2
  <2>5. \A u \in Socks : sock[u].m_sock \in SockFds \cup {-1}
    BY <1>0 DEF SockTypeOK, SockRecord
  <2>6. \A u \in Socks \ {s} : sock[u].m_sock # -1 => sock[u].m_sock # x.m_sock
    BY <1>0 DEF OwnedWith
  <2>7. OwnedWith(s, -1, r.k)
    <3>1. \A i \in SockFds : r.k[i].st # "closed" => \E u \in Socks \ {s} : sock[u].m_sock = i
      BY <1>0, <2>3, <2>4 DEF OwnedWith
    <3>2. \A u \in Socks \ {s} : sock[u].m_sock # -1 => r.k[sock[u].m_sock].st # "closed"
      BY <1>0, <2>4, <2>5, <2>6 DEF OwnedWith
    <3> QED
      BY <3>1, <3>2 DEF OwnedWith
  <2>8. OthersSame(s, r.k)
    BY <1>0, <2>4, <2>5, <2>6 DEF OthersSame
  <2> QED
    BY <2>2, <2>4, <2>7, <2>8 DEF MayBe, r
<1> QED
  BY <1>1, <1>2

\* What is open stays open.
LEMMA OwnedToo ==
    ASSUME SockInv, NEW s \in Socks, NEW n \in SockFds \cup {-1}, NEW k, NEW h,
           OwnedWith(s, n, k),
           \A i \in SockFds : h[i].st = "closed" <=> k[i].st = "closed"
    PROVE  OwnedWith(s, n, h)
<1>1. \A u \in Socks : sock[u].m_sock \in SockFds \cup {-1}
  BY DEF SockInv, SockTypeOK, SockRecord
<1> QED
  BY <1>1 DEF OwnedWith

\* The ends of connect() and bind(): addresses are looked up where none is known.
LEMMA LocalIs ==
    ASSUME NEW x \in SockRecord, NEW k \in [SockFds -> KernRecord]
    PROVE  LET y == getLocalAddress(x, k)
           IN /\ y \in SockRecord /\ y.m_sock = x.m_sock /\ y.m_isConnected = x.m_isConnected
              /\ y.m_remote = x.m_remote /\ y.odd = x.odd
              /\ x.m_local = 0 /\ Open(k, x.m_sock) => y.m_local = k[x.m_sock].local
<1>1. CASE x.m_local # 0 \/ ~Open(k, x.m_sock)
  BY <1>1 DEF getLocalAddress
<1>2. CASE ~(x.m_local # 0 \/ ~Open(k, x.m_sock))
  <2>1. getLocalAddress(x, k) = [x EXCEPT !.m_local = k[x.m_sock].local]
    BY <1>2 DEF getLocalAddress
  <2>2. k[x.m_sock].local \in Locals
    BY <1>2 DEF Open, SockRecord, KernRecord
  <2> QED
    BY <2>1, <2>2 DEF SockRecord
<1> QED
  BY <1>1, <1>2

LEMMA RemoteIs ==
    ASSUME NEW x \in SockRecord, NEW k \in [SockFds -> KernRecord]
    PROVE  LET y == getRemoteAddress(x, k)
           IN /\ y \in SockRecord /\ y.m_sock = x.m_sock /\ y.m_isConnected = x.m_isConnected
              /\ y.m_local = x.m_local /\ y.odd = x.odd
              /\ x.m_remote # NoPeer => y.m_remote = x.m_remote
<1> DEFINE known == x.m_remote # NoPeer \/ ~Open(k, x.m_sock) \/ k[x.m_sock].st # "connected"
<1>1. CASE known
  BY <1>1 DEF getRemoteAddress
<1>2. CASE ~known
  <2>1. getRemoteAddress(x, k) = [x EXCEPT !.m_remote = k[x.m_sock].peer]
    BY <1>2 DEF getRemoteAddress
  <2>2. k[x.m_sock].peer \in Peers
    BY <1>2 DEF Open, SockRecord, KernRecord
  <2> QED
    BY <1>2, <2>1, <2>2 DEF SockRecord
<1> QED
  BY <1>1, <1>2

LEMMA ConnectedIs ==
    ASSUME NEW x \in SockRecord, NEW k \in [SockFds -> KernRecord]
    PROVE  LET r == Connected(x, k)
           IN /\ r.x \in SockRecord /\ r.k = k /\ r.x.m_sock = x.m_sock /\ r.x.odd = x.odd
              /\ x.m_remote # NoPeer => r.x.m_remote = x.m_remote
              /\ x.m_local = 0 /\ Open(k, x.m_sock) => r.x.m_local = k[x.m_sock].local
<1> DEFINE y == [x EXCEPT !.m_isConnected = TRUE]
           z == getRemoteAddress(y, k)
<1>1. /\ y \in SockRecord /\ y.m_sock = x.m_sock /\ y.odd = x.odd /\ y.m_local = x.m_local
      /\ y.m_remote = x.m_remote
  BY DEF SockRecord
<1>2. Connected(x, k) = [x |-> getLocalAddress(z, k), k |-> k]
  BY DEF Connected
<1> HIDE DEF y
<1>3. /\ z \in SockRecord /\ z.m_sock = x.m_sock /\ z.odd = x.odd /\ z.m_local = x.m_local
      /\ x.m_remote # NoPeer => z.m_remote = x.m_remote
  BY <1>1, RemoteIs
<1> HIDE DEF z
<1> QED
  BY <1>2, <1>3, LocalIs

LEMMA NoCallIs == NoSockCall \in PendRecord /\ NoSockCall.op = "none"
BY DEF NoSockCall, PendRecord

\* A call that ends at once.
LEMMA Ends ==
    ASSUME SockInv, NEW g \in SockFibers, NEW s \in Socks, g \in UsersOf[s], pend[g] = NoSockCall,
           NEW r, MayBe(s, r.x, r.k), AddrRight(s, r.x, r.k), StoreSock(s, r),
           pend' = pend, conns' \in Nat, crossed' = crossed
    PROVE  SockInv'
<1>1. pend' = [pend EXCEPT ![g] = NoSockCall]
  BY DEF SockInv, SockTypeOK
<1>2. sock' = [sock EXCEPT ![s] = r.x] /\ kern' = r.k
  BY DEF StoreSock
<1>3. /\ r.x \in SockRecord /\ r.k \in [SockFds -> KernRecord]
      /\ OwnedWith(s, r.x.m_sock, r.k) /\ OthersSame(s, r.k)
  BY DEF MayBe
<1>4. \A u \in Socks \ {s} : sock[u].m_sock # -1 =>
                               SameConn(kern[sock[u].m_sock], r.k[sock[u].m_sock])
  BY <1>3 DEF OthersSame, SameConn
<1> QED
  BY <1>1, <1>2, <1>3, <1>4, NoCallIs, StepKeeps

LEMMA Binds ==
    ASSUME SockInv, NEW f \in SockFibers, NEW s \in Socks, f \in UsersOf[s],
           NEW p \in {0, OwnPort}, Socket_bind(f, s, p)
    PROVE  SockInv'
<1> DEFINE r == newSock(sock[s], kern)
           n == r.x.m_sock
           k == [r.k EXCEPT ![n].local = p]
           b == [x |-> getLocalAddress(r.x, k), k |-> k]
           no == \/ p = 0 \/ n = -1 \/ (n # -1 /\ (r.k[n].st # "new" \/ r.k[n].local # 0))
                 \/ \E i \in SockFds : r.k[i].local = p
<1>0. /\ pend[f] = NoSockCall /\ StoreSock(s, IF no THEN r ELSE b)
      /\ pend' = pend /\ conns' = conns /\ crossed' = crossed
  BY DEF Socket_bind
<1>1. sock[s] \in SockRecord /\ AddrRight(s, sock[s], kern) /\ conns \in Nat
  BY DEF SockInv, SockTypeOK
<1>2. /\ MayBe(s, r.x, r.k) /\ r.x.m_isConnected = sock[s].m_isConnected
      /\ r.x.m_local = sock[s].m_local /\ r.x.m_remote = sock[s].m_remote /\ r.x.odd = sock[s].odd
      /\ sock[s].m_sock # -1 => r.x.m_sock = sock[s].m_sock /\ r.k = kern
  BY <1>1, NewSockIs
<1> HIDE DEF r
<1>3. AddrRight(s, r.x, r.k)
  BY <1>1, <1>2 DEF AddrRight
<1>4. CASE no
  <2>1. StoreSock(s, r)
    BY <1>0, <1>4
  <2> QED
    BY <1>0, <1>1, <1>2, <1>3, <2>1, Ends
<1>5. CASE ~no
  <2>1. StoreSock(s, b) /\ n # -1 /\ r.k[n].st = "new"
    BY <1>0, <1>5
  <2>2. r.x \in SockRecord /\ r.k \in [SockFds -> KernRecord] /\ n \in SockFds /\ p \in Locals
    BY <1>2, <2>1 DEF MayBe, SockRecord, Locals
  <2>3. /\ k \in [SockFds -> KernRecord] /\ \A i \in SockFds \ {n} : k[i] = r.k[i]
        /\ k[n].st = r.k[n].st
    BY <2>2 DEF KernRecord
  <2> HIDE DEF k
  <2>4. b.x \in SockRecord /\ b.x.m_sock = n /\ b.x.m_isConnected = r.x.m_isConnected /\ b.k = k
    BY <2>2, <2>3, LocalIs
  <2> HIDE DEF b
  <2>5. OwnedWith(s, n, k)
    <3>1. OwnedWith(s, n, r.k)
      BY <1>2 DEF MayBe
    <3>2. \A i \in SockFds : k[i].st = "closed" <=> r.k[i].st = "closed"
      BY <2>2, <2>3
    <3> QED
      BY <2>2, <3>1, <3>2, OwnedToo
  <2>6. OthersSame(s, k)
    <3>1. \A u \in Socks \ {s} : sock[u].m_sock # -1 => sock[u].m_sock # n /\ sock[u].m_sock \in SockFds
      <4>2. \A u \in Socks : sock[u].m_sock \in SockFds \cup {-1}
        BY DEF SockInv, SockTypeOK, SockRecord
      <4> QED
        BY <1>2, <4>2 DEF MayBe, OwnedWith
    <3> QED
      BY <1>2, <2>3, <3>1 DEF MayBe, OthersSame
  <2>7. MayBe(s, b.x, b.k)
    BY <2>3, <2>4, <2>5, <2>6 DEF MayBe
  <2>8. AddrRight(s, b.x, b.k)
    BY <1>3, <2>1, <2>4 DEF AddrRight
  <2> QED
    BY <1>0, <1>1, <2>1, <2>7, <2>8, Ends
<1> QED
  BY <1>4, <1>5

\* ::connect for connect() and reconnect(), which have set up the Socket as x.
LEMMA Dials ==
    ASSUME SockInv, NEW f \in SockFibers, NEW s \in Socks, f \in UsersOf[s], pend[f] = NoSockCall,
           NEW x \in SockRecord, x.m_sock = sock[s].m_sock, x.m_isConnected = sock[s].m_isConnected,
           ~Shared(s) /\ ~x.odd => x.m_local = 0,
           ~Shared(s) /\ ~x.odd /\ x.m_isConnected => x.m_remote.family = AF_INET,
           Begin(f, s, x), crossed' = crossed
    PROVE  SockInv'
<1> DEFINE r == newSock(x, kern)
           n == r.x.m_sock
<1>1. conns \in Nat /\ AddrRight(s, sock[s], kern)
  BY DEF SockInv, SockTypeOK
<1>2. /\ MayBe(s, r.x, r.k) /\ r.x.m_isConnected = x.m_isConnected
      /\ r.x.m_local = x.m_local /\ r.x.m_remote = x.m_remote /\ r.x.odd = x.odd
      /\ x.m_sock # -1 => r.x.m_sock = x.m_sock /\ r.k = kern
  BY NewSockIs
<1>3. ~Shared(s) /\ r.x.m_isConnected => n # -1 /\ r.k[n].st # "new"
  BY <1>1, <1>2 DEF AddrRight
<1>4. CASE /\ x.m_remote.family # AF_INET
           /\ pend' = pend /\ conns' = conns /\ StoreSock(s, r)
  <2> HIDE DEF r
  <2>1. AddrRight(s, r.x, r.k)
    BY <1>2, <1>3, <1>4 DEF AddrRight
  <2> QED
    BY <1>1, <1>2, <1>4, <2>1, Ends
<1>5. CASE pend' = pend /\ conns' = conns /\ StoreSock(s, Socket_close(r.x, r.k))
  <2> HIDE DEF r
  <2> DEFINE c == Socket_close(r.x, r.k)
  <2>1. MayBe(s, c.x, c.k) /\ c.x.m_isConnected = FALSE
    BY <1>2, CloseIs
  <2> HIDE DEF c
  <2>2. AddrRight(s, c.x, c.k)
    BY <2>1 DEF AddrRight
  <2>3. StoreSock(s, c)
    BY <1>5 DEF c
  <2> QED
    BY <1>1, <1>5, <2>1, <2>2, <2>3, Ends
<1>6. ASSUME x.m_remote.family = AF_INET, n # -1, r.k[n].st = "new", conns' = conns + 1,
             NEW st \in {"connected", "connecting"}, NEW local, NEW k,
             local = IF r.k[n].local = 0 THEN conns + 1 ELSE r.k[n].local,
             k = [r.k EXCEPT ![n] = [st |-> st, local |-> local, peer |-> x.m_remote, id |-> conns + 1]],
             pend' = IF st = "connected" THEN pend
                     ELSE [pend EXCEPT ![f] = [op |-> "connect", s |-> s, fd |-> n, id |-> conns + 1]],
             StoreSock(s, IF st = "connected" THEN Connected(r.x, k) ELSE [x |-> r.x, k |-> k])
      PROVE  SockInv'
  <2> HIDE DEF r
  <2>1. r.x \in SockRecord /\ r.k \in [SockFds -> KernRecord] /\ n \in SockFds
    BY <1>2, <1>6 DEF MayBe, SockRecord
  <2>2. local \in Locals /\ conns + 1 \in Nat /\ x.m_remote \in Peers
    <3>1. r.k[n].local \in Locals
      BY <2>1 DEF KernRecord
    <3>2. conns + 1 \in Nat
      BY <1>1
    <3>3. conns + 1 \in Locals
      BY <3>2 DEF Locals
    <3>4. x.m_remote \in Peers
      BY DEF SockRecord
    <3>5. local = conns + 1 \/ local = r.k[n].local
      BY <1>6
    <3> QED
      BY <3>1, <3>2, <3>3, <3>4, <3>5
  <2>3. /\ k \in [SockFds -> KernRecord] /\ \A i \in SockFds \ {n} : k[i] = r.k[i]
        /\ k[n].st = st /\ k[n].local = local /\ k[n].peer = x.m_remote
    <3>1. [st |-> st, local |-> local, peer |-> x.m_remote, id |-> conns + 1] \in KernRecord
      BY <2>2 DEF KernRecord
    <3> QED
      BY <1>6, <2>1, <3>1
  <2>4. \A i \in SockFds : k[i].st = "closed" <=> r.k[i].st = "closed"
    BY <1>6, <2>3
  <2>5. OthersSame(s, k)
    <3>1. \A u \in Socks \ {s} : sock[u].m_sock # -1 => sock[u].m_sock # n /\ sock[u].m_sock \in SockFds
      <4>2. \A u \in Socks : sock[u].m_sock \in SockFds \cup {-1}
        BY DEF SockInv, SockTypeOK, SockRecord
      <4> QED
        BY <1>2, <4>2 DEF MayBe, OwnedWith
    <3> QED
      BY <1>2, <2>3, <3>1 DEF MayBe, OthersSame
  <2>6. Open(k, n) /\ x.m_remote # NoPeer /\ k[n].st # "new"
    <3>1. NoPeer.family # AF_INET
      BY DEF NoPeer, AF_INET
    <3>2. x.m_remote # NoPeer
      BY <1>6, <3>1
    <3>3. k[n].st = st /\ st # "closed" /\ st # "new"
      BY <1>6, <2>3
    <3> QED
      BY <1>6, <3>2, <3>3 DEF Open
  <2>7. ~Shared(s) => ~r.x.m_isConnected
    BY <1>3, <1>6
  <2>8. CASE st = "connected"
    <3> DEFINE c == Connected(r.x, k)
    <3>1. /\ c.x \in SockRecord /\ c.k = k /\ c.x.m_sock = n /\ c.x.odd = x.odd
          /\ c.x.m_remote = x.m_remote
          /\ x.m_local = 0 => c.x.m_local = local
      <4>1. /\ c.x \in SockRecord /\ c.k = k /\ c.x.m_sock = n /\ c.x.odd = r.x.odd
            /\ r.x.m_remote # NoPeer => c.x.m_remote = r.x.m_remote
            /\ r.x.m_local = 0 /\ Open(k, n) => c.x.m_local = k[n].local
        BY <2>1, <2>3, ConnectedIs
      <4> HIDE DEF c
      <4> QED
        BY <1>2, <2>3, <2>6, <4>1
    <3> HIDE DEF c
    <3>2. OwnedWith(s, n, k)
      BY <1>2, <2>1, <2>4, OwnedToo DEF MayBe
    <3>3. MayBe(s, c.x, c.k)
      BY <2>3, <2>5, <3>1, <3>2 DEF MayBe
    <3>4. AddrRight(s, c.x, c.k)
      BY <1>6, <2>3, <2>6, <3>1 DEF AddrRight
    <3>5. StoreSock(s, c) /\ pend' = pend /\ conns' \in Nat
      BY <1>6, <2>2, <2>8 DEF c
    <3> QED
      BY <3>3, <3>4, <3>5, Ends
  <2>9. CASE st = "connecting"
    <3> DEFINE p == [op |-> "connect", s |-> s, fd |-> n, id |-> conns + 1]
    <3>1. sock' = [sock EXCEPT ![s] = r.x] /\ kern' = k /\ pend' = [pend EXCEPT ![f] = p]
      BY <1>6, <2>9 DEF StoreSock
    <3>2. p \in PendRecord /\ p.op = "connect" /\ p.s = s /\ p.fd = n
      BY <2>1, <2>2 DEF PendRecord
    <3> HIDE DEF p
    <3>3. OwnedWith(s, n, k)
      BY <1>2, <2>1, <2>4, OwnedToo DEF MayBe
    <3>4. AddrRight(s, r.x, k)
      BY <2>7 DEF AddrRight
    <3>5. CallRight(s, r.x, k, p)
      BY <1>2, <1>6, <2>3, <2>6, <3>2 DEF CallRight
    <3>6. \A u \in Socks \ {s} : sock[u].m_sock # -1 =>
                                   SameConn(kern[sock[u].m_sock], k[sock[u].m_sock])
      BY <2>5 DEF OthersSame, SameConn
    <3>7. conns' \in Nat
      BY <1>6, <2>2
    <3> QED
      BY <2>1, <2>3, <3>1, <3>2, <3>3, <3>4, <3>5, <3>6, <3>7, StepKeeps
  <2> QED
    BY <2>8, <2>9
<1> QED
  BY <1>4, <1>5, <1>6, Zenon DEF Begin

LEMMA Connects ==
    ASSUME SockInv, NEW f \in SockFibers, NEW s \in Socks, f \in UsersOf[s],
           NEW a \in Remotes, connect(f, s, a)
    PROVE  SockInv'
<1> DEFINE x == [sock[s] EXCEPT !.m_remote = a,
                                !.odd = @ \/ isValid(sock[s]) \/ sock[s].m_local # 0]
<1>1. pend[f] = NoSockCall /\ Begin(f, s, x) /\ crossed' = crossed
  BY DEF connect
<1>2. sock[s] \in SockRecord /\ AddrRight(s, sock[s], kern)
  BY DEF SockInv, SockTypeOK
<1>3. /\ x \in SockRecord /\ x.m_sock = sock[s].m_sock /\ x.m_isConnected = sock[s].m_isConnected
      /\ x.m_local = sock[s].m_local
      /\ x.odd = (sock[s].odd \/ isValid(sock[s]) \/ sock[s].m_local # 0)
  BY <1>2 DEF SockRecord, Peers
<1> HIDE DEF x
<1>4. ~x.odd => x.m_local = 0 /\ x.m_sock = -1
  BY <1>3 DEF isValid
<1>5. ~Shared(s) /\ ~x.odd => ~x.m_isConnected
  BY <1>2, <1>3, <1>4 DEF AddrRight
<1> QED
  BY <1>1, <1>3, <1>4, <1>5, Dials

LEMMA Reconnects ==
    ASSUME SockInv, NEW f \in SockFibers, NEW s \in Socks, f \in UsersOf[s], reconnect(f, s)
    PROVE  SockInv'
<1> DEFINE x == [sock[s] EXCEPT !.m_local = 0]
<1>1. pend[f] = NoSockCall /\ Begin(f, s, x) /\ crossed' = crossed
  BY DEF reconnect
<1>2. sock[s] \in SockRecord /\ AddrRight(s, sock[s], kern)
  BY DEF SockInv, SockTypeOK
<1>3. /\ x \in SockRecord /\ x.m_sock = sock[s].m_sock /\ x.m_isConnected = sock[s].m_isConnected
      /\ x.m_local = 0 /\ x.m_remote = sock[s].m_remote /\ x.odd = sock[s].odd
  BY <1>2 DEF SockRecord, Locals
<1> HIDE DEF x
<1>4. ~Shared(s) /\ ~x.odd /\ x.m_isConnected => x.m_remote.family = AF_INET
  BY <1>2, <1>3 DEF AddrRight
<1> QED
  BY <1>1, <1>3, <1>4, Dials

\* The call that waited in connect() goes on.
LEMMA DialEnds ==
    ASSUME SockInv, NEW f \in SockFibers, connected(f)
    PROVE  SockInv'
<1> DEFINE s == pend[f].s
           n == pend[f].fd
           k == IF kern[n].st = "connecting" /\ kern[n].id = pend[f].id
                THEN [kern EXCEPT ![n].st = "connected"] ELSE kern
<1>0. /\ pend[f].op = "connect" /\ pend' = [pend EXCEPT ![f] = NoSockCall]
      /\ conns' = conns /\ crossed' = crossed
      /\ \/ Open(kern, n) /\ StoreSock(s, Connected(sock[s], k))
         \/ StoreSock(s, Socket_close(sock[s], kern))
  BY DEF connected
<1>1. s \in Socks /\ n \in SockFds /\ f \in UsersOf[s] /\ CallRight(s, sock[s], kern, pend[f])
  BY <1>0 DEF SockInv, CallOf
<1>2. /\ sock[s] \in SockRecord /\ kern \in [SockFds -> KernRecord] /\ conns' \in Nat
      /\ MayBe(s, sock[s], kern) /\ OwnedWith(s, sock[s].m_sock, kern)
      /\ sock[s].m_sock \in SockFds \cup {-1}
  BY <1>0, <1>1, IsMayBe DEF SockInv, SockTypeOK, MayBe, SockRecord
<1>3. /\ k \in [SockFds -> KernRecord]
      /\ \A i \in SockFds : SameConn(kern[i], k[i]) /\ (k[i].st = "closed" <=> kern[i].st = "closed")
  <2>1. CASE kern[n].st = "connecting" /\ kern[n].id = pend[f].id
    <3>1. k = [kern EXCEPT ![n].st = "connected"]
      BY <2>1
    <3> QED
      BY <1>1, <1>2, <2>1, <3>1 DEF KernRecord, SameConn
  <2>2. CASE ~(kern[n].st = "connecting" /\ kern[n].id = pend[f].id)
    BY <1>2, <2>2 DEF SameConn
  <2> QED
    BY <2>1, <2>2
<1> HIDE DEF k
<1>4. \A u \in Socks : sock[u].m_sock # -1 => sock[u].m_sock \in SockFds
  BY DEF SockInv, SockTypeOK, SockRecord
<1>5. CASE Open(kern, n) /\ StoreSock(s, Connected(sock[s], k))
  <2> DEFINE c == Connected(sock[s], k)
  <2>1. /\ c.x \in SockRecord /\ c.k = k /\ c.x.m_sock = sock[s].m_sock /\ c.x.odd = sock[s].odd
        /\ sock[s].m_remote # NoPeer => c.x.m_remote = sock[s].m_remote
        /\ sock[s].m_local = 0 /\ Open(k, sock[s].m_sock) => c.x.m_local = k[sock[s].m_sock].local
    BY <1>2, <1>3, ConnectedIs
  <2>2. sock' = [sock EXCEPT ![s] = c.x] /\ kern' = k
    BY <1>5, <2>1 DEF StoreSock
  <2> HIDE DEF c
  <2>3. OwnedWith(s, c.x.m_sock, k)
    BY <1>1, <1>2, <1>3, <2>1, OwnedToo
  <2>4. AddrRight(s, c.x, k)
    <3> SUFFICES ASSUME ~Shared(s)
                 PROVE  /\ c.x.m_sock # -1 /\ k[c.x.m_sock].st # "new"
                        /\ ~c.x.odd => /\ c.x.m_local = k[c.x.m_sock].local
                                       /\ c.x.m_remote = k[c.x.m_sock].peer
                                       /\ c.x.m_remote.family = AF_INET
      BY DEF AddrRight
    <3>1. /\ sock[s].m_sock = n /\ kern[n].st # "new"
          /\ ~sock[s].odd => /\ sock[s].m_local = 0 /\ sock[s].m_remote = kern[n].peer
                             /\ sock[s].m_remote.family = AF_INET
      BY <1>0, <1>1 DEF CallRight
    <3>2. n # -1 /\ Open(k, n) /\ k[n].st # "new" /\ k[n].peer = kern[n].peer
      BY <1>1, <1>3, <1>5, <3>1, FdsPositive DEF Open, SameConn
    <3>3. sock[s].m_remote.family = AF_INET => sock[s].m_remote # NoPeer
      BY DEF NoPeer, AF_INET
    <3> QED
      BY <2>1, <3>1, <3>2, <3>3
  <2>5. \A u \in Socks \ {s} : sock[u].m_sock # -1 =>
                                 SameConn(kern[sock[u].m_sock], k[sock[u].m_sock])
    BY <1>3, <1>4
  <2> HIDE DEF s
  <2> QED
    BY <1>0, <1>1, <1>2, <1>3, <2>1, <2>2, <2>3, <2>4, <2>5, NoCallIs, StepKeeps
<1>6. CASE StoreSock(s, Socket_close(sock[s], kern))
  <2> DEFINE c == Socket_close(sock[s], kern)
  <2>2. MayBe(s, c.x, c.k) /\ c.x.m_isConnected = FALSE
    BY <1>1, <1>2, CloseIs
  <2>3. sock' = [sock EXCEPT ![s] = c.x] /\ kern' = c.k
    BY <1>6 DEF StoreSock
  <2> HIDE DEF c
  <2>4. AddrRight(s, c.x, c.k)
    BY <2>2 DEF AddrRight
  <2>5. /\ c.x \in SockRecord /\ c.k \in [SockFds -> KernRecord] /\ OwnedWith(s, c.x.m_sock, c.k)
        /\ \A u \in Socks \ {s} : sock[u].m_sock # -1 =>
                                    SameConn(kern[sock[u].m_sock], c.k[sock[u].m_sock])
    BY <2>2 DEF MayBe, OthersSame, SameConn
  <2> HIDE DEF s
  <2> QED
    BY <1>0, <1>1, <1>2, <2>3, <2>4, <2>5, NoCallIs, StepKeeps
<1> QED
  BY <1>0, <1>5, <1>6

LEMMA Transfers ==
    ASSUME SockInv, NEW f \in SockFibers, NEW s \in Socks, f \in UsersOf[s], Transfer(f, s)
    PROVE  SockInv'
<1> DEFINE n == sock[s].m_sock
           p == [op |-> "io", s |-> s, fd |-> n, id |-> kern[n].id]
<1>0. /\ pend' = [pend EXCEPT ![f] = p] /\ n # -1
      /\ UNCHANGED <<sock, kern, conns, crossed>>
  BY DEF Transfer, Open
<1>1. /\ sock[s] \in SockRecord /\ kern \in [SockFds -> KernRecord] /\ conns \in Nat
      /\ sock' = [sock EXCEPT ![s] = sock[s]] /\ AddrRight(s, sock[s], kern)
      /\ OwnedWith(s, sock[s].m_sock, kern)
  BY <1>0, IsMayBe DEF SockInv, SockTypeOK, MayBe
<1>2. n \in SockFds /\ kern[n].id \in Nat
  BY <1>0, <1>1 DEF SockRecord, KernRecord
<1>3. p \in PendRecord /\ p.op = "io" /\ p.s = s /\ p.fd = n /\ p.id = kern[n].id
  BY <1>2 DEF PendRecord
<1> HIDE DEF p
<1>4. CallRight(s, sock[s], kern, p)
  BY <1>3 DEF CallRight
<1>5. \A u \in Socks \ {s} : sock[u].m_sock # -1 =>
                               SameConn(kern[sock[u].m_sock], kern[sock[u].m_sock])
  BY DEF SameConn
<1> QED
  BY <1>0, <1>1, <1>2, <1>3, <1>4, <1>5, StepKeeps

LEMMA Retries ==
    ASSUME SockInv, NEW f \in SockFibers, Retried(f)
    PROVE  SockInv'
<1>0. /\ pend[f].op = "io" /\ pend' = [pend EXCEPT ![f] = NoSockCall]
      /\ UNCHANGED <<sock, kern, conns>>
      /\ \/ crossed' = crossed
         \/ kern[pend[f].fd].id # pend[f].id /\ crossed' = crossed \cup {pend[f].s}
  BY DEF Retried
<1>1. CallRight(pend[f].s, sock[pend[f].s], kern, pend[f])
  BY <1>0 DEF SockInv, CallOf
<1>2. kern[pend[f].fd].id # pend[f].id => Shared(pend[f].s)
  BY <1>0, <1>1 DEF CallRight
<1>3. OwnDataOnly'
  BY <1>0, <1>2 DEF SockInv, OwnDataOnly, Shared
<1>4. SockTypeOK' /\ Owned' /\ \A h \in SockFibers : pend'[h] = pend[h] \/ pend'[h].op = "none"
  BY <1>0, NoCallIs DEF SockInv, SockTypeOK, Owned
<1>5. \A h \in SockFibers : CallOf(h, pend'[h], sock, kern)
  BY <1>4 DEF SockInv, CallOf
<1>6. \A u \in Socks : AddrRight(u, sock[u], kern)
  BY DEF SockInv
<1> QED
  BY <1>0, <1>3, <1>4, <1>5, <1>6 DEF SockInv

LEMMA Destroys ==
    ASSUME SockInv, NEW f \in SockFibers, NEW s \in Socks, f \in UsersOf[s], Destroy(f, s)
    PROVE  SockInv'
<1> DEFINE c == Socket_close(sock[s], kern)
<1>0. /\ pend[f] = NoSockCall /\ pend' = pend /\ StoreSock(s, c)
      /\ conns' = conns /\ crossed' = crossed
  BY DEF Destroy
<1>1. conns \in Nat /\ MayBe(s, sock[s], kern)
  BY IsMayBe DEF SockInv, SockTypeOK
<1>2. MayBe(s, c.x, c.k) /\ c.x.m_isConnected = FALSE
  BY <1>1, CloseIs
<1> HIDE DEF c
<1>3. AddrRight(s, c.x, c.k)
  BY <1>2 DEF AddrRight
<1> QED
  BY <1>0, <1>1, <1>2, <1>3, Ends

LEMMA SocketsStart == Lone /\ Lowest /\ SockInit => SockInv
<1> SUFFICES ASSUME Lone, Lowest, SockInit PROVE SockInv
  OBVIOUS
<1>1. /\ \A s \in Socks : sock[s].m_sock = -1 /\ sock[s].m_isConnected = FALSE
      /\ \A n \in SockFds : kern[n] = Closed
      /\ \A f \in SockFibers : pend[f] = NoSockCall
  BY DEF SockInit
<1>2. SockTypeOK
  <2>1. Closed \in KernRecord
    BY DEF Closed, KernRecord, Locals, Peers
  <2>2. [m_sock |-> -1, m_isConnected |-> FALSE, m_local |-> 0, m_remote |-> NoPeer, odd |-> FALSE]
          \in SockRecord
    BY DEF SockRecord, Locals, Peers
  <2> QED
    BY <2>1, <2>2, NoCallIs DEF SockInit, SockTypeOK
<1>3. Owned
  BY <1>1 DEF Owned, Closed
<1>4. \A s \in Socks : AddrRight(s, sock[s], kern)
  BY <1>1 DEF AddrRight
<1>5. \A f \in SockFibers : CallOf(f, pend[f], sock, kern)
  BY <1>1, NoCallIs DEF CallOf
<1>6. OwnDataOnly
  BY DEF SockInit, OwnDataOnly
<1> QED
  BY <1>2, <1>3, <1>4, <1>5, <1>6 DEF SockInv

INSTANCE FiniteSetTheorems

LEMMA OneUser == Lone
<1> SUFFICES ASSUME NEW s \in Socks, ~Shared(s), NEW f \in UsersOf[s], NEW g \in UsersOf[s]
             PROVE  f = g
  BY DEF Lone
<1>1. IsFiniteSet(UsersOf[s]) /\ Cardinality(UsersOf[s]) \in Nat
  BY SockAssumption, FS_CardinalityType
<1>2. Cardinality(UsersOf[s]) <= 1
  BY <1>1 DEF Shared
<1>3. SUFFICES ASSUME f # g PROVE FALSE
  OBVIOUS
<1>4. Cardinality({f}) = 1 /\ IsFiniteSet({f}) /\ g \notin {f}
  BY <1>3, FS_Singleton
<1>5. Cardinality({f} \cup {g}) = 1 + 1
  BY <1>4, FS_AddElement
<1>6. ({f} \cup {g}) \in SUBSET UsersOf[s]
  OBVIOUS
<1>7. Cardinality({f} \cup {g}) <= Cardinality(UsersOf[s])
  BY <1>1, <1>6, FS_Subset
<1> QED
  BY <1>1, <1>2, <1>5, <1>7

LEMMA LowestFree == Lowest
<1> SUFFICES ASSUME NEW F \in SUBSET SockFds, F # {}
             PROVE  (CHOOSE n \in F : \A i \in F : n <= i) \in F
  BY DEF Lowest
<1>1. F \subseteq Nat
  BY SockAssumption
<1>2. PICK n \in F : \A i \in F : ~(<<i, n>> \in OpToRel(<, Nat))
  BY <1>1, WFMin, NatLessThanWellFounded, Zenon
<1>3. \A i \in F : n <= i
  <2> SUFFICES ASSUME NEW i \in F, i < n PROVE FALSE
    BY <1>1
  <2>1. <<i, n>> \in Nat \X Nat /\ <<i, n>>[1] < <<i, n>>[2]
    BY <1>1
  <2>2. <<i, n>> \in OpToRel(<, Nat)
    BY <2>1, Zenon DEF OpToRel
  <2> QED
    BY <1>2, <2>2, Zenon
<1> QED
  BY <1>2, <1>3, Zenon

\* Sockets own their descriptors, tell the addresses of their connection and
\* move its data only (socket.cpp:98-330), for any number of Sockets, fibers,
\* descriptors and remote addresses.
THEOREM SocketsAlwaysRight == SockSpec => []SocketsRight
<1>1. SockInv /\ [SockNext]_sockVars => SockInv'
  <2> SUFFICES ASSUME SockInv, [SockNext]_sockVars PROVE SockInv'
    OBVIOUS
  <2>1. ASSUME NEW f \in SockFibers, connected(f) \/ Retried(f) PROVE SockInv'
    BY <2>1, DialEnds, Retries
  <2>2. ASSUME NEW f \in SockFibers, NEW s \in Socks, f \in UsersOf[s],
               \/ reconnect(f, s) \/ Transfer(f, s) \/ Destroy(f, s)
               \/ \E p \in {0, OwnPort} : Socket_bind(f, s, p)
               \/ \E a \in Remotes : connect(f, s, a)
        PROVE  SockInv'
    BY <2>2, Reconnects, Transfers, Destroys, Binds, Connects
  <2>3. CASE UNCHANGED sockVars
    <3>1. UNCHANGED <<sock, kern, pend, conns, crossed>>
      BY <2>3 DEF sockVars
    <3>2. SockTypeOK' /\ Owned' /\ OwnDataOnly'
      BY <3>1 DEF SockInv, SockTypeOK, Owned, OwnDataOnly, Shared
    <3> QED
      BY <3>1, <3>2 DEF SockInv
  <2>4. CASE SockNext
    BY <2>1, <2>2, <2>4 DEF SockNext
  <2> QED
    BY <2>3, <2>4
<1>2. SockInv => SocketsRight
  <2> SUFFICES ASSUME SockInv PROVE SocketsRight
    OBVIOUS
  <2>0. Owned /\ \A s \in Socks : sock[s].m_sock \in SockFds \cup {-1}
    BY DEF SockInv, SockTypeOK, SockRecord
  <2>1. ASSUME NEW n \in SockFds, Open(kern, n)
        PROVE  Cardinality({s \in Socks : sock[s].m_sock = n}) = 1
    <3>1. n # -1 /\ kern[n].st # "closed"
      BY <2>1 DEF Open
    <3>2. PICK s \in Socks : sock[s].m_sock = n
      BY <2>0, <3>1 DEF Owned
    <3>3. {u \in Socks : sock[u].m_sock = n} = {s}
      BY <2>0, <3>1, <3>2 DEF Owned
    <3> QED
      BY <3>3, FS_Singleton
  <2>2. \A s \in Socks : isValid(sock[s]) => Open(kern, sock[s].m_sock)
    BY <2>0 DEF Owned, Open, isValid
  <2>3. AddressesTrue
    BY DEF SockInv, AddressesTrue, AddrRight
  <2> QED
    BY <2>1, <2>2, <2>3 DEF SockInv, SocketsRight, FdsOwned
<1> QED
  BY OneUser, LowestFree, SocketsStart, <1>1, <1>2, PTL DEF SockSpec
=============================================================================
