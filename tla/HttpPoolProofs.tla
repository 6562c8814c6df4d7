-------------------------- MODULE HttpPoolProofs ---------------------------
(***************************************************************************)
(* Theorems about the connection pool, for any number of fibers and any    *)
(* limits: who holds a connection, what it may still carry, what is left   *)
(* unread on it, and the count.                                            *)
(***************************************************************************)
EXTENDS HttpPool, TLAPS

Conn == 1..MaxConnections
ConnRecord == [st : {"none", "connected", "closed", "deleted"}, m_request : Nat,
               peer : BOOLEAN, answers : Seq(Nat)]
UserRecord == [at : {"none", "count", "connect", "send", "recv", "release", "deleted"},
               conn : Conn \cup {0}, drop : SUBSET Conn, id : Nat, rsp : Nat]

\* The domains of the variables.
PoolTypeOK ==
    /\ m_coons \in Seq(Conn)
    /\ m_total \in Int
    /\ calls \in Nat
    /\ conn \in [Conn -> ConnRecord]
    /\ user \in [PoolFibers -> UserRecord]

\* Where a caller is says whether it holds a connection, whether it has
\* deleted any it has yet to count, and whether it may have its response.
Place(u) ==
    /\ u.at \in {"send", "recv", "release"} => u.conn # 0
    /\ u.conn # 0 => u.at \in {"count", "send", "recv", "release"}
    /\ u.drop # {} => u.at \in {"count", "deleted"}
    /\ u.at = "deleted" => \E c \in Conn : u.drop = {c}
    /\ u.rsp # 0 => u.at = "release" /\ u.rsp = u.id

\* Nothing is unread on a connection that is idle or about to be used; on one
\* that is waited for at most the answer its holder waits for; on one about to
\* be released nothing, or it is closed.
Unread(u, c) ==
    /\ u.at \in {"count", "send"} => c.answers = <<>>
    /\ u.at = "recv" => c.answers \in {<<>>, <<u.id>>}
    /\ u.at = "release" => c.answers = <<>> \/ c.st # "connected"

Callers ==
    \A f \in PoolFibers :
        /\ Place(user[f])
        /\ user[f].conn # 0 => Unread(user[f], conn[user[f].conn])

\* A connection that is not deleted may carry another request.
Carries ==
    /\ \A c \in ToSet(m_coons) : conn[c].answers = <<>>
    /\ \A c \in Conn : /\ conn[c].m_request <= MaxRequest
                       /\ conn[c].st # "deleted" => conn[c].m_request < MaxRequest

\* The connections in the count: those that exist and those that are deleted
\* and not counted yet. No two callers have deleted the same one.
Dropped == {c \in Conn : \E f \in PoolFibers : c \in user[f].drop}
Tally ==
    /\ m_total = Cardinality(Live \cup Dropped)
    /\ \A c \in Dropped : conn[c].st = "deleted"
    /\ \A f, g \in PoolFibers : f # g => user[f].drop \cap user[g].drop = {}

PoolInv == PoolTypeOK /\ Callers /\ OneOwner /\ Carries /\ Tally

\* What a caller's step owes besides the count.
Owned == PoolTypeOK /\ Callers /\ OneOwner /\ Carries

\* s is cut at n + 1: t is what follows, bad the elements before.
Sliced(S, s, n, t, bad) ==
    /\ t \in Seq(S) /\ IsInjective(t)
    /\ ToSet(t) \subseteq ToSet(s) /\ bad \subseteq ToSet(s) /\ bad \cap ToSet(t) = {}
    /\ n < Len(s) => s[n + 1] \in ToSet(s) /\ s[n + 1] \notin bad \cup ToSet(t)

\* t is s with c at its end.
Extended(S, s, c, t) == t \in Seq(S) /\ IsInjective(t) /\ ToSet(t) = ToSet(s) \cup {c}

USE PoolBounds

-----------------------------------------------------------------------------
(* A caller that works on the connection it holds.                         *)

\* What is left of a list without repetitions after its first n + 1 elements.
LEMMA Slice ==
    ASSUME NEW S, NEW s \in Seq(S), IsInjective(s), NEW n \in 0..Len(s),
           NEW t, t = SubSeq(s, n + 2, Len(s)), NEW bad, bad = ToSet(SubSeq(s, 1, n))
    PROVE  Sliced(S, s, n, t, bad)
<1>1. /\ SubSeq(s, 1, n) \in Seq(S) /\ Len(SubSeq(s, 1, n)) = n
      /\ \A i \in 1..n : SubSeq(s, 1, n)[i] = s[i]
  OBVIOUS
<1>2. bad = {s[i] : i \in 1..n}
  <2>1. DOMAIN SubSeq(s, 1, n) = 1..n
    BY <1>1
  <2>2. bad = {SubSeq(s, 1, n)[i] : i \in 1..n}
    BY <2>1 DEF ToSet
  <2> QED
    BY <1>1, <2>2
<1>3. /\ t \in Seq(S) /\ Len(t) = IF n + 2 <= Len(s) THEN Len(s) - n - 1 ELSE 0
      /\ \A i \in 1..Len(t) : t[i] = s[i + n + 1] /\ i + n + 1 \in 1..Len(s)
  OBVIOUS
<1>4. ToSet(t) = {t[i] : i \in 1..Len(t)} /\ ToSet(s) = {s[i] : i \in 1..Len(s)}
  <2>1. DOMAIN t = 1..Len(t) /\ DOMAIN s = 1..Len(s)
    BY <1>3
  <2> QED
    BY <2>1, Zenon DEF ToSet
<1>5. \A i, j \in 1..Len(s) : s[i] = s[j] => i = j
  BY DEF IsInjective
<1>6. IsInjective(t)
  BY <1>3, <1>5 DEF IsInjective
<1>7. ToSet(t) \subseteq ToSet(s) /\ bad \subseteq ToSet(s)
  <2>1. 1..n \subseteq 1..Len(s)
    OBVIOUS
  <2>2. bad \subseteq ToSet(s)
    BY <1>2, <1>4, <2>1
  <2>3. \A i \in 1..Len(t) : t[i] \in ToSet(s)
    BY <1>3, <1>4
  <2> QED
    BY <1>4, <2>2, <2>3
<1>8. bad \cap ToSet(t) = {}
  BY <1>2, <1>3, <1>4, <1>5
<1>9. ASSUME n < Len(s) PROVE s[n + 1] \in ToSet(s) /\ s[n + 1] \notin bad \cup ToSet(t)
  <2>1. n + 1 \in 1..Len(s) /\ \A i \in 1..n : s[i] # s[n + 1]
    BY <1>5, <1>9
  <2>2. ASSUME NEW i \in 1..Len(t), t[i] = s[n + 1] PROVE FALSE
    <3>1. i + n + 1 \in 1..Len(s) /\ s[i + n + 1] = s[n + 1]
      BY <1>3, <2>2
    <3> QED
      BY <1>5, <2>1, <3>1
  <2> QED
    BY <1>2, <1>4, <2>1, <2>2
<1> QED
  BY <1>3, <1>6, <1>7, <1>8, <1>9 DEF Sliced

\* A caller moves on and keeps what it holds; no connection changes.
LEMMA Walks ==
    ASSUME PoolInv, NEW f \in PoolFibers, NEW u \in UserRecord,
           user' = [user EXCEPT ![f] = u], UNCHANGED <<m_coons, conn, calls>>, m_total' \in Int,
           u.conn = user[f].conn, Place(u), u.conn # 0 => Unread(u, conn[u.conn])
    PROVE  Owned' /\ Live' = Live
<1>1. /\ user' \in [PoolFibers -> UserRecord] /\ user'[f] = u
      /\ \A g \in PoolFibers : g # f => user'[g] = user[g]
      /\ \A g \in PoolFibers : user'[g].conn = user[g].conn
  BY DEF PoolInv, PoolTypeOK
<1>2. Live' = Live
  BY DEF Live
<1>3. PoolTypeOK'
  BY <1>1 DEF PoolInv, PoolTypeOK
<1>4. Callers'
  BY <1>1 DEF PoolInv, Callers
<1>5. OneOwner'
  BY <1>1, <1>2 DEF PoolInv, OneOwner
<1>6. Carries'
  BY DEF PoolInv, Carries
<1> QED
  BY <1>2, <1>3, <1>4, <1>5, <1>6 DEF Owned

\* Caller f goes to u and makes r of connection c, which nobody else holds: it
\* keeps the connection or lets it go.
WorksOn(f, u, c, r) ==
    /\ u \in UserRecord /\ Place(u) /\ u.conn \in {0, c}
    /\ c \notin ToSet(m_coons) /\ \A g \in PoolFibers \ {f} : user[g].conn # c
    /\ r \in ConnRecord /\ r.m_request <= MaxRequest
    /\ r.st # "deleted" => r.m_request < MaxRequest
    /\ u.conn = c => Unread(u, r) /\ r.st \in {"connected", "closed"}

LEMMA Works ==
    ASSUME PoolInv, NEW f \in PoolFibers, NEW u, NEW c \in Conn, NEW r, WorksOn(f, u, c, r),
           user' = [user EXCEPT ![f] = u], conn' = [conn EXCEPT ![c] = r],
           calls' = calls, m_total' \in Int, m_coons' = m_coons
    PROVE  Owned'
<1>0. /\ u \in UserRecord /\ Place(u) /\ u.conn \in {0, c}
      /\ c \notin ToSet(m_coons) /\ \A g \in PoolFibers \ {f} : user[g].conn # c
      /\ r \in ConnRecord /\ r.m_request <= MaxRequest
      /\ r.st # "deleted" => r.m_request < MaxRequest
      /\ u.conn = c => Unread(u, r) /\ r.st \in {"connected", "closed"}
  BY DEF WorksOn
<1>1. /\ user' \in [PoolFibers -> UserRecord] /\ user'[f] = u
      /\ \A g \in PoolFibers : g # f => user'[g] = user[g]
  BY <1>0 DEF PoolInv, PoolTypeOK
<1>2. /\ conn' \in [Conn -> ConnRecord] /\ conn'[c] = r
      /\ \A d \in Conn : d # c => conn'[d] = conn[d]
  BY <1>0 DEF PoolInv, PoolTypeOK
<1>3. \A d \in Conn : /\ d \in Live <=> conn[d].st \in {"connected", "closed"}
                      /\ d \in Live' <=> conn'[d].st \in {"connected", "closed"}
  BY DEF Live, Conn
<1>4. \A d \in Conn \ {c} : d \in Live' <=> d \in Live
  BY <1>2, <1>3
<1>5. /\ ToSet(m_coons) \subseteq Conn \ {c} /\ ToSet(m_coons) \subseteq Live /\ IsInjective(m_coons)
      /\ 0 \notin Conn
  BY <1>0 DEF PoolInv, OneOwner, Live, Conn
<1>6. \A g \in PoolFibers \ {f} : user[g].conn # 0 =>
          user[g].conn \in Conn \ {c} /\ user[g].conn \in Live /\ user[g].conn \notin ToSet(m_coons)
  BY <1>0 DEF PoolInv, OneOwner, Live, Conn
<1>7. PoolTypeOK'
  BY <1>1, <1>2 DEF PoolInv, PoolTypeOK
<1>8. Callers'
  <2>1. ASSUME NEW g \in PoolFibers \ {f}
        PROVE  Place(user'[g]) /\ (user'[g].conn # 0 => Unread(user'[g], conn'[user'[g].conn]))
    BY <1>1, <1>2, <1>6 DEF PoolInv, Callers
  <2>2. Place(user'[f]) /\ (user'[f].conn # 0 => Unread(user'[f], conn'[user'[f].conn]))
    BY <1>0, <1>1, <1>2
  <2> QED
    BY <2>1, <2>2 DEF Callers
<1>9. OneOwner'
  <2>1. ToSet(m_coons') \subseteq Live'
    BY <1>4, <1>5
  <2>2. ASSUME u.conn = c
        PROVE  c \in Live' \ ToSet(m_coons')
    BY <1>0, <1>2, <1>3, <2>2
  <2>3. ASSUME NEW g \in PoolFibers \ {f}, NEW h \in PoolFibers \ {f}, user[g].conn # 0,
               user[h].conn = user[g].conn
        PROVE  h = g
    BY <2>3 DEF PoolInv, OneOwner
  <2>4. ASSUME NEW g \in PoolFibers, user'[g].conn # 0
        PROVE  /\ user'[g].conn \in Live' \ ToSet(m_coons')
               /\ \A h \in PoolFibers : user'[h].conn = user'[g].conn => h = g
    <3>1. CASE g = f
      BY <1>0, <1>1, <2>2, <2>4, <3>1
    <3>2. CASE g # f
      BY <1>0, <1>1, <1>4, <1>6, <2>3, <2>4, <3>2
    <3> QED
      BY <3>1, <3>2
  <2> QED
    BY <1>5, <2>1, <2>4 DEF OneOwner
<1>10. Carries'
  <2>1. \A d \in ToSet(m_coons') : conn'[d].answers = <<>>
    BY <1>2, <1>5 DEF PoolInv, Carries
  <2>2. \A d \in Conn : /\ conn[d].m_request <= MaxRequest
                        /\ conn[d].st # "deleted" => conn[d].m_request < MaxRequest
    BY Zenon DEF PoolInv, Carries
  <2>3. \A d \in Conn : /\ conn'[d].m_request <= MaxRequest
                        /\ conn'[d].st # "deleted" => conn'[d].m_request < MaxRequest
    BY <1>0, <1>2, <2>2
  <2> QED
    BY <2>1, <2>3, Zenon DEF Carries
<1> QED
  BY <1>7, <1>8, <1>9, <1>10 DEF Owned

\* The count stays when the connections in it do, and no caller has deleted
\* another one.
LEMMA TallyStays ==
    ASSUME PoolInv, m_total' = m_total, Live' = Live,
           \A f \in PoolFibers : user'[f].drop = user[f].drop,
           \A c \in Conn : conn[c].st = "deleted" => conn'[c].st = "deleted"
    PROVE  Tally'
<1>1. Dropped' = Dropped
  BY DEF Dropped
<1>2. \A c \in Dropped : c \in Conn /\ conn[c].st = "deleted"
  BY DEF PoolInv, Tally, Dropped
<1>3. \A f, g \in PoolFibers : f # g => user'[f].drop \cap user'[g].drop = {}
  BY DEF PoolInv, Tally
<1>4. m_total' = Cardinality(Live' \cup Dropped')
  BY <1>1 DEF PoolInv, Tally
<1> QED
  BY <1>1, <1>2, <1>3, <1>4, Zenon DEF Tally

\* A sequence of one number.
LEMMA Single ==
    ASSUME NEW x \in Nat
    PROVE  /\ Append(<<>>, x) = <<x>> /\ Head(<<x>>) = x /\ Tail(<<x>>) = <<>>
           /\ <<>> \in Seq(Nat) /\ <<x>> \in Seq(Nat) /\ <<x>> # <<>>
<1>1. Append(<<>>, x) = <<x>> /\ <<>> \in Seq(Nat) /\ <<x>> \in Seq(Nat) /\ <<x>> # <<>>
  OBVIOUS
<1>2. Head(<<x>>) = x
  OBVIOUS
<1>3. Tail(<<x>>) = <<>>
  <2>1. Tail(<<x>>) \in Seq(Nat) /\ Len(Tail(<<x>>)) = 0
    BY <1>1
  <2> QED
    BY <2>1
<1> QED
  BY <1>1, <1>2, <1>3

\* sendRequest and recvResponse: the caller works on the connection it holds.
LEMMA HolderKeeps ==
    ASSUME PoolInv, NEW f \in PoolFibers, sendRequest(f) \/ recvResponse(f)
    PROVE  PoolInv'
<1> DEFINE c == user[f].conn
           q == conn[c]
<1>1. /\ user[f] \in UserRecord /\ Place(user[f]) /\ c # 0 /\ Unread(user[f], q) /\ user[f].drop = {}
      /\ user[f].at \in {"send", "recv"} /\ user[f].rsp = 0
  BY DEF PoolInv, PoolTypeOK, Callers, Place, sendRequest, recvResponse
<1>2. c \in Conn /\ c \in Live /\ c \notin ToSet(m_coons) /\ \A g \in PoolFibers \ {f} : user[g].conn # c
  BY <1>1 DEF PoolInv, OneOwner, Live, Conn
<1>3. /\ q \in ConnRecord /\ q.st \in {"connected", "closed"} /\ q.m_request < MaxRequest
      /\ user \in [PoolFibers -> UserRecord] /\ conn \in [Conn -> ConnRecord] /\ m_total \in Int
  BY <1>2 DEF PoolInv, PoolTypeOK, Carries, Live
<1>0. q.m_request \in Nat
  BY <1>3 DEF ConnRecord
<1>4. ASSUME NEW u \in UserRecord, NEW r \in ConnRecord,
             user' = [user EXCEPT ![f] = u], conn' = [conn EXCEPT ![c] = r],
             UNCHANGED <<m_coons, m_total, calls>>,
             u.conn = c, u.drop = {}, Place(u), Unread(u, r),
             r.m_request = q.m_request, r.st \in {"connected", "closed"}
      PROVE  PoolInv'
  <2> HIDE DEF c, q
  <2>1. r.m_request <= MaxRequest /\ r.m_request < MaxRequest
    BY <1>3, <1>0, <1>4, PoolBounds
  <2>2. Owned'
    <3>1. WorksOn(f, u, c, r)
      BY <1>2, <1>4, <2>1 DEF WorksOn
    <3> QED
      BY <1>2, <1>3, <1>4, <3>1, Works
  <2>3. Live' = Live
    <3>1. \A d \in Conn : /\ d \in Live <=> conn[d].st \in {"connected", "closed"}
                          /\ d \in Live' <=> conn'[d].st \in {"connected", "closed"}
      BY DEF Live, Conn
    <3>2. \A d \in Conn : d \in Live <=> d \in Live'
      BY <1>2, <1>3, <1>4, <3>1
    <3>3. Live \subseteq Conn /\ Live' \subseteq Conn
      BY DEF Live, Conn
    <3> QED
      BY <3>2, <3>3
  <2>4. \A d \in Conn : conn[d].st = "deleted" => conn'[d].st = "deleted"
    BY <1>3, <1>4 DEF q
  <2>5. \A g \in PoolFibers : user'[g].drop = user[g].drop
    BY <1>1, <1>3, <1>4
  <2>6. Tally'
    BY <1>4, <2>3, <2>4, <2>5, TallyStays
  <2> QED
    BY <2>2, <2>6 DEF Owned, PoolInv
<1>5. CASE sendRequest(f)
  <2> DEFINE u == [user[f] EXCEPT !.at = "recv"]
             r == IF q.peer THEN [q EXCEPT !.answers = Append(@, user[f].id)] ELSE q
  <2>1. user[f].at = "send" /\ q.answers = <<>>
    BY <1>1, <1>5 DEF sendRequest, Unread
  <2>2. u \in UserRecord /\ u.conn = c /\ u.drop = {} /\ u.rsp = 0 /\ u.at = "recv" /\ u.id = user[f].id
    BY <1>1 DEF UserRecord
  <2>3. /\ r \in ConnRecord /\ r.m_request = q.m_request /\ r.st = q.st
        /\ r.answers \in {<<>>, <<user[f].id>>}
    <3>1. user[f].id \in Nat
      BY <1>1 DEF UserRecord
    <3>2. Append(q.answers, user[f].id) = <<user[f].id>> /\ <<user[f].id>> \in Seq(Nat)
      BY <2>1, <3>1, Single
    <3> HIDE DEF c, q
    <3> QED
      BY <1>3, <2>1, <3>2 DEF ConnRecord
  <2>4. user' = [user EXCEPT ![f] = u] /\ UNCHANGED <<m_coons, m_total, calls>>
    BY <1>5 DEF sendRequest
  <2>5. conn' = [conn EXCEPT ![c] = r]
    BY <1>2, <1>3, <1>5 DEF sendRequest
  <2>6. Place(u) /\ Unread(u, r)
    BY <1>1, <2>2, <2>3 DEF Place, Unread
  <2> HIDE DEF u, r
  <2> QED
    BY <1>3, <1>4, <2>2, <2>3, <2>4, <2>5, <2>6
<1>6. CASE recvResponse(f)
  <2>1. user[f].at = "recv" /\ q.answers \in {<<>>, <<user[f].id>>} /\ user[f].id \in Nat
    BY <1>1, <1>6 DEF recvResponse, Unread, UserRecord
  <2>2. CASE /\ q.answers # <<>>
             /\ user' = [user EXCEPT ![f].at = "release", ![f].rsp = Head(q.answers)]
             /\ conn' = [conn EXCEPT ![c].answers = Tail(@)]
    <3> DEFINE u == [user[f] EXCEPT !.at = "release", !.rsp = user[f].id]
               r == [q EXCEPT !.answers = <<>>]
    <3>1. Head(q.answers) = user[f].id /\ Tail(q.answers) = <<>>
      BY <2>1, <2>2, Single
    <3>2. /\ u \in UserRecord /\ u.conn = c /\ u.drop = {} /\ u.rsp = user[f].id
          /\ u.at = "release" /\ u.id = user[f].id
      BY <1>1, <2>1 DEF UserRecord
    <3>3. r \in ConnRecord /\ r.m_request = q.m_request /\ r.st = q.st /\ r.answers = <<>>
      <4>1. <<>> \in Seq(Nat)
        OBVIOUS
      <4> HIDE DEF c, q
      <4> QED
        BY <1>3, <4>1 DEF ConnRecord
    <3>4. user' = [user EXCEPT ![f] = u] /\ UNCHANGED <<m_coons, m_total, calls>>
      BY <1>3, <1>6, <2>2, <3>1 DEF recvResponse
    <3>5. conn' = [conn EXCEPT ![c] = r]
      BY <1>2, <1>3, <2>2, <3>1
    <3>6. Place(u) /\ Unread(u, r)
      BY <1>1, <3>2, <3>3 DEF Place, Unread
    <3> HIDE DEF u, r
    <3> QED
      BY <1>3, <1>4, <3>2, <3>3, <3>4, <3>5, <3>6
  <2>3. CASE /\ user' = [user EXCEPT ![f].at = "release"]
             /\ conn' = [conn EXCEPT ![c].st = "closed"]
    <3> DEFINE u == [user[f] EXCEPT !.at = "release"]
               r == [q EXCEPT !.st = "closed"]
    <3>1. u \in UserRecord /\ u.conn = c /\ u.drop = {} /\ u.rsp = 0 /\ u.at = "release"
      BY <1>1 DEF UserRecord
    <3>2. r \in ConnRecord /\ r.m_request = q.m_request /\ r.st = "closed"
      BY <1>3 DEF ConnRecord
    <3>3. user' = [user EXCEPT ![f] = u] /\ UNCHANGED <<m_coons, m_total, calls>>
      BY <1>6, <2>3 DEF recvResponse
    <3>4. conn' = [conn EXCEPT ![c] = r]
      BY <2>3
    <3>5. Place(u) /\ Unread(u, r)
      BY <1>1, <3>1, <3>2 DEF Place, Unread
    <3> HIDE DEF u, r
    <3> QED
      BY <1>3, <1>4, <3>1, <3>2, <3>3, <3>4, <3>5
  <2> QED
    BY <1>6, <2>2, <2>3 DEF recvResponse
<1> QED
  BY <1>5, <1>6

-----------------------------------------------------------------------------
(* Releasing a connection, and the peer that closes one.                   *)

\* Updates of a connection.
LEMMA Renewed ==
    ASSUME NEW q \in ConnRecord
    PROVE  /\ [q EXCEPT !.st = "connected", !.peer = TRUE] \in ConnRecord
           /\ [q EXCEPT !.st = "connected", !.peer = TRUE].st = "connected"
           /\ [q EXCEPT !.st = "connected", !.peer = TRUE].m_request = q.m_request
           /\ [q EXCEPT !.st = "connected", !.peer = TRUE].answers = q.answers
  BY DEF ConnRecord

LEMMA Spending ==
    ASSUME NEW q \in ConnRecord, NEW k \in Nat
    PROVE  /\ [q EXCEPT !.m_request = k] \in ConnRecord
           /\ [q EXCEPT !.m_request = k].st = q.st
           /\ [q EXCEPT !.m_request = k].m_request = k
           /\ [q EXCEPT !.m_request = k].answers = q.answers
           /\ [q EXCEPT !.st = "deleted", !.m_request = k] \in ConnRecord
           /\ [q EXCEPT !.st = "deleted", !.m_request = k].st = "deleted"
           /\ [q EXCEPT !.st = "deleted", !.m_request = k].m_request = k
  BY DEF ConnRecord

\* A new element at the end of a list without repetitions.
LEMMA Added ==
    ASSUME NEW S, NEW s \in Seq(S), IsInjective(s), NEW c \in S, c \notin ToSet(s),
           NEW t, t = Append(s, c)
    PROVE  Extended(S, s, c, t)
<1>1. /\ t \in Seq(S) /\ Len(t) = Len(s) + 1 /\ t[Len(s) + 1] = c
      /\ \A i \in 1..Len(s) : t[i] = s[i]
  OBVIOUS
<1>2. ToSet(t) = {t[i] : i \in 1..Len(t)} /\ ToSet(s) = {s[i] : i \in 1..Len(s)}
  <2>1. DOMAIN t = 1..Len(t) /\ DOMAIN s = 1..Len(s)
    BY <1>1
  <2> QED
    BY <2>1, Zenon DEF ToSet
<1>3. \A i, j \in 1..Len(s) : s[i] = s[j] => i = j
  BY DEF IsInjective
<1>4. \A i \in 1..Len(s) : s[i] # c
  BY <1>2
<1>5. \A i, j \in 1..Len(t) : t[i] = t[j] => i = j
  BY <1>1, <1>3, <1>4
<1> QED
  BY <1>1, <1>2, <1>5 DEF IsInjective, Extended

\* The server closes: only the end of a connection changes.
LEMMA PeerKeeps == ASSUME PoolInv, NEW c \in Conn, PeerCloses(c) PROVE PoolInv'
<1>1. /\ conn \in [Conn -> ConnRecord] /\ conn' \in [Conn -> ConnRecord]
      /\ \A d \in Conn : /\ conn'[d].st = conn[d].st
                         /\ conn'[d].m_request = conn[d].m_request
                         /\ conn'[d].answers = conn[d].answers
      /\ UNCHANGED <<m_coons, m_total, user, calls>>
  BY DEF PoolInv, PoolTypeOK, PeerCloses, ConnRecord
<1>2. Live' = Live
  BY <1>1 DEF Live, Conn
<1>3. PoolTypeOK'
  BY <1>1 DEF PoolInv, PoolTypeOK
<1>4. Callers'
  <2>1. \A f \in PoolFibers : user[f].conn \in Conn \cup {0}
    BY DEF PoolInv, PoolTypeOK, UserRecord
  <2>2. \A f \in PoolFibers : user[f].conn # 0 => Unread(user[f], conn'[user[f].conn])
    BY <1>1, <2>1 DEF PoolInv, Callers, Unread
  <2> QED
    BY <1>1, <2>2 DEF PoolInv, Callers
<1>5. OneOwner'
  BY <1>1, <1>2 DEF PoolInv, OneOwner
<1>6. Carries'
  <2>1. ToSet(m_coons) \subseteq Conn
    BY DEF PoolInv, OneOwner, Live, Conn
  <2> QED
    BY <1>1, <2>1, Zenon DEF PoolInv, Carries
<1>7. Tally'
  BY <1>1, <1>2, TallyStays
<1> QED
  BY <1>3, <1>4, <1>5, <1>6, <1>7 DEF PoolInv

\* ReleasePtr deletes the connection.
LEMMA DeleteKeeps ==
    ASSUME PoolInv, NEW f \in PoolFibers, NEW c \in Conn, c \in Live,
           c \notin ToSet(m_coons), \A g \in PoolFibers \ {f} : user[g].conn # c,
           user[f].drop = {}, conn[c].m_request < MaxRequest,
           conn' = [conn EXCEPT ![c].st = "deleted", ![c].m_request = @ + 1],
           user' = [user EXCEPT ![f] = [Away EXCEPT !.at = "deleted", !.drop = {c}]],
           UNCHANGED <<m_coons, m_total, calls>>
    PROVE  PoolInv'
<1>1. /\ user \in [PoolFibers -> UserRecord] /\ conn \in [Conn -> ConnRecord] /\ m_total \in Int
      /\ conn[c] \in ConnRecord
  BY DEF PoolInv, PoolTypeOK
<1> DEFINE u == [Away EXCEPT !.at = "deleted", !.drop = {c}]
           r == [conn[c] EXCEPT !.st = "deleted", !.m_request = @ + 1]
<1>2. u \in UserRecord /\ u.at = "deleted" /\ u.conn = 0 /\ u.drop = {c} /\ u.rsp = 0
  BY DEF UserRecord, Away
<1>3. r \in ConnRecord /\ r.st = "deleted" /\ r.m_request <= MaxRequest
  <2>1. conn[c].m_request \in Nat /\ conn[c].m_request + 1 \in Nat
    BY <1>1 DEF ConnRecord
  <2>2. r \in ConnRecord /\ r.st = "deleted" /\ r.m_request = conn[c].m_request + 1
    <3>1. \A k \in Nat : LET x == [conn[c] EXCEPT !.st = "deleted", !.m_request = k]
                         IN x \in ConnRecord /\ x.st = "deleted" /\ x.m_request = k
      BY <1>1, Spending
    <3> QED
      BY <2>1, <3>1
  <2> HIDE DEF r
  <2> QED
    BY <2>1, <2>2, PoolBounds
<1>4. user' = [user EXCEPT ![f] = u] /\ conn' = [conn EXCEPT ![c] = r]
  BY <1>1
<1>5. Place(u)
  BY <1>2 DEF Place
<1>6. 0 \notin Conn
  BY DEF Conn
<1> HIDE DEF u, r
<1>7. Owned'
  <2>1. u.conn \in {0, c} /\ u.conn # c /\ calls' = calls /\ m_coons' = m_coons /\ m_total' \in Int
    BY <1>1, <1>2, <1>6
  <2>2. WorksOn(f, u, c, r)
    BY <1>2, <1>3, <1>5, <2>1 DEF WorksOn
  <2> QED
    BY <1>4, <2>1, <2>2, Works
<1>8. /\ \A d \in Conn : d # c => conn'[d] = conn[d]
      /\ conn'[c].st = "deleted"
      /\ user'[f].drop = {c} /\ \A g \in PoolFibers : g # f => user'[g].drop = user[g].drop
  BY <1>1, <1>2, <1>3, <1>4
<1>9. Live' = Live \ {c}
  <2>1. \A d \in Conn : /\ d \in Live <=> conn[d].st \in {"connected", "closed"}
                        /\ d \in Live' <=> conn'[d].st \in {"connected", "closed"}
    BY DEF Live, Conn
  <2>2. \A d \in Conn : d \in Live' <=> d \in Live /\ d # c
    BY <1>8, <2>1
  <2>3. Live \subseteq Conn /\ Live' \subseteq Conn
    BY DEF Live, Conn
  <2> QED
    BY <2>2, <2>3
<1>10. Dropped' = Dropped \cup {c}
  BY <1>8 DEF Dropped
<1>11. \A d \in Dropped : d \in Conn /\ conn[d].st = "deleted"
  BY DEF PoolInv, Tally, Dropped
<1>12. c \notin Dropped
  BY <1>11 DEF Live
<1>13. m_total' = Cardinality(Live' \cup Dropped')
  <2>1. Live' \cup Dropped' = Live \cup Dropped
    BY <1>9, <1>10
  <2> QED
    BY <2>1 DEF PoolInv, Tally
<1>14. \A d \in Dropped' : conn'[d].st = "deleted"
  BY <1>8, <1>10, <1>11
<1>15. \A g, h \in PoolFibers : g # h => user'[g].drop \cap user'[h].drop = {}
  <2>1. \A g \in PoolFibers : c \notin user[g].drop
    BY <1>12 DEF Dropped
  <2>2. \A g, h \in PoolFibers : g # h => user[g].drop \cap user[h].drop = {}
    BY Zenon DEF PoolInv, Tally
  <2> QED
    BY <1>8, <2>1, <2>2
<1>16. Tally'
  BY <1>13, <1>14, <1>15, Zenon DEF Tally
<1> QED
  BY <1>7, <1>16 DEF Owned, PoolInv

\* ReleasePtr puts the connection back.
LEMMA PutBackKeeps ==
    ASSUME PoolInv, NEW f \in PoolFibers, NEW c \in Conn, c \in Live,
           c \notin ToSet(m_coons), \A g \in PoolFibers \ {f} : user[g].conn # c,
           user[f].drop = {}, conn[c].m_request + 1 < MaxRequest, conn[c].answers = <<>>,
           conn' = [conn EXCEPT ![c].m_request = @ + 1], user' = [user EXCEPT ![f] = Away],
           m_coons' = Append(m_coons, c), UNCHANGED <<m_total, calls>>
    PROVE  PoolInv'
<1>1. /\ user \in [PoolFibers -> UserRecord] /\ conn \in [Conn -> ConnRecord]
      /\ conn[c] \in ConnRecord /\ m_coons \in Seq(Conn) /\ IsInjective(m_coons)
      /\ Away \in UserRecord /\ Away.conn = 0 /\ Away.drop = {} /\ Place(Away)
  BY DEF PoolInv, PoolTypeOK, OneOwner, Away, UserRecord, Place
<1>2. m_coons' \in Seq(Conn) /\ IsInjective(m_coons') /\ ToSet(m_coons') = ToSet(m_coons) \cup {c}
  <2>1. Extended(Conn, m_coons, c, m_coons')
    BY <1>1, Added
  <2> QED
    BY <2>1 DEF Extended
<1>3. /\ conn' \in [Conn -> ConnRecord] /\ conn'[c].st = conn[c].st
      /\ conn'[c].m_request = conn[c].m_request + 1 /\ conn'[c].answers = <<>>
      /\ \A d \in Conn : d # c => conn'[d] = conn[d]
      /\ \A d \in Conn : conn'[d].st = conn[d].st
  <2> DEFINE r == [conn[c] EXCEPT !.m_request = @ + 1]
  <2>1. conn[c].m_request \in Nat /\ conn[c].m_request + 1 \in Nat
    BY <1>1 DEF ConnRecord
  <2>2. /\ r \in ConnRecord /\ r.st = conn[c].st
        /\ r.m_request = conn[c].m_request + 1 /\ r.answers = <<>>
    <3>1. \A k \in Nat : LET x == [conn[c] EXCEPT !.m_request = k]
                         IN /\ x \in ConnRecord /\ x.st = conn[c].st
                            /\ x.m_request = k /\ x.answers = conn[c].answers
      BY <1>1, Spending
    <3>2. conn[c].answers = <<>>
      OBVIOUS
    <3> QED
      BY <2>1, <3>1, <3>2
  <2>3. conn' = [conn EXCEPT ![c] = r]
    OBVIOUS
  <2> HIDE DEF r
  <2> QED
    BY <1>1, <2>2, <2>3
<1>4. /\ user' \in [PoolFibers -> UserRecord] /\ user'[f] = Away
      /\ \A g \in PoolFibers : g # f => user'[g] = user[g]
  BY <1>1
<1>5. Live' = Live
  BY <1>3 DEF Live, Conn
<1>6. PoolTypeOK'
  BY <1>2, <1>3, <1>4 DEF PoolInv, PoolTypeOK
<1>7. \A g \in PoolFibers \ {f} : user[g].conn # 0 =>
          user[g].conn \in Conn \ {c} /\ user[g].conn \in Live /\ user[g].conn \notin ToSet(m_coons)
  BY DEF PoolInv, OneOwner, Live, Conn
<1>8. Callers'
  <2>1. ASSUME NEW g \in PoolFibers \ {f}
        PROVE  Place(user'[g]) /\ (user'[g].conn # 0 => Unread(user'[g], conn'[user'[g].conn]))
    BY <1>3, <1>4, <1>7 DEF PoolInv, Callers
  <2> QED
    BY <1>1, <1>4, <2>1 DEF Callers
<1>9. OneOwner'
  <2>1. ToSet(m_coons') \subseteq Live'
    BY <1>2, <1>5 DEF PoolInv, OneOwner
  <2>2. ASSUME NEW g \in PoolFibers, user'[g].conn # 0
        PROVE  /\ user'[g].conn \in Live' \ ToSet(m_coons')
               /\ \A h \in PoolFibers : user'[h].conn = user'[g].conn => h = g
    <3>1. g # f /\ user'[g] = user[g]
      BY <1>1, <1>4, <2>2
    <3>2. \A h \in PoolFibers : user[h].conn = user[g].conn => h = g
      BY <2>2, <3>1, Zenon DEF PoolInv, OneOwner
    <3> QED
      BY <1>1, <1>2, <1>4, <1>5, <1>7, <2>2, <3>1, <3>2
  <2> QED
    BY <1>2, <2>1, <2>2 DEF OneOwner
<1>10. Carries'
  <2>1. ToSet(m_coons) \subseteq Conn /\ \A d \in ToSet(m_coons) : conn[d].answers = <<>>
    BY DEF PoolInv, Carries, OneOwner, Live, Conn
  <2>2. \A d \in ToSet(m_coons') : conn'[d].answers = <<>>
    BY <1>2, <1>3, <2>1
  <2>3. \A d \in Conn : /\ conn[d].m_request <= MaxRequest
                        /\ conn[d].st # "deleted" => conn[d].m_request < MaxRequest
    BY Zenon DEF PoolInv, Carries
  <2>4. conn[c].m_request \in Nat
    BY <1>1 DEF ConnRecord
  <2>5. conn'[c].m_request <= MaxRequest /\ conn'[c].m_request < MaxRequest
    BY <1>3, <2>4, PoolBounds
  <2>6. \A d \in Conn : /\ conn'[d].m_request <= MaxRequest
                        /\ conn'[d].st # "deleted" => conn'[d].m_request < MaxRequest
    BY <1>3, <2>3, <2>5
  <2> QED
    BY <2>2, <2>6, Zenon DEF Carries
<1>11. Tally'
  <2>1. \A g \in PoolFibers : user'[g].drop = user[g].drop
    BY <1>1, <1>4
  <2> QED
    BY <1>3, <1>5, <2>1, TallyStays
<1> QED
  BY <1>6, <1>8, <1>9, <1>10, <1>11 DEF PoolInv

\* ReleasePtr deletes the connection it gets, or puts it back.
LEMMA ReleaseKeeps == ASSUME PoolInv, NEW f \in PoolFibers, ReleasePtr(f) PROVE PoolInv'
<1> DEFINE c == user[f].conn
<1>1. /\ user[f].at = "release" /\ c # 0 /\ user[f].drop = {}
      /\ conn[c].answers = <<>> \/ conn[c].st # "connected"
  BY DEF PoolInv, Callers, Place, Unread, ReleasePtr
<1>2. c \in Conn /\ c \in Live /\ c \notin ToSet(m_coons) /\ \A g \in PoolFibers \ {f} : user[g].conn # c
  BY <1>1 DEF PoolInv, OneOwner, Live, Conn
<1>3. conn[c].m_request < MaxRequest /\ conn[c].m_request \in Nat
  BY <1>2 DEF PoolInv, PoolTypeOK, ConnRecord, Carries, Live
<1>4. CASE Spent(c)
  <2>1. /\ conn' = [conn EXCEPT ![c].st = "deleted", ![c].m_request = @ + 1]
        /\ user' = [user EXCEPT ![f] = [Away EXCEPT !.at = "deleted", !.drop = {c}]]
        /\ UNCHANGED <<m_coons, m_total, calls>>
    BY <1>4 DEF ReleasePtr
  <2> HIDE DEF c
  <2> QED
    BY <1>1, <1>2, <1>3, <2>1, DeleteKeeps DEF c
<1>5. CASE ~Spent(c)
  <2>1. /\ conn' = [conn EXCEPT ![c].m_request = @ + 1] /\ user' = [user EXCEPT ![f] = Away]
        /\ m_coons' = Append(m_coons, c) /\ UNCHANGED <<m_total, calls>>
    BY <1>5 DEF ReleasePtr
  <2>2. conn[c].m_request + 1 < MaxRequest /\ conn[c].answers = <<>>
    BY <1>1, <1>3, <1>5, PoolBounds DEF Spent, isConnected
  <2> HIDE DEF c
  <2> QED
    BY <1>1, <1>2, <2>1, <2>2, PutBackKeeps
<1> QED
  BY <1>4, <1>5

\* A connection that is made adds one to the count.
Grows ==
    \A c \in Conn \ (Live \cup Dropped) :
        Cardinality((Live \cup Dropped) \cup {c}) = Cardinality(Live \cup Dropped) + 1

\* Connect: it fails, or makes a connection nobody has had.
LEMMA ConnectKeeps == ASSUME PoolInv, Grows, NEW f \in PoolFibers, Connect(f) PROVE PoolInv'
<1>1. /\ user[f] \in UserRecord /\ user[f].at = "connect" /\ user[f].conn = 0
      /\ user[f].drop = {} /\ user[f].rsp = 0
      /\ user \in [PoolFibers -> UserRecord] /\ conn \in [Conn -> ConnRecord] /\ m_total \in Int
  BY DEF PoolInv, PoolTypeOK, Callers, Place, Connect
<1>2. CASE user' = [user EXCEPT ![f] = Away] /\ UNCHANGED <<m_total, conn, m_coons, calls>>
  <2>1. Away \in UserRecord /\ Away.conn = 0 /\ Away.drop = {} /\ Place(Away)
    BY DEF Away, UserRecord, Place
  <2>2. Owned' /\ Live' = Live
    BY <1>1, <1>2, <2>1, Walks
  <2>3. \A g \in PoolFibers : user'[g].drop = user[g].drop
    BY <1>1, <1>2, <2>1
  <2>4. Tally'
    BY <1>2, <2>2, <2>3, TallyStays
  <2> QED
    BY <2>2, <2>4 DEF Owned, PoolInv
<1>3. ASSUME NEW c \in Conn, conn[c].st = "none",
             conn' = [conn EXCEPT ![c] = [NotMade EXCEPT !.st = "connected", !.peer = TRUE]],
             m_total' = m_total + 1, user' = [user EXCEPT ![f].at = "send", ![f].conn = c],
             UNCHANGED <<m_coons, calls>>
      PROVE  PoolInv'
  <2> DEFINE u == [user[f] EXCEPT !.at = "send", !.conn = c]
             r == [NotMade EXCEPT !.st = "connected", !.peer = TRUE]
  <2>1. /\ u \in UserRecord /\ u.at = "send" /\ u.conn = c /\ u.drop = {} /\ u.rsp = 0
    BY <1>1 DEF UserRecord
  <2>2. /\ r \in ConnRecord /\ r.st = "connected" /\ r.m_request = 0 /\ r.answers = <<>>
    <3>1. NotMade \in ConnRecord /\ NotMade.m_request = 0 /\ NotMade.answers = <<>>
      <4>1. <<>> \in Seq(Nat)
        OBVIOUS
      <4> QED
        BY <4>1 DEF NotMade, ConnRecord
    <3> QED
      BY <3>1, Renewed
  <2>3. user' = [user EXCEPT ![f] = u] /\ conn' = [conn EXCEPT ![c] = r]
    BY <1>1, <1>3
  <2>4. Place(u) /\ Unread(u, r)
    BY <2>1, <2>2 DEF Place, Unread, Conn
  <2> HIDE DEF u, r
  <2>5. c \notin Live /\ c \notin Dropped
    BY <1>3 DEF Live, Dropped, PoolInv, Tally
  <2>6. c \notin ToSet(m_coons) /\ \A g \in PoolFibers \ {f} : user[g].conn # c
    <3>1. c # 0
      BY DEF Conn
    <3> QED
      BY <2>5, <3>1 DEF PoolInv, OneOwner
  <2>7. r.m_request <= MaxRequest /\ r.m_request < MaxRequest
    BY <2>2, PoolBounds
  <2>8. Owned'
    <3>1. m_total' \in Int /\ calls' = calls /\ m_coons' = m_coons
      BY <1>1, <1>3
    <3>2. u.conn \in {0, c} /\ r.st \in {"connected", "closed"}
      BY <2>1, <2>2
    <3>3. WorksOn(f, u, c, r)
      BY <2>1, <2>2, <2>4, <2>6, <2>7, <3>2 DEF WorksOn
    <3> QED
      BY <2>3, <3>1, <3>3, Works
  <2>9. \A d \in Conn : d # c => conn'[d] = conn[d]
    BY <1>1, <2>3
  <2>10. Live' = Live \cup {c}
    <3>1. \A d \in Conn : /\ d \in Live <=> conn[d].st \in {"connected", "closed"}
                          /\ d \in Live' <=> conn'[d].st \in {"connected", "closed"}
      BY DEF Live, Conn
    <3>2. \A d \in Conn : d \in Live' <=> d \in Live \/ d = c
      BY <1>1, <2>2, <2>3, <2>9, <3>1
    <3>3. Live \subseteq Conn /\ Live' \subseteq Conn
      BY DEF Live, Conn
    <3> QED
      BY <3>2, <3>3
  <2>11. \A g \in PoolFibers : user'[g].drop = user[g].drop
    BY <1>1, <2>1, <2>3
  <2>12. Dropped' = Dropped
    BY <2>11 DEF Dropped
  <2>13. Cardinality(Live' \cup Dropped') = Cardinality(Live \cup Dropped) + 1
    <3>1. Live' \cup Dropped' = (Live \cup Dropped) \cup {c} /\ c \notin Live \cup Dropped
      BY <2>5, <2>10, <2>12
    <3> QED
      BY <3>1 DEF Grows
  <2>14. m_total' = Cardinality(Live' \cup Dropped')
    BY <1>3, <2>13 DEF PoolInv, Tally
  <2>15. \A d \in Dropped' : conn'[d].st = "deleted"
    <3>1. \A d \in Dropped : d \in Conn /\ conn[d].st = "deleted"
      BY DEF PoolInv, Tally, Dropped
    <3> QED
      BY <2>5, <2>9, <2>12, <3>1
  <2>16. \A g, h \in PoolFibers : g # h => user'[g].drop \cap user'[h].drop = {}
    BY <2>11 DEF PoolInv, Tally
  <2>17. Tally'
    BY <2>14, <2>15, <2>16, Zenon DEF Tally
  <2> QED
    BY <2>8, <2>17 DEF Owned, PoolInv
<1> QED
  BY <1>2, <1>3 DEF Connect, Conn

INSTANCE FiniteSetTheorems

-----------------------------------------------------------------------------
(* getConnection(): the list is searched.                                  *)

\* A test over a sequence selects a place in it, or 0.
LEMMA Selected == ASSUME PoolTypeOK
                  PROVE  SelectInSeq(m_coons, LAMBDA c : ~Unfit(c)) \in 0..Len(m_coons)
<1> DEFINE I == {i \in 1..Len(m_coons) : ~Unfit(m_coons[i])}
<1>1. I \subseteq Nat /\ I \subseteq 1..Len(m_coons) /\ Len(m_coons) \in Nat
  BY DEF PoolTypeOK
<1>2. ASSUME I # {} PROVE Min(I) \in 1..Len(m_coons)
  <2>1. PICK x \in I : \A y \in I : ~(<<y, x>> \in OpToRel(<, Nat))
    BY <1>1, <1>2, WFMin, NatLessThanWellFounded, Zenon
  <2>2. ASSUME NEW y \in I, y < x PROVE FALSE
    <3>1. <<y, x>> \in Nat \X Nat /\ <<y, x>>[1] < <<y, x>>[2]
      BY <1>1, <2>2
    <3>2. <<y, x>> \in OpToRel(<, Nat)
      BY <3>1, Zenon DEF OpToRel
    <3> QED
      BY <2>1, <3>2, Zenon
  <2>3. \A y \in I : x <= y
    BY <1>1, <2>2
  <2> QED
    BY <1>1, <2>3 DEF Min
<1> QED
  BY <1>1, <1>2 DEF SelectInSeq

\* getConnection takes the connection `new', if there is one, and drops the
\* connections `bad' before it.
LEMMA GetStep ==
    ASSUME PoolInv, NEW f \in PoolFibers, getConnection(f)
    PROVE  \E bad \in SUBSET Conn, new \in Conn \cup {0} :
             /\ user[f].at = "none" /\ calls' = calls + 1 /\ m_total' = m_total
             /\ user' = [user EXCEPT ![f] = [at |-> "count", conn |-> new, drop |-> bad,
                                             id |-> calls + 1, rsp |-> 0]]
             /\ conn' = [c \in Conn |-> IF c \in bad THEN [conn[c] EXCEPT !.st = "deleted"]
                                       ELSE conn[c]]
             /\ m_coons' \in Seq(Conn) /\ IsInjective(m_coons')
             /\ ToSet(m_coons') \subseteq ToSet(m_coons) /\ bad \subseteq ToSet(m_coons)
             /\ bad \cap ToSet(m_coons') = {}
             /\ new # 0 => new \in ToSet(m_coons) /\ new \notin bad \cup ToSet(m_coons')
<1> DEFINE fit == SelectInSeq(m_coons, LAMBDA c : ~Unfit(c))
           n == IF fit = 0 THEN Len(m_coons) ELSE fit - 1
           bad == ToSet(SubSeq(m_coons, 1, n))
           new == IF fit = 0 THEN 0 ELSE m_coons[fit]
<1>1. fit \in 0..Len(m_coons) /\ Len(m_coons) \in Nat
  BY Selected DEF PoolInv, PoolTypeOK
<1>2. /\ user[f].at = "none" /\ calls' = calls + 1 /\ m_total' = m_total
      /\ m_coons' = SubSeq(m_coons, n + 2, Len(m_coons))
      /\ conn' = [c \in Conn |-> IF c \in bad THEN [conn[c] EXCEPT !.st = "deleted"] ELSE conn[c]]
      /\ user' = [user EXCEPT ![f] = [at |-> "count", conn |-> new, drop |-> bad,
                                      id |-> calls + 1, rsp |-> 0]]
  BY Zenon DEF getConnection, Conn
<1> HIDE DEF fit
<1>3. n \in 0..Len(m_coons) /\ (fit # 0 => n < Len(m_coons) /\ fit = n + 1)
  BY <1>1
<1>4. m_coons \in Seq(Conn) /\ IsInjective(m_coons) /\ ToSet(m_coons) \subseteq Conn
  BY DEF PoolInv, PoolTypeOK, OneOwner, Live, Conn
<1>5. bad = ToSet(SubSeq(m_coons, 1, n))
  OBVIOUS
<1> HIDE DEF n, bad
<1>6. /\ m_coons' \in Seq(Conn) /\ IsInjective(m_coons')
      /\ ToSet(m_coons') \subseteq ToSet(m_coons) /\ bad \subseteq ToSet(m_coons)
      /\ bad \cap ToSet(m_coons') = {}
      /\ n < Len(m_coons) => m_coons[n + 1] \in ToSet(m_coons)
                                /\ m_coons[n + 1] \notin bad \cup ToSet(m_coons')
  <2>1. n \in 0..Len(m_coons) /\ m_coons' = SubSeq(m_coons, n + 2, Len(m_coons))
    BY <1>2, <1>3
  <2>2. Sliced(Conn, m_coons, n, m_coons', bad)
    BY <1>4, <1>5, <2>1, Slice
  <2> QED
    BY <2>2 DEF Sliced
<1>7. new # 0 => new \in ToSet(m_coons) /\ new \notin bad \cup ToSet(m_coons')
  BY <1>3, <1>6
<1>8. bad \in SUBSET Conn /\ new \in Conn \cup {0}
  BY <1>4, <1>6, <1>7
<1> HIDE DEF new
<1> QED
  BY <1>2, <1>6, <1>7, <1>8, Zenon

\* getConnection keeps the invariant.
LEMMA GetKeeps == ASSUME PoolInv, NEW f \in PoolFibers, getConnection(f) PROVE PoolInv'
<1>1. PICK bad \in SUBSET Conn, new \in Conn \cup {0} :
             /\ user[f].at = "none" /\ calls' = calls + 1 /\ m_total' = m_total
             /\ user' = [user EXCEPT ![f] = [at |-> "count", conn |-> new, drop |-> bad,
                                             id |-> calls + 1, rsp |-> 0]]
             /\ conn' = [c \in Conn |-> IF c \in bad THEN [conn[c] EXCEPT !.st = "deleted"]
                                       ELSE conn[c]]
             /\ m_coons' \in Seq(Conn) /\ IsInjective(m_coons')
             /\ ToSet(m_coons') \subseteq ToSet(m_coons) /\ bad \subseteq ToSet(m_coons)
             /\ bad \cap ToSet(m_coons') = {}
             /\ new # 0 => new \in ToSet(m_coons) /\ new \notin bad \cup ToSet(m_coons')
  BY GetStep, Zenon
<1> DEFINE u == [at |-> "count", conn |-> new, drop |-> bad, id |-> calls + 1, rsp |-> 0]
<1>6. ToSet(m_coons) \subseteq Live /\ Live \subseteq Conn /\ 0 \notin Conn
  BY DEF PoolInv, OneOwner, Live, Conn
<1>9. /\ \A c \in Conn : /\ conn'[c].m_request = conn[c].m_request
                         /\ conn'[c].answers = conn[c].answers
                         /\ c \in bad => conn'[c].st = "deleted"
                         /\ c \notin bad => conn'[c] = conn[c]
      /\ conn' \in [Conn -> ConnRecord]
  <2>1. ASSUME NEW c \in Conn
        PROVE  /\ conn'[c].m_request = conn[c].m_request
               /\ conn'[c].answers = conn[c].answers
               /\ c \in bad => conn'[c].st = "deleted"
               /\ c \notin bad => conn'[c] = conn[c]
               /\ conn'[c] \in ConnRecord
    <3>1. conn[c] \in ConnRecord
      BY DEF PoolInv, PoolTypeOK
    <3>2. conn'[c] = IF c \in bad THEN [conn[c] EXCEPT !.st = "deleted"] ELSE conn[c]
      BY <1>1
    <3> QED
      BY <3>1, <3>2 DEF ConnRecord
  <2> QED
    BY <1>1, <2>1, Zenon
<1>10. /\ u \in UserRecord /\ user'[f] = u
       /\ \A g \in PoolFibers \ {f} : user'[g] = user[g]
       /\ user' \in [PoolFibers -> UserRecord]
  BY <1>1, <1>6, <1>1 DEF PoolInv, PoolTypeOK, UserRecord
<1>11. PoolTypeOK'
  BY <1>1, <1>9, <1>10 DEF PoolInv, PoolTypeOK
<1>12. Live' = Live \ bad
  <2>1. \A c \in Conn : c \in Live' <=> c \in Live /\ c \notin bad
    <3>1. \A c \in Conn : /\ c \in Live <=> conn[c].st \in {"connected", "closed"}
                          /\ c \in Live' <=> conn'[c].st \in {"connected", "closed"}
      BY DEF Live, Conn
    <3> QED
      BY <1>9, <3>1, Zenon
  <2>2. Live' \subseteq Conn
    BY DEF Live, Conn
  <2> QED
    BY <1>6, <2>1, <2>2
<1>13. \A g \in PoolFibers \ {f} : user[g].conn # 0 =>
          user[g].conn \in Live /\ user[g].conn \notin ToSet(m_coons)
  BY DEF PoolInv, OneOwner
<1>14. OneOwner'
  <2>1. ToSet(m_coons') \subseteq Live'
    BY <1>1, <1>6, <1>12
  <2>2. ASSUME NEW g \in PoolFibers, user'[g].conn # 0
        PROVE  /\ user'[g].conn \in Live' \ ToSet(m_coons')
               /\ \A h \in PoolFibers : user'[h].conn = user'[g].conn => h = g
    <3>1. CASE g = f
      BY <1>1, <1>6, <1>10, <1>12, <1>13, <2>2, <3>1
    <3>2. CASE g # f
      <4>1. user'[g].conn = user[g].conn /\ user[g].conn # 0
        BY <1>10, <2>2, <3>2
      <4>2. /\ user[g].conn \in Live /\ user[g].conn \notin ToSet(m_coons)
            /\ \A h \in PoolFibers : user[h].conn = user[g].conn => h = g
        BY <4>1, Zenon DEF PoolInv, OneOwner
      <4>3. user'[f].conn = new
        BY <1>10
      <4>4. new # user[g].conn
        BY <1>1, <4>1, <4>2
      <4> QED
        BY <1>1, <1>10, <1>12, <3>2, <4>1, <4>2, <4>3, <4>4
    <3> QED
      BY <3>1, <3>2
  <2> QED
    BY <1>1, <2>1, <2>2 DEF OneOwner
<1>15. Callers'
  <2>1. ASSUME NEW g \in PoolFibers \ {f}
        PROVE  /\ Place(user'[g])
               /\ user'[g].conn # 0 => Unread(user'[g], conn'[user'[g].conn])
    <3>1. user[g].conn # 0 => conn'[user[g].conn] = conn[user[g].conn]
      BY <1>1, <1>6, <1>9, <1>13
    <3> QED
      BY <1>10, <3>1 DEF PoolInv, Callers
  <2>2. Place(u)
    BY DEF Place
  <2>3. ASSUME new # 0 PROVE Unread(u, conn'[new])
    <3>1. conn'[new].answers = <<>>
      BY <1>6, <1>1, <1>9, <2>3 DEF PoolInv, Carries
    <3> QED
      BY <3>1 DEF Unread
  <2> QED
    BY <1>10, <2>1, <2>2, <2>3 DEF Callers
<1>16. Carries'
  <2>1. \A c \in ToSet(m_coons') : conn'[c].answers = <<>>
    BY <1>1, <1>6, <1>9 DEF PoolInv, Carries
  <2>2. \A c \in Conn : /\ conn'[c].m_request <= MaxRequest
                        /\ conn'[c].st # "deleted" => conn'[c].m_request < MaxRequest
    <3>1. \A c \in Conn : /\ conn[c].m_request <= MaxRequest
                          /\ conn[c].st # "deleted" => conn[c].m_request < MaxRequest
      BY Zenon DEF PoolInv, Carries
    <3> QED
      BY <1>9, <3>1, Zenon
  <2> QED
    BY <2>1, <2>2, Zenon DEF Carries, Conn
<1>17. Tally'
  <2>1. user[f].drop = {}
    BY <1>1 DEF PoolInv, Callers, Place
  <2>2. Dropped' = Dropped \cup bad
    BY <1>1, <1>6, <1>10, <2>1 DEF Dropped
  <2>3. Live' \cup Dropped' = Live \cup Dropped
    BY <1>1, <1>6, <1>12, <2>2
  <2>4. \A g \in PoolFibers \ {f} : user[g].drop \cap bad = {}
    <3>1. \A c \in bad : c \in Conn /\ conn[c].st # "deleted"
      BY <1>1, <1>6 DEF Live
    <3>2. ASSUME NEW g \in PoolFibers, NEW c \in Conn, c \in user[g].drop PROVE conn[c].st = "deleted"
      BY <3>2 DEF PoolInv, Tally, Dropped
    <3> QED
      BY <3>1, <3>2
  <2>5. \A c \in Dropped' : conn'[c].st = "deleted"
    BY <1>1, <1>6, <1>9, <2>2 DEF PoolInv, Tally, Dropped
  <2>6. \A g, h \in PoolFibers : g # h => user'[g].drop \cap user'[h].drop = {}
    <3>1. \A g, h \in PoolFibers : g # h => user[g].drop \cap user[h].drop = {}
      BY Zenon DEF PoolInv, Tally
    <3> QED
      BY <1>10, <2>4, <3>1
  <2>7. m_total' = Cardinality(Live' \cup Dropped')
    BY <1>1, <2>3 DEF PoolInv, Tally
  <2> QED
    BY <2>5, <2>6, <2>7, Zenon DEF Tally
<1> QED
  BY <1>11, <1>14, <1>15, <1>16, <1>17 DEF PoolInv

-----------------------------------------------------------------------------
(* The count: what is deleted is taken off, what is made is added.         *)

\* The connections in the count are finitely many.
LEMMA Finite == ASSUME PoolTypeOK
                PROVE  IsFiniteSet(Live \cup Dropped)
<1>1. Live \cup Dropped \in SUBSET (1..MaxConnections)
  BY DEF Live, Dropped, Conn
<1>2. IsFiniteSet(1..MaxConnections)
  BY FS_Interval
<1> QED
  BY <1>1, <1>2, FS_Subset

LEMMA CountGrows == ASSUME PoolTypeOK PROVE Grows
  BY Finite, FS_AddElement DEF Grows

\* Counting what one caller has deleted.
LEMMA Uncounts ==
    ASSUME PoolInv, NEW f \in PoolFibers, NEW u, u.drop = {},
           user' = [user EXCEPT ![f] = u], conn' = conn,
           m_total' = m_total - Cardinality(user[f].drop)
    PROVE  Tally' /\ m_total' \in Int
<1> DEFINE drop == user[f].drop
<1>1. /\ user'[f].drop = {} /\ drop \subseteq Conn
      /\ \A g \in PoolFibers : g # f => user'[g].drop = user[g].drop
  BY DEF PoolInv, PoolTypeOK, UserRecord
<1>2. \A g, h \in PoolFibers : g # h => user[g].drop \cap user[h].drop = {}
  BY Zenon DEF PoolInv, Tally
<1>3. Live' = Live
  BY DEF Live
<1>4. Dropped' = Dropped \ drop
  BY <1>1, <1>2 DEF Dropped
<1>5. drop \subseteq Dropped
  BY <1>1 DEF Dropped
<1>6. \A c \in Dropped : c \in Conn /\ conn[c].st = "deleted"
  BY DEF PoolInv, Tally, Dropped
<1>7. drop \cap Live = {}
  BY <1>5, <1>6 DEF Live
<1>8. /\ (Live \cup Dropped) \ drop = Live' \cup Dropped'
      /\ (Live \cup Dropped) \cap drop = drop
  BY <1>3, <1>4, <1>5, <1>7
<1> HIDE DEF drop
<1>9. IsFiniteSet(Live \cup Dropped) /\ m_total = Cardinality(Live \cup Dropped)
  BY Finite DEF PoolInv, Tally
<1>10. /\ Cardinality((Live \cup Dropped) \ drop)
            = Cardinality(Live \cup Dropped) - Cardinality((Live \cup Dropped) \cap drop)
       /\ IsFiniteSet((Live \cup Dropped) \ drop)
  BY <1>9, FS_Difference
<1>11. m_total' = Cardinality(Live' \cup Dropped')
  BY <1>8, <1>9, <1>10 DEF drop
<1>12. \A c \in Dropped' : conn'[c].st = "deleted"
  BY <1>4, <1>6
<1>13. \A g, h \in PoolFibers : g # h => user'[g].drop \cap user'[h].drop = {}
  BY <1>1, <1>2
<1>14. m_total' \in Int
  BY <1>8, <1>10, <1>11, FS_CardinalityType
<1> QED
  BY <1>11, <1>12, <1>13, <1>14, Zenon DEF Tally

\* Counted, a failed Connect and Uncounted: the caller alone moves.
LEMMA CountingKeeps ==
    ASSUME PoolInv, NEW f \in PoolFibers, Counted(f) \/ Uncounted(f)
    PROVE  PoolInv'
<1>1. user[f] \in UserRecord /\ Place(user[f])
  BY DEF PoolInv, PoolTypeOK, Callers
<1>2. user \in [PoolFibers -> UserRecord]
  BY DEF PoolInv, PoolTypeOK
<1>3. CASE Counted(f)
  <2> DEFINE u == [user[f] EXCEPT !.at = IF user[f].conn = 0 THEN "connect" ELSE "send", !.drop = {}]
  <2>1. u \in UserRecord /\ u.conn = user[f].conn /\ u.drop = {}
    BY <1>1 DEF UserRecord
  <2>2. /\ user' = [user EXCEPT ![f] = u] /\ UNCHANGED <<m_coons, conn, calls>>
        /\ m_total' = m_total - Cardinality(user[f].drop)
    BY <1>2, <1>3 DEF Counted
  <2>3. Place(u) /\ (u.conn # 0 => Unread(u, conn[u.conn]))
    BY <1>1, <1>3 DEF Place, Unread, Counted, PoolInv, Callers, UserRecord
  <2> HIDE DEF u
  <2>4. Tally' /\ m_total' \in Int
    BY <2>1, <2>2, Uncounts
  <2>5. Owned'
    BY <2>1, <2>2, <2>3, <2>4, Walks
  <2> QED
    BY <2>4, <2>5 DEF Owned, PoolInv
<1>4. CASE Uncounted(f)
  <2>1. Away \in UserRecord /\ Away.conn = 0 /\ Away.drop = {} /\ Place(Away)
    BY DEF Away, UserRecord, Place
  <2>2. user[f].at = "deleted" /\ user[f].conn = 0
    BY <1>1, <1>4 DEF Uncounted, Place
  <2>3. PICK c \in Conn : user[f].drop = {c}
    BY <1>1, <2>2 DEF Place
  <2>4. Cardinality(user[f].drop) = 1
    BY <2>3, FS_Singleton
  <2>5. /\ user' = [user EXCEPT ![f] = Away] /\ UNCHANGED <<m_coons, conn, calls>>
        /\ m_total' = m_total - Cardinality(user[f].drop)
    BY <1>4, <2>4 DEF Uncounted
  <2>6. Tally' /\ m_total' \in Int
    BY <2>1, <2>5, Uncounts
  <2>7. Owned'
    BY <2>1, <2>2, <2>5, <2>6, Walks
  <2> QED
    BY <2>6, <2>7 DEF Owned, PoolInv
<1> QED
  BY <1>3, <1>4

-----------------------------------------------------------------------------
(* The theorems.                                                           *)

\* PoolInv is an inductive invariant of the pool: through getConnection, doRequest
\* and ReleasePtr the list, m_total and the callers stay tied together.
THEOREM PoolInductive == PoolSpec => []PoolInv
<1>1. PoolInit => PoolInv
  <2> SUFFICES ASSUME PoolInit PROVE PoolInv
    OBVIOUS
  <2>1. NotMade \in ConnRecord /\ Away \in UserRecord /\ <<>> \in Seq(Conn)
    <3>1. <<>> \in Seq(Nat) /\ <<>> \in Seq(Conn)
      OBVIOUS
    <3> QED
      BY <3>1 DEF NotMade, ConnRecord, Away, UserRecord
  <2>2. PoolTypeOK
    BY <2>1 DEF PoolInit, PoolTypeOK, Conn
  <2>3. /\ ToSet(<<>>) = {} /\ IsInjective(<<>>)
    BY DEF ToSet, IsInjective
  <2>4. Live = {} /\ Dropped = {}
    BY DEF PoolInit, Live, Dropped, NotMade, Away
  <2>5. Callers
    BY DEF PoolInit, Callers, Place, Away
  <2>6. OneOwner
    BY <2>3, <2>4 DEF PoolInit, OneOwner, Away
  <2>7. \A c \in Conn : conn[c] = NotMade
    BY DEF PoolInit, Conn
  <2>8. Carries
    <3>1. NotMade.m_request <= MaxRequest /\ NotMade.m_request < MaxRequest
      BY PoolBounds DEF NotMade
    <3>2. m_coons = <<>>
      BY DEF PoolInit
    <3> QED
      BY <2>3, <2>7, <3>1, <3>2, Zenon DEF Carries
  <2>9. Tally
    <3>1. m_total = Cardinality(Live \cup Dropped)
      BY <2>4, FS_EmptySet DEF PoolInit
    <3>2. \A f \in PoolFibers : user[f].drop = {}
      BY DEF PoolInit, Away
    <3> QED
      BY <2>4, <3>1, <3>2 DEF Tally
  <2> QED
    BY <2>2, <2>5, <2>6, <2>8, <2>9 DEF PoolInv
<1>2. PoolInv /\ [PoolNext]_poolVars => PoolInv'
  <2> SUFFICES ASSUME PoolInv, [PoolNext]_poolVars PROVE PoolInv'
    OBVIOUS
  <2>1. CASE UNCHANGED poolVars
    <3>1. UNCHANGED Live /\ UNCHANGED Dropped
      BY <2>1 DEF poolVars, Live, Dropped
    <3>2. PoolTypeOK' /\ Callers' /\ Carries'
      BY <2>1 DEF poolVars, PoolInv, PoolTypeOK, Callers, Carries
    <3>3. OneOwner' /\ Tally'
      BY <2>1, <3>1 DEF poolVars, PoolInv, OneOwner, Tally
    <3> QED
      BY <3>2, <3>3 DEF PoolInv
  <2>2. ASSUME NEW f \in PoolFibers,
               \/ getConnection(f) \/ Counted(f) \/ Connect(f)
               \/ sendRequest(f) \/ recvResponse(f) \/ ReleasePtr(f) \/ Uncounted(f)
        PROVE  PoolInv'
    <3>1. Grows
      BY CountGrows DEF PoolInv
    <3> QED
      BY <2>2, <3>1, GetKeeps, CountingKeeps, ConnectKeeps, HolderKeeps, ReleaseKeeps
  <2>3. ASSUME NEW c \in Conn, PeerCloses(c) PROVE PoolInv'
    BY <2>3, PeerKeeps
  <2> QED
    BY <2>1, <2>2, <2>3 DEF PoolNext, Conn
<1> QED
  BY <1>1, <1>2, PTL DEF PoolSpec

\* The pool counts its connections, gives each to one caller, never beyond its
\* number of requests, and returns to a caller the answer to its own request
\* (http_connection.cpp 188-262, 340-380), whatever the callers and the server
\* do.
THEOREM PoolIsRight == PoolSpec => []PoolRight
<1>1. PoolInv => TotalExact
  <2> SUFFICES ASSUME PoolInv, \A f \in PoolFibers : user[f].at \notin {"count", "deleted"}
               PROVE  m_total = Cardinality(Live)
    BY DEF TotalExact
  <2>1. Dropped = {}
    BY DEF Dropped, PoolInv, Callers, Place
  <2>2. Live \cup Dropped = Live
    BY <2>1
  <2> QED
    BY <2>2 DEF PoolInv, Tally
<1>2. PoolInv => OwnAnswer
  BY DEF PoolInv, Callers, Place, OwnAnswer
<1>3. PoolInv => RequestsBounded
  BY Zenon DEF PoolInv, Carries, RequestsBounded, Conn
<1>4. PoolInv => PoolRight
  BY <1>1, <1>2, <1>3 DEF PoolRight, PoolInv
<1> QED
  BY <1>4, PoolInductive, PTL

=============================================================================
