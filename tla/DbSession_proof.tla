-------------------------- MODULE DbSession_proof --------------------------
(***************************************************************************)
(* Proofs about the pool of mysql connections and the units of rows that   *)
(* its users write, for any finite sets of users and connections and any   *)
(* pool_size.                                                              *)
(*                                                                         *)
(* The pool: the inductive invariant has a part about places (the lock,    *)
(* where each connection is, that none of them is deleted) and a part that *)
(* counts permits; what is deleted cannot be reached because of the first, *)
(* that get_connect finds a connection until a pool is destroyed follows   *)
(* from the second.                                                        *)
(*                                                                         *)
(* The units: the rows of a user that is careful are in the transaction of *)
(* its own connection and nowhere else until the unit ends; while that     *)
(* connection is up it is the one the transaction was begun on, because    *)
(* nothing but unlock_table and get_connect renews a connection; and no    *)
(* other user has it (IInv, the invariant of the pool).  What mysql refuses *)
(* one user changes nothing for the others.                                *)
(***************************************************************************)
EXTENDS DbSession, ProofLemmas, SequenceTheorems

-----------------------------------------------------------------------------
(* The pool                                                                *)

\* The labels at which a user owns _lock.
LockHeld ==
  \A u \in Users :
    pc[u] \in {"g_pop", "g_unlock", "r_push", "r_unlock"} => _lock = u

\* Connections in the list or with a user have been made and not deleted.
Alive ==
  /\ \A i \in 1..Len(_conn_pool) : link[_conn_pool[i]] \in {"up", "down"}
  /\ \A u \in Users : conn[u] # NoConn => link[conn[u]] \in {"up", "down"}

IInv == /\ TypeOK /\ LockHeld /\ OnePlace /\ Alive
        /\ PermitsMatch /\ BrokenAfterDestroy

Coming  == At({"g_lock", "g_pop"})      \* with a permit, not yet at the list
Leaving == At({"r_unlock", "r_post"})   \* in the list, permit not yet posted

-----------------------------------------------------------------------------
(* Counts                                                                  *)

LEMMA AtNat == \A L : At(L) \in Nat /\ \A u \in Users : pc[u] \in L => At(L) > 0
<1> QED BY PoolAssumption, CountNat DEF At

LEMMA AtNatNext == \A L : At(L)' \in Nat
<1> QED BY PoolAssumption, CountNat DEF At

LEMMA GotoCounts ==
  ASSUME TypeOK, NEW u \in Users, NEW from, NEW to, Goto(u, from, to)
  PROVE  \A L : /\ At(L) \in Nat /\ At(L)' \in Nat
                /\ from \notin L /\ to \in L => At(L)' = At(L) + 1
                /\ from \in L /\ to \notin L => At(L)' = At(L) - 1
                /\ (from \in L <=> to \in L) => At(L)' = At(L)
<1> SUFFICES ASSUME NEW L
             PROVE  /\ At(L) \in Nat /\ At(L)' \in Nat
                    /\ from \notin L /\ to \in L => At(L)' = At(L) + 1
                    /\ from \in L /\ to \notin L => At(L)' = At(L) - 1
                    /\ (from \in L <=> to \in L) => At(L)' = At(L)
  OBVIOUS
<1>1. /\ pc[u] = from /\ pc'[u] = to
      /\ \A v \in Users \ {u} : pc'[v] = pc[v]
  BY DEF TypeOK, Goto
<1>2. At(L) \in Nat BY AtNat
<1>3. At(L)' \in Nat BY AtNatNext
<1>4. from \notin L /\ to \in L => At(L)' = At(L) + 1
  BY <1>1, CountEnter, PoolAssumption DEF At
<1>5. ASSUME from \in L, to \notin L PROVE At(L)' = At(L) - 1
  <2> DEFINE a == Cardinality({v \in Users : pc[v] \in L})
             b == Cardinality({v \in Users : pc'[v] \in L})
  <2>1. a = b + 1
    BY SMTT(60), <1>1, <1>5, CountLeave, PoolAssumption
  <2>2. a \in Nat /\ b \in Nat BY PoolAssumption, CountNat
  <2>3. b = a - 1
    <3> HIDE DEF a, b
    <3> QED BY <2>1, <2>2
  <2> QED BY <2>3 DEF At
<1>6. (from \in L <=> to \in L) => At(L)' = At(L)
  BY <1>1, CountSame DEF At
<1> QED BY <1>2, <1>3, <1>4, <1>5, <1>6

-----------------------------------------------------------------------------
(* The initial states                                                      *)

LEMMA IInvInit == Init => IInv
<1> SUFFICES ASSUME Init PROVE IInv OBVIOUS
<1>1. TypeOK
  <2>1. <<>> \in Seq(Conns) /\ 0 \in Nat BY EmptySeq
  <2> QED BY <2>1 DEF Init, TypeOK, Labels
<1>2. LockHeld /\ OnePlace /\ Alive /\ BrokenAfterDestroy
  <2>1. Len(_conn_pool) = 0 /\ Contents = {} BY EmptySeq DEF Init, Contents
  <2> QED
    BY <2>1 DEF Init, LockHeld, OnePlace, Alive, BrokenAfterDestroy
<1>3. PermitsMatch
  <2>1. \A L : "out" \notin L => At(L) = 0
    <3> SUFFICES ASSUME NEW L, "out" \notin L PROVE At(L) = 0 OBVIOUS
    <3>1. {u \in Users : pc[u] \in L} = {} BY DEF Init
    <3> QED BY <3>1, FS_EmptySet DEF At
  <2>2. At({"g_lock", "g_pop"}) = 0 /\ At({"r_unlock", "r_post"}) = 0
    BY <2>1
  <2> QED BY <2>2 DEF Init, PermitsMatch
<1> QED BY <1>1, <1>2, <1>3 DEF IInv

-----------------------------------------------------------------------------
(* Steps that leave the list alone                                         *)

Quietly(u) ==
  \/ GetCall(u) \/ GetInterrupted(u) \/ GetWait(u) \/ GetLock(u) \/ GetUnlock(u)
  \/ ReleaseCall(u) \/ ReleaseLock(u) \/ ReleaseUnlock(u) \/ ReleasePost(u)

LEMMA QuietPlaces ==
  ASSUME IInv, NEW u \in Users, Quietly(u)
  PROVE  TypeOK' /\ LockHeld' /\ OnePlace' /\ Alive' /\ BrokenAfterDestroy'
<1> USE DEF Goto
<1>1. TypeOK'
  <2> USE DEF IInv, TypeOK, Labels, GetLabels, ReleaseLabels
  <2>1. CASE GetCall(u) \/ GetInterrupted(u) BY <2>1 DEF GetCall, GetInterrupted
  <2>2. CASE GetWait(u)
    <3>1. _sem' \in Nat BY <2>2 DEF GetWait
    <3> QED BY <2>2, <3>1 DEF GetWait
  <2>3. CASE GetLock(u) BY <2>3 DEF GetLock
  <2>4. CASE GetUnlock(u) BY <2>4 DEF GetUnlock
  <2>5. CASE ReleaseCall(u) BY <2>5 DEF ReleaseCall
  <2>6. CASE ReleaseLock(u) BY <2>6 DEF ReleaseLock
  <2>7. CASE ReleaseUnlock(u) BY <2>7 DEF ReleaseUnlock
  <2>8. CASE ReleasePost(u)
    <3>1. _sem' \in Nat BY <2>8 DEF ReleasePost
    <3> QED BY <2>8, <3>1 DEF ReleasePost
  <2> QED BY <2>1, <2>2, <2>3, <2>4, <2>5, <2>6, <2>7, <2>8 DEF Quietly
<1>2. LockHeld'
  BY PoolAssumption
     DEF Quietly, IInv, TypeOK, LockHeld, GetCall, GetInterrupted, GetWait, GetLock, GetUnlock,
         ReleaseCall, ReleaseLock, ReleaseUnlock, ReleasePost
<1>3. UNCHANGED <<_conn_pool, conn, link, stale, broken>>
  BY DEF Quietly, GetCall, GetInterrupted, GetWait, GetLock, GetUnlock, ReleaseCall,
         ReleaseLock, ReleaseUnlock, ReleasePost
<1>4. OnePlace' /\ Alive' /\ BrokenAfterDestroy'
  BY <1>3 DEF IInv, OnePlace, Contents, Alive, BrokenAfterDestroy
<1> QED BY <1>1, <1>2, <1>4

LEMMA QuietCounts ==
  ASSUME IInv, NEW u \in Users, Quietly(u)
  PROVE  PermitsMatch'
<1> DEFINE Permits == _sem + Coming + Leaving
<1>1. /\ Coming \in Nat /\ Coming' \in Nat
      /\ Leaving \in Nat /\ Leaving' \in Nat
      /\ _sem \in Nat
  <2>1. /\ Coming \in Nat /\ Leaving \in Nat
    BY AtNat DEF Coming, Leaving
  <2>2. Coming' \in Nat /\ Leaving' \in Nat
    BY AtNatNext DEF Coming, Leaving
  <2> QED BY <2>1, <2>2 DEF IInv, TypeOK
<1>2. TypeOK BY DEF IInv
<1>3. CASE GetWait(u)
  <2>1. Coming' = Coming + 1 /\ Leaving' = Leaving
    BY <1>2, <1>3, GotoCounts DEF GetWait, Coming, Leaving
  <2>2. _sem' = _sem - 1 /\ _conn_pool' = _conn_pool /\ stale' = stale
    BY <1>3 DEF GetWait
  <2>3. Permits' = Permits BY <1>1, <2>1, <2>2
  <2> QED BY <2>2, <2>3 DEF IInv, PermitsMatch, Coming, Leaving
<1>4. CASE ReleasePost(u)
  <2>1. Coming' = Coming /\ Leaving' = Leaving - 1
    BY <1>2, <1>4, GotoCounts DEF ReleasePost, Coming, Leaving
  <2>2. _sem' = _sem + 1 /\ _conn_pool' = _conn_pool /\ stale' = stale
    BY <1>4 DEF ReleasePost
  <2>3. Permits' = Permits BY <1>1, <2>1, <2>2
  <2> QED BY <2>2, <2>3 DEF IInv, PermitsMatch, Coming, Leaving
<1>5. CASE GetCall(u) \/ GetInterrupted(u) \/ GetLock(u) \/ GetUnlock(u) \/ ReleaseCall(u)
             \/ ReleaseLock(u) \/ ReleaseUnlock(u)
  <2>1. \/ Goto(u, "out", "g_wait") \/ Goto(u, "g_wait", "out")
        \/ Goto(u, "g_lock", "g_pop")
        \/ Goto(u, "g_unlock", "g_ping") \/ Goto(u, "use", "r_lock")
        \/ Goto(u, "r_lock", "r_push") \/ Goto(u, "r_unlock", "r_post")
    BY <1>5 DEF GetCall, GetInterrupted, GetLock, GetUnlock, ReleaseCall, ReleaseLock,
                ReleaseUnlock
  <2>2. Coming' = Coming /\ Leaving' = Leaving
    BY <1>2, <2>1, GotoCounts DEF Coming, Leaving
  <2>3. UNCHANGED <<_sem, _conn_pool, stale>>
    BY <1>5 DEF GetCall, GetInterrupted, GetLock, GetUnlock, ReleaseCall, ReleaseLock,
                ReleaseUnlock
  <2> QED BY <2>2, <2>3 DEF IInv, PermitsMatch, Coming, Leaving
<1> QED BY <1>3, <1>4, <1>5 DEF Quietly

-----------------------------------------------------------------------------
(* get_connect and release_connect at the list                             *)

LEMMA PopStep ==
  ASSUME IInv, NEW u \in Users, GetPop(u)
  PROVE  IInv'
<1> DEFINE s == _conn_pool
<1>1. /\ s \in Seq(Conns) /\ s # <<>> /\ s' = Tail(s)
      /\ conn' = [conn EXCEPT ![u] = Head(s)] /\ conn[u] = NoConn
      /\ UNCHANGED <<_sem, _lock, link, stale, broken>>
  BY DEF IInv, TypeOK, GetPop, Goto
<1>2. /\ Head(s) \in Conns /\ Head(s) = s[1] /\ Tail(s) \in Seq(Conns)
      /\ Len(s) \in Nat /\ Len(s) > 0 /\ Len(s') = Len(s) - 1
      /\ \A i \in 1..Len(s') : s'[i] = s[i + 1] /\ i + 1 \in 1..Len(s)
  BY <1>1, HeadTailProperties, LenProperties
<1>3. TypeOK'
  <2>1. /\ pc' = [pc EXCEPT ![u] = "g_unlock"]
        /\ pc' \in [Users -> Labels] /\ conn' \in [Users -> Conns \cup {NoConn}]
    BY <1>1, <1>2
       DEF GetPop, Goto, IInv, TypeOK, Labels, GetLabels, ReleaseLabels
  <2>2. ASSUME NEW v \in Users
        PROVE  pc'[v] \in {"g_unlock", "g_ping", "use", "r_lock", "r_push"}
                 <=> conn'[v] # NoConn
    BY <1>1, <1>2, <2>1, PoolAssumption DEF IInv, TypeOK
  <2> QED BY <1>1, <1>2, <2>1, <2>2 DEF IInv, TypeOK
<1>4. LockHeld'
  BY PoolAssumption DEF GetPop, Goto, IInv, TypeOK, LockHeld
<1>5. OnePlace'
  <2>1. \A v \in Users : conn[v] # s[1]
    BY <1>2 DEF IInv, OnePlace, Contents
  <2>2. \A i \in 1..Len(s') : s'[i] # s[1]
    BY <1>2 DEF IInv, OnePlace
  <2>3. \A v, w \in Users : conn'[v] = conn'[w] /\ conn'[v] # NoConn => v = w
    BY <1>1, <1>2, <2>1 DEF IInv, TypeOK, OnePlace
  <2>4. \A v \in Users : \A i \in 1..Len(s') : conn'[v] # s'[i]
    BY <1>1, <1>2, <2>2 DEF IInv, TypeOK, OnePlace, Contents
  <2>5. \A i, j \in 1..Len(s') : s'[i] = s'[j] => i = j
    <3> SUFFICES ASSUME NEW i \in 1..Len(s'), NEW j \in 1..Len(s'), s'[i] = s'[j]
                 PROVE  i = j
      OBVIOUS
    <3>1. i + 1 = j + 1 BY <1>2, SMTT(60) DEF IInv, OnePlace
    <3> QED BY <3>1
  <2> QED BY <2>3, <2>4, <2>5 DEF OnePlace, Contents
<1>6. Alive'
  <2>1. link[s[1]] \in {"up", "down"} BY <1>2 DEF IInv, Alive
  <2> QED BY <1>1, <1>2, <2>1 DEF IInv, TypeOK, Alive
<1>7. PermitsMatch'
  <2>1. Coming' = Coming - 1 /\ Leaving' = Leaving
    BY GotoCounts DEF IInv, GetPop, Coming, Leaving
  <2>2. Coming \in Nat /\ Leaving \in Nat
    BY AtNat DEF Coming, Leaving
  <2>3. _sem \in Nat /\ stale \in Nat BY DEF IInv, TypeOK
  <2>4. _sem + Coming + Leaving = Len(s) + stale
    BY DEF IInv, PermitsMatch, Coming, Leaving
  <2>5. Len(s) \in Nat /\ Len(s') = Len(s) - 1 BY <1>2
  <2>6. _sem + Coming' + Leaving = Len(s') + stale
    <3>1. _sem + (Coming - 1) + Leaving = (Len(s) - 1) + stale
      BY <2>2, <2>3, <2>4, <2>5
    <3> QED BY <2>1, <2>5, <3>1
  <2> QED BY <1>1, <2>1, <2>6 DEF PermitsMatch, Coming, Leaving
<1>8. BrokenAfterDestroy' BY <1>1 DEF IInv, BrokenAfterDestroy
<1> QED BY <1>3, <1>4, <1>5, <1>6, <1>7, <1>8 DEF IInv

\* A pop from the empty list needs a permit that no connection stands for,
\* and only destroy_pool leaves such permits.
LEMMA PopEmptyStep ==
  ASSUME IInv, NEW u \in Users, GetPopEmpty(u)
  PROVE  IInv'
<1>1. /\ UNCHANGED <<_conn_pool, _sem, _lock, link, pc, conn, stale>>
      /\ broken' = TRUE /\ _conn_pool = <<>> /\ pc[u] = "g_pop"
  BY DEF GetPopEmpty
<1>2. TypeOK' /\ LockHeld' /\ OnePlace' /\ Alive' /\ PermitsMatch'
  BY <1>1 DEF IInv, TypeOK, LockHeld, OnePlace, Contents, Alive, PermitsMatch, At
<1>3. stale > 0
  <2>1. Coming \in Nat /\ Coming > 0 /\ Leaving \in Nat
    BY <1>1, AtNat DEF Coming, Leaving
  <2>2. Len(_conn_pool) = 0 BY <1>1, EmptySeq
  <2>3. _sem + Coming + Leaving = 0 + stale
    BY <2>2 DEF IInv, PermitsMatch, Coming, Leaving
  <2>4. _sem \in Nat /\ stale \in Nat BY DEF IInv, TypeOK
  <2> QED BY <2>1, <2>3, <2>4
<1>4. BrokenAfterDestroy' BY <1>1, <1>3 DEF BrokenAfterDestroy
<1> QED BY <1>2, <1>4 DEF IInv

LEMMA PushStep ==
  ASSUME IInv, NEW u \in Users, ReleasePush(u)
  PROVE  IInv'
<1> DEFINE s == _conn_pool
<1>1. /\ s \in Seq(Conns) /\ conn[u] \in Conns /\ conn[u] # NoConn
      /\ s' = Append(s, conn[u])
      /\ conn' = [conn EXCEPT ![u] = NoConn]
      /\ UNCHANGED <<_sem, _lock, link, stale, broken>>
  BY DEF IInv, TypeOK, ReleasePush, Goto
<1>2. /\ s' \in Seq(Conns) /\ Len(s) \in Nat /\ Len(s') = Len(s) + 1
      /\ s'[Len(s) + 1] = conn[u]
      /\ \A i \in 1..Len(s) : s'[i] = s[i]
  BY <1>1, AppendProperties, LenProperties
<1>a. \A i \in 1..Len(s') : i \in 1..Len(s) \/ i = Len(s) + 1
  BY <1>2
<1>3. TypeOK'
  BY <1>1, <1>2, PoolAssumption
     DEF ReleasePush, Goto, IInv, TypeOK, Labels, GetLabels, ReleaseLabels
<1>4. LockHeld'
  BY PoolAssumption DEF ReleasePush, Goto, IInv, TypeOK, LockHeld
<1>5. OnePlace'
  <2>1. \A i \in 1..Len(s) : s[i] # conn[u]
    BY DEF IInv, OnePlace, Contents
  <2>2. \A v, w \in Users : conn'[v] = conn'[w] /\ conn'[v] # NoConn => v = w
    BY <1>1 DEF IInv, TypeOK, OnePlace
  <2>3. \A i \in 1..Len(s') : s'[i] \in Conns
    BY <1>2, ElementOfSeq
  <2>4. \A v \in Users : \A i \in 1..Len(s') : conn'[v] # s'[i]
    <3> SUFFICES ASSUME NEW v \in Users, NEW i \in 1..Len(s')
                 PROVE  conn'[v] # s'[i]
      OBVIOUS
    <3>1. CASE v = u
      BY <1>1, <2>3, <3>1, PoolAssumption DEF IInv, TypeOK
    <3>2. CASE v # u
      <4>1. conn'[v] = conn[v] /\ (conn[v] = conn[u] => conn[v] = NoConn)
        BY <1>1, <3>2 DEF IInv, TypeOK, OnePlace
      <4>2. \A k \in 1..Len(s) : conn[v] # s[k]
        BY DEF IInv, OnePlace, Contents
      <4> QED BY <1>1, <1>2, <1>a, <4>1, <4>2
    <3> QED BY <3>1, <3>2
  <2>5. \A i, j \in 1..Len(s') : s'[i] = s'[j] => i = j
    <3>1. \A i, j \in 1..Len(s) : s[i] = s[j] => i = j BY DEF IInv, OnePlace
    <3> QED BY <1>2, <1>a, <2>1, <3>1
  <2> QED BY <2>2, <2>4, <2>5 DEF OnePlace, Contents
<1>6. Alive'
  <2>1. link[conn[u]] \in {"up", "down"} BY <1>1 DEF IInv, Alive
  <2>2. \A i \in 1..Len(s) : link[s[i]] \in {"up", "down"} BY DEF IInv, Alive
  <2>3. \A i \in 1..Len(s') : link[s'[i]] \in {"up", "down"}
    BY <1>2, <1>a, <2>1, <2>2
  <2>4. \A v \in Users : conn'[v] # NoConn => conn'[v] = conn[v]
    BY <1>1 DEF IInv, TypeOK
  <2> QED BY <1>1, <2>3, <2>4 DEF IInv, Alive
<1>7. PermitsMatch'
  <2>1. Coming = Coming' /\ Leaving' = Leaving + 1
    BY GotoCounts DEF IInv, ReleasePush, Coming, Leaving
  <2>2. Coming \in Nat /\ Leaving \in Nat
    BY AtNat DEF Coming, Leaving
  <2>3. _sem \in Nat /\ stale \in Nat BY DEF IInv, TypeOK
  <2>4. _sem + Coming + Leaving = Len(s) + stale
    BY DEF IInv, PermitsMatch, Coming, Leaving
  <2>5. _sem + Coming + (Leaving + 1) = Len(s') + stale
    BY <1>2, <2>2, <2>3, <2>4
  <2> QED BY <1>1, <2>1, <2>5 DEF PermitsMatch, Coming, Leaving
<1>8. BrokenAfterDestroy' BY <1>1 DEF IInv, BrokenAfterDestroy
<1> QED BY <1>3, <1>4, <1>5, <1>6, <1>7, <1>8 DEF IInv

\* ensure_connected and a lost connection change "up" and "down" only.
LEMMA LinkStep ==
  ASSUME IInv,
         \/ \E u \in Users, connected \in BOOLEAN : GetPing(u, connected)
         \/ \E c \in Conns : LoseConnection(c)
  PROVE  IInv'
<1>1. UNCHANGED <<_conn_pool, _sem, _lock, conn, stale, broken>>
  BY DEF GetPing, LoseConnection
<1>2. /\ link' \in [Conns -> {"none", "up", "down", "deleted"}]
      /\ \A c \in Conns : link[c] \in {"up", "down"} => link'[c] \in {"up", "down"}
  BY DEF GetPing, Goto, LoseConnection, IInv, TypeOK
<1>3. OnePlace' /\ BrokenAfterDestroy'
  BY <1>1 DEF IInv, OnePlace, Contents, BrokenAfterDestroy
<1>4. Alive'
  <2>1. \A i \in 1..Len(_conn_pool) : _conn_pool[i] \in Conns
    BY ElementOfSeq DEF IInv, TypeOK
  <2> QED BY <1>1, <1>2, <2>1 DEF IInv, TypeOK, Alive
<1>5. CASE \E u \in Users, connected \in BOOLEAN : GetPing(u, connected)
  <2>1. PICK u \in Users, connected \in BOOLEAN : GetPing(u, connected)
    BY <1>5
  <2>2. TypeOK'
    BY <1>1, <1>2, <2>1
       DEF GetPing, Goto, IInv, TypeOK, Labels, GetLabels, ReleaseLabels
  <2>3. LockHeld' BY <2>1 DEF GetPing, Goto, IInv, TypeOK, LockHeld
  <2>4. Coming' = Coming /\ Leaving' = Leaving
    BY <2>1, GotoCounts DEF IInv, GetPing, Coming, Leaving
  <2>5. PermitsMatch'
    BY <1>1, <2>4 DEF IInv, PermitsMatch, Coming, Leaving
  <2> QED BY <1>3, <1>4, <2>2, <2>3, <2>5 DEF IInv
<1>6. CASE \E c \in Conns : LoseConnection(c)
  <2>1. pc' = pc BY <1>6 DEF LoseConnection
  <2>2. TypeOK' /\ LockHeld' /\ PermitsMatch'
    BY <1>1, <1>2, <2>1 DEF IInv, TypeOK, LockHeld, PermitsMatch, At
  <2> QED BY <1>3, <1>4, <2>2 DEF IInv
<1> QED BY <1>5, <1>6

-----------------------------------------------------------------------------
(* create_pool and destroy_pool                                            *)

LEMMA CreateStep ==
  ASSUME IInv, NEW made \in [1..pool_size -> Conns], NEW up \in SUBSET Conns,
         CreatePool(made, up)
  PROVE  IInv'
<1>1. /\ _conn_pool = <<>> /\ _conn_pool' = made /\ _sem' = _sem + pool_size
      /\ Len(made) = pool_size
      /\ \A i \in 1..pool_size : link[made[i]] = "none"
      /\ \A i, j \in 1..pool_size : i # j => made[i] # made[j]
      /\ link' = [c \in Conns |->
                    IF \A i \in 1..pool_size : made[i] # c THEN link[c]
                    ELSE IF c \in up THEN "up" ELSE "down"]
      /\ UNCHANGED <<_lock, pc, conn, stale, broken>>
  BY DEF CreatePool
<1>2. made \in Seq(Conns) /\ Len(_conn_pool) = 0 /\ pool_size \in Nat
  BY <1>1, PoolAssumption, SeqDef, EmptySeq
<1>3. TypeOK'
  <2>1. _sem' \in Nat BY <1>1, <1>2 DEF IInv, TypeOK
  <2>2. link' \in [Conns -> {"none", "up", "down", "deleted"}]
    BY <1>1 DEF IInv, TypeOK
  <2> QED BY <1>1, <1>2, <2>1, <2>2 DEF IInv, TypeOK
<1>4. LockHeld' /\ BrokenAfterDestroy'
  BY <1>1 DEF IInv, LockHeld, BrokenAfterDestroy
<1>5. \A u \in Users : \A i \in 1..pool_size : conn[u] # made[i]
  BY <1>1, PoolAssumption DEF IInv, TypeOK, Alive
<1>6. OnePlace'
  BY <1>1, <1>5 DEF IInv, OnePlace, Contents
<1>7. Alive'
  <2>1. \A i \in 1..pool_size : link'[made[i]] \in {"up", "down"}
    BY <1>1
  <2>2. \A u \in Users : conn[u] # NoConn => link'[conn[u]] = link[conn[u]]
    BY <1>1, <1>5 DEF IInv, TypeOK
  <2> QED BY <1>1, <2>1, <2>2 DEF IInv, Alive
<1>8. PermitsMatch'
  <2>1. At({"g_lock", "g_pop"})' = Coming /\ At({"r_unlock", "r_post"})' = Leaving
    BY <1>1 DEF At, Coming, Leaving
  <2>2. Coming \in Nat /\ Leaving \in Nat BY AtNat DEF Coming, Leaving
  <2>3. _sem \in Nat /\ stale \in Nat BY DEF IInv, TypeOK
  <2>4. _sem + Coming + Leaving = 0 + stale
    BY <1>2 DEF IInv, PermitsMatch, Coming, Leaving
  <2>5. _sem + pool_size + Coming + Leaving = pool_size + stale
    BY <1>2, <2>2, <2>3, <2>4
  <2> QED BY <1>1, <2>1, <2>5 DEF PermitsMatch
<1> QED BY <1>3, <1>4, <1>6, <1>7, <1>8 DEF IInv

LEMMA DestroyStep ==
  ASSUME IInv, DestroyPool
  PROVE  IInv'
<1>1. /\ _conn_pool' = <<>> /\ stale' = stale + Len(_conn_pool)
      /\ link' = [c \in Conns |-> IF c \in Contents THEN "deleted" ELSE link[c]]
      /\ UNCHANGED <<_sem, _lock, pc, conn, broken>>
  BY DEF DestroyPool
<1>2. /\ Len(_conn_pool) \in Nat /\ Len(_conn_pool') = 0
      /\ _conn_pool' \in Seq(Conns) /\ stale \in Nat /\ stale' \in Nat
      /\ stale' >= stale
  BY <1>1, LenProperties, EmptySeq DEF IInv, TypeOK
<1>3. TypeOK'
  <2>1. link' \in [Conns -> {"none", "up", "down", "deleted"}]
    BY <1>1 DEF IInv, TypeOK
  <2> QED BY <1>1, <1>2, <2>1 DEF IInv, TypeOK
<1>4. LockHeld' BY <1>1 DEF IInv, LockHeld
<1>5. OnePlace'
  <2>1. Contents' = {} BY <1>2 DEF Contents
  <2> QED BY <1>1, <1>2, <2>1 DEF IInv, OnePlace
<1>6. Alive'    \* what users hold is not in the list, so it is not deleted
  BY <1>1, <1>2 DEF IInv, TypeOK, OnePlace, Alive
<1>7. PermitsMatch'
  <2>1. At({"g_lock", "g_pop"})' = Coming /\ At({"r_unlock", "r_post"})' = Leaving
    BY <1>1 DEF At, Coming, Leaving
  <2>2. Coming \in Nat /\ Leaving \in Nat /\ _sem \in Nat
    BY AtNat DEF Coming, Leaving, IInv, TypeOK
  <2>3. _sem + Coming + Leaving = Len(_conn_pool) + stale
    BY DEF IInv, PermitsMatch, Coming, Leaving
  <2>4. _sem + Coming + Leaving = Len(_conn_pool') + stale'
    BY <1>1, <1>2, <2>2, <2>3
  <2> QED BY <1>1, <2>1, <2>4 DEF PermitsMatch
<1>8. BrokenAfterDestroy'
  BY <1>1, <1>2 DEF IInv, BrokenAfterDestroy
<1> QED BY <1>3, <1>4, <1>5, <1>6, <1>7, <1>8 DEF IInv

-----------------------------------------------------------------------------
LEMMA IInvStep == IInv /\ [Next]_vars => IInv'
<1> SUFFICES ASSUME IInv, [Next]_vars PROVE IInv' OBVIOUS
<1>1. ASSUME NEW u \in Users, GetCall(u) \/ GetInterrupted(u) \/ UserStep(u)
      PROVE  IInv'
  <2>1. CASE Quietly(u)
    BY <2>1, QuietPlaces, QuietCounts DEF IInv
  <2> QED BY <1>1, <2>1, PopStep, PopEmptyStep, PushStep, LinkStep
          DEF UserStep, Quietly
<1>2. CASE UNCHANGED vars
  BY <1>2 DEF vars, IInv, TypeOK, LockHeld, OnePlace, Contents, Alive,
              PermitsMatch, At, BrokenAfterDestroy
<1> QED BY <1>1, <1>2, LinkStep, CreateStep, DestroyStep DEF Next

-----------------------------------------------------------------------------
(* The theorems                                                            *)

\* The conjunction on which the results below rest holds in every reachable
\* state of the pool.
THEOREM Inductive == Spec => []IInv
<1> QED BY IInvInit, IInvStep, PTL DEF Spec

\* The variables keep their types: the semaphore is never negative, and a
\* user has a connection exactly between its pop and its push.
THEOREM TypeCorrectness == Spec => []TypeOK
<1>1. IInv => TypeOK BY DEF IInv
<1> QED BY <1>1, Inductive, PTL

\* get_connect never hands one connection to two users, whatever is created
\* and destroyed meanwhile.
THEOREM ExclusiveUse == Spec => []OnePlace
<1>1. IInv => OnePlace BY DEF IInv
<1> QED BY <1>1, Inductive, PTL

\* The permits of _sem are the connections in the list and those that
\* destroy_pool left behind, in every interleaving of the calls.
THEOREM PermitAccounting == Spec => []PermitsMatch
<1>1. IInv => PermitsMatch BY DEF IInv
<1> QED BY <1>1, Inductive, PTL

\* Unless a pool with connections in it was destroyed, get_connect finds a
\* connection whenever it has passed sem_wait.
THEOREM FrontFound == Spec => []BrokenAfterDestroy
<1>1. IInv => BrokenAfterDestroy BY DEF IInv
<1> QED BY <1>1, Inductive, PTL

\* Every permit leads to a connection, except those that destroy_pool left
\* behind.
THEOREM PermitsLead == Spec => []PermitsServed
<1>1. PermitsMatch /\ BrokenAfterDestroy => PermitsServed BY DEF PermitsServed
<1> QED BY <1>1, PermitAccounting, FrontFound, PTL

\* Nobody reaches a connection that destroy_pool has deleted.
THEOREM NoUseAfterDelete == Spec => []DeletedUnreachable
<1>1. IInv => DeletedUnreachable
  <2> SUFFICES ASSUME IInv, NEW c \in Conns, link[c] = "deleted"
               PROVE  c \notin Contents /\ \A u \in Users : conn[u] # c
    BY DEF DeletedUnreachable
  <2>1. c \notin Contents BY DEF IInv, Alive, Contents
  <2>2. \A u \in Users : conn[u] # c BY PoolAssumption DEF IInv, Alive
  <2> QED BY <2>1, <2>2
<1> QED BY <1>1, Inductive, PTL

\* A connection has one user at a time and none after its deletion, in every
\* interleaving of get_connect, release_connect and what owners of the pool
\* do to it.
THEOREM SafeUse == Spec => []ConnectionsSafe
<1>1. OnePlace /\ DeletedUnreachable => ConnectionsSafe BY DEF ConnectionsSafe
<1> QED BY <1>1, ExclusiveUse, NoUseAfterDelete, PTL

-----------------------------------------------------------------------------
(* The units of rows                                                       *)

STypeOK ==
  /\ open \subseteq Conns
  /\ pending \in [Conns -> SUBSET (Users \X {1, 2})]
  /\ table \subseteq Users \X {1, 2}
  /\ unit \in [Users -> {"before", "begun", "one", "both", "ended"}]
  /\ excused \subseteq Users

Nowhere(u, rows) == <<u, 1>> \notin rows /\ <<u, 2>> \notin rows

\* Nothing of the unit waits in a transaction, but in that of connection c.
OnlyIn(u, c) == \A d \in Conns : d # c => Nowhere(u, pending[d])

\* What waits in the transaction of the connection of a user within its unit.
Waiting(u) ==
  /\ link[conn[u]] = "up" =>
       /\ conn[u] \in open
       /\ <<u, 1>> \in pending[conn[u]] <=> unit[u] \in {"one", "both"}
       /\ <<u, 2>> \in pending[conn[u]] <=> unit[u] = "both"
  /\ link[conn[u]] # "up" => Nowhere(u, pending[conn[u]])

Careful(u) ==
  /\ unit[u] = "before" => Nowhere(u, table) /\ OnlyIn(u, NoConn)
  /\ Within(u) => Nowhere(u, table) /\ OnlyIn(u, conn[u]) /\ Waiting(u)
  /\ unit[u] = "ended" => (<<u, 1>> \in table <=> <<u, 2>> \in table) /\ OnlyIn(u, NoConn)

Units ==
  /\ \A u \in Users : Within(u) => pc[u] = "use"
  /\ \A u \in Users \ excused : Careful(u)

SInv == IInv /\ STypeOK /\ Units

-----------------------------------------------------------------------------
(* The pool without the units                                              *)

\* A user that is using a connection has one, and nobody else has it.
LEMMA OwnConnection ==
  ASSUME IInv, NEW u \in Users, pc[u] = "use"
  PROVE  /\ conn[u] \in Conns /\ conn[u] \notin Contents
         /\ link[conn[u]] \in {"up", "down"}
         /\ \A v \in Users : v # u => conn[v] # conn[u]
<1>1. conn[u] \in Conns /\ conn[u] # NoConn BY PoolAssumption DEF IInv, TypeOK
<1> QED BY <1>1 DEF IInv, OnePlace, Alive

\* Calls that change nothing of the pool but whether a connection is up.
LEMMA RenewKeepsPool ==
  ASSUME IInv, UNCHANGED poolrest, NEW c \in Conns, NEW to \in {"up", "down"},
         link[c] \in {"up", "down"},
         link' = link \/ link' = [link EXCEPT ![c] = to]
  PROVE  IInv'
<1>1. UNCHANGED <<_conn_pool, _sem, _lock, pc, conn, stale, broken>> BY DEF poolrest
<1>2. /\ link' \in [Conns -> {"none", "up", "down", "deleted"}]
      /\ \A d \in Conns : link[d] \in {"up", "down"} => link'[d] \in {"up", "down"}
  BY DEF IInv, TypeOK
<1>3. Alive'
  <2>1. \A i \in 1..Len(_conn_pool) : _conn_pool[i] \in Conns
    BY ElementOfSeq DEF IInv, TypeOK
  <2> QED BY <1>1, <1>2, <2>1 DEF IInv, TypeOK, Alive
<1>4. TypeOK' /\ LockHeld' /\ PermitsMatch' /\ OnePlace' /\ BrokenAfterDestroy'
  BY <1>1, <1>2
     DEF IInv, TypeOK, LockHeld, PermitsMatch, At, OnePlace, Contents, BrokenAfterDestroy
<1> QED BY <1>3, <1>4 DEF IInv

\* With whatever becomes of the units, the pool keeps its invariant.
LEMMA PoolKept == SInv /\ [SNext]_allvars => IInv'
<1> SUFFICES ASSUME SInv, [SNext]_allvars PROVE IInv' OBVIOUS
<1> USE DEF SInv
<1>1. ASSUME NEW u \in Users, Get(u) \/ PoolStep(u) PROVE IInv'
  <2>1. GetCall(u) \/ GetInterrupted(u) \/ UserStep(u)
    BY <1>1 DEF Get, PoolStep, Release, UserStep
  <2> QED BY <2>1, IInvStep DEF Next
<1>2. ASSUME NEW u \in Users, UnitStep(u) \/ UnlockTable(u) PROVE IInv'
  <2>1. pc[u] = "use"
    BY <1>2 DEF UnitStep, Transaction, Insert, Commit, Rollback, Ended, UnlockTable, Using,
           TransactionRefused, InsertRefused, Refused
  <2>2. conn[u] \in Conns /\ link[conn[u]] \in {"up", "down"} BY <2>1, OwnConnection
  <2>3. UNCHANGED poolrest
    BY <1>2 DEF UnitStep, Transaction, Insert, Commit, Rollback, Ended, UnlockTable,
           TransactionRefused, InsertRefused, Refused
  <2>4. link' = link \/ link' = [link EXCEPT ![conn[u]] = "up"]
    BY <1>2 DEF UnitStep, Transaction, Insert, Commit, Rollback, Ended, UnlockTable,
           TransactionRefused, InsertRefused, Refused
  <2> QED BY <2>2, <2>3, <2>4, RenewKeepsPool
<1>3. CASE (\E c \in Conns : Lose(c)) \/ Create \/ Destroy
  BY <1>3, IInvStep DEF Lose, Create, Destroy, Next
<1>4. CASE UNCHANGED allvars
  BY <1>4, IInvStep DEF allvars, vars
<1> QED BY <1>1, <1>2, <1>3, <1>4 DEF SNext

-----------------------------------------------------------------------------
(* Steps of the pool and the units                                         *)

\* A step that leaves the units and the connections in use alone.
LEMMA Frame ==
  ASSUME SInv, UNCHANGED svars,
         \A u \in Users : Within(u) =>
           pc'[u] = "use" /\ conn'[u] = conn[u] /\ link'[conn[u]] = link[conn[u]]
  PROVE  STypeOK' /\ Units'
<1>1. STypeOK' BY DEF SInv, STypeOK, svars
<1>2. \A u \in Users : Within(u)' => pc'[u] = "use" BY DEF Within, svars
<1>3. ASSUME NEW u \in Users \ excused, Careful(u) PROVE Careful(u)'
  BY <1>3 DEF Careful, Within, OnlyIn, Nowhere, Waiting, svars
<1> QED BY <1>1, <1>2, <1>3 DEF SInv, Units, svars

\* The steps of get_connect and release_connect.
LEMMA CallKeepsUnits ==
  ASSUME SInv, NEW u \in Users, Get(u) \/ (PoolStep(u) /\ ~Release(u))
  PROVE  STypeOK' /\ Units'
<1> DEFINE Calls == \/ GetCall(u) \/ GetInterrupted(u) \/ GetWait(u) \/ GetLock(u) \/ GetPop(u) \/ GetPopEmpty(u)
                    \/ GetUnlock(u) \/ \E connected \in BOOLEAN : GetPing(u, connected)
                    \/ ReleaseLock(u) \/ ReleasePush(u) \/ ReleaseUnlock(u) \/ ReleasePost(u)
<1>1. Calls /\ UNCHANGED svars BY DEF Get, PoolStep
<1>2. pc[u] # "use"
  BY <1>1 DEF Goto, GetCall, GetInterrupted, GetWait, GetLock, GetPop, GetPopEmpty, GetUnlock, GetPing,
              ReleaseLock, ReleasePush, ReleaseUnlock, ReleasePost
<1>3. \A v \in Users : v # u => pc'[v] = pc[v] /\ conn'[v] = conn[v]
  BY <1>1 DEF Goto, GetCall, GetInterrupted, GetWait, GetLock, GetPop, GetPopEmpty, GetUnlock, GetPing,
              ReleaseLock, ReleasePush, ReleaseUnlock, ReleasePost, SInv, IInv, TypeOK
<1>4. ASSUME NEW v \in Users, pc[v] = "use" PROVE link'[conn[v]] = link[conn[v]]
  <2>1. conn[v] \in Conns /\ conn[u] # conn[v] BY <1>2, <1>4, OwnConnection DEF SInv
  <2>2. CASE \E connected \in BOOLEAN : GetPing(u, connected)
    BY <2>1, <2>2 DEF GetPing, SInv, IInv, TypeOK
  <2>3. CASE ~\E connected \in BOOLEAN : GetPing(u, connected)
    BY <1>1, <2>3 DEF GetCall, GetInterrupted, GetWait, GetLock, GetPop, GetPopEmpty, GetUnlock,
                      ReleaseLock, ReleasePush, ReleaseUnlock, ReleasePost
  <2> QED BY <2>2, <2>3
<1>5. \A v \in Users : Within(v) => pc[v] = "use" BY DEF SInv, Units
<1>6. ASSUME NEW v \in Users, Within(v)
      PROVE  pc'[v] = "use" /\ conn'[v] = conn[v] /\ link'[conn[v]] = link[conn[v]]
  <2>1. pc[v] = "use" /\ v # u BY <1>2, <1>5, <1>6
  <2> QED BY <1>3, <1>4, <2>1
<1> QED BY <1>1, <1>6, Frame

\* A user that releases its connection within the unit is excused.
LEMMA ReleaseKeepsUnits ==
  ASSUME SInv, NEW u \in Users, Release(u)
  PROVE  STypeOK' /\ Units'
<1>1. /\ pc[u] = "use" /\ \A v \in Users : v # u => pc'[v] = pc[v]
      /\ UNCHANGED <<conn, link, open, pending, table>>
      /\ \A v \in Users : v # u => unit'[v] = unit[v]
      /\ Within(u) => u \in excused' /\ unit'[u] = "ended"
      /\ ~Within(u) => unit'[u] = unit[u]
      /\ excused \subseteq excused'
  BY DEF Release, ReleaseCall, Goto, SInv, IInv, TypeOK, STypeOK
<1>2. STypeOK' BY <1>1 DEF Release, SInv, STypeOK
<1>3. ASSUME NEW v \in Users, Within(v)' PROVE pc'[v] = "use"
  BY <1>1, <1>3 DEF SInv, Units, Within
<1>4. ASSUME NEW v \in Users \ excused' PROVE Careful(v)'
  <2>1. Careful(v) /\ unit'[v] = unit[v] BY <1>1, <1>4 DEF SInv, Units
  <2> QED BY <1>1, <2>1 DEF Careful, Within, OnlyIn, Nowhere, Waiting
<1> QED BY <1>2, <1>3, <1>4 DEF Units

\* Connections that are lost or deleted take their transactions with them.
LEMMA UndoneKeepsUnits ==
  ASSUME SInv, NEW gone \in SUBSET Conns, Undone(gone), UNCHANGED <<pc, conn>>,
         \A u \in Users : pc[u] = "use" =>
           IF conn[u] \in gone THEN link'[conn[u]] # "up" ELSE link'[conn[u]] = link[conn[u]]
  PROVE  STypeOK' /\ Units'
<1>1. /\ open' = open \ gone /\ UNCHANGED <<table, unit, excused>>
      /\ \A c \in Conns : pending'[c] = IF c \in gone THEN {} ELSE pending[c]
  BY DEF Undone
<1>2. STypeOK' BY <1>1 DEF Undone, SInv, STypeOK
<1>3. \A u \in Users : Within(u)' => pc'[u] = "use" BY <1>1 DEF SInv, Units, Within
<1>4. ASSUME NEW u \in Users \ excused PROVE Careful(u)'
  <2>1. Careful(u) BY DEF SInv, Units
  <2>2. \A c : OnlyIn(u, c) => OnlyIn(u, c)' BY <1>1 DEF OnlyIn, Nowhere
  <2>3. ASSUME Within(u), Waiting(u) PROVE Waiting(u)'
    <3>1. pc[u] = "use" BY <2>3 DEF SInv, Units
    <3>2. conn[u] \in Conns BY <3>1, OwnConnection DEF SInv
    <3> QED BY <1>1, <2>3, <3>1, <3>2 DEF Waiting, Nowhere
  <2> QED BY <1>1, <2>1, <2>2, <2>3 DEF Careful, Within, Nowhere
<1> QED BY <1>1, <1>2, <1>3, <1>4 DEF Units

LEMMA OwnerKeepsUnits ==
  ASSUME SInv, (\E c \in Conns : Lose(c)) \/ Create \/ Destroy
  PROVE  STypeOK' /\ Units'
<1>1. \A u \in Users : Within(u) => pc[u] = "use" BY DEF SInv, Units
<1>2. ASSUME NEW c \in Conns, Lose(c) PROVE STypeOK' /\ Units'
  <2>1. Undone({c}) /\ UNCHANGED <<pc, conn>> BY <1>2 DEF Lose, LoseConnection
  <2>2. \A u \in Users : pc[u] = "use" =>
          IF conn[u] \in {c} THEN link'[conn[u]] # "up" ELSE link'[conn[u]] = link[conn[u]]
    BY <1>2, OwnConnection DEF Lose, LoseConnection, SInv, IInv, TypeOK
  <2> QED BY <2>1, <2>2, UndoneKeepsUnits
<1>3. CASE Destroy
  <2>1. Undone(Contents) /\ UNCHANGED <<pc, conn>> BY <1>3 DEF Destroy, DestroyPool
  <2>2. Contents \in SUBSET Conns BY ElementOfSeq DEF Contents, SInv, IInv, TypeOK
  <2>3. \A u \in Users : pc[u] = "use" =>
          IF conn[u] \in Contents THEN link'[conn[u]] # "up" ELSE link'[conn[u]] = link[conn[u]]
    BY <1>3, OwnConnection DEF Destroy, DestroyPool, SInv
  <2> QED BY <2>1, <2>2, <2>3, UndoneKeepsUnits
<1>4. CASE Create
  <2>1. PICK made \in [1..pool_size -> Conns], up \in SUBSET Conns : CreatePool(made, up)
    BY <1>4 DEF Create
  <2>2. UNCHANGED svars /\ UNCHANGED <<pc, conn>> BY <1>4, <2>1 DEF Create, CreatePool
  <2>3. ASSUME NEW u \in Users, pc[u] = "use" PROVE link'[conn[u]] = link[conn[u]]
    <3>1. conn[u] \in Conns /\ link[conn[u]] \in {"up", "down"}
      BY <2>3, OwnConnection DEF SInv
    <3>2. \A i \in 1..pool_size : made[i] # conn[u] BY <2>1, <3>1 DEF CreatePool
    <3> QED BY <2>1, <3>1, <3>2 DEF CreatePool
  <2> QED BY <1>1, <2>2, <2>3, Frame
<1> QED BY <1>2, <1>3, <1>4

-----------------------------------------------------------------------------
(* The calls of a unit                                                     *)

\* What a call of user u may do to the rows of others: nothing they can see.
LEMMA OthersKept ==
  ASSUME SInv, NEW u \in Users, pc[u] = "use", NEW v \in Users \ excused, v # u,
         UNCHANGED <<pc, conn>>, unit'[v] = unit[v],
         \A c \in Conns : c # conn[u] =>
           pending'[c] = pending[c] /\ link'[c] = link[c] /\ (c \in open <=> c \in open'),
         \A i \in {1, 2} :
           /\ <<v, i>> \in table' => <<v, i>> \in table \cup pending[conn[u]]
           /\ <<v, i>> \in table => <<v, i>> \in table'
           /\ <<v, i>> \in pending'[conn[u]] => <<v, i>> \in pending[conn[u]]
  PROVE  Careful(v)'
<1>1. Careful(v) BY DEF SInv, Units
<1>2. conn[u] \in Conns /\ conn[u] # NoConn /\ conn[v] # conn[u]
  BY OwnConnection, PoolAssumption DEF SInv
<1>3. \A c : c # conn[u] /\ OnlyIn(v, c) => OnlyIn(v, c)' /\ Nowhere(v, pending[conn[u]])
  BY <1>2 DEF OnlyIn, Nowhere
<1>4. OnlyIn(v, NoConn) \/ OnlyIn(v, conn[v])
  BY <1>1 DEF Careful, Within, SInv, STypeOK
<1>5. Nowhere(v, pending[conn[u]]) BY <1>2, <1>3, <1>4
<1>6. \A i \in {1, 2} : <<v, i>> \in table' <=> <<v, i>> \in table
  BY <1>5 DEF Nowhere
<1>7. ASSUME Within(v), Waiting(v) PROVE Waiting(v)'
  <2>1. conn[v] \in Conns BY <1>7, OwnConnection DEF SInv, Units
  <2> QED BY <1>2, <1>7, <2>1 DEF Waiting, Nowhere
<1> QED BY <1>1, <1>2, <1>3, <1>6, <1>7 DEF Careful, Within, Nowhere

LEMMA UnitKeepsTypes ==
  ASSUME SInv, NEW u \in Users, UnitStep(u) \/ UnlockTable(u)
  PROVE  /\ pc[u] = "use" /\ conn[u] \in Conns /\ conn[u] # NoConn
         /\ UNCHANGED <<pc, conn>> /\ STypeOK'
         /\ \A v \in Users : v # u => unit'[v] = unit[v]
<1>1. pc[u] = "use" /\ UNCHANGED <<pc, conn>>
  BY DEF UnitStep, Transaction, Insert, Commit, Rollback, Ended, UnlockTable, Using, poolrest,
         TransactionRefused, InsertRefused, Refused
<1>2. conn[u] \in Conns /\ conn[u] # NoConn
  BY <1>1, OwnConnection, PoolAssumption DEF SInv
<1> DEFINE Rest == STypeOK' /\ \A v \in Users : v # u => unit'[v] = unit[v]
<1>3. ASSUME NEW row \in Users \X {1, 2}, Inserted(u, row)
      PROVE  /\ pending' \in [Conns -> SUBSET (Users \X {1, 2})]
             /\ table' \subseteq Users \X {1, 2}
  BY <1>2, <1>3 DEF Inserted, SInv, STypeOK
<1>4. ASSUME Transaction(u) PROVE Rest
  <2>1. pending[conn[u]] \subseteq Users \X {1, 2} BY <1>2 DEF SInv, STypeOK
  <2>2. /\ pending' \in [Conns -> SUBSET (Users \X {1, 2})]
        /\ table' \subseteq Users \X {1, 2}
    BY <1>4, <2>1 DEF Transaction, SInv, STypeOK
  <2>3. open' \subseteq Conns /\ excused' \subseteq Users
    BY <1>2, <1>4 DEF Transaction, SInv, STypeOK
  <2>4. unit' = [unit EXCEPT ![u] = "begun"] BY <1>4 DEF Transaction, To
  <2> QED BY <2>2, <2>3, <2>4 DEF SInv, STypeOK
<1>5. ASSUME Insert(u) PROVE Rest
  <2>1. PICK i \in {1, 2} :
          /\ To(u, <<"begun", "one">>[i], <<"one", "both">>[i])
          /\ Inserted(u, <<u, i>>) \/ UNCHANGED <<pending, table>>
    BY <1>5 DEF Insert
  <2>2. /\ pending' \in [Conns -> SUBSET (Users \X {1, 2})]
        /\ table' \subseteq Users \X {1, 2}
    BY <1>3, <2>1 DEF SInv, STypeOK
  <2>3. <<"one", "both">>[i] \in {"one", "both"} OBVIOUS
  <2>4. \E to \in {"one", "both"} : unit' = [unit EXCEPT ![u] = to] BY <2>1, <2>3 DEF To
  <2>5. open' = open /\ excused' = excused BY <1>5 DEF Insert
  <2> QED BY <2>2, <2>4, <2>5 DEF SInv, STypeOK
<1>6. ASSUME NEW from, Ended(u, from)
      PROVE  /\ pending' \in [Conns -> SUBSET (Users \X {1, 2})] /\ open' \subseteq Conns
             /\ unit' = [unit EXCEPT ![u] = "ended"] /\ excused' = excused
  BY <1>2, <1>6 DEF Ended, To, SInv, STypeOK
<1>7. ASSUME Commit(u) \/ Rollback(u) PROVE Rest
  <2>1. table' \subseteq Users \X {1, 2}
    BY <1>2, <1>7 DEF Commit, Rollback, SInv, STypeOK
  <2>2. PICK from : Ended(u, from) BY <1>7 DEF Commit, Rollback
  <2>3. /\ pending' \in [Conns -> SUBSET (Users \X {1, 2})] /\ open' \subseteq Conns
        /\ unit' = [unit EXCEPT ![u] = "ended"] /\ excused' = excused
    BY <1>6, <2>2
  <2> QED BY <2>1, <2>3 DEF SInv, STypeOK
<1>8. ASSUME UnlockTable(u) PROVE Rest
  <2>1. UNCHANGED <<open, pending, table, unit>> /\ excused' \in {excused, excused \cup {u}}
    BY <1>8 DEF UnlockTable
  <2> QED BY <2>1 DEF SInv, STypeOK
<1>9. ASSUME TransactionRefused(u) \/ InsertRefused(u) PROVE Rest
  <2>1. \E from, to \in {"before", "begun", "one", "both"} : to # "before" /\ Refused(u, from, to)
    <3>1. CASE TransactionRefused(u) BY <3>1 DEF TransactionRefused
    <3>2. CASE InsertRefused(u)
      <4>1. PICK i \in {1, 2} : Refused(u, <<"begun", "one">>[i], <<"one", "both">>[i])
        BY <3>2 DEF InsertRefused
      <4>2. /\ <<"begun", "one">>[i] \in {"begun", "one"}
            /\ <<"one", "both">>[i] \in {"one", "both"}
        OBVIOUS
      <4> QED BY <4>1, <4>2
    <3> QED BY <1>9, <3>1, <3>2
  <2>4. PICK from, to \in {"before", "begun", "one", "both"} : to # "before" /\ Refused(u, from, to)
    BY <2>1
  <2>2. /\ pending' = pending \/ pending' = [pending EXCEPT ![conn[u]] = {}]
        /\ open' \subseteq open
    BY <1>9 DEF TransactionRefused, InsertRefused
  <2>3. /\ unit' = [unit EXCEPT ![u] = to] /\ table' = table
        /\ excused' = excused \cup {u}
    BY <2>4 DEF Refused, To
  <2> QED BY <2>2, <2>3, <2>4 DEF SInv, STypeOK
<1> QED BY <1>1, <1>2, <1>4, <1>5, <1>7, <1>8, <1>9 DEF UnitStep

LEMMA TransactionStep ==
  ASSUME SInv, NEW u \in Users, Transaction(u)
  PROVE  Units'
<1>1. /\ pc[u] = "use" /\ conn[u] \in Conns /\ conn[u] # NoConn
      /\ UNCHANGED <<pc, conn>> /\ \A v \in Users : v # u => unit'[v] = unit[v]
  BY UnitKeepsTypes DEF UnitStep
<1>2. /\ unit[u] = "before" /\ unit'[u] = "begun" /\ UNCHANGED <<link, excused>>
      /\ \A c \in Conns : c # conn[u] => pending'[c] = pending[c] /\ (c \in open <=> c \in open')
      /\ IF link[conn[u]] = "up"
         THEN /\ table' = table \cup pending[conn[u]] /\ conn[u] \in open'
              /\ pending'[conn[u]] = {}
         ELSE table' = table /\ pending' = pending
  BY <1>1 DEF Transaction, To, Up, SInv, STypeOK
<1>3. \A v \in Users : Within(v)' => pc'[v] = "use" BY <1>1, <1>2 DEF SInv, Units, Within
<1>4. ASSUME NEW v \in Users \ excused, v # u PROVE Careful(v)'
  BY <1>1, <1>2, <1>4, OthersKept
<1>5. ASSUME u \notin excused PROVE Careful(u)'
  <2>1. Nowhere(u, table) /\ OnlyIn(u, NoConn) BY <1>2, <1>5 DEF SInv, Units, Careful
  <2>2. \A c \in Conns : Nowhere(u, pending[c]) BY <2>1, PoolAssumption DEF OnlyIn
  <2>3. Nowhere(u, table') BY <1>1, <1>2, <2>1, <2>2 DEF Nowhere
  <2>4. OnlyIn(u, conn[u])' BY <1>1, <1>2, <2>2 DEF OnlyIn, Nowhere
  <2>5. Waiting(u)' BY <1>1, <1>2, <2>2 DEF Waiting, Nowhere
  <2> QED BY <1>2, <2>3, <2>4, <2>5 DEF Careful, Within, Nowhere
<1> QED BY <1>2, <1>3, <1>4, <1>5 DEF Units

LEMMA InsertStep ==
  ASSUME SInv, NEW u \in Users, Insert(u)
  PROVE  Units'
<1>1. /\ pc[u] = "use" /\ conn[u] \in Conns /\ conn[u] # NoConn
      /\ UNCHANGED <<pc, conn>> /\ \A v \in Users : v # u => unit'[v] = unit[v]
  BY UnitKeepsTypes DEF UnitStep
<1>2. PICK i \in {1, 2} :
        /\ To(u, <<"begun", "one">>[i], <<"one", "both">>[i])
        /\ IF Up(u) THEN Inserted(u, <<u, i>>) ELSE UNCHANGED <<pending, table>>
  BY DEF Insert
<1>3. UNCHANGED <<link, open, excused>> BY DEF Insert
<1>4. /\ Within(u) /\ unit'[u] \in {"one", "both"}
      /\ i = 1 => unit[u] = "begun" /\ unit'[u] = "one"
      /\ i = 2 => unit[u] = "one" /\ unit'[u] = "both"
  BY <1>2 DEF To, Within, SInv, STypeOK
<1>5. /\ \A c \in Conns : c # conn[u] => pending'[c] = pending[c]
      /\ \A row : row # <<u, i>> =>
           (row \in table' <=> row \in table)
             /\ (row \in pending'[conn[u]] <=> row \in pending[conn[u]])
      /\ link[conn[u]] = "up" /\ conn[u] \in open =>
           table' = table /\ <<u, i>> \in pending'[conn[u]]
      /\ link[conn[u]] # "up" => table' = table /\ pending' = pending
  BY <1>1, <1>2 DEF Inserted, Up, SInv, STypeOK
<1>6. \A v \in Users : Within(v)' => pc'[v] = "use" BY <1>1, <1>4 DEF SInv, Units, Within
<1>7. ASSUME NEW v \in Users \ excused, v # u PROVE Careful(v)'
  <2>1. \A j \in {1, 2} : <<v, j>> # <<u, i>> BY <1>7
  <2> QED BY <1>1, <1>3, <1>5, <1>7, <2>1, OthersKept
<1>8. ASSUME u \notin excused PROVE Careful(u)'
  <2>1. Nowhere(u, table) /\ OnlyIn(u, conn[u]) /\ Waiting(u)
    BY <1>4, <1>8 DEF SInv, Units, Careful
  <2>2. table' = table BY <1>5, <2>1 DEF Waiting
  <2>3. OnlyIn(u, conn[u])' BY <1>1, <1>5, <2>1 DEF OnlyIn, Nowhere
  <2>4. Waiting(u)'
    <3>1. CASE link[conn[u]] = "up"
      <4>1. <<u, 1>> # <<u, 2>> OBVIOUS
      <4>2. CASE i = 1 BY <1>1, <1>3, <1>4, <1>5, <2>1, <3>1, <4>1, <4>2 DEF Waiting
      <4>3. CASE i = 2 BY <1>1, <1>3, <1>4, <1>5, <2>1, <3>1, <4>1, <4>3 DEF Waiting
      <4> QED BY <4>2, <4>3
    <3>2. CASE link[conn[u]] # "up" BY <1>1, <1>3, <1>5, <2>1, <3>2 DEF Waiting, Nowhere
    <3> QED BY <3>1, <3>2
  <2> QED BY <1>4, <2>1, <2>2, <2>3, <2>4 DEF Careful, Within, Nowhere
<1> QED BY <1>3, <1>6, <1>7, <1>8 DEF Units

\* commit() and rollback()
LEMMA EndStep ==
  ASSUME SInv, NEW u \in Users, Commit(u) \/ Rollback(u)
  PROVE  Units'
<1>1. /\ pc[u] = "use" /\ conn[u] \in Conns /\ conn[u] # NoConn
      /\ UNCHANGED <<pc, conn>> /\ \A v \in Users : v # u => unit'[v] = unit[v]
  BY UnitKeepsTypes DEF UnitStep
<1>2. PICK from \in {"begun", "one", "both"} : Ended(u, from) BY DEF Commit, Rollback
<1>3. /\ Within(u) /\ unit'[u] = "ended" /\ UNCHANGED <<link, excused>>
      /\ \A c \in Conns : c # conn[u] => pending'[c] = pending[c] /\ (c \in open <=> c \in open')
      /\ link[conn[u]] = "up" => pending'[conn[u]] = {}
      /\ link[conn[u]] # "up" => pending' = pending
  BY <1>1, <1>2 DEF Ended, To, Up, Within, SInv, STypeOK
<1>4. \/ table' = table
      \/ table' = table \cup pending[conn[u]] /\ unit[u] = "both" /\ link[conn[u]] = "up"
  BY DEF Commit, Rollback, Ended, To, Up
<1>5. \A v \in Users : Within(v)' => pc'[v] = "use" BY <1>1, <1>3 DEF SInv, Units, Within
<1>6. ASSUME NEW v \in Users \ excused, v # u PROVE Careful(v)'
  <2>1. \A i \in {1, 2} : /\ <<v, i>> \in table' => <<v, i>> \in table \cup pending[conn[u]]
                          /\ <<v, i>> \in table => <<v, i>> \in table'
                          /\ <<v, i>> \in pending'[conn[u]] => <<v, i>> \in pending[conn[u]]
    BY <1>3, <1>4
  <2> QED BY <1>1, <1>3, <1>6, <2>1, OthersKept
<1>7. ASSUME u \notin excused PROVE Careful(u)'
  <2>1. Nowhere(u, table) /\ OnlyIn(u, conn[u]) /\ Waiting(u)
    BY <1>3, <1>7 DEF SInv, Units, Careful
  <2>2. <<u, 1>> \in table' <=> <<u, 2>> \in table'
    BY <1>4, <2>1 DEF Nowhere, Waiting
  <2>3. OnlyIn(u, NoConn)'
    BY <1>1, <1>3, <2>1 DEF OnlyIn, Nowhere, Waiting
  <2> QED BY <1>3, <2>2, <2>3 DEF Careful, Within
<1> QED BY <1>3, <1>5, <1>6, <1>7 DEF Units

\* A statement that mysql refuses: its user is excused from now on, and the
\* others see nothing of it.
LEMMA RefusedStep ==
  ASSUME SInv, NEW u \in Users, TransactionRefused(u) \/ InsertRefused(u)
  PROVE  Units'
<1>1. /\ pc[u] = "use" /\ conn[u] \in Conns /\ conn[u] # NoConn
      /\ UNCHANGED <<pc, conn>> /\ \A v \in Users : v # u => unit'[v] = unit[v]
  BY UnitKeepsTypes DEF UnitStep
<1>2. /\ UNCHANGED <<link, table>> /\ excused' = excused \cup {u}
      /\ open' = open \/ open' = open \ {conn[u]}
      /\ pending' = pending \/ pending' = [pending EXCEPT ![conn[u]] = {}]
  BY DEF TransactionRefused, InsertRefused, Refused
<1>3. ASSUME NEW v \in Users, Within(v)' PROVE pc'[v] = "use"
  <2>1. CASE v = u BY <1>1, <2>1
  <2>2. CASE v # u BY <1>1, <1>3, <2>2 DEF SInv, Units, Within
  <2> QED BY <2>1, <2>2
<1>4. ASSUME NEW v \in Users \ excused' PROVE Careful(v)'
  <2>1. v \in Users \ excused /\ v # u BY <1>2, <1>4
  <2>2. \A c \in Conns : c # conn[u] => pending'[c] = pending[c]
    BY <1>2 DEF SInv, STypeOK
  <2>3. \A i \in {1, 2} :
          <<v, i>> \in pending'[conn[u]] => <<v, i>> \in pending[conn[u]]
    BY <1>1, <1>2 DEF SInv, STypeOK
  <2> QED BY <1>1, <1>2, <2>1, <2>2, <2>3, OthersKept
<1> QED BY <1>3, <1>4 DEF Units

LEMMA UnlockStep ==
  ASSUME SInv, NEW u \in Users, UnlockTable(u)
  PROVE  Units'
<1>1. /\ pc[u] = "use" /\ conn[u] \in Conns /\ UNCHANGED <<pc, conn>>
  BY UnitKeepsTypes
<1>2. /\ UNCHANGED <<open, pending, table, unit>>
      /\ Within(u) => u \in excused'
      /\ excused \subseteq excused'
      /\ \A v \in Users : v # u => (v \in excused' <=> v \in excused)
      /\ \A c \in Conns : c # conn[u] => link'[c] = link[c]
  BY <1>1 DEF UnlockTable, SInv, STypeOK, IInv, TypeOK
<1>3. \A v \in Users : Within(v)' => pc'[v] = "use" BY <1>1, <1>2 DEF SInv, Units, Within
<1>4. ASSUME NEW v \in Users \ excused' PROVE Careful(v)'
  <2>1. Careful(v) BY <1>2, <1>4 DEF SInv, Units
  <2>2. ASSUME Within(v), Waiting(v) PROVE Waiting(v)'
    <3>1. v # u /\ pc[v] = "use" BY <1>2, <1>4, <2>2 DEF SInv, Units
    <3>2. conn[v] \in Conns /\ conn[v] # conn[u] BY <1>1, <3>1, OwnConnection DEF SInv
    <3> QED BY <1>1, <1>2, <2>2, <3>2 DEF Waiting, Nowhere
  <2> QED BY <1>1, <1>2, <2>1, <2>2 DEF Careful, Within, OnlyIn, Nowhere
<1> QED BY <1>3, <1>4 DEF Units

-----------------------------------------------------------------------------
(* The theorems                                                            *)

LEMMA SInvInit == SInit => SInv
<1> SUFFICES ASSUME SInit PROVE SInv OBVIOUS
<1>1. IInv BY IInvInit DEF SInit
<1>2. STypeOK BY DEF SInit, STypeOK
<1>3. Units BY DEF SInit, Units, Careful, Within, OnlyIn, Nowhere
<1> QED BY <1>1, <1>2, <1>3 DEF SInv

LEMMA SInvStep == SInv /\ [SNext]_allvars => SInv'
<1> SUFFICES ASSUME SInv, [SNext]_allvars PROVE SInv' OBVIOUS
<1>1. IInv' BY PoolKept
<1>2. ASSUME NEW u \in Users, Get(u) \/ PoolStep(u) PROVE STypeOK' /\ Units'
  BY <1>2, CallKeepsUnits, ReleaseKeepsUnits
<1>3. ASSUME NEW u \in Users, UnitStep(u) \/ UnlockTable(u) PROVE STypeOK' /\ Units'
  BY <1>3, UnitKeepsTypes, TransactionStep, InsertStep, EndStep, UnlockStep, RefusedStep
  DEF UnitStep
<1>4. ASSUME (\E c \in Conns : Lose(c)) \/ Create \/ Destroy PROVE STypeOK' /\ Units'
  BY <1>4, OwnerKeepsUnits
<1>5. ASSUME UNCHANGED allvars PROVE STypeOK' /\ Units'
  <2>1. UNCHANGED svars /\ UNCHANGED <<pc, conn, link>> BY <1>5 DEF allvars, svars
  <2>2. \A u \in Users : Within(u) => pc[u] = "use" BY DEF SInv, Units
  <2> QED BY <2>1, <2>2, Frame
<1> QED BY <1>1, <1>2, <1>3, <1>4, <1>5 DEF SNext, SInv

\* The conjunction on which the results below rest.
THEOREM UnitsInductive == SSpec => []SInv
<1> QED BY SInvInit, SInvStep, PTL DEF SSpec

\* For any users, connections and pool_size: the table has both rows of a unit
\* or none, wherever connections are lost, unless its user released the
\* connection or renewed it by unlock_table within the unit, or mysql refused
\* a statement of it on a connection that was up.
THEOREM WholeUnits == SSpec => []UnitsWhole
<1>1. SInv => UnitsWhole
  <2> SUFFICES ASSUME SInv, NEW u \in Users \ excused
               PROVE  <<u, 1>> \in table <=> <<u, 2>> \in table
    BY Zenon DEF UnitsWhole
  <2>1. Careful(u) /\ unit[u] \in {"before", "begun", "one", "both", "ended"}
    BY DEF SInv, Units, STypeOK
  <2> QED BY <2>1 DEF Careful, Within, Nowhere
<1> QED BY <1>1, UnitsInductive, PTL

\* The pool keeps what it promises when its users work with the connections:
\* each has one user at a time and none after its deletion.
THEOREM SafeInUse == SSpec => []ConnectionsSafe
<1>1. SInv => ConnectionsSafe
  <2> SUFFICES ASSUME SInv PROVE ConnectionsSafe OBVIOUS
  <2>1. OnePlace BY DEF SInv, IInv
  <2>2. ASSUME NEW c \in Conns, link[c] = "deleted"
        PROVE  c \notin Contents /\ \A u \in Users : conn[u] # c
    BY <2>2, PoolAssumption DEF SInv, IInv, Alive, Contents
  <2> QED BY <2>1, <2>2 DEF ConnectionsSafe, DeletedUnreachable
<1> QED BY <1>1, UnitsInductive, PTL

\* Every permit leads to a connection, except those that destroy_pool left
\* behind, also when connections are lost and renewed in use.
THEOREM PermitsInUse == SSpec => []PermitsServed
<1>1. SInv => PermitsServed BY DEF SInv, IInv, PermitsServed
<1> QED BY <1>1, UnitsInductive, PTL
=============================================================================
