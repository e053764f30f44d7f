------------------------------- MODULE DbPool -------------------------------
(***************************************************************************)
(* The pool of mysql connections, class DbPool (DbPool.cpp), with the part *)
(* of DbConnect it uses: a list of connections, a semaphore that counts    *)
(* them and a mutex.  The server constructs a pool and does not use it     *)
(* yet, so the callers are external: they return what they got, and they   *)
(* call create_pool and destroy_pool, which take no lock, while no other   *)
(* call is at the list.  Each call of a synchronization operation and each *)
(* access of the list by get_connect and release_connect is a step.        *)
(* (Definitions with a suffix after "_" are faulty variants, see CmdFifo.) *)
(***************************************************************************)
EXTENDS Integers, Sequences, FiniteSets

CONSTANTS Users,       \* threads that use connections
          Conns,       \* the DbConnect objects ever made
          pool_size,   \* argument of create_pool
          NoUser, NoConn

ASSUME PoolAssumption ==
  /\ IsFiniteSet(Users) /\ NoUser \notin Users
  /\ IsFiniteSet(Conns) /\ NoConn \notin Conns
  /\ pool_size \in Nat \ {0}

VARIABLES _conn_pool, _sem, _lock,
          link,    \* of each connection: "none" before it is made, "up",
                   \* "down" (not connected) or "deleted"
          pc,      \* the next step of each user
          conn,    \* the connection each user has got, or NoConn
          stale,   \* permits of _sem left over by destroy_pool
          broken   \* front() was called on an empty list

vars == <<_conn_pool, _sem, _lock, link, pc, conn, stale, broken>>

GetLabels     == {"g_wait", "g_lock", "g_pop", "g_unlock", "g_ping"}
ReleaseLabels == {"r_lock", "r_push", "r_unlock", "r_post"}
Labels == {"out", "use"} \cup GetLabels \cup ReleaseLabels

Init ==
  /\ _conn_pool = <<>>
  /\ _sem = 0
  /\ _lock = NoUser
  /\ link = [c \in Conns |-> "none"]
  /\ pc = [u \in Users |-> "out"]
  /\ conn = [u \in Users |-> NoConn]
  /\ stale = 0
  /\ broken = FALSE

Goto(u, from, to) == ~broken /\ pc[u] = from /\ pc' = [pc EXCEPT ![u] = to]

Contents == {_conn_pool[i] : i \in 1..Len(_conn_pool)}

\* What the callers see to before create_pool and destroy_pool.  (A pop from
\* an empty list leaves its user at "g_pop".)
Quiet == \A u \in Users : pc[u] \in {"out", "use", "g_wait"}

-----------------------------------------------------------------------------
(* create_pool, destroy_pool                                               *)

\* As many connections as asked for, one after the other.  open() ignores
\* whether connect() succeeded.
CreatePool(made, up) ==
  /\ Quiet /\ \A u \in Users : pc[u] # "g_wait"
  /\ _conn_pool = <<>>    \* otherwise it returns at once
  /\ Len(made) = pool_size
  /\ \A i \in 1..pool_size : link[made[i]] = "none"
  /\ \A i, j \in 1..pool_size : i # j => made[i] # made[j]
  /\ _conn_pool' = made
  /\ _sem' = _sem + pool_size
  /\ link' = [c \in Conns |-> IF \A i \in 1..pool_size : made[i] # c THEN link[c]
                              ELSE IF c \in up THEN "up" ELSE "down"]
  /\ UNCHANGED <<_lock, pc, conn, stale, broken>>

DestroyPool ==            \* leaves the semaphore alone
  /\ Quiet
  /\ _conn_pool # <<>>
  /\ link' = [c \in Conns |-> IF c \in Contents THEN "deleted" ELSE link[c]]
  /\ _conn_pool' = <<>>
  /\ stale' = stale + Len(_conn_pool)
  /\ UNCHANGED <<_sem, _lock, pc, conn, broken>>

-----------------------------------------------------------------------------
(* get_connect                                                             *)

GetCall(u) ==
  /\ Goto(u, "out", "g_wait")
  /\ UNCHANGED <<_conn_pool, _sem, _lock, link, conn, stale, broken>>

GetWait_TryOnly(u) ==     \* sem_trywait, its result ignored
  /\ Goto(u, "g_wait", "g_lock")
  /\ _sem' = IF _sem > 0 THEN _sem - 1 ELSE 0
  /\ UNCHANGED <<_conn_pool, _lock, link, conn, stale, broken>>

GetWait(u) ==
  /\ Goto(u, "g_wait", "g_lock")
  /\ _sem > 0
  /\ _sem' = _sem - 1
  /\ UNCHANGED <<_conn_pool, _lock, link, conn, stale, broken>>

\* A signal interrupts sem_wait while it blocks: get_connect returns NULL.
GetInterrupted(u) ==
  /\ Goto(u, "g_wait", "out")
  /\ _sem = 0
  /\ UNCHANGED <<_conn_pool, _sem, _lock, link, conn, stale, broken>>

GetLock(u) ==
  /\ Goto(u, "g_lock", "g_pop")
  /\ _lock = NoUser
  /\ _lock' = u
  /\ UNCHANGED <<_conn_pool, _sem, link, conn, stale, broken>>

GetPop_NotRemoved(u) ==
  /\ _conn_pool # <<>>
  /\ Goto(u, "g_pop", "g_unlock")
  /\ conn' = [conn EXCEPT ![u] = Head(_conn_pool)]
  /\ UNCHANGED <<_conn_pool, _sem, _lock, link, stale, broken>>

GetPop(u) ==
  /\ _conn_pool # <<>>
  /\ Goto(u, "g_pop", "g_unlock")
  /\ conn' = [conn EXCEPT ![u] = Head(_conn_pool)]
  /\ _conn_pool' = Tail(_conn_pool)
  /\ UNCHANGED <<_sem, _lock, link, stale, broken>>

GetPopEmpty(u) ==         \* undefined; the behaviour ends here
  /\ ~broken /\ pc[u] = "g_pop"
  /\ _conn_pool = <<>>
  /\ broken' = TRUE
  /\ UNCHANGED <<_conn_pool, _sem, _lock, link, pc, conn, stale>>

GetUnlock(u) ==
  /\ Goto(u, "g_unlock", "g_ping")
  /\ _lock' = NoUser
  /\ UNCHANGED <<_conn_pool, _sem, link, conn, stale, broken>>

\* ensure_connected: mysql_ping, and connect() if that fails.  Whether this
\* succeeded is ignored, the connection is handed out in any case.
GetPing(u, connected) ==
  /\ Goto(u, "g_ping", "use")
  /\ link[conn[u]] = "up" => connected
  /\ link' = [link EXCEPT ![conn[u]] = IF connected THEN "up" ELSE "down"]
  /\ UNCHANGED <<_conn_pool, _sem, _lock, conn, stale, broken>>

-----------------------------------------------------------------------------
(* release_connect                                                         *)

ReleaseCall(u) ==
  /\ Goto(u, "use", "r_lock")
  /\ UNCHANGED <<_conn_pool, _sem, _lock, link, conn, stale, broken>>

ReleaseLock(u) ==
  /\ Goto(u, "r_lock", "r_push")
  /\ _lock = NoUser
  /\ _lock' = u
  /\ UNCHANGED <<_conn_pool, _sem, link, conn, stale, broken>>

ReleasePush(u) ==
  /\ Goto(u, "r_push", "r_unlock")
  /\ _conn_pool' = Append(_conn_pool, conn[u])
  /\ conn' = [conn EXCEPT ![u] = NoConn]
  /\ UNCHANGED <<_sem, _lock, link, stale, broken>>

ReleaseUnlock(u) ==
  /\ Goto(u, "r_unlock", "r_post")
  /\ _lock' = NoUser
  /\ UNCHANGED <<_conn_pool, _sem, link, conn, stale, broken>>

ReleasePost_Forgotten(u) ==
  /\ Goto(u, "r_post", "out")
  /\ UNCHANGED <<_conn_pool, _sem, _lock, link, conn, stale, broken>>

ReleasePost(u) ==
  /\ Goto(u, "r_post", "out")
  /\ _sem' = _sem + 1
  /\ UNCHANGED <<_conn_pool, _lock, link, conn, stale, broken>>

LoseConnection(c) ==      \* mysql closes it
  /\ ~broken /\ link[c] = "up"
  /\ link' = [link EXCEPT ![c] = "down"]
  /\ UNCHANGED <<_conn_pool, _sem, _lock, pc, conn, stale, broken>>

-----------------------------------------------------------------------------
UserStep(u) ==
  \/ GetWait(u) \/ GetLock(u) \/ GetPop(u) \/ GetPopEmpty(u) \/ GetUnlock(u)
  \/ \E connected \in BOOLEAN : GetPing(u, connected)
  \/ ReleaseCall(u) \/ ReleaseLock(u) \/ ReleasePush(u)
  \/ ReleaseUnlock(u) \/ ReleasePost(u)

Next ==
  \/ \E u \in Users : GetCall(u) \/ GetInterrupted(u) \/ UserStep(u)
  \/ \E made \in [1..pool_size -> Conns], up \in SUBSET Conns :
       CreatePool(made, up)
  \/ DestroyPool
  \/ \E c \in Conns : LoseConnection(c)

Spec == Init /\ [][Next]_vars

-----------------------------------------------------------------------------
(* Properties                                                              *)

TypeOK ==
  /\ _conn_pool \in Seq(Conns)
  /\ _sem \in Nat /\ stale \in Nat
  /\ _lock \in Users \cup {NoUser}
  /\ link \in [Conns -> {"none", "up", "down", "deleted"}]
  /\ pc \in [Users -> Labels]
  /\ conn \in [Users -> Conns \cup {NoConn}]
  /\ \A u \in Users :
       pc[u] \in {"g_unlock", "g_ping", "use", "r_lock", "r_push"}
         <=> conn[u] # NoConn
  /\ broken \in BOOLEAN

\* A connection is in one place: with one user, or once in the list.
OnePlace ==
  /\ \A u, v \in Users : conn[u] = conn[v] /\ conn[u] # NoConn => u = v
  /\ \A u \in Users : conn[u] \notin Contents
  /\ \A i, j \in 1..Len(_conn_pool) : _conn_pool[i] = _conn_pool[j] => i = j

At(L) == Cardinality({u \in Users : pc[u] \in L})

\* Every permit of the semaphore stands for one connection in the list,
\* except for the permits that destroy_pool left behind: it clears the list
\* and keeps the count.
PermitsMatch ==
  _sem + At({"g_lock", "g_pop"}) + At({"r_unlock", "r_post"})
    = Len(_conn_pool) + stale

\* get_connect tests nothing before front().  It finds a connection for as
\* long as no pool with connections in it has been destroyed.
BrokenAfterDestroy == broken => stale > 0

\* Whoever passes sem_wait finds a connection, but for what a destroy_pool of
\* a full list has upset.
PermitsServed == PermitsMatch /\ BrokenAfterDestroy

\* What destroy_pool has deleted is reached by nobody: it is not in the list
\* and no user has it.
DeletedUnreachable ==
  \A c \in Conns :
    link[c] = "deleted" => c \notin Contents /\ \A u \in Users : conn[u] # c

\* Whatever is created, destroyed and returned, a connection is used by one
\* user at a time, and never after its deletion.
ConnectionsSafe == OnePlace /\ DeletedUnreachable

\* If users wait, some user gets a connection, unless there is no pool: none
\* was created, or get_connect ran into one that was destroyed; or nobody is in
\* get_connect any more, because signals have interrupted sem_wait.
WaitersServed ==
  (\E u \in Users : pc[u] = "g_wait") /\ (\E c \in Conns : link[c] # "none")
    ~> \/ \E u \in Users : pc[u] = "g_ping"
       \/ \A u \in Users : pc[u] \notin GetLabels
       \/ broken
=============================================================================
