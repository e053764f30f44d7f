----------------------------- MODULE DbSession -----------------------------
(***************************************************************************)
(* What the users of a DbPool do with the connections they get (class      *)
(* DbConnect, DbConnect.cpp) and what the mysql server does for each of    *)
(* them: every user has one unit of two rows that belong together, which   *)
(* it puts between transaction() and commit() or rollback().  mysql_query  *)
(* on a connection that is lost fails, and may fail on one that is not: a  *)
(* duplicate key, a deadlock.  The calls do not reconnect, but for         *)
(* unlock_table; insert_record returns true for an error (-1 as a bool)    *)
(* and false for success, the other calls return nothing, and the users    *)
(* here go on, as store_data_msql does.  What a statement and a lost       *)
(* connection effect is mysql's: a transaction that is open then is undone. *)
(***************************************************************************)
EXTENDS DbPool

VARIABLES open,      \* connections with a transaction that is not finished
          pending,   \* the rows inserted in it
          table,     \* the rows everybody sees
          unit,      \* how far each user is: "before", "begun", "one", "both", "ended"
          excused    \* users that let go of a connection, or renewed it, within
                     \* their unit, or a statement of which mysql refused

svars == <<open, pending, table, unit, excused>>
allvars == <<_conn_pool, _sem, _lock, link, pc, conn, stale, broken,
             open, pending, table, unit, excused>>
poolrest == <<_conn_pool, _sem, _lock, pc, conn, stale, broken>>

Within(u) == unit[u] \in {"begun", "one", "both"}

SInit ==
  /\ Init
  /\ open = {} /\ pending = [c \in Conns |-> {}] /\ table = {}
  /\ unit = [u \in Users |-> "before"] /\ excused = {}

-----------------------------------------------------------------------------
(* The calls of a user for the connection it has                           *)

Using(u) == ~broken /\ pc[u] = "use"
Up(u)    == link[conn[u]] = "up"
To(u, from, to) == unit[u] = from /\ unit' = [unit EXCEPT ![u] = to]

\* "start transaction" commits what is left of another one.
Transaction(u) ==
  /\ Using(u) /\ To(u, "before", "begun")
  /\ table' = IF Up(u) THEN table \cup pending[conn[u]] ELSE table
  /\ pending' = IF Up(u) THEN [pending EXCEPT ![conn[u]] = {}] ELSE pending
  /\ open' = IF Up(u) THEN open \cup {conn[u]} ELSE open
  /\ UNCHANGED <<poolrest, link, excused>>

\* Within a transaction the row waits for its end, otherwise it is there.
Inserted(u, row) ==
  IF conn[u] \in open
  THEN pending' = [pending EXCEPT ![conn[u]] = @ \cup {row}] /\ UNCHANGED table
  ELSE table' = table \cup {row} /\ UNCHANGED pending

Insert_Reconnects(u) ==    \* insert_record calls ensure_connected
  /\ Using(u)
  /\ \E i \in {1, 2} : To(u, <<"begun", "one">>[i], <<"one", "both">>[i]) /\ Inserted(u, <<u, i>>)
  /\ link' = [link EXCEPT ![conn[u]] = "up"]
  /\ UNCHANGED <<poolrest, open, excused>>

Insert(u) ==
  /\ Using(u)
  /\ \E i \in {1, 2} :
       /\ To(u, <<"begun", "one">>[i], <<"one", "both">>[i])
       /\ IF Up(u) THEN Inserted(u, <<u, i>>) ELSE UNCHANGED <<pending, table>>
  /\ UNCHANGED <<poolrest, link, open, excused>>

\* mysql_query reports an error of the statement; the connection is up.
Refused(u, from, to) ==
  /\ Using(u) /\ Up(u) /\ To(u, from, to)
  /\ excused' = excused \cup {u}
  /\ UNCHANGED <<poolrest, link, table>>

TransactionRefused(u) ==
  Refused(u, "before", "begun") /\ UNCHANGED <<open, pending>>

\* The row is missing from a transaction that goes on, or the whole transaction
\* is undone: then the next row is not in one.
InsertRefused(u) ==
  /\ \E i \in {1, 2} : Refused(u, <<"begun", "one">>[i], <<"one", "both">>[i])
  /\ \/ UNCHANGED <<open, pending>>
     \/ open' = open \ {conn[u]} /\ pending' = [pending EXCEPT ![conn[u]] = {}]

Ended(u, from) ==
  /\ Using(u) /\ To(u, from, "ended")
  /\ pending' = IF Up(u) THEN [pending EXCEPT ![conn[u]] = {}] ELSE pending
  /\ open' = IF Up(u) THEN open \ {conn[u]} ELSE open
  /\ UNCHANGED <<poolrest, link, excused>>

Commit(u) ==
  /\ Ended(u, "both")
  /\ table' = IF Up(u) THEN table \cup pending[conn[u]] ELSE table

\* Also a commit that mysql refuses.
Rollback(u) ==
  /\ \E from \in {"begun", "one", "both"} : Ended(u, from)
  /\ UNCHANGED table

\* Renews a lost connection.  The statement itself is none that mysql knows.
UnlockTable(u) ==
  /\ Using(u) /\ ~Up(u)
  /\ link' = [link EXCEPT ![conn[u]] = "up"]
  /\ excused' = IF Within(u) THEN excused \cup {u} ELSE excused
  /\ UNCHANGED <<poolrest, open, pending, table, unit>>

-----------------------------------------------------------------------------
(* The pool                                                                *)

\* release_connect takes a connection back as it is.
Release(u) ==
  /\ ReleaseCall(u)
  /\ excused' = IF Within(u) THEN excused \cup {u} ELSE excused
  /\ unit' = IF Within(u) THEN [unit EXCEPT ![u] = "ended"] ELSE unit
  /\ UNCHANGED <<open, pending, table>>

PoolStep(u) ==
  \/ Release(u)
  \/ /\ GetWait(u) \/ GetLock(u) \/ GetPop(u) \/ GetPopEmpty(u) \/ GetUnlock(u)
        \/ \E connected \in BOOLEAN : GetPing(u, connected)
        \/ ReleaseLock(u) \/ ReleasePush(u) \/ ReleaseUnlock(u) \/ ReleasePost(u)
     /\ UNCHANGED svars

\* The server undoes what is open on connections that go.
Undone(gone) ==
  /\ open' = open \ gone
  /\ pending' = [c \in Conns |-> IF c \in gone THEN {} ELSE pending[c]]
  /\ UNCHANGED <<table, unit, excused>>

Lose(c) == LoseConnection(c) /\ Undone({c})
Destroy == DestroyPool /\ Undone(Contents)
Create  == /\ \E made \in [1..pool_size -> Conns], up \in SUBSET Conns : CreatePool(made, up)
           /\ UNCHANGED svars
Get(u)  == (GetCall(u) \/ GetInterrupted(u)) /\ UNCHANGED svars

UnitStep(u) ==
  \/ Transaction(u) \/ Insert(u) \/ Commit(u) \/ Rollback(u)
  \/ TransactionRefused(u) \/ InsertRefused(u)

SNext ==
  \/ \E u \in Users : Get(u) \/ PoolStep(u) \/ UnitStep(u) \/ UnlockTable(u)
  \/ \E c \in Conns : Lose(c)
  \/ Create \/ Destroy

SSpec == SInit /\ [][SNext]_allvars /\ \A u \in Users : WF_allvars(PoolStep(u))

-----------------------------------------------------------------------------
(* Properties                                                              *)

\* Whatever connections are lost, and wherever, the table has both rows of a
\* unit or none of them, although no user looks at the results and commit()
\* may have done nothing.  It has half of one only for a user that is excused:
\* release_connect does not end a transaction, and the next user's begin
\* commits it; unlock_table renews a connection on which the first row was
\* undone; mysql refused begin or one of the rows, and commit() stores the
\* other, or a row outside of a transaction stores itself.
UnitsWhole ==
  \A u \in Users \ excused : <<u, 1>> \in table <=> <<u, 2>> \in table
=============================================================================
