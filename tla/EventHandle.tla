---------------------------- MODULE EventHandle ----------------------------
(***************************************************************************)
(* The server as a whole (event_drive.cpp): the main thread moves records  *)
(* from a redis list to the command queue, the one pool thread that runs   *)
(* func_routine takes commands from the queue, pushes them with curl and   *)
(* inserts a row into mysql.  The queue appears as BoundedQueue, which     *)
(* CmdFifo implements; that one thread only runs func_routine is shown     *)
(* with PthreadHandle.  Redis, the push service and mysql are external.    *)
(* (Definitions with a suffix after "_" are faulty variants, see CmdFifo.) *)
(***************************************************************************)
EXTENDS Integers, Sequences, RedisRecord

CONSTANTS NUM_MAX,      \* capacity of the command queue
          Kinds,        \* the kinds of records applications put into redis
          Overlong,     \* kinds that do not fit into strTemp or temp
          Unprintable,  \* kinds whose log lines have a "%", app_key included,
                        \* or whose statement does not fit into sql
          SharedKey,    \* somebody else pops from the same redis key
          ErrorReplies, \* redis may refuse lpop: wrong type, read-only replica
          LogRace,      \* the build does not survive two threads that assign
                        \* cur_time at once
          MaxRecords,   \* bound: records put into redis
          MaxDrops,     \* bound: losses of the redis connection
          MaxRestarts,  \* bound: restarts of the process after it died
          NoData

ASSUME BoundsAssumption ==
  /\ NUM_MAX \in Nat \ {0}
  /\ Overlong \subseteq Kinds /\ Unprintable \subseteq Kinds
  /\ SharedKey \in BOOLEAN /\ ErrorReplies \in BOOLEAN /\ LogRace \in BOOLEAN
  /\ MaxRecords \in Nat /\ MaxDrops \in Nat /\ MaxRestarts \in Nat

fail_try == 3    \* in data_push; counts repetitions, not attempts

Records == [id : 1..MaxRecords, kind : Kinds]

ASSUME NoDataAssumption == NoData \notin Records

VARIABLES redis,      \* the list under redis_primary_key; <<>>: no such key
          arrived,    \* records put into redis so far
          link,       \* the connection: "up", "dropped", or "reset" after a
                      \* first call on the dropped connection has failed
          drops, restarts,
          main,       \* where the main thread is
          ltemp,      \* the record lpop returned
          worker,     \* where the thread that runs func_routine is
          tries,      \* calls of curl_easy_perform for the current command
          queue, offer, asking, fetched,    \* see BoundedQueue
          delivered,  \* records that reached the push service, in order
          rows        \* records in the mysql table, in order

environmentVars == <<redis, arrived, link, drops, restarts>>
queueVars  == <<queue, offer, asking, fetched>>
workerVars == <<worker, tries>>
resultVars == <<delivered, rows>>
vars == <<environmentVars, main, ltemp, workerVars, queueVars, resultVars>>

Queue == INSTANCE BoundedQueue WITH
  Producers <- {"main"}, Consumers <- {"worker"}, Data <- Records,
  Capacity <- NUM_MAX

\* Labels name what the thread does next; "dead" is the terminated process.
MainLabels == {"connect", "start", "exists", "lpop", "decode", "store",
               "sleep", "dead"}
WorkerLabels == {"absent", "added", "get", "fetch", "push", "insert"}

Init ==
  /\ redis = <<>> /\ arrived = 0
  /\ link = "up" /\ drops = 0 /\ restarts = 0
  /\ main = "connect" /\ ltemp = NoData
  /\ worker = "absent" /\ tries = 0
  /\ Queue!Init
  /\ delivered = <<>> /\ rows = <<>>

MainGoes(from, to)   == main = from /\ main' = to
WorkerGoes(from, to) == worker = from /\ worker' = to

-----------------------------------------------------------------------------
(* The surroundings                                                        *)

Rpush(k) ==       \* an application appends a record
  /\ arrived < MaxRecords
  /\ arrived' = arrived + 1
  /\ redis' = Append(redis, [id |-> arrived + 1, kind |-> k])
  /\ UNCHANGED <<link, drops, restarts, main, ltemp, workerVars, queueVars,
                 resultVars>>

OtherPop ==
  /\ SharedKey
  /\ redis # <<>>
  /\ redis' = Tail(redis)
  /\ UNCHANGED <<arrived, link, drops, restarts, main, ltemp, workerVars,
                 queueVars, resultVars>>

DropLink ==
  /\ main \notin {"connect", "dead"}
  /\ link = "up"
  /\ drops < MaxDrops
  /\ link' = "dropped"
  /\ drops' = drops + 1
  /\ UNCHANGED <<redis, arrived, restarts, main, ltemp, workerVars, queueVars,
                 resultVars>>

\* The process ends: the queue, the record in the hands of either thread and
\* the progress of the worker are gone.
Die ==
  /\ main' = "dead"
  /\ ltemp' = NoData
  /\ worker' = "absent" /\ tries' = 0
  /\ queue' = <<>>
  /\ offer' = [p \in {"main"} |-> NoData]
  /\ asking' = {}
  /\ fetched' = [c \in {"worker"} |-> NoData]
  /\ UNCHANGED <<arrived, restarts, delivered>>

Restart ==        \* by hand: the program has no supervisor
  /\ MainGoes("dead", "connect")
  /\ restarts < MaxRestarts
  /\ restarts' = restarts + 1
  /\ UNCHANGED <<redis, arrived, link, drops, ltemp, workerVars, queueVars,
                 resultVars>>

-----------------------------------------------------------------------------
(* The main thread                                                         *)

Connect ==        \* redis_connect: tries until the server answers
  /\ MainGoes("connect", "start")
  /\ link' = "up"
  /\ UNCHANGED <<redis, arrived, drops, restarts, ltemp, workerVars, queueVars,
                 resultVars>>

StartWorker ==    \* event_run: pool_event_add(func_routine, this)
  /\ MainGoes("start", "exists")
  /\ worker' = "added"
  /\ UNCHANGED <<environmentVars, ltemp, tries, queueVars, resultVars>>

Exists_Ignored ==
  /\ link = "up"
  /\ MainGoes("exists", "lpop")
  /\ UNCHANGED <<environmentVars, ltemp, workerVars, queueVars, resultVars>>

Exists ==         \* redis_safe_check_exists
  /\ link = "up"
  /\ MainGoes("exists", IF redis = <<>> THEN "sleep" ELSE "lpop")
  /\ UNCHANGED <<environmentVars, ltemp, workerVars, queueVars, resultVars>>

\* The error is caught and the call repeated on the same connection: it
\* fails for ever, or writing to the closed socket raises SIGPIPE, which
\* nothing in the running program ignores.
ExistsFails ==
  /\ main = "exists"
  /\ link = "dropped"
  /\ link' = "reset"
  /\ UNCHANGED <<redis, arrived, drops, restarts, main, ltemp, workerVars,
                 queueVars, resultVars>>

ExistsKilled ==
  /\ main = "exists"
  /\ link = "reset"
  /\ Die
  /\ UNCHANGED <<redis, link, drops, rows>>

Lpop_FromTail ==
  /\ link = "up"
  /\ MainGoes("lpop", "decode")
  /\ IF redis = <<>>
       THEN ltemp' = [id |-> 0, kind |-> MissingValue] /\ UNCHANGED redis
       ELSE /\ ltemp' = redis[Len(redis)]
            /\ redis' = SubSeq(redis, 1, Len(redis) - 1)
  /\ UNCHANGED <<arrived, link, drops, restarts, workerVars, queueVars,
                 resultVars>>

Lpop ==
  /\ link = "up"
  /\ MainGoes("lpop", "decode")
  /\ IF redis = <<>>      \* emptied since exists
       THEN ltemp' = [id |-> 0, kind |-> MissingValue] /\ UNCHANGED redis
       ELSE ltemp' = Head(redis) /\ redis' = Tail(redis)
  /\ UNCHANGED <<arrived, link, drops, restarts, workerVars, queueVars,
                 resultVars>>

LpopFails ==      \* lpop is outside of every try block
  /\ main = "lpop"
  /\ link # "up" \/ ErrorReplies
  /\ Die
  /\ UNCHANGED <<redis, link, drops, rows>>

LpopReplyLost ==  \* the server has popped, its reply does not arrive
  /\ main = "lpop"
  /\ link = "up"
  /\ drops < MaxDrops
  /\ redis # <<>>
  /\ redis' = Tail(redis)
  /\ link' = "dropped"
  /\ drops' = drops + 1
  /\ Die
  /\ UNCHANGED rows

DecodeStores ==
  /\ MainGoes("decode", "store")
  /\ Outcome(ltemp.kind) = "stored"
  /\ Queue!Offer("main", ltemp)
  /\ UNCHANGED <<environmentVars, ltemp, workerVars, resultVars>>

DecodeRejects_Requeued ==    \* rpush of what was rejected
  /\ MainGoes("decode", "sleep")
  /\ Outcome(ltemp.kind) = "rejected"
  /\ redis' = Append(redis, ltemp)
  /\ UNCHANGED <<arrived, link, drops, restarts, ltemp, workerVars, queueVars,
                 resultVars>>

DecodeRejects ==
  /\ MainGoes("decode", "sleep")
  /\ Outcome(ltemp.kind) = "rejected"
  /\ UNCHANGED <<environmentVars, ltemp, workerVars, queueVars, resultVars>>

DecodeThrows ==   \* out_of_range reaches the end of main
  /\ main = "decode"
  /\ Outcome(ltemp.kind) = "throws"
  /\ Die
  /\ UNCHANGED <<redis, link, drops, rows>>

\* What is copied over the end of strTemp or temp is undefined: this, or one
\* of the other outcomes.
DecodeOverruns ==
  /\ main = "decode"
  /\ ltemp.kind \in Overlong
  /\ Die
  /\ UNCHANGED <<redis, link, drops, rows>>

StoreDone_NoWait ==
  /\ MainGoes("store", "exists")
  /\ queue' = Append(queue, ltemp)
  /\ offer' = [p \in {"main"} |-> NoData]
  /\ UNCHANGED <<environmentVars, ltemp, workerVars, asking, fetched, resultVars>>

StoreDone ==      \* blocks while the queue is full; then the next record
  /\ MainGoes("store", "exists")
  /\ Queue!Put("main")
  /\ UNCHANGED <<environmentVars, ltemp, workerVars, resultVars>>

WakeUp ==         \* after sleep(5)
  /\ MainGoes("sleep", "exists")
  /\ UNCHANGED <<environmentVars, ltemp, workerVars, queueVars, resultVars>>

-----------------------------------------------------------------------------
(* func_routine                                                            *)

command == fetched["worker"]    \* argTemp

WorkerBegins ==   \* a pool thread takes the task
  /\ WorkerGoes("added", "get")
  /\ UNCHANGED <<environmentVars, main, ltemp, tries, queueVars, resultVars>>

GetCall ==
  /\ WorkerGoes("get", "fetch")
  /\ Queue!Ask("worker")
  /\ UNCHANGED <<environmentVars, main, ltemp, tries, resultVars>>

GetReturns ==     \* do { get_value } while (!is_data_ok)
  /\ Queue!Take("worker")
  /\ WorkerGoes("fetch",
                IF is_data_ok(Command(Head(queue).kind)) THEN "push" ELSE "get")
  /\ UNCHANGED <<environmentVars, main, ltemp, tries, resultVars>>

NoCurl ==         \* curl_easy_init returned NULL: nothing is pushed
  /\ tries = 0
  /\ WorkerGoes("push", "insert")
  /\ UNCHANGED <<environmentVars, main, ltemp, tries, queueVars, resultVars>>

\* One curl_easy_perform.  ok: it returned CURLE_OK; reached: the service
\* got the request, which it also may have when only the answer was lost.
Perform_OneMore(ok, reached) ==
  /\ ok => reached
  /\ WorkerGoes("push", IF ok \/ tries = fail_try + 1 THEN "insert" ELSE "push")
  /\ tries' = tries + 1
  /\ delivered' = IF reached THEN Append(delivered, command) ELSE delivered
  /\ UNCHANGED <<environmentVars, main, ltemp, queueVars, rows>>

Perform(ok, reached) ==
  /\ ok => reached
  /\ WorkerGoes("push", IF ok \/ tries = fail_try THEN "insert" ELSE "push")
  /\ tries' = tries + 1
  /\ delivered' = IF reached THEN Append(delivered, command) ELSE delivered
  /\ UNCHANGED <<environmentVars, main, ltemp, queueVars, rows>>

\* store_data_msql, whatever data_push achieved; its own result is ignored.
Insert_RetryBlindly(stored) ==    \* repeated although the row got there
  /\ WorkerGoes("insert", IF stored THEN "get" ELSE "insert")
  /\ tries' = 0
  /\ rows' = Append(rows, command)
  /\ UNCHANGED <<environmentVars, main, ltemp, queueVars, delivered>>

Insert(stored) ==
  /\ WorkerGoes("insert", "get")
  /\ tries' = 0
  /\ rows' = IF stored THEN Append(rows, command) ELSE rows
  /\ UNCHANGED <<environmentVars, main, ltemp, queueVars, delivered>>

\* The process ends in a log line, of data_push or store_data_msql, that has
\* a "%" from a record or the settings as its format, or with the row already
\* stored when sprintf has written over the end of sql.
InsertDies(stored) ==
  /\ worker = "insert"
  /\ command.kind \in Unprintable
  /\ rows' = IF stored THEN Append(rows, command) ELSE rows
  /\ Die
  /\ UNCHANGED <<redis, link, drops>>

\* Both threads log, which assigns the member cur_time without a lock.
LogsCollide ==
  /\ LogRace
  /\ main \in {"exists", "decode"} /\ worker \in {"push", "insert"}
  /\ Die
  /\ UNCHANGED <<redis, link, drops, rows>>

-----------------------------------------------------------------------------
MainStep ==
  \/ Connect \/ StartWorker \/ Exists \/ Lpop
  \/ DecodeStores \/ DecodeRejects \/ DecodeThrows \/ StoreDone \/ WakeUp

MainTrouble ==
  ExistsFails \/ ExistsKilled \/ LpopFails \/ LpopReplyLost \/ DecodeOverruns

WorkerTrouble == LogsCollide \/ \E stored \in BOOLEAN : InsertDies(stored)

WorkerStep ==
  \/ WorkerBegins \/ GetCall \/ GetReturns \/ NoCurl
  \/ \E ok, reached \in BOOLEAN : Perform(ok, reached)
  \/ \E stored \in BOOLEAN : Insert(stored)

Environment ==
  OtherPop \/ DropLink \/ Restart \/ \E k \in Kinds : Rpush(k)

Next == Environment \/ MainStep \/ MainTrouble \/ WorkerStep \/ WorkerTrouble

Spec == Init /\ [][Next]_vars

(* Both threads keep running: redis answers in the end, and so do curl and *)
(* mysql.  Whether the surroundings do anything is left open.              *)
FairSpec == Spec /\ WF_vars(MainStep) /\ WF_vars(WorkerStep)

-----------------------------------------------------------------------------
(* Properties                                                              *)

TypeOK ==
  /\ redis \in Seq(Records) /\ arrived \in 0..MaxRecords
  /\ link \in {"up", "dropped", "reset"}
  /\ drops \in 0..MaxDrops /\ restarts \in 0..MaxRestarts
  /\ main \in MainLabels
  /\ ltemp \in Records \cup {NoData, [id |-> 0, kind |-> MissingValue]}
  /\ worker \in WorkerLabels
  /\ tries \in Nat
  /\ queue \in Seq(Records)
  /\ offer \in [{"main"} -> Records \cup {NoData}]
  /\ asking \subseteq {"worker"}
  /\ fetched \in [{"worker"} -> Records \cup {NoData}]
  /\ delivered \in Seq(Records) /\ rows \in Seq(Records)

Pushing == worker \in {"push", "insert"}

\* Records the process has accepted and not settled, oldest first: one with
\* the worker, those in the queue, one the main thread is storing.
Backlog ==
  (IF Pushing THEN <<command>> ELSE <<>>) \o queue
    \o (IF main = "store" THEN <<ltemp>> ELSE <<>>)

\* Records in the list, and one the main thread has taken and not judged.
Inbox ==
  (IF main = "decode" /\ ltemp.id # 0 THEN <<ltemp>> ELSE <<>>) \o redis

\* store_cmd_data blocks the main thread when the queue is full and leaves
\* the rest in redis: an abrupt end loses at most NUM_MAX + 2 records.
BacklogBounded == Len(Backlog) <= NUM_MAX + 2

\* The table gets its rows in the order the records arrived in and no record
\* twice, across failed pushes, crashes and restarts.
RowsInOrder ==
  \A i, j \in 1..Len(rows) : i < j => rows[i].id < rows[j].id

\* Requests reach the push service in the order the records arrived in; one
\* record may arrive again, when an answer was lost, but at most four times
\* in all, and never after a later record.
DeliveriesInOrder ==
  /\ \A i, j \in 1..Len(delivered) :
       i < j => delivered[i].id <= delivered[j].id
  /\ \A i \in 1..Len(delivered) :
       i + fail_try + 1 <= Len(delivered)
         => delivered[i].id # delivered[i + fail_try + 1].id

\* A record is pushed only while every row in the table is of an earlier one:
\* the row is written after the last attempt, never before or in between.
RowEndsPushing ==
  worker = "push" => \A i \in 1..Len(rows) : rows[i].id < command.id

\* The table tells the story of the pushes: one row per record at most, in
\* order, and none before its record is done with.
RowsFollowPushes == RowsInOrder /\ RowEndsPushing

\* Every way the process can end while it has memory: a record with too few
\* fields, a list that somebody else emptied between exists and lpop, the loss
\* of the redis connection, an error reply to lpop, a record that does not fit
\* into the buffers of the decoding, a "%" in a log line or a statement that
\* does not fit into sql, two threads in the logger.  With none of these around
\* it never ends.
EndHasCause ==
  main = "dead" =>
    \/ \E k \in Kinds : Throws(k)
    \/ SharedKey
    \/ drops > 0
    \/ ErrorReplies
    \/ Overlong # {}
    \/ Unprintable # {}
    \/ LogRace

\* The refinement.
Service == INSTANCE PushService WITH
  Limit <- NUM_MAX + 2, MaxAttempts <- fail_try + 1,
  inbox <- Inbox, backlog <- Backlog, attempts <- tries

\* The server accepts in order, pushes and settles one record at a time, and
\* an end of the process loses the backlog and nothing else.
ImplementsService == Service!Spec

\* Every record that is in redis while the server works is dealt with: taken
\* by somebody, or pushed, and rejected, stored or given up; unless the
\* connection is lost, which the server does not repair, or the process ends.
EveryRecordSettled ==
  \A n \in 1..MaxRecords :
    arrived >= n
      ~> \/ \A i \in 1..Len(Inbox \o Backlog) : (Inbox \o Backlog)[i].id # n
         \/ link # "up"
         \/ main = "dead"
=============================================================================
