-------------------------- MODULE EventHandle_proof --------------------------
(***************************************************************************)
(* Proofs about the whole server, for any configuration, any kinds of      *)
(* records, any NUM_MAX and any number of records, losses of the           *)
(* connection and restarts.                                                *)
(*                                                                         *)
(* A record moves through stations: the redis list, the main thread, the   *)
(* queue, the worker, the table.  The ids of the records were given in the *)
(* order of arrival; the inductive invariant says that at any time the ids *)
(* at one station are below those at the stations before it, and in order  *)
(* within a station.  No crash, loss or repetition disturbs this, because  *)
(* each of them only takes records away.                                   *)
(***************************************************************************)
EXTENDS EventHandle, SequenceTheorems, TLAPS

Sorted(s)    == \A i, j \in 1..Len(s) : i < j => s[i].id < s[j].id
Before(s, n) == \A i \in 1..Len(s) : s[i].id < n
After(s, n)  == \A i \in 1..Len(s) : n < s[i].id
Below(s, t)  == \A i \in 1..Len(s) : \A j \in 1..Len(t) : s[i].id < t[j].id

Missing == [id |-> 0, kind |-> MissingValue]

\* The main thread has a record that came from redis.
Holding == main = "store" \/ (main = "decode" /\ ltemp.id # 0)

\* What the two threads have in their hands.
Hands ==
  /\ main = "decode" => ltemp \in Records \cup {Missing}
  /\ main = "store" => ltemp \in Records /\ offer["main"] = ltemp
  /\ main \in {"connect", "start", "dead"} => worker = "absent"
  /\ Pushing => command \in Records
  /\ Len(queue) <= NUM_MAX

\* The stations a record passes before it is settled are in order.
Stations ==
  /\ Sorted(queue) /\ Sorted(redis) /\ Below(queue, redis)
  /\ Before(queue, arrived + 1) /\ Before(redis, arrived + 1)
  /\ Holding => /\ Before(queue, ltemp.id) /\ After(redis, ltemp.id)
                /\ ltemp.id < arrived + 1
  /\ Pushing => /\ After(queue, command.id) /\ After(redis, command.id)
                /\ command.id < arrived + 1
  /\ Pushing /\ Holding => command.id < ltemp.id

\* The records in s are before everything that is not yet with the worker.
Past(s) ==
  /\ Below(s, queue) /\ Below(s, redis) /\ Before(s, arrived + 1)
  /\ Holding => Before(s, ltemp.id)

Table == Sorted(rows) /\ Past(rows) /\ (Pushing => Before(rows, command.id))

\* All but the last "tries" requests were for records before the current one.
Requests ==
  /\ Past(delivered)
  /\ DeliveriesInOrder
  /\ tries <= fail_try + 1
  /\ worker = "push" => tries <= fail_try
  /\ ~Pushing => tries = 0
  /\ Pushing =>
       /\ \A i \in 1..Len(delivered) : delivered[i].id <= command.id
       /\ \A i \in 1..Len(delivered) :
            i + tries <= Len(delivered) => delivered[i].id < command.id

\* A connection that is not up was lost; a list found empty after exists was
\* emptied by somebody else.
Causes ==
  /\ link # "up" => drops > 0
  /\ main = "lpop" /\ redis = <<>> => SharedKey
  /\ main = "decode" /\ ltemp.id = 0 => SharedKey
  /\ EndHasCause

IInv == TypeOK /\ Hands /\ Stations /\ Table /\ Requests /\ Causes

-----------------------------------------------------------------------------
(* Sequences of records                                                    *)

LEMMA RecordId == \A r \in Records : r.id \in Nat /\ r.id > 0
<1> QED BY BoundsAssumption DEF Records

LEMMA OrderEmpty ==
  /\ Sorted(<<>>)
  /\ \A n : Before(<<>>, n) /\ After(<<>>, n)
  /\ \A s : Below(<<>>, s) /\ Below(s, <<>>)
<1>1. Len(<<>>) = 0 BY EmptySeq
<1> QED BY <1>1 DEF Sorted, Before, After, Below

LEMMA OrderTail ==
  ASSUME NEW s \in Seq(Records), s # <<>>
  PROVE  /\ Head(s) \in Records /\ Tail(s) \in Seq(Records)
         /\ Len(Tail(s)) < Len(s)
         /\ Sorted(s) => Sorted(Tail(s)) /\ After(Tail(s), Head(s).id)
         /\ \A n : Before(s, n) => Before(Tail(s), n) /\ Head(s).id < n
         /\ \A n : After(s, n) => After(Tail(s), n) /\ n < Head(s).id
         /\ \A t : Below(s, t) => Below(Tail(s), t) /\ After(t, Head(s).id)
         /\ \A t : Below(t, s) => Below(t, Tail(s)) /\ Before(t, Head(s).id)
<1> DEFINE t == Tail(s)
<1>1. /\ Head(s) \in Records /\ t \in Seq(Records) /\ Head(s) = s[1]
      /\ Len(s) \in Nat /\ 1 \in 1..Len(s) /\ Len(t) = Len(s) - 1
      /\ \A i \in 1..Len(t) : t[i] = s[i + 1] /\ i + 1 \in 1..Len(s)
  BY HeadTailProperties, LenProperties
<1> HIDE DEF t
<1>2. Len(t) < Len(s) BY <1>1
<1>3. ASSUME Sorted(s) PROVE Sorted(t) /\ After(t, Head(s).id)
  <2>1. \A i, j \in 1..Len(t) : i < j => i + 1 < j + 1
    BY <1>1
  <2>2. Sorted(t)
    BY <1>1, <1>3, <2>1 DEF Sorted
  <2>3. \A i \in 1..Len(t) : 1 < i + 1
    BY <1>1
  <2>4. After(t, Head(s).id)
    BY <1>1, <1>3, <2>3 DEF Sorted, After
  <2> QED BY <2>2, <2>4
<1>4. \A n : Before(s, n) => Before(t, n) /\ Head(s).id < n
  BY <1>1 DEF Before
<1>5. \A n : After(s, n) => After(t, n) /\ n < Head(s).id
  BY <1>1 DEF After
<1>6. \A u : Below(s, u) => Below(t, u) /\ After(u, Head(s).id)
  BY <1>1 DEF Below, After
<1>7. \A u : Below(u, s) => Below(u, t) /\ Before(u, Head(s).id)
  BY <1>1 DEF Below, Before
<1> QED BY <1>1, <1>2, <1>3, <1>4, <1>5, <1>6, <1>7 DEF t

LEMMA OrderAppend ==
  ASSUME NEW s \in Seq(Records), NEW r \in Records
  PROVE  /\ Append(s, r) \in Seq(Records)
         /\ Len(Append(s, r)) = Len(s) + 1 /\ Len(s) \in Nat
         /\ \A i \in 1..Len(s) : Append(s, r)[i] = s[i]
         /\ Append(s, r)[Len(s) + 1] = r
         /\ Sorted(s) /\ Before(s, r.id) => Sorted(Append(s, r))
         /\ \A n : Before(s, n) /\ r.id < n => Before(Append(s, r), n)
         /\ \A n : After(s, n) /\ n < r.id => After(Append(s, r), n)
         /\ \A t : Below(s, t) /\ After(t, r.id) => Below(Append(s, r), t)
         /\ \A t : Below(t, s) /\ Before(t, r.id) => Below(t, Append(s, r))
<1> DEFINE a == Append(s, r)
<1>1. /\ a \in Seq(Records) /\ Len(a) = Len(s) + 1 /\ Len(s) \in Nat
      /\ \A i \in 1..Len(s) : a[i] = s[i]
      /\ a[Len(s) + 1] = r
  BY AppendProperties, LenProperties
<1>2. \A i \in 1..Len(a) : i \in 1..Len(s) \/ i = Len(s) + 1
  BY <1>1
<1> HIDE DEF a
<1>3. Sorted(s) /\ Before(s, r.id) => Sorted(a)
  <2> SUFFICES ASSUME Sorted(s), Before(s, r.id),
                      NEW i \in 1..Len(a), NEW j \in 1..Len(a), i < j
               PROVE  a[i].id < a[j].id
    BY DEF Sorted
  <2>1. i \in 1..Len(s) BY <1>1, <1>2
  <2>2. CASE j \in 1..Len(s) BY <1>1, <2>1, <2>2 DEF Sorted
  <2>3. CASE j = Len(s) + 1 BY <1>1, <2>1, <2>3 DEF Before
  <2> QED BY <1>2, <2>2, <2>3
<1>4. \A n : Before(s, n) /\ r.id < n => Before(a, n)
  BY <1>1, <1>2 DEF Before
<1>5. \A n : After(s, n) /\ n < r.id => After(a, n)
  BY <1>1, <1>2 DEF After
<1>6. \A t : Below(s, t) /\ After(t, r.id) => Below(a, t)
  BY <1>1, <1>2 DEF Below, After
<1>7. \A t : Below(t, s) /\ Before(t, r.id) => Below(t, a)
  BY <1>1, <1>2 DEF Below, Before
<1> QED BY <1>1, <1>3, <1>4, <1>5, <1>6, <1>7 DEF a

-----------------------------------------------------------------------------
(* Types                                                                   *)

\* What was pushed back cannot have been the answer to an empty list.
LEMMA MissingThrows == Outcome(MissingValue) = "throws"
<1>1. MissingValue.n = 1 BY DEF MissingValue
<1> QED BY <1>1 DEF Outcome, Throws

LEMMA StoredIsRecord ==
  ASSUME Hands, main = "decode", Outcome(ltemp.kind) = "stored"
  PROVE  ltemp \in Records /\ ltemp.id # 0
<1>1. ltemp # Missing BY MissingThrows DEF Missing
<1>2. ltemp \in Records BY <1>1 DEF Hands
<1> QED BY <1>2, RecordId

LEMMA TypeInit == Init => TypeOK
<1>1. <<>> \in Seq(Records) BY EmptySeq
<1> QED BY <1>1, BoundsAssumption
       DEF Init, Queue!Init, TypeOK, MainLabels, WorkerLabels

\* An end of the process leaves well-typed state, whatever it does to redis.
LEMMA TypeDie ==
  ASSUME TypeOK, Die, redis' \in Seq(Records), rows' \in Seq(Records),
         link' \in {"up", "dropped", "reset"}, drops' \in 0..MaxDrops
  PROVE  TypeOK'
<1>1. <<>> \in Seq(Records) BY EmptySeq
<1> QED BY <1>1 DEF TypeOK, Die, MainLabels, WorkerLabels

\* The row the process may still have written when it ends in an insert.
LEMMA LastRow ==
  ASSUME TypeOK, Hands, NEW stored \in BOOLEAN, InsertDies(stored)
  PROVE  /\ Pushing /\ command \in Records /\ rows' \in Seq(Records)
         /\ rows' = rows \/ rows' = Append(rows, command)
<1>1. Pushing /\ command \in Records BY DEF InsertDies, Hands, Pushing
<1>2. rows' = rows \/ rows' = Append(rows, command) BY DEF InsertDies
<1>3. rows \in Seq(Records) BY DEF TypeOK
<1>4. rows' \in Seq(Records) BY <1>1, <1>2, <1>3, OrderAppend
<1> QED BY <1>1, <1>2, <1>4

LEMMA TypeStep == IInv /\ Next => TypeOK'
<1> SUFFICES ASSUME IInv, Next PROVE TypeOK' OBVIOUS
<1>0. TypeOK /\ Hands BY DEF IInv
<1>1. ASSUME NEW k \in Kinds, Rpush(k) PROVE TypeOK'
  <2>1. [id |-> arrived + 1, kind |-> k] \in Records
    BY <1>0, <1>1, BoundsAssumption DEF TypeOK, Rpush, Records
  <2>2. redis' \in Seq(Records) /\ arrived' \in 0..MaxRecords
    BY <1>0, <1>1, <2>1, OrderAppend, BoundsAssumption DEF TypeOK, Rpush
  <2> QED BY <1>0, <1>1, <2>2
         DEF TypeOK, Rpush, workerVars, queueVars, resultVars
<1>2. CASE OtherPop
  BY <1>0, <1>2, OrderTail
  DEF TypeOK, OtherPop, workerVars, queueVars, resultVars
<1>3. CASE DropLink
  <2>1. drops' \in 0..MaxDrops
    BY <1>0, <1>3, BoundsAssumption DEF TypeOK, DropLink
  <2> QED BY <1>0, <1>3, <2>1
         DEF TypeOK, DropLink, workerVars, queueVars, resultVars
<1>4. CASE Restart
  <2>1. restarts' \in 0..MaxRestarts
    BY <1>0, <1>4, BoundsAssumption DEF TypeOK, Restart
  <2> QED BY <1>0, <1>4, <2>1
         DEF TypeOK, Restart, MainGoes, MainLabels, workerVars, queueVars,
             resultVars
<1>5. CASE Connect \/ StartWorker \/ Exists \/ ExistsFails \/ WakeUp
           \/ DecodeRejects
  BY <1>0, <1>5
  DEF TypeOK, Connect, StartWorker, Exists, ExistsFails, WakeUp,
      DecodeRejects, MainGoes, MainLabels, WorkerLabels, environmentVars,
      workerVars, queueVars, resultVars
<1>6. CASE Lpop
  <2>1. /\ redis' \in Seq(Records)
        /\ ltemp' \in Records \cup {NoData, [id |-> 0, kind |-> MissingValue]}
    BY <1>0, <1>6, OrderTail DEF TypeOK, Lpop
  <2> QED BY <1>0, <1>6, <2>1
         DEF TypeOK, Lpop, MainGoes, MainLabels, workerVars, queueVars,
             resultVars
<1>7. CASE DecodeStores
  BY <1>0, <1>7, StoredIsRecord
  DEF TypeOK, DecodeStores, Queue!Offer, MainGoes, MainLabels,
      environmentVars, workerVars, resultVars
<1>8. CASE StoreDone
  <2>1. offer["main"] \in Records
    BY <1>0, <1>8 DEF TypeOK, StoreDone, Queue!Put
  <2>2. queue' \in Seq(Records)
    BY <1>0, <1>8, <2>1, OrderAppend DEF TypeOK, StoreDone, Queue!Put
  <2> QED BY <1>0, <1>8, <2>2
         DEF TypeOK, StoreDone, Queue!Put, MainGoes, MainLabels,
             environmentVars, workerVars, resultVars
<1>9. CASE ExistsKilled \/ LpopFails \/ DecodeThrows \/ DecodeOverruns
           \/ LogsCollide
  BY <1>0, <1>9, TypeDie
  DEF TypeOK, ExistsKilled, LpopFails, DecodeThrows, DecodeOverruns, LogsCollide
<1>10. CASE LpopReplyLost
  <2>1. redis' \in Seq(Records)
    BY <1>0, <1>10, OrderTail DEF TypeOK, LpopReplyLost
  <2>2. drops' \in 0..MaxDrops /\ link' \in {"up", "dropped", "reset"}
    BY <1>0, <1>10, BoundsAssumption DEF TypeOK, LpopReplyLost
  <2> QED BY <1>0, <1>10, <2>1, <2>2, TypeDie DEF TypeOK, LpopReplyLost
<1>11. CASE WorkerBegins \/ GetCall \/ NoCurl
  BY <1>0, <1>11
  DEF TypeOK, WorkerBegins, GetCall, NoCurl, Queue!Ask, WorkerGoes,
      WorkerLabels, environmentVars, queueVars, resultVars
<1>12. CASE GetReturns
  <2>1. queue' \in Seq(Records)
    BY <1>0, <1>12, OrderTail DEF TypeOK, GetReturns, Queue!Take
  <2>2. Head(queue) \in Records
    BY <1>0, <1>12, OrderTail DEF TypeOK, GetReturns, Queue!Take
  <2>3. fetched' \in [{"worker"} -> Records \cup {NoData}]
    BY <1>0, <1>12, <2>2 DEF TypeOK, GetReturns, Queue!Take
  <2> QED BY <1>0, <1>12, <2>1, <2>3
         DEF TypeOK, GetReturns, Queue!Take, WorkerGoes, WorkerLabels,
             environmentVars, resultVars
<1>13. ASSUME NEW ok \in BOOLEAN, NEW reached \in BOOLEAN, Perform(ok, reached)
       PROVE  TypeOK'
  <2>1. command \in Records
    BY <1>0, <1>13 DEF Hands, Pushing, Perform, WorkerGoes
  <2>2. delivered' \in Seq(Records)
    BY <1>0, <1>13, <2>1, OrderAppend DEF TypeOK, Perform
  <2> QED BY <1>0, <1>13, <2>2
         DEF TypeOK, Perform, WorkerGoes, WorkerLabels, environmentVars,
             queueVars
<1>14. ASSUME NEW stored \in BOOLEAN, Insert(stored) PROVE TypeOK'
  <2>1. command \in Records
    BY <1>0, <1>14 DEF Hands, Pushing, Insert, WorkerGoes
  <2>2. rows' \in Seq(Records)
    BY <1>0, <1>14, <2>1, OrderAppend DEF TypeOK, Insert
  <2> QED BY <1>0, <1>14, <2>2
         DEF TypeOK, Insert, WorkerGoes, WorkerLabels, environmentVars,
             queueVars
<1>15. ASSUME NEW stored \in BOOLEAN, InsertDies(stored) PROVE TypeOK'
  BY <1>0, <1>15, LastRow, TypeDie DEF TypeOK, InsertDies
<1> QED BY <1>1, <1>2, <1>3, <1>4, <1>5, <1>6, <1>7, <1>8, <1>9, <1>10,
           <1>11, <1>12, <1>13, <1>14, <1>15
       DEF Next, Environment, MainStep, MainTrouble, WorkerStep, WorkerTrouble

-----------------------------------------------------------------------------
(* The order of the records                                                *)

Order == Stations /\ Table /\ Requests

LEMMA OrderInit == Init => Hands /\ Order /\ Causes
<1> SUFFICES ASSUME Init PROVE Hands /\ Order /\ Causes OBVIOUS
<1>1. /\ redis = <<>> /\ queue = <<>> /\ delivered = <<>> /\ rows = <<>>
      /\ ~Holding /\ ~Pushing /\ tries = 0 /\ main = "connect" /\ link = "up"
      /\ Len(<<>>) = 0 /\ worker = "absent"
  BY EmptySeq DEF Init, Queue!Init, Holding, Pushing
<1>2. Hands
  BY <1>1, BoundsAssumption DEF Hands
<1>3. Stations /\ Table
  BY <1>1, OrderEmpty DEF Stations, Table, Past
<1>4. DeliveriesInOrder /\ tries <= fail_try + 1
  BY <1>1 DEF DeliveriesInOrder, fail_try
<1>5. Past(delivered)
  BY <1>1, OrderEmpty DEF Past
<1>6. Requests
  BY <1>1, <1>4, <1>5 DEF Requests
<1>7. Causes
  BY <1>1 DEF Causes, EndHasCause
<1> QED BY <1>2, <1>3, <1>6, <1>7 DEF Order

\* A step that moves no record from one station to another.
LEMMA OrderQuiet ==
  ASSUME Order, redis' = redis, queue' = queue, arrived' = arrived,
         rows' = rows, delivered' = delivered, tries' = tries,
         fetched' = fetched, Pushing' = Pushing,
         worker' = "push" => worker = "push",
         Holding' => Holding /\ ltemp' = ltemp
  PROVE  Order'
<1>1. command' = command BY DEF command
<1>2. Stations' BY <1>1 DEF Order, Stations, Sorted, Before, After, Below
<1>3. Table' BY <1>1 DEF Order, Table, Past, Sorted, Before, Below
<1>4. Past(delivered)' BY DEF Order, Requests, Past, Before, Below
<1>5. DeliveriesInOrder' BY DEF Order, Requests, DeliveriesInOrder
<1>6. Requests' BY <1>1, <1>4, <1>5 DEF Order, Requests
<1> QED BY <1>2, <1>3, <1>6 DEF Order

\* The head of the redis list leaves it, to main, to somebody, or to nowhere.
LEMMA OrderPop ==
  ASSUME TypeOK, Order, redis # <<>>, redis' = Tail(redis), queue' = queue,
         arrived' = arrived, rows' = rows, delivered' = delivered,
         tries' = tries, fetched' = fetched, worker' = worker,
         \/ Holding' => Holding /\ ltemp' = ltemp
         \/ ~Holding /\ ltemp' = Head(redis)
  PROVE  Order'
<1>1. /\ command' = command /\ Pushing' = Pushing
      /\ redis \in Seq(Records)
  BY DEF command, Pushing, TypeOK
<1>2. /\ Sorted(redis')
      /\ After(redis', Head(redis).id)
      /\ Before(redis', arrived + 1) /\ Head(redis).id < arrived + 1
      /\ Below(queue, redis') /\ Before(queue, Head(redis).id)
      /\ Below(rows, redis') /\ Before(rows, Head(redis).id)
      /\ Below(delivered, redis') /\ Before(delivered, Head(redis).id)
      /\ Holding => After(redis', ltemp.id)
      /\ Pushing => After(redis', command.id) /\ command.id < Head(redis).id
  BY <1>1, OrderTail DEF Order, Stations, Table, Requests, Past
<1>3. Stations'
  BY <1>1, <1>2 DEF Order, Stations, Sorted, Before, After, Below
<1>4. Table'
  BY <1>1, <1>2 DEF Order, Table, Past, Sorted, Before, Below
<1>5. Past(delivered)'
  BY <1>1, <1>2 DEF Order, Requests, Past, Before, Below
<1>6. DeliveriesInOrder' BY DEF Order, Requests, DeliveriesInOrder
<1>7. Requests' BY <1>1, <1>5, <1>6 DEF Order, Requests
<1> QED BY <1>3, <1>4, <1>7 DEF Order

\* The end of the process, with redis as it was or without its head, and with
\* the row of the current record or without it.
LEMMA OrderDie ==
  ASSUME TypeOK, Order, Die,
         redis' = redis \/ (redis # <<>> /\ redis' = Tail(redis)),
         \/ rows' = rows
         \/ Pushing /\ command \in Records /\ rows' = Append(rows, command)
  PROVE  Hands' /\ Order'
<1>1. /\ queue' = <<>> /\ ~Holding' /\ ~Pushing' /\ tries' = 0
      /\ worker' = "absent" /\ main' = "dead" /\ Len(<<>>) = 0
      /\ delivered' = delivered /\ arrived' = arrived
  BY EmptySeq DEF Die, Holding, Pushing
<1>2. /\ Sorted(rows') /\ Below(rows', redis) /\ Before(rows', arrived + 1)
  <2>1. Sorted(rows) /\ Below(rows, redis) /\ Before(rows, arrived + 1)
    BY DEF Order, Table, Past
  <2>2. CASE Pushing /\ command \in Records /\ rows' = Append(rows, command)
    <3>1. /\ Before(rows, command.id) /\ After(redis, command.id)
          /\ command.id < arrived + 1 /\ rows \in Seq(Records)
      BY <2>2 DEF Order, Table, Stations, TypeOK
    <3> QED BY <2>1, <2>2, <3>1, OrderAppend
  <2> QED BY <2>1, <2>2
<1>9. /\ Sorted(redis') /\ Before(redis', arrived + 1)
      /\ Below(rows', redis') /\ Below(delivered, redis')
  <2>1. redis \in Seq(Records) BY DEF TypeOK
  <2>2. /\ Sorted(redis) /\ Before(redis, arrived + 1)
        /\ Below(rows', redis) /\ Below(delivered, redis)
    BY <1>2 DEF Order, Stations, Requests, Past
  <2>3. CASE redis # <<>> /\ redis' = Tail(redis)
    BY <2>1, <2>2, <2>3, OrderTail
  <2> QED BY <2>2, <2>3
<1>3. Hands' BY <1>1, BoundsAssumption DEF Hands
<1>4. Stations'
  <2>1. Sorted(queue') /\ Below(queue', redis') /\ Before(queue', arrived + 1)
    BY <1>1, OrderEmpty
  <2> QED BY <1>1, <1>9, <2>1 DEF Stations, Sorted, Before, Below
<1>5. Past(rows)' /\ Past(delivered)'
  <2>1. Below(rows', queue') /\ Below(delivered, queue')
    BY <1>1, OrderEmpty
  <2> QED BY <1>1, <1>2, <1>9, <2>1 DEF Order, Requests, Past, Before, Below
<1>6. Table' BY <1>1, <1>2, <1>5 DEF Table, Sorted
<1>7. DeliveriesInOrder' BY <1>1 DEF Order, Requests, DeliveriesInOrder
<1>8. Requests' BY <1>1, <1>5, <1>7 DEF Requests, fail_try
<1> QED BY <1>3, <1>4, <1>6, <1>8 DEF Order

LEMMA OrderRpush ==
  ASSUME IInv, NEW k \in Kinds, Rpush(k), TypeOK'
  PROVE  Hands' /\ Order'
<1> DEFINE r == [id |-> arrived + 1, kind |-> k]
<1>1. /\ r \in Records /\ r.id = arrived + 1 /\ redis \in Seq(Records)
      /\ redis' = Append(redis, r) /\ arrived' = arrived + 1
      /\ arrived \in Nat
      /\ queue' = queue /\ rows' = rows /\ delivered' = delivered
      /\ tries' = tries /\ worker' = worker /\ ltemp' = ltemp /\ main' = main
      /\ offer' = offer /\ fetched' = fetched
  BY BoundsAssumption
  DEF IInv, TypeOK, Rpush, Records, workerVars, queueVars, resultVars
<1>2. command' = command /\ Pushing' = Pushing /\ Holding' = Holding
  BY <1>1 DEF command, Pushing, Holding
<1>3. Hands' BY <1>1, <1>2 DEF IInv, Hands
<1> HIDE DEF r
<1>4. /\ Sorted(redis')
      /\ Below(queue, redis') /\ Below(rows, redis') /\ Below(delivered, redis')
      /\ Holding => After(redis', ltemp.id)
      /\ Pushing => After(redis', command.id)
  BY <1>1, OrderAppend DEF IInv, Stations, Table, Requests, Past
<1>5. /\ Before(redis', arrived + 2) /\ Before(queue, arrived + 2)
      /\ Before(rows, arrived + 2) /\ Before(delivered, arrived + 2)
      /\ Holding => ltemp.id < arrived + 2
      /\ Pushing => command.id < arrived + 2
  <2>1. \A s \in Seq(Records) : Before(s, arrived + 1) => Before(s, arrived + 2)
    <3> SUFFICES ASSUME NEW s \in Seq(Records), Before(s, arrived + 1),
                        NEW i \in 1..Len(s)
                 PROVE  s[i].id < arrived + 2
      BY DEF Before
    <3>1. s[i] \in Records BY ElementOfSeq
    <3> QED BY <3>1, <1>1, RecordId DEF Before
  <2>2. Before(redis', arrived + 2)
    BY <1>1, <2>1, OrderAppend DEF IInv, Stations
  <2>3. /\ Holding => ltemp \in Records
        /\ Pushing => command \in Records
    BY DEF IInv, Hands, Holding, Missing
  <2>4. /\ Holding => ltemp.id < arrived + 2
        /\ Pushing => command.id < arrived + 2
    BY <1>1, <2>3, RecordId DEF IInv, Stations
  <2> QED BY <2>1, <2>2, <2>4 DEF IInv, TypeOK, Stations, Table, Requests, Past
<1>6. arrived' + 1 = arrived + 2 BY <1>1
<1>7. Stations'
  BY <1>1, <1>2, <1>4, <1>5, <1>6
  DEF IInv, Stations, Sorted, Before, After, Below
<1>8. Table'
  BY <1>1, <1>2, <1>4, <1>5, <1>6 DEF IInv, Table, Past, Sorted, Before, Below
<1>9. Past(delivered)'
  BY <1>1, <1>2, <1>4, <1>5, <1>6 DEF IInv, Requests, Past, Before, Below
<1>10. DeliveriesInOrder' BY <1>1 DEF IInv, Requests, DeliveriesInOrder
<1>11. Requests' BY <1>1, <1>2, <1>9, <1>10 DEF IInv, Requests
<1> QED BY <1>3, <1>7, <1>8, <1>11 DEF Order

\* store_cmd_data appends what main holds; main then holds nothing.
LEMMA OrderStore ==
  ASSUME IInv, StoreDone, TypeOK'
  PROVE  Hands' /\ Order'
<1>1. /\ main = "store" /\ main' = "exists" /\ offer["main"] = ltemp
      /\ ltemp \in Records /\ queue \in Seq(Records)
      /\ Len(queue) < NUM_MAX /\ queue' = Append(queue, ltemp)
      /\ redis' = redis /\ arrived' = arrived /\ rows' = rows
      /\ delivered' = delivered /\ tries' = tries /\ worker' = worker
      /\ fetched' = fetched
  BY DEF IInv, TypeOK, Hands, StoreDone, MainGoes, Queue!Put,
         environmentVars, workerVars, resultVars
<1>2. Holding /\ ~Holding' /\ command' = command /\ Pushing' = Pushing
  BY <1>1 DEF Holding, command, Pushing
<1>3. Hands'
  <2>1. Len(queue') <= NUM_MAX BY <1>1, OrderAppend, BoundsAssumption
  <2> QED BY <1>1, <1>2, <2>1 DEF IInv, Hands
<1>4. /\ Sorted(queue') /\ Below(queue', redis) /\ Before(queue', arrived + 1)
      /\ Below(rows, queue') /\ Below(delivered, queue')
      /\ Pushing => After(queue', command.id)
  BY <1>1, <1>2, OrderAppend DEF IInv, Stations, Table, Requests, Past
<1>5. Stations'
  BY <1>1, <1>2, <1>4 DEF IInv, Stations, Sorted, Before, After, Below
<1>6. Table' BY <1>1, <1>2, <1>4 DEF IInv, Table, Past, Sorted, Before, Below
<1>7. Past(delivered)'
  BY <1>1, <1>2, <1>4 DEF IInv, Requests, Past, Before, Below
<1>8. DeliveriesInOrder' BY <1>1 DEF IInv, Requests, DeliveriesInOrder
<1>9. Requests' BY <1>1, <1>2, <1>7, <1>8 DEF IInv, Requests
<1> QED BY <1>3, <1>5, <1>6, <1>9 DEF Order

\* get_value takes the head of the queue; a command that is not complete is
\* dropped.
LEMMA OrderTake ==
  ASSUME IInv, GetReturns, TypeOK'
  PROVE  Hands' /\ Order'
<1>1. /\ queue \in Seq(Records) /\ queue # <<>> /\ queue' = Tail(queue)
      /\ fetched'["worker"] = Head(queue) /\ worker = "fetch"
      /\ worker' \in {"push", "get"}
      /\ redis' = redis /\ arrived' = arrived /\ rows' = rows
      /\ delivered' = delivered /\ tries' = tries /\ main' = main
      /\ ltemp' = ltemp /\ offer' = offer
  BY DEF IInv, TypeOK, GetReturns, WorkerGoes, Queue!Take,
         environmentVars, resultVars
<1>2. /\ ~Pushing /\ tries = 0 /\ Holding' = Holding
      /\ command' = Head(queue)
  BY <1>1 DEF IInv, Requests, Pushing, Holding, command
<1>3. /\ Head(queue) \in Records
      /\ Sorted(queue') /\ After(queue', Head(queue).id)
      /\ Below(queue', redis) /\ After(redis, Head(queue).id)
      /\ Before(queue', arrived + 1) /\ Head(queue).id < arrived + 1
      /\ Below(rows, queue') /\ Before(rows, Head(queue).id)
      /\ Below(delivered, queue') /\ Before(delivered, Head(queue).id)
      /\ Holding => Before(queue', ltemp.id) /\ Head(queue).id < ltemp.id
  BY <1>1, OrderTail DEF IInv, Stations, Table, Requests, Past
<1>4. Hands'
  <2>1. Len(queue') < Len(queue) /\ Len(queue') \in Nat /\ Len(queue) \in Nat
    BY <1>1, OrderTail, LenProperties
  <2>2. Len(queue) <= NUM_MAX BY DEF IInv, Hands
  <2>3. Len(queue') <= NUM_MAX BY <2>1, <2>2, BoundsAssumption
  <2> QED BY <1>1, <1>2, <1>3, <2>3 DEF IInv, Hands
<1>5. Stations'
  BY <1>1, <1>2, <1>3 DEF IInv, Stations, Sorted, Before, After, Below
<1>6. Table' BY <1>1, <1>2, <1>3 DEF IInv, Table, Past, Sorted, Before, Below
<1>7. Past(delivered)'
  BY <1>1, <1>2, <1>3 DEF IInv, Requests, Past, Before, Below
<1>8. DeliveriesInOrder' BY <1>1 DEF IInv, Requests, DeliveriesInOrder
<1>9. \A i \in 1..Len(delivered) : delivered[i].id < Head(queue).id
  BY <1>3 DEF Before
<1>10. \A i \in 1..Len(delivered) : delivered[i].id <= Head(queue).id
  <2> SUFFICES ASSUME NEW i \in 1..Len(delivered)
               PROVE  delivered[i].id <= Head(queue).id
    OBVIOUS
  <2>1. delivered \in Seq(Records) BY DEF IInv, TypeOK
  <2>2. delivered[i] \in Records BY <2>1, ElementOfSeq
  <2> QED BY <1>3, <1>9, <2>2, RecordId
<1>11. Requests'
  BY <1>1, <1>2, <1>7, <1>8, <1>9, <1>10 DEF IInv, Requests, fail_try
<1> QED BY <1>4, <1>5, <1>6, <1>11 DEF Order

\* A call of curl_easy_perform: the request may be one more of the current
\* record, and at most the fourth.
LEMMA OrderPerform ==
  ASSUME IInv, NEW ok \in BOOLEAN, NEW reached \in BOOLEAN,
         Perform(ok, reached), TypeOK'
  PROVE  Hands' /\ Order'
<1>1. /\ worker = "push" /\ worker' \in {"push", "insert"}
      /\ worker' = "push" => tries # fail_try
      /\ tries' = tries + 1 /\ tries \in Nat
      /\ delivered' = delivered \/ delivered' = Append(delivered, command)
      /\ delivered \in Seq(Records)
      /\ redis' = redis /\ arrived' = arrived /\ rows' = rows
      /\ queue' = queue /\ main' = main /\ ltemp' = ltemp /\ offer' = offer
      /\ fetched' = fetched
  BY DEF IInv, TypeOK, Perform, WorkerGoes, environmentVars, queueVars
<1>2. /\ Pushing /\ Pushing' /\ Holding' = Holding /\ command' = command
      /\ command \in Records
  BY <1>1 DEF IInv, Hands, Pushing, Holding, command
<1>3. /\ tries <= fail_try
      /\ \A i \in 1..Len(delivered) : delivered[i].id <= command.id
      /\ \A i \in 1..Len(delivered) :
           i + tries <= Len(delivered) => delivered[i].id < command.id
      /\ DeliveriesInOrder
  BY <1>1, <1>2 DEF IInv, Requests
<1>4. Hands' BY <1>1, <1>2 DEF IInv, Hands
<1>5. Stations'
  BY <1>1, <1>2 DEF IInv, Stations, Sorted, Before, After, Below
<1>6. Table' BY <1>1, <1>2 DEF IInv, Table, Past, Sorted, Before, Below
<1>7. tries' <= fail_try + 1 /\ (worker' = "push" => tries' <= fail_try)
  BY <1>1, <1>3 DEF fail_try
<1>8. Past(delivered')
  <2>1. Past(delivered) BY DEF IInv, Requests
  <2>2. CASE delivered' = Append(delivered, command)
    BY <1>1, <1>2, <2>1, <2>2, OrderAppend DEF Past, IInv, Stations
  <2> QED BY <1>1, <2>1, <2>2
<1>9. Past(delivered)' BY <1>1, <1>2, <1>8 DEF Past, Before, Below
<1>10. /\ \A i \in 1..Len(delivered') : delivered'[i].id <= command.id
       /\ \A i \in 1..Len(delivered') :
            i + tries' <= Len(delivered') => delivered'[i].id < command.id
       /\ DeliveriesInOrder'
  <2>1. Len(delivered) \in Nat BY <1>1, LenProperties
  <2>2. CASE delivered' = delivered
    <3>1. DeliveriesInOrder' BY <1>3, <2>2 DEF DeliveriesInOrder
    <3>2. \A i \in 1..Len(delivered) :
            i + tries' <= Len(delivered) => i + tries <= Len(delivered)
      BY <1>1, <2>1
    <3> QED BY <1>3, <2>2, <3>1, <3>2
  <2>3. CASE delivered' = Append(delivered, command)
    <3>1. /\ Len(delivered') = Len(delivered) + 1
          /\ \A i \in 1..Len(delivered) : delivered'[i] = delivered[i]
          /\ delivered'[Len(delivered) + 1] = command
      BY <1>1, <1>2, <2>3, OrderAppend
    <3>2. \A i \in 1..Len(delivered') :
            i \in 1..Len(delivered) \/ i = Len(delivered) + 1
      BY <2>1, <3>1
    <3>3. command.id \in Nat BY <1>2, RecordId
    <3>4. \A i \in 1..Len(delivered') : delivered'[i].id <= command.id
      BY <1>3, <3>1, <3>2, <3>3
    <3>5. \A i \in 1..Len(delivered') :
            i + tries' <= Len(delivered') => delivered'[i].id < command.id
      BY <1>1, <1>3, <2>1, <3>1, <3>2
    <3>6. ASSUME NEW i \in 1..Len(delivered'), NEW j \in 1..Len(delivered'),
                 i < j
          PROVE  delivered'[i].id <= delivered'[j].id
      <4>1. i \in 1..Len(delivered) BY <2>1, <3>1, <3>2, <3>6
      <4>2. CASE j \in 1..Len(delivered)
        BY <1>3, <3>1, <3>6, <4>1, <4>2 DEF DeliveriesInOrder
      <4>3. CASE j = Len(delivered) + 1 BY <1>3, <3>1, <4>1, <4>3
      <4> QED BY <3>2, <4>2, <4>3
    <3>7. ASSUME NEW i \in 1..Len(delivered'),
                 i + fail_try + 1 <= Len(delivered')
          PROVE  delivered'[i].id # delivered'[i + fail_try + 1].id
      <4>1. i \in 1..Len(delivered) BY <2>1, <3>1, <3>7 DEF fail_try
      <4>2. CASE i + fail_try + 1 <= Len(delivered)
        <5>1. i + fail_try + 1 \in 1..Len(delivered)
          BY <2>1, <4>2 DEF fail_try
        <5> QED BY <1>3, <3>1, <4>1, <4>2, <5>1 DEF DeliveriesInOrder
      <4>3. CASE i + fail_try + 1 = Len(delivered) + 1
        <5>1. i + tries <= Len(delivered)
          BY <1>1, <1>3, <2>1, <4>3 DEF fail_try
        <5>2. delivered[i].id < command.id BY <1>3, <4>1, <5>1
        <5>3. delivered[i].id \in Nat
          BY <1>1, <4>1, ElementOfSeq, RecordId
        <5>4. delivered[i].id # command.id BY <3>3, <5>2, <5>3
        <5> QED BY <3>1, <4>1, <4>3, <5>4
      <4> QED BY <2>1, <3>1, <3>7, <4>2, <4>3 DEF fail_try
    <3> QED BY <3>4, <3>5, <3>6, <3>7 DEF DeliveriesInOrder
  <2> QED BY <1>1, <2>2, <2>3
<1>11. Requests' BY <1>1, <1>2, <1>7, <1>9, <1>10 DEF Requests
<1> QED BY <1>4, <1>5, <1>6, <1>11 DEF Order

\* store_data_msql: the row, if there is one, is after all other rows.
LEMMA OrderInsert ==
  ASSUME IInv, NEW stored \in BOOLEAN, Insert(stored), TypeOK'
  PROVE  Hands' /\ Order'
<1>1. /\ worker = "insert" /\ worker' = "get" /\ tries' = 0
      /\ rows' = rows \/ rows' = Append(rows, command)
      /\ rows \in Seq(Records)
      /\ redis' = redis /\ arrived' = arrived /\ delivered' = delivered
      /\ queue' = queue /\ main' = main /\ ltemp' = ltemp /\ offer' = offer
  BY DEF IInv, TypeOK, Insert, WorkerGoes, environmentVars, queueVars
<1>2. Pushing /\ ~Pushing' /\ Holding' = Holding /\ command \in Records
  BY <1>1 DEF IInv, Hands, Pushing, Holding
<1>3. Hands' BY <1>1, <1>2 DEF IInv, Hands
<1>4. Stations'
  BY <1>1, <1>2 DEF IInv, Stations, Sorted, Before, After, Below
<1>5. Sorted(rows') /\ Past(rows')
  <2>1. Sorted(rows) /\ Past(rows) /\ Before(rows, command.id)
    BY <1>2 DEF IInv, Table
  <2>2. CASE rows' = Append(rows, command)
    BY <1>1, <1>2, <2>1, <2>2, OrderAppend DEF Past, IInv, Stations
  <2> QED BY <1>1, <2>1, <2>2
<1>6. Table' BY <1>1, <1>2, <1>5 DEF Table, Past, Sorted, Before, Below
<1>7. Past(delivered)' BY <1>1, <1>2 DEF IInv, Requests, Past, Before, Below
<1>8. DeliveriesInOrder' BY <1>1 DEF IInv, Requests, DeliveriesInOrder
<1>9. Requests' BY <1>1, <1>2, <1>7, <1>8 DEF Requests, fail_try
<1> QED BY <1>3, <1>4, <1>6, <1>9 DEF Order

-----------------------------------------------------------------------------
(* Every step                                                              *)

LEMMA OrderStep == IInv /\ Next => Hands' /\ Order'
<1> SUFFICES ASSUME IInv, Next PROVE Hands' /\ Order' OBVIOUS
<1>0. TypeOK /\ TypeOK' /\ Hands /\ Order BY TypeStep DEF IInv, Order
<1>1. ASSUME NEW k \in Kinds, Rpush(k) PROVE Hands' /\ Order'
  BY <1>0, <1>1, OrderRpush
<1>2. CASE OtherPop
  <2>1. /\ redis # <<>> /\ redis' = Tail(redis) /\ arrived' = arrived
        /\ main' = main /\ ltemp' = ltemp /\ worker' = worker /\ tries' = tries
        /\ queue' = queue /\ offer' = offer /\ fetched' = fetched
        /\ delivered' = delivered /\ rows' = rows
    BY <1>2 DEF OtherPop, workerVars, queueVars, resultVars
  <2>2. Order' BY <1>0, <2>1, OrderPop DEF Holding
  <2> QED BY <1>0, <2>1, <2>2 DEF Hands, Pushing, command
<1>3. CASE DropLink \/ Restart \/ Connect \/ StartWorker \/ Exists
           \/ ExistsFails \/ WakeUp \/ DecodeRejects
  <2>1. /\ queue' = queue /\ redis' = redis /\ arrived' = arrived
        /\ rows' = rows /\ delivered' = delivered /\ tries' = tries
        /\ fetched' = fetched /\ ltemp' = ltemp /\ offer' = offer
    BY <1>3
    DEF DropLink, Restart, Connect, StartWorker, Exists, ExistsFails, WakeUp,
        DecodeRejects, environmentVars, workerVars, queueVars, resultVars
  <2>2. /\ \/ main' = main
           \/ main' \notin {"connect", "start", "decode", "store", "dead"}
           \/ main \in {"connect", "dead"} /\ main' \in {"connect", "start"}
        /\ \/ worker' = worker
           \/ main = "start" /\ main' = "exists" /\ worker' = "added"
    BY <1>3
    DEF DropLink, Restart, Connect, StartWorker, Exists, ExistsFails, WakeUp,
        DecodeRejects, MainGoes, workerVars
  <2>3. /\ Pushing' = Pushing
        /\ worker' = "push" => worker = "push"
        /\ Holding' => Holding
    BY <1>0, <2>1, <2>2 DEF Hands, Pushing, Holding
  <2>4. Order' BY <1>0, <2>1, <2>3, OrderQuiet
  <2> QED BY <1>0, <2>1, <2>2, <2>3, <2>4 DEF Hands, command
<1>4. CASE Lpop
  <2>1. /\ main = "lpop" /\ main' = "decode" /\ arrived' = arrived
        /\ worker' = worker /\ tries' = tries
        /\ queue' = queue /\ offer' = offer /\ fetched' = fetched
        /\ delivered' = delivered /\ rows' = rows
        /\ \/ redis = <<>> /\ ltemp' = Missing /\ redis' = redis
           \/ redis # <<>> /\ ltemp' = Head(redis) /\ redis' = Tail(redis)
    BY <1>4 DEF Lpop, MainGoes, Missing, workerVars, queueVars, resultVars
  <2>2. Pushing' = Pushing /\ command' = command /\ ~Holding
    BY <2>1 DEF Pushing, command, Holding
  <2>3. ltemp' \in Records \cup {Missing}
    BY <1>0, <2>1, OrderTail DEF TypeOK
  <2>4. Hands' BY <1>0, <2>1, <2>2, <2>3 DEF Hands
  <2>5. CASE redis = <<>>
    <3>1. ~Holding' BY <2>1, <2>5 DEF Holding, Missing
    <3> QED BY <1>0, <2>1, <2>2, <2>4, <2>5, <3>1, OrderQuiet
  <2>6. CASE redis # <<>>
    BY <1>0, <2>1, <2>2, <2>4, <2>6, OrderPop
  <2> QED BY <2>5, <2>6
<1>5. CASE DecodeStores
  <2>1. /\ main = "decode" /\ main' = "store" /\ ltemp' = ltemp
        /\ Outcome(ltemp.kind) = "stored"
        /\ offer' = [offer EXCEPT !["main"] = ltemp]
        /\ redis' = redis /\ arrived' = arrived
        /\ worker' = worker /\ tries' = tries
        /\ queue' = queue /\ fetched' = fetched
        /\ delivered' = delivered /\ rows' = rows
    BY <1>5 DEF DecodeStores, MainGoes, Queue!Offer, environmentVars,
                workerVars, resultVars
  <2>2. ltemp \in Records /\ ltemp.id # 0 BY <1>0, <2>1, StoredIsRecord
  <2>3. offer'["main"] = ltemp BY <1>0, <2>1 DEF TypeOK
  <2>4. Holding /\ Pushing' = Pushing /\ command' = command
    BY <2>1, <2>2 DEF Holding, Pushing, command
  <2>5. Order' BY <1>0, <2>1, <2>4, OrderQuiet
  <2> QED BY <1>0, <2>1, <2>2, <2>3, <2>4, <2>5 DEF Hands
<1>6. CASE StoreDone
  BY <1>0, <1>6, OrderStore
<1>7. CASE ExistsKilled \/ LpopFails \/ DecodeThrows \/ LpopReplyLost
           \/ DecodeOverruns \/ LogsCollide
  BY <1>0, <1>7, OrderDie
  DEF ExistsKilled, LpopFails, DecodeThrows, LpopReplyLost, DecodeOverruns,
      LogsCollide
<1>8. CASE WorkerBegins \/ GetCall \/ NoCurl
  <2>1. /\ queue' = queue /\ redis' = redis /\ arrived' = arrived
        /\ rows' = rows /\ delivered' = delivered /\ tries' = tries
        /\ fetched' = fetched /\ ltemp' = ltemp /\ offer' = offer
        /\ main' = main
    BY <1>8 DEF WorkerBegins, GetCall, NoCurl, Queue!Ask, environmentVars,
                queueVars, resultVars
  <2>2. \/ worker = "added" /\ worker' = "get"
        \/ worker = "get" /\ worker' = "fetch"
        \/ worker = "push" /\ worker' = "insert"
    BY <1>8 DEF WorkerBegins, GetCall, NoCurl, WorkerGoes
  <2>3. Pushing' = Pushing /\ Holding' = Holding /\ worker' # "push"
    BY <2>1, <2>2 DEF Pushing, Holding
  <2>4. Order' BY <1>0, <2>1, <2>3, OrderQuiet
  <2> QED BY <1>0, <2>1, <2>2, <2>3, <2>4 DEF Hands, command
<1>9. CASE GetReturns
  BY <1>0, <1>9, OrderTake
<1>10. ASSUME NEW ok \in BOOLEAN, NEW reached \in BOOLEAN, Perform(ok, reached)
       PROVE  Hands' /\ Order'
  BY <1>0, <1>10, OrderPerform
<1>11. ASSUME NEW stored \in BOOLEAN, Insert(stored) PROVE Hands' /\ Order'
  BY <1>0, <1>11, OrderInsert
<1>12. ASSUME NEW stored \in BOOLEAN, InsertDies(stored)
       PROVE  Hands' /\ Order'
  BY <1>0, <1>12, LastRow, OrderDie DEF InsertDies
<1> QED BY <1>1, <1>2, <1>3, <1>4, <1>5, <1>6, <1>7, <1>8, <1>9, <1>10, <1>11,
           <1>12
       DEF Next, Environment, MainStep, MainTrouble, WorkerStep, WorkerTrouble

LEMMA CausesStep == IInv /\ Next => Causes'
<1> SUFFICES ASSUME IInv, Next PROVE Causes' OBVIOUS
<1>0. TypeOK /\ TypeOK' /\ Hands /\ Causes BY TypeStep DEF IInv
<1>1. ASSUME NEW k \in Kinds, Rpush(k) PROVE Causes'
  <2>1. redis' # <<>>
    <3> DEFINE r == [id |-> arrived + 1, kind |-> k]
    <3>1. redis \in Seq(Records) /\ redis' = Append(redis, r)
      BY <1>0, <1>1 DEF TypeOK, Rpush
    <3> QED BY <3>1, EmptySeq, AppendProperties
  <2> QED BY <1>0, <1>1, <2>1 DEF Causes, EndHasCause, Rpush
<1>2. CASE OtherPop \/ Restart \/ Connect \/ StartWorker \/ WakeUp
           \/ Exists \/ ExistsFails \/ DecodeRejects
  BY <1>0, <1>2
  DEF Causes, EndHasCause, OtherPop, Restart, Connect, StartWorker, WakeUp,
      Exists, ExistsFails, DecodeRejects, MainGoes, environmentVars
<1>3. CASE DropLink
  BY <1>0, <1>3 DEF TypeOK, Causes, EndHasCause, DropLink
<1>4. CASE Lpop
  <2>1. redis # <<>> => ltemp'.id # 0
    <3> SUFFICES ASSUME redis # <<>> PROVE ltemp'.id # 0 OBVIOUS
    <3>1. redis \in Seq(Records) BY <1>0 DEF TypeOK
    <3>2. ltemp' \in Records BY <1>4, <3>1, OrderTail DEF Lpop
    <3> QED BY <3>2, RecordId
  <2> QED BY <1>0, <1>4, <2>1 DEF Causes, EndHasCause, Lpop, MainGoes
<1>5. CASE DecodeStores \/ StoreDone
  BY <1>0, <1>5
  DEF Causes, EndHasCause, DecodeStores, StoreDone, MainGoes, environmentVars
<1>6. CASE ExistsKilled \/ LpopFails
  BY <1>0, <1>6 DEF Causes, EndHasCause, ExistsKilled, LpopFails, Die
<1>7. CASE DecodeThrows
  <2>1. Throws(ltemp.kind) BY <1>7 DEF DecodeThrows, Outcome
  <2>2. CASE ltemp \in Records
    BY <1>0, <1>7, <2>1, <2>2
    DEF Causes, EndHasCause, DecodeThrows, Die, Records
  <2>3. CASE ltemp = Missing
    BY <1>0, <1>7, <2>3
    DEF Causes, EndHasCause, DecodeThrows, Die, Missing
  <2> QED BY <1>0, <1>7, <2>2, <2>3 DEF Hands, DecodeThrows
<1>8. CASE LpopReplyLost
  <2>1. drops' > 0 BY <1>0, <1>8 DEF TypeOK, LpopReplyLost
  <2>2. main' = "dead" BY <1>8 DEF LpopReplyLost, Die
  <2> QED BY <2>1, <2>2 DEF Causes, EndHasCause
<1>9. CASE WorkerStep
  <2>1. link' = link /\ drops' = drops /\ redis' = redis /\ main' = main
        /\ ltemp' = ltemp
    BY <1>9
    DEF WorkerStep, WorkerBegins, GetCall, GetReturns, NoCurl, Perform,
        Insert, environmentVars
  <2> QED BY <1>0, <2>1 DEF Causes, EndHasCause
<1>10. CASE DecodeOverruns \/ LogsCollide
  BY <1>0, <1>10 DEF Causes, EndHasCause, DecodeOverruns, LogsCollide, Die
<1>11. ASSUME NEW stored \in BOOLEAN, InsertDies(stored) PROVE Causes'
  BY <1>0, <1>11 DEF Causes, EndHasCause, InsertDies, Die
<1> QED BY <1>1, <1>2, <1>3, <1>4, <1>5, <1>6, <1>7, <1>8, <1>9, <1>10, <1>11
       DEF Next, Environment, MainStep, MainTrouble, WorkerTrouble

LEMMA Unchanged == IInv /\ UNCHANGED vars => IInv'
<1> SUFFICES ASSUME IInv, UNCHANGED vars PROVE IInv' OBVIOUS
<1> USE DEF vars, environmentVars, workerVars, queueVars, resultVars
<1>1. command' = command /\ Pushing' = Pushing /\ Holding' = Holding
  BY DEF command, Pushing, Holding
<1>2. TypeOK' BY DEF IInv, TypeOK
<1>3. Hands' BY <1>1 DEF IInv, Hands
<1>4. Order' BY <1>1, OrderQuiet DEF IInv, Order
<1>5. Causes' BY DEF IInv, Causes, EndHasCause
<1> QED BY <1>2, <1>3, <1>4, <1>5 DEF IInv, Order

\* The invariant is inductive.
THEOREM Inductive == Spec => []IInv
<1>1. Init => IInv BY TypeInit, OrderInit DEF IInv, Order
<1>2. IInv /\ [Next]_vars => IInv'
  BY TypeStep, OrderStep, CausesStep, Unchanged DEF IInv, Order
<1> QED BY <1>1, <1>2, PTL DEF Spec

-----------------------------------------------------------------------------
(* What follows                                                            *)

\* Every variable has its type.
THEOREM TypeCorrectness == Spec => []TypeOK
<1>1. IInv => TypeOK BY DEF IInv
<1> QED BY <1>1, Inductive, PTL

\* With a full queue the main thread waits: never more than NUM_MAX + 2
\* records are in the memory of the process (get_data_redis,
\* store_cmd_data).
THEOREM BoundedLoss == Spec => []BacklogBounded
<1>1. IInv => BacklogBounded
  <2> SUFFICES ASSUME IInv PROVE Len(Backlog) <= NUM_MAX + 2
    BY DEF BacklogBounded
  <2> DEFINE a == IF Pushing THEN <<command>> ELSE <<>>
             b == IF main = "store" THEN <<ltemp>> ELSE <<>>
  <2>1. /\ a \in Seq(Records) /\ Len(a) <= 1 /\ Len(a) \in Nat
    <3>1. Pushing => command \in Records BY DEF IInv, Hands
    <3> QED BY <3>1, EmptySeq
  <2>2. /\ b \in Seq(Records) /\ Len(b) <= 1 /\ Len(b) \in Nat
    <3>1. main = "store" => ltemp \in Records BY DEF IInv, Hands
    <3> QED BY <3>1, EmptySeq
  <2>3. queue \in Seq(Records) /\ Len(queue) <= NUM_MAX /\ Len(queue) \in Nat
    BY LenProperties DEF IInv, TypeOK, Hands
  <2>4. Backlog = (a \o queue) \o b BY DEF Backlog
  <2> HIDE DEF a, b
  <2>5. /\ a \o queue \in Seq(Records)
        /\ Len(a \o queue) = Len(a) + Len(queue)
    BY <2>1, <2>3, ConcatProperties
  <2>6. Len(Backlog) = Len(a) + Len(queue) + Len(b)
    BY <2>2, <2>4, <2>5, ConcatProperties
  <2> QED BY <2>1, <2>2, <2>3, <2>6, BoundsAssumption
<1> QED BY <1>1, Inductive, PTL

\* The mysql table gets its rows in the order the records arrived in, and
\* none twice (store_data_msql), whatever fails or dies in between.
THEOREM TableInOrder == Spec => []RowsInOrder
<1>1. IInv => RowsInOrder BY DEF IInv, Table, Sorted, RowsInOrder
<1> QED BY <1>1, Inductive, PTL

\* Requests reach the push service in the order the records arrived in, one
\* record at most fail_try + 1 times (data_push).
THEOREM ServiceInOrder == Spec => []DeliveriesInOrder
<1>1. IInv => DeliveriesInOrder BY DEF IInv, Requests
<1> QED BY <1>1, Inductive, PTL

\* A row is written after the last attempt to push its record (func_routine).
THEOREM RowAfterPush == Spec => []RowEndsPushing
<1>1. IInv => RowEndsPushing
  BY DEF IInv, Table, Pushing, Before, RowEndsPushing
<1> QED BY <1>1, Inductive, PTL

\* The table never gets ahead of the pushes and never repeats them
\* (func_routine, data_push, store_data_msql).
THEOREM RowsMatchPushes == Spec => []RowsFollowPushes
<1>1. RowsInOrder /\ RowEndsPushing => RowsFollowPushes BY DEF RowsFollowPushes
<1> QED BY <1>1, TableInOrder, RowAfterPush, PTL

\* The process ends only for a cause that is on the list: a record with too
\* few fields, a second consumer, a lost connection, an error reply to lpop
\* (get_data_redis), a record too long for a buffer (string_filter,
\* store_data_msql), a "%" in a log line, the logger used by two threads
\* (event_logger).
THEOREM KnownEnds == Spec => []EndHasCause
<1>1. IInv => EndHasCause BY DEF IInv, Causes
<1> QED BY <1>1, Inductive, PTL

-----------------------------------------------------------------------------
(* The server implements PushService: each step of EventHandle is a step of *)
(* the service or changes nothing the service knows.  The two sequences of  *)
(* the service are concatenations of what the stations hold; the lemmas say *)
(* what the head and the tail of a concatenation are.                       *)

\* The parts of Inbox and of Backlog that are in the hands of a thread.
Reading == IF main = "decode" /\ ltemp.id # 0 THEN <<ltemp>> ELSE <<>>
Storing == IF main = "store" THEN <<ltemp>> ELSE <<>>
Working == IF Pushing THEN <<command>> ELSE <<>>

-----------------------------------------------------------------------------
(* Concatenations                                                          *)

LEMMA HeadTailConcat ==
  ASSUME NEW s \in Seq(Records), NEW t \in Seq(Records), s # <<>>
  PROVE  s \o t # <<>> /\ Head(s \o t) = Head(s) /\ Tail(s \o t) = Tail(s) \o t
<1> DEFINE c == s \o t
<1>1. /\ c \in Seq(Records) /\ Len(c) = Len(s) + Len(t)
      /\ \A i \in 1..Len(s) + Len(t) :
           c[i] = IF i <= Len(s) THEN s[i] ELSE t[i - Len(s)]
  BY ConcatProperties
<1>2. Len(s) \in Nat /\ Len(t) \in Nat /\ Len(s) > 0 BY LenProperties, EmptySeq
<1> HIDE DEF c
<1>3. c # <<>> BY <1>1, <1>2, EmptySeq
<1>4. Head(c) = Head(s) BY <1>1, <1>2, <1>3
<1>5. /\ Tail(c) \in Seq(Records) /\ Len(Tail(c)) = Len(c) - 1
      /\ \A i \in 1..Len(Tail(c)) : Tail(c)[i] = c[i + 1]
      /\ Tail(s) \in Seq(Records) /\ Len(Tail(s)) = Len(s) - 1
      /\ \A i \in 1..Len(Tail(s)) : Tail(s)[i] = s[i + 1]
  BY <1>1, <1>3, HeadTailProperties
<1> DEFINE d == Tail(s) \o t
<1>6. /\ d \in Seq(Records) /\ Len(d) = Len(Tail(s)) + Len(t)
      /\ \A i \in 1..Len(Tail(s)) + Len(t) :
           d[i] = IF i <= Len(Tail(s)) THEN Tail(s)[i] ELSE t[i - Len(Tail(s))]
  BY <1>5, ConcatProperties
<1> HIDE DEF d
<1>7. Len(Tail(c)) = Len(d) BY <1>1, <1>2, <1>5, <1>6
<1>8. ASSUME NEW i \in 1..Len(d) PROVE Tail(c)[i] = d[i]
  <2>1. Tail(c)[i] = c[i + 1] /\ i + 1 \in 1..Len(s) + Len(t)
    BY <1>1, <1>2, <1>5, <1>7
  <2>2. CASE i + 1 <= Len(s) BY <1>1, <1>2, <1>5, <1>6, <2>1, <2>2
  <2>3. CASE ~(i + 1 <= Len(s))
    <3>1. c[i + 1] = t[i + 1 - Len(s)] BY <1>1, <1>2, <2>1, <2>3
    <3>2. d[i] = t[i - (Len(s) - 1)] BY <1>2, <1>5, <1>6, <2>3
    <3>3. i + 1 - Len(s) = i - (Len(s) - 1) BY <1>2
    <3> QED BY <2>1, <3>1, <3>2, <3>3
  <2> QED BY <2>2, <2>3
<1>9. Tail(c) = d BY <1>5, <1>6, <1>7, <1>8, SeqEqual
<1> QED BY <1>3, <1>4, <1>9 DEF c, d

LEMMA First ==
  ASSUME NEW r \in Records, NEW s \in Seq(Records)
  PROVE  /\ <<r>> \o s \in Seq(Records) /\ <<r>> \o s # <<>>
         /\ Head(<<r>> \o s) = r /\ Tail(<<r>> \o s) = s
<1>1. /\ <<r>> \in Seq(Records) /\ <<r>> # <<>> /\ Head(<<r>>) = r
      /\ Tail(<<r>>) = <<>>
  OBVIOUS
<1> QED BY <1>1, HeadTailConcat, ConcatEmptySeq, ConcatProperties

LEMMA FirstRest ==
  ASSUME NEW s \in Seq(Records), s # <<>>
  PROVE  <<Head(s)>> \o Tail(s) = s
<1>1. Len(s) \in Nat /\ Len(s) > 0 BY LenProperties, EmptySeq
<1>2. SubSeq(s, 1, Len(s)) = <<s[1]>> \o SubSeq(s, 2, Len(s))
  BY <1>1, SubSeqRecursiveFirst
<1>3. SubSeq(s, 1, Len(s)) = s BY SubSeqFull
<1>4. SubSeq(s, 2, Len(s)) = Tail(s) BY TailIsSubSeq
<1> QED BY <1>2, <1>3, <1>4

LEMMA AppendConcat ==
  ASSUME NEW s \in Seq(Records), NEW t \in Seq(Records), NEW r \in Records
  PROVE  s \o Append(t, r) = Append(s \o t, r)
<1>1. Append(t, r) = t \o <<r>> BY AppendIsConcat
<1>2. s \o t \in Seq(Records) BY ConcatProperties
<1>3. Append(s \o t, r) = (s \o t) \o <<r>> BY <1>2, AppendIsConcat
<1>4. <<r>> \in Seq(Records) OBVIOUS
<1> QED BY <1>1, <1>3, <1>4, ConcatAssociative

\* What remains when the head of the second part is taken out.
LEMMA WithoutMiddle ==
  ASSUME NEW s \in Seq(Records), NEW t \in Seq(Records), t # <<>>
  PROVE  /\ Len(s) + 1 \in 1..Len(s \o t)
         /\ Service!Without(s \o t, Len(s) + 1) = s \o Tail(t)
<1> DEFINE c == s \o t
           n == Len(s)
<1>1. /\ c \in Seq(Records) /\ Len(c) = n + Len(t)
      /\ \A i \in 1..n + Len(t) : c[i] = IF i <= n THEN s[i] ELSE t[i - n]
  BY ConcatProperties
<1>2. n \in Nat /\ Len(t) \in Nat /\ Len(t) > 0 /\ Len(c) \in Nat
  BY <1>1, LenProperties, EmptySeq
<1> HIDE DEF c, n
<1>3. n + 1 \in 1..Len(c) BY <1>1, <1>2
<1>4. (n + 1) - 1 = n /\ (n + 1) + 1 = n + 2 BY <1>2
<1>5. \A i \in 1..Len(c) : c[i] \in Records BY <1>1, ElementOfSeq
<1>6. SubSeq(c, 1, n) = s
  <2> DEFINE u == SubSeq(c, 1, n)
  <2>1. /\ u \in Seq(Records) /\ Len(u) = n
        /\ \A i \in 1..n : u[i] = c[i]
    <3>1. \A i \in 1..n : c[i] \in Records BY <1>1, <1>2, <1>5
    <3>2. /\ u \in Seq(Records) /\ Len(u) = IF 1 <= n THEN n - 1 + 1 ELSE 0
          /\ \A i \in 1..n - 1 + 1 : u[i] = c[1 + i - 1]
      BY <3>1, <1>2, SubSeqProperties
    <3> QED BY <1>2, <3>2
  <2> HIDE DEF u
  <2>2. \A i \in 1..n : u[i] = s[i] BY <1>1, <1>2, <2>1
  <2>3. Len(u) = Len(s) BY <2>1 DEF n
  <2>4. u = s BY <2>1, <2>2, <2>3, SeqEqual DEF n
  <2> QED BY <2>4 DEF u
<1>7. SubSeq(c, n + 2, Len(c)) = Tail(t)
  <2> DEFINE u == SubSeq(c, n + 2, Len(c))
  <2>1. /\ u \in Seq(Records) /\ Len(u) = Len(t) - 1
        /\ \A i \in 1..Len(t) - 1 : u[i] = c[n + 1 + i]
    <3>1. \A i \in n + 2..Len(c) : c[i] \in Records BY <1>2, <1>5
    <3>2. /\ u \in Seq(Records)
          /\ Len(u) = IF n + 2 <= Len(c) THEN Len(c) - (n + 2) + 1 ELSE 0
          /\ \A i \in 1..Len(c) - (n + 2) + 1 : u[i] = c[n + 2 + i - 1]
      BY <3>1, <1>2, SubSeqProperties
    <3>3. Len(c) - (n + 2) + 1 = Len(t) - 1 BY <1>1, <1>2
    <3>4. \A i, j \in Nat : j > 0 /\ ~(i + 2 <= i + j) => j - 1 = 0
      OBVIOUS
    <3>5. ~(n + 2 <= Len(c)) => Len(t) - 1 = 0 BY <1>1, <1>2, <3>4
    <3>6. Len(u) = Len(t) - 1 BY <3>2, <3>3, <3>5
    <3>7. \A i \in 1..Len(t) - 1 : n + 2 + i - 1 = n + 1 + i BY <1>2
    <3> QED BY <3>2, <3>3, <3>6, <3>7
  <2> HIDE DEF u
  <2>2. /\ Tail(t) \in Seq(Records) /\ Len(Tail(t)) = Len(t) - 1
        /\ \A i \in 1..Len(t) - 1 : Tail(t)[i] = t[i + 1]
    BY HeadTailProperties
  <2>3. ASSUME NEW i \in 1..Len(t) - 1 PROVE u[i] = t[i + 1]
    <3>1. n + 1 + i \in 1..n + Len(t) /\ ~(n + 1 + i <= n) BY <1>2
    <3>2. c[n + 1 + i] = t[(n + 1 + i) - n] BY <1>1, <3>1
    <3>3. (n + 1 + i) - n = i + 1 BY <1>2
    <3> QED BY <2>1, <3>2, <3>3
  <2>4. u = Tail(t) BY <2>1, <2>2, <2>3, SeqEqual
  <2> QED BY <2>4 DEF u
<1>8. Service!Without(c, n + 1) =
        SubSeq(c, 1, (n + 1) - 1) \o SubSeq(c, (n + 1) + 1, Len(c))
  BY DEF Service!Without
<1>9. Service!Without(c, n + 1) = s \o Tail(t)
  BY <1>4, <1>6, <1>7, <1>8
<1> QED BY <1>3, <1>9 DEF c, n

-----------------------------------------------------------------------------
(* The state of the service                                                *)

LEMMA Parts ==
  ASSUME TypeOK, Hands
  PROVE  /\ Inbox = Reading \o redis /\ Backlog = (Working \o queue) \o Storing
         /\ Reading \in Seq(Records) /\ redis \in Seq(Records)
         /\ Working \in Seq(Records) /\ queue \in Seq(Records)
         /\ Storing \in Seq(Records)
         /\ Working \o queue \in Seq(Records)
<1>1. <<>> \in Seq(Records) BY EmptySeq
<1>2. Reading \in Seq(Records)
  BY <1>1 DEF Reading, Hands, Missing
<1>3. Working \in Seq(Records) /\ Storing \in Seq(Records)
  BY <1>1 DEF Working, Storing, Hands
<1>4. redis \in Seq(Records) /\ queue \in Seq(Records) BY DEF TypeOK
<1> QED BY <1>2, <1>3, <1>4, ConcatProperties
       DEF Inbox, Backlog, Reading, Storing, Working

\* What the primed parts are, when neither thread gets or loses anything.
LEMMA SameParts ==
  ASSUME main' = main, ltemp' = ltemp
  PROVE  Reading' = Reading /\ Storing' = Storing
<1> QED BY DEF Reading, Storing

LEMMA SameWork ==
  ASSUME Pushing' = Pushing, fetched' = fetched
  PROVE  Working' = Working
<1> QED BY DEF Working, command

LEMMA SimInit == Init => Service!Init
<1> SUFFICES ASSUME Init PROVE Service!Init OBVIOUS
<1>1. Inbox = <<>> \o <<>> /\ Backlog = (<<>> \o <<>>) \o <<>>
  BY DEF Init, Queue!Init, Inbox, Backlog, Pushing
<1>2. <<>> \o <<>> = <<>> OBVIOUS
<1> QED BY <1>1, <1>2 DEF Init, Service!Init

-----------------------------------------------------------------------------
(* One lemma per step that the service sees                                *)

LEMMA SimRpush ==
  ASSUME TypeOK, Hands, NEW k \in Kinds, Rpush(k)
  PROVE  \E r \in Records : Service!Arrive(r)
<1> DEFINE r == [id |-> arrived + 1, kind |-> k]
<1>1. /\ r \in Records /\ redis' = Append(redis, r) /\ main' = main
      /\ ltemp' = ltemp /\ worker' = worker /\ tries' = tries
      /\ queue' = queue /\ fetched' = fetched
      /\ delivered' = delivered /\ rows' = rows
  BY BoundsAssumption
  DEF TypeOK, Rpush, Records, workerVars, queueVars, resultVars
<1> HIDE DEF r
<1>2. /\ Reading' = Reading /\ Storing' = Storing /\ Working' = Working
  BY <1>1, SameParts, SameWork DEF Pushing
<1>3. Inbox' = Append(Inbox, r)
  <2>1. Inbox' = Reading \o Append(redis, r)
    BY <1>1, <1>2 DEF Inbox, Reading
  <2> QED BY SMTT(60), <1>1, <2>1, Parts, AppendConcat
<1>4. Backlog' = Backlog BY <1>1, <1>2 DEF Backlog, Working, Storing
<1>5. Service!Arrive(r) BY <1>1, <1>3, <1>4 DEF Service!Arrive
<1> QED BY <1>1, <1>5

LEMMA SimOtherPop ==
  ASSUME TypeOK, Hands, OtherPop
  PROVE  \E i \in 1..Len(Inbox) : Service!Vanish(i)
<1>1. /\ redis # <<>> /\ redis' = Tail(redis) /\ main' = main
      /\ ltemp' = ltemp /\ worker' = worker /\ tries' = tries
      /\ queue' = queue /\ fetched' = fetched
      /\ delivered' = delivered /\ rows' = rows
  BY DEF OtherPop, workerVars, queueVars, resultVars
<1>2. /\ Reading' = Reading /\ Storing' = Storing /\ Working' = Working
  BY <1>1, SameParts, SameWork DEF Pushing
<1>3. Inbox' = Reading \o Tail(redis) BY <1>1, <1>2 DEF Inbox, Reading
<1>4. Backlog' = Backlog BY <1>1, <1>2 DEF Backlog, Working, Storing
<1>5. /\ Len(Reading) + 1 \in 1..Len(Inbox)
      /\ Service!Without(Inbox, Len(Reading) + 1) = Inbox'
  BY <1>1, <1>3, Parts, WithoutMiddle
<1>6. Service!Vanish(Len(Reading) + 1)
  BY <1>1, <1>4, <1>5 DEF Service!Vanish
<1> QED BY <1>5, <1>6

LEMMA SimRejects ==
  ASSUME TypeOK, Hands, DecodeRejects
  PROVE  \E i \in 1..Len(Inbox) : Service!Vanish(i)
<1>1. /\ main = "decode" /\ main' = "sleep" /\ redis' = redis
      /\ ltemp' = ltemp /\ worker' = worker /\ tries' = tries
      /\ queue' = queue /\ fetched' = fetched
      /\ delivered' = delivered /\ rows' = rows
      /\ Outcome(ltemp.kind) = "rejected"
  BY DEF DecodeRejects, MainGoes, environmentVars, workerVars, queueVars,
         resultVars
<1>2. ltemp \in Records /\ ltemp.id # 0
  <2>1. ltemp # Missing BY <1>1, MissingThrows DEF Missing
  <2> QED BY <1>1, <2>1, RecordId DEF Hands
<1>3. Inbox = <<ltemp>> \o redis BY <1>1, <1>2 DEF Inbox
<1>4. Inbox' = redis
  <2>1. Inbox' = <<>> \o redis BY <1>1 DEF Inbox
  <2> QED BY <2>1, Parts, ConcatEmptySeq
<1>5. Backlog' = Backlog
  <2>1. Working' = Working BY <1>1, SameWork DEF Pushing
  <2> QED BY <1>1, <2>1 DEF Backlog, Working
<1>6. /\ Inbox \in Seq(Records) /\ Inbox # <<>> /\ Tail(Inbox) = Inbox'
  BY <1>2, <1>3, <1>4, Parts, First
<1>7. 1 \in 1..Len(Inbox) /\ Service!Without(Inbox, 1) = Inbox'
  <2>1. <<>> \o Inbox = Inbox /\ <<>> \o Tail(Inbox) = Tail(Inbox)
    BY <1>4, <1>6, Parts, ConcatEmptySeq
  <2>2. <<>> \in Seq(Records) /\ Len(<<>>) + 1 = 1 BY EmptySeq
  <2>3. /\ Len(<<>>) + 1 \in 1..Len(<<>> \o Inbox)
        /\ Service!Without(<<>> \o Inbox, Len(<<>>) + 1) = <<>> \o Tail(Inbox)
    BY <1>6, <2>2, WithoutMiddle
  <2> QED BY <1>6, <2>1, <2>2, <2>3
<1>8. Service!Vanish(1) BY <1>1, <1>5, <1>7 DEF Service!Vanish
<1> QED BY <1>7, <1>8

LEMMA SimAccept ==
  ASSUME TypeOK, Hands, DecodeStores, Len(Backlog) < NUM_MAX + 2
  PROVE  Service!Accept
<1>1. /\ main = "decode" /\ main' = "store" /\ redis' = redis
      /\ ltemp' = ltemp /\ worker' = worker /\ tries' = tries
      /\ queue' = queue /\ fetched' = fetched
      /\ delivered' = delivered /\ rows' = rows
      /\ Outcome(ltemp.kind) = "stored"
  BY DEF DecodeStores, MainGoes, Queue!Offer, environmentVars, workerVars,
         resultVars
<1>2. ltemp \in Records /\ ltemp.id # 0 BY <1>1, StoredIsRecord
<1>3. Inbox = <<ltemp>> \o redis BY <1>1, <1>2 DEF Inbox
<1>4. Inbox' = redis
  <2>1. Inbox' = <<>> \o redis BY <1>1 DEF Inbox
  <2> QED BY <2>1, Parts, ConcatEmptySeq
<1>5. Inbox # <<>> /\ Head(Inbox) = ltemp /\ Tail(Inbox) = redis
  BY <1>2, <1>3, Parts, First
<1>6. Backlog' = Append(Backlog, ltemp)
  <2>1. Working' = Working BY <1>1, SameWork DEF Pushing
  <2>2. Backlog = Working \o queue
    <3>1. Storing = <<>> BY <1>1 DEF Storing
    <3> QED BY <3>1, Parts, ConcatEmptySeq
  <2>3. Backlog' = (Working \o queue) \o <<ltemp>>
    BY <1>1, <2>1 DEF Backlog, Working
  <2>4. Append(Working \o queue, ltemp) = (Working \o queue) \o <<ltemp>>
    BY <1>2, Parts, AppendIsConcat
  <2> QED BY <2>2, <2>3, <2>4
<1> QED BY <1>1, <1>4, <1>5, <1>6 DEF Service!Accept

LEMMA SimStore ==
  ASSUME TypeOK, Hands, StoreDone
  PROVE  UNCHANGED Service!vars
<1>1. /\ main = "store" /\ main' = "exists" /\ redis' = redis
      /\ ltemp' = ltemp /\ worker' = worker /\ tries' = tries
      /\ queue' = Append(queue, ltemp) /\ fetched' = fetched
      /\ delivered' = delivered /\ rows' = rows /\ ltemp \in Records
  BY DEF Hands, StoreDone, MainGoes, Queue!Put, environmentVars, workerVars,
         resultVars
<1>2. Inbox' = Inbox BY <1>1 DEF Inbox
<1>3. Backlog' = Backlog
  <2>1. Working' = Working BY <1>1, SameWork DEF Pushing
  <2>2. Storing = <<ltemp>> BY <1>1 DEF Storing
  <2>3. Backlog' = (Working \o Append(queue, ltemp)) \o <<>>
    BY <1>1, <2>1 DEF Backlog, Working
  <2>4. Working \o Append(queue, ltemp) = Append(Working \o queue, ltemp)
    BY SMTT(60), <1>1, Parts, AppendConcat
  <2>5. /\ Append(Working \o queue, ltemp) = (Working \o queue) \o <<ltemp>>
        /\ Append(Working \o queue, ltemp) \in Seq(Records)
    BY <1>1, Parts, AppendIsConcat, AppendProperties
  <2>6. Append(Working \o queue, ltemp) \o <<>> = Append(Working \o queue, ltemp)
    BY <2>5, ConcatEmptySeq
  <2> QED BY <2>2, <2>3, <2>4, <2>5, <2>6, Parts
<1> QED BY <1>1, <1>2, <1>3 DEF Service!vars

LEMMA SimLpop ==
  ASSUME TypeOK, Hands, Lpop
  PROVE  UNCHANGED Service!vars
<1>1. /\ main = "lpop" /\ main' = "decode"
      /\ worker' = worker /\ tries' = tries
      /\ queue' = queue /\ fetched' = fetched
      /\ delivered' = delivered /\ rows' = rows
      /\ \/ redis = <<>> /\ ltemp'.id = 0 /\ redis' = redis
         \/ redis # <<>> /\ ltemp' = Head(redis) /\ redis' = Tail(redis)
  BY DEF Lpop, MainGoes, workerVars, queueVars, resultVars
<1>2. Backlog' = Backlog
  <2>1. Working' = Working BY <1>1, SameWork DEF Pushing
  <2> QED BY <1>1, <2>1 DEF Backlog, Working
<1>3. Inbox = redis
  <2>1. Reading = <<>> BY <1>1 DEF Reading
  <2> QED BY <2>1, Parts, ConcatEmptySeq
<1>4. Inbox' = redis
  <2>1. CASE redis = <<>>
    <3>1. Inbox' = <<>> \o redis BY <1>1, <2>1 DEF Inbox
    <3> QED BY <3>1, Parts, ConcatEmptySeq
  <2>2. CASE redis # <<>>
    <3>1. ltemp'.id # 0
      BY <1>1, <2>2, Parts, OrderTail, RecordId
    <3>2. Inbox' = <<Head(redis)>> \o Tail(redis)
      BY <1>1, <2>2, <3>1 DEF Inbox
    <3> QED BY <2>2, <3>2, Parts, FirstRest
  <2> QED BY <2>1, <2>2
<1> QED BY <1>1, <1>2, <1>3, <1>4 DEF Service!vars

LEMMA SimTake ==
  ASSUME TypeOK, Hands, GetReturns, tries = 0
  PROVE  UNCHANGED Service!vars \/ Service!Settle
<1>1. /\ queue # <<>> /\ queue' = Tail(queue) /\ worker = "fetch"
      /\ fetched'["worker"] = Head(queue)
      /\ worker' \in {"push", "get"}
      /\ redis' = redis /\ main' = main /\ ltemp' = ltemp
      /\ delivered' = delivered /\ rows' = rows /\ tries' = tries
  BY DEF TypeOK, GetReturns, WorkerGoes, Queue!Take, environmentVars,
         resultVars
<1>2. Inbox' = Inbox BY <1>1 DEF Inbox
<1>3. Storing' = Storing BY <1>1, SameParts
<1>4. Backlog = queue \o Storing
  <2>1. Working = <<>> BY <1>1 DEF Working, Pushing
  <2> QED BY <2>1, Parts, ConcatEmptySeq
<1>5. CASE worker' = "push"
  <2>1. Backlog' = (<<Head(queue)>> \o Tail(queue)) \o Storing
    BY <1>1, <1>3, <1>5 DEF Backlog, Storing, Pushing, command
  <2>2. Backlog' = Backlog BY <1>1, <1>4, <2>1, Parts, FirstRest
  <2> QED BY <1>1, <1>2, <2>2 DEF Service!vars
<1>6. CASE worker' = "get"
  <2>1. Backlog' = (<<>> \o Tail(queue)) \o Storing
    BY <1>1, <1>3, <1>6 DEF Backlog, Storing, Pushing
  <2>2. Backlog' = Tail(queue) \o Storing
    BY <1>1, <2>1, Parts, HeadTailProperties, ConcatEmptySeq
  <2>3. Backlog # <<>> /\ Backlog' = Tail(Backlog)
    BY <1>1, <1>4, <2>2, Parts, HeadTailConcat
  <2> QED BY <1>1, <1>2, <2>3 DEF Service!Settle
<1> QED BY <1>1, <1>5, <1>6

\* The record with the worker is the head of the backlog.
LEMMA WorkFirst ==
  ASSUME TypeOK, Hands, Pushing
  PROVE  /\ Backlog # <<>> /\ Head(Backlog) = command
         /\ Tail(Backlog) = queue \o Storing
<1> DEFINE s == Working \o queue
<1>1. command \in Records /\ Working = <<command>> BY DEF Hands, Working
<1>2. /\ s \in Seq(Records) /\ s # <<>> /\ Head(s) = command
      /\ Tail(s) = queue
  BY <1>1, Parts, First
<1>3. Backlog = s \o Storing /\ Storing \in Seq(Records) BY Parts
<1> HIDE DEF s
<1> QED BY <1>2, <1>3, HeadTailConcat

LEMMA SimPerform ==
  ASSUME TypeOK, Hands, NEW ok \in BOOLEAN, NEW reached \in BOOLEAN,
         Perform(ok, reached), tries <= fail_try
  PROVE  Service!Attempt
<1>1. /\ Pushing /\ Pushing' /\ tries' = tries + 1 /\ tries \in Nat
      /\ redis' = redis /\ main' = main /\ ltemp' = ltemp
      /\ queue' = queue /\ fetched' = fetched /\ rows' = rows
      /\ delivered' \in {delivered, Append(delivered, command)}
  BY DEF TypeOK, Perform, WorkerGoes, Pushing, environmentVars, queueVars
<1>2. Inbox' = Inbox BY <1>1 DEF Inbox
<1>3. Backlog' = Backlog BY <1>1 DEF Backlog, command
<1>4. Backlog # <<>> /\ Head(Backlog) = command BY <1>1, WorkFirst
<1>5. tries < fail_try + 1 BY <1>1 DEF fail_try
<1> QED BY <1>1, <1>2, <1>3, <1>4, <1>5 DEF Service!Attempt

LEMMA SimInsert ==
  ASSUME TypeOK, Hands, NEW stored \in BOOLEAN, Insert(stored)
  PROVE  Service!Settle
<1>1. /\ Pushing /\ ~Pushing' /\ tries' = 0
      /\ redis' = redis /\ main' = main /\ ltemp' = ltemp
      /\ queue' = queue /\ delivered' = delivered
      /\ rows' \in {rows, Append(rows, command)}
  BY DEF Insert, WorkerGoes, Pushing, environmentVars, queueVars
<1>2. Inbox' = Inbox BY <1>1 DEF Inbox
<1>3. Backlog' = queue \o Storing
  <2>1. Backlog' = (<<>> \o queue) \o Storing BY <1>1 DEF Backlog, Storing
  <2> QED BY <2>1, Parts, ConcatEmptySeq
<1>4. Backlog # <<>> /\ Head(Backlog) = command /\ Tail(Backlog) = Backlog'
  BY <1>1, <1>3, WorkFirst
<1> QED BY <1>1, <1>2, <1>4 DEF Service!Settle

LEMMA SimEnd ==
  ASSUME TypeOK, Hands, Die,
         redis' = Inbox \/ (Inbox # <<>> /\ redis' = Tail(Inbox)),
         redis' \in Seq(Records),
         rows' = rows \/ (Pushing /\ rows' = Append(rows, command))
  PROVE  Service!Crash
<1>1. Inbox' = <<>> \o redis' /\ Backlog' = (<<>> \o <<>>) \o <<>>
  BY DEF Die, Inbox, Backlog, Pushing
<1>2. <<>> \o <<>> = <<>> OBVIOUS
<1>3. Inbox' = redis' BY <1>1, ConcatEmptySeq
<1>4. Backlog' = <<>> BY <1>1, <1>2
<1>5. rows' \in {rows, IF Backlog = <<>> THEN rows
                                        ELSE Append(rows, Head(Backlog))}
  BY WorkFirst
<1>6. tries' = 0 /\ delivered' = delivered BY DEF Die
<1> QED BY <1>3, <1>4, <1>5, <1>6 DEF Service!Crash

LEMMA SimCrash ==
  ASSUME TypeOK, TypeOK', Hands,
         \/ ExistsKilled \/ LpopFails \/ DecodeThrows \/ LpopReplyLost
         \/ DecodeOverruns \/ WorkerTrouble
  PROVE  Service!Crash
<1>1. /\ redis' \in Seq(Records) /\ Die
      /\ rows' = rows \/ (Pushing /\ rows' = Append(rows, command))
  BY DEF TypeOK, ExistsKilled, LpopFails, DecodeThrows, LpopReplyLost,
         DecodeOverruns, WorkerTrouble, LogsCollide, InsertDies, Pushing
<1>2. \/ redis' = redis
      \/ main = "lpop" /\ redis # <<>> /\ redis' = Tail(redis)
  BY DEF ExistsKilled, LpopFails, DecodeThrows, LpopReplyLost,
         DecodeOverruns, WorkerTrouble, LogsCollide, InsertDies
<1>3. CASE Reading = <<>>
  <2>1. Inbox = redis BY <1>3, Parts, ConcatEmptySeq
  <2> QED BY <1>1, <1>2, <2>1, SimEnd
<1>4. CASE Reading # <<>>
  <2>1. main = "decode" /\ ltemp.id # 0 BY <1>4 DEF Reading
  <2>2. redis' = redis BY <1>2, <2>1
  <2>3. ltemp \in Records BY <2>1 DEF Hands, Missing
  <2>4. Inbox = <<ltemp>> \o redis BY <2>1 DEF Inbox
  <2>5. Inbox # <<>> /\ Tail(Inbox) = redis BY <2>3, <2>4, Parts, First
  <2> QED BY <1>1, <2>2, <2>5, SimEnd
<1> QED BY <1>3, <1>4

\* A step the service does not see.
LEMMA SimQuiet ==
  ASSUME redis' = redis, queue' = queue, fetched' = fetched, tries' = tries,
         delivered' = delivered, rows' = rows, Pushing' = Pushing,
         Reading' = Reading, Storing' = Storing
  PROVE  UNCHANGED Service!vars
<1>1. Inbox' = Inbox BY DEF Inbox, Reading
<1>2. Working' = Working BY SameWork
<1>3. Backlog' = Backlog BY <1>2 DEF Backlog, Working, Storing
<1> QED BY <1>1, <1>3 DEF Service!vars

-----------------------------------------------------------------------------
LEMMA Room ==
  ASSUME IInv, main = "decode"
  PROVE  Len(Backlog) < NUM_MAX + 2
<1>1. Backlog = Working \o queue
  <2>1. Storing = <<>> BY DEF Storing
  <2> QED BY <2>1, Parts, ConcatEmptySeq DEF IInv
<1>2. /\ Working \in Seq(Records) /\ queue \in Seq(Records)
      /\ Len(queue) <= NUM_MAX
  BY Parts DEF IInv, Hands
<1>3. Len(Working) <= 1 /\ Len(Working) \in Nat
  <2>1. Working = <<>> \/ Working = <<command>> BY DEF Working
  <2> QED BY <2>1
<1>4. Len(Backlog) = Len(Working) + Len(queue)
  BY <1>1, <1>2, ConcatProperties
<1>5. Len(queue) \in Nat BY <1>2, LenProperties
<1> QED BY <1>2, <1>3, <1>4, <1>5, BoundsAssumption

LEMMA SimStep ==
  ASSUME IInv, TypeOK', [Next]_vars
  PROVE  [Service!Next]_(Service!vars)
<1>0. TypeOK /\ Hands BY DEF IInv
<1>1. ASSUME NEW k \in Kinds, Rpush(k) PROVE Service!Next
  BY <1>0, <1>1, SimRpush DEF Service!Next
<1>2. CASE OtherPop \/ DecodeRejects
  BY <1>0, <1>2, SimOtherPop, SimRejects DEF Service!Next
<1>3. CASE DropLink \/ Restart \/ Connect \/ StartWorker \/ Exists
           \/ ExistsFails \/ WakeUp
  <2>1. /\ redis' = redis /\ queue' = queue /\ fetched' = fetched
        /\ tries' = tries /\ delivered' = delivered /\ rows' = rows
        /\ ltemp' = ltemp
    BY <1>3
    DEF DropLink, Restart, Connect, StartWorker, Exists, ExistsFails, WakeUp,
        environmentVars, workerVars, queueVars, resultVars
  <2>2. /\ \/ main' = main
           \/ main \notin {"decode", "store"} /\ main' \notin {"decode", "store"}
        /\ \/ worker' = worker
           \/ main = "start" /\ worker' = "added"
    BY <1>3
    DEF DropLink, Restart, Connect, StartWorker, Exists, ExistsFails, WakeUp,
        MainGoes, workerVars
  <2>3. Reading' = Reading /\ Storing' = Storing
    BY <2>1, <2>2 DEF Reading, Storing
  <2>4. Pushing' = Pushing BY <1>0, <2>2 DEF Hands, Pushing
  <2> QED BY <2>1, <2>3, <2>4, SimQuiet
<1>4. CASE Lpop \/ StoreDone
  BY <1>0, <1>4, SimLpop, SimStore
<1>5. CASE DecodeStores
  <2>1. main = "decode" BY <1>5 DEF DecodeStores, MainGoes
  <2> QED BY <1>0, <1>5, <2>1, Room, SimAccept DEF Service!Next
<1>6. CASE \/ ExistsKilled \/ LpopFails \/ DecodeThrows \/ LpopReplyLost
           \/ DecodeOverruns \/ WorkerTrouble
  BY <1>0, <1>6, SimCrash DEF Service!Next
<1>7. CASE WorkerBegins \/ GetCall \/ NoCurl
  <2>1. /\ redis' = redis /\ queue' = queue /\ fetched' = fetched
        /\ tries' = tries /\ delivered' = delivered /\ rows' = rows
        /\ main' = main /\ ltemp' = ltemp /\ Pushing' = Pushing
    BY <1>7
    DEF WorkerBegins, GetCall, NoCurl, WorkerGoes, Pushing, Queue!Ask,
        environmentVars, queueVars, resultVars
  <2> QED BY <2>1, SameParts, SimQuiet
<1>8. CASE GetReturns
  <2>1. tries = 0
    <3>1. ~Pushing BY <1>8 DEF GetReturns, WorkerGoes, Pushing
    <3> QED BY <3>1 DEF IInv, Requests
  <2> QED BY <1>0, <1>8, <2>1, SimTake DEF Service!Next
<1>9. ASSUME NEW ok \in BOOLEAN, NEW reached \in BOOLEAN, Perform(ok, reached)
      PROVE  Service!Next
  <2>1. tries <= fail_try
    <3>1. worker = "push" BY <1>9 DEF Perform, WorkerGoes
    <3> QED BY <3>1 DEF IInv, Requests
  <2> QED BY <1>0, <1>9, <2>1, SimPerform DEF Service!Next
<1>10. ASSUME NEW stored \in BOOLEAN, Insert(stored) PROVE Service!Next
  BY <1>0, <1>10, SimInsert DEF Service!Next
<1>11. CASE UNCHANGED vars
  BY <1>11, SameParts, SimQuiet
  DEF vars, environmentVars, workerVars, queueVars, resultVars, Pushing
<1> QED BY <1>1, <1>2, <1>3, <1>4, <1>5, <1>6, <1>7, <1>8, <1>9, <1>10, <1>11
       DEF Next, Environment, MainStep, MainTrouble, WorkerStep

\* The server accepts records in order, pushes and settles them one by one,
\* and an end of the process loses the backlog and nothing else
\* (event_run, func_routine).
THEOREM Refinement == Spec => ImplementsService
<1>1. IInv /\ IInv' /\ [Next]_vars => [Service!Next]_(Service!vars)
  BY SimStep DEF IInv
<1> QED BY <1>1, SimInit, Inductive, PTL
       DEF Spec, ImplementsService, Service!Spec

=============================================================================
