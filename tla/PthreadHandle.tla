--------------------------- MODULE PthreadHandle ---------------------------
(***************************************************************************)
(* The thread pool of class pthread_handle (pthread_handle.cpp): a list of *)
(* tasks guarded by queue_lock, worker threads that wait on queue_ready,   *)
(* pool_event_add, which appends a task and signals, and pool_destroy,     *)
(* which sets shutdown, broadcasts and joins.  Two peculiarities of the    *)
(* code are kept: a worker executes its task while it still owns           *)
(* queue_lock, and pool_destroy sets shutdown without owning it.           *)
(* (Definitions with a suffix after "_" are faulty variants, see CmdFifo;  *)
(* the prefix Pool lets a module extend CmdFifo and this one.)             *)
(***************************************************************************)
EXTENDS Naturals, Sequences, FiniteSets

CONSTANTS Workers,        \* the threads made by pool_event_init
          Adders,         \* threads that call pool_event_add
          Tasks,          \* a task is added at most once
          Endless,        \* tasks that never return, like func_routine
          MaxDestroys,    \* bound on the calls of pool_destroy
          NoOwner,       \* "queue_lock is free"
          NoTask

ASSUME PoolAssumption ==
  /\ Workers # {} /\ IsFiniteSet(Workers)
  /\ Workers \cap Adders = {}
  /\ NoOwner \notin Workers \cup Adders
  /\ Endless \subseteq Tasks /\ NoTask \notin Tasks
  /\ MaxDestroys \in Nat

VARIABLES queue_lock, event_list, shutdown,
          wpc,      \* where each worker is in thread_run
          running,  \* the task each worker took last
          apc,      \* where each adder is in pool_event_add
          arg,      \* the task each adder wants to add
          added,    \* the tasks for which pool_event_add was called
          opc,      \* where the owner of the pool is in pool_destroy
          destroys, \* calls of pool_destroy so far
          frees     \* times threadid, the lock and the condition were freed

workerVars == <<wpc, running>>
adderVars  == <<apc, arg, added>>
ownerVars  == <<opc, destroys, frees>>
poolVars == <<queue_lock, event_list, shutdown, workerVars, adderVars, ownerVars>>

\* Labels name the next thing a thread does; a worker "asleep" is inside of
\* pthread_cond_wait and has not been woken.
WorkerLabels == {"lock", "test", "wait", "asleep", "relock", "quit", "run",
                 "unlock", "exited"}
AdderLabels  == {"out", "lock", "push", "unlock", "signal"}
OwnerLabels  == {"out", "test", "set", "broadcast", "join", "free"}

PoolInit ==   \* pool_event_init
  /\ queue_lock = NoOwner
  /\ event_list = <<>>
  /\ shutdown = FALSE
  /\ wpc = [w \in Workers |-> "lock"]
  /\ running = [w \in Workers |-> NoTask]
  /\ apc = [a \in Adders |-> "out"]
  /\ arg = [a \in Adders |-> NoTask]
  /\ added = {}
  /\ opc = "out"
  /\ destroys = 0
  /\ frees = 0

WorkerGoes(w, from, to) == wpc[w] = from /\ wpc' = [wpc EXCEPT ![w] = to]
AdderGoes(a, from, to)  == apc[a] = from /\ apc' = [apc EXCEPT ![a] = to]
OwnerGoes(from, to)     == opc = from /\ opc' = to

-----------------------------------------------------------------------------
(* thread_run                                                              *)

WorkerLock(w) ==        \* also the end of pthread_cond_wait
  /\ WorkerGoes(w, "lock", "test") \/ WorkerGoes(w, "relock", "test")
  /\ queue_lock = NoOwner
  /\ queue_lock' = w
  /\ UNCHANGED <<event_list, shutdown, running, adderVars, ownerVars>>

\* The loop condition and the test after the loop are one step: the list
\* cannot change while w owns the lock, and on each path only one read of
\* shutdown decides.
StartTask_UnlockFirst(w) ==
  /\ WorkerGoes(w, "test", "run")
  /\ ~shutdown
  /\ event_list # <<>>
  /\ running' = [running EXCEPT ![w] = Head(event_list)]
  /\ event_list' = Tail(event_list)
  /\ queue_lock' = NoOwner
  /\ UNCHANGED <<shutdown, adderVars, ownerVars>>

StartTask(w) ==
  /\ WorkerGoes(w, "test", "run")
  /\ ~shutdown
  /\ event_list # <<>>
  /\ running' = [running EXCEPT ![w] = Head(event_list)]
  /\ event_list' = Tail(event_list)
  /\ UNCHANGED <<queue_lock, shutdown, adderVars, ownerVars>>

FindNothing(w) ==
  /\ WorkerGoes(w, "test", "wait")
  /\ ~shutdown
  /\ event_list = <<>>
  /\ UNCHANGED <<queue_lock, event_list, shutdown, running, adderVars, ownerVars>>

SeeShutdown(w) ==
  /\ WorkerGoes(w, "test", "quit")
  /\ shutdown
  /\ UNCHANGED <<queue_lock, event_list, shutdown, running, adderVars, ownerVars>>

CondWait(w) ==    \* gives the lock back and falls asleep in one step
  /\ WorkerGoes(w, "wait", "asleep")
  /\ queue_lock' = NoOwner
  /\ UNCHANGED <<event_list, shutdown, running, adderVars, ownerVars>>

SpuriousWakeup(w) ==
  /\ WorkerGoes(w, "asleep", "relock")
  /\ UNCHANGED <<queue_lock, event_list, shutdown, running, adderVars, ownerVars>>

FinishTask(w) ==
  /\ running[w] \notin Endless
  /\ WorkerGoes(w, "run", "unlock")
  /\ UNCHANGED <<queue_lock, event_list, shutdown, running, adderVars, ownerVars>>

WorkerUnlock_Kept(w) ==     \* the return path of the task forgets to unlock
  /\ \/ WorkerGoes(w, "unlock", "lock") /\ UNCHANGED queue_lock
     \/ WorkerGoes(w, "quit", "exited") /\ queue_lock' = NoOwner
  /\ UNCHANGED <<event_list, shutdown, running, adderVars, ownerVars>>

WorkerUnlock(w) ==
  /\ WorkerGoes(w, "unlock", "lock") \/ WorkerGoes(w, "quit", "exited")
  /\ queue_lock' = NoOwner
  /\ UNCHANGED <<event_list, shutdown, running, adderVars, ownerVars>>

-----------------------------------------------------------------------------
(* pool_event_add.  Adding to a pool that is being destroyed would use     *)
(* freed objects, so the callers do not: in the server one thread does     *)
(* both, one after the other.                                              *)

AddCall(a, t) ==
  /\ AdderGoes(a, "out", "lock")
  /\ opc = "out" /\ ~shutdown
  /\ t \notin added
  /\ arg' = [arg EXCEPT ![a] = t]
  /\ added' = added \cup {t}
  /\ UNCHANGED <<queue_lock, event_list, shutdown, workerVars, ownerVars>>

AddLock(a) ==
  /\ AdderGoes(a, "lock", "push")
  /\ queue_lock = NoOwner
  /\ queue_lock' = a
  /\ UNCHANGED <<event_list, shutdown, arg, added, workerVars, ownerVars>>

AddPush(a) ==
  /\ AdderGoes(a, "push", "unlock")
  /\ event_list' = Append(event_list, arg[a])
  /\ UNCHANGED <<queue_lock, shutdown, arg, added, workerVars, ownerVars>>

AddUnlock(a) ==
  /\ AdderGoes(a, "unlock", "signal")
  /\ queue_lock' = NoOwner
  /\ UNCHANGED <<event_list, shutdown, arg, added, workerVars, ownerVars>>

Asleep == {w \in Workers : wpc[w] = "asleep"}

AddSignal_Missing(a) ==
  /\ AdderGoes(a, "signal", "out")
  /\ UNCHANGED <<queue_lock, event_list, shutdown, workerVars, arg, added, ownerVars>>

AddSignal(a) ==   \* wakes one sleeper, if there is one
  /\ AdderGoes(a, "signal", "out")
  /\ \/ Asleep = {} /\ UNCHANGED wpc
     \/ \E w \in Asleep : wpc' = [wpc EXCEPT ![w] = "relock"]
  /\ UNCHANGED <<queue_lock, event_list, shutdown, running, arg, added, ownerVars>>

-----------------------------------------------------------------------------
(* pool_destroy                                                            *)

DestroyCall ==
  /\ OwnerGoes("out", "test")
  /\ destroys < MaxDestroys
  /\ destroys' = destroys + 1
  /\ \A a \in Adders : apc[a] = "out"
  /\ UNCHANGED <<queue_lock, event_list, shutdown, frees, workerVars, adderVars>>

DestroyTest_Missing ==
  /\ OwnerGoes("test", "set")
  /\ UNCHANGED <<queue_lock, event_list, shutdown, destroys, frees, workerVars,
                 adderVars>>

DestroyTest ==
  /\ OwnerGoes("test", IF shutdown THEN "out" ELSE "set")
  /\ UNCHANGED <<queue_lock, event_list, shutdown, destroys, frees, workerVars,
                 adderVars>>

DestroySet ==     \* without queue_lock
  /\ OwnerGoes("set", "broadcast")
  /\ shutdown' = TRUE
  /\ UNCHANGED <<queue_lock, event_list, destroys, frees, workerVars, adderVars>>

DestroyBroadcast_Signal ==
  /\ OwnerGoes("broadcast", "join")
  /\ \/ Asleep = {} /\ UNCHANGED wpc
     \/ \E w \in Asleep : wpc' = [wpc EXCEPT ![w] = "relock"]
  /\ UNCHANGED <<queue_lock, event_list, shutdown, destroys, frees, running,
                 adderVars>>

DestroyBroadcast ==
  /\ OwnerGoes("broadcast", "join")
  /\ wpc' = [w \in Workers |-> IF wpc[w] = "asleep" THEN "relock" ELSE wpc[w]]
  /\ UNCHANGED <<queue_lock, event_list, shutdown, destroys, frees, running,
                 adderVars>>

DestroyJoin ==    \* the loop over threadid
  /\ OwnerGoes("join", "free")
  /\ \A w \in Workers : wpc[w] = "exited"
  /\ UNCHANGED <<queue_lock, event_list, shutdown, destroys, frees, workerVars,
                 adderVars>>

DestroyFree ==
  /\ OwnerGoes("free", "out")
  /\ frees' = frees + 1
  /\ UNCHANGED <<queue_lock, event_list, shutdown, destroys, workerVars, adderVars>>

-----------------------------------------------------------------------------
WorkerStep(w) ==
  \/ WorkerLock(w) \/ StartTask(w) \/ FindNothing(w) \/ SeeShutdown(w)
  \/ CondWait(w) \/ FinishTask(w) \/ WorkerUnlock(w)

AdderStep(a) == AddLock(a) \/ AddPush(a) \/ AddUnlock(a) \/ AddSignal(a)

OwnerStep == \/ DestroyTest \/ DestroySet \/ DestroyBroadcast
             \/ DestroyJoin \/ DestroyFree

PoolNext ==
  \/ \E w \in Workers : WorkerStep(w) \/ SpuriousWakeup(w)
  \/ \E a \in Adders : AdderStep(a) \/ \E t \in Tasks : AddCall(a, t)
  \/ DestroyCall \/ OwnerStep

PoolSpec == PoolInit /\ [][PoolNext]_poolVars

(* A thread that can run does run; tasks that are not endless return.      *)
(* Nobody has to call the pool, no wakeup has to be spurious, and the lock *)
(* is fair to nobody.                                                      *)
PoolFairness ==
  /\ \A w \in Workers : WF_poolVars(WorkerStep(w))
  /\ \A a \in Adders : WF_poolVars(AdderStep(a))
  /\ WF_poolVars(OwnerStep)

PoolFairSpec == PoolSpec /\ PoolFairness

-----------------------------------------------------------------------------
(* Properties                                                              *)

PoolTypeOK ==
  /\ queue_lock \in Workers \cup Adders \cup {NoOwner}
  /\ event_list \in Seq(Tasks)
  /\ shutdown \in BOOLEAN
  /\ wpc \in [Workers -> WorkerLabels]
  /\ running \in [Workers -> Tasks \cup {NoTask}]
  /\ apc \in [Adders -> AdderLabels]
  /\ arg \in [Adders -> Tasks \cup {NoTask}]
  /\ \A a \in Adders : apc[a] # "out" => arg[a] \in Tasks
  /\ added \subseteq Tasks
  /\ opc \in OwnerLabels
  /\ destroys \in 0..MaxDestroys
  /\ frees \in Nat

\* However many threads the pool has, at most one of them executes a task:
\* thread_run calls the task before it unlocks queue_lock.
TasksSerial ==
  \A v, w \in Workers : wpc[v] = "run" /\ wpc[w] = "run" => v = w

\* pool_event_add signals after it has unlocked, and signals once: still no
\* task is left in the list with every worker asleep, except for the moment
\* between an adder's unlock and its signal.
NoLostWakeup ==
  event_list # <<>> /\ (\A w \in Workers : wpc[w] = "asleep")
    => \E a \in Adders : apc[a] \in {"unlock", "signal"}

\* The test of shutdown in pool_destroy ("guard against two calls") makes
\* repeated calls harmless: the threads, the lock and the condition are
\* freed once at most, and only when no worker can touch them any more.
FreedSafely ==
  /\ frees <= 1
  /\ frees = 1 => \A w \in Workers : wpc[w] = "exited"

EndlessTaskRuns == \E w \in Workers : wpc[w] = "run" /\ running[w] \in Endless

\* A task that was added is started, unless the pool shuts down first or an
\* endless task keeps the lock for ever.
TasksStart ==
  \A t \in Tasks :
    (\E i \in 1..Len(event_list) : event_list[i] = t)
      ~> \/ \E w \in Workers : running[w] = t
         \/ shutdown
         \/ EndlessTaskRuns

\* pool_destroy sets shutdown without queue_lock, so a worker that tested it
\* just before may fall asleep after the broadcast, for ever.  If at the time
\* of the broadcast no worker is between its test and its wait, pool_destroy
\* does return, whatever the workers were doing, unless an endless task runs.
DestroyEnds ==
  opc = "broadcast" /\ (\A w \in Workers : wpc[w] # "wait")
    ~> opc = "out" \/ EndlessTaskRuns
=============================================================================
