------------------------------ MODULE CmdFifo ------------------------------
(***************************************************************************)
(* The command list cmd_head of class jpush_arg (files.cpp) and the        *)
(* protocol its two operations follow: store_cmd_data, called by the main  *)
(* thread for every valid redis record, and get_value, called by the pool  *)
(* thread that pushes.  Two counting semaphores bound the list, a mutex    *)
(* protects it.  Every blocking call and every access of shared state is a *)
(* step of its own; pc[t] names the call thread t is about to make.        *)
(*                                                                         *)
(* A definition with a suffix after "_" is a faulty variant of the one     *)
(* below it: it is no part of the specification and serves to see that     *)
(* the properties notice the fault.                                        *)
(***************************************************************************)
EXTENDS Naturals, Sequences, FiniteSets

CONSTANTS Producers,   \* threads that call store_cmd_data
          Consumers,   \* threads that call get_value
          Data,        \* commands (struct fifo_jpush_data)
          NUM_MAX,     \* initial value of g_sem_empty, 1280 in the source
          NoThread,    \* "g_mutex is free"
          NoData       \* an argTemp into which nothing was fetched yet

ASSUME ThreadsAssumption ==
  /\ IsFiniteSet(Producers)
  /\ IsFiniteSet(Consumers)
  /\ Producers \cap Consumers = {}
  /\ NoThread \notin Producers \cup Consumers

ASSUME DataAssumption == NoData \notin Data

ASSUME SizeAssumption == NUM_MAX \in Nat \ {0}

VARIABLES cmd_head,     \* the list
          g_sem_full,   \* counts commands a consumer may claim
          g_sem_empty,  \* counts slots a producer may claim
          g_mutex,      \* its owner, or NoThread
          pc,
          p_cmd,        \* argument of each producer's current call
          temp          \* result parameter of each consumer's get_value

vars == <<cmd_head, g_sem_full, g_sem_empty, g_mutex, pc, p_cmd, temp>>

Threads == Producers \cup Consumers

\* "out" is outside of the class; the other labels name the next call made.
StoreLabels == {"out", "s_wait", "s_lock", "s_push", "s_unlock", "s_post"}
GetLabels   == {"out", "g_wait", "g_lock", "g_pop", "g_unlock", "g_post"}

Init ==
  /\ cmd_head = <<>>
  /\ g_sem_full = 0
  /\ g_sem_empty = NUM_MAX
  /\ g_mutex = NoThread
  /\ pc = [t \in Threads |-> "out"]
  /\ p_cmd = [p \in Producers |-> NoData]
  /\ temp = [c \in Consumers |-> NoData]

Goto(t, from, to) ==
  /\ pc[t] = from
  /\ pc' = [pc EXCEPT ![t] = to]

Lock(t)   == g_mutex = NoThread /\ g_mutex' = t
Unlock(t) == g_mutex = t /\ g_mutex' = NoThread

-----------------------------------------------------------------------------
(* store_cmd_data                                                          *)

StoreCall(p, d) ==
  /\ Goto(p, "out", "s_wait")
  /\ p_cmd' = [p_cmd EXCEPT ![p] = d]
  /\ UNCHANGED <<cmd_head, g_sem_full, g_sem_empty, g_mutex, temp>>

StoreWait(p) ==
  /\ Goto(p, "s_wait", "s_lock")
  /\ g_sem_empty > 0
  /\ g_sem_empty' = g_sem_empty - 1
  /\ UNCHANGED <<cmd_head, g_sem_full, g_mutex, p_cmd, temp>>

StoreLock(p) ==
  /\ Goto(p, "s_lock", "s_push")
  /\ Lock(p)
  /\ UNCHANGED <<cmd_head, g_sem_full, g_sem_empty, p_cmd, temp>>

StorePush(p) ==
  /\ Goto(p, "s_push", "s_unlock")
  /\ cmd_head' = Append(cmd_head, p_cmd[p])
  /\ UNCHANGED <<g_sem_full, g_sem_empty, g_mutex, p_cmd, temp>>

StoreUnlock(p) ==
  /\ Goto(p, "s_unlock", "s_post")
  /\ Unlock(p)
  /\ UNCHANGED <<cmd_head, g_sem_full, g_sem_empty, p_cmd, temp>>

StorePost(p) ==
  /\ Goto(p, "s_post", "out")
  /\ g_sem_full' = g_sem_full + 1
  /\ UNCHANGED <<cmd_head, g_sem_empty, g_mutex, p_cmd, temp>>

-----------------------------------------------------------------------------
(* get_value; front() and del_cmd_head() run under the same lock           *)

GetCall(c) ==
  /\ Goto(c, "out", "g_wait")
  /\ UNCHANGED <<cmd_head, g_sem_full, g_sem_empty, g_mutex, p_cmd, temp>>

GetWait_TryOnly(c) ==    \* sem_trywait, its result ignored
  /\ Goto(c, "g_wait", "g_lock")
  /\ g_sem_full' = IF g_sem_full > 0 THEN g_sem_full - 1 ELSE 0
  /\ UNCHANGED <<cmd_head, g_sem_empty, g_mutex, p_cmd, temp>>

GetWait(c) ==
  /\ Goto(c, "g_wait", "g_lock")
  /\ g_sem_full > 0
  /\ g_sem_full' = g_sem_full - 1
  /\ UNCHANGED <<cmd_head, g_sem_empty, g_mutex, p_cmd, temp>>

GetLock(c) ==
  /\ Goto(c, "g_lock", "g_pop")
  /\ Lock(c)
  /\ UNCHANGED <<cmd_head, g_sem_full, g_sem_empty, p_cmd, temp>>

GetPop_Back(c) ==
  /\ Goto(c, "g_pop", "g_unlock")
  /\ temp' = [temp EXCEPT ![c] = cmd_head[Len(cmd_head)]]
  /\ cmd_head' = SubSeq(cmd_head, 1, Len(cmd_head) - 1)
  /\ UNCHANGED <<g_sem_full, g_sem_empty, g_mutex, p_cmd>>

GetPop(c) ==
  /\ Goto(c, "g_pop", "g_unlock")
  /\ temp' = [temp EXCEPT ![c] = Head(cmd_head)]
  /\ cmd_head' = Tail(cmd_head)
  /\ UNCHANGED <<g_sem_full, g_sem_empty, g_mutex, p_cmd>>

GetUnlock(c) ==
  /\ Goto(c, "g_unlock", "g_post")
  /\ Unlock(c)
  /\ UNCHANGED <<cmd_head, g_sem_full, g_sem_empty, p_cmd, temp>>

GetPost_Forgotten(c) ==
  /\ Goto(c, "g_post", "out")
  /\ UNCHANGED <<cmd_head, g_sem_full, g_sem_empty, g_mutex, p_cmd, temp>>

GetPost(c) ==
  /\ Goto(c, "g_post", "out")
  /\ g_sem_empty' = g_sem_empty + 1
  /\ UNCHANGED <<cmd_head, g_sem_full, g_mutex, p_cmd, temp>>

-----------------------------------------------------------------------------
Storing(p) == \/ StoreWait(p) \/ StoreLock(p) \/ StorePush(p)
              \/ StoreUnlock(p) \/ StorePost(p)

Getting(c) == \/ GetCall(c) \/ GetWait(c) \/ GetLock(c) \/ GetPop(c)
              \/ GetUnlock(c) \/ GetPost(c)

Next ==
  \/ \E p \in Producers : Storing(p) \/ \E d \in Data : StoreCall(p, d)
  \/ \E c \in Consumers : Getting(c)

Spec == Init /\ [][Next]_vars

(* A thread that can run does run.  A producer need not call again (redis  *)
(* may stay empty); a consumer does, func_routine is an endless loop.      *)
(* Neither pthread_mutex_lock nor sem_wait is fair to a particular thread, *)
(* so there is no strong fairness here.                                    *)
Fairness ==
  /\ \A p \in Producers : WF_vars(Storing(p))
  /\ \A c \in Consumers : WF_vars(Getting(c))

FairSpec == Spec /\ Fairness

-----------------------------------------------------------------------------
(* Properties                                                              *)

\* Every variable keeps its type: the semaphores never go below zero and
\* every thread is between two calls of the operation it executes.
TypeOK ==
  /\ cmd_head \in Seq(Data)
  /\ g_sem_full \in Nat
  /\ g_sem_empty \in Nat
  /\ g_mutex \in Threads \cup {NoThread}
  /\ pc \in [Threads -> StoreLabels \cup GetLabels]
  /\ \A p \in Producers : pc[p] \in StoreLabels
  /\ \A c \in Consumers : pc[c] \in GetLabels
  /\ p_cmd \in [Producers -> Data \cup {NoData}]
  /\ \A p \in Producers : pc[p] # "out" => p_cmd[p] \in Data
  /\ temp \in [Consumers -> Data \cup {NoData}]

\* How many of the threads in S are about to make one of the calls in L.
At(S, L) == Cardinality({t \in S : pc[t] \in L})

Reserved    == At(Producers, {"s_lock", "s_push"})    \* slots, not filled yet
Unannounced == At(Producers, {"s_unlock", "s_post"})  \* pushed, not posted
Claimed     == At(Consumers, {"g_lock", "g_pop"})     \* waited for, not popped
Unreturned  == At(Consumers, {"g_unlock", "g_post"})  \* popped, slot not posted

\* No slot is lost and none is invented: the slots still free, the slots a
\* producer has reserved, the commands in the list and the slots get_value
\* has emptied but not given back add up to NUM_MAX in every interleaving
\* of the calls of store_cmd_data and get_value.
SlotsConserved ==
  g_sem_empty + Reserved + Len(cmd_head) + Unreturned = NUM_MAX

\* Every command in the list is announced exactly once: counted by
\* g_sem_full, about to be counted by its producer, or already claimed by
\* a consumer that has passed sem_wait.
CommandsAnnounced == Len(cmd_head) = g_sem_full + Unannounced + Claimed

\* get_value tests nothing before front() and pop_front() (the test is
\* commented out at files.cpp:347-353): the list is never empty there.
PopFindsCommand == \A c \in Consumers : pc[c] = "g_pop" => cmd_head # <<>>

\* The std::list is never touched by two threads at once, and whoever
\* touches it owns g_mutex.
OneThreadAtList ==
  \A t \in Threads :
    pc[t] \in {"s_push", "s_unlock", "g_pop", "g_unlock"} <=> g_mutex = t

\* What each access of the list needs, in every interleaving: the list for
\* itself, and a command in it if it is get_value.
ListSafe == OneThreadAtList /\ PopFindsCommand

\* Semaphores and list agree: neither a slot nor a command is counted twice
\* or forgotten, wherever each thread stands in its call.
CountsAgree == SlotsConserved /\ CommandsAnnounced

-----------------------------------------------------------------------------
(* The refinement: a store takes effect at push_back, a fetch at pop_front *)

Queue == INSTANCE BoundedQueue WITH
  Capacity <- NUM_MAX,
  queue    <- cmd_head,
  offer    <- [p \in Producers |->
                 IF pc[p] \in {"s_wait", "s_lock", "s_push"}
                   THEN p_cmd[p] ELSE NoData],
  asking   <- {c \in Consumers : pc[c] \in {"g_wait", "g_lock", "g_pop"}},
  fetched  <- temp

\* Seen from its callers the class is a first-in first-out queue that
\* holds at most NUM_MAX commands, loses none and repeats none.
ImplementsQueue == Queue!Spec

\* ... and under the fairness above, as long as some store waits and there
\* is room some store completes, and as long as some fetch waits and there
\* is a command some fetch completes.
ImplementsFairQueue == Queue!Served
=============================================================================
