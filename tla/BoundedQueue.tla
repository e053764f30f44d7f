---------------------------- MODULE BoundedQueue ----------------------------
(***************************************************************************)
(* What the command list of class jpush_arg (files.cpp) promises to the    *)
(* threads that share it, with none of its semaphores, mutex or program    *)
(* counters: a first-in first-out queue of at most Capacity commands that  *)
(* makes a storing thread wait while it is full and a fetching thread wait *)
(* while it is empty.  CmdFifo is the detailed specification; EventHandle  *)
(* composes the rest of the server around the queue at this level.         *)
(***************************************************************************)
EXTENDS Naturals, Sequences

CONSTANTS Producers,   \* threads that call store_cmd_data
          Consumers,   \* threads that call get_value
          Data,        \* commands (struct fifo_jpush_data)
          NoData,      \* "nothing offered", "nothing fetched yet"
          Capacity

VARIABLES queue,       \* the commands stored and not fetched yet
          offer,       \* offer[p]: the command p wants to store
          asking,      \* consumers that wait for a command
          fetched      \* fetched[c]: the last command c received

vars == <<queue, offer, asking, fetched>>

Init ==
  /\ queue = <<>>
  /\ offer = [p \in Producers |-> NoData]
  /\ asking = {}
  /\ fetched = [c \in Consumers |-> NoData]

Offer(p, d) ==
  /\ offer[p] = NoData
  /\ offer' = [offer EXCEPT ![p] = d]
  /\ UNCHANGED <<queue, asking, fetched>>

Put(p) ==
  /\ offer[p] # NoData
  /\ Len(queue) < Capacity
  /\ queue' = Append(queue, offer[p])
  /\ offer' = [offer EXCEPT ![p] = NoData]
  /\ UNCHANGED <<asking, fetched>>

Ask(c) ==
  /\ c \notin asking
  /\ asking' = asking \cup {c}
  /\ UNCHANGED <<queue, offer, fetched>>

Take(c) ==
  /\ c \in asking
  /\ queue # <<>>
  /\ fetched' = [fetched EXCEPT ![c] = Head(queue)]
  /\ queue' = Tail(queue)
  /\ asking' = asking \ {c}
  /\ UNCHANGED offer

Next ==
  \/ \E p \in Producers : Put(p) \/ \E d \in Data : Offer(p, d)
  \/ \E c \in Consumers : Ask(c) \/ Take(c)

Spec == Init /\ [][Next]_vars

(* Some pending store and some pending fetch are always served in the end; *)
(* which thread is served is not promised, the locks below are not fair.   *)
Served ==
  /\ WF_vars(\E p \in Producers : Put(p))
  /\ WF_vars(\E c \in Consumers : Take(c))

FairSpec == Spec /\ Served
=============================================================================
