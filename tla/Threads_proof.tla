--------------------------- MODULE Threads_proof ----------------------------
(***************************************************************************)
(* The threads of the server and what they share: the list of commands and *)
(* the thread pool.                                                        *)
(*                                                                         *)
(* Theorems about CmdFifo, for any finite sets of threads, any commands    *)
(* and any NUM_MAX > 0.  The inductive invariant is the conjunction of     *)
(* type correctness, the ownership of the mutex and the two counting       *)
(* equations; that get_value never pops an empty list and that the list    *)
(* never exceeds NUM_MAX follow from the equations, they are not inductive *)
(* by themselves.                                                          *)
(*                                                                         *)
(* Theorems about PthreadHandle, for any number of workers and adders, any *)
(* tasks and any number of calls of pool_destroy.  LockHeld carries the    *)
(* mutex through the induction; WaitsEmpty is what makes a late signal     *)
(* harmless: whoever is about to fall asleep holds the lock since it found *)
(* the list empty.  DestroyedOnce follows pool_destroy past its test.      *)
(***************************************************************************)
EXTENDS CmdFifo, PthreadHandle, ProofLemmas, SequenceTheorems

-----------------------------------------------------------------------------
(* Counting the threads at a set of labels                                 *)

\* What one step of thread t does to the number of threads of S at L.
LEMMA GotoCounts ==
  ASSUME TypeOK, NEW t \in Threads, NEW from, NEW to, Goto(t, from, to),
         NEW S \in SUBSET Threads, IsFiniteSet(S), NEW L
  PROVE  /\ t \in S /\ from \notin L /\ to \in L => At(S, L)' = At(S, L) + 1
         /\ t \in S /\ from \in L /\ to \notin L => At(S, L) = At(S, L)' + 1
         /\ t \notin S \/ (from \in L <=> to \in L) => At(S, L)' = At(S, L)
<1>1. /\ pc[t] = from /\ pc'[t] = to
      /\ \A u \in S \ {t} : pc'[u] = pc[u]
  BY DEF TypeOK, Goto
<1>2. CASE t \in S /\ from \notin L /\ to \in L
  <2>1. Cardinality({u \in S : pc'[u] \in L})
          = Cardinality({u \in S : pc[u] \in L}) + 1
    BY <1>1, <1>2, CountEnter
  <2> QED BY <1>2, <2>1 DEF At
<1>3. CASE t \in S /\ from \in L /\ to \notin L
  <2>1. Cardinality({u \in S : pc[u] \in L})
          = Cardinality({u \in S : pc'[u] \in L}) + 1
    BY <1>1, <1>3, CountLeave
  <2> QED BY <1>3, <2>1 DEF At
<1>4. CASE t \notin S \/ (from \in L <=> to \in L)
  <2>1. Cardinality({u \in S : pc'[u] \in L})
          = Cardinality({u \in S : pc[u] \in L})
    BY <1>1, <1>4, CountSame
  <2> QED BY <1>4, <2>1 DEF At
<1> QED BY <1>2, <1>3, <1>4

\* The four counts of the accounting equations are natural numbers, and a
\* thread that stands at a counted label makes its count positive.
LEMMA AtNat ==
  ASSUME NEW S, IsFiniteSet(S), NEW L
  PROVE  At(S, L) \in Nat /\ \A t \in S : pc[t] \in L => At(S, L) > 0
BY CountNat DEF At

-----------------------------------------------------------------------------
(* The inductive invariant                                                 *)

IInv == TypeOK /\ OneThreadAtList /\ SlotsConserved /\ CommandsAnnounced

\* A consumer about to pop is counted among the announced commands, so the
\* list holds at least the command it claimed.
LEMMA IInvPop == IInv => PopFindsCommand
<1> SUFFICES ASSUME IInv, NEW c \in Consumers, pc[c] = "g_pop"
             PROVE  cmd_head # <<>>
  BY DEF PopFindsCommand
<1>1. Claimed \in Nat \ {0} BY ThreadsAssumption, AtNat DEF Claimed
<1>2. Unannounced \in Nat BY ThreadsAssumption, AtNat DEF Unannounced
<1>3. Len(cmd_head) > 0
  BY <1>1, <1>2 DEF IInv, TypeOK, CommandsAnnounced
<1> QED BY <1>3

\* A producer about to push is counted among the claimed slots, so the list
\* has room for its command.
LEMMA IInvPush ==
  IInv => \A p \in Producers : pc[p] \in {"s_lock", "s_push"}
                                 => Len(cmd_head) < NUM_MAX
<1> SUFFICES ASSUME IInv, NEW p \in Producers, pc[p] \in {"s_lock", "s_push"}
             PROVE  Len(cmd_head) < NUM_MAX
  OBVIOUS
<1>1. Reserved \in Nat \ {0} BY ThreadsAssumption, AtNat DEF Reserved
<1>2. Unreturned \in Nat BY ThreadsAssumption, AtNat DEF Unreturned
<1>3. Len(cmd_head) \in Nat BY LenProperties DEF IInv, TypeOK
<1> QED
  BY <1>1, <1>2, <1>3, SizeAssumption DEF IInv, TypeOK, SlotsConserved

LEMMA IInvInit == Init => IInv
<1> SUFFICES ASSUME Init PROVE IInv OBVIOUS
<1>1. TypeOK
  BY SizeAssumption, EmptySeq DEF Init, TypeOK, StoreLabels, GetLabels, Threads
<1>2. OneThreadAtList
  BY ThreadsAssumption DEF Init, OneThreadAtList, Threads
<1>3. \A S \in SUBSET Threads : \A L : "out" \notin L => At(S, L) = 0
  <2> SUFFICES ASSUME NEW S \in SUBSET Threads, NEW L, "out" \notin L
               PROVE  At(S, L) = 0
    OBVIOUS
  <2>1. {t \in S : pc[t] \in L} = {} BY DEF Init
  <2> QED BY <2>1, FS_EmptySet DEF At
<1>4. Reserved = 0 /\ Unannounced = 0 /\ Claimed = 0 /\ Unreturned = 0
  BY <1>3 DEF Threads, Reserved, Unannounced, Claimed, Unreturned
<1>5. SlotsConserved /\ CommandsAnnounced
  BY <1>4, SizeAssumption DEF Init, SlotsConserved, CommandsAnnounced
<1> QED BY <1>1, <1>2, <1>5 DEF IInv

\* What a step of one thread does to the four counts; the equations are
\* then preserved because a semaphore or the list changes to match.
LEMMA StepCounts ==
  ASSUME IInv, NEW t \in Threads, NEW from, NEW to, Goto(t, from, to)
  PROVE  \A S \in {Producers, Consumers} : \A L :
           /\ At(S, L) \in Nat /\ At(S, L)' \in Nat
           /\ t \in S /\ from \notin L /\ to \in L => At(S, L)' = At(S, L) + 1
           /\ t \in S /\ from \in L /\ to \notin L => At(S, L) = At(S, L)' + 1
           /\ t \notin S \/ (from \in L <=> to \in L) => At(S, L)' = At(S, L)
<1> SUFFICES ASSUME NEW S \in {Producers, Consumers}, NEW L
             PROVE  /\ At(S, L) \in Nat /\ At(S, L)' \in Nat
                    /\ t \in S /\ from \notin L /\ to \in L
                         => At(S, L)' = At(S, L) + 1
                    /\ t \in S /\ from \in L /\ to \notin L
                         => At(S, L) = At(S, L)' + 1
                    /\ t \notin S \/ (from \in L <=> to \in L)
                         => At(S, L)' = At(S, L)
  OBVIOUS
<1>1. S \in SUBSET Threads /\ IsFiniteSet(S)
  BY ThreadsAssumption DEF Threads
<1>2. At(S, L) \in Nat BY <1>1, AtNat
<1>3. At(S, L)' \in Nat BY <1>1, CountNat DEF At
<1>4. /\ t \in S /\ from \notin L /\ to \in L => At(S, L)' = At(S, L) + 1
      /\ t \in S /\ from \in L /\ to \notin L => At(S, L) = At(S, L)' + 1
      /\ t \notin S \/ (from \in L <=> to \in L) => At(S, L)' = At(S, L)
  BY <1>1, GotoCounts DEF IInv
<1> QED BY <1>2, <1>3, <1>4

\* Every step of store_cmd_data preserves the inductive invariant.
LEMMA StoreStep ==
  ASSUME IInv, NEW p \in Producers,
         Storing(p) \/ \E d \in Data : StoreCall(p, d)
  PROVE  IInv'
<1>a. p \in Threads /\ p \notin Consumers
  BY ThreadsAssumption DEF Threads
<1>b. Len(cmd_head) \in Nat /\ g_sem_full \in Nat /\ g_sem_empty \in Nat
  BY LenProperties DEF IInv, TypeOK
<1>c. /\ Reserved \in Nat /\ Unannounced \in Nat
      /\ Claimed \in Nat /\ Unreturned \in Nat
  BY ThreadsAssumption, AtNat DEF Reserved, Unannounced, Claimed, Unreturned
<1>1. ASSUME NEW d \in Data, StoreCall(p, d) PROVE IInv'
  <2>1. Goto(p, "out", "s_wait") BY <1>1 DEF StoreCall
  <2>2. TypeOK' BY <1>a, <1>1 DEF StoreCall, Goto, IInv, TypeOK, StoreLabels
  <2>3. OneThreadAtList'
    BY <1>a, <1>1, ThreadsAssumption
       DEF StoreCall, Goto, IInv, TypeOK, OneThreadAtList, Threads
  <2>4. /\ Reserved' = Reserved
        /\ Unannounced' = Unannounced
        /\ Claimed' = Claimed
        /\ Unreturned' = Unreturned
    BY <1>a, <2>1, StepCounts DEF Reserved, Unannounced, Claimed, Unreturned
  <2>5. SlotsConserved' /\ CommandsAnnounced'
    BY <1>b, <1>c, <2>4, <1>1
       DEF StoreCall, IInv, SlotsConserved, CommandsAnnounced
  <2> QED BY <2>2, <2>3, <2>5 DEF IInv
<1>2. CASE StoreWait(p)
  <2>1. Goto(p, "s_wait", "s_lock") BY <1>2 DEF StoreWait
  <2>2. TypeOK' BY <1>a, <1>2 DEF StoreWait, Goto, IInv, TypeOK, StoreLabels
  <2>3. OneThreadAtList'
    BY <1>a, <1>2, ThreadsAssumption
       DEF StoreWait, Goto, IInv, TypeOK, OneThreadAtList, Threads
  <2>4. /\ Reserved' = Reserved + 1
        /\ Unannounced' = Unannounced
        /\ Claimed' = Claimed
        /\ Unreturned' = Unreturned
    BY <1>a, <2>1, StepCounts DEF Reserved, Unannounced, Claimed, Unreturned
  <2>5. SlotsConserved' /\ CommandsAnnounced'
    BY <1>b, <1>c, <2>4, <1>2
       DEF StoreWait, IInv, SlotsConserved, CommandsAnnounced
  <2> QED BY <2>2, <2>3, <2>5 DEF IInv
<1>3. CASE StoreLock(p)
  <2>1. Goto(p, "s_lock", "s_push") BY <1>3 DEF StoreLock
  <2>2. TypeOK'
    BY <1>a, <1>3
       DEF StoreLock, Lock, Goto, IInv, TypeOK, StoreLabels
  <2>3. OneThreadAtList'
    BY <1>a, <1>3, ThreadsAssumption
       DEF StoreLock, Lock, Goto, IInv, TypeOK, OneThreadAtList, Threads
  <2>4. /\ Reserved' = Reserved
        /\ Unannounced' = Unannounced
        /\ Claimed' = Claimed
        /\ Unreturned' = Unreturned
    BY <1>a, <2>1, StepCounts DEF Reserved, Unannounced, Claimed, Unreturned
  <2>5. SlotsConserved' /\ CommandsAnnounced'
    BY <1>b, <1>c, <2>4, <1>3
       DEF StoreLock, IInv, SlotsConserved, CommandsAnnounced
  <2> QED BY <2>2, <2>3, <2>5 DEF IInv
<1>4. CASE StorePush(p)
  <2>1. Goto(p, "s_push", "s_unlock") BY <1>4 DEF StorePush
  <2>2. p_cmd[p] \in Data BY <1>4 DEF StorePush, Goto, IInv, TypeOK
  <2>3. /\ cmd_head' \in Seq(Data)
        /\ Len(cmd_head') = Len(cmd_head) + 1
    BY <2>2, <1>4, AppendProperties DEF StorePush, IInv, TypeOK
  <2>4. TypeOK'
    BY <2>3, <1>a, <1>4
       DEF StorePush, Goto, IInv, TypeOK, StoreLabels
  <2>5. OneThreadAtList'
    BY <1>a, <1>4, ThreadsAssumption
       DEF StorePush, Goto, IInv, TypeOK, OneThreadAtList, Threads
  <2>6. /\ Reserved' = Reserved - 1
        /\ Reserved' \in Nat
        /\ Unannounced' = Unannounced + 1
        /\ Claimed' = Claimed
        /\ Unreturned' = Unreturned
    BY <1>a, <2>1, StepCounts DEF Reserved, Unannounced, Claimed, Unreturned
  <2>7. g_sem_full' = g_sem_full /\ g_sem_empty' = g_sem_empty
    BY <1>4 DEF StorePush
  <2>8. SlotsConserved' /\ CommandsAnnounced'
    BY <1>b, <1>c, <2>3, <2>6, <2>7 DEF IInv, SlotsConserved, CommandsAnnounced
  <2> QED BY <2>4, <2>5, <2>8 DEF IInv
<1>5. CASE StoreUnlock(p)
  <2>1. Goto(p, "s_unlock", "s_post") BY <1>5 DEF StoreUnlock
  <2>2. TypeOK'
    BY <1>a, <1>5
       DEF StoreUnlock, Unlock, Goto, IInv, TypeOK, StoreLabels
  <2>3. OneThreadAtList'
    BY <1>a, <1>5, ThreadsAssumption
       DEF StoreUnlock, Unlock, Goto, IInv, TypeOK, OneThreadAtList, Threads
  <2>4. /\ Reserved' = Reserved
        /\ Unannounced' = Unannounced
        /\ Claimed' = Claimed
        /\ Unreturned' = Unreturned
    BY <1>a, <2>1, StepCounts DEF Reserved, Unannounced, Claimed, Unreturned
  <2>5. SlotsConserved' /\ CommandsAnnounced'
    BY <1>b, <1>c, <2>4, <1>5
       DEF StoreUnlock, IInv, SlotsConserved, CommandsAnnounced
  <2> QED BY <2>2, <2>3, <2>5 DEF IInv
<1>6. CASE StorePost(p)
  <2>1. Goto(p, "s_post", "out") BY <1>6 DEF StorePost
  <2>2. TypeOK' BY <1>a, <1>6 DEF StorePost, Goto, IInv, TypeOK, StoreLabels
  <2>3. OneThreadAtList'
    BY <1>a, <1>6, ThreadsAssumption
       DEF StorePost, Goto, IInv, TypeOK, OneThreadAtList, Threads
  <2>4. /\ Reserved' = Reserved
        /\ Unannounced' = Unannounced - 1
        /\ Unannounced' \in Nat
        /\ Claimed' = Claimed
        /\ Unreturned' = Unreturned
    BY <1>a, <2>1, StepCounts DEF Reserved, Unannounced, Claimed, Unreturned
  <2>5. SlotsConserved' /\ CommandsAnnounced'
    BY <1>b, <1>c, <2>4, <1>6
       DEF StorePost, IInv, SlotsConserved, CommandsAnnounced
  <2> QED BY <2>2, <2>3, <2>5 DEF IInv
<1> QED BY <1>1, <1>2, <1>3, <1>4, <1>5, <1>6 DEF Storing

\* Every step of get_value preserves the inductive invariant.
LEMMA GetStep ==
  ASSUME IInv, NEW c \in Consumers, Getting(c)
  PROVE  IInv'
<1>a. c \in Threads /\ c \notin Producers
  BY ThreadsAssumption DEF Threads
<1>b. Len(cmd_head) \in Nat /\ g_sem_full \in Nat /\ g_sem_empty \in Nat
  BY LenProperties DEF IInv, TypeOK
<1>c. /\ Reserved \in Nat /\ Unannounced \in Nat
      /\ Claimed \in Nat /\ Unreturned \in Nat
  BY ThreadsAssumption, AtNat DEF Reserved, Unannounced, Claimed, Unreturned
<1>1. CASE GetCall(c)
  <2>1. Goto(c, "out", "g_wait") BY <1>1 DEF GetCall
  <2>2. TypeOK' BY <1>a, <1>1 DEF GetCall, Goto, IInv, TypeOK, GetLabels
  <2>3. OneThreadAtList'
    BY <1>a, <1>1, ThreadsAssumption
       DEF GetCall, Goto, IInv, TypeOK, OneThreadAtList, Threads
  <2>4. /\ Reserved' = Reserved
        /\ Unannounced' = Unannounced
        /\ Claimed' = Claimed
        /\ Unreturned' = Unreturned
    BY <1>a, <2>1, StepCounts DEF Reserved, Unannounced, Claimed, Unreturned
  <2>5. SlotsConserved' /\ CommandsAnnounced'
    BY <1>b, <1>c, <2>4, <1>1
       DEF GetCall, IInv, SlotsConserved, CommandsAnnounced
  <2> QED BY <2>2, <2>3, <2>5 DEF IInv
<1>2. CASE GetWait(c)
  <2>1. Goto(c, "g_wait", "g_lock") BY <1>2 DEF GetWait
  <2>2. TypeOK' BY <1>a, <1>2 DEF GetWait, Goto, IInv, TypeOK, GetLabels
  <2>3. OneThreadAtList'
    BY <1>a, <1>2, ThreadsAssumption
       DEF GetWait, Goto, IInv, TypeOK, OneThreadAtList, Threads
  <2>4. /\ Reserved' = Reserved
        /\ Unannounced' = Unannounced
        /\ Claimed' = Claimed + 1
        /\ Unreturned' = Unreturned
    BY <1>a, <2>1, StepCounts DEF Reserved, Unannounced, Claimed, Unreturned
  <2>5. SlotsConserved' /\ CommandsAnnounced'
    BY <1>b, <1>c, <2>4, <1>2
       DEF GetWait, IInv, SlotsConserved, CommandsAnnounced
  <2> QED BY <2>2, <2>3, <2>5 DEF IInv
<1>3. CASE GetLock(c)
  <2>1. Goto(c, "g_lock", "g_pop") BY <1>3 DEF GetLock
  <2>2. TypeOK' BY <1>a, <1>3 DEF GetLock, Lock, Goto, IInv, TypeOK, GetLabels
  <2>3. OneThreadAtList'
    BY <1>a, <1>3, ThreadsAssumption
       DEF GetLock, Lock, Goto, IInv, TypeOK, OneThreadAtList, Threads
  <2>4. /\ Reserved' = Reserved
        /\ Unannounced' = Unannounced
        /\ Claimed' = Claimed
        /\ Unreturned' = Unreturned
    BY <1>a, <2>1, StepCounts DEF Reserved, Unannounced, Claimed, Unreturned
  <2>5. SlotsConserved' /\ CommandsAnnounced'
    BY <1>b, <1>c, <2>4, <1>3
       DEF GetLock, IInv, SlotsConserved, CommandsAnnounced
  <2> QED BY <2>2, <2>3, <2>5 DEF IInv
<1>4. CASE GetPop(c)
  <2>1. Goto(c, "g_pop", "g_unlock") BY <1>4 DEF GetPop
  <2>2. cmd_head # <<>> BY <1>4, IInvPop DEF GetPop, Goto, PopFindsCommand
  <2>3. /\ Head(cmd_head) \in Data /\ cmd_head' \in Seq(Data)
        /\ Len(cmd_head') = Len(cmd_head) - 1
    BY <2>2, <1>4, HeadTailProperties DEF GetPop, IInv, TypeOK
  <2>4. TypeOK' BY <2>3, <1>a, <1>4 DEF GetPop, Goto, IInv, TypeOK, GetLabels
  <2>5. OneThreadAtList'
    BY <1>a, <1>4, ThreadsAssumption
       DEF GetPop, Goto, IInv, TypeOK, OneThreadAtList, Threads
  <2>6. /\ Reserved' = Reserved
        /\ Unannounced' = Unannounced
        /\ Claimed' = Claimed - 1
        /\ Claimed' \in Nat
        /\ Unreturned' = Unreturned + 1
    BY <1>a, <2>1, StepCounts DEF Reserved, Unannounced, Claimed, Unreturned
  <2>7. g_sem_full' = g_sem_full /\ g_sem_empty' = g_sem_empty
    BY <1>4 DEF GetPop
  <2>8. SlotsConserved' /\ CommandsAnnounced'
    BY <1>b, <1>c, <2>3, <2>6, <2>7 DEF IInv, SlotsConserved, CommandsAnnounced
  <2> QED BY <2>4, <2>5, <2>8 DEF IInv
<1>5. CASE GetUnlock(c)
  <2>1. Goto(c, "g_unlock", "g_post") BY <1>5 DEF GetUnlock
  <2>2. TypeOK'
    BY <1>a, <1>5
       DEF GetUnlock, Unlock, Goto, IInv, TypeOK, GetLabels
  <2>3. OneThreadAtList'
    BY <1>a, <1>5, ThreadsAssumption
       DEF GetUnlock, Unlock, Goto, IInv, TypeOK, OneThreadAtList, Threads
  <2>4. /\ Reserved' = Reserved
        /\ Unannounced' = Unannounced
        /\ Claimed' = Claimed
        /\ Unreturned' = Unreturned
    BY <1>a, <2>1, StepCounts DEF Reserved, Unannounced, Claimed, Unreturned
  <2>5. SlotsConserved' /\ CommandsAnnounced'
    BY <1>b, <1>c, <2>4, <1>5
       DEF GetUnlock, IInv, SlotsConserved, CommandsAnnounced
  <2> QED BY <2>2, <2>3, <2>5 DEF IInv
<1>6. CASE GetPost(c)
  <2>1. Goto(c, "g_post", "out") BY <1>6 DEF GetPost
  <2>2. TypeOK' BY <1>a, <1>6 DEF GetPost, Goto, IInv, TypeOK, GetLabels
  <2>3. OneThreadAtList'
    BY <1>a, <1>6, ThreadsAssumption
       DEF GetPost, Goto, IInv, TypeOK, OneThreadAtList, Threads
  <2>4. /\ Reserved' = Reserved
        /\ Unannounced' = Unannounced
        /\ Claimed' = Claimed
        /\ Unreturned' = Unreturned - 1
        /\ Unreturned' \in Nat
    BY <1>a, <2>1, StepCounts DEF Reserved, Unannounced, Claimed, Unreturned
  <2>5. SlotsConserved' /\ CommandsAnnounced'
    BY <1>b, <1>c, <2>4, <1>6
       DEF GetPost, IInv, SlotsConserved, CommandsAnnounced
  <2> QED BY <2>2, <2>3, <2>5 DEF IInv
<1> QED BY <1>1, <1>2, <1>3, <1>4, <1>5, <1>6 DEF Getting

-----------------------------------------------------------------------------
(* The theorems                                                            *)

LEMMA IInvStep == IInv /\ [Next]_vars => IInv'
<1> SUFFICES ASSUME IInv, [Next]_vars PROVE IInv' OBVIOUS
<1>1. CASE \E p \in Producers : Storing(p) \/ \E d \in Data : StoreCall(p, d)
  BY <1>1, StoreStep
<1>2. CASE \E c \in Consumers : Getting(c)
  BY <1>2, GetStep
<1>3. CASE UNCHANGED vars
  <2>1. TypeOK' /\ OneThreadAtList'
    BY <1>3 DEF vars, IInv, TypeOK, OneThreadAtList
  <2>2. UNCHANGED <<Reserved, Unannounced, Claimed, Unreturned>>
    BY <1>3 DEF vars, Reserved, Unannounced, Claimed, Unreturned, At
  <2>3. SlotsConserved' /\ CommandsAnnounced'
    BY <1>3, <2>2 DEF vars, IInv, SlotsConserved, CommandsAnnounced
  <2> QED BY <2>1, <2>3 DEF IInv
<1> QED BY <1>1, <1>2, <1>3 DEF Next

\* The inductive invariant holds in every reachable state.
THEOREM Invariance == Spec => []IInv
<1>1. Init => IInv BY IInvInit
<1>2. IInv /\ [Next]_vars => IInv' BY IInvStep
<1> QED BY <1>1, <1>2, PTL DEF Spec

\* No interleaving of store_cmd_data and get_value takes a variable out of
\* its type; in particular no semaphore count becomes negative.
THEOREM TypeCorrectness == Spec => []TypeOK
<1>1. IInv => TypeOK BY DEF IInv
<1> QED BY <1>1, Invariance, PTL

\* pthread_mutex_lock/unlock around push_back and pop_front keeps two
\* threads away from the list at once.
THEOREM MutualExclusion == Spec => []OneThreadAtList
<1>1. IInv => OneThreadAtList BY DEF IInv
<1> QED BY <1>1, Invariance, PTL

\* Slots: sem_wait(g_sem_empty) before the push and sem_post(g_sem_empty)
\* after the pop conserve the NUM_MAX slots.
THEOREM SlotAccounting == Spec => []SlotsConserved
<1>1. IInv => SlotsConserved BY DEF IInv
<1> QED BY <1>1, Invariance, PTL

\* Commands: g_sem_full never announces a command twice or forgets one.
THEOREM CommandAccounting == Spec => []CommandsAnnounced
<1>1. IInv => CommandsAnnounced BY DEF IInv
<1> QED BY <1>1, Invariance, PTL

\* get_value never takes front() of an empty list.
THEOREM NoEmptyPop == Spec => []PopFindsCommand
<1>1. IInv => PopFindsCommand BY IInvPop
<1> QED BY <1>1, Invariance, PTL

\* Both together: every access of the std::list is alone and finds what it
\* needs (store_cmd_data, get_value).
THEOREM SafeList == Spec => []ListSafe
<1>1. OneThreadAtList /\ PopFindsCommand => ListSafe BY DEF ListSafe
<1> QED BY <1>1, MutualExclusion, NoEmptyPop, PTL

\* Slots and commands are accounted for in every interleaving of the calls.
THEOREM Accounting == Spec => []CountsAgree
<1>1. SlotsConserved /\ CommandsAnnounced => CountsAgree BY DEF CountsAgree
<1> QED BY <1>1, SlotAccounting, CommandAccounting, PTL

-----------------------------------------------------------------------------
(* Refinement                                                              *)

\* The initial states are initial states of the abstract queue.
LEMMA RefinementInit == Init => Queue!Init
<1> SUFFICES ASSUME Init PROVE Queue!Init OBVIOUS
<1>1. \A p \in Producers : pc[p] = "out" BY DEF Init, Threads
<1>2. \A c \in Consumers : pc[c] = "out" BY DEF Init, Threads
<1> QED BY <1>1, <1>2 DEF Init, Queue!Init

\* A call offers, push_back puts, and every other step of store_cmd_data is
\* invisible from outside.
LEMMA StoreRefines ==
  ASSUME IInv, NEW p \in Producers,
         Storing(p) \/ \E d \in Data : StoreCall(p, d)
  PROVE  [Queue!Next]_(Queue!vars)
<1>a. p \in Threads /\ p \notin Consumers
  BY ThreadsAssumption DEF Threads
<1>b. \A c \in Consumers : c \in Threads /\ c # p BY <1>a DEF Threads
<1>c. \A q \in Producers : q \in Threads BY DEF Threads
<1>1. ASSUME NEW d \in Data, StoreCall(p, d) PROVE Queue!Offer(p, d)
  BY <1>1, <1>a, <1>b, <1>c
     DEF StoreCall, Goto, Queue!Offer, IInv, TypeOK
<1>2. CASE StorePush(p)
  <2>1. Len(cmd_head) < NUM_MAX /\ p_cmd[p] \in Data
    BY <1>2, IInvPush DEF StorePush, Goto, IInv, TypeOK
  <2>2. Queue!Put(p)
    BY <1>2, <1>a, <1>b, <1>c, <2>1, DataAssumption
       DEF StorePush, Goto, Queue!Put, IInv, TypeOK
  <2> QED BY <2>2 DEF Queue!Next
<1>3. CASE StoreWait(p) \/ StoreLock(p) \/ StoreUnlock(p) \/ StorePost(p)
  BY <1>3, <1>a, <1>b, <1>c
     DEF StoreWait, StoreLock, StoreUnlock, StorePost, Goto, Queue!vars,
         IInv, TypeOK
<1> QED BY <1>1, <1>2, <1>3 DEF Storing, Queue!Next

\* A call asks, pop_front takes, and every other step of get_value is
\* invisible from outside.
LEMMA GetRefines ==
  ASSUME IInv, NEW c \in Consumers, Getting(c)
  PROVE  [Queue!Next]_(Queue!vars)
<1>a. c \in Threads /\ c \notin Producers
  BY ThreadsAssumption DEF Threads
<1>b. \A p \in Producers : p \in Threads /\ p # c BY <1>a DEF Threads
<1>c. \A q \in Consumers : q \in Threads BY DEF Threads
<1>1. CASE GetCall(c)
  <2>1. Queue!Ask(c)
    BY <1>1, <1>a, <1>b, <1>c DEF GetCall, Goto, Queue!Ask, IInv, TypeOK
  <2> QED BY <2>1 DEF Queue!Next
<1>2. CASE GetPop(c)
  <2>1. cmd_head # <<>>
    BY <1>2, IInvPop DEF GetPop, Goto, PopFindsCommand
  <2>2. Queue!Take(c)
    BY <1>2, <1>a, <1>b, <1>c, <2>1
       DEF GetPop, Goto, Queue!Take, IInv, TypeOK
  <2> QED BY <2>2 DEF Queue!Next
<1>3. CASE GetWait(c) \/ GetLock(c) \/ GetUnlock(c) \/ GetPost(c)
  BY <1>3, <1>a, <1>b, <1>c
     DEF GetWait, GetLock, GetUnlock, GetPost, Goto, Queue!vars,
         IInv, TypeOK
<1> QED BY <1>1, <1>2, <1>3 DEF Getting

\* The class implements the bounded first-in first-out queue.
THEOREM Refinement == Spec => ImplementsQueue
<1>1. Init => Queue!Init BY RefinementInit
<1>2. IInv /\ [Next]_vars => [Queue!Next]_(Queue!vars)
  <2> SUFFICES ASSUME IInv, [Next]_vars PROVE [Queue!Next]_(Queue!vars)
    OBVIOUS
  <2>1. CASE UNCHANGED vars BY <2>1 DEF vars, Queue!vars
  <2>2. CASE Next BY <2>2, StoreRefines, GetRefines DEF Next
  <2> QED BY <2>1, <2>2
<1> QED BY <1>1, <1>2, Invariance, PTL DEF Spec, ImplementsQueue, Queue!Spec

-----------------------------------------------------------------------------
(* The thread pool                                                         *)

\* The labels at which a thread owns queue_lock.
LockHeld ==
  /\ \A w \in Workers :
       wpc[w] \in {"test", "wait", "quit", "run", "unlock"} => queue_lock = w
  /\ \A a \in Adders : apc[a] \in {"push", "unlock"} => queue_lock = a

WaitsEmpty == \A w \in Workers : wpc[w] = "wait" => event_list = <<>>

AllExited == \A w \in Workers : wpc[w] = "exited"

DestroyedOnce ==
  /\ ~shutdown => frees = 0
  /\ opc = "set" => ~shutdown
  /\ opc \in {"broadcast", "join", "free"} => shutdown /\ frees = 0
  /\ opc = "free" => AllExited
  /\ frees = 0 \/ (frees = 1 /\ AllExited)

PoolIInv == PoolTypeOK /\ LockHeld /\ WaitsEmpty /\ NoLostWakeup /\ DestroyedOnce

-----------------------------------------------------------------------------
(* The initial states and the steps of the three kinds of threads          *)

LEMMA PoolInitIInv == PoolInit => PoolIInv
  <1> SUFFICES ASSUME PoolInit PROVE PoolIInv
    OBVIOUS
  <1>1. PoolTypeOK
    <2>1. <<>> \in Seq(Tasks) /\ 0 \in Nat /\ 0 \in 0..MaxDestroys
      BY PoolAssumption
    <2> QED BY <2>1 DEF PoolInit, PoolTypeOK, WorkerLabels, AdderLabels, OwnerLabels
  <1>2. LockHeld /\ WaitsEmpty /\ NoLostWakeup /\ DestroyedOnce
    BY DEF PoolInit, LockHeld, WaitsEmpty, NoLostWakeup, DestroyedOnce, AllExited
  <1> QED BY <1>1, <1>2 DEF PoolIInv

\* Type correctness needs no other invariant, except that an adder at its
\* push has a task.
LEMMA PoolTypeStep == PoolTypeOK /\ [PoolNext]_poolVars => PoolTypeOK'
  <1> SUFFICES ASSUME PoolTypeOK, [PoolNext]_poolVars PROVE PoolTypeOK'
    OBVIOUS
  <1> USE PoolAssumption DEF PoolTypeOK, WorkerLabels, AdderLabels, OwnerLabels,
          workerVars, adderVars, ownerVars
  <1>1. ASSUME NEW w \in Workers, WorkerLock(w) PROVE PoolTypeOK'
    BY <1>1 DEF WorkerLock, WorkerGoes
  <1>2. ASSUME NEW w \in Workers, StartTask(w) PROVE PoolTypeOK'
    <2>1. Head(event_list) \in Tasks /\ Tail(event_list) \in Seq(Tasks)
      BY <1>2 DEF StartTask
    <2> QED BY <1>2, <2>1 DEF StartTask, WorkerGoes
  <1>3. ASSUME NEW w \in Workers,
               FindNothing(w) \/ SeeShutdown(w) \/ FinishTask(w)
        PROVE  PoolTypeOK'
    BY <1>3 DEF FindNothing, SeeShutdown, FinishTask, WorkerGoes
  <1>4. ASSUME NEW w \in Workers,
               CondWait(w) \/ WorkerUnlock(w) \/ SpuriousWakeup(w)
        PROVE  PoolTypeOK'
    BY <1>4 DEF CondWait, WorkerUnlock, SpuriousWakeup, WorkerGoes
  <1>5. ASSUME NEW a \in Adders, NEW t \in Tasks, AddCall(a, t) PROVE PoolTypeOK'
    BY <1>5 DEF AddCall, AdderGoes
  <1>6. ASSUME NEW a \in Adders, AddLock(a) \/ AddUnlock(a) PROVE PoolTypeOK'
    BY <1>6 DEF AddLock, AddUnlock, AdderGoes
  <1>7. ASSUME NEW a \in Adders, AddPush(a) PROVE PoolTypeOK'
    <2>1. arg[a] \in Tasks
      BY <1>7 DEF AddPush, AdderGoes
    <2>2. event_list' \in Seq(Tasks)
      BY <1>7, <2>1 DEF AddPush
    <2> QED BY <1>7, <2>2 DEF AddPush, AdderGoes
  <1>8. ASSUME NEW a \in Adders, AddSignal(a) PROVE PoolTypeOK'
    BY <1>8 DEF AddSignal, AdderGoes, Asleep
  <1>9. ASSUME DestroyCall PROVE PoolTypeOK'
    BY <1>9 DEF DestroyCall, OwnerGoes
  <1>10. ASSUME OwnerStep PROVE PoolTypeOK'
    <2>1. CASE DestroyTest \/ DestroySet \/ DestroyJoin
      BY <2>1 DEF DestroyTest, DestroySet, DestroyJoin, OwnerGoes
    <2>2. CASE DestroyBroadcast
      BY <2>2 DEF DestroyBroadcast, OwnerGoes
    <2>3. CASE DestroyFree
      <3>1. frees' \in Nat
        BY <2>3 DEF DestroyFree
      <3> QED BY <2>3, <3>1 DEF DestroyFree, OwnerGoes
    <2> QED BY <1>10, <2>1, <2>2, <2>3 DEF OwnerStep
  <1>11. ASSUME UNCHANGED poolVars PROVE PoolTypeOK'
    BY <1>11 DEF poolVars
  <1> QED BY <1>1, <1>2, <1>3, <1>4, <1>5, <1>6, <1>7, <1>8, <1>9, <1>10, <1>11
          DEF PoolNext, WorkerStep, AdderStep

LEMMA WorkerInv ==
  ASSUME PoolIInv, NEW w \in Workers, WorkerStep(w) \/ SpuriousWakeup(w)
  PROVE  LockHeld' /\ WaitsEmpty' /\ NoLostWakeup' /\ DestroyedOnce'
  <1> USE PoolAssumption DEF PoolIInv, PoolTypeOK, LockHeld, WaitsEmpty,
          NoLostWakeup, DestroyedOnce, AllExited, WorkerGoes, workerVars, adderVars,
          ownerVars
  <1>1. CASE WorkerLock(w)
    BY <1>1 DEF WorkerLock
  <1>2. CASE StartTask(w)
    BY <1>2 DEF StartTask
  <1>3. CASE FindNothing(w)
    BY <1>3 DEF FindNothing
  <1>4. CASE SeeShutdown(w)
    BY <1>4 DEF SeeShutdown
  <1>5. CASE CondWait(w)
    BY <1>5 DEF CondWait
  <1>6. CASE FinishTask(w)
    BY <1>6 DEF FinishTask
  <1>7. CASE WorkerUnlock(w)
    BY <1>7 DEF WorkerUnlock
  <1>8. CASE SpuriousWakeup(w)
    BY <1>8 DEF SpuriousWakeup
  <1> QED BY <1>1, <1>2, <1>3, <1>4, <1>5, <1>6, <1>7, <1>8 DEF WorkerStep

LEMMA AdderInv ==
  ASSUME PoolIInv, NEW a \in Adders, AdderStep(a) \/ \E t \in Tasks : AddCall(a, t)
  PROVE  LockHeld' /\ WaitsEmpty' /\ NoLostWakeup' /\ DestroyedOnce'
  <1> USE PoolAssumption DEF PoolIInv, PoolTypeOK, LockHeld, WaitsEmpty,
          NoLostWakeup, DestroyedOnce, AllExited, AdderGoes, workerVars, adderVars, ownerVars
  <1>1. CASE \E t \in Tasks : AddCall(a, t)
    BY <1>1 DEF AddCall
  <1>2. CASE AddLock(a)
    BY <1>2 DEF AddLock
  <1>3. CASE AddPush(a)
    BY <1>3 DEF AddPush
  <1>4. CASE AddUnlock(a)
    BY <1>4 DEF AddUnlock
  <1>5. CASE AddSignal(a)
    <2>1. CASE Asleep = {} /\ UNCHANGED wpc    \* then not all are asleep
      BY <1>5, <2>1 DEF AddSignal, Asleep
    <2>2. ASSUME NEW w \in Asleep, wpc' = [wpc EXCEPT ![w] = "relock"]
          PROVE  LockHeld' /\ WaitsEmpty' /\ NoLostWakeup' /\ DestroyedOnce'
      BY <1>5, <2>2 DEF AddSignal, Asleep
    <2> QED BY <1>5, <2>1, <2>2 DEF AddSignal
  <1> QED BY <1>1, <1>2, <1>3, <1>4, <1>5 DEF AdderStep

LEMMA OwnerInv ==
  ASSUME PoolIInv, DestroyCall \/ OwnerStep
  PROVE  LockHeld' /\ WaitsEmpty' /\ NoLostWakeup' /\ DestroyedOnce'
  <1> USE PoolAssumption DEF PoolIInv, PoolTypeOK, LockHeld, WaitsEmpty,
          NoLostWakeup, DestroyedOnce, AllExited, OwnerGoes, workerVars, adderVars, ownerVars
  <1>1. CASE DestroyCall
    BY <1>1 DEF DestroyCall
  <1>2. CASE DestroyTest
    BY <1>2 DEF DestroyTest
  <1>3. CASE DestroySet
    BY <1>3 DEF DestroySet
  <1>4. CASE DestroyBroadcast
    BY <1>4 DEF DestroyBroadcast
  <1>5. CASE DestroyJoin
    BY <1>5 DEF DestroyJoin
  <1>6. CASE DestroyFree
    BY <1>6 DEF DestroyFree
  <1> QED BY <1>1, <1>2, <1>3, <1>4, <1>5, <1>6 DEF OwnerStep

LEMMA PoolIInvStep == PoolIInv /\ [PoolNext]_poolVars => PoolIInv'
  <1> SUFFICES ASSUME PoolIInv, [PoolNext]_poolVars PROVE PoolIInv'
    OBVIOUS
  <1>1. PoolTypeOK'
    BY PoolTypeStep DEF PoolIInv
  <1>2. LockHeld' /\ WaitsEmpty' /\ NoLostWakeup' /\ DestroyedOnce'
    <2>1. CASE UNCHANGED poolVars
      BY <2>1 DEF poolVars, workerVars, adderVars, ownerVars, PoolIInv, LockHeld,
                  WaitsEmpty, NoLostWakeup, DestroyedOnce, AllExited
    <2> QED BY <2>1, WorkerInv, AdderInv, OwnerInv DEF PoolNext
  <1> QED BY <1>1, <1>2 DEF PoolIInv

-----------------------------------------------------------------------------
(* The theorems                                                            *)

\* The conjunction on which the results below rest holds in every reachable
\* state: the lock is with whom the code says, a worker about to wait has
\* found the list empty and nobody filled it since, and pool_destroy gets
\* past its test of shutdown once.
THEOREM PoolInductive == PoolSpec => []PoolIInv
  <1> QED BY PoolInitIInv, PoolIInvStep, PTL DEF PoolSpec

\* The variables keep their types, and a caller of pool_event_add has a task
\* from its call to its signal.
THEOREM PoolTypeCorrectness == PoolSpec => []PoolTypeOK
  <1>1. PoolIInv => PoolTypeOK
    BY DEF PoolIInv
  <1> QED BY <1>1, PoolInductive, PTL

\* However many threads the pool has, one task is executed at a time: it runs
\* under queue_lock (thread_run).
THEOREM SerialExecution == PoolSpec => []TasksSerial
  <1>1. PoolIInv => TasksSerial
    BY DEF PoolIInv, LockHeld, TasksSerial
  <1> QED BY <1>1, PoolInductive, PTL

\* pool_event_add may signal after it has unlocked, and only once: a task in
\* the list is never left with all workers asleep and nobody about to signal.
THEOREM WakeupKept == PoolSpec => []NoLostWakeup
  <1>1. PoolIInv => NoLostWakeup
    BY DEF PoolIInv
  <1> QED BY <1>1, PoolInductive, PTL

\* However often pool_destroy is called, the threads, the lock and the
\* condition are freed once at most, after the last worker has ended.
THEOREM SafeDestruction == PoolSpec => []FreedSafely
  <1>1. PoolIInv => FreedSafely
    BY DEF PoolIInv, PoolTypeOK, DestroyedOnce, AllExited, FreedSafely
  <1> QED BY <1>1, PoolInductive, PTL
=============================================================================
