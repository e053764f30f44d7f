-------------------------- MODULE MCPthreadHandle --------------------------
(* Instances of PthreadHandle for TLC.                                     *)
EXTENDS PthreadHandle, TLC

(* The pool as the server uses it: event_run adds func_routine, once, and  *)
(* nothing else is ever added.                                             *)
ServerSpec ==
  /\ PoolFairSpec
  /\ \A a \in Adders : WF_poolVars(\E t \in Tasks : AddCall(a, t))

\* jpush_2.conf:33 describes thread_num by "#0,或者不填为单线程" (0, or left
\* out: a single thread) and sets it to 500.  So with two threads or more,
\* more than one of them gets to serve messages, that is to run func_routine.
SeveralThreadsServe ==
  Cardinality(Workers) > 1
    => <>(Cardinality({w \in Workers : running[w] # NoTask}) > 1)
=============================================================================
