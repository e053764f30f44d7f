---------------------------- MODULE PushService ----------------------------
(***************************************************************************)
(* What the whole server promises to the applications that fill its redis  *)
(* list, without threads, queues or connections: records are accepted in   *)
(* the order of the list, every accepted record is pushed and then stored  *)
(* in the table before the next one is pushed, and a crash loses at most   *)
(* Limit accepted records.  EventHandle implements it.                     *)
(***************************************************************************)
EXTENDS Naturals, Sequences

CONSTANTS Records,     \* what an application may put into the list
          Limit,       \* accepted records that are not settled yet
          MaxAttempts  \* attempts to push one record

VARIABLES inbox,       \* records in the list, or just taken from it
          backlog,     \* records accepted and not settled, oldest first
          attempts,    \* attempts made to push the oldest one
          delivered,   \* what reached the push service, in order
          rows         \* what reached the table, in order

vars == <<inbox, backlog, attempts, delivered, rows>>

Init ==
  /\ inbox = <<>> /\ backlog = <<>> /\ attempts = 0
  /\ delivered = <<>> /\ rows = <<>>

Arrive(r) ==
  /\ inbox' = Append(inbox, r)
  /\ UNCHANGED <<backlog, attempts, delivered, rows>>

Without(s, i) == SubSeq(s, 1, i - 1) \o SubSeq(s, i + 1, Len(s))

Vanish(i) ==     \* rejected, or taken by somebody else
  /\ inbox' = Without(inbox, i)
  /\ UNCHANGED <<backlog, attempts, delivered, rows>>

Accept ==
  /\ inbox # <<>>
  /\ Len(backlog) < Limit
  /\ backlog' = Append(backlog, Head(inbox))
  /\ inbox' = Tail(inbox)
  /\ UNCHANGED <<attempts, delivered, rows>>

Attempt ==       \* the request may reach the service and still look failed
  /\ backlog # <<>>
  /\ attempts < MaxAttempts
  /\ attempts' = attempts + 1
  /\ delivered' \in {delivered, Append(delivered, Head(backlog))}
  /\ UNCHANGED <<inbox, backlog, rows>>

Settle ==        \* a failed insert is not repeated
  /\ backlog # <<>>
  /\ backlog' = Tail(backlog)
  /\ attempts' = 0
  /\ rows' \in {rows, Append(rows, Head(backlog))}
  /\ UNCHANGED <<inbox, delivered>>

\* Possibly with a record just taken from the list, or with the row of the
\* oldest accepted one just written.
Crash ==
  /\ backlog' = <<>>
  /\ attempts' = 0
  /\ inbox' \in {inbox, IF inbox = <<>> THEN inbox ELSE Tail(inbox)}
  /\ rows' \in {rows, IF backlog = <<>> THEN rows ELSE Append(rows, Head(backlog))}
  /\ UNCHANGED delivered

Next ==
  \/ \E r \in Records : Arrive(r)
  \/ \E i \in 1..Len(inbox) : Vanish(i)
  \/ Accept \/ Attempt \/ Settle \/ Crash

Spec == Init /\ [][Next]_vars
=============================================================================
