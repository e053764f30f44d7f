--------------------------- MODULE MCEventHandle ---------------------------
(* Instances of EventHandle for TLC: one kind of record per outcome.       *)
EXTENDS EventHandle

GoodConfig == [sendno |-> 1, app_key |-> TRUE, msg_type |-> 1]

Good == [n |-> 6, platform |-> "0", receiver_type |-> "4", warning |-> 1]
Bad  == [n |-> 6, platform |-> "1", receiver_type |-> "4", warning |-> 1]
Short == [n |-> 3, platform |-> "0", receiver_type |-> "4", warning |-> 1]

AllKinds  == {Good, Bad, Short}
CalmKinds == {Good, Bad}
LongKinds == {Bad}
PercentKinds == {Good}
=============================================================================
