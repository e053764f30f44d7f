--------------------------- MODULE MCRedisSession ---------------------------
(* RedisSession with every call of the tables and every pipeline.           *)
EXTENDS RedisSession

AllNames == DOMAIN Calls

AllPipelines == {"msetex", "sadd_range", "exec", "exec_transaction"}

Decimals == [n \in -1..20 |-> ToString(n)]

\* An empty value, and one that looks like the start of a reply.
SomePayloads == {<<>>, <<"CR", "LF", "$">>}
=============================================================================
