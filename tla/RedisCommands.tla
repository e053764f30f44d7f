--------------------------- MODULE RedisCommands ---------------------------
(***************************************************************************)
(* The calls of redis::base_client (redisclient.h) on one connection, as   *)
(* tables: the verb a call sends, its arguments in their order, the reader *)
(* it takes the reply with and what it makes of the reply.  An argument is *)
(* named for its role.                                                     *)
(***************************************************************************)
EXTENDS Naturals, Sequences, TLC

Call(verb, args, read, give) ==
  [verb |-> verb, args |-> args, read |-> read, give |-> give]

\* Calls that only wait for "+OK".
OkCall(verb, args) == Call(verb, args, "ok", "void")

PlainCalls ==
  "auth" :> OkCall("AUTH", <<"password">>) @@
  "set"  :> OkCall("SET", <<"key", "value">>)

GetCalls ==
  "get"    :> Call("GET", <<"key">>, "bulk", "value") @@
  "getset" :> Call("GETSET", <<"key", "value">>, "bulk", "value")

\* msetnx returns bool without a return statement and expects "+OK" where the
\* server sends an integer.
StringCalls ==
  "setnx"  :> Call("SETNX", <<"key", "value">>, "int", "is1")          @@
  "msetnx" :> OkCall("MSETNX", <<"key", "value">>)                     @@
  "setex"  :> OkCall("SETEX", <<"key", "secs", "value">>)              @@
  "append" :> Call("APPEND", <<"key", "value">>, "int", "size")        @@
  "substr" :> Call("SUBSTR", <<"key", "start", "end">>, "bulk", "value")

CounterCalls ==
  "incr"   :> Call("INCR", <<"key">>, "int", "value")         @@
  "incrby" :> Call("INCRBY", <<"key", "by">>, "int", "value") @@
  "decr"   :> Call("DECR", <<"key">>, "int", "value")         @@
  "decrby" :> Call("DECRBY", <<"key", "by">>, "int", "value") @@
  "exists" :> Call("EXISTS", <<"key">>, "int", "is1")         @@
  "del"    :> Call("DEL", <<"key">>, "int", "not0")

TypeCalls == "type" :> Call("TYPE", <<"key">>, "line", "datatype")

ExpiryCalls ==
  "expire" :> Call("EXPIRE", <<"key", "secs">>, "intok", "void") @@
  "ttl"    :> Call("TTL", <<"key">>, "int", "value")

ListCalls ==
  "rpush"  :> Call("RPUSH", <<"key", "value">>, "int", "value")             @@
  "lpush"  :> Call("LPUSH", <<"key", "value">>, "int", "value")             @@
  "llen"   :> Call("LLEN", <<"key">>, "int", "value")                       @@
  "lrange" :> Call("LRANGE", <<"key", "start", "end">>, "multi", "value")   @@
  "ltrim"  :> OkCall("LTRIM", <<"key", "start", "end">>)                    @@
  "lindex" :> Call("LINDEX", <<"key", "index">>, "bulk", "value")           @@
  "lset"   :> OkCall("LSET", <<"key", "index", "value">>)                   @@
  "lrem"   :> Call("LREM", <<"key", "count", "value">>, "int", "value")     @@
  "lpop"   :> Call("LPOP", <<"key">>, "bulk", "value")                      @@
  "rpop"   :> Call("RPOP", <<"key">>, "bulk", "value")

\* get_list and lrem_exact: a call above and a check of its result.
ListHelpers ==
  "get_list"   :> Call("LRANGE", <<"key", "0", "-1">>, "multi", "value") @@
  "lrem_exact" :> Call("LREM", <<"key", "count", "value">>, "int", "exact")

\* A nil reply is a key_error of the reader, caught: blpop of several keys
\* makes a timeout_error of it, the others their missing value.  brpop of
\* several keys has no instance: its catch block does not compile.
BlockingCalls ==
  "blpop_keys" :> Call("BLPOP", <<"keys", "timeout">>, "multi", "pair")   @@
  "blpop"      :> Call("BLPOP", <<"key", "timeout">>, "multi", "second")  @@
  "brpop"      :> Call("BRPOP", <<"key", "timeout">>, "multi", "second")

SetCalls ==
  "sadd"      :> Call("SADD", <<"key", "value">>, "int", "is1")            @@
  "srem"      :> Call("SREM", <<"key", "value">>, "intok", "void")         @@
  "spop"      :> Call("SPOP", <<"key">>, "bulk", "value")                  @@
  "smove"     :> Call("SMOVE", <<"srckey", "dstkey", "member">>, "intok", "void") @@
  "scard"     :> Call("SCARD", <<"key">>, "int", "value")                  @@
  "sismember" :> Call("SISMEMBER", <<"key", "value">>, "int", "is1")

SetAlgebraCalls ==
  "sinter"      :> Call("SINTER", <<"keys">>, "multi", "set")                @@
  "sinterstore" :> Call("SINTERSTORE", <<"dstkey", "keys">>, "int", "value") @@
  "sunion"      :> Call("SUNION", <<"keys">>, "multi", "set")                @@
  "sunionstore" :> Call("SUNIONSTORE", <<"dstkey", "keys">>, "int", "value") @@
  "sdiff"       :> Call("SDIFF", <<"keys">>, "multi", "set")                 @@
  "sdiffstore"  :> Call("SDIFFSTORE", <<"dstkey", "keys">>, "int", "value")  @@
  "smembers"    :> Call("SMEMBERS", <<"key">>, "multi", "set")               @@
  "srandmember" :> Call("SPOP", <<"key">>, "bulk", "value")

SortedSetCalls ==
  "zadd"     :> Call("ZADD", <<"key", "score", "member">>, "intok", "void")       @@
  "zrem"     :> Call("ZREM", <<"key", "member">>, "intok", "void")                @@
  "zincrby"  :> Call("ZINCRBY", <<"key", "increment", "member">>, "bulk", "double") @@
  "zrank"    :> Call("ZRANK", <<"key", "member">>, "int", "value")                @@
  "zrevrank" :> Call("ZREVRANK", <<"key", "member">>, "int", "value")             @@
  "zrange"   :> Call("ZRANGE", <<"key", "start", "end">>, "multi", "value")

RangeCalls ==
  "zrange_scores"    :> Call("ZRANGE", <<"key", "start", "end", "WITHSCORES">>,
                             "multi", "scores")                                   @@
  "zrevrange"        :> Call("ZREVRANGE", <<"key", "start", "end">>, "multi", "value") @@
  "zrevrange_scores" :> Call("ZREVRANGE", <<"key", "start", "end", "WITHSCORES">>,
                             "multi", "scores")

\* zrangebyscore_base ignores its parameter withscores.
ScoreCalls ==
  "zrangebyscore"        :> Call("ZRANGEBYSCORE", <<"key", "min", "max">>, "multi", "value") @@
  "zrangebyscore_limit"  :> Call("ZRANGEBYSCORE",
                                 <<"key", "min", "max", "LIMIT", "offset", "count">>,
                                 "multi", "value")                                @@
  "zrangebyscore_scores" :> Call("ZRANGEBYSCORE", <<"key", "min", "max">>, "multi", "scores")

RankCalls ==
  "zcount"           :> Call("ZCOUNT", <<"key", "min", "max">>, "int", "value")           @@
  "zremrangebyrank"  :> Call("ZREMRANGEBYRANK", <<"key", "start", "end">>, "int", "value") @@
  "zremrangebyscore" :> Call("ZREMRANGEBYSCORE", <<"key", "min", "max">>, "int", "value") @@
  "zcard"            :> Call("ZCARD", <<"key">>, "int", "value")                          @@
  "zscore"           :> Call("ZSCORE", <<"key", "member">>, "bulk", "double")

StoreArgs(weights, aggregate) ==
  <<"dstkey", "numkeys", "keys">>
    \o (IF weights THEN <<"WEIGHTS", "weights">> ELSE <<>>)
    \o <<"AGGREGATE", aggregate>>

SortedStoreCalls ==
  "zunionstore"   :> Call("ZUNIONSTORE", StoreArgs(FALSE, "SUM"), "int", "value") @@
  "zunionstore_w" :> Call("ZUNIONSTORE", StoreArgs(TRUE, "MIN"), "int", "value")  @@
  "zinterstore"   :> Call("ZINTERSTORE", StoreArgs(FALSE, "MAX"), "int", "value") @@
  "zinterstore_w" :> Call("ZINTERSTORE", StoreArgs(TRUE, "SUM"), "int", "value")

\* The program stores a command with hset (event_handle::store_data_redis).
HashCalls ==
  "hset"    :> Call("HSET", <<"key", "field", "value">>, "int", "is1")     @@
  "hget"    :> Call("HGET", <<"key", "field">>, "bulk", "value")           @@
  "hsetnx"  :> Call("HSETNX", <<"key", "field", "value">>, "int", "is1")   @@
  "hmset"   :> OkCall("HMSET", <<"key", "field", "value">>)                @@
  "hmget"   :> Call("HMGET", <<"key", "field">>, "multi", "value")         @@
  "hincrby" :> Call("HINCRBY", <<"key", "field", "by">>, "int", "value")   @@
  "hexists" :> Call("HEXISTS", <<"key", "field">>, "int", "is1")           @@
  "hdel"    :> Call("HDEL", <<"key", "field">>, "int", "is1")              @@
  "hlen"    :> Call("HLEN", <<"key">>, "int", "value")                     @@
  "hkeys"   :> Call("HKEYS", <<"key">>, "multi", "value")                  @@
  "hvals"   :> Call("HVALS", <<"key">>, "multi", "value")                  @@
  "hgetall" :> Call("HGETALL", <<"key">>, "multi", "pairs")

DatabaseCalls ==
  "select"   :> OkCall("SELECT", <<"dbindex">>)                             @@
  "move"     :> Call("MOVE", <<"key", "dbindex">>, "intok", "void")         @@
  "flushdb"  :> OkCall("FLUSHDB", <<>>)                                     @@
  "flushall" :> OkCall("FLUSHALL", <<>>)                                    @@
  "rename"   :> OkCall("RENAME", <<"key", "newkey">>)                       @@
  "renamenx" :> Call("RENAMENX", <<"key", "newkey">>, "int", "is1")         @@
  "keys"     :> Call("KEYS", <<"pattern">>, "multi", "value")               @@
  "dbsize"   :> Call("DBSIZE", <<>>, "int", "value")                        @@
  "randomkey" :> Call("RANDOMKEY", <<>>, "bulk", "value")

SortCalls ==
  "sort"       :> Call("SORT", <<"key", "ASC">>, "multi", "value")          @@
  "sort_alpha" :> Call("SORT", <<"key", "DESC", "ALPHA">>, "multi", "value") @@
  "sort_by"    :> Call("SORT", <<"key", "BY", "pattern", "LIMIT", "offset",
                                 "count", "GET", "pattern", "ASC">>, "multi", "value")

ServerCalls ==
  "save"     :> OkCall("SAVE", <<>>)                            @@
  "bgsave"   :> Call("BGSAVE", <<>>, "line", "saving")          @@
  "lastsave" :> Call("LASTSAVE", <<>>, "int", "value")          @@
  "shutdown" :> OkCall("SHUTDOWN", <<>>)                        @@
  "info"     :> Call("INFO", <<>>, "bulk", "info")              @@
  "publish"  :> Call("PUBLISH", <<"channel", "message">>, "int", "value")

Calls ==
  PlainCalls @@ GetCalls @@ StringCalls @@ CounterCalls @@ TypeCalls @@
  ExpiryCalls @@ ListCalls @@ ListHelpers @@ BlockingCalls @@ SetCalls @@
  SetAlgebraCalls @@ SortedSetCalls @@ RangeCalls @@ ScoreCalls @@ RankCalls @@
  SortedStoreCalls @@ HashCalls @@ DatabaseCalls @@ SortCalls @@ ServerCalls
=============================================================================
