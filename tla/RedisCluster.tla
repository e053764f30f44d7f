---------------------------- MODULE RedisCluster ----------------------------
(***************************************************************************)
(* redis::base_client with several connections (redisclient.h): keys are   *)
(* hashed to connections, calls on several keys send to every server first *)
(* and read the replies then, and some calls are scripts of other calls.   *)
(* A command or a reply is one message here; RedisSession shows how they   *)
(* travel.                                                                 *)
(***************************************************************************)
EXTENDS RedisServer

CONSTANTS
  Servers,     \* sequence of servers, in the order they are connected to
  HashOf,      \* boost::hash of a key
  DBs,         \* databases of a server
  CallSet,     \* calls made, records with a field f and parameters
  LaterCalls,  \* those made after the first one
  Contents,    \* databases that the servers may hold at first
  Disturbers,  \* what another client does: <<key, value>>
  FirstSocket, \* the number of the first socket
  MaxSocket,   \* bound on the numbers of sockets
  MaxCalls,    \* bound on the number of calls
  MaxLost      \* bound on the number of connections that are lost

\* A call that fails may leave a socket open.
ASSUME ClusterAssumption ==
  /\ Servers \in Seq(STRING \ {"closed"})
  /\ HashOf \in [Keys -> Nat]
  /\ 0 \in DBs /\ DBs \subseteq Int
  /\ LaterCalls \subseteq CallSet
  /\ MaxCalls \in Nat \ {0} /\ MaxLost \in Nat /\ FirstSocket \in Nat \ {0} /\ MaxSocket \in Nat
  /\ MaxSocket - FirstSocket >= Len(Servers) + MaxCalls - 2

\* No server is connected to twice: select(dbindex, con) looks for con by host,
\* port and database, and would note the database at the other one, too.
ASSUME DistinctAssumption == \A i, j \in DOMAIN Servers : Servers[i] = Servers[j] => i = j

ASSUME ContentsAssumption ==
  /\ \A D \in Contents : \A k \in Keys : IsValue(D[k])
  /\ \A d \in Disturbers : d[1] \in Keys /\ IsValue(d[2])

\* What each call is given: lists that are not empty, commands of one key.
IsCall(c) ==
  LET Given(field, S) == field \in DOMAIN c /\ c[field] \in S
      Lists(S) == Seq(S) \ {<<>>}
  IN
  "f" \in DOMAIN c /\
  \/ c.f \in {"mset", "mset_vectors", "msetex"} /\ Given("pairs", Lists(Keys \X STRING))
  \/ /\ c.f \in {"exec", "exec_transaction"} /\ Given("cmds", Lists(Seq(STRING)))
     /\ \A i \in DOMAIN c.cmds : Understood(c.cmds[i]) /\ c.cmds[i][2] \in Keys
  \/ c.f \in {"mget", "del_range", "sinter", "sunion", "sdiff"} /\ Given("keys", Lists(Keys))
  \/ /\ c.f = "single" /\ Given("cmd", Seq(STRING))
     /\ Understood(c.cmd) /\ c.cmd[2] \in Keys
     /\ Given("read", {"ok", "line", "int", "intok", "bulk", "multi"})
  \/ c.f \in {"rename", "renamenx"} /\ Given("old", Keys) /\ Given("new", Keys)
  \/ c.f = "sadd_range" /\ Given("key", Keys) /\ Given("values", Seq(STRING))
  \/ c.f = "smove" /\ Given("src", Keys) /\ Given("dst", Keys) /\ Given("member", STRING)
  \/ c.f \in {"sinterstore", "sunionstore", "sdiffstore"}
       /\ Given("keys", Lists(Keys)) /\ Given("dst", Keys)
  \/ c.f \in {"keys", "dbsize", "randomkey", "flushdb", "save", "bgsave", "auth", "flushall"}
       /\ Given("con", Nat)
  \/ c.f = "select" /\ Given("con", Nat) /\ Given("db", Int)
  \/ c.f \in {"lastsave", "shutdown"}
  \/ c.f \in {"connect", "close"} /\ Given("db", Int)
  \/ c.f = "open" /\ Given("db", Int) /\ Given("socket", Int)

ASSUME CallAssumption == \A c \in CallSet : IsCall(c)

VARIABLES
  connections,  \* connections_: server, socket and dbindex of each
  pc,           \* "idle", "connect", "send", "recv", "close"
  call,         \* the call that runs, or ran last
  got,          \* replies of its finished rounds
  round,        \* the round it is in: what to send and what to read
  at,           \* next element of round.sends or round.reads
  replies,      \* what this round has read
  closing,      \* arguments of the pending invocations of close
  outcome,      \* how the last call ended
  peer,         \* open sockets, with their servers
  reqs, reps,   \* requests and replies under way, per socket
  lost,         \* sockets whose connection is lost
  db, multi,    \* the server's side: selected database, queue of MULTI
  store,        \* the databases of every server
  before,       \* history: what the call found
  calls,        \* history: number of calls made
  disturbed,    \* history: another client was active during the call
  slipped,      \* history: a call ended with replies unread
  failed        \* history: sockets of connections that init gave up

clientVars == <<connections, pc, call, got, round, at, replies, closing, outcome>>
wireVars   == <<reqs, reps, lost>>
serverVars == <<peer, db, multi, store>>
history    == <<before, calls, disturbed, slipped, failed>>
vars       == <<clientVars, wireVars, serverVars, history>>

-----------------------------------------------------------------------------
(* Which socket a key belongs to.                                          *)

NoSocket == -1

Sock(key) ==
  IF Len(connections) = 1 THEN connections[1].socket
  ELSE connections[(HashOf[key] % Len(connections)) + 1].socket

SockAll(keys) ==
  IF \A k \in ToSet(keys) : Sock(k) = Sock(keys[1]) THEN Sock(keys[1]) ELSE NoSocket

\* The numbers of a set in their order, and the elements of a sequence at
\* some of its places.
InOrder(S) ==
  CHOOSE q \in [1..Cardinality(S) -> S] : \A i, j \in DOMAIN q : i < j => q[i] < q[j]

Sub(seq, S) == LET places == InOrder(S) IN [j \in DOMAIN places |-> seq[places[j]]]

\* The keys of a std::map from sockets, in its order.
SocketsOf(keys) == InOrder({Sock(k) : k \in ToSet(keys)})

At(socket, keys) == Sub(keys, {i \in DOMAIN keys : Sock(keys[i]) = socket})

Sockets == [i \in DOMAIN connections |-> connections[i].socket]

\* The database the client works on, as one.
View ==
  [k \in Keys |->
     LET s == Sock(k) IN store[peer[s]][db[s]][k]]

-----------------------------------------------------------------------------
(* Rounds: what is sent where, and what is read from where and how.        *)

Round(sends, reads) == [do |-> "round", sends |-> sends, reads |-> reads]
Done(result)        == [do |-> "return", result |-> result]
Refuse              == [do |-> "throw"]

Send(socket, cmds) == [to |-> socket, cmds |-> cmds]
Read(socket, as)   == [from |-> socket, as |-> as]

\* One command and its reply.
AskAt(socket, cmd, as) == Round(<<Send(socket, <<cmd>>)>>, <<Read(socket, as)>>)
Ask(key, cmd, as) == AskAt(Sock(key), cmd, as)

\* One command for every one of these sockets.
Row(ss, cmds, as) ==
  Round([i \in DOMAIN ss |-> Send(ss[i], <<cmds[i]>>)], [i \in DOMAIN ss |-> Read(ss[i], as)])

\* A command for every socket that has some of the keys, with those.
Spread(verb, keys, as) ==
  LET ss == SocketsOf(keys) IN Row(ss, [i \in DOMAIN ss |-> <<verb>> \o At(ss[i], keys)], as)

\* The connections a call without a key goes to: all, or the one given.
Targets(c) == IF c.con = 0 THEN Sockets ELSE <<Sockets[c.con]>>

Broadcast_FirstReads(c, cmd, as) ==    \* one reply only
  Round([i \in DOMAIN Targets(c) |-> Send(Targets(c)[i], <<cmd>>)],
        <<Read(Targets(c)[1], as)>>)

Broadcast(c, cmd, as) == Row(Targets(c), [i \in DOMAIN Targets(c) |-> cmd], as)

\* A call that is a fixed sequence of rounds and a result.
Script(rounds, n, result) == IF n < Len(rounds) THEN rounds[n + 1] ELSE Done(result)

Result(words, set, n) == [words |-> words, set |-> set, n |-> n]
Void     == Result(<<>>, {}, 0)
Words(s) == Result(s, {}, 0)
SetOf(S) == Result(<<>>, S, 0)
Num(n)   == Result(<<>>, {}, n)
Truth(n) == Num(IF n = 0 THEN 0 ELSE 1)    \* a number returned as a bool

Total(rs) == FoldFunction(LAMBDA r, sum : sum + r.n, 0, rs)
AllWords(rs) == UNION {ToSet(rs[i].words) : i \in DOMAIN rs}

PairKeys(pairs) == [i \in DOMAIN pairs |-> pairs[i][1]]
PairWords(pairs) == FlattenSeq(pairs)
PairsAt(socket, pairs) == Sub(pairs, {i \in DOMAIN pairs : Sock(pairs[i][1]) = socket})

-----------------------------------------------------------------------------
(* The calls.  g are the replies of the rounds that are over.              *)

MSet(c, g) ==
  LET ss   == SocketsOf(PairKeys(c.pairs))
      cmds == [i \in DOMAIN ss |-> <<"MSET">> \o PairWords(PairsAt(ss[i], c.pairs))]
  IN  Script(<<Row(ss, cmds, "ok")>>, Len(g), Void)

\* The overload with two vectors asks for the socket of all keys.
MSetVectors(c, g) ==
  Script(<<AskAt(SockAll(PairKeys(c.pairs)), <<"MSET">> \o PairWords(c.pairs), "ok")>>,
         Len(g), Void)

MSetEx(c, g) ==
  LET keys == PairKeys(c.pairs)
      ss   == SocketsOf(keys)
      Expires(s) == [i \in DOMAIN At(s, keys) |-> <<"EXPIRE", At(s, keys)[i], "secs">>]
  IN  Script(<<Round([i \in DOMAIN ss |->
                        Send(ss[i], <<<<"MSET">> \o PairWords(PairsAt(ss[i], c.pairs))>>
                                      \o Expires(ss[i]))],
                     FlattenSeq([i \in DOMAIN ss |->
                        <<Read(ss[i], "ok")>>
                          \o [j \in DOMAIN Expires(ss[i]) |-> Read(ss[i], "intok")]]))>>,
             Len(g), Void)

\* The reply that exec stores with a command, as a word.
Stored_(r) ==
  IF r.t = "int" THEN ToString(r.n) ELSE IF r.words = <<>> THEN "" ELSE r.words[1]

Exec(c, g) ==
  LET keys == [i \in DOMAIN c.cmds |-> c.cmds[i][2]]
      ss   == SocketsOf(keys)
      To(s) == Sub(c.cmds, {i \in DOMAIN keys : Sock(keys[i]) = s})
  IN  Script(<<Round([i \in DOMAIN ss |-> Send(ss[i], To(ss[i]))],
                     [i \in DOMAIN keys |-> Read(Sock(keys[i]), "generic")])>>,
             Len(g), Words([i \in DOMAIN c.cmds |-> Stored_(g[1][i])]))

ExecTransaction(c, g) ==
  LET s == SockAll([i \in DOMAIN c.cmds |-> c.cmds[i][2]])
      n == Len(c.cmds)
  IN  IF s = NoSocket THEN Refuse
      ELSE Script(<<Round(<<Send(s, <<<<"MULTI">>>> \o c.cmds \o <<<<"EXEC">>>>)>>,
                          <<Read(s, "ok")>> \o [i \in 1..n |-> Read(s, "queued")]
                            \o <<Read(s, "header")>> \o [i \in 1..n |-> Read(s, "generic")])>>,
                  Len(g), Words([i \in 1..n |-> Stored_(g[1][n + 2 + i])]))

MGet_Concatenated(c, g) ==    \* cur_out appended, indices ignored
  Script(<<Spread("MGET", c.keys, "multi")>>, Len(g),
         Words(FlattenSeq([i \in DOMAIN g[1] |-> g[1][i].words])))

MGet(c, g) ==
  LET ss == SocketsOf(c.keys)
      \* out[indices[i]] = cur_out[i]
      Value(i) == LET j == CHOOSE j \in DOMAIN ss : ss[j] = Sock(c.keys[i])
                  IN  g[1][j].words[Len(At(ss[j], SubSeq(c.keys, 1, i)))]
  IN  Script(<<Spread("MGET", c.keys, "multi")>>, Len(g), Words([i \in DOMAIN c.keys |-> Value(i)]))

DelRange(c, g) ==
  Script(<<Spread("DEL", c.keys, "int")>>, Len(g), Truth(Total(g[1])))

Single(c, g, read) ==    \* calls with one key
  Script(<<Ask(c.cmd[2], c.cmd, read)>>, Len(g), Result(g[1][1].words, {}, g[1][1].n))

\* rename between servers copies the value and deletes the old key last.
Copy_DeleteFirst(c, g) ==
  LET type   == g[1][1].words[1]
      values == g[2][1].words
      Add(verb) == [i \in DOMAIN values |-> Ask(c.new, <<verb, c.new, values[i]>>, "int")]
      Del(key)  == <<Ask(key, <<"DEL", key>>, "int")>>
  IN  CASE type = "string" ->
             <<Ask(c.old, <<"GET", c.old>>, "bulk")>>
               \o (IF Len(g) < 2 THEN <<>>
                   ELSE Del(c.old) \o <<Ask(c.new, <<"SET", c.new, values[1]>>, "ok")>>)
        [] type = "list" ->
             <<Ask(c.old, <<"LRANGE", c.old, "0", "-1">>, "multi")>>
               \o (IF Len(g) < 2 THEN <<>> ELSE Del(c.old) \o Del(c.new) \o Add("RPUSH"))
        [] type = "set" ->
             <<Ask(c.old, <<"SMEMBERS", c.old>>, "multi")>>
               \o (IF Len(g) < 2 THEN <<>> ELSE Del(c.old) \o Del(c.new) \o Add("SADD"))

Copy(c, g) ==
  LET type   == g[1][1].words[1]
      values == g[2][1].words
      Add(verb) == [i \in DOMAIN values |-> Ask(c.new, <<verb, c.new, values[i]>>, "int")]
      Del(key)  == <<Ask(key, <<"DEL", key>>, "int")>>
  IN  CASE type = "string" ->
             <<Ask(c.old, <<"GET", c.old>>, "bulk")>>
               \o (IF Len(g) < 2 THEN <<>>
                   ELSE <<Ask(c.new, <<"SET", c.new, values[1]>>, "ok")>> \o Del(c.old))
        [] type = "list" ->
             <<Ask(c.old, <<"LRANGE", c.old, "0", "-1">>, "multi")>>
               \o (IF Len(g) < 2 THEN <<>> ELSE Del(c.new) \o Add("RPUSH") \o Del(c.old))
        [] type = "set" ->
             <<Ask(c.old, <<"SMEMBERS", c.old>>, "multi")>>
               \o (IF Len(g) < 2 THEN <<>> ELSE Del(c.new) \o Add("SADD") \o Del(c.old))

Rename(c, g) ==
  IF Sock(c.old) = Sock(c.new)
  THEN Script(<<Ask(c.old, <<"RENAME", c.old, c.new>>, "ok")>>, Len(g), Void)
  ELSE IF g = <<>> THEN Ask(c.old, <<"TYPE", c.old>>, "line")
  ELSE IF g[1][1].words[1] = "none" THEN Done(Void)
  ELSE IF g[1][1].words[1] \notin {"string", "list", "set"} THEN Refuse
  ELSE LET rest == Copy(c, g)
       IN  IF Len(g) = 1 THEN rest[1] ELSE Script(rest, Len(g) - 1, Void)

\* Between servers: rename unless the new key exists.
RenameNx(c, g) ==
  IF Sock(c.old) = Sock(c.new)
  THEN Script(<<Ask(c.old, <<"RENAMENX", c.old, c.new>>, "int")>>, Len(g), Num(g[1][1].n))
  ELSE IF g = <<>> THEN Ask(c.new, <<"EXISTS", c.new>>, "int")
  ELSE IF g[1][1].n = 1 THEN Done(Num(0))
  ELSE LET p == Rename(c, Tail(g))
       IN  IF p.do = "return" THEN Done(Num(1)) ELSE p

SAddRange_OneMoreRead(key, values) ==
  Round(<<Send(Sock(key), [i \in DOMAIN values |-> <<"SADD", key, values[i]>>])>>,
        [i \in 1..(Len(values) + 1) |-> Read(Sock(key), "int")])

SAddRange(key, values) ==
  Round(<<Send(Sock(key), [i \in DOMAIN values |-> <<"SADD", key, values[i]>>])>>,
        [i \in DOMAIN values |-> Read(Sock(key), "int")])

SMove(c, g) ==
  IF Sock(c.src) = Sock(c.dst)
  THEN Script(<<Ask(c.src, <<"SMOVE", c.src, c.dst, c.member>>, "intok")>>, Len(g), Void)
  ELSE Script(<<Ask(c.src, <<"SREM", c.src, c.member>>, "intok"),
                Ask(c.dst, <<"SADD", c.dst, c.member>>, "int")>>, Len(g), Void)

\* What several servers say, intersected or united.
Inter(rs) == {m \in ToSet(rs[1].words) : \A i \in DOMAIN rs : m \in ToSet(rs[i].words)}

SInter(c, g) == Script(<<Spread("SINTER", c.keys, "multi")>>, Len(g), SetOf(Inter(g[1])))

SUnion(c, g) ==    \* to one server, if it has all the keys
  Script(<<Spread("SUNION", c.keys, "multi")>>, Len(g), SetOf(AllWords(g[1])))

SDiff(c, g) ==
  Script(<<AskAt(SockAll(c.keys), <<"SDIFF">> \o c.keys, "multi")>>, Len(g),
         SetOf(AllWords(g[1])))

\* sinterstore, sunionstore: by the server if all keys are there, else the
\* set is computed, the destination deleted and filled member by member
\* (sinterstore) or in one batch (sunionstore).
StoreOne(c, g, verb) ==
  Script(<<Ask(c.dst, <<verb, c.dst>> \o c.keys, "int")>>, Len(g), Num(g[1][1].n))

DelDst(c) == Ask(c.dst, <<"DEL", c.dst>>, "int")

SInterStore(c, g) ==
  IF Sock(c.dst) = SockAll(c.keys) THEN StoreOne(c, g, "SINTERSTORE")
  ELSE IF g = <<>> THEN Spread("SINTER", c.keys, "multi")
  ELSE LET ms == SetToSeq(Inter(g[1]))
       IN  Script(<<DelDst(c)>> \o [i \in DOMAIN ms |-> Ask(c.dst, <<"SADD", c.dst, ms[i]>>, "int")],
                  Len(g) - 1, Num(Len(ms)))

SUnionStore(c, g) ==
  IF Sock(c.dst) = SockAll(c.keys) THEN StoreOne(c, g, "SUNIONSTORE")
  ELSE IF g = <<>> THEN Spread("SUNION", c.keys, "multi")
  ELSE LET ms == SetToSeq(AllWords(g[1]))
       IN  Script(<<DelDst(c), SAddRange(c.dst, ms)>>, Len(g) - 1, Num(Total(g[3])))

SDiffStore(c, g) ==
  IF Sock(c.dst) = SockAll(c.keys) THEN StoreOne(c, g, "SDIFFSTORE") ELSE Refuse

\* auth and flushall: not in cluster mode.
OneOnly(c, g, cmd) ==
  IF c.con = 0 /\ Len(connections) > 1 THEN Refuse
  ELSE Script(<<Broadcast(c, cmd, "ok")>>, Len(g), Void)

\* One connection after the other.
InTurn(c, n, cmd, as) == AskAt(Sockets[n], cmd, as)

LastSave(c, g) ==
  LET n == Len(g)
      times == {g[i][1].n : i \in DOMAIN g}
  IN  IF n < Len(connections) THEN InTurn(c, n + 1, <<"LASTSAVE">>, "int")
      ELSE Done(Num(CHOOSE t \in times : \A u \in times : t <= u))

Shutdown(c, g) ==
  IF Len(g) < Len(connections) THEN InTurn(c, Len(g) + 1, <<"SHUTDOWN">>, "bye") ELSE Done(Void)

Plan(c, g) ==
  CASE c.f = "mset"         -> MSet(c, g)
    [] c.f = "mset_vectors" -> MSetVectors(c, g)
    [] c.f = "msetex"       -> MSetEx(c, g)
    [] c.f = "exec"         -> Exec(c, g)
    [] c.f = "exec_transaction" -> ExecTransaction(c, g)
    [] c.f = "mget"         -> MGet(c, g)
    [] c.f = "del_range"    -> DelRange(c, g)
    [] c.f = "single"       -> Single(c, g, c.read)
    [] c.f = "rename"       -> Rename(c, g)
    [] c.f = "renamenx"     -> RenameNx(c, g)
    [] c.f = "sadd_range"   -> Script(<<SAddRange(c.key, c.values)>>, Len(g), Num(Total(g[1])))
    [] c.f = "smove"        -> SMove(c, g)
    [] c.f = "sinter"       -> SInter(c, g)
    [] c.f = "sunion"       -> SUnion(c, g)
    [] c.f = "sdiff"        -> SDiff(c, g)
    [] c.f = "sinterstore"  -> SInterStore(c, g)
    [] c.f = "sunionstore"  -> SUnionStore(c, g)
    [] c.f = "sdiffstore"   -> SDiffStore(c, g)
    [] c.f = "keys"         -> Script(<<Broadcast(c, <<"KEYS", "*">>, "multi")>>, Len(g),
                                      SetOf(AllWords(g[1])))
    [] c.f = "dbsize"       -> Script(<<Broadcast(c, <<"DBSIZE">>, "int")>>, Len(g),
                                      Num(Total(g[1])))
    [] c.f = "randomkey"    -> Script(<<Broadcast(c, <<"RANDOMKEY">>, "bulk")>>, Len(g),
                                      Words(g[1][1].words))
    [] c.f = "select"       -> Script(<<Broadcast(c, <<"SELECT", c.db>>, "ok")>>, Len(g), Void)
    [] c.f = "flushdb"      -> Script(<<Broadcast(c, <<"FLUSHDB">>, "ok")>>, Len(g), Void)
    [] c.f = "save"         -> Script(<<Broadcast(c, <<"SAVE">>, "ok")>>, Len(g), Void)
    [] c.f = "bgsave"       -> Script(<<Broadcast(c, <<"BGSAVE">>, "line")>>, Len(g), Void)
    [] c.f = "auth"         -> OneOnly(c, g, <<"AUTH", "password">>)
    [] c.f = "flushall"     -> OneOnly(c, g, <<"FLUSHALL">>)
    [] c.f = "lastsave"     -> LastSave(c, g)
    [] c.f = "shutdown"     -> Shutdown(c, g)
    [] c.f = "open"         -> Script(<<AskAt(c.socket, <<"SELECT", c.db>>, "ok")>>, Len(g), Void)
    [] c.f = "connect"      -> Done(Void)

-----------------------------------------------------------------------------
(* The client.                                                             *)

AllSockets == FirstSocket..MaxSocket

NoRound == Round(<<>>, <<>>)
Pending == [t |-> "pending", result |-> Void]

Init ==
  /\ \E n \in 0..Len(Servers) :
       /\ connections = [i \in 1..n |-> [server |-> Servers[i], socket |-> FirstSocket + i - 1,
                                         dbindex |-> 0]]
       /\ peer = [s \in AllSockets |->
                    IF s - FirstSocket < n THEN Servers[s - FirstSocket + 1] ELSE "closed"]
       /\ \E D \in Contents :
            store = [srv \in ToSet(Servers) |-> [d \in DBs |-> [k \in Keys |->
                       IF n > 0 /\ d = 0 /\ peer[Sock(k)] = srv THEN D[k] ELSE Nothing]]]
  /\ pc = "idle" /\ call = [f |-> "none"] /\ got = <<>> /\ round = NoRound /\ at = 0
  /\ replies = <<>> /\ closing = 0 /\ outcome = Pending
  /\ reqs = [s \in AllSockets |-> <<>>] /\ reps = reqs
  /\ lost = {} /\ db = [s \in AllSockets |-> 0] /\ multi = [s \in AllSockets |-> <<>>]
  /\ before = [k \in Keys |-> Nothing]
  /\ calls = 0 /\ disturbed = FALSE /\ slipped = FALSE /\ failed = {}

EndCall(t, result) ==
  /\ pc' = "idle"
  /\ outcome' = [t |-> t, result |-> result]
  /\ round' = NoRound /\ at' = 0 /\ replies' = <<>>

Enter(p) ==
  CASE p.do = "round"  -> /\ pc' = "send" /\ round' = p /\ at' = 1 /\ replies' = <<>>
                          /\ outcome' = Pending
    [] p.do = "return" -> EndCall("returned", p.result)
    [] p.do = "throw"  -> EndCall("refused", Void)

Empty == \A srv \in ToSet(Servers), d \in DBs, k \in Keys : store[srv][d][k] = Nothing

\* Bounds: a call of CallSet and then calls of LaterCalls; a connection is added
\* while the servers are empty, because keys do not move to where they hash
\* afterwards.
Begin(c) ==
  /\ pc = "idle"
  /\ calls = 0 \/ (calls < MaxCalls /\ c \in LaterCalls)
  /\ IF c.f = "open" THEN Len(connections) < Len(Servers) /\ Empty ELSE connections # <<>>
  /\ "con" \in DOMAIN c => c.con <= Len(connections)
  /\ call' = c /\ calls' = calls + 1 /\ got' = <<>>
  /\ before' = IF connections = <<>> THEN before ELSE View
  /\ disturbed' = FALSE
  /\ CASE c.f = "open"  -> /\ pc' = "connect" /\ outcome' = Pending
                           /\ UNCHANGED <<round, at, replies, closing>>
       [] c.f = "close" -> /\ pc' = "close" /\ closing' = c.db /\ outcome' = Pending
                           /\ UNCHANGED <<round, at, replies>>
       [] OTHER         -> Enter(Plan(c, <<>>)) /\ UNCHANGED closing
  /\ UNCHANGED <<connections, wireVars, serverVars, slipped, failed>>

\* A call that throws leaves what is still under way.
GiveUp ==
  /\ EndCall("threw", Void)
  /\ slipped' = (slipped \/ \E s \in AllSockets \ lost' : reqs'[s] # <<>> \/ reps'[s] # <<>>)
  /\ failed' = IF call.f = "open" /\ pc # "connect" THEN failed \cup {call.socket} ELSE failed

Throw == GiveUp /\ UNCHANGED <<connections, call, got, closing, before, calls, disturbed>>

\* init: anetTcpConnect takes the lowest free socket; open appends the
\* connection when its SELECT is answered.
NextSocket ==
  CHOOSE s \in AllSockets :
    peer[s] = "closed" /\ \A r \in AllSockets : r < s => peer[r] # "closed"

Connect ==
  /\ pc = "connect"
  /\ peer' = [peer EXCEPT ![NextSocket] = Servers[Len(connections) + 1]]
  /\ call' = [call EXCEPT !.socket = NextSocket]
  /\ Enter(Plan(call', <<>>))
  /\ UNCHANGED <<connections, got, closing, wireVars, db, multi, store, history>>

ConnectFails_NotClosed ==    \* anetTcpGenericConnect without close(s)
  /\ pc = "connect"
  /\ peer' = [peer EXCEPT ![NextSocket] = Servers[Len(connections) + 1]]
  /\ UNCHANGED <<wireVars, db, multi, store>>
  /\ Throw

ConnectFails ==
  /\ pc = "connect"
  /\ UNCHANGED <<wireVars, serverVars>>
  /\ Throw

\* One send_.  Bytes for a connection that is lost may be written or not.
SendNext ==
  /\ pc = "send"
  /\ UNCHANGED <<reps, lost, serverVars>>
  /\ LET s == round.sends[at]
     IN  \/ /\ s.to # NoSocket
            /\ reqs' = IF s.to \in lost THEN reqs
                       ELSE [reqs EXCEPT ![s.to] =
                               @ \o [i \in DOMAIN s.cmds |-> [cmd |-> s.cmds[i], of |-> calls]]]
            /\ IF at < Len(round.sends) THEN at' = at + 1 /\ pc' = pc
               ELSE at' = 1 /\ pc' = "recv"
            /\ UNCHANGED <<connections, call, got, round, replies, closing, outcome, history>>
         \/ /\ s.to \in lost \cup {NoSocket} /\ s.cmds # <<>>
            /\ UNCHANGED reqs
            /\ Throw

Accepts(as, r) ==
  CASE as \in {"ok", "bye"} -> r.t = "status" /\ r.words = <<"OK">>
    [] as = "line"   -> r.t = "status"
    [] as = "queued" -> r.t = "status" /\ r.words = <<"QUEUED">>
    [] as = "header" -> r.t \in {"header", "multi"}
    [] as = "int"    -> r.t = "int"
    [] as = "intok"  -> r.t = "int" /\ r.n = 1
    [] as = "bulk"   -> r.t = "bulk"
    [] as = "multi"  -> r.t = "multi"
    [] as = "generic" -> TRUE

\* One reader.  select notes the database when its reply is there.  (con is
\* the element of connections(), so cur_con == con finds it and, by
\* DistinctAssumption, no other.)
Selected(ok, s) ==
  IF ok /\ call.f = "select"
  THEN [i \in DOMAIN connections |->
          IF connections[i].socket = s THEN [connections[i] EXCEPT !.dbindex = call.db]
          ELSE connections[i]]
  ELSE connections

Receive ==
  /\ pc = "recv" /\ at <= Len(round.reads)
  /\ UNCHANGED <<call, got, closing, reqs, lost, serverVars, before, calls, disturbed>>
  /\ LET s  == round.reads[at].from
         r  == reps[s][1].reply
         ok == Accepts(round.reads[at].as, r)
     IN  /\ reps[s] # <<>>
         /\ reps' = [reps EXCEPT ![s] = Tail(@)]
         /\ connections' = Selected(ok, s)
         /\ IF ok
              THEN /\ replies' = Append(replies, r) /\ at' = at + 1
                   /\ UNCHANGED <<pc, round, outcome, slipped, failed>>
              ELSE GiveUp

\* recv on a connection that is lost; shutdown expects this.
ReceiveFails ==
  /\ pc = "recv" /\ at <= Len(round.reads)
  /\ LET s == round.reads[at].from
     IN  /\ s \in lost /\ reps[s] = <<>>
         /\ UNCHANGED <<wireVars, serverVars>>
         /\ IF round.reads[at].as = "bye"
              THEN /\ replies' = Append(replies, OK) /\ at' = at + 1
                   /\ UNCHANGED <<connections, pc, call, got, round, closing, outcome, history>>
              ELSE Throw

\* The last reply is read: the next round, or the end of the call.
FinishRound ==
  /\ pc = "recv" /\ at > Len(round.reads)
  /\ got' = Append(got, replies)
  /\ Enter(Plan(call, got'))
  /\ connections' = IF call.f = "open"
                    THEN Append(connections, [server |-> peer[call.socket],
                                              socket |-> call.socket, dbindex |-> call.db])
                    ELSE connections
  /\ UNCHANGED <<call, closing, wireVars, serverVars, history>>

\* close(con.socket) in close means the member: it closes no socket, but
\* looks for a connection whose database has the socket's number.
CloseAgain ==
  /\ pc = "close"
  /\ IF \E i \in DOMAIN connections : connections[i].dbindex = closing
       THEN /\ closing' = LET i == CHOOSE i \in DOMAIN connections :
                                     /\ connections[i].dbindex = closing
                                     /\ \A j \in 1..(i - 1) : connections[j].dbindex # closing
                          IN  connections[i].socket
            /\ UNCHANGED <<pc, round, at, replies, outcome>>
       ELSE EndCall("returned", Void) /\ UNCHANGED closing
  /\ UNCHANGED <<connections, call, got, wireVars, serverVars, history>>

Client ==
  Connect \/ ConnectFails \/ SendNext \/ Receive \/ ReceiveFails \/ FinishRound \/ CloseAgain

-----------------------------------------------------------------------------
(* The servers, connections that are lost, and another client.             *)

Position(srv) == CHOOSE i \in DOMAIN Servers : Servers[i] = srv

\* What a server does on a connection outside of transactions.
Serve(s, cmd) ==
  LET srv == peer[s]
      a   == Run(store[srv][db[s]], cmd)
  IN  CASE cmd[1] = "SELECT" ->
             IF cmd[2] \in DBs
             THEN [reply |-> OK, db |-> cmd[2], data |-> store[srv]]
             ELSE [reply |-> Error, db |-> db[s], data |-> store[srv]]
        [] cmd[1] = "LASTSAVE" ->
             [reply |-> Count(Position(srv)), db |-> db[s], data |-> store[srv]]
        [] cmd[1] = "FLUSHALL" ->
             [reply |-> OK, db |-> db[s], data |-> [d \in DBs |-> [k \in Keys |-> Nothing]]]
        [] OTHER ->
             [reply |-> a.reply, db |-> db[s], data |-> [store[srv] EXCEPT ![db[s]] = a.db]]

Says(s, rs) ==
  reps' = [reps EXCEPT ![s] = @ \o [i \in DOMAIN rs |-> [reply |-> rs[i], of |-> reqs[s][1].of]]]

InMulti(s) == multi[s] # <<>>

Process(s) ==
  /\ reqs[s] # <<>>
  /\ LET cmd == reqs[s][1].cmd
         srv == peer[s]
     IN  \/ /\ cmd[1] = "SHUTDOWN"
            /\ lost' = lost \cup {x \in AllSockets : peer[x] = srv}
            /\ reqs' = [x \in AllSockets |-> IF peer[x] = srv THEN <<>> ELSE reqs[x]]
            /\ UNCHANGED <<reps, db, multi, store>>
         \/ /\ cmd[1] # "SHUTDOWN"
            /\ reqs' = [reqs EXCEPT ![s] = Tail(@)]
            /\ UNCHANGED lost
            /\ \/ /\ cmd[1] = "MULTI" \/ (InMulti(s) /\ cmd[1] # "EXEC")
                  /\ multi' = [multi EXCEPT ![s] = Append(@, cmd)]
                  /\ Says(s, <<IF cmd[1] = "MULTI" THEN OK ELSE Reply("status", <<"QUEUED">>, 0)>>)
                  /\ UNCHANGED <<db, store>>
               \/ /\ cmd[1] = "EXEC"
                  /\ LET a == RunAll(store[srv][db[s]], Tail(multi[s]))
                     IN  /\ Says(s, <<Reply("header", <<>>, 0)>> \o a.reply)
                         /\ store' = [store EXCEPT ![srv][db[s]] = a.db]
                  /\ multi' = [multi EXCEPT ![s] = <<>>]
                  /\ UNCHANGED db
               \/ /\ ~InMulti(s) /\ cmd[1] \notin {"MULTI", "EXEC"}
                  /\ LET a == Serve(s, cmd)
                     IN  /\ Says(s, <<a.reply>>)
                         /\ store' = [store EXCEPT ![srv] = a.data]
                         /\ db' = [db EXCEPT ![s] = a.db]
                  /\ UNCHANGED multi
  /\ UNCHANGED <<clientVars, peer, history>>

\* A connection breaks.
Lose(s) ==
  /\ pc # "idle" /\ peer[s] # "closed" /\ s \notin lost /\ Cardinality(lost) < MaxLost
  /\ lost' = lost \cup {s}
  /\ reqs' = [reqs EXCEPT ![s] = <<>>] /\ reps' = [reps EXCEPT ![s] = <<>>]
  /\ multi' = [multi EXCEPT ![s] = <<>>]
  /\ UNCHANGED <<clientVars, peer, db, store, history>>

\* Bound: once in a call, and not while a connection is added.
Disturb(key, value) ==
  /\ pc \in {"send", "recv"} /\ ~disturbed /\ call.f # "open"
  /\ LET s == Sock(key) IN store' = [store EXCEPT ![peer[s]][db[s]][key] = value]
  /\ disturbed' = TRUE
  /\ UNCHANGED <<clientVars, wireVars, peer, db, multi, before, calls, slipped, failed>>

Next ==
  \/ \E c \in CallSet : Begin(c)
  \/ Client
  \/ \E s \in AllSockets : Process(s) \/ Lose(s)
  \/ \E d \in Disturbers : Disturb(d[1], d[2])

Spec == Init /\ [][Next]_vars

\* The client runs while it can, and every server answers.
FairSpec == Spec /\ WF_vars(Client) /\ \A s \in AllSockets : WF_vars(Process(s))

-----------------------------------------------------------------------------
(* Properties                                                              *)

Open == {s \in AllSockets : peer[s] # "closed"}

TypeOK ==
  /\ \A i \in DOMAIN connections : connections[i].socket \in Open
  /\ pc \in {"idle", "connect", "send", "recv", "close"}
  /\ pc = "send" => at \in DOMAIN round.sends
  /\ lost \subseteq Open
  /\ \A srv \in ToSet(Servers), d \in DBs, k \in Keys : IsValue(store[srv][d][k])

OneDatabase == \A i \in DOMAIN connections : db[Sockets[i]] = db[Sockets[1]]

\* What one server with all the keys does and replies.
OneServer(c, D) ==
  LET one(cmd) == Run(D, cmd)
      pairs    == <<"MSET">> \o PairWords(c.pairs)
      to(verb) == one(<<verb, c.dst>> \o c.keys)
      res(a, result) == [db |-> a.db, result |-> result]
  IN  CASE c.f \in {"mset", "mset_vectors", "msetex"} -> res(one(pairs), Void)
        [] c.f \in {"exec", "exec_transaction"} ->
             LET a == RunAll(D, c.cmds)
             IN  res(a, Words([i \in DOMAIN a.reply |-> Stored_(a.reply[i])]))
        [] c.f = "mget" -> LET a == one(<<"MGET">> \o c.keys) IN res(a, Words(a.reply.words))
        [] c.f = "del_range" -> LET a == one(<<"DEL">> \o c.keys) IN res(a, Truth(a.reply.n))
        [] c.f = "rename"    -> res(one(<<"RENAME", c.old, c.new>>), Void)
        [] c.f = "renamenx"  ->
             LET a == one(<<"RENAMENX", c.old, c.new>>) IN res(a, Num(a.reply.n))
        [] c.f = "sadd_range" ->
             LET a == one(<<"SADD", c.key>> \o c.values) IN res(a, Num(a.reply.n))
        [] c.f = "smove" -> res(one(<<"SMOVE", c.src, c.dst, c.member>>), Void)
        [] c.f \in {"sinter", "sunion", "sdiff"} ->
             LET verb == CASE c.f = "sinter" -> "SINTER" [] c.f = "sunion" -> "SUNION"
                           [] c.f = "sdiff" -> "SDIFF"
                 a == one(<<verb>> \o c.keys)
             IN  res(a, SetOf(ToSet(a.reply.words)))
        [] c.f = "sinterstore" -> res(to("SINTERSTORE"), Num(to("SINTERSTORE").reply.n))
        [] c.f = "sunionstore" -> res(to("SUNIONSTORE"), Num(to("SUNIONSTORE").reply.n))
        [] c.f = "sdiffstore"  -> res(to("SDIFFSTORE"), Num(to("SDIFFSTORE").reply.n))
        [] c.f = "keys"   -> res(one(<<"KEYS", "*">>), SetOf(ToSet(one(<<"KEYS", "*">>).reply.words)))
        [] c.f = "dbsize" -> res(one(<<"DBSIZE">>), Num(one(<<"DBSIZE">>).reply.n))

Judged ==
  {"mset", "mset_vectors", "msetex", "exec", "exec_transaction", "mget", "del_range", "rename",
   "renamenx", "sadd_range", "smove", "sinter", "sunion", "sdiff", "sinterstore",
   "sunionstore", "sdiffstore", "keys", "dbsize"}

\* rename of a key that is not there: a server reports an error, between
\* servers the call returns (and renamenx claims success).
RenamesNothing ==
  call.f \in {"rename", "renamenx"} /\ before[call.old].type = "none"

\* A call that returns, and was left alone by other clients, has done and
\* returns what a single server with all the keys would have: mget keeps the
\* order of its keys, exec that of its commands, sets are combined over
\* servers.  A call on one connection (con) is not meant.
ReturnsAsOne ==
  (/\ pc = "idle" /\ outcome.t = "returned" /\ ~disturbed /\ ~slipped
   /\ call.f \in Judged /\ OneDatabase /\ ~RenamesNothing
   /\ ("con" \in DOMAIN call => call.con = 0))
  => LET e == OneServer(call, before)
     IN  View = e.db /\ outcome.result = e.result

SocketOfAll(c) == c.f \in {"mset_vectors", "sdiff"}

\* A call that is refused in cluster mode, or that asks for the one socket
\* of keys on several servers, changes nothing, unless an earlier call gave up.
RefusedUntouched ==
  LET threw == outcome.t = "threw" /\ SocketOfAll(call) /\ lost = {}
  IN  (pc = "idle" /\ ~disturbed /\ ~slipped /\ (outcome.t = "refused" \/ threw)) =>
         View = before

\* The servers together are one server with all the keys: what a call does
\* and returns is what it would there, and what it refuses has no effect.
ActsAsOne == ReturnsAsOne /\ RefusedUntouched

\* However rename ends, also in the middle: the value is under the old name
\* or under the new one.
RenameKeepsValue ==
  (call.f \in {"rename", "renamenx"} /\ ~disturbed /\ before[call.old].type # "none") =>
      before[call.old] \in {View[call.old], View[call.new]}

\* At no moment smove has the member in both sets.  (It may be in neither.)
SMoveNeverTwice ==
  (call.f = "smove" /\ ~disturbed /\ call.member \notin before[call.dst].set) =>
      call.member \notin View[call.src].set \cap View[call.dst].set

\* A value that moves between keys, perhaps between servers, is not lost by
\* rename and not doubled by smove, at any moment; unless an earlier call gave
\* up, whose requests may still change the keys and whose replies are read.
MovesSafe == ~slipped => RenameKeepsValue /\ SMoveNeverTwice

\* After a call nothing is under way, unless some call gave up in between.
NothingLeft ==
  pc = "idle" /\ ~slipped =>
    \A s \in AllSockets \ lost : reqs[s] = <<>> /\ reps[s] = <<>>

\* A reader never takes a reply to an earlier call, with the same exception.
OwnReplies ==
  pc = "recv" /\ at <= Len(round.reads) /\ ~slipped =>
    LET s == round.reads[at].from IN reps[s] # <<>> => reps[s][1].of = calls

\* A call works on the replies to its own requests, all of them.
RepliesSafe == NothingLeft /\ OwnReplies

\* dbindex of a connection is the database its server has selected for it.
DbIndexTrue ==
  pc = "idle" /\ ~slipped =>
    \A i \in DOMAIN connections :
      (connections[i].socket \notin lost) => connections[i].dbindex = db[connections[i].socket]

\* A socket that is open and belongs to no connection is one whose SELECT
\* failed in init; nothing closes it.
LeaksOnlyAfterSelect ==
  pc = "idle" => Open = {connections[i].socket : i \in DOMAIN connections} \cup failed

\* What the client believes of its connections is true of the servers.
ConnectionsTrue == TypeOK /\ DbIndexTrue /\ LeaksOnlyAfterSelect

\* close calls itself for ever if a connection has a database with the
\* number of its own socket.
ClosesItself ==
  pc = "close" /\ \E i \in DOMAIN connections : connections[i].dbindex = connections[i].socket

\* Every call ends.
CallsEnd == pc # "idle" ~> (pc = "idle" \/ ClosesItself)
=============================================================================
