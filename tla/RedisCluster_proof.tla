------------------------ MODULE RedisCluster_proof ------------------------
(***************************************************************************)
(* Proofs about RedisCluster: whatever the servers, the keys and the calls *)
(* are, a call works on the replies to its own requests, and what the      *)
(* client notes of its connections is true of the servers.  The inductive  *)
(* invariant counts: on every connection that is not lost as many requests *)
(* and replies are under way as the round will still read from it.  From   *)
(* it follows that rename loses no value and smove doubles none, because   *)
(* whatever the next command of such a call finds, it keeps what the       *)
(* replies so far have shown.                                              *)
(***************************************************************************)
EXTENDS RedisCluster, ProofLemmas

-----------------------------------------------------------------------------
(* The inductive invariant                                                 *)

\* A reply of the type bulk has a word.
Replies     == {r \in [t : STRING, words : Seq(STRING), n : Int] : r.t = "bulk" => r.words # <<>>}
Plainly     == {cmd \in Seq(STRING) : Understood(cmd)}
Selects     == {"SELECT"} \X Int
Specials    == {<<"MULTI">>, <<"EXEC">>, <<"SHUTDOWN">>, <<"LASTSAVE">>, <<"FLUSHALL">>}
Commands    == Selects \cup Specials \cup Plainly
Requests    == [cmd : Commands, of : Nat]
Answers     == [reply : Replies, of : Nat]
Connections == [server : ToSet(Servers), socket : AllSockets, dbindex : Int]
ValueSet    == {v \in [type : STRING, seq : Seq(STRING), set : SUBSET STRING] : IsValue(v)}
Databases   == [Keys -> ValueSet]
Stores      == [ToSet(Servers) -> [DBs -> Databases]]

\* Rounds that send to sockets of T.
Sends(T)  == [to : T, cmds : Seq(Commands)]
Readers   == {"ok", "bye", "line", "queued", "header", "int", "intok", "bulk", "multi", "generic"}
Reads     == [from : Int, as : Readers]
Rounds(T) == [do : {"round"}, sends : Seq(Sends(T)), reads : Seq(Reads)]

\* The reads of a round from the k-th on that are from a socket.
From(r, k, s) == {i \in k..Len(r.reads) : r.reads[i].from = s}

\* Every socket is sent commands once, and as many replies are read from it.
Balanced(r) ==
  /\ \A i, j \in DOMAIN r.sends : i # j => r.sends[i].to # r.sends[j].to
  /\ \A i \in DOMAIN r.sends :
       Cardinality(From(r, 1, r.sends[i].to)) = Len(r.sends[i].cmds)
  /\ \A k \in DOMAIN r.reads : \E i \in DOMAIN r.sends : r.reads[k].from = r.sends[i].to

Stream(c) == <<<<"MULTI">>>> \o c.cmds \o <<<<"EXEC">>>>

Transaction(r, c) ==
  /\ Len(r.sends) = 1 /\ r.sends[1].cmds = Stream(c)
  /\ Len(r.reads) = 2 * Len(c.cmds) + 2
  /\ \A k \in DOMAIN r.reads : r.reads[k].from = r.sends[1].to

\* The calls that may read nothing in a round.
MayBeEmpty == {"sadd_range", "sunionstore"}
Selecting  == {"select", "open"}

\* A command that is sent in call c in round r.
Fits(cmd, r, c) ==
  /\ cmd[1] = "SHUTDOWN" => Len(r.reads) = 1
  /\ cmd[1] = "SELECT" \/ c.f \in Selecting => c.f \in Selecting /\ cmd = <<"SELECT", c.db>>
  /\ cmd[1] \in {"MULTI", "EXEC"} => c.f = "exec_transaction"

RoundOK(r, c, T) ==
  /\ r \in Rounds(T) /\ r.sends # <<>>
  /\ r.reads = <<>> => c.f \in MayBeEmpty
  /\ \A i \in DOMAIN r.sends : \A j \in DOMAIN r.sends[i].cmds : Fits(r.sends[i].cmds[j], r, c)
  /\ c.f \in Selecting => \A k \in DOMAIN r.reads : r.reads[k].as = "ok"
  /\ c.f = "open" => \A i \in DOMAIN r.sends : r.sends[i].to = c.socket
  /\ IF c.f = "exec_transaction" THEN Transaction(r, c) ELSE Balanced(r)

\* rename between servers: it has learned that the old key holds a string.
Renames   == {"rename", "renamenx"}
First(c)  == IF c.f = "renamenx" THEN 2 ELSE 1
IsText(c, g) ==
  c.f \in Renames /\ Len(g) >= First(c) /\ g[First(c)][1].words[1] = "string"

\* The round that reads it then.
AsksText(r, c, g) ==
  IsText(c, g) /\ Len(g) = First(c) => Len(r.reads) = 1 /\ r.reads[1].as = "bulk"

GotOK(c, g) ==
  /\ g \in Seq(Seq(Replies))
  /\ c.f \notin MayBeEmpty => \A n \in DOMAIN g : g[n] # <<>>
  /\ IsText(c, g) /\ Len(g) > First(c) => g[First(c) + 1][1].words # <<>>

Working == pc \in {"send", "recv"}
Opening == Working /\ call.f = "open"
Owned   == {connections[i].socket : i \in DOMAIN connections}

TypeInv ==
  /\ connections \in Seq(Connections) /\ Len(connections) <= Len(Servers)
  /\ pc \in {"idle", "connect", "send", "recv", "close"}
  /\ peer \in [AllSockets -> ToSet(Servers) \cup {"closed"}]
  /\ db \in [AllSockets -> DBs]
  /\ reqs \in [AllSockets -> Seq(Requests)] /\ reps \in [AllSockets -> Seq(Answers)]
  /\ multi \in [AllSockets -> Seq(Commands)]
  /\ lost \subseteq Open /\ store \in Stores
  /\ \A s \in AllSockets \ Open : reqs[s] = <<>>
  /\ calls \in 0..MaxCalls /\ slipped \in BOOLEAN /\ failed \subseteq AllSockets

\* Connections have sockets of their own, which are open.
SocketsOwned ==
  /\ Owned \subseteq Open
  /\ \A i, j \in DOMAIN connections :
       i # j => connections[i].socket # connections[j].socket
  /\ \A i \in DOMAIN connections : connections[i].server = peer[connections[i].socket]

\* Which sockets are open: the lowest ones.
SocketsOpen ==
  /\ \E k \in 0..(Len(connections) + calls) :
       /\ Open = FirstSocket..(FirstSocket + k - 1)
       /\ k <= Len(connections) + calls - (IF pc = "idle" \/ Opening THEN 0 ELSE 1)
  /\ Open = Owned \cup failed \cup (IF Opening THEN {call.socket} ELSE {})

CallInv ==
  pc # "idle" =>
    /\ IsCall(call) /\ calls > 0
    /\ pc = "connect" => call.f = "open"
    /\ pc = "close" <=> call.f = "close"
    /\ IF call.f = "open" THEN Len(connections) < Len(Servers) /\ got = <<>>
       ELSE connections # <<>>
    /\ "con" \in DOMAIN call => call.con <= Len(connections)
    /\ Opening => call.socket \in AllSockets \ Owned

RoundInv ==
  Working =>
    /\ RoundOK(round, call, Open \cup {NoSocket})
    /\ GotOK(call, got) /\ AsksText(round, call, got)
    /\ pc = "send" => /\ at \in DOMAIN round.sends /\ replies = <<>>
                      /\ \A k \in 1..(at - 1) : round.sends[k].to # NoSocket
    /\ pc = "recv" => /\ at \in 1..(Len(round.reads) + 1)
                      /\ replies \in Seq(Replies) /\ Len(replies) = at - 1
                      /\ \A k \in 1..(at - 1) : Accepts(round.reads[k].as, replies[k])
                      /\ \A k \in DOMAIN round.sends : round.sends[k].to # NoSocket

\* MULTI and EXEC come in pairs, with commands to queue between them: B are
\* the places of q at which a transaction is open.
Brackets(ms, q, B) ==
  /\ B \subseteq 1..Len(q) /\ (1 \in B <=> ms # <<>>)
  /\ \A i \in 1..Len(q) :
       LET cmd == q[i].cmd
       IN  /\ cmd[1] = "MULTI" => i \notin B /\ i + 1 \in B
           /\ cmd[1] = "EXEC" => i \in B /\ i + 1 \notin B
           /\ cmd[1] \notin {"MULTI", "EXEC"} => (i + 1 \in B <=> i \in B) /\ (i \in B => cmd \in Plainly)

MultiInv ==
  /\ \A s \in lost : reqs[s] = <<>>
  /\ \A s \in AllSockets \ lost :
       /\ \E B \in SUBSET (1..Len(reqs[s])) : Brackets(multi[s], reqs[s], B)
       /\ multi[s] # <<>> => Tail(multi[s]) \in Seq(Plainly)

Quiet(s) == reqs[s] = <<>> /\ reps[s] = <<>> /\ multi[s] = <<>>

Sending(s) ==
  /\ multi[s] = <<>>
  /\ \A k \in 1..(at - 1) :
       round.sends[k].to = s => Len(reqs[s]) + Len(reps[s]) = Len(round.sends[k].cmds)
  /\ (\A k \in 1..(at - 1) : round.sends[k].to # s) => Quiet(s)

Receiving(s) ==
  multi[s] = <<>> /\ Len(reqs[s]) + Len(reps[s]) = Cardinality(From(round, at, s))

\* In a transaction p commands are processed.
Transacting(s) ==
  IF s # round.sends[1].to THEN Quiet(s)
  ELSE LET p == Len(Stream(call)) - Len(reqs[s])
       IN  /\ p \in Nat /\ \A i \in 1..Len(reqs[s]) : reqs[s][i].cmd = Stream(call)[p + i]
           /\ reqs[s] # <<>> => Len(multi[s]) = p /\ Len(reps[s]) + at - 1 = p
           /\ reqs[s] = <<>> => multi[s] = <<>> /\ Len(reps[s]) + at - 1 = Len(round.reads)

WireInv ==
  ~slipped =>
    /\ \A s \in lost : reps[s] = <<>>
    /\ \A s \in AllSockets : /\ \A i \in 1..Len(reqs[s]) : reqs[s][i].of = calls
                             /\ \A i \in 1..Len(reps[s]) : reps[s][i].of = calls
    /\ Working => \A s \in AllSockets : \A i \in 1..Len(reqs[s]) : Fits(reqs[s][i].cmd, round, call)
    /\ \A s \in AllSockets \ lost :
         /\ ~Working => Quiet(s)
         /\ pc = "send" => Sending(s)
         /\ pc = "recv" => IF call.f = "exec_transaction" THEN Transacting(s) ELSE Receiving(s)

\* What SELECT answers in this call.
Selection == IF call.db \in DBs THEN OK ELSE Error

SelectInv ==
  ~slipped =>
    /\ Working /\ call.f \in Selecting =>
         \A s \in AllSockets : \A i \in 1..Len(reps[s]) : reps[s][i].reply = Selection
    /\ \A i \in DOMAIN connections :
         LET c == connections[i]
         IN  c.socket \notin lost =>
               \/ c.dbindex = db[c.socket]
               \/ /\ Working /\ call.f = "select"
                  /\ reps[c.socket] # <<>> /\ db[c.socket] = call.db /\ call.db \in DBs
    /\ Working /\ call.f = "select" /\ call.db \in DBs =>
         \A s \in AllSockets : reps[s] # <<>> => db[s] = call.db
    /\ Opening /\ call.socket \notin lost /\ (replies # <<>> \/ reps[call.socket] # <<>>) =>
         (replies # <<>> => call.db \in DBs) /\ (call.db \in DBs => db[call.socket] = call.db)

IInv ==
  /\ TypeInv /\ SocketsOwned /\ SocketsOpen /\ CallInv /\ RoundInv
  /\ MultiInv /\ WireInv /\ SelectInv

-----------------------------------------------------------------------------
(* Sets in order                                                           *)

\* InOrder enumerates the set, each element once.
LEMMA InOrderIs ==
  ASSUME NEW S \in SUBSET Int, IsFiniteSet(S)
  PROVE  /\ InOrder(S) \in Seq(S) /\ Len(InOrder(S)) = Cardinality(S)
         /\ \A i, j \in 1..Cardinality(S) : i # j => InOrder(S)[i] # InOrder(S)[j]
         /\ \A x \in S : \E i \in 1..Cardinality(S) : InOrder(S)[i] = x
<1> DEFINE n == Cardinality(S)
           q == InOrder(S)
<1>1. n \in Nat BY FS_CardinalityType
<1>2. PICK f : Increases(f, n, S) BY Ordered
<1>3. f \in [1..n -> S] /\ \A i, j \in DOMAIN f : i < j => f[i] < f[j] BY <1>2 DEF Increases
<1>4. q \in [1..n -> S] /\ \A i, j \in DOMAIN q : i < j => q[i] < q[j] BY <1>3 DEF InOrder
<1> HIDE DEF q
<1>5. Increases(q, n, S)
  <2>1. DOMAIN q = 1..n BY <1>4
  <2> QED BY <1>4, <2>1 DEF Increases
<1> QED BY <1>5, IncreasesIs DEF q

\* Sub picks elements of the sequence.
LEMMA SubIs ==
  ASSUME NEW T, NEW s \in Seq(T), NEW S \in SUBSET (1..Len(s))
  PROVE  /\ Sub(s, S) \in Seq(T) /\ Len(Sub(s, S)) = Cardinality(S)
         /\ \A j \in 1..Cardinality(S) : \E i \in S : Sub(s, S)[j] = s[i]
<1>1. S \in SUBSET Int /\ Len(s) \in Nat BY LenProperties
<1>2. IsFiniteSet(1..Len(s)) BY <1>1, FS_Interval
<1>3. IsFiniteSet(S) BY <1>2, FS_Subset
<1> DEFINE q == InOrder(S)
<1>4. q \in Seq(S) /\ Len(q) = Cardinality(S) BY <1>1, <1>3, InOrderIs
<1>5. Picks(Sub(s, S), s, q) BY DEF Sub, Picks
<1> HIDE DEF q
<1>6. /\ Sub(s, S) \in Seq(T) /\ Len(Sub(s, S)) = Len(q)
      /\ \A j \in 1..Len(q) : \E i \in S : Sub(s, S)[j] = s[i]
  BY <1>4, <1>5, PickedIs
<1> QED BY <1>4, <1>6

-----------------------------------------------------------------------------
(* What a server makes of a command                                        *)

\* What a command stores is a value.
LEMMA ValueKinds ==
  /\ Nothing \in ValueSet /\ Hash \in ValueSet
  /\ \A v \in STRING : Str(v) \in ValueSet
  /\ \A s \in Seq(STRING) : List(s) \in ValueSet
  /\ \A S \in SUBSET STRING : IsFiniteSet(S) => Set(S) \in ValueSet
<1>1. {"none", "string", "list", "set", "hash"} \subseteq STRING BY ZenonT(60), WordsAssumption
<1>2. <<>> \in Seq(STRING) /\ IsFiniteSet({}) BY EmptySeq, FS_EmptySet
<1>3. Nothing \in ValueSet BY <1>1, <1>2 DEF Nothing, Stored, ValueSet, IsValue
<1>4. Hash \in ValueSet BY <1>1, <1>2 DEF Nothing, Hash, Stored, ValueSet, IsValue
<1>5. ASSUME NEW v \in STRING PROVE Str(v) \in ValueSet
  <2>1. <<v>> \in Seq(STRING) /\ Len(<<v>>) = 1 BY Zenon, OneElement
  <2> DEFINE w == <<v>>
  <2>2. w \in Seq(STRING) /\ Len(w) = 1 BY Zenon, <2>1
  <2>3. Str(v) = Stored("string", w, {}) BY DEF Str
  <2> HIDE DEF w
  <2>4. Stored("string", w, {}) \in ValueSet
    BY <1>1, <1>2, <2>2 DEF Nothing, Stored, ValueSet, IsValue
  <2> QED BY <2>3, <2>4
<1>6. ASSUME NEW s \in Seq(STRING) PROVE List(s) \in ValueSet
  <2>1. s # <<>> => Stored("list", s, {}) \in ValueSet
    BY <1>1, <1>2 DEF Nothing, Stored, ValueSet, IsValue
  <2> QED BY <1>3, <2>1 DEF List
<1>7. ASSUME NEW S \in SUBSET STRING, IsFiniteSet(S) PROVE Set(S) \in ValueSet
  <2>1. S # {} => Stored("set", <<>>, S) \in ValueSet
    BY <1>1, <1>2, <1>7 DEF Nothing, Stored, ValueSet, IsValue
  <2> QED BY <1>3, <2>1 DEF Set
<1> QED BY <1>3, <1>4, <1>5, <1>6, <1>7

\* What a value has: its fields, and a word if it is a string.
LEMMA ValueIs ==
  ASSUME NEW v \in ValueSet
  PROVE  /\ v.type \in STRING /\ v.seq \in Seq(STRING) /\ v.set \in SUBSET STRING
         /\ IsFiniteSet(v.set)
         /\ v.type = "string" => v.seq[1] \in STRING
         /\ v.type = "set" => v.set # {}
<1>1. /\ v \in [type : STRING, seq : Seq(STRING), set : SUBSET STRING] /\ IsFiniteSet(v.set)
      /\ v.type # "set" <=> v.set = {}
      /\ v.type = "string" => Len(v.seq) = 1
  BY DEF ValueSet, IsValue
<1>2. v.type \in STRING /\ v.seq \in Seq(STRING) /\ v.set \in SUBSET STRING BY <1>1
<1>3. ASSUME v.type = "string" PROVE v.seq[1] \in STRING
  <2>1. Len(v.seq) = 1 BY <1>1, <1>3
  <2>2. 1 \in 1..Len(v.seq) BY <2>1
  <2> QED BY <1>2, <2>2, ElementOfSeq
<1> QED BY <1>1, <1>2, <1>3

\* The replies of the servers.
LEMMA ReplyKinds ==
  /\ \A w \in STRING : Reply("status", <<w>>, 0) \in Replies
  /\ OK \in Replies /\ Error \in Replies /\ Reply("header", <<>>, 0) \in Replies
  /\ \A n \in Int : Count(n) \in Replies
  /\ \A w \in STRING : Bulk(w) \in Replies
  /\ \A s \in Seq(STRING) : Multi(s) \in Replies
<1>1. {"status", "int", "bulk", "multi", "error", "header", "OK", "ERR"} \subseteq STRING
  BY ZenonT(60), WordsAssumption
<1>2. <<>> \in Seq(STRING) BY EmptySeq
<1>3. \A w \in STRING : <<w>> \in Seq(STRING) /\ <<w>> # <<>> BY Zenon, OneElement
<1>0. 0 \in Int OBVIOUS
<1>4. ASSUME NEW t \in STRING, NEW s \in Seq(STRING), NEW n \in Int, t = "bulk" => s # <<>>
      PROVE  Reply(t, s, n) \in Replies
  BY <1>4 DEF Reply, Replies
<1>5. \A w \in STRING : Reply("status", <<w>>, 0) \in Replies BY <1>0, <1>1, <1>3, <1>4
<1>6. OK \in Replies BY <1>1, <1>5 DEF OK
<1>7. Error \in Replies
  <2>1. <<"ERR">> \in Seq(STRING) BY <1>1, <1>3
  <2> QED BY <1>0, <1>1, <1>4, <2>1 DEF Error
<1>8. Reply("header", <<>>, 0) \in Replies BY <1>0, <1>1, <1>2, <1>4
<1>9. \A n \in Int : Count(n) \in Replies BY <1>0, <1>1, <1>2, <1>4 DEF Count
<1>10. \A w \in STRING : Bulk(w) \in Replies BY <1>0, <1>1, <1>3, <1>4 DEF Bulk
<1>11. \A s \in Seq(STRING) : Multi(s) \in Replies BY <1>0, <1>1, <1>4 DEF Multi
<1> QED BY <1>5, <1>6, <1>7, <1>8, <1>9, <1>10, <1>11

Answered(a) == a.db \in Databases /\ a.reply \in Replies

\* An answer is a database and a reply.
LEMMA AnswerIs ==
  ASSUME NEW D \in Databases, NEW r \in Replies
  PROVE  Answered(Answer(D, r))
BY DEF Answered, Answer

\* The database with another value at a key.
LEMMA ExceptIs ==
  ASSUME NEW D \in Databases, NEW k \in Keys, NEW v \in ValueSet
  PROVE  [D EXCEPT ![k] = v] \in Databases
BY DEF Databases

\* MSET leaves a database.
LEMMA AllSetIs ==
  ASSUME NEW D \in Databases, NEW pairs \in Seq(STRING), Len(pairs) % 2 = 0
  PROVE  AllSet(D, pairs) \in Databases
<1>0. Len(pairs) \in Nat /\ DOMAIN pairs = 1..Len(pairs) BY LenProperties
<1> SUFFICES ASSUME NEW k \in Keys PROVE AllSet(D, pairs)[k] \in ValueSet
  BY DEF AllSet, Databases
<1> DEFINE odd == {i \in DOMAIN pairs : i % 2 = 1 /\ pairs[i] = k}
           last == CHOOSE i \in odd : \A j \in odd : j <= i
<1>1. AllSet(D, pairs)[k] = IF odd = {} THEN D[k] ELSE Str(pairs[last + 1]) BY DEF AllSet
<1>2. CASE odd = {} BY <1>1, <1>2 DEF Databases
<1>3. CASE odd # {}
  <2>1. odd \in SUBSET Int /\ odd \subseteq 1..Len(pairs) BY <1>0
  <2>2. IsFiniteSet(1..Len(pairs))
    <3>1. 1 \in Int /\ Len(pairs) \in Int BY <1>0
    <3> QED BY <3>1, FS_Interval
  <2>3. IsFiniteSet(odd) BY <2>1, <2>2, FS_Subset
  <2>4. \E i \in odd : \A j \in odd : j <= i
    <3> HIDE DEF odd
    <3> QED BY <1>3, <2>1, <2>3, Greatest
  <2>5. last \in odd
    <3> HIDE DEF odd
    <3> QED BY <2>4
  <2>6. last \in 1..Len(pairs) /\ last % 2 = 1
    <3> HIDE DEF last
    <3> QED BY <1>0, <2>5
  <2>7. last + 1 \in 1..Len(pairs)
    <3> HIDE DEF last
    <3> DEFINE n == Len(pairs)
    <3>1. n \in Nat /\ n % 2 = 0 /\ last \in 1..n /\ last % 2 = 1 BY <1>0, <2>6
    <3>2. last # n BY <3>1
    <3> HIDE DEF n
    <3>3. last + 1 \in 1..n BY <3>1, <3>2
    <3> QED BY <3>3 DEF n
  <2>8. pairs[last + 1] \in STRING
    <3> HIDE DEF last
    <3> QED BY <2>7, ElementOfSeq
  <2> QED BY <1>1, <1>3, <2>8, ValueKinds
<1> QED BY <1>2, <1>3

\* So do SADD and SREM,
LEMMA OnSetIs ==
  ASSUME NEW D \in Databases, NEW verb, NEW key \in Keys, NEW ms \in SUBSET STRING,
         IsFiniteSet(ms)
  PROVE  Answered(OnSet(D, verb, key, ms))
<1> DEFINE S == D[key].set
           new == IF verb = "SADD" THEN S \cup ms ELSE S \ ms
           diff == Cardinality(new \ S) + Cardinality(S \ new)
<1>1. S \in SUBSET STRING /\ IsFiniteSet(S)
  <2>1. D[key] \in ValueSet BY DEF Databases
  <2> QED BY <2>1, ValueIs
<1>2. new \in SUBSET STRING /\ IsFiniteSet(new)
  <2> HIDE DEF S
  <2>1. IsFiniteSet(S \cup ms) /\ IsFiniteSet(S \ ms) BY <1>1, FS_Union, FS_Difference
  <2> QED BY <1>1, <2>1
<1>3. diff \in Int
  <2> HIDE DEF S, new
  <2>1. IsFiniteSet(new \ S) /\ IsFiniteSet(S \ new) BY <1>1, <1>2, FS_Difference
  <2>2. Cardinality(new \ S) \in Nat /\ Cardinality(S \ new) \in Nat BY <2>1, FS_CardinalityType
  <2> QED BY <2>2
<1>4. OnSet(D, verb, key, ms) = Answer([D EXCEPT ![key] = Set(new)], Count(diff)) BY DEF OnSet
<1>5. Set(new) \in ValueSet
  <2> HIDE DEF new
  <2> QED BY <1>2, ValueKinds
<1>6. Count(diff) \in Replies
  <2> HIDE DEF diff
  <2> QED BY <1>3, ReplyKinds
<1> HIDE DEF new, diff
<1> QED BY <1>4, <1>5, <1>6, ExceptIs, AnswerIs

\* Sets combined.
LEMMA CombinedIs ==
  ASSUME NEW D \in Databases, NEW keys \in Seq(Keys), keys # <<>>,
         NEW verb \in {"SINTER", "SUNION", "SDIFF"}
  PROVE  Combined(D, verb, keys) \in SUBSET STRING /\ IsFiniteSet(Combined(D, verb, keys))
<1> DEFINE sets == {D[k].set : k \in ToSet(keys)}
           C == Combined(D, verb, keys)
<1>1. ToSet(keys) \subseteq Keys /\ IsFiniteSet(ToSet(keys)) BY ToSetFinite
<1>2. keys[1] \in Keys
  <2>1. 1 \in 1..Len(keys) BY EmptySeq
  <2> QED BY <2>1, ElementOfSeq
<1>3. \A k \in Keys : D[k].set \in SUBSET STRING /\ IsFiniteSet(D[k].set)
  <2> SUFFICES ASSUME NEW k \in Keys
               PROVE  D[k].set \in SUBSET STRING /\ IsFiniteSet(D[k].set) OBVIOUS
  <2>1. D[k] \in ValueSet BY DEF Databases
  <2> QED BY <2>1, ValueIs
<1>4. IsFiniteSet(sets)
  <2> DEFINE f == [k \in ToSet(keys) |-> D[k].set]
  <2>1. f \in Surjection(ToSet(keys), sets) BY DEF Surjection
  <2> HIDE DEF f, sets
  <2> QED BY <1>1, <2>1, FS_Surjection
<1>5. CASE verb = "SINTER"
  <2>1. C \subseteq D[keys[1]].set BY <1>5 DEF Combined
  <2> QED BY <1>2, <1>3, <2>1, FS_Subset
<1>6. CASE verb = "SUNION"
  <2>1. C = UNION sets BY <1>6 DEF Combined
  <2>2. \A S \in sets : S \in SUBSET STRING /\ IsFiniteSet(S) BY <1>1, <1>3
  <2>3. IsFiniteSet(UNION sets)
    <3> HIDE DEF sets
    <3> QED BY <1>4, <2>2, FS_UNION
  <2>4. UNION sets \in SUBSET STRING
    <3> HIDE DEF sets
    <3> QED BY <2>2
  <2> QED BY <2>1, <2>3, <2>4
<1>7. CASE verb = "SDIFF"
  <2>1. C \subseteq D[keys[1]].set BY <1>7 DEF Combined
  <2> QED BY <1>2, <1>3, <2>1, FS_Subset
<1> QED BY <1>5, <1>6, <1>7

\* What a database holds under a key.
LEMMA ValuesAre ==
  ASSUME NEW D \in Databases, NEW k \in Keys
  PROVE  /\ D[k] \in ValueSet /\ D[k].type \in STRING /\ D[k].seq \in Seq(STRING)
         /\ D[k].set \in SUBSET STRING /\ IsFiniteSet(D[k].set)
         /\ D[k].type = "string" => D[k].seq[1] \in STRING
         /\ D[k].type = "set" => D[k].set # {}
<1>1. D[k] \in ValueSet BY DEF Databases
<1> QED BY <1>1, ValueIs

\* The replies that depend on nothing.
LEMMA PlainReplies ==
  /\ Error \in Replies /\ OK \in Replies /\ Count(0) \in Replies /\ Count(1) \in Replies
  /\ Bulk(Missing) \in Replies
<1>1. Missing \in STRING BY WordsAssumption, Zenon DEF Missing
<1>2. 0 \in Int /\ 1 \in Int OBVIOUS
<1> QED BY <1>1, <1>2, ReplyKinds

\* GET, and then the other commands: each has an answer on every database.
LEMMA GetIs ==
  ASSUME NEW D \in Databases, NEW key \in Keys PROVE Answered(GetOf(D, key))
<1>1. \/ GetOf(D, key) = Answer(D, Bulk(Missing))
      \/ D[key].type = "string" /\ GetOf(D, key) = Answer(D, Bulk(D[key].seq[1]))
      \/ GetOf(D, key) = Answer(D, Error)
  BY DEF GetOf, IsOf, Has
<1>2. D[key].type = "string" => Bulk(D[key].seq[1]) \in Replies BY ValuesAre, ReplyKinds
<1> QED BY <1>1, <1>2, PlainReplies, AnswerIs

\* SET.
LEMMA SetIs ==
  ASSUME NEW D \in Databases, NEW key \in Keys, NEW word \in STRING
  PROVE  Answered(SetTo(D, key, word))
<1>1. Str(word) \in ValueSet BY ValueKinds
<1> QED BY <1>1, PlainReplies, ExceptIs, AnswerIs DEF SetTo

\* MGET.
LEMMA MGetIs ==
  ASSUME NEW D \in Databases, NEW keys \in Seq(Keys) PROVE Answered(MGetOf(D, keys))
<1> DEFINE w(i) == IF D[keys[i]].type = "string" THEN D[keys[i]].seq[1] ELSE Missing
           ws == [i \in DOMAIN keys |-> w(i)]
<1>0. DOMAIN keys = 1..Len(keys) /\ Len(keys) \in Nat BY LenProperties
<1>1. \A i \in 1..Len(keys) : w(i) \in STRING
  <2> SUFFICES ASSUME NEW i \in 1..Len(keys) PROVE w(i) \in STRING OBVIOUS
  <2>1. keys[i] \in Keys BY ElementOfSeq
  <2>2. D[keys[i]].type = "string" => D[keys[i]].seq[1] \in STRING BY <2>1, ValuesAre
  <2>3. Missing \in STRING BY WordsAssumption, Zenon DEF Missing
  <2> QED BY <2>2, <2>3
<1>2. ws \in [1..Len(keys) -> STRING]
  <2> HIDE DEF w
  <2> QED BY <1>0, <1>1
<1>3. ws \in Seq(STRING)
  <2> HIDE DEF ws
  <2> QED BY <1>0, <1>2, SeqDef
<1>4. MGetOf(D, keys) = Answer(D, Multi(ws)) BY DEF MGetOf
<1> HIDE DEF ws
<1> QED BY <1>3, <1>4, ReplyKinds, AnswerIs

\* The keys that are there are finitely many words.
LEMMA HeldIs ==
  ASSUME NEW D
  PROVE  Held(D) \in SUBSET Keys /\ IsFiniteSet(Held(D)) /\ Held(D) \in SUBSET STRING
<1>1. Held(D) \in SUBSET Keys BY DEF Held
<1> QED BY <1>1, KeysAssumption, FS_Subset

\* DEL.
LEMMA DelIs ==
  ASSUME NEW D \in Databases, NEW keys PROVE Answered(DelOf(D, keys))
<1> DEFINE E == [k \in Keys |-> IF k \in ToSet(keys) THEN Nothing ELSE D[k]]
           S == Held(D) \cap ToSet(keys)
<1>1. E \in Databases BY ValueKinds DEF Databases
<1>2. Cardinality(S) \in Int
  <2>1. IsFiniteSet(S) BY HeldIs, FS_Intersection
  <2> HIDE DEF S
  <2> QED BY <2>1, FS_CardinalityType
<1>3. DelOf(D, keys) = Answer(E, Count(Cardinality(S))) BY DEF DelOf
<1> HIDE DEF E, S
<1> QED BY <1>1, <1>2, <1>3, ReplyKinds, AnswerIs

\* EXISTS and EXPIRE.
LEMMA ExistsIs ==
  ASSUME NEW D \in Databases, NEW key PROVE Answered(Exists(D, key))
<1>1. Exists(D, key) \in {Answer(D, Count(0)), Answer(D, Count(1))} BY DEF Exists
<1> QED BY <1>1, PlainReplies, AnswerIs

\* TYPE.
LEMMA TypeIs ==
  ASSUME NEW D \in Databases, NEW key \in Keys PROVE Answered(TypeOf(D, key))
<1>1. Reply("status", <<D[key].type>>, 0) \in Replies BY ValuesAre, ReplyKinds
<1> QED BY <1>1, AnswerIs DEF TypeOf

\* KEYS, DBSIZE, RANDOMKEY.
LEMMA InventoryIs ==
  ASSUME NEW D \in Databases
  PROVE  Answered(AllKeys(D)) /\ Answered(DbSize(D)) /\ Answered(RandomKey(D))
<1>1. Answered(AllKeys(D))
  <2>1. SetToSeq(Held(D)) \in Seq(Held(D)) BY HeldIs, SetToSeqIs
  <2>2. SetToSeq(Held(D)) \in Seq(STRING) BY <2>1, HeldIs, SeqMonotonic
  <2> QED BY <2>2, ReplyKinds, AnswerIs DEF AllKeys
<1>2. Answered(DbSize(D))
  <2>1. Cardinality(Held(D)) \in Int BY HeldIs, FS_CardinalityType
  <2> QED BY <2>1, ReplyKinds, AnswerIs DEF DbSize
<1>3. Answered(RandomKey(D))
  <2>1. CASE Held(D) # {}
    <3> DEFINE k == CHOOSE x \in Held(D) : TRUE
    <3>1. k \in Held(D) BY <2>1
    <3>2. RandomKey(D) = Answer(D, Bulk(k)) BY <2>1 DEF RandomKey
    <3> HIDE DEF k
    <3>3. k \in STRING BY <3>1, HeldIs
    <3> QED BY <3>2, <3>3, ReplyKinds, AnswerIs
  <2>2. CASE Held(D) = {}
    <3>1. RandomKey(D) = Answer(D, Bulk(Missing)) BY <2>2 DEF RandomKey
    <3> QED BY <3>1, PlainReplies, AnswerIs
  <2> QED BY <2>1, <2>2
<1> QED BY <1>1, <1>2, <1>3

\* RENAME and RENAMENX.
LEMMA RenameIs ==
  ASSUME NEW D \in Databases, NEW key \in Keys, NEW to \in Keys
  PROVE  Answered(RenameTo(D, key, to)) /\ Answered(RenameUnless(D, key, to))
<1>1. Nothing \in ValueSet BY ValueKinds
<1>2. Moved(D, key, to) \in Databases BY <1>1 DEF Moved, Databases
<1>3. RenameTo(D, key, to) \in {Answer(D, Error), Answer(Moved(D, key, to), OK)} BY DEF RenameTo
<1>4. RenameUnless(D, key, to) \in {Answer(D, Error), Answer(D, Count(0)),
                                    Answer(Moved(D, key, to), Count(1))}
  BY DEF RenameUnless
<1> QED BY <1>2, <1>3, <1>4, PlainReplies, AnswerIs

\* LRANGE and RPUSH.
LEMMA ListsAre ==
  ASSUME NEW D \in Databases, NEW key \in Keys
  PROVE  /\ Answered(Elements(D, key))
         /\ \A word \in STRING : Answered(Push(D, key, word))
<1> DEFINE s == D[key].seq
<1>1. s \in Seq(STRING) BY ValuesAre
<1>2. Multi(s) \in Replies BY <1>1, ReplyKinds
<1>3. Answered(Elements(D, key))
  <2>1. Elements(D, key) \in {Answer(D, Multi(s)), Answer(D, Error)} BY DEF Elements
  <2> QED BY <1>2, <2>1, PlainReplies, AnswerIs
<1>4. ASSUME NEW word \in STRING PROVE Answered(Push(D, key, word))
  <2> DEFINE t == Append(s, word)
             E == [D EXCEPT ![key] = List(t)]
             n == Len(s) + 1
  <2>1. Push(D, key, word) \in {Answer(D, Error), Answer(E, Count(n))} BY DEF Push
  <2> HIDE DEF s
  <2>2. t \in Seq(STRING) BY <1>1, AppendProperties
  <2>3. n \in Int BY <1>1, LenProperties
  <2> HIDE DEF n, t
  <2>4. List(t) \in ValueSet /\ Count(n) \in Replies BY <2>2, <2>3, ValueKinds, ReplyKinds
  <2>5. E \in Databases BY <2>4, ExceptIs
  <2> HIDE DEF E
  <2> QED BY <2>1, <2>4, <2>5, PlainReplies, AnswerIs
<1> QED BY <1>3, <1>4

\* SMEMBERS, SPOP, SADD and SREM.
LEMMA SetsAre ==
  ASSUME NEW D \in Databases, NEW key \in Keys
  PROVE  /\ Answered(Members(D, key)) /\ Answered(Pop(D, key))
         /\ \A verb : \A ms \in SUBSET STRING :
              IsFiniteSet(ms) => Answered(Change(D, verb, key, ms))
<1> DEFINE S == D[key].set
<1>1. S \in SUBSET STRING /\ IsFiniteSet(S) /\ (D[key].type = "set" => S # {}) BY ValuesAre
<1>2. Answered(Members(D, key))
  <2>1. Members(D, key) \in {Answer(D, Multi(SetToSeq(S))), Answer(D, Error)} BY DEF Members
  <2> HIDE DEF S
  <2>2. SetToSeq(S) \in Seq(S) BY <1>1, SetToSeqIs
  <2>3. SetToSeq(S) \in Seq(STRING) BY <1>1, <2>2, SeqMonotonic
  <2> QED BY <2>1, <2>3, ReplyKinds, PlainReplies, AnswerIs
<1>3. Answered(Pop(D, key))
  <2> DEFINE m == CHOOSE x \in S : TRUE
             E == [D EXCEPT ![key] = Set(S \ {m})]
  <2>1. \/ Pop(D, key) \in {Answer(D, Error), Answer(D, Bulk(Missing))}
        \/ D[key].type = "set" /\ Pop(D, key) = Answer(E, Bulk(m))
    BY DEF Pop, IsOf, Has
  <2>2. ASSUME D[key].type = "set" PROVE E \in Databases /\ Bulk(m) \in Replies
    <3> HIDE DEF S
    <3>1. m \in S BY <1>1, <2>2
    <3> HIDE DEF m
    <3>2. m \in STRING /\ S \ {m} \in SUBSET STRING BY <1>1, <3>1
    <3>3. IsFiniteSet(S \ {m}) BY <1>1, FS_RemoveElement
    <3> DEFINE R == S \ {m}
    <3>4. Set(R) \in ValueSet
      <4>1. R \in SUBSET STRING /\ IsFiniteSet(R) BY <3>2, <3>3
      <4> HIDE DEF R
      <4> QED BY <4>1, ValueKinds
    <3> HIDE DEF R
    <3> QED BY <3>2, <3>4, ReplyKinds, ExceptIs DEF R
  <2> HIDE DEF E, m
  <2> QED BY <2>1, <2>2, PlainReplies, AnswerIs
<1>4. ASSUME NEW verb, NEW ms \in SUBSET STRING, IsFiniteSet(ms)
      PROVE  Answered(Change(D, verb, key, ms))
  <2>1. Change(D, verb, key, ms) \in {Answer(D, Error), OnSet(D, verb, key, ms)} BY DEF Change
  <2>2. Answered(OnSet(D, verb, key, ms)) BY <1>4, OnSetIs
  <2> QED BY <2>1, <2>2, PlainReplies, AnswerIs
<1> QED BY <1>2, <1>3, <1>4

\* SMOVE.
LEMMA MoveMemberIs ==
  ASSUME NEW D \in Databases, NEW key \in Keys, NEW to \in Keys, NEW member \in STRING
  PROVE  Answered(MoveMember(D, key, to, member))
<1> DEFINE ms == {member}
           D1 == OnSet(D, "SREM", key, ms).db
           D2 == OnSet(D1, "SADD", to, ms).db
<1>1. ms \in SUBSET STRING /\ IsFiniteSet(ms) BY FS_Singleton
<1>2. D1 \in Databases
  <2> HIDE DEF ms
  <2> QED BY <1>1, OnSetIs DEF Answered
<1>3. D2 \in Databases
  <2> HIDE DEF ms, D1
  <2> QED BY <1>1, <1>2, OnSetIs DEF Answered
<1>4. MoveMember(D, key, to, member)
        \in {Answer(D, Error), Answer(D, Count(0)), Answer(D2, Count(1))}
  BY DEF MoveMember
<1> HIDE DEF D2
<1> QED BY <1>3, <1>4, PlainReplies, AnswerIs

\* SINTER, SUNION, SDIFF, and the forms that store.
LEMMA CombineIs ==
  ASSUME NEW D \in Databases, NEW keys \in Seq(Keys), keys # <<>>,
         NEW verb \in {"SINTER", "SUNION", "SDIFF"}
  PROVE  /\ Answered(Combine(D, verb, keys))
         /\ \A key \in Keys : Answered(CombineTo(D, verb, key, keys))
<1> DEFINE C == Combined(D, verb, keys)
<1>1. C \in SUBSET STRING /\ IsFiniteSet(C) BY CombinedIs
<1>2. Combine(D, verb, keys) \in {Answer(D, Multi(SetToSeq(C))), Answer(D, Error)}
  BY DEF Combine
<1>3. \A key \in Keys : CombineTo(D, verb, key, keys)
        \in {Answer([D EXCEPT ![key] = Set(C)], Count(Cardinality(C))), Answer(D, Error)}
  BY DEF CombineTo
<1> HIDE DEF C
<1>4. SetToSeq(C) \in Seq(STRING)
  <2>1. SetToSeq(C) \in Seq(C) BY <1>1, SetToSeqIs
  <2> QED BY <1>1, <2>1, SeqMonotonic
<1>5. Set(C) \in ValueSet BY <1>1, ValueKinds
<1>6. Cardinality(C) \in Int BY <1>1, FS_CardinalityType
<1>7. Answered(Combine(D, verb, keys)) BY <1>2, <1>4, ReplyKinds, PlainReplies, AnswerIs
<1>8. ASSUME NEW key \in Keys PROVE Answered(CombineTo(D, verb, key, keys))
  <2>1. [D EXCEPT ![key] = Set(C)] \in Databases BY <1>5, ExceptIs
  <2>2. Count(Cardinality(C)) \in Replies BY <1>6, ReplyKinds
  <2> QED BY <1>3, <2>1, <2>2, PlainReplies, AnswerIs
<1> QED BY <1>7, <1>8

\* The arguments of a command whose arguments are keys.
LEMMA KeysAre ==
  ASSUME NEW cmd \in Seq(STRING), Len(cmd) > 1, \A i \in 2..Len(cmd) : cmd[i] \in Keys
  PROVE  /\ Tail(cmd) \in Seq(Keys) /\ Tail(cmd) # <<>>
         /\ Tail(Tail(cmd)) \in Seq(Keys) /\ (Len(cmd) > 2 => Tail(Tail(cmd)) # <<>>)
         /\ cmd[2] \in Keys
<1> DEFINE n == Len(cmd) - 1
           t == Tail(cmd)
<1>0. cmd # <<>> BY EmptySeq
<1>1. t \in Seq(STRING) /\ Len(t) = n /\ n \in Nat \ {0} /\ \A i \in 1..n : t[i] = cmd[i + 1]
  BY <1>0, ArgsAre
<1>2. \A i \in 1..n : t[i] \in Keys
  <2> SUFFICES ASSUME NEW i \in 1..n PROVE t[i] \in Keys OBVIOUS
  <2>1. i + 1 \in 2..Len(cmd) BY <1>1
  <2> QED BY <1>1, <2>1
<1> HIDE DEF t
<1>3. t \in [1..n -> Keys]
  <2>1. t \in [1..n -> STRING] BY <1>1, LenProperties
  <2> QED BY <1>2, <2>1
<1>4. t \in Seq(Keys) /\ t # <<>>
  <2> HIDE DEF n
  <2>1. t \in Seq(Keys) BY <1>1, <1>3, SeqDef
  <2> QED BY <1>1, <2>1, EmptySeq
<1>5. Tail(t) \in Seq(Keys) /\ Len(Tail(t)) = Len(t) - 1 BY <1>4, HeadTailProperties
<1>6. ASSUME Len(cmd) > 2 PROVE Tail(t) # <<>>
  <2> DEFINE u == Tail(t)
  <2>1. Len(u) > 0 BY <1>1, <1>5, <1>6
  <2> HIDE DEF u
  <2>2. u # <<>> BY <2>1, EmptySeq
  <2> QED BY <2>2 DEF u
<1>7. 2 \in 2..Len(cmd) BY <1>1
<1> QED BY <1>4, <1>5, <1>6, <1>7 DEF t

\* Run on the commands without a key,
LEMMA RunForAll ==
  ASSUME NEW D \in Databases, NEW cmd, cmd[1] \in ForAll PROVE Answered(Run(D, cmd))
<1>1. CASE cmd[1] \in {"KEYS", "DBSIZE", "RANDOMKEY"}
  <2>1. /\ cmd[1] = "KEYS" => Run(D, cmd) = AllKeys(D)
        /\ cmd[1] = "DBSIZE" => Run(D, cmd) = DbSize(D)
        /\ cmd[1] = "RANDOMKEY" => Run(D, cmd) = RandomKey(D)
    BY Zenon DEF Run, Plain
  <2> QED BY SMTT(60), <1>1, <2>1, InventoryIs
<1>2. CASE cmd[1] = "FLUSHDB"
  <2> DEFINE E == [k \in Keys |-> Nothing]
  <2>1. Run(D, cmd) = Answer(E, OK) BY <1>2 DEF Run, Plain
  <2>2. E \in Databases BY ValueKinds DEF Databases
  <2> HIDE DEF E
  <2> QED BY <2>1, <2>2, PlainReplies, AnswerIs
<1>3. CASE cmd[1] \in {"SAVE", "AUTH"}
  <2>1. Run(D, cmd) = Answer(D, OK) BY <1>3, Zenon DEF Run, Plain
  <2> QED BY <2>1, PlainReplies, AnswerIs
<1>4. CASE cmd[1] = "BGSAVE"
  <2>1. Run(D, cmd) = Answer(D, Reply("status", <<"Background saving started">>, 0))
    BY <1>4 DEF Run, Plain
  <2>2. "Background saving started" \in STRING BY Zenon, WordsAssumption
  <2> QED BY Zenon, <2>1, <2>2, ReplyKinds, AnswerIs
<1> QED BY <1>1, <1>2, <1>3, <1>4 DEF ForAll

\* with one key,
LEMMA RunForOne ==
  ASSUME NEW D \in Databases, NEW cmd \in Seq(STRING), Len(cmd) > 1, cmd[2] \in Keys,
         cmd[1] \in ForOne, cmd[1] \in {"SET", "RPUSH"} => Len(cmd) > 2
  PROVE  Answered(Run(D, cmd))
<1> DEFINE k  == cmd[2]
           ms == ToSet(Tail(Tail(cmd)))
<1>0. cmd # <<>> /\ Len(cmd) \in Nat BY EmptySeq, LenProperties
<1>1a. cmd[1] = "GET" => Run(D, cmd) = GetOf(D, k) BY DEF Run, Plain
<1>1b. cmd[1] = "EXPIRE" => Run(D, cmd) = Exists(D, k) BY DEF Run, Plain
<1>1c. cmd[1] = "EXISTS" => Run(D, cmd) = Exists(D, k) BY DEF Run, Plain
<1>1d. cmd[1] = "TYPE" => Run(D, cmd) = TypeOf(D, k) BY DEF Run, Plain
<1>1e. cmd[1] = "LRANGE" => Run(D, cmd) = Elements(D, k) BY DEF Run, Plain
<1>2a. cmd[1] = "SADD" => Run(D, cmd) = Change(D, "SADD", k, ms) BY DEF Run, Plain
<1>2b. cmd[1] = "SREM" => Run(D, cmd) = Change(D, "SREM", k, ms) BY DEF Run, Plain
<1>3a. cmd[1] = "SPOP" => Run(D, cmd) = Pop(D, k) BY DEF Run, Plain
<1>3b. cmd[1] = "SMEMBERS" => Run(D, cmd) = Members(D, k) BY DEF Run, Plain
<1>4. ASSUME cmd[1] \in {"SET", "RPUSH"}
      PROVE  /\ cmd[3] \in STRING
             /\ Run(D, cmd) \in {SetTo(D, k, cmd[3]), Push(D, k, cmd[3])}
  <2>1. Len(cmd) > 2 BY <1>4
  <2>2. 3 \in 1..Len(cmd) BY <1>0, <2>1
  <2>3. cmd[3] \in STRING BY <2>2, ElementOfSeq
  <2>4. cmd[1] = "SET" => Run(D, cmd) = SetTo(D, k, cmd[3]) BY <2>1 DEF Run, Plain
  <2>5. cmd[1] = "RPUSH" => Run(D, cmd) = Push(D, k, cmd[3]) BY <2>1 DEF Run, Plain
  <2> QED BY <1>4, <2>3, <2>4, <2>5
<1>5. ms \in SUBSET STRING /\ IsFiniteSet(ms)
  <2> DEFINE t == Tail(cmd)
  <2>1. t \in Seq(STRING) /\ Len(t) = Len(cmd) - 1 BY <1>0, HeadTailProperties
  <2> HIDE DEF t
  <2>2. t # <<>> BY <1>0, <2>1, EmptySeq
  <2>3. Tail(t) \in Seq(STRING) BY <2>1, <2>2, HeadTailProperties
  <2> QED BY <2>3, ToSetFinite DEF t
<1> HIDE DEF ms
<1>6. CASE cmd[1] \in {"SET", "RPUSH"} BY <1>4, <1>6, SetIs, ListsAre
<1>7. CASE cmd[1] \in {"GET", "EXPIRE", "EXISTS", "TYPE", "LRANGE"}
  BY <1>1a, <1>1b, <1>1c, <1>1d, <1>1e, <1>7, GetIs, ExistsIs, TypeIs, ListsAre
<1>8. CASE cmd[1] \in {"SADD", "SREM", "SPOP", "SMEMBERS"}
  BY <1>2a, <1>2b, <1>3a, <1>3b, <1>5, <1>8, SetsAre
<1> QED BY <1>6, <1>7, <1>8 DEF ForOne

\* with two keys,
LEMMA RunForTwo ==
  ASSUME NEW D \in Databases, NEW cmd \in Seq(STRING), Len(cmd) > 2, cmd[2] \in Keys,
         cmd[3] \in Keys, cmd[1] \in ForTwo, cmd[1] = "SMOVE" => Len(cmd) > 3
  PROVE  Answered(Run(D, cmd))
<1>1a. cmd[1] = "RENAME" => Run(D, cmd) = RenameTo(D, cmd[2], cmd[3]) BY DEF Run, Plain
<1>1b. cmd[1] = "RENAMENX" => Run(D, cmd) = RenameUnless(D, cmd[2], cmd[3]) BY DEF Run, Plain
<1>2. ASSUME cmd[1] = "SMOVE"
      PROVE  Run(D, cmd) = MoveMember(D, cmd[2], cmd[3], cmd[4]) /\ cmd[4] \in STRING
  <2>1. Len(cmd) > 3 BY <1>2
  <2>2. Run(D, cmd) = MoveMember(D, cmd[2], cmd[3], cmd[4]) BY <1>2, <2>1 DEF Run, Plain
  <2>3. 4 \in 1..Len(cmd) BY <2>1, LenProperties
  <2> QED BY <2>2, <2>3, ElementOfSeq
<1> QED BY <1>1a, <1>1b, <1>2, RenameIs, MoveMemberIs DEF ForTwo

\* and with a list of them.
LEMMA RunForKeys ==
  ASSUME NEW D \in Databases, NEW cmd \in Seq(STRING), Len(cmd) > 1,
         \A i \in 2..Len(cmd) : cmd[i] \in Keys,
         cmd[1] \in ForKeys, cmd[1] \in DOMAIN Plain => Len(cmd) > 2
  PROVE  Answered(Run(D, cmd))
<1> DEFINE t == Tail(cmd)
           u == Tail(Tail(cmd))
<1>1a. cmd[1] = "MGET" => Run(D, cmd) = MGetOf(D, t) BY DEF Run, Plain
<1>1b. cmd[1] = "DEL" => Run(D, cmd) = DelOf(D, t) BY DEF Run, Plain
<1>2a. cmd[1] = "SINTER" => Run(D, cmd) = Combine(D, "SINTER", t) BY DEF Run, Plain
<1>2b. cmd[1] = "SUNION" => Run(D, cmd) = Combine(D, "SUNION", t) BY DEF Run, Plain
<1>2c. cmd[1] = "SDIFF" => Run(D, cmd) = Combine(D, "SDIFF", t) BY DEF Run, Plain
<1>3. ASSUME cmd[1] \in DOMAIN Plain
      PROVE  /\ Len(cmd) > 2
             /\ \/ Run(D, cmd) = CombineTo(D, "SINTER", cmd[2], u)
                \/ Run(D, cmd) = CombineTo(D, "SUNION", cmd[2], u)
                \/ Run(D, cmd) = CombineTo(D, "SDIFF", cmd[2], u)
  <2>1. Len(cmd) > 2 BY <1>3
  <2>2. cmd[1] = "SINTERSTORE" => Run(D, cmd) = CombineTo(D, "SINTER", cmd[2], u)
    BY DEF Run, Plain
  <2>3. cmd[1] = "SUNIONSTORE" => Run(D, cmd) = CombineTo(D, "SUNION", cmd[2], u)
    BY DEF Run, Plain
  <2>4. cmd[1] = "SDIFFSTORE" => Run(D, cmd) = CombineTo(D, "SDIFF", cmd[2], u)
    BY DEF Run, Plain
  <2>5. cmd[1] \in {"SINTERSTORE", "SUNIONSTORE", "SDIFFSTORE"} BY <1>3 DEF Plain
  <2> QED BY <2>1, <2>2, <2>3, <2>4, <2>5
<1>4. /\ t \in Seq(Keys) /\ t # <<>> /\ u \in Seq(Keys) /\ (Len(cmd) > 2 => u # <<>>)
      /\ cmd[2] \in Keys
  BY KeysAre
<1> HIDE DEF t, u
<1>5. CASE cmd[1] \in {"MGET", "DEL"} BY <1>1a, <1>1b, <1>4, <1>5, MGetIs, DelIs
<1>6. CASE cmd[1] \in {"SINTER", "SUNION", "SDIFF"} BY <1>2a, <1>2b, <1>2c, <1>4, <1>6, CombineIs
<1>7. CASE cmd[1] \in DOMAIN Plain
  <2>1. u # <<>> BY <1>3, <1>4, <1>7
  <2> QED BY <1>3, <1>4, <1>7, <2>1, CombineIs
<1> QED BY <1>5, <1>6, <1>7 DEF ForKeys

\* A server keeps its database in order, and its reply is one.
LEMMA RunIs ==
  ASSUME NEW D \in Databases, NEW cmd \in Plainly PROVE Answered(Run(D, cmd))
<1>0. cmd \in Seq(STRING) /\ cmd # <<>> /\ Understood(cmd) BY DEF Plainly, Understood
<1>1. CASE cmd[1] \in ForAll BY <1>1, RunForAll
<1>2. CASE cmd[1] = "MSET" /\ Len(cmd) % 2 = 1
  <2> DEFINE t == Tail(cmd)
             n == Len(cmd)
  <2>1. Run(D, cmd) = Answer(AllSet(D, t), OK) BY <1>2 DEF Run, Plain
  <2>2. t \in Seq(STRING) /\ Len(t) = n - 1 /\ n \in Nat /\ n % 2 = 1 BY <1>0, <1>2, ArgsAre
  <2> HIDE DEF t, n
  <2>3. Len(t) % 2 = 0 BY <2>2
  <2> QED BY <2>1, <2>2, <2>3, AllSetIs, PlainReplies, AnswerIs
<1>3. CASE /\ cmd[1] \in ForOne /\ Len(cmd) > 1 /\ cmd[2] \in Keys
           /\ cmd[1] \in {"SET", "RPUSH"} => Len(cmd) > 2
  BY <1>0, <1>3, RunForOne
<1>4. CASE /\ cmd[1] \in ForTwo /\ Len(cmd) > 2 /\ cmd[2] \in Keys /\ cmd[3] \in Keys
           /\ cmd[1] = "SMOVE" => Len(cmd) > 3
  BY <1>0, <1>4, RunForTwo
<1>5. CASE /\ cmd[1] \in ForKeys /\ Len(cmd) > 1 /\ (\A i \in 2..Len(cmd) : cmd[i] \in Keys)
           /\ cmd[1] \in DOMAIN Plain => Len(cmd) > 2
  BY <1>0, <1>5, RunForKeys
<1> QED BY <1>0, <1>1, <1>2, <1>3, <1>4, <1>5 DEF Understood

\* So it is with a transaction.
LEMMA RunAllIs ==
  ASSUME NEW D \in Databases, NEW cmds \in Seq(Plainly)
  PROVE  /\ RunAll(D, cmds).db \in Databases
         /\ RunAll(D, cmds).reply \in Seq(Replies) /\ Len(RunAll(D, cmds).reply) = Len(cmds)
<1> DEFINE n == Len(cmds) + 1
           step == [p \in (1..n) \X Databases |->
                      IF p[1] = 1 THEN D ELSE Run(p[2], cmds[p[1] - 1]).db]
           Is(f) == f = [i \in 1..n |-> IF i = 1 THEN D ELSE Run(f[i - 1], cmds[i - 1]).db]
           dbs == CHOOSE f : Is(f)
<1>0. n \in Nat \ {0} /\ Len(cmds) \in Nat /\ DOMAIN cmds = 1..Len(cmds) BY LenProperties
<1>1. \A i \in 1..Len(cmds) : \A E \in Databases : Answered(Run(E, cmds[i]))
  BY ElementOfSeq, RunIs
<1>2. step \in [(1..n) \X Databases -> Databases]
  <2> SUFFICES ASSUME NEW p \in (1..n) \X Databases
               PROVE  (IF p[1] = 1 THEN D ELSE Run(p[2], cmds[p[1] - 1]).db) \in Databases
    OBVIOUS
  <2>1. p[1] \in 1..n /\ p[2] \in Databases OBVIOUS
  <2>2. CASE p[1] = 1 BY <2>2
  <2>3. CASE p[1] # 1
    <3>1. p[1] - 1 \in 1..Len(cmds) BY <1>0, <2>1, <2>3
    <3> QED BY <1>1, <2>1, <2>3, <3>1 DEF Answered
  <2> QED BY <2>2, <2>3
<1>3. PICK f : f \in [1..n -> Databases] /\ IsRecursive(f, n, D, step)
  <2>1. IsStep(step, n, Databases) BY <1>2 DEF IsStep
  <2> HIDE DEF step, n
  <2> QED BY <1>0, <2>1, Recursion
<1>4. Is(f)
  <2>1. \A i \in 1..n : f[i] = IF i = 1 THEN D ELSE Run(f[i - 1], cmds[i - 1]).db
    <3> SUFFICES ASSUME NEW i \in 1..n
                 PROVE  f[i] = IF i = 1 THEN D ELSE Run(f[i - 1], cmds[i - 1]).db
      OBVIOUS
    <3>1. CASE i = 1 BY <1>3, <3>1 DEF IsRecursive
    <3>2. CASE i # 1
      <4>1. i \in 2..n /\ i - 1 \in 1..n BY <1>0, <3>2
      <4>2. f[i - 1] \in Databases BY <1>3, <4>1
      <4>3. f[i] = step[<<i, f[i - 1]>>]
        <5> HIDE DEF step, n
        <5> QED BY <1>3, <4>1 DEF IsRecursive
      <4>4. <<i, f[i - 1]>> \in (1..n) \X Databases BY <4>2
      <4>5. step[<<i, f[i - 1]>>] = Run(f[i - 1], cmds[i - 1]).db BY <3>2, <4>4
      <4> QED BY <3>2, <4>3, <4>5
    <3> QED BY <3>1, <3>2
  <2>2. f = [i \in 1..n |-> f[i]] BY <1>3
  <2> QED BY <2>1, <2>2
<1>5. Is(dbs)
  <2> HIDE DEF Is
  <2> QED BY <1>4
<1> DEFINE rs == [i \in DOMAIN cmds |-> Run(dbs[i], cmds[i]).reply]
<1>6. RunAll(D, cmds) = Answer(dbs[n], rs) BY DEF RunAll
<1> HIDE DEF dbs
<1>7. \A i \in 1..n : dbs[i] = IF i = 1 THEN D ELSE Run(dbs[i - 1], cmds[i - 1]).db
  BY <1>5
<1> DEFINE Bad == {i \in 1..n : dbs[i] \notin Databases}
<1>8. Bad = {}
  <2> SUFFICES ASSUME Bad # {} PROVE FALSE OBVIOUS
  <2>1. Bad \in SUBSET Nat BY <1>0
  <2>2. PICK i \in Bad : \A j \in Bad : i <= j
    <3> HIDE DEF Bad
    <3> QED BY <2>1, LeastNumber
  <2>3. i \in 1..n /\ i \in Nat /\ dbs[i] \notin Databases OBVIOUS
  <2>4. i # 1 BY <1>7, <2>3
  <2>5. i - 1 \in 1..n /\ i - 1 \in 1..Len(cmds) /\ i - 1 < i BY <1>0, <2>3, <2>4
  <2>6. i - 1 \notin Bad
    <3> HIDE DEF Bad
    <3>1. ~(i <= i - 1) BY <2>3
    <3> QED BY <2>2, <3>1
  <2>7. dbs[i - 1] \in Databases BY <2>5, <2>6
  <2>8. dbs[i] = Run(dbs[i - 1], cmds[i - 1]).db BY <1>7, <2>3, <2>4
  <2> QED BY <1>1, <2>3, <2>5, <2>7, <2>8 DEF Answered
<1>9. \A i \in 1..n : dbs[i] \in Databases BY <1>8
<1> HIDE DEF Bad
<1>10. \A i \in 1..Len(cmds) : Run(dbs[i], cmds[i]).reply \in Replies
  <2> SUFFICES ASSUME NEW i \in 1..Len(cmds) PROVE Run(dbs[i], cmds[i]).reply \in Replies
    OBVIOUS
  <2>1. i \in 1..n BY <1>0
  <2> QED BY <1>1, <1>9, <2>1 DEF Answered
<1>11. rs \in [1..Len(cmds) -> Replies] BY <1>0, <1>10
<1>12. rs \in Seq(Replies) /\ Len(rs) = Len(cmds)
  <2> HIDE DEF rs
  <2>1. rs \in Seq(Replies) BY <1>0, <1>11, SeqDef
  <2>2. DOMAIN rs = 1..Len(cmds) BY <1>11
  <2> QED BY <1>0, <2>1, <2>2, LenProperties
<1>13. dbs[n] \in Databases
  <2>1. n \in 1..n BY <1>0
  <2> QED BY <1>9, <2>1
<1> HIDE DEF rs, n
<1> QED BY <1>6, <1>12, <1>13 DEF Answer

\* The commands that are not for Run have verbs of their own.
Control == {"MULTI", "EXEC", "SHUTDOWN", "LASTSAVE", "FLUSHALL", "SELECT"}

\* A command on keys is not one of those that control a connection.
LEMMA PlainVerbs ==
  ASSUME NEW cmd \in Plainly
  PROVE  cmd \in Seq(STRING) /\ cmd # <<>> /\ cmd[1] \notin Control /\ cmd \in Commands
<1>1. cmd \in Seq(STRING) /\ cmd # <<>> /\ Understood(cmd) BY DEF Plainly, Understood
<1>2. cmd[1] \in ForAll \cup {"MSET"} \cup ForOne \cup ForTwo \cup ForKeys
  BY <1>1 DEF Understood
<1>3. cmd[1] \notin Control
  BY <1>2 DEF ForAll, ForOne, ForTwo, ForKeys, Plain, Control
<1> QED BY <1>1, <1>3 DEF Commands

\* Conversely, and what SELECT carries.
LEMMA ControlVerbs ==
  ASSUME NEW cmd \in Commands
  PROVE  /\ cmd[1] \notin Control => cmd \in Plainly
         /\ cmd[1] = "SELECT" => cmd[2] \in Int /\ cmd = <<"SELECT", cmd[2]>>
         /\ cmd[1] \in Control => cmd \notin Plainly
<1>1. CASE cmd \in Plainly BY <1>1, PlainVerbs DEF Control
<1>2. CASE cmd \in Specials
  BY <1>2, PlainVerbs DEF Specials, Control
<1>3. CASE cmd \in Selects
  <2>1. PICK d \in Int : cmd = <<"SELECT", d>> BY <1>3 DEF Selects
  <2>2. cmd[1] = "SELECT" /\ cmd[2] = d BY <2>1
  <2> QED BY <2>1, <2>2, PlainVerbs DEF Control
<1> QED BY <1>1, <1>2, <1>3 DEF Commands

\* A server has a position in Servers.
LEMMA PositionIs ==
  ASSUME NEW srv \in ToSet(Servers) PROVE Position(srv) \in Int
<1>1. DOMAIN Servers = 1..Len(Servers) /\ Len(Servers) \in Nat
  BY ClusterAssumption, LenProperties
<1>2. \E i \in DOMAIN Servers : Servers[i] = srv BY DEF ToSet
<1> QED BY <1>1, <1>2 DEF Position

\* What a server does outside of a transaction.
LEMMA ServeIs ==
  ASSUME NEW s, peer[s] \in ToSet(Servers), db[s] \in DBs, store \in Stores,
         NEW cmd \in Commands, cmd[1] \notin {"MULTI", "EXEC", "SHUTDOWN"}
  PROVE  /\ Serve(s, cmd).reply \in Replies /\ Serve(s, cmd).db \in DBs
         /\ Serve(s, cmd).data \in [DBs -> Databases]
         /\ cmd[1] # "SELECT" => Serve(s, cmd).db = db[s]
         /\ cmd[1] = "SELECT" =>
              /\ Serve(s, cmd).reply = IF cmd[2] \in DBs THEN OK ELSE Error
              /\ Serve(s, cmd).db = IF cmd[2] \in DBs THEN cmd[2] ELSE db[s]
<1> DEFINE S == store[peer[s]]
<1>1. S \in [DBs -> Databases] BY DEF Stores
<1>2. CASE cmd[1] = "SELECT"
  <2>1. Serve(s, cmd) = IF cmd[2] \in DBs THEN [reply |-> OK, db |-> cmd[2], data |-> S]
                        ELSE [reply |-> Error, db |-> db[s], data |-> S]
    BY <1>2 DEF Serve
  <2> HIDE DEF S
  <2> QED BY <1>1, <1>2, <2>1, PlainReplies
<1>3. CASE cmd[1] = "LASTSAVE"
  <2>1. Serve(s, cmd) = [reply |-> Count(Position(peer[s])), db |-> db[s], data |-> S]
    BY <1>3 DEF Serve
  <2>2. Count(Position(peer[s])) \in Replies BY PositionIs, ReplyKinds
  <2> HIDE DEF S
  <2> QED BY <1>1, <1>3, <2>1, <2>2
<1>4. CASE cmd[1] = "FLUSHALL"
  <2> DEFINE E == [d \in DBs |-> [k \in Keys |-> Nothing]]
  <2>1. Serve(s, cmd) = [reply |-> OK, db |-> db[s], data |-> E] BY <1>4 DEF Serve
  <2>2. E \in [DBs -> Databases] BY ValueKinds DEF Databases
  <2> HIDE DEF E
  <2> QED BY <1>4, <2>1, <2>2, PlainReplies
<1>5. CASE cmd[1] \notin {"SELECT", "LASTSAVE", "FLUSHALL"}
  <2> DEFINE a == Run(S[db[s]], cmd)
             E == [S EXCEPT ![db[s]] = a.db]
  <2>1. Serve(s, cmd) = [reply |-> a.reply, db |-> db[s], data |-> E] BY <1>5 DEF Serve
  <2>2. cmd \in Plainly BY <1>5, ControlVerbs DEF Control
  <2>3. S[db[s]] \in Databases BY <1>1
  <2>4. a.db \in Databases /\ a.reply \in Replies
    <3> HIDE DEF S
    <3> QED BY <2>2, <2>3, RunIs DEF Answered
  <2>5. E \in [DBs -> Databases]
    <3> HIDE DEF a, S
    <3> QED BY <1>1, <2>4
  <2> HIDE DEF a, E
  <2> QED BY <1>5, <2>1, <2>4, <2>5
<1> QED BY <1>2, <1>3, <1>4, <1>5

-----------------------------------------------------------------------------
(* Rounds                                                                  *)

Harmless == Plainly \cup {<<"LASTSAVE">>, <<"FLUSHALL">>}

\* Commands without a meaning for the connection fit into every round.
LEMMA HarmlessFits ==
  ASSUME NEW c, c.f \notin Selecting, NEW cmd \in Harmless, NEW r
  PROVE  cmd \in Commands /\ Fits(cmd, r, c)
<1>1. CASE cmd \in Plainly
  <2>1. cmd[1] \notin {"MULTI", "EXEC", "SHUTDOWN", "SELECT"} /\ cmd \in Commands
    BY <1>1, PlainVerbs DEF Control
  <2> QED BY <2>1 DEF Fits
<1>2. CASE cmd \in {<<"LASTSAVE">>, <<"FLUSHALL">>}
  <2>1. cmd[1] \in {"LASTSAVE", "FLUSHALL"} BY <1>2
  <2>2. cmd \in Commands BY <1>2 DEF Commands, Specials
  <2> QED BY <2>1, <2>2 DEF Fits
<1> QED BY <1>1, <1>2 DEF Harmless

\* Round makes a round.
LEMMA RoundIs ==
  ASSUME NEW T, NEW sends \in Seq(Sends(T)), NEW reads \in Seq(Reads)
  PROVE  /\ Round(sends, reads) \in Rounds(T)
         /\ Round(sends, reads).sends = sends /\ Round(sends, reads).reads = reads
BY DEF Round, Rounds

\* A command for each of some sockets, and a reply from each.
LEMMA RowOK ==
  ASSUME NEW c, c.f # "exec_transaction", NEW T, T \subseteq Int, NEW ss \in Seq(T), ss # <<>>,
         \A i, j \in 1..Len(ss) : i # j => ss[i] # ss[j],
         NEW how \in Readers, c.f \in Selecting => how = "ok",
         c.f = "open" => \A i \in 1..Len(ss) : ss[i] = c.socket,
         NEW cmds,
         \A i \in 1..Len(ss) : cmds[i] \in Commands /\ Fits(cmds[i], Row(ss, cmds, how), c)
  PROVE  RoundOK(Row(ss, cmds, how), c, T)
<1> DEFINE n == Len(ss)
           sends == [i \in DOMAIN ss |-> Send(ss[i], <<cmds[i]>>)]
           reads == [i \in DOMAIN ss |-> Read(ss[i], how)]
           r == Row(ss, cmds, how)
<1>1. n \in Nat /\ DOMAIN ss = 1..n /\ n > 0 /\ \A i \in 1..n : ss[i] \in T /\ ss[i] \in Int
  <2>1. n \in Nat /\ DOMAIN ss = 1..n /\ (\A i \in 1..n : ss[i] \in T) /\ n # 0 BY SeqFacts
  <2>2. \A i \in 1..n : ss[i] \in Int BY <2>1
  <2> HIDE DEF n
  <2> QED BY <2>1, <2>2
<1>2. \A i \in 1..n : Send(ss[i], <<cmds[i]>>) \in Sends(T)
  BY <1>1, OneElement DEF Send, Sends
<1>3. \A i \in 1..n : Read(ss[i], how) \in Reads BY <1>1 DEF Read, Reads
<1>4. sends \in [1..n -> Sends(T)] /\ reads \in [1..n -> Reads] BY <1>1, <1>2, <1>3
<1>5. \A i \in 1..n : sends[i].to = ss[i] /\ sends[i].cmds = <<cmds[i]>>
  BY <1>1 DEF Send
<1>6. \A i \in 1..n : reads[i].from = ss[i] /\ reads[i].as = how BY <1>1 DEF Read
<1>7. r = Round(sends, reads) BY DEF Row
<1> HIDE DEF sends, reads, r, n
<1>8. sends \in Seq(Sends(T)) /\ Len(sends) = n /\ DOMAIN sends = 1..n BY <1>1, <1>4, ListIs
<1>9. reads \in Seq(Reads) /\ Len(reads) = n /\ DOMAIN reads = 1..n BY <1>1, <1>4, ListIs
<1>10. r \in Rounds(T) /\ r.sends = sends /\ r.reads = reads BY <1>7, <1>8, <1>9, RoundIs
<1>11. sends # <<>> /\ reads # <<>> BY <1>1, <1>8, <1>9, SeqFacts
<1>12. \A i \in 1..n : From(r, 1, ss[i]) = {i}
  <2> SUFFICES ASSUME NEW i \in 1..n PROVE From(r, 1, ss[i]) = {i} OBVIOUS
  <2>1. From(r, 1, ss[i]) = {k \in 1..n : ss[k] = ss[i]} BY <1>6, <1>9, <1>10 DEF From
  <2> QED BY <2>1 DEF n
<1>13. \A i \in 1..n : Len(<<cmds[i]>>) = 1 /\ DOMAIN <<cmds[i]>> = {1} /\ <<cmds[i]>>[1] = cmds[i]
  OBVIOUS
<1>14. \A i \in 1..n : Cardinality(From(r, 1, ss[i])) = Len(<<cmds[i]>>)
  <2> SUFFICES ASSUME NEW i \in 1..n
               PROVE  Cardinality(From(r, 1, ss[i])) = Len(<<cmds[i]>>) OBVIOUS
  <2>1. Cardinality({i}) = 1 BY FS_Singleton
  <2> QED BY <1>12, <1>13, <2>1
<1>15. Balanced(r)
  <2>1. \A i, j \in DOMAIN r.sends : i # j => r.sends[i].to # r.sends[j].to
    BY <1>5, <1>8, <1>10 DEF n
  <2>2. \A i \in DOMAIN r.sends :
          Cardinality(From(r, 1, r.sends[i].to)) = Len(r.sends[i].cmds)
    <3> SUFFICES ASSUME NEW i \in DOMAIN r.sends
                 PROVE  Cardinality(From(r, 1, r.sends[i].to)) = Len(r.sends[i].cmds)
      OBVIOUS
    <3>1. i \in 1..n /\ r.sends[i].to = ss[i] /\ r.sends[i].cmds = <<cmds[i]>>
      BY <1>5, <1>8, <1>10
    <3> QED BY <1>14, <3>1
  <2>3. \A k \in DOMAIN r.reads : \E i \in DOMAIN r.sends : r.reads[k].from = r.sends[i].to
    BY <1>5, <1>6, <1>8, <1>9, <1>10
  <2> QED BY <2>1, <2>2, <2>3 DEF Balanced
<1>16. \A i \in DOMAIN r.sends : \A j \in DOMAIN r.sends[i].cmds : Fits(r.sends[i].cmds[j], r, c)
  BY <1>5, <1>8, <1>10, <1>13 DEF r, n
<1> QED BY <1>5, <1>6, <1>8, <1>9, <1>10, <1>11, <1>15, <1>16 DEF RoundOK, r, n

\* A round to one socket is a row of one.
LEMMA AskIsRow ==
  ASSUME NEW s, NEW cmd, NEW how
  PROVE  /\ AskAt(s, cmd, how) = Row(<<s>>, <<cmd>>, how)
         /\ Len(Row(<<s>>, <<cmd>>, how).reads) = 1 /\ Row(<<s>>, <<cmd>>, how).reads[1].as = how
BY DEF AskAt, Row, Round, Read, Send

\* A round that asks one server is sound.
LEMMA AskOK ==
  ASSUME NEW c, c.f \notin Selecting \cup {"exec_transaction"}, NEW T, T \subseteq Int,
         NEW s \in T, NEW cmd, cmd \in Harmless \/ cmd = <<"SHUTDOWN">>, NEW how \in Readers
  PROVE  RoundOK(AskAt(s, cmd, how), c, T)
<1> DEFINE r == Row(<<s>>, <<cmd>>, how)
<1>1. <<s>> \in Seq(T) /\ <<s>> # <<>> /\ Len(<<s>>) = 1 /\ <<s>>[1] = s BY OneElement
<1>2. \A i \in 1..1 : <<cmd>>[i] = cmd OBVIOUS
<1>3. Fits(cmd, r, c) /\ cmd \in Commands
  <2>1. CASE cmd \in Harmless BY <2>1, HarmlessFits
  <2>2. CASE cmd = <<"SHUTDOWN">>
    <3>1. cmd[1] = "SHUTDOWN" /\ cmd \in Commands BY <2>2 DEF Commands, Specials
    <3>2. Len(r.reads) = 1 BY AskIsRow
    <3> QED BY <3>1, <3>2 DEF Fits
  <2> QED BY <2>1, <2>2
<1>4. c.f # "open" /\ c.f \notin Selecting /\ c.f # "exec_transaction" BY DEF Selecting
<1> HIDE DEF r
<1>5. \A i \in 1..Len(<<s>>) : <<cmd>>[i] \in Commands /\ Fits(<<cmd>>[i], r, c)
  BY <1>1, <1>2, <1>3
<1>6. \A i, j \in 1..Len(<<s>>) : i # j => <<s>>[i] # <<s>>[j] BY <1>1
<1>7. RoundOK(Row(<<s>>, <<cmd>>, how), c, T) BY <1>1, <1>4, <1>5, <1>6, RowOK DEF r
<1> QED BY <1>7, AskIsRow

-----------------------------------------------------------------------------
(* Sockets                                                                 *)

\* The connections have sockets of their own, all of them in T.
Wired(T) ==
  /\ connections \in Seq(Connections) /\ connections # <<>>
  /\ T \subseteq Int /\ Owned \subseteq T /\ NoSocket \in T
  /\ \A i, j \in DOMAIN connections : i # j => connections[i].socket # connections[j].socket

\* The sockets of the connections are distinct.
LEMMA SocketsIs ==
  ASSUME NEW T, Wired(T)
  PROVE  /\ Sockets \in Seq(T) /\ Sockets # <<>> /\ Len(Sockets) = Len(connections)
         /\ \A i, j \in 1..Len(Sockets) : i # j => Sockets[i] # Sockets[j]
         /\ \A i \in 1..Len(Sockets) : Sockets[i] \in T
<1> DEFINE n == Len(connections)
<1>1. n \in Nat /\ DOMAIN connections = 1..n /\ n # 0 BY SeqFacts DEF Wired
<1>2. \A i \in 1..n : connections[i].socket \in T BY <1>1 DEF Wired, Owned
<1>3. Sockets \in [1..n -> T] /\ \A i \in 1..n : Sockets[i] = connections[i].socket
  BY <1>1, <1>2 DEF Sockets
<1>4. Sockets \in Seq(T) /\ Len(Sockets) = n
  <2> HIDE DEF n
  <2> QED BY <1>1, <1>3, ListIs
<1>5. Sockets # <<>> BY <1>1, <1>4, SeqFacts
<1> QED BY <1>1, <1>2, <1>3, <1>4, <1>5 DEF Wired

\* A hash gives the position of a connection.
LEMMA HashIs ==
  ASSUME NEW key \in Keys, NEW n \in Nat \ {0}
  PROVE  (HashOf[key] % n) + 1 \in 1..n
<1> DEFINE h == HashOf[key]
<1>1. h \in Nat BY ClusterAssumption
<1> HIDE DEF h
<1>2. h % n \in 0..(n - 1) BY <1>1
<1>3. (h % n) + 1 \in 1..n BY <1>2
<1> QED BY <1>3 DEF h

\* The socket of a key is that of a connection.
LEMMA SockIs ==
  ASSUME NEW T, Wired(T), NEW key \in Keys PROVE Sock(key) \in T /\ Sock(key) \in Owned
<1>1. Len(connections) \in Nat \ {0} /\ DOMAIN connections = 1..Len(connections)
  BY SeqFacts DEF Wired
<1>2. \E i \in DOMAIN connections : Sock(key) = connections[i].socket
  <2>1. CASE Len(connections) = 1 BY <1>1, <2>1 DEF Sock
  <2>2. CASE Len(connections) # 1
    <3>1. (HashOf[key] % Len(connections)) + 1 \in DOMAIN connections BY <1>1, HashIs
    <3> QED BY <2>2, <3>1 DEF Sock
  <2> QED BY <2>1, <2>2
<1> QED BY <1>2 DEF Wired, Owned

\* The socket of several keys is one, or none.
LEMMA SockAllIs ==
  ASSUME NEW T, Wired(T), NEW keys \in Seq(Keys), keys # <<>> PROVE SockAll(keys) \in T
<1>1. keys[1] \in Keys BY SeqFacts
<1> QED BY <1>1, SockIs DEF SockAll, Wired

\* The sockets of several keys are distinct, and all there.
LEMMA SocketsOfIs ==
  ASSUME NEW T, Wired(T), NEW keys \in Seq(Keys), keys # <<>>
  PROVE  /\ SocketsOf(keys) \in Seq(T) /\ SocketsOf(keys) # <<>>
         /\ \A i, j \in 1..Len(SocketsOf(keys)) :
              i # j => SocketsOf(keys)[i] # SocketsOf(keys)[j]
         /\ \A k \in ToSet(keys) : \E i \in 1..Len(SocketsOf(keys)) : SocketsOf(keys)[i] = Sock(k)
         /\ \A i \in 1..Len(SocketsOf(keys)) :
              \E j \in 1..Len(keys) : SocketsOf(keys)[i] = Sock(keys[j])
<1> DEFINE S == {Sock(k) : k \in ToSet(keys)}
           ss == SocketsOf(keys)
<1>1. ToSet(keys) \subseteq Keys /\ IsFiniteSet(ToSet(keys)) BY ToSetFinite
<1>2. S \in SUBSET T /\ S \in SUBSET Int BY <1>1, SockIs DEF Wired
<1>3. IsFiniteSet(S)
  <2> DEFINE f == [k \in ToSet(keys) |-> Sock(k)]
  <2>1. f \in Surjection(ToSet(keys), S) BY DEF Surjection
  <2> HIDE DEF f, S
  <2> QED BY <1>1, <2>1, FS_Surjection
<1>4. ss = InOrder(S) BY DEF SocketsOf
<1> HIDE DEF ss
<1>5. /\ ss \in Seq(S) /\ Len(ss) = Cardinality(S)
      /\ \A i, j \in 1..Cardinality(S) : i # j => ss[i] # ss[j]
      /\ \A x \in S : \E i \in 1..Cardinality(S) : ss[i] = x
  <2> HIDE DEF S
  <2> QED BY <1>2, <1>3, <1>4, InOrderIs
<1>6. Sock(keys[1]) \in S BY ToSetFinite, SeqFacts
<1>7. Len(ss) \in Nat /\ DOMAIN ss = 1..Len(ss) /\ \A i \in 1..Len(ss) : ss[i] \in S
  <2> HIDE DEF S
  <2> QED BY <1>5, SeqFacts
<1>8. ss \in Seq(T) /\ ss # <<>>
  <2> HIDE DEF S
  <2>1. \A i \in 1..Len(ss) : ss[i] \in T BY <1>2, <1>7
  <2>2. ss \in [1..Len(ss) -> S] BY <1>5, LenProperties
  <2>3. ss \in [1..Len(ss) -> T] BY <1>2, <2>2
  <2>4. ss \in Seq(T) BY <1>7, <2>3, ListIs
  <2>5. \E i \in 1..Len(ss) : TRUE BY <1>5, <1>6
  <2>6. Len(ss) # 0 BY <1>7, <2>5
  <2> QED BY <2>4, <2>6, SeqFacts
<1>9. \A i \in 1..Len(ss) : \E j \in 1..Len(keys) : ss[i] = Sock(keys[j])
  <2> SUFFICES ASSUME NEW i \in 1..Len(ss) PROVE \E j \in 1..Len(keys) : ss[i] = Sock(keys[j])
    OBVIOUS
  <2>1. PICK k \in ToSet(keys) : ss[i] = Sock(k) BY <1>7
  <2>2. PICK j \in DOMAIN keys : keys[j] = k BY <2>1 DEF ToSet
  <2> QED BY <2>1, <2>2, SeqFacts
<1> QED BY <1>5, <1>8, <1>9 DEF ss

\* A socket that has some of the keys.
LEMMA AtIs ==
  ASSUME NEW keys \in Seq(Keys), NEW s
  PROVE  /\ At(s, keys) \in Seq(Keys)
         /\ \A j \in 1..Len(keys) : s = Sock(keys[j]) => At(s, keys) # <<>>
<1> DEFINE P == {i \in DOMAIN keys : Sock(keys[i]) = s}
<1>1. DOMAIN keys = 1..Len(keys) /\ Len(keys) \in Nat BY SeqFacts
<1>2. P \in SUBSET (1..Len(keys)) BY <1>1
<1>3. At(s, keys) = Sub(keys, P) BY DEF At
<1>4. IsFiniteSet(P)
  <2> HIDE DEF P
  <2>1. IsFiniteSet(1..Len(keys)) BY <1>1, FS_Interval
  <2> QED BY <1>2, <2>1, FS_Subset
<1>5. At(s, keys) \in Seq(Keys) /\ Len(At(s, keys)) = Cardinality(P)
  <2> HIDE DEF P
  <2> QED BY <1>2, <1>3, SubIs
<1>6. ASSUME NEW j \in 1..Len(keys), s = Sock(keys[j]) PROVE At(s, keys) # <<>>
  <2>1. j \in P BY <1>1, <1>6
  <2>2. Cardinality(P) # 0
    <3> HIDE DEF P
    <3> QED BY <1>4, <2>1, FS_EmptySet
  <2> QED BY <1>5, <2>2, SeqFacts
<1> QED BY <1>5, <1>6

-----------------------------------------------------------------------------
(* The commands that are sent                                              *)

\* A command on a list of keys.
LEMMA OnKeysPlain ==
  ASSUME NEW verb \in {"MGET", "DEL", "SINTER", "SUNION", "SDIFF"}, NEW keys \in Seq(Keys), keys # <<>>
  PROVE  <<verb>> \o keys \in Plainly
<1> DEFINE cmd == <<verb>> \o keys
<1>0. verb \in STRING BY ZenonT(60), WordsAssumption
<1>2. keys \in Seq(STRING) /\ Len(keys) \in Nat \ {0} /\ \A i \in 1..Len(keys) : keys[i] \in Keys
  <2>1. Len(keys) \in Nat \ {0} /\ \A i \in 1..Len(keys) : keys[i] \in Keys BY SeqFacts
  <2>2. keys \in [1..Len(keys) -> Keys] BY LenProperties
  <2>3. keys \in [1..Len(keys) -> STRING] BY <2>2, KeysAssumption
  <2> QED BY <2>1, <2>3, ListIs
<1>3. /\ cmd \in Seq(STRING) /\ Len(cmd) = Len(keys) + 1 /\ cmd[1] = verb
      /\ \A i \in 2..Len(cmd) : cmd[i] = keys[i - 1]
  <2>1. /\ cmd \in Seq(STRING) /\ Len(cmd) = Len(keys) + 1 /\ cmd[1] = verb
        /\ \A i \in 1..Len(keys) : cmd[i + 1] = keys[i]
    BY <1>0, <1>2, Prefixed
  <2> HIDE DEF cmd
  <2>2. \A i \in 2..Len(cmd) : i - 1 \in 1..Len(keys) /\ (i - 1) + 1 = i BY <1>2, <2>1
  <2> QED BY <2>1, <2>2
<1> HIDE DEF cmd
<1>4. cmd # <<>> /\ Len(cmd) > 1 /\ \A i \in 2..Len(cmd) : cmd[i] \in Keys
  BY <1>2, <1>3, SeqFacts
<1>5. cmd[1] \in ForKeys /\ cmd[1] \notin DOMAIN Plain BY <1>3 DEF ForKeys, Plain
<1>6. Understood(cmd) BY <1>3, <1>4, <1>5 DEF Understood
<1> QED BY <1>3, <1>6 DEF Plainly, cmd

\* The commands that take a key first.
LEMMA PlainFrom ==
  ASSUME NEW cmd \in Seq(STRING), Len(cmd) > 1, cmd[2] \in Keys,
         \/ cmd[1] \in ForOne /\ (cmd[1] \in {"SET", "RPUSH"} => Len(cmd) > 2)
         \/ cmd[1] \in ForTwo /\ Len(cmd) > 2 /\ cmd[3] \in Keys /\ (cmd[1] = "SMOVE" => Len(cmd) > 3)
         \/ cmd[1] = "DEL" /\ Len(cmd) = 2
  PROVE  cmd \in Plainly
<1>1. cmd # <<>> BY SeqFacts
<1>2. ASSUME cmd[1] = "DEL" /\ Len(cmd) = 2
      PROVE  cmd[1] \in ForKeys /\ (\A i \in 2..Len(cmd) : cmd[i] \in Keys) /\ cmd[1] \notin DOMAIN Plain
  BY <1>2 DEF ForKeys, Plain
<1>3. Understood(cmd) BY <1>1, <1>2 DEF Understood
<1> QED BY <1>3 DEF Plainly

\* The commands for a key that the client writes.
LEMMA OnePlain ==
  ASSUME NEW k \in Keys
  PROVE  \A v \in {"TYPE", "GET", "SMEMBERS", "EXISTS", "DEL"} : <<v, k>> \in Plainly
<1> SUFFICES ASSUME NEW v \in {"TYPE", "GET", "SMEMBERS", "EXISTS", "DEL"}
             PROVE  <<v, k>> \in Plainly
  OBVIOUS
<1> DEFINE cmd == <<v, k>>
<1>1. v \in STRING /\ k \in STRING BY ZenonT(60), WordsAssumption, KeysAssumption
<1>2. cmd \in Seq(STRING) BY <1>1, TwoElements
<1>3. Len(cmd) = 2 /\ cmd[1] = v /\ cmd[2] = k OBVIOUS
<1> HIDE DEF cmd
<1>4. v = "DEL" \/ (v \in ForOne /\ v \notin {"SET", "RPUSH"}) BY DEF ForOne
<1>5. cmd \in Plainly BY <1>2, <1>3, <1>4, PlainFrom
<1> QED BY <1>5 DEF cmd

\* Those with a key and a word.
LEMMA TwoPlain ==
  ASSUME NEW k \in Keys, NEW w \in STRING
  PROVE  \A v \in {"SET", "RPUSH", "SADD", "SREM", "EXPIRE"} : <<v, k, w>> \in Plainly
<1> SUFFICES ASSUME NEW v \in {"SET", "RPUSH", "SADD", "SREM", "EXPIRE"}
             PROVE  <<v, k, w>> \in Plainly
  OBVIOUS
<1> DEFINE cmd == <<v, k, w>>
<1>1. v \in STRING /\ k \in STRING BY ZenonT(60), WordsAssumption, KeysAssumption
<1>2. cmd \in Seq(STRING) BY <1>1, ThreeElements
<1>3. Len(cmd) = 3 /\ cmd[1] = v /\ cmd[2] = k OBVIOUS
<1> HIDE DEF cmd
<1>4. v \in ForOne BY DEF ForOne
<1>5. cmd \in Plainly BY <1>2, <1>3, <1>4, PlainFrom
<1> QED BY <1>5 DEF cmd

\* Those with two keys, or a range.
LEMMA PairPlain ==
  ASSUME NEW k \in Keys, NEW l \in Keys, NEW w \in STRING
  PROVE  /\ <<"RENAME", k, l>> \in Plainly /\ <<"RENAMENX", k, l>> \in Plainly
         /\ <<"SMOVE", k, l, w>> \in Plainly /\ <<"LRANGE", k, "0", "-1">> \in Plainly
<1>1. {"RENAME", "RENAMENX", "SMOVE", "LRANGE", "0", "-1"} \subseteq STRING /\ k \in STRING /\ l \in STRING
  BY ZenonT(60), WordsAssumption, KeysAssumption
<1>2. ASSUME NEW v \in {"RENAME", "RENAMENX"} PROVE <<v, k, l>> \in Plainly
  <2> DEFINE cmd == <<v, k, l>>
  <2>0. v \in STRING BY <1>1
  <2>1. cmd \in Seq(STRING) BY <1>1, <2>0, ThreeElements
  <2>2. Len(cmd) = 3 /\ cmd[1] = v /\ cmd[2] = k /\ cmd[3] = l OBVIOUS
  <2> HIDE DEF cmd
  <2>3. v \in ForTwo /\ v # "SMOVE" BY DEF ForTwo
  <2>4. cmd \in Plainly BY <2>1, <2>2, <2>3, PlainFrom
  <2> QED BY <2>4 DEF cmd
<1>3. <<"SMOVE", k, l, w>> \in Plainly
  <2> DEFINE cmd == <<"SMOVE", k, l, w>>
  <2>1. cmd \in Seq(STRING) BY <1>1, FourElements
  <2>2. Len(cmd) = 4 /\ cmd[1] = "SMOVE" /\ cmd[2] = k /\ cmd[3] = l OBVIOUS
  <2> HIDE DEF cmd
  <2>3. cmd \in Plainly BY <2>1, <2>2, PlainFrom, SMTT(60) DEF ForTwo
  <2> QED BY <2>3 DEF cmd
<1>4. <<"LRANGE", k, "0", "-1">> \in Plainly
  <2> DEFINE cmd == <<"LRANGE", k, "0", "-1">>
  <2>1. cmd \in Seq(STRING) BY <1>1, FourElements
  <2>2. Len(cmd) = 4 /\ cmd[1] = "LRANGE" /\ cmd[2] = k OBVIOUS
  <2> HIDE DEF cmd
  <2>3. cmd \in Plainly BY <2>1, <2>2, PlainFrom DEF ForOne
  <2> QED BY <2>3 DEF cmd
<1> QED BY <1>2, <1>3, <1>4

\* Those that store a combination of sets.
LEMMA StorePlain ==
  ASSUME NEW verb \in {"SINTERSTORE", "SUNIONSTORE", "SDIFFSTORE"}, NEW k \in Keys,
         NEW keys \in Seq(Keys), keys # <<>>
  PROVE  <<verb, k>> \o keys \in Plainly
<1> DEFINE w   == <<verb, k>>
           cmd == w \o keys
<1>0. verb \in STRING /\ k \in STRING BY ZenonT(60), WordsAssumption, KeysAssumption
<1>1. w \in Seq(STRING) BY <1>0, TwoElements
<1>2. Len(w) = 2 /\ w[1] = verb /\ w[2] = k OBVIOUS
<1>3. keys \in Seq(STRING) /\ Len(keys) \in Nat \ {0} /\ \A i \in 1..Len(keys) : keys[i] \in Keys
  <2>1. Len(keys) \in Nat \ {0} /\ \A i \in 1..Len(keys) : keys[i] \in Keys BY SeqFacts
  <2>2. keys \in [1..Len(keys) -> Keys] BY LenProperties
  <2>3. keys \in [1..Len(keys) -> STRING] BY <2>2, KeysAssumption
  <2> QED BY <2>1, <2>3, ListIs
<1> HIDE DEF w
<1>4. /\ cmd \in Seq(STRING) /\ Len(cmd) = Len(w) + Len(keys)
      /\ \A i \in 1..Len(w) : cmd[i] = w[i]
      /\ \A i \in 1..Len(keys) : cmd[Len(w) + i] = keys[i]
  BY <1>1, <1>3, ConcatIs
<1> HIDE DEF cmd
<1>5. Len(cmd) > 2 /\ cmd[1] = verb /\ cmd[2] = k BY <1>2, <1>3, <1>4
<1>6. \A i \in 2..Len(cmd) : cmd[i] \in Keys
  <2> SUFFICES ASSUME NEW i \in 2..Len(cmd), i # 2 PROVE cmd[i] \in Keys BY <1>5
  <2>1. i - 2 \in 1..Len(keys) /\ Len(w) + (i - 2) = i BY <1>2, <1>3, <1>4
  <2> QED BY ZenonT(60), <1>3, <1>4, <2>1
<1>7. cmd # <<>> BY <1>4, <1>5, SeqFacts
<1>8. verb \in ForKeys BY DEF ForKeys, Plain
<1>9. Understood(cmd) BY <1>4, <1>5, <1>6, <1>7, <1>8 DEF Understood
<1> QED BY <1>4, <1>9 DEF Plainly, cmd, w

\* Those without a key.
LEMMA AllPlain ==
  /\ <<"KEYS", "*">> \in Plainly /\ <<"AUTH", "password">> \in Plainly
  /\ \A v \in {"DBSIZE", "RANDOMKEY", "FLUSHDB", "SAVE", "BGSAVE"} : <<v>> \in Plainly
<1>1. {"KEYS", "*", "AUTH", "password", "DBSIZE", "RANDOMKEY", "FLUSHDB", "SAVE", "BGSAVE"} \subseteq STRING
  BY ZenonT(60), WordsAssumption
<1>2. ASSUME NEW cmd \in Seq(STRING), cmd # <<>>, cmd[1] \in ForAll PROVE cmd \in Plainly
  BY <1>2 DEF Understood, Plainly
<1>3. <<"KEYS", "*">> \in Seq(STRING) /\ <<"AUTH", "password">> \in Seq(STRING) BY <1>1, TwoElements
<1>4. <<"KEYS", "*">> # <<>> /\ <<"AUTH", "password">> # <<>> OBVIOUS
<1>5. <<"KEYS", "*">>[1] = "KEYS" /\ <<"AUTH", "password">>[1] = "AUTH" OBVIOUS
<1>6. <<"KEYS", "*">> \in Plainly BY <1>2, <1>3, <1>4, <1>5 DEF ForAll
<1>7. <<"AUTH", "password">> \in Plainly BY <1>2, <1>3, <1>4, <1>5 DEF ForAll
<1>8. ASSUME NEW v \in {"DBSIZE", "RANDOMKEY", "FLUSHDB", "SAVE", "BGSAVE"} PROVE <<v>> \in Plainly
  <2>1. <<v>> \in Seq(STRING) /\ <<v>> # <<>> /\ <<v>>[1] = v BY <1>1, OneElement
  <2>2. v \in ForAll BY DEF ForAll
  <2> QED BY <1>2, <2>1, <2>2
<1> QED BY <1>6, <1>7, <1>8

\* A pair of a key and a word.
LEMMA PairIs ==
  ASSUME NEW p \in Keys \X STRING
  PROVE  p \in Seq(STRING) /\ Len(p) = 2 /\ p[1] \in Keys
BY KeysAssumption, ProductIs

\* The pairs of mset, as the arguments of MSET.
LEMMA PairWordsIs ==
  ASSUME NEW pairs \in Seq(Keys \X STRING)
  PROVE  /\ PairWords(pairs) \in Seq(STRING) /\ Len(PairWords(pairs)) = 2 * Len(pairs)
         /\ <<"MSET">> \o PairWords(pairs) \in Plainly
<1> DEFINE n == Len(pairs)
           w == PairWords(pairs)
<1>1. n \in Nat /\ DOMAIN pairs = 1..n /\ \A i \in 1..n : pairs[i] \in Keys \X STRING BY SeqFacts
<1>2. \A i \in 1..n : pairs[i] \in Seq(STRING) /\ Len(pairs[i]) = 2
  <2> SUFFICES ASSUME NEW i \in 1..n PROVE pairs[i] \in Seq(STRING) /\ Len(pairs[i]) = 2 OBVIOUS
  <2>1. pairs[i] \in Keys \X STRING BY <1>1
  <2> DEFINE p == pairs[i]
  <2> HIDE DEF p
  <2>2. p \in Keys \X STRING BY <2>1 DEF p
  <2>3. p \in Seq(STRING) /\ Len(p) = 2 BY <2>2, PairIs
  <2> QED BY <2>3 DEF p
<1>3. pairs \in Seq(Seq(STRING))
  <2>1. pairs \in [1..n -> Keys \X STRING] BY LenProperties
  <2> HIDE DEF n
  <2>2. pairs \in [1..n -> Seq(STRING)] BY <1>2, <2>1
  <2> QED BY <1>1, <2>2, ListIs
<1>4. w \in Seq(STRING) /\ Len(w) = 2 * n BY <1>2, <1>3, FlattenPairs DEF PairWords
<1>5. <<"MSET">> \o w \in Plainly
  <2> HIDE DEF w, n
  <2>1. "MSET" \in STRING BY ZenonT(60), WordsAssumption
  <2> DEFINE cmd == <<"MSET">> \o w
  <2>2. cmd \in Seq(STRING) /\ Len(cmd) = Len(w) + 1 /\ cmd[1] = "MSET" BY <1>4, <2>1, Prefixed
  <2> HIDE DEF cmd
  <2>3. Len(cmd) = 2 * n + 1 BY <1>4, <2>2
  <2>4. Len(cmd) % 2 = 1 /\ Len(cmd) # 0 BY <1>1, <2>3
  <2>5. cmd # <<>> BY <2>2, <2>4, SeqFacts
  <2>6. cmd \in Plainly BY <2>2, <2>4, <2>5 DEF Understood, Plainly
  <2> QED BY <2>6 DEF cmd
<1> QED BY <1>4, <1>5

-----------------------------------------------------------------------------
(* The rounds of the calls                                                 *)

Ordinary(c) == c.f \notin Selecting \cup {"exec_transaction"}

\* A round that spreads keys over the servers is sound.
LEMMA SpreadOK ==
  ASSUME NEW c, Ordinary(c), NEW T, Wired(T), NEW keys \in Seq(Keys), keys # <<>>,
         NEW verb \in {"MGET", "DEL", "SINTER", "SUNION"}, NEW how \in Readers
  PROVE  RoundOK(Spread(verb, keys, how), c, T)
<1> DEFINE ss   == SocketsOf(keys)
           cmds == [i \in DOMAIN ss |-> <<verb>> \o At(ss[i], keys)]
<1>1. /\ ss \in Seq(T) /\ ss # <<>> /\ \A i, j \in 1..Len(ss) : i # j => ss[i] # ss[j]
      /\ \A i \in 1..Len(ss) : \E j \in 1..Len(keys) : ss[i] = Sock(keys[j])
  BY SocketsOfIs
<1>2. \A i \in 1..Len(ss) : cmds[i] \in Plainly
  <2> SUFFICES ASSUME NEW i \in 1..Len(ss) PROVE cmds[i] \in Plainly OBVIOUS
  <2>1. At(ss[i], keys) \in Seq(Keys) /\ At(ss[i], keys) # <<>> BY <1>1, AtIs
  <2>2. i \in DOMAIN ss BY <1>1, SeqFacts
  <2>3. cmds[i] = <<verb>> \o At(ss[i], keys) BY <2>2
  <2> HIDE DEF cmds, ss
  <2> QED BY <2>1, <2>3, OnKeysPlain
<1>3. Spread(verb, keys, how) = Row(ss, cmds, how) BY DEF Spread
<1> HIDE DEF ss, cmds
<1>4. c.f \notin Selecting /\ c.f # "exec_transaction" /\ c.f # "open" BY DEF Ordinary, Selecting
<1>5. \A i \in 1..Len(ss) : cmds[i] \in Commands /\ Fits(cmds[i], Row(ss, cmds, how), c)
  BY <1>2, <1>4, HarmlessFits DEF Harmless
<1>6. T \subseteq Int BY DEF Wired
<1>7. RoundOK(Row(ss, cmds, how), c, T) BY <1>1, <1>4, <1>5, <1>6, RowOK
<1> QED BY <1>3, <1>7

\* The keys of the pairs.
LEMMA PairKeysIs ==
  ASSUME NEW pairs \in Seq(Keys \X STRING), pairs # <<>>
  PROVE  PairKeys(pairs) \in Seq(Keys) /\ PairKeys(pairs) # <<>>
<1> DEFINE n == Len(pairs)
<1>1. n \in Nat /\ n # 0 /\ DOMAIN pairs = 1..n /\ \A i \in 1..n : pairs[i] \in Keys \X STRING
  BY SeqFacts
<1>2. \A i \in 1..n : pairs[i][1] \in Keys BY <1>1, PairIs
<1> HIDE DEF n
<1>3. PairKeys(pairs) \in [1..n -> Keys] BY <1>1, <1>2 DEF PairKeys
<1>4. PairKeys(pairs) \in Seq(Keys) /\ Len(PairKeys(pairs)) = n BY <1>1, <1>3, ListIs
<1> QED BY <1>1, <1>4, SeqFacts

\* MSET with the pairs of one server.
LEMMA MSetPlain ==
  ASSUME NEW pairs \in Seq(Keys \X STRING), NEW s
  PROVE  <<"MSET">> \o PairWords(PairsAt(s, pairs)) \in Plainly
<1> DEFINE P == {i \in DOMAIN pairs : Sock(pairs[i][1]) = s}
<1>1. P \in SUBSET (1..Len(pairs)) BY SeqFacts
<1>2. PairsAt(s, pairs) = Sub(pairs, P) BY DEF PairsAt
<1> HIDE DEF P
<1>3. PairsAt(s, pairs) \in Seq(Keys \X STRING) BY <1>1, <1>2, SubIs
<1> QED BY <1>3, PairWordsIs

\* A round that spreads pairs over the servers is sound.
LEMMA MSetOK ==
  ASSUME NEW c, Ordinary(c), NEW T, Wired(T), NEW pairs \in Seq(Keys \X STRING), pairs # <<>>,
         NEW how \in Readers
  PROVE  LET ss == SocketsOf(PairKeys(pairs))
         IN  RoundOK(Row(ss, [i \in DOMAIN ss |-> <<"MSET">> \o PairWords(PairsAt(ss[i], pairs))],
                         how), c, T)
<1> DEFINE ss   == SocketsOf(PairKeys(pairs))
           cmds == [i \in DOMAIN ss |-> <<"MSET">> \o PairWords(PairsAt(ss[i], pairs))]
<1>1. ss \in Seq(T) /\ ss # <<>> /\ \A i, j \in 1..Len(ss) : i # j => ss[i] # ss[j]
  BY PairKeysIs, SocketsOfIs
<1> HIDE DEF ss
<1>2. \A i \in 1..Len(ss) : cmds[i] \in Plainly BY <1>1, MSetPlain, SeqFacts
<1> HIDE DEF cmds
<1>4. c.f \notin Selecting /\ c.f # "exec_transaction" /\ c.f # "open" BY DEF Ordinary, Selecting
<1>5. \A i \in 1..Len(ss) : cmds[i] \in Commands /\ Fits(cmds[i], Row(ss, cmds, how), c)
  BY <1>2, <1>4, HarmlessFits DEF Harmless
<1>6. T \subseteq Int BY DEF Wired
<1>7. RoundOK(Row(ss, cmds, how), c, T) BY <1>1, <1>4, <1>5, <1>6, RowOK
<1> QED BY <1>7 DEF ss, cmds

\* One connection, or all of them.
LEMMA TargetsIs ==
  ASSUME NEW c, NEW T, Wired(T), c.con \in 0..Len(connections)
  PROVE  /\ Targets(c) \in Seq(T) /\ Targets(c) # <<>>
         /\ \A i, j \in 1..Len(Targets(c)) : i # j => Targets(c)[i] # Targets(c)[j]
<1>1. CASE c.con = 0 BY <1>1, SocketsIs DEF Targets
<1>2. CASE c.con # 0
  <2>1. c.con \in 1..Len(Sockets)
    <3>1. Len(Sockets) = Len(connections) BY SocketsIs
    <3>2. Len(connections) \in Nat BY SeqFacts DEF Wired
    <3> QED BY <1>2, <3>1, <3>2
  <2>2. Sockets[c.con] \in T BY <2>1, SocketsIs
  <2> DEFINE s == Sockets[c.con]
  <2>3. Targets(c) = <<s>> BY <1>2 DEF Targets
  <2> HIDE DEF s
  <2>4. <<s>> \in Seq(T) /\ Len(<<s>>) = 1 /\ <<s>> # <<>> BY <2>2, OneElement DEF s
  <2> QED BY <2>3, <2>4
<1> QED BY <1>1, <1>2

\* A round that asks them all is sound.
LEMMA BroadcastOK ==
  ASSUME NEW c, c.f \notin {"exec_transaction", "open"}, NEW T, Wired(T), c.con \in 0..Len(connections),
         NEW cmd, NEW how \in Readers,
         IF c.f = "select" THEN c.db \in Int /\ cmd = <<"SELECT", c.db>> /\ how = "ok" ELSE cmd \in Harmless
  PROVE  RoundOK(Broadcast(c, cmd, how), c, T)
<1> DEFINE ss   == Targets(c)
           cmds == [i \in DOMAIN ss |-> cmd]
<1>1. ss \in Seq(T) /\ ss # <<>> /\ \A i, j \in 1..Len(ss) : i # j => ss[i] # ss[j]
  BY TargetsIs
<1>2. \A i \in 1..Len(ss) : cmds[i] = cmd BY <1>1, SeqFacts
<1>3. Broadcast(c, cmd, how) = Row(ss, cmds, how) BY DEF Broadcast
<1> DEFINE r == Row(ss, cmds, how)
<1> HIDE DEF ss, cmds, r
<1>4. cmd \in Commands /\ Fits(cmd, r, c)
  <2>1. CASE c.f = "select"
    <3>1. c.db \in Int /\ cmd = <<"SELECT", c.db>> BY <2>1
    <3>2. cmd \in Commands /\ cmd[1] = "SELECT" BY <3>1 DEF Commands, Selects
    <3> QED BY <2>1, <3>1, <3>2 DEF Fits, Selecting
  <2>2. CASE c.f # "select"
    <3>1. c.f \notin Selecting BY <2>2 DEF Selecting
    <3> QED BY <2>2, <3>1, HarmlessFits
  <2> QED BY <2>1, <2>2
<1>5. \A i \in 1..Len(ss) : cmds[i] \in Commands /\ Fits(cmds[i], Row(ss, cmds, how), c)
  BY <1>2, <1>4 DEF r
<1>6. T \subseteq Int /\ (c.f \in Selecting => how = "ok") BY DEF Wired, Selecting
<1> QED BY <1>1, <1>3, <1>5, <1>6, RowOK

\* As many commands to one socket as replies are read from it.
LEMMA OneSocketOK ==
  ASSUME NEW c, Ordinary(c), NEW T, T \subseteq Int, NEW s \in T, NEW cmds \in Seq(Plainly),
         NEW reads \in Seq(Reads), Len(reads) = Len(cmds),
         \A k \in 1..Len(reads) : reads[k].from = s, reads = <<>> => c.f \in MayBeEmpty
  PROVE  RoundOK(Round(<<Send(s, cmds)>>, reads), c, T)
<1> DEFINE send  == Send(s, cmds)
           sends == <<send>>
           r     == Round(sends, reads)
           n     == Len(cmds)
<1>1. n \in Nat /\ DOMAIN cmds = 1..n /\ (\A i \in 1..n : cmds[i] \in Plainly) BY SeqFacts
<1>2. c.f \notin Selecting /\ c.f # "exec_transaction" /\ c.f # "open" BY DEF Ordinary, Selecting
<1>3. \A i \in 1..n : cmds[i] \in Commands /\ Fits(cmds[i], r, c)
  <2> HIDE DEF r
  <2> QED BY <1>1, <1>2, HarmlessFits DEF Harmless
<1>4. cmds \in Seq(Commands)
  <2>1. cmds \in [1..n -> Plainly] BY LenProperties
  <2> HIDE DEF n
  <2>2. cmds \in [1..n -> Commands] BY <1>3, <2>1
  <2> QED BY <1>1, <2>2, ListIs
<1>5. send \in Sends(T) /\ send.to = s /\ send.cmds = cmds BY <1>4 DEF Send, Sends
<1> HIDE DEF send
<1>6. sends \in Seq(Sends(T)) /\ Len(sends) = 1 /\ sends # <<>> /\ sends[1] = send
  BY <1>5, OneElement
<1>7. DOMAIN sends = {1} BY DEF sends
<1> HIDE DEF sends, r
<1>8. r \in Rounds(T) /\ r.sends = sends /\ r.reads = reads BY <1>6, RoundIs DEF r
<1>9. DOMAIN reads = 1..n BY SeqFacts
<1>10. From(r, 1, s) = 1..n BY <1>8, <1>9 DEF From
<1>11. Cardinality(1..n) = n
  <2> HIDE DEF n
  <2> QED BY <1>1, FS_Interval
<1>12. Balanced(r) BY <1>5, <1>6, <1>7, <1>8, <1>9, <1>10, <1>11 DEF Balanced
<1>13. \A i \in DOMAIN r.sends : \A j \in DOMAIN r.sends[i].cmds : Fits(r.sends[i].cmds[j], r, c)
  BY <1>1, <1>3, <1>5, <1>6, <1>7, <1>8
<1> HIDE DEF n
<1>14. RoundOK(r, c, T) BY <1>2, <1>6, <1>8, <1>12, <1>13 DEF RoundOK
<1> QED BY <1>14 DEF r, sends, send

\* The round of exec: every socket gets the commands for its keys.
LEMMA ExecOK ==
  ASSUME NEW c, Ordinary(c), NEW T, Wired(T), NEW cmds \in Seq(Plainly), cmds # <<>>,
         \A i \in 1..Len(cmds) : cmds[i][2] \in Keys
  PROVE  LET keys  == [i \in DOMAIN cmds |-> cmds[i][2]]
             ss    == SocketsOf(keys)
             To(s) == Sub(cmds, {i \in DOMAIN keys : Sock(keys[i]) = s})
         IN  RoundOK(Round([i \in DOMAIN ss |-> Send(ss[i], To(ss[i]))],
                           [i \in DOMAIN keys |-> Read(Sock(keys[i]), "generic")]), c, T)
<1> DEFINE n     == Len(cmds)
           keys  == [i \in DOMAIN cmds |-> cmds[i][2]]
           ss    == SocketsOf(keys)
           m     == Len(ss)
           P(s)  == {i \in DOMAIN keys : Sock(keys[i]) = s}
           To(s) == Sub(cmds, P(s))
           sends == [i \in DOMAIN ss |-> Send(ss[i], To(ss[i]))]
           reads == [i \in DOMAIN keys |-> Read(Sock(keys[i]), "generic")]
           r     == Round(sends, reads)
<1>1. n \in Nat /\ n # 0 /\ DOMAIN cmds = 1..n /\ (\A i \in 1..n : cmds[i] \in Plainly) BY SeqFacts
<1>2. keys \in [1..n -> Keys] BY <1>1
<1>3. keys \in Seq(Keys) /\ Len(keys) = n /\ DOMAIN keys = 1..n /\ \A i \in 1..n : keys[i] \in Keys
  <2> HIDE DEF keys, n
  <2> QED BY <1>1, <1>2, ListIs
<1>4. keys # <<>>
  <2> HIDE DEF keys
  <2> QED BY <1>1, <1>3, SeqFacts
<1> HIDE DEF keys, n
<1>5. /\ ss \in Seq(T) /\ ss # <<>> /\ \A i, j \in 1..m : i # j => ss[i] # ss[j]
      /\ \A k \in ToSet(keys) : \E i \in 1..m : ss[i] = Sock(k)
  BY <1>3, <1>4, SocketsOfIs
<1> HIDE DEF ss
<1>6. m \in Nat /\ m # 0 /\ DOMAIN ss = 1..m /\ \A i \in 1..m : ss[i] \in T BY <1>5, SeqFacts
<1> HIDE DEF m
<1>7. \A s : P(s) \in SUBSET (1..n) BY <1>3
<1>8. ASSUME NEW s
      PROVE  /\ To(s) \in Seq(Commands) /\ Len(To(s)) = Cardinality(P(s))
             /\ DOMAIN To(s) = 1..Len(To(s)) /\ \A j \in 1..Len(To(s)) : To(s)[j] \in Plainly
  <2> DEFINE Q == P(s)
             q == To(s)
  <2>1. Q \in SUBSET (1..Len(cmds)) BY <1>7 DEF n
  <2>2. q = Sub(cmds, Q) OBVIOUS
  <2> HIDE DEF Q, q
  <2>3. q \in Seq(Plainly) /\ Len(q) = Cardinality(Q) BY <2>1, <2>2, SubIs
  <2>4. Len(q) \in Nat /\ DOMAIN q = 1..Len(q) /\ \A j \in 1..Len(q) : q[j] \in Plainly
    BY <2>3, SeqFacts
  <2>5. q \in [1..Len(q) -> Commands] BY <2>3, <2>4, LenProperties DEF Commands
  <2>6. q \in Seq(Commands) BY <2>4, <2>5, ListIs
  <2> QED BY <2>3, <2>4, <2>6 DEF Q, q
<1> HIDE DEF P, To
<1>9. \A i \in 1..m : Send(ss[i], To(ss[i])) \in Sends(T) BY <1>6, <1>8 DEF Send, Sends
<1>10. sends \in [1..m -> Sends(T)] BY <1>6, <1>9
<1>11. \A i \in 1..m : sends[i].to = ss[i] /\ sends[i].cmds = To(ss[i]) BY <1>6 DEF Send
<1>12. \A i \in 1..n : Sock(keys[i]) \in T /\ Sock(keys[i]) \in Int BY <1>3, SockIs DEF Wired
<1>13. reads \in [1..n -> Reads] BY <1>3, <1>12 DEF Read, Reads, Readers
<1>14. \A i \in 1..n : reads[i].from = Sock(keys[i]) BY <1>3 DEF Read
<1> HIDE DEF sends, reads, r
<1>15. sends \in Seq(Sends(T)) /\ DOMAIN sends = 1..m /\ Len(sends) = m BY <1>6, <1>10, ListIs
<1>16. reads \in Seq(Reads) /\ Len(reads) = n /\ DOMAIN reads = 1..n BY <1>1, <1>13, ListIs
<1>17. sends # <<>> /\ reads # <<>> BY <1>1, <1>6, <1>15, <1>16, SeqFacts
<1>18. r \in Rounds(T) /\ r.sends = sends /\ r.reads = reads BY <1>15, <1>16, RoundIs DEF r
<1>19. \A i \in 1..m : From(r, 1, ss[i]) = P(ss[i])
  <2> SUFFICES ASSUME NEW i \in 1..m PROVE From(r, 1, ss[i]) = P(ss[i]) OBVIOUS
  <2>1. From(r, 1, ss[i]) = {k \in 1..n : reads[k].from = ss[i]} BY <1>16, <1>18 DEF From
  <2> QED BY <1>3, <1>14, <2>1 DEF P
<1>20. Balanced(r)
  <2>1. \A i, j \in DOMAIN r.sends : i # j => r.sends[i].to # r.sends[j].to
    BY <1>5, <1>11, <1>15, <1>18
  <2>2. \A i \in DOMAIN r.sends :
          Cardinality(From(r, 1, r.sends[i].to)) = Len(r.sends[i].cmds)
    <3> SUFFICES ASSUME NEW i \in 1..m
                 PROVE  Cardinality(From(r, 1, r.sends[i].to)) = Len(r.sends[i].cmds)
      BY <1>15, <1>18
    <3>1. r.sends[i].to = ss[i] /\ r.sends[i].cmds = To(ss[i]) BY <1>11, <1>18
    <3>2. Len(To(ss[i])) = Cardinality(P(ss[i])) BY <1>8
    <3> QED BY <1>19, <3>1, <3>2
  <2>3. \A k \in DOMAIN r.reads : \E i \in DOMAIN r.sends : r.reads[k].from = r.sends[i].to
    <3> SUFFICES ASSUME NEW k \in 1..n
                 PROVE  \E i \in 1..m : reads[k].from = sends[i].to
      BY SMTT(60), <1>15, <1>16, <1>18
    <3>1. keys[k] \in ToSet(keys) BY <1>3, ToSetFinite
    <3>2. PICK i \in 1..m : ss[i] = Sock(keys[k]) BY <1>5, <3>1
    <3> QED BY <1>11, <1>14, <3>2
  <2> QED BY <2>1, <2>2, <2>3 DEF Balanced
<1>21. c.f \notin Selecting /\ c.f # "exec_transaction" /\ c.f # "open" BY DEF Ordinary, Selecting
<1>22. \A i \in DOMAIN r.sends : \A j \in DOMAIN r.sends[i].cmds : Fits(r.sends[i].cmds[j], r, c)
  <2> SUFFICES ASSUME NEW i \in 1..m, NEW j \in DOMAIN To(ss[i]) PROVE Fits(To(ss[i])[j], r, c)
    BY <1>11, <1>15, <1>18
  <2>1. To(ss[i])[j] \in Plainly BY <1>8
  <2> QED BY <1>21, <2>1, HarmlessFits DEF Harmless
<1>23. RoundOK(r, c, T) BY <1>17, <1>18, <1>20, <1>21, <1>22 DEF RoundOK
<1> QED BY <1>23 DEF r, sends, reads, To, P, ss, keys

ReadsFrom(s) == {r \in Reads : r.from = s}

\* A read is from a socket, by a reader.
LEMMA ReadIs ==
  ASSUME NEW s \in Int, NEW how \in Readers PROVE Read(s, how) \in ReadsFrom(s)
BY DEF Read, Reads, ReadsFrom

\* The reads of n replies from one socket.
LEMMA ReadsFromIs ==
  ASSUME NEW s, NEW q \in Seq(ReadsFrom(s))
  PROVE  /\ q \in Seq(Reads) /\ \A k \in 1..Len(q) : q[k].from = s
<1>1. ReadsFrom(s) \subseteq Reads BY DEF ReadsFrom
<1>2. \A k \in 1..Len(q) : q[k] \in ReadsFrom(s) BY SeqFacts
<1> QED BY <1>1, <1>2, SeqMore DEF ReadsFrom

\* The round of sadd_range is sound: it reads a reply for every value.
LEMMA SAddRangeOK ==
  ASSUME NEW c, Ordinary(c), c.f \in MayBeEmpty, NEW T, Wired(T), NEW key \in Keys,
         NEW values \in Seq(STRING)
  PROVE  RoundOK(SAddRange(key, values), c, T)
<1> DEFINE n     == Len(values)
           s     == Sock(key)
           cmds  == [i \in DOMAIN values |-> <<"SADD", key, values[i]>>]
           reads == [i \in DOMAIN values |-> Read(s, "int")]
<1>1. n \in Nat /\ DOMAIN values = 1..n /\ \A i \in 1..n : values[i] \in STRING BY SeqFacts
<1>2. s \in T /\ s \in Int /\ T \subseteq Int BY SockIs DEF Wired
<1>3. cmds \in [1..n -> Plainly] BY <1>1, TwoPlain
<1>4. Read(s, "int") \in ReadsFrom(s) BY <1>2, ReadIs DEF Readers
<1>5. reads \in [1..n -> ReadsFrom(s)] BY <1>1, <1>4
<1>6. SAddRange(key, values) = Round(<<Send(s, cmds)>>, reads) BY DEF SAddRange
<1> HIDE DEF n, s, cmds, reads
<1>7. cmds \in Seq(Plainly) /\ Len(cmds) = n BY <1>1, <1>3, ListIs
<1>8. reads \in Seq(ReadsFrom(s)) /\ Len(reads) = n BY <1>1, <1>5, ListIs
<1>9. reads \in Seq(Reads) /\ \A k \in 1..Len(reads) : reads[k].from = s BY <1>8, ReadsFromIs
<1>10. RoundOK(Round(<<Send(s, cmds)>>, reads), c, T) BY <1>2, <1>7, <1>8, <1>9, OneSocketOK
<1> QED BY <1>6, <1>10

\* The round of msetex: MSET and then EXPIRE for every key.
LEMMA MSetExOK ==
  ASSUME NEW c, Ordinary(c), NEW T, Wired(T), NEW pairs \in Seq(Keys \X STRING), pairs # <<>>
  PROVE  LET keys == PairKeys(pairs)
             ss   == SocketsOf(keys)
             Expires(s) == [i \in DOMAIN At(s, keys) |-> <<"EXPIRE", At(s, keys)[i], "secs">>]
         IN  RoundOK(Round([i \in DOMAIN ss |->
                              Send(ss[i], <<<<"MSET">> \o PairWords(PairsAt(ss[i], pairs))>>
                                            \o Expires(ss[i]))],
                           FlattenSeq([i \in DOMAIN ss |->
                              <<Read(ss[i], "ok")>>
                                \o [j \in DOMAIN Expires(ss[i]) |-> Read(ss[i], "intok")]])), c, T)
<1> DEFINE keys  == PairKeys(pairs)
           ss    == SocketsOf(keys)
           m     == Len(ss)
           Expires(s) == [i \in DOMAIN At(s, keys) |-> <<"EXPIRE", At(s, keys)[i], "secs">>]
           Expired(s) == [j \in DOMAIN Expires(s) |-> Read(s, "intok")]
           mset(s)    == <<"MSET">> \o PairWords(PairsAt(s, pairs))
           cmds(s)    == <<mset(s)>> \o Expires(s)
           row(s)     == <<Read(s, "ok")>> \o Expired(s)
           sends == [i \in DOMAIN ss |-> Send(ss[i], cmds(ss[i]))]
           rows  == [i \in DOMAIN ss |-> row(ss[i])]
           reads == FlattenSeq(rows)
           r     == Round(sends, reads)
<1>1. keys \in Seq(Keys) /\ keys # <<>> BY PairKeysIs
<1> HIDE DEF keys
<1>2. /\ ss \in Seq(T) /\ ss # <<>> /\ \A i, j \in 1..m : i # j => ss[i] # ss[j]
  BY <1>1, SocketsOfIs
<1> HIDE DEF ss
<1>3. /\ m \in Nat /\ m # 0 /\ DOMAIN ss = 1..m /\ \A i \in 1..m : ss[i] \in T /\ ss[i] \in Int
  BY <1>2, SeqFacts DEF Wired
<1> HIDE DEF m
<1>4. ASSUME NEW s \in Int
      PROVE  /\ cmds(s) \in Seq(Plainly) /\ row(s) \in Seq(ReadsFrom(s))
             /\ Len(row(s)) = Len(cmds(s)) /\ Len(row(s)) # 0
  <2> DEFINE a == At(s, keys)
             e == Expires(s)
             x == Expired(s)
             n == Len(a)
             p == mset(s)
             h == Read(s, "ok")
  <2>1. a \in Seq(Keys) BY <1>1, AtIs
  <2> HIDE DEF a
  <2>2. n \in Nat /\ DOMAIN a = 1..n /\ \A i \in 1..n : a[i] \in Keys BY <2>1, SeqFacts
  <2>3. e = [i \in DOMAIN a |-> <<"EXPIRE", a[i], "secs">>] BY DEF a
  <2>4. e \in [1..n -> Plainly]
    <3>1. "secs" \in STRING BY Zenon, WordsAssumption
    <3> HIDE DEF e, n
    <3> QED BY <2>2, <2>3, <3>1, TwoPlain
  <2>5. Read(s, "intok") \in ReadsFrom(s) BY ReadIs DEF Readers
  <2>6. x \in [1..n -> ReadsFrom(s)]
    <3>1. x = [j \in DOMAIN e |-> Read(s, "intok")] OBVIOUS
    <3> HIDE DEF e, n, x
    <3> QED BY <2>4, <2>5, <3>1
  <2>7. p \in Plainly BY MSetPlain
  <2>8. h \in ReadsFrom(s) BY ReadIs DEF Readers
  <2>9. cmds(s) = <<p>> \o e /\ row(s) = <<h>> \o x OBVIOUS
  <2> HIDE DEF e, x, n, p, h, Expires, Expired, mset, cmds, row
  <2>10. e \in Seq(Plainly) /\ Len(e) = n BY <2>2, <2>4, ListIs
  <2>11. x \in Seq(ReadsFrom(s)) /\ Len(x) = n BY <2>2, <2>6, ListIs
  <2>12. <<p>> \o e \in Seq(Plainly) /\ Len(<<p>> \o e) = n + 1 BY <2>7, <2>10, Prefixed
  <2>13. <<h>> \o x \in Seq(ReadsFrom(s)) /\ Len(<<h>> \o x) = n + 1 BY <2>8, <2>11, Prefixed
  <2> QED BY <2>2, <2>9, <2>12, <2>13
<1> HIDE DEF Expires, Expired, mset, cmds, row
<1>5. c.f \notin Selecting /\ c.f # "exec_transaction" /\ c.f # "open" BY DEF Ordinary, Selecting
<1>6. Plainly \subseteq Commands BY DEF Commands
<1>7. \A i \in 1..m : cmds(ss[i]) \in Seq(Commands) BY <1>3, <1>4, <1>6, SeqMore
<1>8. \A i \in 1..m : Send(ss[i], cmds(ss[i])) \in Sends(T) BY <1>3, <1>7 DEF Send, Sends
<1>9. sends \in [1..m -> Sends(T)] BY <1>3, <1>8
<1>10. \A i \in 1..m : sends[i].to = ss[i] /\ sends[i].cmds = cmds(ss[i]) BY <1>3 DEF Send
<1>11. \A i \in 1..m : row(ss[i]) \in Seq(Reads) /\ \A k \in 1..Len(row(ss[i])) : row(ss[i])[k].from = ss[i]
  BY <1>3, <1>4, ReadsFromIs
<1>12. rows \in [1..m -> Seq(Reads)] /\ \A i \in 1..m : rows[i] = row(ss[i]) BY <1>3, <1>11
<1> HIDE DEF sends, rows, reads, r
<1>13. sends \in Seq(Sends(T)) /\ DOMAIN sends = 1..m /\ Len(sends) = m BY <1>3, <1>9, ListIs
<1>14. rows \in Seq(Seq(Reads)) /\ Len(rows) = m BY <1>3, <1>12, ListIs
<1>15. rows # <<>> /\ sends # <<>> BY <1>3, <1>13, <1>14, SeqFacts
<1>16. /\ reads \in Seq(Reads)
       /\ \A i \in 1..m : Cardinality(FoundAt(reads, ss[i])) = Len(rows[i])
       /\ \A k \in 1..Len(reads) : \E i \in 1..m : reads[k].from = ss[i]
  <2>1. \A i \in 1..Len(rows) : \A k \in 1..Len(rows[i]) : rows[i][k].from = ss[i]
    BY <1>11, <1>12, <1>14
  <2>2. \A i, j \in 1..Len(rows) : i # j => ss[i] # ss[j] BY <1>2, <1>14
  <2>3. /\ reads \in Seq(Reads)
        /\ \A i \in 1..Len(rows) : Cardinality(FoundAt(reads, ss[i])) = Len(rows[i])
        /\ \A k \in 1..Len(reads) : \E i \in 1..Len(rows) : reads[k].from = ss[i]
    <3>1. Rowed(rows, ss, Reads) BY <1>14, <1>15, <2>1, <2>2 DEF Rowed
    <3>2. reads = FlattenSeq(rows) BY DEF reads
    <3>3. Counted(reads, rows, ss, Reads) BY <3>1, <3>2, FoundFlat
    <3> QED BY <3>3 DEF Counted
  <2> QED BY <1>14, <2>3
<1>17. r \in Rounds(T) /\ r.sends = sends /\ r.reads = reads BY <1>13, <1>16, RoundIs DEF r
<1>18. \A i \in 1..m : From(r, 1, ss[i]) = FoundAt(reads, ss[i]) BY <1>17 DEF From, FoundAt
<1>19. \A i \in 1..m : Len(rows[i]) = Len(cmds(ss[i])) /\ Len(rows[i]) # 0 BY <1>3, <1>4, <1>12
<1>20. DOMAIN reads = 1..Len(reads) BY <1>16, SeqFacts
<1>21. Balanced(r)
  <2>1. \A i, j \in DOMAIN r.sends : i # j => r.sends[i].to # r.sends[j].to
    BY <1>2, <1>10, <1>13, <1>17
  <2>2. \A i \in DOMAIN r.sends :
          Cardinality(From(r, 1, r.sends[i].to)) = Len(r.sends[i].cmds)
    <3> SUFFICES ASSUME NEW i \in 1..m
                 PROVE  Cardinality(From(r, 1, r.sends[i].to)) = Len(r.sends[i].cmds)
      BY <1>13, <1>17
    <3>1. r.sends[i].to = ss[i] /\ r.sends[i].cmds = cmds(ss[i]) BY <1>10, <1>17
    <3> QED BY <1>16, <1>18, <1>19, <3>1
  <2>3. \A k \in DOMAIN r.reads : \E i \in DOMAIN r.sends : r.reads[k].from = r.sends[i].to
    BY <1>10, <1>13, <1>16, <1>17, <1>20
  <2> QED BY <2>1, <2>2, <2>3 DEF Balanced
<1>22. reads # <<>>
  <2>1. 1 \in 1..m BY <1>3
  <2>2. Cardinality(FoundAt(reads, ss[1])) # 0 BY <1>16, <1>19, <2>1
  <2>3. FoundAt(reads, ss[1]) # {} BY <2>2, FS_EmptySet
  <2>4. \E k : k \in 1..Len(reads) BY <2>3 DEF FoundAt
  <2>5. Len(reads) # 0 BY <2>4
  <2> QED BY <1>16, <2>5, SeqFacts
<1>23. \A i \in DOMAIN r.sends : \A j \in DOMAIN r.sends[i].cmds : Fits(r.sends[i].cmds[j], r, c)
  <2> SUFFICES ASSUME NEW i \in 1..m, NEW j \in DOMAIN cmds(ss[i]) PROVE Fits(cmds(ss[i])[j], r, c)
    BY <1>10, <1>13, <1>17
  <2>1. cmds(ss[i]) \in Seq(Plainly) BY <1>3, <1>4
  <2>2. cmds(ss[i])[j] \in Plainly BY <2>1, SeqFacts
  <2> QED BY <1>5, <2>2, HarmlessFits DEF Harmless
<1>24. RoundOK(r, c, T) BY <1>5, <1>15, <1>17, <1>21, <1>22, <1>23 DEF RoundOK
<1> QED BY <1>24 DEF r, sends, reads, rows, row, cmds, mset, Expired, Expires, ss, keys

\* The round of exec_transaction.
LEMMA TransactionOK ==
  ASSUME NEW c, c.f = "exec_transaction", NEW T, T \subseteq Int, NEW s \in T,
         c.cmds \in Seq(Plainly)
  PROVE  LET n == Len(c.cmds)
         IN  RoundOK(Round(<<Send(s, <<<<"MULTI">>>> \o c.cmds \o <<<<"EXEC">>>>)>>,
                           <<Read(s, "ok")>> \o [i \in 1..n |-> Read(s, "queued")]
                             \o <<Read(s, "header")>> \o [i \in 1..n |-> Read(s, "generic")]), c, T)
<1> DEFINE n     == Len(c.cmds)
           q     == [i \in 1..n |-> Read(s, "queued")]
           g     == [i \in 1..n |-> Read(s, "generic")]
           o     == Read(s, "ok")
           h     == Read(s, "header")
           reads == <<o>> \o q \o <<h>> \o g
           cmds  == Stream(c)
           send  == Send(s, cmds)
           sends == <<send>>
           r     == Round(sends, reads)
           S     == Plainly \cup {<<"MULTI">>, <<"EXEC">>}
           R     == ReadsFrom(s)
<1>1. n \in Nat BY LenProperties
<1>2. o \in R /\ h \in R /\ Read(s, "queued") \in R /\ Read(s, "generic") \in R
  BY ReadIs DEF Readers
<1>3. q \in [1..n -> R] /\ g \in [1..n -> R] BY <1>2
<1>4. c.cmds \in Seq(S) BY SeqMore
<1>5. cmds = <<<<"MULTI">>>> \o c.cmds \o <<<<"EXEC">>>> BY DEF Stream
<1>6. cmds \in Seq(S)
  <2> DEFINE a == <<"MULTI">>
             b == <<"EXEC">>
             d == c.cmds
  <2>1. a \in S /\ b \in S OBVIOUS
  <2> HIDE DEF S, a, b, d
  <2>2. <<a>> \o d \in Seq(S) BY <1>4, <2>1, Prefixed DEF d
  <2>3. <<b>> \in Seq(S) BY <2>1, OneElement
  <2>4. (<<a>> \o d) \o <<b>> \in Seq(S) BY <2>2, <2>3, ConcatIs
  <2> QED BY <1>5, <2>4 DEF a, b, d
<1>7. reads \in Seq(R) /\ Len(reads) = 2 * n + 2
  <2> HIDE DEF n, o, q, h, g, R
  <2>1. q \in Seq(R) /\ g \in Seq(R) /\ Len(q) = n /\ Len(g) = n BY <1>1, <1>3, ListIs
  <2> DEFINE u == <<o>> \o q
             v == <<h>>
             w == u \o v
  <2>2. u \in Seq(R) /\ Len(u) = n + 1 BY <1>2, <2>1, Prefixed
  <2>3. v \in Seq(R) /\ Len(v) = 1 BY <1>2, OneElement
  <2> HIDE DEF u, v
  <2>4. w \in Seq(R) /\ Len(w) = Len(u) + Len(v) BY <2>2, <2>3, ConcatIs
  <2> HIDE DEF w
  <2>5. w \o g \in Seq(R) /\ Len(w \o g) = Len(w) + Len(g) BY <2>1, <2>4, ConcatIs
  <2>6. Len(w \o g) = 2 * n + 2 BY <1>1, <2>1, <2>2, <2>3, <2>4, <2>5
  <2> QED BY <2>5, <2>6 DEF w, u, v
<1>8. S \subseteq Commands BY DEF Commands, Specials
<1>9. \A x \in S : Fits(x, r, c)
  <2> SUFFICES ASSUME NEW x \in S PROVE Fits(x, r, c) OBVIOUS
  <2>1. x[1] \notin {"SHUTDOWN", "SELECT"}
    <3>1. CASE x \in Plainly BY <3>1, PlainVerbs DEF Control
    <3>2. CASE x \in {<<"MULTI">>, <<"EXEC">>} BY <3>2
    <3> QED BY <3>1, <3>2
  <2> HIDE DEF r
  <2> QED BY <2>1 DEF Fits, Selecting
<1> HIDE DEF reads, cmds, r, S, R, n, q, g, o, h
<1>10. cmds \in Seq(Commands) BY <1>6, <1>8, SeqMore
<1>11. DOMAIN cmds = 1..Len(cmds) /\ \A j \in 1..Len(cmds) : cmds[j] \in S BY <1>6, SeqFacts
<1>12. send \in Sends(T) /\ send.to = s /\ send.cmds = cmds BY <1>10 DEF Send, Sends
<1> HIDE DEF send
<1>13. sends \in Seq(Sends(T)) /\ Len(sends) = 1 /\ sends # <<>> /\ sends[1] = send
  BY <1>12, OneElement
<1>14. DOMAIN sends = {1} BY DEF sends
<1> HIDE DEF sends
<1>15. reads \in Seq(Reads) /\ \A k \in 1..Len(reads) : reads[k].from = s
  BY <1>7, ReadsFromIs DEF R
<1>16. r \in Rounds(T) /\ r.sends = sends /\ r.reads = reads BY <1>13, <1>15, RoundIs DEF r
<1>17. reads # <<>> /\ DOMAIN reads = 1..Len(reads) BY <1>1, <1>7, <1>15, SeqFacts
<1>18. Transaction(r, c)
  BY <1>7, <1>12, <1>13, <1>15, <1>16, <1>17 DEF Transaction, cmds, n
<1>19. \A i \in DOMAIN r.sends : \A j \in DOMAIN r.sends[i].cmds : Fits(r.sends[i].cmds[j], r, c)
  BY <1>9, <1>11, <1>12, <1>13, <1>14, <1>16
<1>20. RoundOK(r, c, T) BY <1>13, <1>16, <1>17, <1>18, <1>19 DEF RoundOK, Selecting
<1> QED BY <1>5, <1>20 DEF r, sends, send, reads, o, q, h, g, n

-----------------------------------------------------------------------------
(* Calls                                                                   *)

\* What each call is given.
LEMMA CallIs ==
  ASSUME NEW c, IsCall(c)
  PROVE  /\ c.f \in {"mset", "mset_vectors", "msetex"} =>
              c.pairs \in Seq(Keys \X STRING) /\ c.pairs # <<>>
         /\ c.f \in {"exec", "exec_transaction"} =>
              /\ c.cmds \in Seq(Plainly) /\ c.cmds # <<>>
              /\ \A i \in 1..Len(c.cmds) : c.cmds[i][2] \in Keys
         /\ c.f \in {"mget", "del_range", "sinter", "sunion", "sdiff"} =>
              c.keys \in Seq(Keys) /\ c.keys # <<>>
         /\ c.f = "single" => c.cmd \in Plainly /\ c.cmd[2] \in Keys /\ c.read \in Readers
         /\ c.f \in Renames => c.old \in Keys /\ c.new \in Keys
         /\ c.f = "sadd_range" => c.key \in Keys /\ c.values \in Seq(STRING)
         /\ c.f = "smove" => c.src \in Keys /\ c.dst \in Keys /\ c.member \in STRING
         /\ c.f \in {"sinterstore", "sunionstore", "sdiffstore"} =>
              c.keys \in Seq(Keys) /\ c.keys # <<>> /\ c.dst \in Keys
         /\ c.f \in {"keys", "dbsize", "randomkey", "flushdb", "save", "bgsave", "auth", "flushall",
                     "select"} => "con" \in DOMAIN c /\ c.con \in Nat
         /\ c.f = "select" => c.db \in Int
         /\ c.f = "open" => c.db \in Int
         /\ c.f \in {"mset", "mset_vectors", "msetex", "exec", "exec_transaction", "mget",
                     "del_range", "sinter", "sunion", "sdiff", "single", "rename", "renamenx",
                     "sadd_range", "smove", "sinterstore", "sunionstore", "sdiffstore", "keys",
                     "dbsize", "randomkey", "flushdb", "save", "bgsave", "auth", "flushall",
                     "select", "lastsave", "shutdown", "connect", "close", "open"}
<1>1. c.f \in {"mset", "mset_vectors", "msetex"} =>
        c.pairs \in Seq(Keys \X STRING) /\ c.pairs # <<>>
  BY DEF IsCall
<1>2. ASSUME c.f \in {"exec", "exec_transaction"}
      PROVE  /\ c.cmds \in Seq(Plainly) /\ c.cmds # <<>>
             /\ \A i \in 1..Len(c.cmds) : c.cmds[i][2] \in Keys
  <2>1. /\ c.cmds \in Seq(Seq(STRING)) /\ c.cmds # <<>>
        /\ \A i \in DOMAIN c.cmds : Understood(c.cmds[i]) /\ c.cmds[i][2] \in Keys
    BY <1>2 DEF IsCall
  <2>2. /\ Len(c.cmds) \in Nat /\ DOMAIN c.cmds = 1..Len(c.cmds)
        /\ \A i \in 1..Len(c.cmds) : c.cmds[i] \in Seq(STRING)
        /\ c.cmds \in [1..Len(c.cmds) -> Seq(STRING)]
    BY <2>1, SeqFacts, LenProperties
  <2>3. c.cmds \in [1..Len(c.cmds) -> Plainly] BY <2>1, <2>2 DEF Plainly
  <2>4. c.cmds \in Seq(Plainly) BY <2>2, <2>3, ListIs
  <2> QED BY <2>1, <2>2, <2>4
<1>3. c.f \in {"mget", "del_range", "sinter", "sunion", "sdiff"} =>
        c.keys \in Seq(Keys) /\ c.keys # <<>>
  BY DEF IsCall
<1>4. c.f = "single" => c.cmd \in Plainly /\ c.cmd[2] \in Keys /\ c.read \in Readers
  BY DEF IsCall, Plainly, Readers
<1>5. c.f \in Renames => c.old \in Keys /\ c.new \in Keys BY DEF IsCall, Renames
<1>6. c.f = "sadd_range" => c.key \in Keys /\ c.values \in Seq(STRING) BY DEF IsCall
<1>7. c.f = "smove" => c.src \in Keys /\ c.dst \in Keys /\ c.member \in STRING BY DEF IsCall
<1>8. c.f \in {"sinterstore", "sunionstore", "sdiffstore"} =>
        c.keys \in Seq(Keys) /\ c.keys # <<>> /\ c.dst \in Keys
  BY DEF IsCall
<1>9. c.f \in {"keys", "dbsize", "randomkey", "flushdb", "save", "bgsave", "auth", "flushall",
               "select"} => "con" \in DOMAIN c /\ c.con \in Nat
  BY DEF IsCall
<1>10. (c.f = "select" => c.db \in Int) /\ (c.f = "open" => c.db \in Int) BY DEF IsCall
<1>11. c.f \in {"mset", "mset_vectors", "msetex", "exec", "exec_transaction", "mget",
                "del_range", "sinter", "sunion", "sdiff", "single", "rename", "renamenx",
                "sadd_range", "smove", "sinterstore", "sunionstore", "sdiffstore", "keys",
                "dbsize", "randomkey", "flushdb", "save", "bgsave", "auth", "flushall",
                "select", "lastsave", "shutdown", "connect", "close", "open"}
  BY DEF IsCall
<1> QED BY <1>1, <1>2, <1>3, <1>4, <1>5, <1>6, <1>7, <1>8, <1>9, <1>10, <1>11

\* What a call may do next.
Allowed(p, c, T) == p.do \in {"return", "throw"} \/ (p.do = "round" /\ RoundOK(p, c, T))

Sound(c, T) == {r \in Rounds(T) : RoundOK(r, c, T)}

\* A script is a list of rounds that are sound.
LEMMA SoundIs ==
  ASSUME NEW c, NEW T, NEW r, RoundOK(r, c, T)
  PROVE  r \in Sound(c, T) /\ r.do = "round" /\ Allowed(r, c, T)
<1>1. r \in Rounds(T) BY DEF RoundOK
<1>2. r.do = "round" BY <1>1 DEF Rounds
<1> QED BY <1>1, <1>2 DEF Sound, Allowed

\* To return is allowed.
LEMMA DoneIs ==
  ASSUME NEW c, NEW T
  PROVE  /\ \A x : Allowed(Done(x), c, T) /\ Done(x).do = "return" /\ Done(x).do # "round"
         /\ Allowed(Refuse, c, T) /\ Refuse.do # "round" /\ Refuse.do = "throw"
<1>1. \A x : Done(x).do = "return" BY DEF Done
<1>2. Refuse.do = "throw" BY DEF Refuse
<1> QED BY <1>1, <1>2 DEF Allowed

\* A script goes through its rounds.
LEMMA ScriptOK ==
  ASSUME NEW c, NEW T, NEW rounds \in Seq(Sound(c, T)), NEW n \in Nat, NEW x
  PROVE  /\ Allowed(Script(rounds, n, x), c, T)
         /\ Script(rounds, n, x).do # "throw"
         /\ n >= Len(rounds) => Script(rounds, n, x).do = "return"
<1>0. Len(rounds) \in Nat /\ \A i \in 1..Len(rounds) : rounds[i] \in Sound(c, T) BY SeqFacts
<1>1. CASE n < Len(rounds)
  <2>1. n + 1 \in 1..Len(rounds) BY <1>0, <1>1
  <2>2. Script(rounds, n, x) = rounds[n + 1] BY <1>1 DEF Script
  <2>3. RoundOK(rounds[n + 1], c, T) BY <1>0, <2>1 DEF Sound
  <2> DEFINE p == rounds[n + 1]
  <2>4. Allowed(p, c, T) /\ p.do = "round"
    <3> HIDE DEF p
    <3> QED BY <2>3, SoundIs DEF p
  <2> HIDE DEF p
  <2>5. Script(rounds, n, x) = p /\ ~(n >= Len(rounds)) BY <1>0, <1>1, <2>2 DEF p
  <2> QED BY <2>4, <2>5
<1>2. CASE ~(n < Len(rounds))
  <2>1. Script(rounds, n, x) = Done(x) BY <1>2 DEF Script
  <2> QED BY <2>1, DoneIs
<1> QED BY <1>1, <1>2

\* A script of one round,
LEMMA ScriptOne ==
  ASSUME NEW c, NEW T, NEW r, RoundOK(r, c, T), NEW n \in Nat, NEW x
  PROVE  /\ Allowed(Script(<<r>>, n, x), c, T)
         /\ n >= 1 => Script(<<r>>, n, x).do = "return"
<1> DEFINE rounds == <<r>>
<1>1. r \in Sound(c, T) BY SoundIs
<1>2. rounds \in Seq(Sound(c, T)) /\ Len(rounds) = 1 BY <1>1, OneElement
<1> HIDE DEF rounds
<1>3. /\ Allowed(Script(rounds, n, x), c, T)
      /\ n >= Len(rounds) => Script(rounds, n, x).do = "return"
  BY <1>2, ScriptOK
<1> QED BY <1>2, <1>3 DEF rounds

\* and of two.
LEMMA ScriptTwo ==
  ASSUME NEW c, NEW T, NEW r, RoundOK(r, c, T), NEW s, RoundOK(s, c, T), NEW n \in Nat, NEW x
  PROVE  Allowed(Script(<<r, s>>, n, x), c, T)
<1> DEFINE rounds == <<r, s>>
<1>1. r \in Sound(c, T) /\ s \in Sound(c, T) BY SoundIs
<1>2. rounds \in Seq(Sound(c, T)) BY <1>1, TwoElements
<1> HIDE DEF rounds
<1>3. Allowed(Script(rounds, n, x), c, T) BY <1>2, ScriptOK
<1> QED BY <1>3 DEF rounds

\* A round that asks the server of a key is sound.
LEMMA KeyOK ==
  ASSUME NEW c, Ordinary(c), NEW T, Wired(T), NEW key \in Keys, NEW cmd \in Plainly, NEW how \in Readers
  PROVE  RoundOK(Ask(key, cmd, how), c, T)
<1>1. Sock(key) \in T /\ T \subseteq Int BY SockIs DEF Wired
<1>2. RoundOK(AskAt(Sock(key), cmd, how), c, T) BY <1>1, AskOK DEF Ordinary, Harmless
<1> QED BY <1>2 DEF Ask

\* rename is neither a transaction nor a SELECT.
LEMMA RenamesOrdinary ==
  ASSUME NEW c, c.f \in Renames PROVE Ordinary(c) /\ c.f \notin MayBeEmpty
BY DEF Renames, Ordinary, Selecting, MayBeEmpty

\* The rest of a rename between servers: the first round reads the value.
LEMMA CopyOK ==
  ASSUME NEW c, c.f \in Renames, c.old \in Keys, c.new \in Keys, NEW T, Wired(T),
         NEW g \in Seq(Seq(Replies)), g # <<>>, \A n \in 1..Len(g) : g[n] # <<>>,
         NEW type \in {"string", "list", "set"}, type = g[1][1].words[1],
         Len(g) > 1 /\ type = "string" => g[2][1].words # <<>>
  PROVE  /\ Copy(c, g) \in Seq(Sound(c, T)) /\ Len(Copy(c, g)) > 0
         /\ type = "string" => Copy(c, g)[1] = Ask(c.old, <<"GET", c.old>>, "bulk")
<1> DEFINE S == Sound(c, T)
           values == g[2][1].words
           Add(verb) == [i \in DOMAIN values |-> Ask(c.new, <<verb, c.new, values[i]>>, "int")]
           Del(key)  == <<Ask(key, <<"DEL", key>>, "int")>>
           more == Len(g) > 1
<1>1. Len(g) \in Nat /\ Len(g) # 0 /\ \A n \in 1..Len(g) : g[n] \in Seq(Replies) BY SeqFacts
<1>2. ASSUME more PROVE values \in Seq(STRING)
  <2>1. 2 \in 1..Len(g) BY <1>1, <1>2
  <2> DEFINE x == g[2]
  <2>2. x \in Seq(Replies) /\ x # <<>> BY <1>1, <2>1
  <2> HIDE DEF x
  <2>3. x[1] \in Replies BY <2>2, SeqFacts
  <2>4. x[1].words \in Seq(STRING) BY <2>3 DEF Replies
  <2> QED BY <2>4 DEF x
<1>3. Ordinary(c) BY RenamesOrdinary
<1>4. ASSUME NEW key \in Keys, NEW cmd \in Plainly, NEW how \in Readers PROVE Ask(key, cmd, how) \in S
  <2>1. RoundOK(Ask(key, cmd, how), c, T) BY <1>3, KeyOK
  <2> DEFINE r == Ask(key, cmd, how)
  <2> HIDE DEF r
  <2>2. r \in Sound(c, T) BY <2>1, SoundIs DEF r
  <2> QED BY <2>2 DEF r
<1>5. {"bulk", "ok", "int", "multi"} \subseteq Readers BY DEF Readers
<1>6. \A key \in Keys : Ask(key, <<"DEL", key>>, "int") \in S BY Zenon, <1>4, <1>5, OnePlain
<1>7. \A key \in Keys : Del(key) \in Seq(S)
  <2> SUFFICES ASSUME NEW key \in Keys PROVE Del(key) \in Seq(S) BY Zenon
  <2> DEFINE a == Ask(key, <<"DEL", key>>, "int")
  <2>1. a \in S BY <1>6
  <2> HIDE DEF a, S
  <2>2. <<a>> \in Seq(S) BY <2>1, OneElement
  <2> QED BY <2>2 DEF a
<1>8. ASSUME more, NEW verb \in {"RPUSH", "SADD"} PROVE Add(verb) \in Seq(S)
  <2> DEFINE n == Len(values)
             f == Add(verb)
  <2>1. n \in Nat /\ DOMAIN values = 1..n /\ \A i \in 1..n : values[i] \in STRING
    <3> HIDE DEF values
    <3> QED BY <1>2, <1>8, SeqFacts
  <2>2. f = [i \in DOMAIN values |-> Ask(c.new, <<verb, c.new, values[i]>>, "int")] OBVIOUS
  <2> HIDE DEF values, n, S, f
  <2>3. \A i \in 1..n : Ask(c.new, <<verb, c.new, values[i]>>, "int") \in S
    BY <1>4, <1>5, <2>1, TwoPlain
  <2>4. f \in [1..n -> S] BY <2>1, <2>2, <2>3
  <2>5. f \in Seq(S) BY <2>1, <2>4, ListIs
  <2> QED BY <2>5 DEF f
<1>9. <<>> \in Seq(S) BY EmptySeq
<1>10. CASE type = "string"
  <2> DEFINE a == Ask(c.old, <<"GET", c.old>>, "bulk")
             b == Ask(c.new, <<"SET", c.new, values[1]>>, "ok")
             d == Del(c.old)
             t == IF Len(g) < 2 THEN <<>> ELSE <<b>> \o d
  <2>1. Copy(c, g) = <<a>> \o t BY <1>10 DEF Copy
  <2>2. a \in S BY <1>4, <1>5, OnePlain
  <2>3. ASSUME more PROVE b \in S
    <3>1. values # <<>> BY <1>10, <2>3
    <3>2. values[1] \in STRING
      <4> HIDE DEF values
      <4> QED BY <1>2, <2>3, <3>1, SeqFacts
    <3> HIDE DEF values
    <3> QED BY <1>4, <1>5, <3>2, TwoPlain
  <2>4. d \in Seq(S) BY <1>7
  <2> HIDE DEF a, b, d, S, values
  <2>5. t \in Seq(S)
    <3>1. CASE Len(g) < 2 BY <1>9, <3>1
    <3>2. CASE ~(Len(g) < 2)
      <4>1. b \in S BY <1>1, <2>3, <3>2
      <4>2. <<b>> \o d \in Seq(S) BY <2>4, <4>1, Prefixed
      <4> QED BY <3>2, <4>2
    <3> QED BY <3>1, <3>2
  <2> HIDE DEF t
  <2>6. <<a>> \o t \in Seq(S) /\ Len(<<a>> \o t) = Len(t) + 1 /\ (<<a>> \o t)[1] = a
    BY <2>2, <2>5, Prefixed
  <2>7. Len(t) \in Nat BY <2>5, SeqFacts
  <2>8. Copy(c, g) \in Seq(S) /\ Len(Copy(c, g)) > 0 /\ Copy(c, g)[1] = a BY <2>1, <2>6, <2>7
  <2> QED BY <2>8 DEF a, S
<1>11. CASE type \in {"list", "set"}
  <2> DEFINE cmd  == IF type = "list" THEN <<"LRANGE", c.old, "0", "-1">> ELSE <<"SMEMBERS", c.old>>
             verb == IF type = "list" THEN "RPUSH" ELSE "SADD"
             a == Ask(c.old, cmd, "multi")
             x == Del(c.new)
             y == Add(verb)
             d == Del(c.old)
             t == IF Len(g) < 2 THEN <<>> ELSE x \o y \o d
  <2>1. Copy(c, g) = <<a>> \o t
    <3>1. CASE type = "list" BY <3>1 DEF Copy
    <3>2. CASE type = "set" BY <3>2 DEF Copy
    <3> QED BY <1>11, <3>1, <3>2
  <2>2. a \in S
    <3>1. cmd \in Plainly
      <4>1. "RPUSH" \in STRING BY Zenon, WordsAssumption
      <4> QED BY <4>1, OnePlain, PairPlain
    <3> HIDE DEF cmd
    <3> QED BY <1>4, <1>5, <3>1
  <2>3. x \in Seq(S) /\ d \in Seq(S) BY <1>7
  <2>4. ASSUME more PROVE y \in Seq(S)
    <3>1. verb \in {"RPUSH", "SADD"} OBVIOUS
    <3> HIDE DEF verb, S, values, Add
    <3> QED BY <1>8, <2>4, <3>1
  <2> HIDE DEF a, x, y, d, S, cmd, verb
  <2>5. t \in Seq(S)
    <3>1. CASE Len(g) < 2 BY <1>9, <3>1
    <3>2. CASE ~(Len(g) < 2)
      <4>1. y \in Seq(S) BY <1>1, <2>4, <3>2
      <4>2. x \o y \in Seq(S) BY <2>3, <4>1, ConcatIs
      <4>3. (x \o y) \o d \in Seq(S) BY <2>3, <4>2, ConcatIs
      <4> QED BY <3>2, <4>3
    <3> QED BY <3>1, <3>2
  <2> HIDE DEF t
  <2>6. <<a>> \o t \in Seq(S) /\ Len(<<a>> \o t) = Len(t) + 1 BY <2>2, <2>5, Prefixed
  <2>7. Len(t) \in Nat BY <2>5, SeqFacts
  <2>8. Copy(c, g) \in Seq(S) /\ Len(Copy(c, g)) > 0 BY <2>1, <2>6, <2>7
  <2> QED BY <1>11, <2>8, Zenon DEF S
<1> QED BY <1>10, <1>11

\* What rename asks.
Asks(p, text) == p.do = "round" /\ text => Len(p.reads) = 1 /\ p.reads[1].as = "bulk"

\* What rename does between servers is allowed.
LEMMA RenameOK ==
  ASSUME NEW c, c.f \in Renames, c.old \in Keys, c.new \in Keys, NEW T, Wired(T),
         NEW g \in Seq(Seq(Replies)), \A n \in 1..Len(g) : g[n] # <<>>,
         Len(g) > 1 /\ g[1][1].words[1] = "string" => g[2][1].words # <<>>
  PROVE  /\ Allowed(Rename(c, g), c, T)
         /\ Asks(Rename(c, g), Len(g) = 1 /\ g[1][1].words[1] = "string")
<1> DEFINE n == Len(g)
           p == Rename(c, g)
           type == g[1][1].words[1]
<1>1. n \in Nat /\ ((g = <<>>) <=> (n = 0)) BY SeqFacts
<1>2. Ordinary(c) BY RenamesOrdinary
<1>3. "RPUSH" \in STRING /\ {"ok", "line", "bulk"} \subseteq Readers BY WordsAssumption, Zenon DEF Readers
<1>4. CASE Sock(c.old) = Sock(c.new)
  <2> DEFINE r == Ask(c.old, <<"RENAME", c.old, c.new>>, "ok")
  <2>1. p = Script(<<r>>, n, Void) BY <1>4 DEF Rename
  <2>2. RoundOK(r, c, T) BY <1>2, <1>3, KeyOK, PairPlain
  <2> HIDE DEF r, n, p
  <2>3. Allowed(p, c, T) /\ (n >= 1 => p.do = "return") BY <1>1, <2>1, <2>2, ScriptOne
  <2> QED BY <1>1, <2>3 DEF n, p, Asks
<1>5. CASE Sock(c.old) # Sock(c.new) /\ g = <<>>
  <2>1. p = Ask(c.old, <<"TYPE", c.old>>, "line") BY <1>5 DEF Rename
  <2>2. RoundOK(Ask(c.old, <<"TYPE", c.old>>, "line"), c, T) BY <1>2, <1>3, KeyOK, OnePlain
  <2> HIDE DEF p
  <2>3. Allowed(p, c, T) BY <2>1, <2>2, SoundIs
  <2>4. n # 1 BY <1>1, <1>5
  <2> QED BY <2>3, <2>4 DEF n, p, Asks
<1>6. CASE Sock(c.old) # Sock(c.new) /\ g # <<>> /\ type \notin {"string", "list", "set"}
  <2>1. p \in {Done(Void), Refuse} BY <1>6 DEF Rename
  <2>2. Allowed(p, c, T) /\ p.do # "round"
    <3> HIDE DEF p
    <3> QED BY <2>1, DoneIs
  <2> QED BY <2>2 DEF Asks
<1>7. CASE Sock(c.old) # Sock(c.new) /\ g # <<>> /\ type \in {"string", "list", "set"}
  <2> DEFINE rest == Copy(c, g)
             get  == Ask(c.old, <<"GET", c.old>>, "bulk")
  <2>1. p = IF n = 1 THEN rest[1] ELSE Script(rest, n - 1, Void) BY <1>7 DEF Rename
  <2>2. /\ rest \in Seq(Sound(c, T)) /\ Len(rest) > 0
        /\ type = "string" => rest[1] = get
    <3>1. Len(g) > 1 /\ type = "string" => g[2][1].words # <<>> OBVIOUS
    <3>2. type \in {"string", "list", "set"} /\ type = g[1][1].words[1] /\ g # <<>> BY <1>7
    <3> HIDE DEF type
    <3> QED BY <3>1, <3>2, CopyOK
  <2> HIDE DEF p, type, n, rest, get
  <2>3. CASE n = 1
    <3>1. p = rest[1] BY <2>1, <2>3
    <3>2. rest[1] \in Sound(c, T) BY <2>2, SeqFacts
    <3>3. Allowed(p, c, T) BY <3>1, <3>2, SoundIs DEF Sound
    <3>4. type = "string" => Len(p.reads) = 1 /\ p.reads[1].as = "bulk"
      <4> SUFFICES ASSUME type = "string" PROVE Len(p.reads) = 1 /\ p.reads[1].as = "bulk" OBVIOUS
      <4>1. p = AskAt(Sock(c.old), <<"GET", c.old>>, "bulk") BY <2>2, <3>1 DEF get, Ask
      <4> DEFINE s   == Sock(c.old)
                 cmd == <<"GET", c.old>>
      <4> HIDE DEF s, cmd
      <4>2. p = AskAt(s, cmd, "bulk") BY <4>1 DEF s, cmd
      <4>3. p = Row(<<s>>, <<cmd>>, "bulk") BY <4>2, AskIsRow
      <4> QED BY <4>3, AskIsRow
    <3> QED BY <3>3, <3>4 DEF p, type, Asks
  <2>4. CASE n # 1
    <3>1. n - 1 \in Nat BY <1>1, <1>7, <2>4
    <3>2. p = Script(rest, n - 1, Void) BY <2>1, <2>4
    <3>3. Allowed(p, c, T) BY <2>2, <3>1, <3>2, ScriptOK
    <3> QED BY <2>4, <3>3 DEF p, n, Asks
  <2> QED BY <2>3, <2>4
<1> QED BY <1>4, <1>5, <1>6, <1>7

-----------------------------------------------------------------------------
(* The next round of every call                                            *)

\* Calls with pairs.
LEMMA PairsPlan ==
  ASSUME NEW c, IsCall(c), c.f \in {"mset", "mset_vectors", "msetex"}, NEW T, Wired(T),
         NEW g \in Seq(Seq(Replies))
  PROVE  Allowed(Plan(c, g), c, T)
<1> DEFINE pairs == c.pairs
           n     == Len(g)
<1>1. pairs \in Seq(Keys \X STRING) /\ pairs # <<>> BY CallIs
<1>2. Ordinary(c) BY DEF Ordinary, Selecting
<1>3. n \in Nat BY SeqFacts
<1>4. {"ok"} \subseteq Readers /\ T \subseteq Int BY DEF Readers, Wired
<1>5. CASE c.f = "mset"
  <2> DEFINE ss   == SocketsOf(PairKeys(pairs))
             cmds == [i \in DOMAIN ss |-> <<"MSET">> \o PairWords(PairsAt(ss[i], pairs))]
             r    == Row(ss, cmds, "ok")
  <2>1. Plan(c, g) = Script(<<r>>, n, Void)
    <3>1. Plan(c, g) = MSet(c, g) BY <1>5 DEF Plan
    <3> QED BY <3>1 DEF MSet
  <2> HIDE DEF pairs
  <2>2. RoundOK(r, c, T) BY <1>1, <1>2, <1>4, MSetOK
  <2> HIDE DEF r, n
  <2> QED BY <1>3, <2>1, <2>2, ScriptOne
<1>6. CASE c.f = "mset_vectors"
  <2> DEFINE keys == PairKeys(pairs)
             cmd  == <<"MSET">> \o PairWords(pairs)
             r    == AskAt(SockAll(keys), cmd, "ok")
  <2>1. Plan(c, g) = Script(<<r>>, n, Void)
    <3>1. Plan(c, g) = MSetVectors(c, g) BY <1>6 DEF Plan
    <3> QED BY <3>1 DEF MSetVectors
  <2> HIDE DEF pairs
  <2>2. keys \in Seq(Keys) /\ keys # <<>> BY <1>1, PairKeysIs
  <2>3. cmd \in Harmless BY <1>1, PairWordsIs DEF Harmless
  <2> HIDE DEF keys, cmd
  <2>4. SockAll(keys) \in T BY <2>2, SockAllIs
  <2>5. RoundOK(r, c, T) BY <1>2, <1>4, <2>3, <2>4, AskOK DEF Ordinary
  <2> HIDE DEF r, n
  <2> QED BY <1>3, <2>1, <2>5, ScriptOne
<1>7. CASE c.f = "msetex"
  <2> DEFINE keys == PairKeys(pairs)
             ss   == SocketsOf(keys)
             Expires(s) == [i \in DOMAIN At(s, keys) |-> <<"EXPIRE", At(s, keys)[i], "secs">>]
             r == Round([i \in DOMAIN ss |->
                           Send(ss[i], <<<<"MSET">> \o PairWords(PairsAt(ss[i], pairs))>>
                                         \o Expires(ss[i]))],
                        FlattenSeq([i \in DOMAIN ss |->
                           <<Read(ss[i], "ok")>>
                             \o [j \in DOMAIN Expires(ss[i]) |-> Read(ss[i], "intok")]]))
  <2>1. Plan(c, g) = Script(<<r>>, n, Void)
    <3>1. Plan(c, g) = MSetEx(c, g) BY <1>7 DEF Plan
    <3> QED BY <3>1 DEF MSetEx
  <2> HIDE DEF pairs
  <2>2. RoundOK(r, c, T) BY <1>1, <1>2, MSetExOK
  <2> HIDE DEF r, n
  <2> QED BY <1>3, <2>1, <2>2, ScriptOne
<1> QED BY <1>5, <1>6, <1>7

\* Calls with commands.
LEMMA ExecPlan ==
  ASSUME NEW c, IsCall(c), c.f \in {"exec", "exec_transaction"}, NEW T, Wired(T),
         NEW g \in Seq(Seq(Replies))
  PROVE  Allowed(Plan(c, g), c, T)
<1> DEFINE cmds == c.cmds
           keys == [i \in DOMAIN cmds |-> cmds[i][2]]
           n    == Len(g)
<1>1. /\ cmds \in Seq(Plainly) /\ cmds # <<>>
      /\ \A i \in 1..Len(cmds) : cmds[i][2] \in Keys
  BY CallIs
<1>2. n \in Nat BY SeqFacts
<1>3. CASE c.f = "exec"
  <2> DEFINE ss    == SocketsOf(keys)
             To(s) == Sub(cmds, {i \in DOMAIN keys : Sock(keys[i]) = s})
             r     == Round([i \in DOMAIN ss |-> Send(ss[i], To(ss[i]))],
                            [i \in DOMAIN keys |-> Read(Sock(keys[i]), "generic")])
             x     == Words([i \in DOMAIN c.cmds |-> Stored_(g[1][i])])
  <2>1. Plan(c, g) = Script(<<r>>, n, x)
    <3>1. Plan(c, g) = Exec(c, g) BY <1>3 DEF Plan
    <3> QED BY <3>1 DEF Exec
  <2>2. Ordinary(c) BY <1>3 DEF Ordinary, Selecting
  <2> HIDE DEF x, cmds
  <2>3. RoundOK(r, c, T) BY <1>1, <2>2, ExecOK
  <2> HIDE DEF r, n
  <2> QED BY <1>2, <2>1, <2>3, ScriptOne
<1>4. CASE c.f = "exec_transaction"
  <2> DEFINE s == SockAll(keys)
             m == Len(c.cmds)
             r == Round(<<Send(s, <<<<"MULTI">>>> \o c.cmds \o <<<<"EXEC">>>>)>>,
                        <<Read(s, "ok")>> \o [i \in 1..m |-> Read(s, "queued")]
                          \o <<Read(s, "header")>> \o [i \in 1..m |-> Read(s, "generic")])
             x == Words([i \in 1..m |-> Stored_(g[1][m + 2 + i])])
  <2>1. Plan(c, g) = IF s = NoSocket THEN Refuse ELSE Script(<<r>>, n, x)
    <3>1. Plan(c, g) = ExecTransaction(c, g) BY <1>4 DEF Plan
    <3> QED BY <3>1 DEF ExecTransaction
  <2>2. s \in T
    <3>1. Len(cmds) \in Nat /\ DOMAIN cmds = 1..Len(cmds) /\ Len(cmds) # 0
      <4> HIDE DEF cmds
      <4> QED BY <1>1, SeqFacts
    <3>2. keys \in [1..Len(cmds) -> Keys] BY <1>1, <3>1
    <3> HIDE DEF keys, cmds
    <3>3. keys \in Seq(Keys) /\ Len(keys) = Len(cmds) BY <3>1, <3>2, ListIs
    <3>4. keys # <<>> BY <3>1, <3>3, SeqFacts
    <3> QED BY <3>3, <3>4, SockAllIs
  <2>3. T \subseteq Int BY DEF Wired
  <2>4. RoundOK(r, c, T)
    <3> HIDE DEF s
    <3> QED BY <1>1, <1>4, <2>2, <2>3, TransactionOK
  <2> HIDE DEF r, n, x, s
  <2>5. Allowed(Script(<<r>>, n, x), c, T) BY <1>2, <2>4, ScriptOne
  <2> QED BY <2>1, <2>5, DoneIs
<1> QED BY <1>3, <1>4

\* Calls with keys.
LEMMA KeysPlan ==
  ASSUME NEW c, IsCall(c), c.f \in {"mget", "del_range", "sinter", "sunion", "sdiff"},
         NEW T, Wired(T), NEW g \in Seq(Seq(Replies))
  PROVE  Allowed(Plan(c, g), c, T)
<1> DEFINE n == Len(g)
<1>1. c.keys \in Seq(Keys) /\ c.keys # <<>> BY CallIs
<1>2. Ordinary(c) BY DEF Ordinary, Selecting
<1>3. n \in Nat /\ {"multi", "int"} \subseteq Readers /\ T \subseteq Int BY SeqFacts DEF Readers, Wired
<1>4. ASSUME NEW verb \in {"MGET", "DEL", "SINTER", "SUNION"}, NEW how \in Readers, NEW x
      PROVE  Allowed(Script(<<Spread(verb, c.keys, how)>>, n, x), c, T)
  <2> DEFINE r == Spread(verb, c.keys, how)
  <2>1. RoundOK(r, c, T) BY <1>1, <1>2, SpreadOK
  <2> HIDE DEF r, n
  <2>2. Allowed(Script(<<r>>, n, x), c, T) BY <1>3, <2>1, ScriptOne
  <2> QED BY <2>2 DEF r
<1> HIDE DEF n
<1>5. CASE c.f = "mget"
  <2>1. \E x : MGet(c, g) = Script(<<Spread("MGET", c.keys, "multi")>>, n, x) BY DEF MGet, n
  <2>2. Plan(c, g) = MGet(c, g) BY <1>5 DEF Plan
  <2> QED BY <1>3, <1>4, <2>1, <2>2
<1>6. CASE c.f = "del_range"
  <2>1. \E x : DelRange(c, g) = Script(<<Spread("DEL", c.keys, "int")>>, n, x) BY DEF DelRange, n
  <2>2. Plan(c, g) = DelRange(c, g) BY <1>6 DEF Plan
  <2> QED BY <1>3, <1>4, <2>1, <2>2
<1>7. CASE c.f = "sinter"
  <2>1. \E x : SInter(c, g) = Script(<<Spread("SINTER", c.keys, "multi")>>, n, x) BY DEF SInter, n
  <2>2. Plan(c, g) = SInter(c, g) BY <1>7 DEF Plan
  <2> QED BY <1>3, <1>4, <2>1, <2>2
<1>8. CASE c.f = "sunion"
  <2>1. \E x : SUnion(c, g) = Script(<<Spread("SUNION", c.keys, "multi")>>, n, x) BY DEF SUnion, n
  <2>2. Plan(c, g) = SUnion(c, g) BY <1>8 DEF Plan
  <2> QED BY <1>3, <1>4, <2>1, <2>2
<1>9. CASE c.f = "sdiff"
  <2> DEFINE s   == SockAll(c.keys)
             cmd == <<"SDIFF">> \o c.keys
             r   == AskAt(s, cmd, "multi")
             x   == SetOf(AllWords(g[1]))
  <2>1. Plan(c, g) = Script(<<r>>, n, x)
    <3>1. Plan(c, g) = SDiff(c, g) BY <1>9 DEF Plan
    <3> QED BY <3>1 DEF SDiff, n
  <2>2. s \in T BY <1>1, SockAllIs
  <2>3. cmd \in Harmless BY <1>1, OnKeysPlain DEF Harmless
  <2> HIDE DEF s, cmd, x
  <2>4. RoundOK(r, c, T) BY <1>2, <1>3, <2>2, <2>3, AskOK DEF Ordinary
  <2> HIDE DEF r
  <2> QED BY <1>3, <2>1, <2>4, ScriptOne
<1> QED BY <1>5, <1>6, <1>7, <1>8, <1>9

\* Calls with one key or two.
LEMMA KeyPlan ==
  ASSUME NEW c, IsCall(c), c.f \in {"single", "sadd_range", "smove"},
         NEW T, Wired(T), NEW g \in Seq(Seq(Replies))
  PROVE  Allowed(Plan(c, g), c, T)
<1> DEFINE n == Len(g)
<1>1. Ordinary(c) BY DEF Ordinary, Selecting
<1>2. n \in Nat /\ {"int", "intok"} \subseteq Readers BY SeqFacts DEF Readers
<1> HIDE DEF n
<1>3. CASE c.f = "single"
  <2> DEFINE r == Ask(c.cmd[2], c.cmd, c.read)
             x == Result(g[1][1].words, {}, g[1][1].n)
  <2>1. Plan(c, g) = Script(<<r>>, n, x)
    <3>1. Plan(c, g) = Single(c, g, c.read) BY <1>3 DEF Plan
    <3> QED BY <3>1 DEF Single, n
  <2>2. c.cmd \in Plainly /\ c.cmd[2] \in Keys /\ c.read \in Readers BY <1>3, CallIs
  <2>3. RoundOK(r, c, T) BY <1>1, <2>2, KeyOK
  <2> HIDE DEF r, x
  <2> QED BY <1>2, <2>1, <2>3, ScriptOne
<1>4. CASE c.f = "sadd_range"
  <2> DEFINE r == SAddRange(c.key, c.values)
             x == Num(Total(g[1]))
  <2>1. Plan(c, g) = Script(<<r>>, n, x) BY <1>4 DEF Plan, n
  <2>2. c.key \in Keys /\ c.values \in Seq(STRING) BY <1>4, CallIs
  <2>3. RoundOK(r, c, T) BY <1>1, <1>4, <2>2, SAddRangeOK DEF MayBeEmpty
  <2> HIDE DEF r, x
  <2> QED BY <1>2, <2>1, <2>3, ScriptOne
<1>5. CASE c.f = "smove"
  <2> DEFINE r == Ask(c.src, <<"SMOVE", c.src, c.dst, c.member>>, "intok")
             s == Ask(c.src, <<"SREM", c.src, c.member>>, "intok")
             t == Ask(c.dst, <<"SADD", c.dst, c.member>>, "int")
  <2>1. Plan(c, g) = IF Sock(c.src) = Sock(c.dst) THEN Script(<<r>>, n, Void)
                     ELSE Script(<<s, t>>, n, Void)
    <3>1. Plan(c, g) = SMove(c, g) BY <1>5 DEF Plan
    <3> QED BY <3>1 DEF SMove, n
  <2>2. c.src \in Keys /\ c.dst \in Keys /\ c.member \in STRING BY <1>5, CallIs
  <2>3. RoundOK(r, c, T) BY <1>1, <1>2, <2>2, KeyOK, PairPlain
  <2>4. RoundOK(s, c, T) BY <1>1, <1>2, <2>2, KeyOK, TwoPlain
  <2>5. RoundOK(t, c, T) BY <1>1, <1>2, <2>2, KeyOK, TwoPlain
  <2> HIDE DEF r, s, t
  <2>6. Allowed(Script(<<r>>, n, Void), c, T) BY <1>2, <2>3, ScriptOne
  <2>7. Allowed(Script(<<s, t>>, n, Void), c, T) BY <1>2, <2>4, <2>5, ScriptTwo
  <2> QED BY <2>1, <2>6, <2>7
<1> QED BY <1>3, <1>4, <1>5

\* The members of finite sets are in order in a sequence.
LEMMA MembersAre ==
  ASSUME NEW rs \in Seq(Replies)
  PROVE  /\ SetToSeq(AllWords(rs)) \in Seq(STRING)
         /\ rs # <<>> => SetToSeq(Inter(rs)) \in Seq(STRING)
<1> DEFINE W == {ToSet(rs[i].words) : i \in DOMAIN rs}
           A == AllWords(rs)
           I == Inter(rs)
           n == Len(rs)
<1>1. n \in Nat /\ DOMAIN rs = 1..n /\ \A i \in 1..n : rs[i] \in Replies BY SeqFacts
<1>2. ASSUME NEW i \in 1..n
      PROVE  ToSet(rs[i].words) \in SUBSET STRING /\ IsFiniteSet(ToSet(rs[i].words))
  <2>1. rs[i].words \in Seq(STRING) BY <1>1 DEF Replies
  <2> DEFINE w == rs[i].words
  <2> HIDE DEF w
  <2>2. ToSet(w) \subseteq STRING /\ IsFiniteSet(ToSet(w)) BY <2>1, ToSetFinite DEF w
  <2> QED BY <2>2 DEF w
<1>3. IsFiniteSet(W)
  <2> DEFINE f == [i \in 1..n |-> ToSet(rs[i].words)]
  <2>1. f \in Surjection(1..n, W) BY <1>1 DEF Surjection
  <2> HIDE DEF f, W, n
  <2> QED BY <1>1, <2>1, FS_Interval, FS_Surjection
<1>4. \A x \in W : x \in SUBSET STRING /\ IsFiniteSet(x) BY <1>1, <1>2
<1>5. IsFiniteSet(A) /\ A \in SUBSET STRING
  <2>1. A = UNION W BY DEF AllWords
  <2> HIDE DEF A, W
  <2> QED BY <1>3, <1>4, <2>1, FS_UNION
<1>6. SetToSeq(A) \in Seq(STRING)
  <2> HIDE DEF A
  <2>1. SetToSeq(A) \in Seq(A) BY <1>5, SetToSeqIs
  <2> QED BY <1>5, <2>1, SeqMore
<1>7. ASSUME rs # <<>> PROVE SetToSeq(I) \in Seq(STRING)
  <2> DEFINE F == ToSet(rs[1].words)
  <2>1. I \subseteq F BY DEF Inter
  <2>2. 1 \in 1..n BY <1>1, <1>7, SeqFacts
  <2>3. F \in SUBSET STRING /\ IsFiniteSet(F) BY <1>2, <2>2
  <2> HIDE DEF I, F
  <2>4. IsFiniteSet(I) /\ I \in SUBSET STRING BY <2>1, <2>3, FS_Subset
  <2>5. SetToSeq(I) \in Seq(I) BY <2>4, SetToSeqIs
  <2> QED BY <2>4, <2>5, SeqMore
<1> QED BY <1>6, <1>7

\* sinterstore, sunionstore and sdiffstore.
LEMMA StorePlan ==
  ASSUME NEW c, IsCall(c), c.f \in {"sinterstore", "sunionstore", "sdiffstore"},
         NEW T, Wired(T), NEW g, GotOK(c, g)
  PROVE  Allowed(Plan(c, g), c, T)
<1> DEFINE n == Len(g)
           one == Sock(c.dst) = SockAll(c.keys)
<1>1. c.keys \in Seq(Keys) /\ c.keys # <<>> /\ c.dst \in Keys BY CallIs
<1>2. Ordinary(c) BY DEF Ordinary, Selecting
<1>3. /\ g \in Seq(Seq(Replies)) /\ n \in Nat /\ ((g = <<>>) <=> (n = 0))
      /\ \A i \in 1..n : g[i] \in Seq(Replies)
      /\ {"multi", "int"} \subseteq Readers
  <2>1. g \in Seq(Seq(Replies)) BY DEF GotOK
  <2> QED BY <2>1, SeqFacts DEF Readers
<1>4. ASSUME NEW verb \in {"SINTERSTORE", "SUNIONSTORE", "SDIFFSTORE"}
      PROVE  Allowed(StoreOne(c, g, verb), c, T)
  <2> DEFINE cmd == <<verb, c.dst>> \o c.keys
             r   == Ask(c.dst, cmd, "int")
             x   == Num(g[1][1].n)
  <2>1. cmd \in Plainly BY <1>1, StorePlain
  <2> HIDE DEF cmd
  <2>2. RoundOK(r, c, T) BY <1>1, <1>2, <1>3, <2>1, KeyOK
  <2> HIDE DEF r, x
  <2>3. StoreOne(c, g, verb) = Script(<<r>>, n, x) BY DEF StoreOne, r, x, cmd
  <2> HIDE DEF n
  <2> QED BY <1>3, <2>2, <2>3, ScriptOne
<1>5. ASSUME NEW verb \in {"SINTER", "SUNION"}
      PROVE  Allowed(Spread(verb, c.keys, "multi"), c, T)
  <2> DEFINE r == Spread(verb, c.keys, "multi")
  <2>1. RoundOK(r, c, T) BY <1>1, <1>2, <1>3, SpreadOK
  <2> HIDE DEF r
  <2>2. Allowed(r, c, T) BY <2>1, SoundIs
  <2> QED BY <2>2 DEF r
<1> DEFINE S == Sound(c, T)
<1>6. DelDst(c) \in S
  <2> DEFINE r == DelDst(c)
  <2>1. RoundOK(r, c, T) BY <1>1, <1>2, <1>3, KeyOK, OnePlain DEF DelDst
  <2> HIDE DEF r
  <2>2. r \in S BY <2>1, SoundIs
  <2> QED BY <2>2 DEF r
<1> HIDE DEF one
<1>7. CASE c.f = "sinterstore"
  <2> DEFINE ms   == SetToSeq(Inter(g[1]))
             adds == [i \in DOMAIN ms |-> Ask(c.dst, <<"SADD", c.dst, ms[i]>>, "int")]
             all  == <<DelDst(c)>> \o adds
             x    == Num(Len(ms))
  <2>1. Plan(c, g) = IF one THEN StoreOne(c, g, "SINTERSTORE")
                     ELSE IF g = <<>> THEN Spread("SINTER", c.keys, "multi")
                     ELSE Script(all, n - 1, x)
    <3>1. Plan(c, g) = SInterStore(c, g) BY <1>7 DEF Plan
    <3> QED BY <3>1 DEF SInterStore, one
  <2>2. ASSUME g # <<>> PROVE all \in Seq(S)
    <3>1. 1 \in 1..n BY <1>3, <2>2
    <3>2. g[1] \in Seq(Replies) /\ g[1] # <<>>
      <4>1. DOMAIN g = 1..n BY <1>3, SeqFacts
      <4> QED BY <1>3, <1>7, <3>1, <4>1 DEF GotOK, MayBeEmpty
    <3>3. ms \in Seq(STRING)
      <4> DEFINE y == g[1]
      <4> HIDE DEF y
      <4>1. SetToSeq(Inter(y)) \in Seq(STRING) BY <3>2, MembersAre DEF y
      <4> QED BY <4>1 DEF y
    <3> HIDE DEF ms
    <3>4. Len(ms) \in Nat /\ DOMAIN ms = 1..Len(ms) /\ \A i \in 1..Len(ms) : ms[i] \in STRING
      BY <3>3, SeqFacts
    <3>5. ASSUME NEW i \in 1..Len(ms) PROVE Ask(c.dst, <<"SADD", c.dst, ms[i]>>, "int") \in S
      <4> DEFINE r == Ask(c.dst, <<"SADD", c.dst, ms[i]>>, "int")
      <4>1. RoundOK(r, c, T) BY <1>1, <1>2, <1>3, <3>4, KeyOK, TwoPlain
      <4> HIDE DEF r
      <4>2. r \in S BY <4>1, SoundIs
      <4> QED BY <4>2 DEF r
    <3> HIDE DEF S
    <3>6. adds \in [1..Len(ms) -> S] BY <3>4, <3>5
    <3> HIDE DEF adds
    <3>7. adds \in Seq(S) BY <3>4, <3>6, ListIs
    <3> QED BY <1>6, <3>7, Prefixed
  <2>3. ASSUME g # <<>> PROVE Allowed(Script(all, n - 1, x), c, T)
    <3> HIDE DEF all, x
    <3>1. n - 1 \in Nat BY <1>3, <2>3
    <3> HIDE DEF n
    <3> QED BY <2>2, <2>3, <3>1, ScriptOK
  <2> HIDE DEF all, x
  <2> QED BY <1>4, <1>5, <2>1, <2>3
<1>8. CASE c.f = "sunionstore"
  <2> DEFINE ms  == SetToSeq(AllWords(g[1]))
             add == SAddRange(c.dst, ms)
             x   == Num(Total(g[3]))
  <2>1. Plan(c, g) = IF one THEN StoreOne(c, g, "SUNIONSTORE")
                     ELSE IF g = <<>> THEN Spread("SUNION", c.keys, "multi")
                     ELSE Script(<<DelDst(c), add>>, n - 1, x)
    <3>1. Plan(c, g) = SUnionStore(c, g) BY <1>8 DEF Plan
    <3> QED BY <3>1 DEF SUnionStore, one
  <2>2. ASSUME g # <<>> PROVE RoundOK(add, c, T)
    <3>1. 1 \in 1..n BY <1>3, <2>2
    <3>2. g[1] \in Seq(Replies) BY <1>3, <3>1
    <3>3. ms \in Seq(STRING)
      <4> DEFINE y == g[1]
      <4> HIDE DEF y
      <4>1. SetToSeq(AllWords(y)) \in Seq(STRING) BY <3>2, MembersAre DEF y
      <4> QED BY <4>1 DEF y
    <3> HIDE DEF ms
    <3> QED BY <1>1, <1>2, <1>8, <3>3, SAddRangeOK DEF MayBeEmpty
  <2>3. ASSUME g # <<>> PROVE Allowed(Script(<<DelDst(c), add>>, n - 1, x), c, T)
    <3> DEFINE d == DelDst(c)
    <3> HIDE DEF add, x, d
    <3>1. n - 1 \in Nat BY <1>3, <2>3
    <3>2. RoundOK(d, c, T) BY <1>6 DEF Sound, d
    <3> HIDE DEF n
    <3>3. Allowed(Script(<<d, add>>, n - 1, x), c, T) BY <2>2, <2>3, <3>1, <3>2, ScriptTwo
    <3> QED BY <3>3 DEF d
  <2> HIDE DEF add, x
  <2> QED BY <1>4, <1>5, <2>1, <2>3
<1>9. CASE c.f = "sdiffstore"
  <2>1. Plan(c, g) = IF one THEN StoreOne(c, g, "SDIFFSTORE") ELSE Refuse
    <3>1. Plan(c, g) = SDiffStore(c, g) BY <1>9 DEF Plan
    <3> QED BY <3>1 DEF SDiffStore, one
  <2> QED BY <1>4, <2>1, DoneIs
<1> QED BY <1>7, <1>8, <1>9

\* Calls on all connections or on one.
LEMMA ConPlan ==
  ASSUME NEW c, IsCall(c),
         c.f \in {"keys", "dbsize", "randomkey", "flushdb", "save", "bgsave", "auth", "flushall",
                  "select"},
         NEW T, Wired(T), c.con <= Len(connections), NEW g \in Seq(Seq(Replies))
  PROVE  Allowed(Plan(c, g), c, T)
<1> DEFINE n == Len(g)
<1>1. n \in Nat BY SeqFacts
<1>2. c.con \in 0..Len(connections)
  <2>1. c.con \in Nat BY CallIs
  <2>2. Len(connections) \in Nat BY SeqFacts DEF Wired
  <2> QED BY <2>1, <2>2
<1>3. ASSUME c.f # "select", NEW cmd \in Harmless, NEW how \in Readers, NEW x
      PROVE  Allowed(Script(<<Broadcast(c, cmd, how)>>, n, x), c, T)
  <2> DEFINE r == Broadcast(c, cmd, how)
  <2>1. c.f \notin {"exec_transaction", "open"} OBVIOUS
  <2>2. RoundOK(r, c, T) BY <1>2, <1>3, <2>1, BroadcastOK
  <2> HIDE DEF r, n
  <2>3. Allowed(Script(<<r>>, n, x), c, T) BY <1>1, <2>2, ScriptOne
  <2> QED BY <2>3 DEF r
<1>4. {"ok", "line", "bulk", "int", "multi"} \subseteq Readers BY DEF Readers
<1>5. /\ <<"KEYS", "*">> \in Harmless /\ <<"AUTH", "password">> \in Harmless
      /\ \A v \in {"DBSIZE", "RANDOMKEY", "FLUSHDB", "SAVE", "BGSAVE"} : <<v>> \in Harmless
      /\ <<"FLUSHALL">> \in Harmless
  BY AllPlain DEF Harmless
<1> HIDE DEF n
<1>6. CASE c.f = "keys"
  <2>1. Plan(c, g) = Script(<<Broadcast(c, <<"KEYS", "*">>, "multi")>>, n, SetOf(AllWords(g[1])))
    BY <1>6 DEF Plan, n
  <2> QED BY <1>3, <1>4, <1>5, <1>6, <2>1
<1>7. CASE c.f = "dbsize"
  <2>1. Plan(c, g) = Script(<<Broadcast(c, <<"DBSIZE">>, "int")>>, n, Num(Total(g[1])))
    BY <1>7 DEF Plan, n
  <2> QED BY <1>3, <1>4, <1>5, <1>7, <2>1
<1>8. CASE c.f = "randomkey"
  <2>1. Plan(c, g) = Script(<<Broadcast(c, <<"RANDOMKEY">>, "bulk")>>, n, Words(g[1][1].words))
    BY <1>8 DEF Plan, n
  <2> QED BY <1>3, <1>4, <1>5, <1>8, <2>1
<1>9. CASE c.f = "flushdb"
  <2>1. Plan(c, g) = Script(<<Broadcast(c, <<"FLUSHDB">>, "ok")>>, n, Void) BY <1>9 DEF Plan, n
  <2> QED BY <1>3, <1>4, <1>5, <1>9, <2>1
<1>10. CASE c.f = "save"
  <2>1. Plan(c, g) = Script(<<Broadcast(c, <<"SAVE">>, "ok")>>, n, Void) BY <1>10 DEF Plan, n
  <2> QED BY <1>3, <1>4, <1>5, <1>10, <2>1
<1>11. CASE c.f = "bgsave"
  <2>1. Plan(c, g) = Script(<<Broadcast(c, <<"BGSAVE">>, "line")>>, n, Void) BY <1>11 DEF Plan, n
  <2> QED BY <1>3, <1>4, <1>5, <1>11, <2>1
<1>12. ASSUME c.f # "select", NEW cmd \in Harmless PROVE Allowed(OneOnly(c, g, cmd), c, T)
  <2>1. OneOnly(c, g, cmd) \in {Refuse, Script(<<Broadcast(c, cmd, "ok")>>, n, Void)}
    BY DEF OneOnly, n
  <2> QED BY <1>3, <1>4, <1>12, <2>1, DoneIs
<1>13. CASE c.f = "auth"
  <2>1. Plan(c, g) = OneOnly(c, g, <<"AUTH", "password">>) BY <1>13 DEF Plan
  <2> QED BY <1>5, <1>12, <1>13, <2>1
<1>14. CASE c.f = "flushall"
  <2>1. Plan(c, g) = OneOnly(c, g, <<"FLUSHALL">>) BY <1>14 DEF Plan
  <2> QED BY <1>5, <1>12, <1>14, <2>1
<1>15. CASE c.f = "select"
  <2> DEFINE r == Broadcast(c, <<"SELECT", c.db>>, "ok")
  <2>1. Plan(c, g) = Script(<<r>>, n, Void) BY <1>15 DEF Plan, n
  <2>2. c.db \in Int BY <1>15, CallIs
  <2>3. RoundOK(r, c, T) BY <1>2, <1>4, <1>15, <2>2, BroadcastOK
  <2> HIDE DEF r
  <2> QED BY <1>1, <2>1, <2>3, ScriptOne
<1> QED BY <1>6, <1>7, <1>8, <1>9, <1>10, <1>11, <1>13, <1>14, <1>15

\* lastsave and shutdown go from one connection to the next.
LEMMA TurnPlan ==
  ASSUME NEW c, IsCall(c), c.f \in {"lastsave", "shutdown"}, NEW T, Wired(T),
         NEW g \in Seq(Seq(Replies))
  PROVE  Allowed(Plan(c, g), c, T)
<1> DEFINE n == Len(g)
           s == Sockets[n + 1]
<1>1. n \in Nat BY SeqFacts
<1>2. Len(connections) \in Nat /\ T \subseteq Int BY SeqFacts DEF Wired
<1>3. n < Len(connections) => s \in T
  <2> HIDE DEF n
  <2> QED BY <1>1, <1>2, SocketsIs
<1>4. ASSUME n < Len(connections), NEW how \in {"int", "bye"}, NEW cmd \in {<<"LASTSAVE">>, <<"SHUTDOWN">>}
      PROVE  Allowed(AskAt(s, cmd, how), c, T)
  <2> DEFINE r == AskAt(s, cmd, how)
  <2>1. how \in Readers /\ (cmd \in Harmless \/ cmd = <<"SHUTDOWN">>) BY DEF Readers, Harmless
  <2>2. c.f \notin Selecting \cup {"exec_transaction"} BY DEF Selecting
  <2> HIDE DEF s, n
  <2>3. RoundOK(r, c, T) BY <1>2, <1>3, <1>4, <2>1, <2>2, AskOK
  <2> HIDE DEF r
  <2>4. Allowed(r, c, T) BY <2>3, SoundIs
  <2> QED BY <2>4 DEF r
<1>5. CASE c.f = "lastsave"
  <2>1. Plan(c, g) = LastSave(c, g) BY <1>5 DEF Plan
  <2>2. CASE n < Len(connections)
    <3>1. Plan(c, g) = AskAt(s, <<"LASTSAVE">>, "int") BY <2>1, <2>2 DEF LastSave, InTurn
    <3> QED BY <1>4, <2>2, <3>1
  <2>3. CASE ~(n < Len(connections))
    <3>1. \E x : Plan(c, g) = Done(x) BY <2>1, <2>3 DEF LastSave
    <3> QED BY <3>1, DoneIs
  <2> QED BY <2>2, <2>3
<1>6. CASE c.f = "shutdown"
  <2>1. Plan(c, g) = Shutdown(c, g) BY <1>6 DEF Plan
  <2>2. CASE n < Len(connections)
    <3>1. Plan(c, g) = AskAt(s, <<"SHUTDOWN">>, "bye") BY <2>1, <2>2 DEF Shutdown, InTurn
    <3> QED BY <1>4, <2>2, <3>1
  <2>3. CASE ~(n < Len(connections))
    <3>1. Plan(c, g) = Done(Void) BY <2>1, <2>3 DEF Shutdown
    <3> QED BY <3>1, DoneIs
  <2> QED BY <2>2, <2>3
<1> QED BY <1>5, <1>6

\* The first reply to a round of a call that reads some.
LEMMA FirstReply ==
  ASSUME NEW c, c.f \notin MayBeEmpty, NEW g, GotOK(c, g)
  PROVE  /\ g \in Seq(Seq(Replies)) /\ Len(g) \in Nat
         /\ \A n \in 1..Len(g) : g[n] # <<>>
BY SeqFacts DEF GotOK

\* The calls that rename.
LEMMA RenamePlan ==
  ASSUME NEW c, IsCall(c), c.f \in Renames, NEW T, Wired(T), NEW g, GotOK(c, g)
  PROVE  /\ Allowed(Plan(c, g), c, T)
         /\ Plan(c, g).do = "round" => AsksText(Plan(c, g), c, g)
<1>1. c.old \in Keys /\ c.new \in Keys BY CallIs
<1>2. Ordinary(c) /\ c.f \notin MayBeEmpty BY RenamesOrdinary
<1>3. /\ g \in Seq(Seq(Replies)) /\ Len(g) \in Nat
      /\ \A n \in 1..Len(g) : g[n] # <<>>
  BY <1>2, FirstReply
<1>4. CASE c.f = "rename"
  <2> DEFINE p == Rename(c, g)
             text == g[1][1].words[1] = "string"
  <2>1. Plan(c, g) = p BY <1>4 DEF Plan
  <2>2. First(c) = 1 BY <1>4 DEF First
  <2>3. Len(g) > 1 /\ text => g[2][1].words # <<>>
    <3>1. GotOK(c, g) => (Len(g) > 1 /\ text => g[1 + 1][1].words # <<>>)
      BY <1>3, <2>2 DEF GotOK, IsText
    <3> QED BY <3>1
  <2>4. Allowed(p, c, T) /\ Asks(p, Len(g) = 1 /\ text) BY <1>1, <1>3, <2>3, RenameOK
  <2>5. IsText(c, g) /\ Len(g) = First(c) => Len(g) = 1 /\ text BY <2>2 DEF IsText
  <2> HIDE DEF p, text
  <2> QED BY <2>1, <2>4, <2>5 DEF Asks, AsksText
<1>5. CASE c.f = "renamenx"
  <2> DEFINE h == Tail(g)
             p == Rename(c, h)
             q == Plan(c, g)
             text == h[1][1].words[1] = "string"
             r == Ask(c.old, <<"RENAMENX", c.old, c.new>>, "int")
             a == Ask(c.new, <<"EXISTS", c.new>>, "int")
             x == Num(g[1][1].n)
  <2>1. q = IF Sock(c.old) = Sock(c.new) THEN Script(<<r>>, Len(g), x)
            ELSE IF g = <<>> THEN a
            ELSE IF g[1][1].n = 1 THEN Done(Num(0))
            ELSE IF p.do = "return" THEN Done(Num(1)) ELSE p
    <3>1. Plan(c, g) = RenameNx(c, g) BY <1>5 DEF Plan
    <3> QED BY <3>1 DEF RenameNx
  <2>2. First(c) = 2 BY <1>5 DEF First
  <2>3. IsText(c, g) /\ Len(g) = 2 => Len(h) = 1 /\ g # <<>> /\ text
    <3>1. Len(g) = 2 => g # <<>> BY <1>3, SeqFacts
    <3>2. g # <<>> => Len(h) = Len(g) - 1 /\ \A n \in 1..Len(h) : h[n] = g[n + 1]
      BY <1>3, SeqFacts
    <3>3. Len(g) = 2 => Len(h) = 1 /\ h[1] = g[2] BY <3>1, <3>2
    <3>4. IsText(c, g) => g[2][1].words[1] = "string" BY <2>2 DEF IsText
    <3> QED BY <3>1, <3>3, <3>4
  <2>4. {"int"} \subseteq Readers /\ "RPUSH" \in STRING BY WordsAssumption, ZenonT(60) DEF Readers
  <2>5. CASE Sock(c.old) = Sock(c.new)
    <3>1. RoundOK(r, c, T) BY <1>1, <1>2, <2>4, KeyOK, PairPlain
    <3>2. q = Script(<<r>>, Len(g), x) BY <2>1, <2>5
    <3> HIDE DEF r, x, q
    <3>3. Allowed(q, c, T) /\ (Len(g) >= 1 => q.do = "return") BY <1>3, <3>1, <3>2, ScriptOne
    <3>4. q.do = "round" => AsksText(q, c, g) BY <2>2, <3>3 DEF AsksText
    <3> QED BY <3>3, <3>4 DEF q
  <2>6. CASE Sock(c.old) # Sock(c.new) /\ g = <<>>
    <3>1. RoundOK(a, c, T) BY <1>1, <1>2, <2>4, KeyOK, OnePlain
    <3>2. q = a BY <2>1, <2>6
    <3> HIDE DEF a, q
    <3>3. Allowed(q, c, T) BY <3>1, <3>2, SoundIs
    <3>4. AsksText(q, c, g) BY <2>2, <2>3, <2>6 DEF AsksText
    <3> QED BY <3>3, <3>4 DEF q
  <2>7. CASE Sock(c.old) # Sock(c.new) /\ g # <<>> /\ g[1][1].n = 1
    <3>1. q = Done(Num(0)) BY <2>1, <2>7
    <3> HIDE DEF q
    <3> QED BY <3>1, DoneIs DEF q
  <2>8. CASE Sock(c.old) # Sock(c.new) /\ g # <<>> /\ g[1][1].n # 1
    <3>1. q = IF p.do = "return" THEN Done(Num(1)) ELSE p BY <2>1, <2>8
    <3>2. /\ h \in Seq(Seq(Replies)) /\ Len(h) = Len(g) - 1 /\ Len(h) \in Nat
          /\ \A n \in 1..Len(h) : h[n] = g[n + 1]
      BY <1>3, <2>8, SeqFacts
    <3>3. \A n \in 1..Len(h) : h[n] # <<>> BY <1>3, <3>2
    <3>4. Len(h) > 1 /\ text => h[2][1].words # <<>>
      <4> SUFFICES ASSUME Len(h) > 1, text PROVE h[2][1].words # <<>> OBVIOUS
      <4>1. h[1] = g[2] /\ h[2] = g[3] /\ Len(g) > 2 BY <1>3, <3>2
      <4>2. IsText(c, g) BY <1>5, <2>2, <4>1 DEF IsText, Renames
      <4>3. g[2 + 1][1].words # <<>> BY <2>2, <4>1, <4>2 DEF GotOK
      <4> QED BY <4>1, <4>3
    <3> HIDE DEF h
    <3>5. Allowed(p, c, T) /\ Asks(p, Len(h) = 1 /\ text) BY <1>1, <3>2, <3>3, <3>4, RenameOK
    <3>6. IsText(c, g) /\ Len(g) = First(c) => Len(h) = 1 /\ text BY <2>2, <2>3
    <3> HIDE DEF p, q, text
    <3>7. CASE p.do = "return"
      <4>1. q = Done(Num(1)) BY <3>1, <3>7
      <4> QED BY <4>1, DoneIs DEF q
    <3>8. CASE p.do # "return"
      <4>1. q = p BY <3>1, <3>8
      <4> QED BY <3>5, <3>6, <4>1 DEF Asks, AsksText, q
    <3> QED BY <3>7, <3>8
  <2> QED BY <2>5, <2>6, <2>7, <2>8
<1> QED BY <1>4, <1>5 DEF Renames

\* The round in which a connection is opened.
LEMMA OpenPlan ==
  ASSUME NEW c, IsCall(c), c.f = "open", NEW T, T \subseteq Int, c.socket \in T,
         NEW g \in Seq(Seq(Replies))
  PROVE  /\ g = <<>> => RoundOK(Plan(c, g), c, T) /\ Plan(c, g).do = "round"
         /\ g # <<>> => Plan(c, g).do = "return"
<1> DEFINE s   == c.socket
           cmd == <<"SELECT", c.db>>
           r   == AskAt(s, cmd, "ok")
           n   == Len(g)
<1>1. c.db \in Int BY CallIs
<1>2. cmd \in Commands BY <1>1 DEF Commands, Selects
<1>3. cmd[1] = "SELECT" /\ cmd = <<"SELECT", c.db>> OBVIOUS
<1>4. Plan(c, g) = Script(<<r>>, n, Void) BY DEF Plan
<1>5. \A x : Fits(cmd, x, c) BY <1>3 DEF Fits, Selecting
<1>6. "ok" \in Readers BY DEF Readers
<1> HIDE DEF cmd, n
<1> DEFINE ss   == <<s>>
           cmds == <<cmd>>
<1>7. ss \in Seq(T) /\ Len(ss) = 1 /\ ss # <<>> /\ ss[1] = s BY OneElement
<1>8. cmds[1] = cmd OBVIOUS
<1>9. r = Row(ss, cmds, "ok") BY AskIsRow
<1> HIDE DEF ss, cmds, r
<1>10. /\ \A i \in 1..Len(ss) : cmds[i] \in Commands /\ Fits(cmds[i], r, c)
       /\ \A i \in 1..Len(ss) : ss[i] = c.socket
       /\ \A i, j \in 1..Len(ss) : i # j => ss[i] # ss[j]
  BY <1>2, <1>5, <1>7, <1>8
<1>11. RoundOK(r, c, T) BY <1>6, <1>7, <1>9, <1>10, RowOK
<1>12. n \in Nat BY SeqFacts DEF n
<1>13. (g = <<>>) <=> (n = 0) BY SeqFacts DEF n
<1>14. n >= 1 => Script(<<r>>, n, Void).do = "return" BY <1>11, <1>12, ScriptOne
<1>15. n = 0 => Script(<<r>>, n, Void) = r BY DEF Script
<1>16. r.do = "round" BY <1>11, SoundIs
<1> QED BY <1>4, <1>11, <1>12, <1>13, <1>14, <1>15, <1>16

\* Whatever a call has received, its next round is one that is answered.
LEMMA PlanOK ==
  ASSUME NEW c, IsCall(c), c.f \notin {"open", "close"}, NEW T, Wired(T),
         "con" \in DOMAIN c => c.con <= Len(connections), NEW g, GotOK(c, g)
  PROVE  /\ Allowed(Plan(c, g), c, T)
         /\ Plan(c, g).do = "round" => AsksText(Plan(c, g), c, g)
<1>1. g \in Seq(Seq(Replies)) BY DEF GotOK
<1>2. CASE c.f \in Renames BY <1>2, RenamePlan
<1>3. CASE c.f \notin Renames
  <2>1. AsksText(Plan(c, g), c, g) BY <1>3 DEF AsksText, IsText
  <2>2. Allowed(Plan(c, g), c, T)
    <3>1. CASE c.f \in {"mset", "mset_vectors", "msetex"} BY <1>1, <3>1, PairsPlan
    <3>2. CASE c.f \in {"exec", "exec_transaction"} BY <1>1, <3>2, ExecPlan
    <3>3. CASE c.f \in {"mget", "del_range", "sinter", "sunion", "sdiff"} BY <1>1, <3>3, KeysPlan
    <3>4. CASE c.f \in {"single", "sadd_range", "smove"} BY <1>1, <3>4, KeyPlan
    <3>5. CASE c.f \in {"sinterstore", "sunionstore", "sdiffstore"} BY <3>5, StorePlan
    <3>6. CASE c.f \in {"keys", "dbsize", "randomkey", "flushdb", "save", "bgsave", "auth",
                        "flushall", "select"}
      <4>1. "con" \in DOMAIN c BY <3>6, CallIs
      <4> QED BY <1>1, <3>6, <4>1, ConPlan
    <3>7. CASE c.f \in {"lastsave", "shutdown"} BY <1>1, <3>7, TurnPlan
    <3>8. CASE c.f = "connect"
      <4>1. Plan(c, g) = Done(Void) BY <3>8 DEF Plan
      <4> QED BY <4>1, DoneIs
    <3> QED BY <1>3, <3>1, <3>2, <3>3, <3>4, <3>5, <3>6, <3>7, <3>8, CallIs DEF Renames
  <2> QED BY <2>1, <2>2
<1> QED BY <1>2, <1>3

-----------------------------------------------------------------------------
(* Steps: what the parts of the invariant depend on                        *)

\* Parts of the invariant that a step does not disturb: types,
LEMMA TypeFrame ==
  ASSUME TypeInv,
         UNCHANGED <<connections, pc, peer, db, reqs, reps, multi, lost, store, calls, slipped, failed>>
  PROVE  TypeInv'
BY DEF TypeInv, Open

\* the sockets of the connections,
LEMMA OwnedFrame ==
  ASSUME SocketsOwned, UNCHANGED <<connections, peer>> PROVE SocketsOwned'
BY DEF SocketsOwned, Owned, Open

\* which sockets are open,
LEMMA OpenFrame ==
  ASSUME SocketsOpen, UNCHANGED <<connections, peer, calls, failed, call>>,
         Opening' = Opening, (pc = "idle") = (pc = "idle")'
  PROVE  SocketsOpen'
BY DEF SocketsOpen, Owned, Open

\* the call,
LEMMA CallFrame ==
  ASSUME CallInv, UNCHANGED <<call, calls, connections>>, pc' \in {"idle", pc},
         got' = got \/ call.f # "open"
  PROVE  CallInv'
BY DEF CallInv, Opening, Working, Owned

\* the round,
LEMMA RoundFrame ==
  ASSUME RoundInv, UNCHANGED <<pc, round, call, peer, got, at, replies>> PROVE RoundInv'
BY DEF RoundInv, Working, Open

\* transactions,
LEMMA MultiFrame ==
  ASSUME MultiInv, UNCHANGED <<lost, reqs, multi>> PROVE MultiInv'
BY DEF MultiInv

\* what is under way,
LEMMA WireFrame ==
  ASSUME WireInv, UNCHANGED <<slipped, lost, reps, reqs, calls, pc, round, call, multi, at>>
  PROVE  WireInv'
BY ZenonT(60) DEF WireInv, Working, Quiet, Sending, Receiving, Transacting

\* and the databases.
LEMMA SelectFrame ==
  ASSUME SelectInv, UNCHANGED <<slipped, pc, call, reps, connections, lost, db, replies>>
  PROVE  SelectInv'
BY DEF SelectInv, Working, Opening, Selection

\* A step that changes nothing.
LEMMA StutterStep == ASSUME IInv, UNCHANGED vars PROVE IInv'
<1>1. /\ TypeInv /\ SocketsOwned /\ SocketsOpen /\ CallInv /\ RoundInv
      /\ MultiInv /\ WireInv /\ SelectInv
  BY DEF IInv
<1>2. UNCHANGED <<connections, pc, call, got, round, at, replies, peer, db, multi, store, reqs, reps,
                  lost, calls, slipped, failed>>
  BY DEF vars, clientVars, wireVars, serverVars, history
<1>3. TypeInv' BY <1>1, <1>2, TypeFrame
<1>4. SocketsOwned' BY <1>1, <1>2, OwnedFrame
<1>5. SocketsOpen' BY <1>1, <1>2, OpenFrame DEF Opening, Working
<1>6. CallInv' BY <1>1, <1>2, CallFrame
<1>7. RoundInv' BY <1>1, <1>2, RoundFrame
<1>8. MultiInv' BY <1>1, <1>2, MultiFrame
<1>9. WireInv' BY <1>1, <1>2, WireFrame
<1>10. SelectInv' BY <1>1, <1>2, SelectFrame
<1> QED BY <1>3, <1>4, <1>5, <1>6, <1>7, <1>8, <1>9, <1>10 DEF IInv

\* The client's view of the connections.
LEMMA WiredIs ==
  ASSUME TypeInv, SocketsOwned, connections # <<>>
  PROVE  /\ Wired(Open \cup {NoSocket})
         /\ \A k \in Keys : Sock(k) \in Open /\ peer[Sock(k)] \in ToSet(Servers)
<1> DEFINE T == Open \cup {NoSocket}
<1>1. AllSockets \subseteq Int /\ NoSocket \in Int /\ NoSocket \notin AllSockets
  BY ClusterAssumption DEF AllSockets, NoSocket
<1>2. Open \subseteq AllSockets BY DEF Open
<1>3. Wired(T) BY <1>1, <1>2 DEF Wired, TypeInv, SocketsOwned
<1>4. ASSUME NEW k \in Keys PROVE Sock(k) \in Open /\ peer[Sock(k)] \in ToSet(Servers)
  <2>1. Sock(k) \in Owned BY <1>3, SockIs
  <2>2. Sock(k) \in Open BY <2>1 DEF SocketsOwned
  <2> QED BY <2>2 DEF Open, TypeInv
<1> QED BY <1>3, <1>4

\* A socket without requests is not within a transaction.
LEMMA NoMulti ==
  ASSUME MultiInv, NEW s \in AllSockets \ lost, reqs[s] = <<>> PROVE multi[s] = <<>>
<1>1. PICK B : Brackets(multi[s], <<>>, B) BY DEF MultiInv
<1>2. 1..Len(<<>>) = {} BY EmptySeq
<1> QED BY <1>1, <1>2 DEF Brackets

\* Outside of a round nothing is under way.
Calm ==
  ~slipped =>
    /\ \A s \in AllSockets : reqs[s] = <<>> /\ reps[s] = <<>>
    /\ \A s \in AllSockets \ lost : Quiet(s)
    /\ \A i \in DOMAIN connections :
         (connections[i].socket \notin lost) => connections[i].dbindex = db[connections[i].socket]

\* Outside of a round nothing is under way.
LEMMA CalmIs == ASSUME WireInv, MultiInv, SelectInv, ~Working PROVE Calm
<1>1. \A s \in lost : reqs[s] = <<>> BY DEF MultiInv
<1>2. ASSUME ~slipped, NEW s \in AllSockets PROVE reqs[s] = <<>> /\ reps[s] = <<>>
  <2>1. CASE s \in lost BY <1>1, <1>2, <2>1 DEF WireInv
  <2>2. CASE s \notin lost BY <1>2, <2>2 DEF WireInv, Quiet
  <2> QED BY <2>1, <2>2
<1>3. ~slipped => \A s \in AllSockets \ lost : Quiet(s) BY DEF WireInv
<1>4. ~slipped => \A i \in DOMAIN connections :
         (connections[i].socket \notin lost) => connections[i].dbindex = db[connections[i].socket]
  BY DEF SelectInv
<1> QED BY <1>2, <1>3, <1>4 DEF Calm

\* Then a round starts, or the call ends.
Fresh(p) ==
  \/ pc' = "send" /\ round' = p /\ at' = 1 /\ replies' = <<>>
  \/ pc' \notin {"send", "recv"}

\* What Enter does with a plan that is allowed.
LEMMA EnterIs ==
  ASSUME NEW p, Enter(p), NEW c, NEW T, Allowed(p, c, T)
  PROVE  /\ Fresh(p) /\ pc' \in {"send", "idle"}
         /\ pc' = "send" => p.do = "round" /\ RoundOK(p, c, T)
         /\ p.do = "return" => pc' = "idle"
         /\ p.do = "round" => pc' = "send"
BY DEF Enter, EndCall, Allowed, Fresh

\* A round that begins in the calm finds nothing under way,
LEMMA FreshWire ==
  ASSUME Calm, lost \subseteq AllSockets, NEW p, Fresh(p),
         UNCHANGED <<slipped, lost, reqs, reps, multi>>
  PROVE  WireInv'
<1> SUFFICES ASSUME ~slipped PROVE WireInv' BY DEF WireInv
<1>1. /\ \A s \in AllSockets : reqs[s] = <<>> /\ reps[s] = <<>>
      /\ \A s \in AllSockets \ lost : Quiet(s)
  BY DEF Calm
<1>2. \A s \in AllSockets : reqs'[s] = <<>> /\ reps'[s] = <<>> /\ 1..Len(reqs'[s]) = {} /\ 1..Len(reps'[s]) = {}
  BY <1>1, EmptySeq
<1>3. \A s \in AllSockets \ lost' : Quiet(s)' /\ multi'[s] = <<>> BY <1>1 DEF Quiet
<1>4. \A s \in lost' : reps'[s] = <<>> BY <1>2
<1>5. pc' = "send" => \A s \in AllSockets \ lost' : Sending(s)'
  <2> SUFFICES ASSUME pc' = "send", NEW s \in AllSockets \ lost' PROVE Sending(s)' OBVIOUS
  <2>1. at' = 1 /\ 1..(at' - 1) = {} BY DEF Fresh
  <2> QED BY <1>3, <2>1 DEF Sending
<1>6. pc' # "recv" BY DEF Fresh
<1> QED BY <1>2, <1>3, <1>4, <1>5, <1>6 DEF WireInv

\* the databases as noted,
LEMMA FreshSelect ==
  ASSUME Calm, NEW p, Fresh(p), UNCHANGED <<slipped, lost, reps, db>>,
         \A i \in DOMAIN connections' : connections'[i].socket \in AllSockets,
         ~slipped => \A i \in DOMAIN connections' :
           (connections'[i].socket \notin lost) =>
              connections'[i].dbindex = db[connections'[i].socket],
         Opening' => call'.socket \in AllSockets
  PROVE  SelectInv'
<1> SUFFICES ASSUME ~slipped PROVE SelectInv' BY DEF SelectInv
<1>1. \A s \in AllSockets : reps'[s] = <<>> /\ 1..Len(reps'[s]) = {} BY EmptySeq DEF Calm
<1>2. Opening' => replies' = <<>> BY DEF Fresh, Opening, Working
<1> QED BY <1>1, <1>2 DEF SelectInv

\* and has sent and read nothing.
LEMMA FreshRound ==
  ASSUME NEW p, Fresh(p),
         pc' = "send" => /\ RoundOK(p, call', Open' \cup {NoSocket})
                         /\ GotOK(call', got') /\ AsksText(p, call', got')
  PROVE  RoundInv'
<1>1. pc' # "recv" BY DEF Fresh
<1> SUFFICES ASSUME pc' = "send" PROVE RoundInv' BY <1>1 DEF RoundInv, Working
<1>2. round' = p /\ at' = 1 /\ replies' = <<>> /\ 1..(at' - 1) = {} BY DEF Fresh
<1>3. at' \in DOMAIN p.sends
  <2> DEFINE q == p.sends
             T == Open' \cup {NoSocket}
  <2>1. p \in Rounds(T) /\ q # <<>> BY DEF RoundOK
  <2>2. q \in Seq(Sends(T)) BY <2>1 DEF Rounds
  <2> HIDE DEF q, T
  <2>3. 1 \in DOMAIN q BY <2>1, <2>2, SeqFacts
  <2> QED BY <1>2, <2>3 DEF q
<1> QED BY <1>1, <1>2, <1>3 DEF RoundInv

-----------------------------------------------------------------------------
(* Steps: a call begins                                                    *)

\* A call begins.
LEMMA BeginStep ==
  ASSUME IInv, NEW c \in CallSet, Begin(c) PROVE IInv'
<1>1. /\ TypeInv /\ SocketsOwned /\ SocketsOpen /\ CallInv /\ RoundInv
      /\ MultiInv /\ WireInv /\ SelectInv
  BY DEF IInv
<1>2. /\ pc = "idle" /\ calls \in 0..(MaxCalls - 1) /\ MaxCalls \in Nat
      /\ IF c.f = "open" THEN Len(connections) < Len(Servers) ELSE connections # <<>>
      /\ "con" \in DOMAIN c => c.con <= Len(connections)
      /\ call' = c /\ calls' = calls + 1 /\ got' = <<>>
  <2>1. /\ pc = "idle" /\ (calls = 0 \/ calls < MaxCalls)
        /\ IF c.f = "open" THEN Len(connections) < Len(Servers) ELSE connections # <<>>
        /\ "con" \in DOMAIN c => c.con <= Len(connections)
        /\ call' = c /\ calls' = calls + 1 /\ got' = <<>>
    BY DEF Begin
  <2>2. calls \in Nat /\ MaxCalls \in Nat \ {0} BY <1>1, ClusterAssumption DEF TypeInv
  <2> QED BY <2>1, <2>2
<1>3. UNCHANGED <<connections, reqs, reps, lost, peer, db, multi, store, slipped, failed>>
  BY DEF Begin, wireVars, serverVars
<1>4. IsCall(c) BY CallAssumption
<1>5. Calm /\ ~Working BY <1>1, <1>2, CalmIs DEF Working
<1> DEFINE T == Open \cup {NoSocket}
           p == Plan(c, <<>>)
<1>6. GotOK(c, <<>>)
  <2>1. <<>> \in Seq(Seq(Replies)) /\ Len(<<>>) = 0 /\ DOMAIN <<>> = {} BY EmptySeq
  <2>2. ~(Len(<<>>) > First(c)) BY <2>1 DEF First
  <2> QED BY <2>1, <2>2 DEF GotOK
<1>7. /\ Fresh(p)
      /\ pc' \in {"connect", "close", "send", "idle"}
      /\ pc' = "connect" => c.f = "open"
      /\ pc' = "close" => c.f = "close"
      /\ c.f = "close" => pc' = "close"
      /\ pc' = "send" => c.f # "open" /\ round' = p /\ at' = 1 /\ replies' = <<>>
      /\ pc' = "send" => RoundOK(p, c, T) /\ AsksText(p, c, <<>>)
  <2>1. CASE c.f = "open"
    <3>1. pc' = "connect" BY <2>1 DEF Begin
    <3> QED BY <2>1, <3>1 DEF Fresh
  <2>2. CASE c.f = "close"
    <3>1. pc' = "close" BY <2>2 DEF Begin
    <3> QED BY <2>2, <3>1 DEF Fresh
  <2>3. CASE c.f \notin {"open", "close"}
    <3>1. Enter(p) BY <2>3 DEF Begin
    <3>2. Wired(T) BY <1>1, <1>2, <2>3, WiredIs
    <3>3. Allowed(p, c, T) /\ (p.do = "round" => AsksText(p, c, <<>>))
      BY <1>2, <1>4, <1>6, <2>3, <3>2, PlanOK
    <3> HIDE DEF p, T
    <3>4. /\ Fresh(p) /\ pc' \in {"send", "idle"}
          /\ pc' = "send" => p.do = "round" /\ RoundOK(p, c, T)
      BY <3>1, <3>3, EnterIs
    <3> QED BY <2>3, <3>3, <3>4 DEF Fresh
  <2> QED BY <2>1, <2>2, <2>3
<1> HIDE DEF p
<1>8. TypeInv'
  <2>1. calls' \in 0..MaxCalls BY <1>2
  <2>2. pc' \in {"idle", "connect", "send", "recv", "close"} BY <1>7
  <2> QED BY <1>1, <1>3, <2>1, <2>2 DEF TypeInv, Open
<1>9. SocketsOwned' BY <1>1, <1>3, OwnedFrame
<1>10. SocketsOpen'
  <2>1. ~Opening /\ ~Opening' BY <1>2, <1>7 DEF Opening, Working
  <2>2. PICK k \in 0..(Len(connections) + calls) :
          /\ Open = FirstSocket..(FirstSocket + k - 1) /\ k <= Len(connections) + calls
    BY <1>1, <1>2 DEF SocketsOpen
  <2>3. Open = Owned \cup failed BY <1>1, <2>1 DEF SocketsOpen
  <2>4. Open' = Open /\ Owned' = Owned /\ failed' = failed /\ Len(connections') = Len(connections)
    BY <1>3 DEF Open, Owned
  <2>5. Len(connections) \in Nat BY <1>1, SeqFacts DEF TypeInv
  <2> DEFINE n == Len(connections)
             m == n + calls' - (IF pc' = "idle" \/ Opening' THEN 0 ELSE 1)
  <2>6. k \in 0..(n + calls') /\ k <= m BY <1>2, <2>2, <2>5
  <2> HIDE DEF n, m
  <2>7. /\ \E j \in 0..(Len(connections') + calls') :
             Open' = FirstSocket..(FirstSocket + j - 1) /\ j <= m
        /\ m = Len(connections') + calls' - (IF pc' = "idle" \/ Opening' THEN 0 ELSE 1)
    BY <2>2, <2>4, <2>6 DEF n, m
  <2> QED BY <2>1, <2>3, <2>4, <2>7 DEF SocketsOpen
<1>11. CallInv'
  <2>1. ~Opening' BY <1>7, <1>2 DEF Opening, Working
  <2>2. calls' > 0 BY <1>2
  <2> QED BY <1>2, <1>3, <1>4, <1>7, <2>1, <2>2 DEF CallInv
<1>12. RoundInv'
  <2>1. Open' = Open BY <1>3 DEF Open
  <2> HIDE DEF T
  <2>2. pc' = "send" => /\ RoundOK(p, call', Open' \cup {NoSocket})
                        /\ GotOK(call', got') /\ AsksText(p, call', got')
    BY <1>2, <1>6, <1>7, <2>1 DEF T
  <2> QED BY <1>7, <2>2, FreshRound
<1>13. MultiInv' BY <1>1, <1>3, MultiFrame
<1>14. WireInv'
  <2>1. lost \subseteq AllSockets BY <1>1 DEF TypeInv, Open
  <2> QED BY <1>3, <1>5, <1>7, <2>1, FreshWire
<1>15. SelectInv'
  <2>1. \A i \in DOMAIN connections' : connections'[i].socket \in AllSockets
    BY <1>1, <1>3 DEF SocketsOwned, Owned, Open
  <2>2. ~Opening' BY <1>7, <1>2 DEF Opening, Working
  <2>3. ~slipped => \A i \in DOMAIN connections' :
          (connections'[i].socket \notin lost) => connections'[i].dbindex = db[connections'[i].socket]
    BY <1>3, <1>5 DEF Calm
  <2> QED BY <1>3, <1>5, <1>7, <2>1, <2>2, <2>3, FreshSelect
<1> QED BY <1>8, <1>9, <1>10, <1>11, <1>12, <1>13, <1>14, <1>15 DEF IInv

\* The sockets that are open are the lowest ones: there is one to open.
LEMMA NextSocketIs ==
  ASSUME TypeInv, NEW k \in Nat, Open = FirstSocket..(FirstSocket + k - 1), k <= MaxSocket - FirstSocket
  PROVE  NextSocket = FirstSocket + k /\ NextSocket \in AllSockets \ Open
<1>1. FirstSocket \in Nat /\ MaxSocket \in Nat BY ClusterAssumption
<1> DEFINE n == FirstSocket + k
           Lowest(s) == peer[s] = "closed" /\ \A r \in AllSockets : r < s => peer[r] # "closed"
<1>2. n \in AllSockets BY <1>1 DEF AllSockets
<1>3. n \notin Open /\ peer[n] = "closed" BY <1>1, <1>2 DEF Open
<1>4. \A r \in AllSockets : r < n => r \in Open /\ peer[r] # "closed"
  BY <1>1 DEF AllSockets, Open
<1>5. \A s \in AllSockets : Lowest(s) => s = n
  <2> SUFFICES ASSUME NEW s \in AllSockets, Lowest(s) PROVE s = n OBVIOUS
  <2>1. s \in Int /\ n \in Int BY <1>1 DEF AllSockets
  <2>2. ~(s < n) BY <1>4
  <2>3. ~(n < s) BY <1>2, <1>3
  <2> QED BY <2>1, <2>2, <2>3
<1>6. Lowest(n) BY <1>3, <1>4
<1> HIDE DEF n
<1>7. NextSocket = n BY <1>2, <1>5, <1>6 DEF NextSocket
<1> QED BY <1>2, <1>3, <1>7 DEF n

\* open, once it has a socket.
LEMMA WithSocket ==
  ASSUME NEW c, IsCall(c), c.f = "open", NEW s \in Int
  PROVE  LET d == [c EXCEPT !.socket = s]
         IN  /\ IsCall(d) /\ d.f = "open" /\ d.db = c.db /\ d.socket = s
             /\ "con" \in DOMAIN d => "con" \in DOMAIN c /\ d.con = c.con
<1> DEFINE d == [c EXCEPT !.socket = s]
<1>1. {"f", "db", "socket"} \subseteq DOMAIN c /\ c.db \in Int BY DEF IsCall
<1>2. DOMAIN d = DOMAIN c /\ d["socket"] = s /\ \A x \in DOMAIN c : x # "socket" => d[x] = c[x]
  BY <1>1
<1> HIDE DEF d
<1>3. d.f = "open" /\ d.db = c.db /\ d.socket = s BY <1>1, <1>2
<1>4. IsCall(d) BY <1>1, <1>2, <1>3 DEF IsCall
<1>5. "con" \in DOMAIN d => "con" \in DOMAIN c /\ d.con = c.con BY <1>2
<1> QED BY <1>3, <1>4, <1>5 DEF d

\* init connects to the next server.
LEMMA ConnectStep == ASSUME IInv, Connect PROVE IInv'
<1>1. /\ TypeInv /\ SocketsOwned /\ SocketsOpen /\ CallInv /\ RoundInv
      /\ MultiInv /\ WireInv /\ SelectInv
  BY DEF IInv
<1> DEFINE s == NextSocket
           d == [call EXCEPT !.socket = s]
           p == Plan(d, <<>>)
<1>2. /\ pc = "connect" /\ call' = d /\ Enter(p)
      /\ peer' = [peer EXCEPT ![s] = Servers[Len(connections) + 1]]
  BY DEF Connect
<1>3. UNCHANGED <<connections, got, closing, reqs, reps, lost, db, multi, store, calls, slipped, failed>>
  BY DEF Connect, wireVars, history
<1>4. /\ IsCall(call) /\ call.f = "open" /\ calls > 0 /\ Len(connections) < Len(Servers) /\ got = <<>>
  BY <1>1, <1>2 DEF CallInv
<1>6. Calm /\ ~Working BY <1>1, <1>2, CalmIs DEF Working
<1>7. /\ FirstSocket \in Nat /\ MaxSocket \in Nat /\ MaxSocket - FirstSocket >= Len(Servers) + MaxCalls - 2
      /\ Len(connections) \in Nat /\ Len(Servers) \in Nat /\ MaxCalls \in Nat /\ calls \in 1..MaxCalls
      /\ \A i \in 1..Len(Servers) : Servers[i] \in ToSet(Servers) /\ Servers[i] # "closed"
  BY <1>1, <1>4, ClusterAssumption, ToSetFinite, SeqFacts DEF TypeInv
<1>8. PICK k \in Nat : /\ Open = FirstSocket..(FirstSocket + k - 1)
                       /\ k <= Len(connections) + calls - 1 /\ k <= MaxSocket - FirstSocket
  <2>1. ~Opening BY <1>6 DEF Opening
  <2>2. PICK k \in 0..(Len(connections) + calls) :
          /\ Open = FirstSocket..(FirstSocket + k - 1) /\ k <= Len(connections) + calls - 1
    BY <1>1, <1>2, <2>1 DEF SocketsOpen
  <2> QED BY <1>4, <1>7, <2>2
<1>9. s = FirstSocket + k /\ s \in AllSockets \ Open BY <1>1, <1>7, <1>8, NextSocketIs
<1>10. AllSockets \subseteq Int BY DEF AllSockets
<1>5. /\ IsCall(d) /\ d.f = "open" /\ d.db = call.db /\ d.socket = s
      /\ "con" \in DOMAIN d => "con" \in DOMAIN call /\ d.con = call.con
  <2>1. s \in Int BY <1>9, <1>10
  <2> HIDE DEF s
  <2> QED BY <1>4, <2>1, WithSocket
<1> HIDE DEF s, d, p
<1>11. peer' \in [AllSockets -> ToSet(Servers) \cup {"closed"}] /\ Open' = Open \cup {s}
  <2> DEFINE srv == Servers[Len(connections) + 1]
  <2>1. srv \in ToSet(Servers) /\ srv # "closed" BY <1>4, <1>7
  <2>2. peer \in [AllSockets -> ToSet(Servers) \cup {"closed"}] BY <1>1 DEF TypeInv
  <2>3. peer' = [peer EXCEPT ![s] = srv] BY <1>2
  <2> HIDE DEF srv
  <2> QED BY <1>9, <2>1, <2>2, <2>3 DEF Open
<1> DEFINE T == Open' \cup {NoSocket}
<1>12. T \subseteq Int /\ d.socket \in T /\ d.socket = s
  <2>1. Open' \subseteq AllSockets BY DEF Open
  <2>2. NoSocket \in Int BY DEF NoSocket
  <2>3. T \subseteq Int BY <1>10, <2>1, <2>2
  <2>4. s \in T BY <1>11
  <2> QED BY <1>5, <2>3, <2>4
<1>13. RoundOK(p, d, T) /\ p.do = "round"
  <2>1. <<>> \in Seq(Seq(Replies)) BY EmptySeq
  <2> HIDE DEF T
  <2> QED BY <1>5, <1>12, <2>1, OpenPlan DEF p
<1>14. Fresh(p) /\ pc' = "send"
  <2>1. Allowed(p, d, T) BY <1>13 DEF Allowed
  <2> HIDE DEF T
  <2> QED BY <1>2, <1>13, <2>1, EnterIs
<1>15. Working' /\ Opening' BY <1>2, <1>5, <1>14 DEF Working, Opening
<1>16. TypeInv'
  <2>1. \A x \in AllSockets \ Open' : reqs'[x] = <<>> BY <1>1, <1>3, <1>11 DEF TypeInv
  <2> QED BY <1>1, <1>3, <1>11, <1>14, <2>1 DEF TypeInv
<1>17. \A i \in DOMAIN connections : connections[i].socket \in Open /\ connections[i].socket # s
  BY <1>1, <1>9 DEF SocketsOwned, Owned
<1>18. SocketsOwned'
  <2>1. \A x \in Open : peer'[x] = peer[x]
    <3>1. \A x \in Open : x \in AllSockets /\ x # s BY <1>9 DEF Open
    <3> QED BY <1>1, <1>2, <3>1 DEF TypeInv
  <2>2. Owned' = Owned BY <1>3 DEF Owned
  <2> QED BY <1>1, <1>3, <1>11, <1>17, <2>1, <2>2 DEF SocketsOwned
<1>19. SocketsOpen'
  <2>1. Open' = FirstSocket..(FirstSocket + (k + 1) - 1) BY SMTT(60), <1>7, <1>8, <1>9, <1>11
  <2>2. k + 1 \in 0..(Len(connections') + calls') /\ k + 1 <= Len(connections') + calls'
    BY <1>3, <1>7, <1>8
  <2>3. Open = Owned \cup failed BY <1>1, <1>6 DEF SocketsOpen, Opening
  <2>4. Open' = Owned' \cup failed' \cup {call'.socket}
    BY <1>2, <1>3, <1>11, <1>12, <2>3 DEF Owned
  <2>5. Len(connections') + calls' - 0 = Len(connections') + calls' BY <1>3, <1>7
  <2> QED BY <1>15, <2>1, <2>2, <2>4, <2>5 DEF SocketsOpen
<1>20. CallInv'
  <2>1. call'.socket \in AllSockets \ Owned' BY <1>2, <1>3, <1>9, <1>12, <1>17 DEF Owned
  <2>2. "con" \in DOMAIN call' => call'.con <= Len(connections')
    BY <1>1, <1>2, <1>3, <1>5 DEF CallInv
  <2> QED BY <1>2, <1>3, <1>4, <1>5, <1>14, <2>1, <2>2 DEF CallInv
<1>21. RoundInv'
  <2>1. GotOK(d, got')
    <3>1. <<>> \in Seq(Seq(Replies)) /\ Len(<<>>) = 0 /\ DOMAIN <<>> = {} BY EmptySeq
    <3>2. ~IsText(d, got') BY <1>5 DEF IsText, Renames
    <3> QED BY <1>3, <1>4, <3>1, <3>2 DEF GotOK
  <2>2. AsksText(p, d, got') BY <1>5 DEF AsksText, IsText, Renames
  <2> HIDE DEF T
  <2> QED BY <1>2, <1>13, <1>14, <2>1, <2>2, FreshRound DEF T
<1>22. MultiInv' BY <1>1, <1>3, MultiFrame
<1>23. WireInv'
  <2>1. lost \subseteq AllSockets BY <1>1 DEF TypeInv, Open
  <2> QED BY <1>3, <1>6, <1>14, <2>1, FreshWire
<1>24. SelectInv'
  <2>1. \A i \in DOMAIN connections' : connections'[i].socket \in AllSockets
    BY <1>3, <1>17 DEF Open
  <2>2. call'.socket \in AllSockets BY <1>2, <1>9, <1>12
  <2>3. ~slipped => \A i \in DOMAIN connections' :
          (connections'[i].socket \notin lost) => connections'[i].dbindex = db[connections'[i].socket]
    BY <1>3, <1>6 DEF Calm
  <2> QED BY <1>3, <1>6, <1>14, <2>1, <2>2, <2>3, FreshSelect
<1> QED BY <1>16, <1>18, <1>19, <1>20, <1>21, <1>22, <1>23, <1>24 DEF IInv

-----------------------------------------------------------------------------
(* Steps: a call gives up                                                  *)

\* The replies that are left are noted, and nothing else changes.
LEMMA GiveUpStep ==
  ASSUME IInv, pc \in {"connect", "send", "recv"}, GiveUp,
         UNCHANGED <<connections, call, calls, peer, db, multi, store, lost, reqs>>,
         reps' \in [AllSockets -> Seq(Answers)],
         \A s \in AllSockets : reps[s] = <<>> => reps'[s] = <<>>,
         ~slipped /\ call.f = "select" /\ call.db \in DBs => reps' = reps
  PROVE  IInv'
<1>1. /\ TypeInv /\ SocketsOwned /\ SocketsOpen /\ CallInv /\ RoundInv
      /\ MultiInv /\ WireInv /\ SelectInv
  BY DEF IInv
<1>2. /\ pc' = "idle" /\ pc # "idle"
      /\ failed' = IF call.f = "open" /\ pc # "connect" THEN failed \cup {call.socket} ELSE failed
  BY DEF GiveUp, EndCall
<1>3. slipped' = (slipped \/ \E s \in AllSockets \ lost' : reqs'[s] # <<>> \/ reps'[s] # <<>>)
  BY DEF GiveUp
<1>4. ~Working' /\ ~Opening' BY <1>2 DEF Working, Opening
<1>5. failed' = IF Opening THEN failed \cup {call.socket} ELSE failed
  BY <1>2 DEF Opening, Working
<1>6. lost \subseteq AllSockets BY <1>1 DEF TypeInv, Open
<1>7. TypeInv'
  <2>1. slipped' \in BOOLEAN BY <1>1, <1>3 DEF TypeInv
  <2>2. failed' \subseteq AllSockets BY <1>1, <1>2, <1>5 DEF TypeInv, CallInv
  <2> QED BY <1>1, <1>2, <2>1, <2>2 DEF TypeInv, Open
<1>8. SocketsOwned' BY <1>1, OwnedFrame
<1>9. SocketsOpen'
  <2>1. PICK k \in 0..(Len(connections) + calls) : Open = FirstSocket..(FirstSocket + k - 1)
    BY <1>1 DEF SocketsOpen
  <2>2. Len(connections) \in Nat /\ calls \in Nat BY <1>1, SeqFacts DEF TypeInv
  <2>3. k <= Len(connections) + calls - 0 BY <2>1, <2>2
  <2>4. Open' = Open /\ Owned' = Owned BY DEF Open, Owned
  <2>5. Open = Owned \cup failed' BY <1>1, <1>5 DEF SocketsOpen
  <2> QED BY <1>2, <1>4, <2>1, <2>3, <2>4, <2>5 DEF SocketsOpen
<1>10. CallInv' BY <1>2 DEF CallInv
<1>11. RoundInv' BY <1>4 DEF RoundInv
<1>12. MultiInv' BY <1>1, MultiFrame
<1>13. ASSUME ~slipped'
       PROVE  /\ ~slipped /\ \A s \in AllSockets : reqs'[s] = <<>> /\ reps'[s] = <<>>
              /\ \A s \in AllSockets \ lost : multi'[s] = <<>>
  <2>1. ~slipped /\ \A s \in AllSockets \ lost : reqs'[s] = <<>> /\ reps'[s] = <<>> BY <1>3, <1>13
  <2>2. \A s \in lost : reqs'[s] = <<>> /\ reps'[s] = <<>>
    BY <1>1, <1>6, <2>1 DEF MultiInv, WireInv
  <2>3. \A s \in AllSockets \ lost : multi'[s] = <<>>
    <3>1. \A s \in AllSockets \ lost : multi[s] = <<>> BY <1>1, <2>1, NoMulti
    <3> QED BY <3>1
  <2> QED BY <2>1, <2>2, <2>3
<1>14. WireInv'
  <2> SUFFICES ASSUME ~slipped' PROVE WireInv' BY DEF WireInv
  <2>1. \A s \in AllSockets : 1..Len(reqs'[s]) = {} /\ 1..Len(reps'[s]) = {} BY <1>13, EmptySeq
  <2>2. \A s \in AllSockets \ lost' : Quiet(s)' BY <1>13 DEF Quiet
  <2>3. pc' # "send" /\ pc' # "recv" BY <1>2
  <2>4. \A s \in lost' : reps'[s] = <<>> BY <1>6, <1>13
  <2> QED BY <1>4, <2>1, <2>2, <2>3, <2>4 DEF WireInv
<1>15. SelectInv'
  <2> SUFFICES ASSUME ~slipped' PROVE SelectInv' BY DEF SelectInv
  <2>1. \A i \in DOMAIN connections : connections[i].socket \in AllSockets
    BY <1>1 DEF SocketsOwned, Owned, Open
  <2>2. ASSUME NEW i \in DOMAIN connections, connections[i].socket \notin lost
        PROVE  connections[i].dbindex = db[connections[i].socket]
    <3> DEFINE s == connections[i].socket
    <3>1. ~slipped /\ reps'[s] = <<>> BY <1>13, <2>1
    <3>2. \/ connections[i].dbindex = db[s]
          \/ /\ Working /\ call.f = "select"
             /\ reps[s] # <<>> /\ db[s] = call.db /\ call.db \in DBs
      BY <1>1, <2>2, <3>1 DEF SelectInv
    <3> QED BY <3>1, <3>2
  <2> QED BY <1>4, <2>2 DEF SelectInv
<1> QED BY <1>7, <1>8, <1>9, <1>10, <1>11, <1>12, <1>14, <1>15 DEF IInv

\* Without a step on the connections.
LEMMA ThrowStep ==
  ASSUME IInv, pc \in {"connect", "send", "recv"}, Throw, UNCHANGED <<wireVars, serverVars>>
  PROVE  IInv'
<1>1. GiveUp /\ UNCHANGED <<connections, call, calls>> BY DEF Throw
<1>2. UNCHANGED <<peer, db, multi, store, lost, reqs, reps>> BY DEF wireVars, serverVars
<1>3. reps' \in [AllSockets -> Seq(Answers)] BY <1>2 DEF IInv, TypeInv
<1> QED BY <1>1, <1>2, <1>3, GiveUpStep

\* The connection is refused.
LEMMA ConnectFailsStep == ASSUME IInv, ConnectFails PROVE IInv'
BY ThrowStep DEF ConnectFails

\* close calls itself, or ends.
LEMMA CloseAgainStep == ASSUME IInv, CloseAgain PROVE IInv'
<1>1. /\ TypeInv /\ SocketsOwned /\ SocketsOpen /\ CallInv /\ RoundInv
      /\ MultiInv /\ WireInv /\ SelectInv
  BY DEF IInv
<1>2. /\ pc = "close" /\ pc' \in {"close", "idle"}
      /\ UNCHANGED <<connections, call, got, reqs, reps, lost, peer, db, multi, store>>
      /\ UNCHANGED <<calls, slipped, failed>>
  BY DEF CloseAgain, EndCall, wireVars, serverVars, history
<1>3. Fresh(NoRound) BY <1>2 DEF Fresh
<1>4. Calm BY <1>1, <1>2, CalmIs DEF Working
<1>5. ~Working /\ ~Working' /\ ~Opening /\ ~Opening' BY <1>2 DEF Working, Opening
<1>6. TypeInv' BY <1>1, <1>2 DEF TypeInv, Open
<1>7. SocketsOwned' BY <1>1, <1>2, OwnedFrame
<1>8. SocketsOpen'
  <2>1. PICK k \in 0..(Len(connections) + calls) :
          /\ Open = FirstSocket..(FirstSocket + k - 1) /\ k <= Len(connections) + calls - 1
    BY <1>1, <1>2, <1>5 DEF SocketsOpen
  <2>2. Len(connections) \in Nat /\ calls \in Nat BY <1>1, SeqFacts DEF TypeInv
  <2>3. k <= Len(connections) + calls - 0 BY <2>1, <2>2
  <2>4. Open' = Open /\ Owned' = Owned BY <1>2 DEF Open, Owned
  <2>5. Open = Owned \cup failed BY <1>1, <1>5 DEF SocketsOpen
  <2> QED BY <1>2, <1>5, <2>1, <2>3, <2>4, <2>5 DEF SocketsOpen
<1>9. CallInv' BY <1>1, <1>2, CallFrame
<1>10. RoundInv' BY <1>5 DEF RoundInv
<1>11. MultiInv' BY <1>1, <1>2, MultiFrame
<1>12. WireInv'
  <2>1. lost \subseteq AllSockets BY <1>1 DEF TypeInv, Open
  <2> QED BY <1>2, <1>3, <1>4, <2>1, FreshWire
<1>13. SelectInv'
  <2>1. \A i \in DOMAIN connections' : connections'[i].socket \in AllSockets
    BY <1>1, <1>2 DEF SocketsOwned, Owned, Open
  <2>2. ~slipped => \A i \in DOMAIN connections' :
          (connections'[i].socket \notin lost) => connections'[i].dbindex = db[connections'[i].socket]
    BY <1>2, <1>4 DEF Calm
  <2> QED BY <1>2, <1>3, <1>4, <1>5, <2>1, <2>2, FreshSelect
<1> QED BY <1>6, <1>7, <1>8, <1>9, <1>10, <1>11, <1>12, <1>13 DEF IInv

\* Another client writes.
LEMMA DisturbStep ==
  ASSUME IInv, NEW d \in Disturbers, Disturb(d[1], d[2]) PROVE IInv'
<1> DEFINE key   == d[1]
           value == d[2]
<1>1. /\ TypeInv /\ SocketsOwned /\ SocketsOpen /\ CallInv /\ RoundInv
      /\ MultiInv /\ WireInv /\ SelectInv
  BY DEF IInv
<1>2. UNCHANGED <<connections, pc, call, got, round, at, replies, peer, db, multi, reqs, reps,
                  lost, calls, slipped, failed>>
  BY DEF Disturb, clientVars, wireVars
<1>3. key \in Keys /\ value \in ValueSet BY ContentsAssumption DEF ValueSet, IsValue
<1> HIDE DEF key, value
<1>4. pc \in {"send", "recv"} /\ call.f # "open"
      /\ store' = [store EXCEPT ![peer[Sock(key)]][db[Sock(key)]][key] = value]
  BY DEF Disturb, key, value
<1>5. connections # <<>> BY <1>1, <1>4 DEF CallInv
<1>6. peer[Sock(key)] \in ToSet(Servers) /\ db[Sock(key)] \in DBs
  <2>1. Sock(key) \in Open /\ peer[Sock(key)] \in ToSet(Servers) BY <1>1, <1>3, <1>5, WiredIs
  <2> QED BY <1>1, <2>1 DEF Open, TypeInv
<1>7. store' \in Stores
  <2> DEFINE srv == peer[Sock(key)]
             n   == db[Sock(key)]
             D   == [store[srv][n] EXCEPT ![key] = value]
             E   == [store[srv] EXCEPT ![n] = D]
  <2>1. store \in [ToSet(Servers) -> [DBs -> Databases]] BY <1>1 DEF TypeInv, Stores
  <2>2. store[srv] \in [DBs -> Databases] /\ store[srv][n] \in Databases BY <1>6, <2>1
  <2>3. store' = [store EXCEPT ![srv] = E] BY <1>4
  <2> HIDE DEF srv, n
  <2>4. D \in Databases BY <1>3, <2>2, ExceptIs
  <2> HIDE DEF D
  <2>5. E \in [DBs -> Databases] BY <2>2, <2>4
  <2> HIDE DEF E
  <2> QED BY <2>1, <2>3, <2>5 DEF Stores
<1>8. TypeInv' BY <1>1, <1>2, <1>7 DEF TypeInv, Open
<1>9. SocketsOwned' BY <1>1, <1>2, OwnedFrame
<1>10. SocketsOpen' BY <1>1, <1>2, OpenFrame DEF Opening, Working
<1>11. CallInv' BY <1>1, <1>2, CallFrame
<1>12. RoundInv' BY <1>1, <1>2, RoundFrame
<1>13. MultiInv' BY <1>1, <1>2, MultiFrame
<1>14. WireInv' BY <1>1, <1>2, WireFrame
<1>15. SelectInv' BY <1>1, <1>2, SelectFrame
<1> QED BY <1>8, <1>9, <1>10, <1>11, <1>12, <1>13, <1>14, <1>15 DEF IInv

\* A step that leaves a socket alone.
LEMMA SocketFrame ==
  ASSUME NEW x, reqs'[x] = reqs[x], reps'[x] = reps[x], multi'[x] = multi[x],
         UNCHANGED <<round, at, call>>
  PROVE  /\ Quiet(x) => Quiet(x)'
         /\ Sending(x) => Sending(x)'
         /\ Receiving(x) => Receiving(x)'
         /\ Transacting(x) => Transacting(x)'
<1>1. Quiet(x) => Quiet(x)' BY DEF Quiet
<1>2. Sending(x) => Sending(x)' BY <1>1 DEF Sending
<1>3. Receiving(x) => Receiving(x)' BY DEF Receiving
<1>4. Transacting(x) => Transacting(x)'
  <2>1. CASE x # round.sends[1].to BY <1>1, <2>1 DEF Transacting
  <2>2. CASE x = round.sends[1].to BY <2>2 DEF Transacting
  <2> QED BY <2>1, <2>2
<1> QED BY <1>1, <1>2, <1>3, <1>4

\* A connection is lost, with what is under way on it.
LEMMA LoseStep == ASSUME IInv, NEW s \in AllSockets, Lose(s) PROVE IInv'
<1>1. /\ TypeInv /\ SocketsOwned /\ SocketsOpen /\ CallInv /\ RoundInv
      /\ MultiInv /\ WireInv /\ SelectInv
  BY DEF IInv
<1>2. UNCHANGED <<connections, pc, call, got, round, at, replies, peer, db, store, calls, slipped, failed>>
  BY DEF Lose, clientVars, history
<1>3. /\ lost' = lost \cup {s} /\ s \in Open
      /\ reqs' = [reqs EXCEPT ![s] = <<>>] /\ reps' = [reps EXCEPT ![s] = <<>>]
      /\ multi' = [multi EXCEPT ![s] = <<>>]
  BY DEF Lose, Open
<1>4. /\ reqs \in [AllSockets -> Seq(Requests)] /\ reps \in [AllSockets -> Seq(Answers)]
      /\ multi \in [AllSockets -> Seq(Commands)]
  BY <1>1 DEF TypeInv
<1>5. /\ reqs'[s] = <<>> /\ reps'[s] = <<>> /\ multi'[s] = <<>>
      /\ \A x \in AllSockets \ {s} : reqs'[x] = reqs[x] /\ reps'[x] = reps[x] /\ multi'[x] = multi[x]
  BY <1>3, <1>4
<1>6. TypeInv'
  <2>1. /\ reqs' \in [AllSockets -> Seq(Requests)] /\ reps' \in [AllSockets -> Seq(Answers)]
        /\ multi' \in [AllSockets -> Seq(Commands)]
    BY <1>3, <1>4, EmptySeq
  <2>2. Open' = Open BY <1>2 DEF Open
  <2>3. \A x \in AllSockets \ Open : reqs'[x] = <<>> BY <1>1, <1>5 DEF TypeInv
  <2> QED BY <1>1, <1>2, <1>3, <2>1, <2>2, <2>3 DEF TypeInv
<1>7. SocketsOwned' BY <1>1, <1>2, OwnedFrame
<1>8. SocketsOpen' BY <1>1, <1>2, OpenFrame DEF Opening, Working
<1>9. CallInv' BY <1>1, <1>2, CallFrame
<1>10. RoundInv' BY <1>1, <1>2, RoundFrame
<1>11. MultiInv' BY <1>1, <1>3, <1>5 DEF MultiInv
<1>12. WireInv'
  <2> SUFFICES ASSUME ~slipped PROVE WireInv' BY <1>2 DEF WireInv
  <2>1. 1..Len(reqs'[s]) = {} /\ 1..Len(reps'[s]) = {} BY <1>5, EmptySeq
  <2>2. \A x \in AllSockets : /\ \A i \in 1..Len(reqs'[x]) : reqs'[x][i].of = calls'
                              /\ \A i \in 1..Len(reps'[x]) : reps'[x][i].of = calls'
    BY <1>1, <1>2, <1>5, <2>1 DEF WireInv
  <2>3. Working' => \A x \in AllSockets : \A i \in 1..Len(reqs'[x]) : Fits(reqs'[x][i].cmd, round', call')
    BY <1>1, <1>2, <1>5, <2>1 DEF WireInv, Working
  <2>4. ASSUME NEW x \in AllSockets \ lost'
        PROVE  /\ ~Working' => Quiet(x)'
               /\ pc' = "send" => Sending(x)'
               /\ pc' = "recv" => IF call'.f = "exec_transaction" THEN Transacting(x)' ELSE Receiving(x)'
    <3>1. x \in AllSockets \ lost /\ x \in AllSockets \ {s} BY <1>3, <2>4
    <3>2. /\ ~Working => Quiet(x)
          /\ pc = "send" => Sending(x)
          /\ pc = "recv" => IF call.f = "exec_transaction" THEN Transacting(x) ELSE Receiving(x)
      BY <1>1, <3>1 DEF WireInv
    <3>3. Working' = Working BY <1>2 DEF Working
    <3> QED BY <1>2, <1>5, <3>1, <3>2, <3>3, SocketFrame
  <2>5. \A x \in lost' : reps'[x] = <<>>
    <3>1. lost \subseteq AllSockets /\ \A x \in lost : reps[x] = <<>>
      BY <1>1, <1>2 DEF WireInv, TypeInv, Open
    <3> QED BY <1>3, <1>5, <3>1
  <2> QED BY <2>2, <2>3, <2>4, <2>5 DEF WireInv
<1>13. SelectInv'
  <2> SUFFICES ASSUME ~slipped PROVE SelectInv' BY <1>2 DEF SelectInv
  <2>1. 1..Len(reps'[s]) = {} BY <1>5, EmptySeq
  <2>2. Selection' = Selection /\ Working' = Working /\ Opening' = Opening
    BY <1>2 DEF Selection, Working, Opening
  <2>3. \A i \in DOMAIN connections : connections[i].socket \in AllSockets
    BY <1>1 DEF SocketsOwned, Owned, Open
  <2>4. Working' /\ call'.f \in Selecting =>
          \A x \in AllSockets : \A i \in 1..Len(reps'[x]) : reps'[x][i].reply = Selection'
    BY <1>1, <1>2, <1>5, <2>1, <2>2 DEF SelectInv
  <2>5. \A i \in DOMAIN connections' :
          LET c == connections'[i]
          IN  c.socket \notin lost' =>
                \/ c.dbindex = db'[c.socket]
                \/ /\ Working' /\ call'.f = "select"
                   /\ reps'[c.socket] # <<>> /\ db'[c.socket] = call'.db /\ call'.db \in DBs
    BY <1>1, <1>2, <1>3, <1>5, <2>2, <2>3 DEF SelectInv
  <2>6. Working' /\ call'.f = "select" /\ call'.db \in DBs =>
          \A x \in AllSockets : reps'[x] # <<>> => db'[x] = call'.db
    BY <1>1, <1>2, <1>5, <2>2 DEF SelectInv
  <2>7. Opening' /\ call'.socket \notin lost' /\ (replies' # <<>> \/ reps'[call'.socket] # <<>>) =>
          (replies' # <<>> => call'.db \in DBs) /\ (call'.db \in DBs => db'[call'.socket] = call'.db)
    <3>1. Opening => call.socket \in AllSockets BY <1>1 DEF CallInv, Opening, Working
    <3> QED BY <1>1, <1>2, <1>3, <1>5, <2>2, <3>1 DEF SelectInv
  <2> QED BY <2>4, <2>5, <2>6, <2>7 DEF SelectInv
<1> QED BY <1>6, <1>7, <1>8, <1>9, <1>10, <1>11, <1>12, <1>13 DEF IInv

\* The invariant holds at first.
LEMMA InitStep == ASSUME Init PROVE IInv
<1>1. PICK n \in 0..Len(Servers) :
        /\ connections = [i \in 1..n |-> [server |-> Servers[i], socket |-> FirstSocket + i - 1,
                                          dbindex |-> 0]]
        /\ peer = [s \in AllSockets |->
                     IF s - FirstSocket < n THEN Servers[s - FirstSocket + 1] ELSE "closed"]
        /\ \E D \in Contents :
             store = [srv \in ToSet(Servers) |-> [d \in DBs |-> [k \in Keys |->
                        IF n > 0 /\ d = 0 /\ peer[Sock(k)] = srv THEN D[k] ELSE Nothing]]]
  BY DEF Init
<1>2. /\ pc = "idle" /\ lost = {} /\ calls = 0 /\ slipped = FALSE /\ failed = {}
      /\ reqs = [s \in AllSockets |-> <<>>] /\ reps = [s \in AllSockets |-> <<>>]
      /\ db = [s \in AllSockets |-> 0] /\ multi = [s \in AllSockets |-> <<>>]
  BY DEF Init
<1>3. /\ FirstSocket \in Nat /\ MaxSocket \in Nat /\ MaxSocket - FirstSocket >= Len(Servers) - 1
      /\ Len(Servers) \in Nat /\ n \in Nat /\ n <= Len(Servers) /\ 0 \in DBs /\ 0 \in Int
      /\ \A i \in 1..Len(Servers) : Servers[i] \in ToSet(Servers) /\ Servers[i] # "closed"
  BY ClusterAssumption, ToSetFinite, SeqFacts
<1>4. \A i \in 1..n : FirstSocket + i - 1 \in AllSockets BY <1>3 DEF AllSockets
<1>5. connections \in [1..n -> Connections]
  <2>1. \A i \in 1..n : Servers[i] \in ToSet(Servers) BY <1>3
  <2> QED BY <1>1, <1>3, <1>4, <2>1 DEF Connections
<1>6. connections \in Seq(Connections) /\ Len(connections) = n /\ DOMAIN connections = 1..n
  BY <1>3, <1>5, ListIs
<1>7. peer \in [AllSockets -> ToSet(Servers) \cup {"closed"}]
      /\ \A s \in AllSockets : (peer[s] # "closed") <=> s - FirstSocket < n
  <2> SUFFICES ASSUME NEW s \in AllSockets
               PROVE  IF s - FirstSocket < n
                      THEN Servers[s - FirstSocket + 1] \in ToSet(Servers) /\ Servers[s - FirstSocket + 1] # "closed"
                      ELSE TRUE
    BY <1>1
  <2>1. s \in Int /\ s >= FirstSocket BY <1>3 DEF AllSockets
  <2> QED BY <1>3, <2>1
<1>8. Open = FirstSocket..(FirstSocket + n - 1)
  <2>1. \A s : s \in AllSockets <=> (s \in Int /\ FirstSocket <= s /\ s <= MaxSocket)
    BY <1>3 DEF AllSockets
  <2>2. Open = {s \in AllSockets : s - FirstSocket < n} BY <1>7 DEF Open
  <2> QED BY <1>3, <2>1, <2>2
<1>9. store \in Stores
  <2>1. PICK D \in Contents :
          store = [srv \in ToSet(Servers) |-> [d \in DBs |-> [k \in Keys |->
                     IF n > 0 /\ d = 0 /\ peer[Sock(k)] = srv THEN D[k] ELSE Nothing]]]
    BY <1>1
  <2>2. \A k \in Keys : D[k] \in ValueSet BY ContentsAssumption DEF ValueSet, IsValue
  <2>3. Nothing \in ValueSet BY ValueKinds
  <2> HIDE DEF ValueSet
  <2> QED BY <2>1, <2>2, <2>3 DEF Stores, Databases
<1>10. \A s \in AllSockets : /\ reqs[s] = <<>> /\ reps[s] = <<>> /\ multi[s] = <<>> /\ db[s] = 0
                             /\ 1..Len(reqs[s]) = {} /\ 1..Len(reps[s]) = {}
  BY <1>2, EmptySeq
<1>11. ~Working /\ ~Opening BY <1>2 DEF Working, Opening
<1>12. TypeInv
  <2>1. /\ db \in [AllSockets -> DBs]
        /\ reqs \in [AllSockets -> Seq(Requests)] /\ reps \in [AllSockets -> Seq(Answers)]
        /\ multi \in [AllSockets -> Seq(Commands)]
    BY <1>2, <1>3, EmptySeq
  <2>2. calls \in 0..MaxCalls /\ failed \subseteq AllSockets /\ lost \subseteq Open
    BY <1>2, ClusterAssumption
  <2>6. slipped \in BOOLEAN BY <1>2
  <2>3. \A s \in AllSockets \ Open : reqs[s] = <<>> BY <1>10
  <2>4. Len(connections) <= Len(Servers) BY <1>3, <1>6
  <2>5. pc \in {"idle", "connect", "send", "recv", "close"} BY <1>2
  <2> QED BY <1>6, <1>7, <1>9, <2>1, <2>2, <2>3, <2>4, <2>5, <2>6 DEF TypeInv
<1>13. \A i \in 1..n : /\ connections[i].socket = FirstSocket + i - 1
                       /\ connections[i].server = Servers[i] /\ connections[i].dbindex = 0
  BY <1>1
<1>14. Owned = Open
  <2>1. Owned = {FirstSocket + i - 1 : i \in 1..n} BY <1>6, <1>13 DEF Owned
  <2>2. ASSUME NEW s \in FirstSocket..(FirstSocket + n - 1) PROVE \E i \in 1..n : s = FirstSocket + i - 1
    <3>1. s - FirstSocket + 1 \in 1..n /\ s = FirstSocket + (s - FirstSocket + 1) - 1 BY <1>3
    <3> QED BY <3>1
  <2>3. \A i \in 1..n : FirstSocket + i - 1 \in FirstSocket..(FirstSocket + n - 1) BY <1>3
  <2> QED BY <1>8, <2>1, <2>2, <2>3
<1>15. SocketsOwned
  <2>1. ASSUME NEW i \in 1..n PROVE connections[i].server = peer[connections[i].socket]
    <3>1. (FirstSocket + i - 1) - FirstSocket + 1 = i /\ (FirstSocket + i - 1) - FirstSocket < n BY <1>3
    <3> QED BY <1>1, <1>4, <1>13, <3>1
  <2>2. \A i, j \in 1..n : i # j => connections[i].socket # connections[j].socket BY <1>3, <1>13
  <2> QED BY <1>6, <1>14, <2>1, <2>2 DEF SocketsOwned
<1>16. SocketsOpen
  <2>1. n \in 0..(Len(connections) + calls) /\ n <= Len(connections) + calls - 0
    BY <1>2, <1>3, <1>6
  <2> QED BY <1>2, <1>8, <1>11, <1>14, <2>1 DEF SocketsOpen
<1>17. CallInv /\ RoundInv BY <1>2, <1>11 DEF CallInv, RoundInv
<1>18. MultiInv
  <2>1. 1..Len(<<>>) = {} BY EmptySeq
  <2>2. Brackets(<<>>, <<>>, {}) /\ {} \in SUBSET (1..Len(<<>>)) BY <2>1 DEF Brackets
  <2>3. \A s \in AllSockets : /\ \E B \in SUBSET (1..Len(reqs[s])) : Brackets(multi[s], reqs[s], B)
                              /\ ~(multi[s] # <<>>)
    BY <1>10, <2>2
  <2> QED BY <1>2, <2>3 DEF MultiInv
<1>19. WireInv BY <1>2, <1>10, <1>11 DEF WireInv, Quiet
<1>20. SelectInv
  <2>1. \A i \in DOMAIN connections : connections[i].dbindex = db[connections[i].socket]
    BY <1>4, <1>6, <1>10, <1>13
  <2> QED BY <1>11, <2>1 DEF SelectInv
<1> QED BY <1>12, <1>15, <1>16, <1>17, <1>18, <1>19, <1>20 DEF IInv

-----------------------------------------------------------------------------
(* Rounds under way                                                        *)

\* The shape of a round that is sound.
LEMMA RoundShape ==
  ASSUME NEW r, NEW c, NEW T, RoundOK(r, c, T)
  PROVE  /\ Len(r.sends) \in Nat /\ DOMAIN r.sends = 1..Len(r.sends) /\ Len(r.sends) > 0
         /\ \A i \in 1..Len(r.sends) : r.sends[i].to \in T /\ r.sends[i].cmds \in Seq(Commands)
         /\ Len(r.reads) \in Nat /\ DOMAIN r.reads = 1..Len(r.reads)
         /\ \A k \in 1..Len(r.reads) : r.reads[k].from \in Int /\ r.reads[k].as \in Readers
         /\ \A k \in 1..Len(r.reads) : \E i \in 1..Len(r.sends) : r.reads[k].from = r.sends[i].to
<1> DEFINE q == r.sends
           w == r.reads
<1>1. q \in Seq(Sends(T)) /\ w \in Seq(Reads) /\ q # <<>> BY DEF RoundOK, Rounds
<1>2. /\ Len(q) \in Nat /\ DOMAIN q = 1..Len(q) /\ Len(q) > 0 /\ \A i \in 1..Len(q) : q[i] \in Sends(T)
      /\ Len(w) \in Nat /\ DOMAIN w = 1..Len(w) /\ \A k \in 1..Len(w) : w[k] \in Reads
  <2> HIDE DEF q, w
  <2>1. /\ Len(q) \in Nat /\ DOMAIN q = 1..Len(q) /\ Len(q) # 0 /\ \A i \in 1..Len(q) : q[i] \in Sends(T)
        /\ Len(w) \in Nat /\ DOMAIN w = 1..Len(w) /\ \A k \in 1..Len(w) : w[k] \in Reads
    BY <1>1, SeqFacts
  <2> QED BY <2>1
<1>3. \A k \in 1..Len(w) : \E i \in 1..Len(q) : w[k].from = q[i].to
  <2>1. CASE c.f = "exec_transaction"
    <3>1. \A k \in 1..Len(w) : w[k].from = q[1].to BY <1>2, <2>1 DEF RoundOK, Transaction
    <3>2. 1 \in 1..Len(q) BY <1>2
    <3> QED BY <3>1, <3>2
  <2>2. CASE c.f # "exec_transaction"
    <3>1. Balanced(r) BY <2>2 DEF RoundOK
    <3> QED BY <1>2, <3>1 DEF Balanced
  <2> QED BY <2>1, <2>2
<1> QED BY <1>2, <1>3 DEF Sends, Reads

\* The reads that are left from a socket.
LEMMA FromIs ==
  ASSUME NEW r, Len(r.reads) \in Nat, NEW k \in Nat \ {0}, NEW s
  PROVE  /\ Cardinality(From(r, k, s)) \in Nat
         /\ (Cardinality(From(r, k, s)) = 0) <=> (From(r, k, s) = {})
         /\ k \in 1..Len(r.reads) =>
              Cardinality(From(r, k, s))
                = Cardinality(From(r, k + 1, s)) + (IF r.reads[k].from = s THEN 1 ELSE 0)
         /\ k > Len(r.reads) => From(r, k, s) = {}
<1> DEFINE q == r.reads
           f == From(r, k, s)
           g == From(r, k + 1, s)
<1>1. f = LeftFrom(q, k, s) /\ g = LeftFrom(q, k + 1, s) BY DEF From, LeftFrom
<1>2. Len(q) \in Nat OBVIOUS
<1> HIDE DEF q, f, g
<1>3. /\ Cardinality(f) \in Nat
      /\ (Cardinality(f) = 0) <=> (f = {})
      /\ k \in 1..Len(q) => Cardinality(f) = Cardinality(g) + (IF q[k].from = s THEN 1 ELSE 0)
      /\ k > Len(q) => f = {}
  BY <1>1, <1>2, LeftIs
<1> QED BY <1>3 DEF q, f, g

\* A socket from which nothing is read is sent nothing.
LEMMA FromNone ==
  ASSUME NEW r, NEW c, NEW T, RoundOK(r, c, T), NEW s,
         \A i \in 1..Len(r.sends) : r.sends[i].to # s, NEW k \in Nat \ {0}
  PROVE  Cardinality(From(r, k, s)) = 0
<1>1. /\ Len(r.reads) \in Nat
      /\ \A j \in 1..Len(r.reads) : \E i \in 1..Len(r.sends) : r.reads[j].from = r.sends[i].to
  BY RoundShape
<1>2. From(r, k, s) = {} BY <1>1 DEF From
<1> QED BY <1>2, FS_EmptySet

\* What a transaction sends.
LEMMA StreamIs ==
  ASSUME NEW c, c.cmds \in Seq(Plainly)
  PROVE  LET m == Len(c.cmds)
         IN  /\ m \in Nat /\ Len(Stream(c)) = m + 2
             /\ Stream(c)[1] = <<"MULTI">> /\ Stream(c)[m + 2] = <<"EXEC">>
             /\ \A i \in 1..m : Stream(c)[i + 1] = c.cmds[i] /\ c.cmds[i] \in Plainly
<1> DEFINE w == c.cmds
           a == <<"MULTI">>
           z == <<"EXEC">>
           S == Plainly \cup {a, z}
<1>1. w \in Seq(S) BY SeqMore
<1>2. Len(w) \in Nat /\ \A i \in 1..Len(w) : w[i] \in Plainly BY SeqFacts
<1>3. a \in S /\ z \in S OBVIOUS
<1>4. Stream(c) = <<a>> \o w \o <<z>> BY DEF Stream
<1> HIDE DEF w, a, z, S
<1>5. LET q == <<a>> \o w \o <<z>>
      IN  Len(q) = Len(w) + 2 /\ q[1] = a /\ q[Len(w) + 2] = z /\ \A i \in 1..Len(w) : q[i + 1] = w[i]
  BY <1>1, <1>3, BetweenIs
<1> QED BY <1>2, <1>4, <1>5 DEF w, a, z

\* Commands that open no transaction, and those of one.
LEMMA BracketsIs ==
  ASSUME NEW q \in Seq(Requests)
  PROVE  /\ (\A i \in 1..Len(q) : q[i].cmd[1] \notin {"MULTI", "EXEC"}) => Brackets(<<>>, q, {})
         /\ \A c : c.cmds \in Seq(Plainly) /\ Len(q) = Len(Stream(c))
                     /\ (\A i \in 1..Len(q) : q[i].cmd = Stream(c)[i])
                   => Brackets(<<>>, q, 2..Len(q))
<1> DEFINE n == Len(q)
<1>1. n \in Nat BY SeqFacts
<1>2. (\A i \in 1..n : q[i].cmd[1] \notin {"MULTI", "EXEC"}) => Brackets(<<>>, q, {})
  BY DEF Brackets
<1>3. ASSUME NEW c, c.cmds \in Seq(Plainly), n = Len(Stream(c)), \A i \in 1..n : q[i].cmd = Stream(c)[i]
      PROVE  Brackets(<<>>, q, 2..n)
  <2> DEFINE m == Len(c.cmds)
  <2>1. /\ m \in Nat /\ n = m + 2 /\ Stream(c)[1] = <<"MULTI">> /\ Stream(c)[n] = <<"EXEC">>
        /\ \A i \in 1..m : Stream(c)[i + 1] = c.cmds[i] /\ c.cmds[i] \in Plainly
    BY <1>3, StreamIs
  <2> HIDE DEF m
  <2>2. ASSUME NEW i \in 1..n
        PROVE  LET cmd == q[i].cmd
               IN  /\ cmd[1] = "MULTI" => i \notin 2..n /\ i + 1 \in 2..n
                   /\ cmd[1] = "EXEC" => i \in 2..n /\ i + 1 \notin 2..n
                   /\ cmd[1] \notin {"MULTI", "EXEC"} =>
                        (i + 1 \in 2..n <=> i \in 2..n) /\ (i \in 2..n => cmd \in Plainly)
    <3>1. CASE i = 1
      <4>1. q[i].cmd = <<"MULTI">> BY <1>3, <2>1, <2>2, <3>1
      <4>2. i \notin 2..n /\ i + 1 \in 2..n BY <2>1, <3>1
      <4> QED BY <4>1, <4>2
    <3>2. CASE i = n
      <4>1. q[i].cmd = <<"EXEC">> BY <1>3, <2>1, <2>2, <3>2
      <4>2. i \in 2..n /\ i + 1 \notin 2..n BY <2>1, <3>2
      <4> QED BY <4>1, <4>2
    <3>3. CASE i # 1 /\ i # n
      <4>1. i - 1 \in 1..m /\ i = (i - 1) + 1 BY <2>1, <2>2, <3>3
      <4>2. q[i].cmd \in Plainly BY <1>3, <2>1, <2>2, <4>1
      <4>3. q[i].cmd[1] \notin {"MULTI", "EXEC"} BY <4>2, PlainVerbs DEF Control
      <4>4. i \in 2..n /\ i + 1 \in 2..n BY <2>1, <2>2, <3>3
      <4> QED BY <4>2, <4>3, <4>4
    <3> QED BY <3>1, <3>2, <3>3
  <2>3. 2..n \subseteq 1..n /\ 1 \notin 2..n OBVIOUS
  <2> HIDE DEF n
  <2>4. Brackets(<<>>, q, 2..n) BY <2>2, <2>3 DEF Brackets, n
  <2> QED BY <2>4
<1> QED BY <1>2, <1>3

\* They may follow one another.
LEMMA BracketsCat ==
  ASSUME NEW ms, NEW q \in Seq(Requests), NEW w \in Seq(Requests), NEW B, Brackets(ms, q, B),
         NEW C, Brackets(<<>>, w, C)
  PROVE  \E D \in SUBSET (1..Len(q \o w)) : Brackets(ms, q \o w, D)
<1> DEFINE n == Len(q)
           m == Len(w)
           D == {i \in 1..(n + m) : i \in B \/ i - n \in C}
           qw == q \o w
<1>1. /\ n \in Nat /\ m \in Nat /\ Len(qw) = n + m
      /\ \A i \in 1..n : qw[i] = q[i]
      /\ \A i \in 1..m : qw[n + i] = w[i]
  BY ConcatIs, SeqFacts
<1>2. B \subseteq 1..n /\ C \subseteq 1..m /\ 1 \notin C /\ (1 \in B <=> ms # <<>>) BY DEF Brackets
<1> HIDE DEF n, m, qw
<1>3. \A i \in 1..n : (i \in D <=> i \in B)
  BY <1>1, <1>2
<1>4. \A i \in 1..m : (n + i \in D <=> i \in C)
  BY <1>1, <1>2
<1>5. n + 1 \notin D /\ n + m + 1 \notin D /\ n + 1 \notin B /\ m + 1 \notin C BY <1>1, <1>2
<1>6. D \subseteq 1..(n + m) /\ (1 \in D <=> 1 \in B)
  <2>1. CASE n = 0 BY <1>2, <1>5, <2>1
  <2>2. CASE n # 0
    <3>1. 1 \in 1..n BY <1>1, <2>2
    <3> QED BY <1>3, <3>1
  <2> QED BY <2>1, <2>2
<1> HIDE DEF D
<1>7. ASSUME NEW i \in 1..(n + m)
      PROVE  LET cmd == qw[i].cmd
             IN  /\ cmd[1] = "MULTI" => i \notin D /\ i + 1 \in D
                 /\ cmd[1] = "EXEC" => i \in D /\ i + 1 \notin D
                 /\ cmd[1] \notin {"MULTI", "EXEC"} =>
                      (i + 1 \in D <=> i \in D) /\ (i \in D => cmd \in Plainly)
  <2>1. CASE i <= n
    <3>1. i \in 1..n /\ qw[i] = q[i] BY <1>1, <1>7, <2>1
    <3>2. (i \in D <=> i \in B) /\ (i + 1 \in D <=> i + 1 \in B)
      <4>1. CASE i = n BY <1>3, <1>5, <3>1, <4>1
      <4>2. CASE i # n
        <5>1. i + 1 \in 1..n BY <1>1, <3>1, <4>2
        <5> QED BY <1>3, <3>1, <5>1
      <4> QED BY <4>1, <4>2
    <3>3. LET cmd == q[i].cmd
          IN  /\ cmd[1] = "MULTI" => i \notin B /\ i + 1 \in B
              /\ cmd[1] = "EXEC" => i \in B /\ i + 1 \notin B
              /\ cmd[1] \notin {"MULTI", "EXEC"} =>
                   (i + 1 \in B <=> i \in B) /\ (i \in B => cmd \in Plainly)
      BY <3>1 DEF Brackets, n
    <3> QED BY <3>1, <3>2, <3>3
  <2>2. CASE i > n
    <3> DEFINE j == i - n
    <3>1. j \in 1..m /\ i = n + j BY <1>1, <1>7, <2>2
    <3> HIDE DEF j
    <3>2. qw[i] = w[j] BY <1>1, <3>1
    <3>3. (i \in D <=> j \in C) /\ (i + 1 \in D <=> j + 1 \in C)
      <4>1. i \in D <=> j \in C BY <1>4, <3>1
      <4>2. CASE j = m
        <5>1. i + 1 = n + m + 1 /\ j + 1 = m + 1 BY <1>1, <3>1, <4>2
        <5> QED BY <1>5, <4>1, <5>1
      <4>3. CASE j # m
        <5>1. j + 1 \in 1..m /\ i + 1 = n + (j + 1) BY <1>1, <3>1, <4>3
        <5> QED BY <1>4, <4>1, <5>1
      <4> QED BY <4>2, <4>3
    <3>4. LET cmd == w[j].cmd
          IN  /\ cmd[1] = "MULTI" => j \notin C /\ j + 1 \in C
              /\ cmd[1] = "EXEC" => j \in C /\ j + 1 \notin C
              /\ cmd[1] \notin {"MULTI", "EXEC"} =>
                   (j + 1 \in C <=> j \in C) /\ (j \in C => cmd \in Plainly)
      BY <3>1 DEF Brackets, m
    <3> QED BY <3>2, <3>3, <3>4
  <2> QED BY <1>1, <1>7, <2>1, <2>2
<1>8. Brackets(ms, qw, D) BY <1>1, <1>2, <1>6, <1>7 DEF Brackets
<1>9. D \in SUBSET (1..Len(qw)) BY <1>1, <1>6
<1> QED BY <1>8, <1>9 DEF qw

\* The commands of one element of round.sends are sent.
SentOn(s, cmds) ==
  reqs' = IF s \in lost THEN reqs
          ELSE [reqs EXCEPT ![s] = @ \o [i \in DOMAIN cmds |-> [cmd |-> cmds[i], of |-> calls]]]

\* The step that sends: the commands are under way, or their connection was
\* lost.
LEMMA SentStep ==
  ASSUME IInv, pc = "send", UNCHANGED <<reps, lost, peer, db, multi, store>>,
         UNCHANGED <<connections, call, got, round, replies, calls, slipped, failed>>,
         round.sends[at].to # NoSocket,
         SentOn(round.sends[at].to, round.sends[at].cmds),
         IF at < Len(round.sends) THEN at' = at + 1 /\ pc' = pc ELSE at' = 1 /\ pc' = "recv"
  PROVE  IInv'
<1> DEFINE T   == Open \cup {NoSocket}
           n   == Len(round.sends)
           s   == round.sends[at].to
           cs  == round.sends[at].cmds
           new == [i \in DOMAIN cs |-> [cmd |-> cs[i], of |-> calls]]
<1>1. /\ TypeInv /\ SocketsOwned /\ SocketsOpen /\ CallInv /\ RoundInv
      /\ MultiInv /\ WireInv /\ SelectInv
  BY DEF IInv
<1>2. Working /\ Working' /\ pc # "idle" /\ pc' # "idle" /\ pc' \in {"send", "recv"} BY DEF Working
<1>3. /\ RoundOK(round, call, T) /\ GotOK(call, got) /\ AsksText(round, call, got)
      /\ at \in DOMAIN round.sends /\ replies = <<>>
      /\ \A k \in 1..(at - 1) : round.sends[k].to # NoSocket
  BY <1>1, <1>2 DEF RoundInv
<1>4. /\ n \in Nat /\ at \in 1..n
      /\ \A k \in 1..n : round.sends[k].to \in T /\ round.sends[k].cmds \in Seq(Commands)
      /\ Len(round.reads) \in Nat
  <2> HIDE DEF T
  <2> QED BY <1>3, RoundShape
<1>5. s \in Open /\ s \in AllSockets /\ cs \in Seq(Commands) BY <1>4 DEF Open
<1>6. calls \in Nat /\ reqs \in [AllSockets -> Seq(Requests)] BY <1>1 DEF TypeInv
<1>7. new \in Seq(Requests) /\ Len(new) = Len(cs)
      /\ \A i \in 1..Len(new) : new[i].cmd = cs[i] /\ new[i].of = calls
  <2>1. /\ Len(cs) \in Nat /\ DOMAIN cs = 1..Len(cs)
        /\ \A i \in 1..Len(cs) : cs[i] \in Commands
    <3> HIDE DEF cs
    <3> QED BY <1>5, SeqFacts
  <2> DEFINE m == Len(cs)
  <2>2. new = [i \in 1..m |-> [cmd |-> cs[i], of |-> calls]] BY <2>1
  <2> HIDE DEF new, cs
  <2>3. new \in [1..m -> Requests] BY <1>6, <2>1, <2>2 DEF Requests
  <2>4. new \in Seq(Requests) /\ Len(new) = m BY <2>1, <2>3, ListIs
  <2> QED BY <2>2, <2>4
<1>8. reqs' = IF s \in lost THEN reqs ELSE [reqs EXCEPT ![s] = @ \o new] BY DEF SentOn
<1>9. ASSUME NEW i \in 1..Len(cs) PROVE Fits(cs[i], round, call)
  <2>1. i \in DOMAIN cs
    <3> HIDE DEF cs
    <3> QED BY <1>5, <1>9, SeqFacts
  <2> QED BY <1>3, <2>1 DEF RoundOK
<1> HIDE DEF new, cs, s
<1>10. /\ \A x \in AllSockets : x # s => reqs'[x] = reqs[x]
       /\ s \in lost => reqs' = reqs
       /\ s \notin lost => reqs'[s] = reqs[s] \o new
  BY <1>5, <1>6, <1>8
<1>11. reqs[s] \in Seq(Requests) /\ reqs[s] \o new \in Seq(Requests)
  <2> DEFINE q == reqs[s]
  <2>1. q \in Seq(Requests) BY <1>5, <1>6
  <2> HIDE DEF q
  <2>2. q \o new \in Seq(Requests) BY <1>7, <2>1, ConcatIs
  <2> QED BY <2>1, <2>2 DEF q
<1> DEFINE q == reqs[s]
<1> HIDE DEF q
<1>12. Len(reqs[s] \o new) \in Nat BY <1>11, SeqFacts
\* The sends are to sockets of their own, except in a transaction.
<1>13. IF call.f = "exec_transaction"
       THEN /\ n = 1 /\ at = 1 /\ cs = Stream(call)
            /\ Len(round.reads) = 2 * Len(call.cmds) + 2
       ELSE Balanced(round)
  <2>1. CASE call.f = "exec_transaction"
    <3>1. Transaction(round, call) BY <1>3, <2>1 DEF RoundOK
    <3>2. n = 1 BY <3>1 DEF Transaction
    <3>3. at = 1 BY <1>4, <3>2
    <3> QED BY <2>1, <3>1, <3>2, <3>3 DEF Transaction, cs
  <2>2. CASE call.f # "exec_transaction" BY <1>3, <2>2 DEF RoundOK
  <2> QED BY <2>1, <2>2
<1>14. \A k \in 1..n : k # at => round.sends[k].to # s
  <2>1. CASE call.f = "exec_transaction" BY <1>4, <1>13, <2>1
  <2>2. CASE call.f # "exec_transaction"
    <3>1. DOMAIN round.sends = 1..n BY <1>3, RoundShape
    <3> QED BY <1>4, <1>13, <2>2, <3>1 DEF Balanced, s
  <2> QED BY <2>1, <2>2
<1>15. IF at < n THEN at' = at + 1 /\ pc' = "send" ELSE at' = 1 /\ pc' = "recv" OBVIOUS
<1>16. TypeInv'
  <2>1. reqs' \in [AllSockets -> Seq(Requests)] BY <1>5, <1>6, <1>8, <1>11
  <2>2. Open' = Open BY DEF Open
  <2>3. \A x \in AllSockets \ Open' : reqs'[x] = <<>> BY <1>1, <1>5, <1>10, <2>2 DEF TypeInv
  <2> QED BY <1>1, <1>2, <2>1, <2>2, <2>3 DEF TypeInv
<1>17. SocketsOwned' BY <1>1, OwnedFrame
<1>18. SocketsOpen' BY <1>1, <1>2, OpenFrame DEF Opening
<1>19. CallInv'
  <2>1. Opening' = Opening BY <1>2 DEF Opening
  <2> QED BY <1>1, <1>2, <2>1 DEF CallInv, Owned
<1>20. RoundInv'
  <2>1. \A k \in 1..at : round.sends[k].to # NoSocket
    <3>1. \A k \in 1..at : k = at \/ k \in 1..(at - 1) BY <1>4
    <3> QED BY <1>3, <3>1
  <2>2. CASE at < n
    <3>1. at' \in 1..n /\ at' - 1 = at BY <1>4, <1>15, <2>2
    <3>2. DOMAIN round.sends = 1..n BY <1>3, RoundShape
    <3> QED BY <1>3, <1>15, <2>1, <2>2, <3>1, <3>2 DEF RoundInv, Open
  <2>3. CASE ~(at < n)
    <3>1. at = n BY <1>4, <2>3
    <3>2. DOMAIN round.sends = 1..n BY <1>3, RoundShape
    <3>3. at' = 1 /\ pc' = "recv" BY <1>15, <2>3
    <3>4. at' \in 1..(Len(round.reads) + 1) /\ 1..(at' - 1) = {} BY <1>4, <3>3
    <3>5. replies' \in Seq(Replies) /\ Len(replies') = at' - 1 BY <1>3, <3>3, EmptySeq
    <3> QED BY <1>3, <2>1, <3>1, <3>2, <3>3, <3>4, <3>5 DEF RoundInv, Open
  <2> QED BY <2>2, <2>3
<1>21. MultiInv'
  <2>1. \A x \in lost' : reqs'[x] = <<>>
    <3>1. lost \subseteq AllSockets BY <1>1 DEF TypeInv, Open
    <3> QED BY <1>1, <1>10, <3>1 DEF MultiInv
  <2>2. ASSUME NEW x \in AllSockets \ lost
        PROVE  \E B \in SUBSET (1..Len(reqs'[x])) : Brackets(multi[x], reqs'[x], B)
    <3>1. PICK B \in SUBSET (1..Len(reqs[x])) : Brackets(multi[x], reqs[x], B)
      BY <1>1 DEF MultiInv
    <3>2. CASE x # s BY <1>10, <3>1, <3>2
    <3>3. CASE x = s
      <4>1. \E C : Brackets(<<>>, new, C)
        <5>1. CASE call.f = "exec_transaction"
          <6>1. Working => IsCall(call) BY <1>1, <1>2 DEF CallInv
          <6>2. call.cmds \in Seq(Plainly) BY <1>2, <5>1, <6>1, CallIs
          <6>3. Len(new) = Len(Stream(call)) /\ \A i \in 1..Len(new) : new[i].cmd = Stream(call)[i]
            BY <1>7, <1>13, <5>1
          <6> QED BY <1>7, <6>2, <6>3, BracketsIs
        <5>2. CASE call.f # "exec_transaction"
          <6>1. \A i \in 1..Len(new) : new[i].cmd[1] \notin {"MULTI", "EXEC"}
            BY <1>7, <1>9, <5>2 DEF Fits
          <6> QED BY <1>7, <6>1, BracketsIs
        <5> QED BY <5>1, <5>2
      <4>2. PICK C : Brackets(<<>>, new, C) BY <4>1
      <4>3. q \in Seq(Requests) /\ Brackets(multi[x], q, B) BY <1>11, <3>1, <3>3 DEF q
      <4>4. \E D \in SUBSET (1..Len(q \o new)) : Brackets(multi[x], q \o new, D)
        BY <1>7, <4>2, <4>3, BracketsCat
      <4>5. reqs'[x] = q \o new BY <1>10, <2>2, <3>3 DEF q
      <4> QED BY <4>4, <4>5
    <3> QED BY <3>2, <3>3
  <2> QED BY <1>1, <2>1, <2>2 DEF MultiInv
<1>22. WireInv'
  <2> SUFFICES ASSUME ~slipped PROVE WireInv' BY DEF WireInv
  <2>1. /\ \A x \in AllSockets : \A i \in 1..Len(reqs[x]) : /\ reqs[x][i].of = calls
                                                           /\ Fits(reqs[x][i].cmd, round, call)
        /\ \A x \in AllSockets \ lost : Sending(x)
        /\ \A x \in lost : reps[x] = <<>>
        /\ \A x \in AllSockets : \A i \in 1..Len(reps[x]) : reps[x][i].of = calls
    BY <1>1, <1>2 DEF WireInv
  <2>2. ASSUME NEW x \in AllSockets, NEW i \in 1..Len(reqs'[x])
        PROVE  reqs'[x][i].of = calls /\ Fits(reqs'[x][i].cmd, round, call)
    <3>1. CASE reqs'[x] = reqs[x] BY <2>1, <2>2, <3>1
    <3>2. CASE reqs'[x] # reqs[x]
      <4>1. x = s /\ reqs'[x] = q \o new BY <1>10, <3>2 DEF q
      <4>2. q \in Seq(Requests) /\ i \in 1..Len(q \o new) BY <1>11, <2>2, <4>1 DEF q
      <4>3. \/ \E j \in 1..Len(q) : (q \o new)[i] = q[j]
            \/ \E j \in 1..Len(new) : (q \o new)[i] = new[j]
        BY <1>7, <4>2, CatElements
      <4>4. \A j \in 1..Len(q) : q[j].of = calls /\ Fits(q[j].cmd, round, call)
        BY <1>5, <2>1 DEF q
      <4>5. \A j \in 1..Len(new) : new[j].of = calls /\ Fits(new[j].cmd, round, call)
        BY <1>7, <1>9
      <4> DEFINE z == (q \o new)[i]
      <4> HIDE DEF z
      <4>6. z.of = calls /\ Fits(z.cmd, round, call) BY <4>3, <4>4, <4>5 DEF z
      <4> QED BY <4>1, <4>6 DEF z
    <3> QED BY <3>1, <3>2
  \* The socket was quiet.
  <2>3. s \notin lost => Quiet(s) /\ reqs'[s] = new
    <3> SUFFICES ASSUME s \notin lost PROVE Quiet(s) /\ reqs'[s] = new OBVIOUS
    <3>1. \A k \in 1..(at - 1) : round.sends[k].to # s BY <1>4, <1>14
    <3>2. Quiet(s) BY <1>5, <2>1, <3>1 DEF Sending
    <3>3. <<>> \o new = new BY <1>7, ConcatEmptySeq
    <3> QED BY <1>10, <3>2, <3>3 DEF Quiet
  <2>4. ASSUME NEW x \in AllSockets \ lost
        PROVE  /\ pc' = "send" => Sending(x)'
               /\ pc' = "recv" =>
                    IF call.f = "exec_transaction" THEN Transacting(x)' ELSE Receiving(x)'
    <3>1. Sending(x) BY <2>1
    <3>2. CASE x = s
      <4>1. reqs'[x] = new /\ reps'[x] = <<>> /\ multi'[x] = <<>> /\ Len(new) = Len(cs) /\ Len(new) \in Nat
        BY <1>7, <2>3, <2>4, <3>2, SeqFacts DEF Quiet
      <4>2. Len(reps'[x]) = 0 BY <4>1, EmptySeq
      <4>3. CASE at < n
        <5>1. at' - 1 = at /\ pc' = "send" BY <1>4, <1>15, <4>3
        <5>2. \A k \in 1..at : k = at \/ round.sends[k].to # x BY <1>4, <1>14, <3>2
        <5>3. round.sends[at].to = x /\ round.sends[at].cmds = cs /\ at \in 1..at
          BY <1>4, <3>2 DEF s, cs
        <5>4. Len(reqs'[x]) + Len(reps'[x]) = Len(cs) BY <4>1, <4>2
        <5>5. Sending(x)' BY <4>1, <5>1, <5>2, <5>3, <5>4 DEF Sending
        <5> QED BY <5>1, <5>5
      <4>4. CASE ~(at < n) /\ call.f = "exec_transaction"
        <5>1. at' = 1 /\ pc' = "recv" /\ at = 1 BY <1>13, <1>15, <4>4
        <5>2. round.sends[1].to = x BY <3>2, <5>1 DEF s
        <5>3. cs = Stream(call) BY <1>13, <4>4
        <5>4. /\ Len(Stream(call)) = Len(reqs'[x]) /\ Len(reqs'[x]) \in Nat
              /\ \A i \in 1..Len(reqs'[x]) : reqs'[x][i].cmd = Stream(call)[i]
          BY <1>7, <4>1, <5>3
        <5>5. reqs'[x] # <<>>
          <6>1. Len(Stream(call)) # 0
            <7>1. IsCall(call) BY <1>1, <1>2 DEF CallInv
            <7>2. call.cmds \in Seq(Plainly) BY <4>4, <7>1, CallIs
            <7> QED BY <7>2, StreamIs
          <6> QED BY <5>4, <6>1, EmptySeq
        <5>6. Transacting(x)'
          <6>1. \A i \in 1..Len(reqs'[x]) : 0 + i = i OBVIOUS
          <6>2. Len(multi'[x]) = 0 BY <4>1, EmptySeq
          <6> DEFINE p == Len(Stream(call)) - Len(reqs'[x])
          <6>3. p = 0 BY <5>4
          <6>4. Len(reps'[x]) + at' - 1 = 0 BY <4>2, <5>1
          <6> HIDE DEF p
          <6>5. /\ p \in Nat /\ \A i \in 1..Len(reqs'[x]) : reqs'[x][i].cmd = Stream(call)[p + i]
                /\ Len(multi'[x]) = p /\ Len(reps'[x]) + at' - 1 = p
            BY <5>4, <6>2, <6>3, <6>4
          <6> QED BY <5>2, <5>5, <6>5 DEF Transacting, p
        <5> QED BY <4>4, <5>1, <5>6
      <4>5. CASE ~(at < n) /\ call.f # "exec_transaction"
        <5>1. at' = 1 /\ pc' = "recv" BY <1>15, <4>5
        <5>2. Cardinality(From(round, 1, x)) = Len(cs)
          <6>1. at \in DOMAIN round.sends BY <1>3
          <6> QED BY <1>13, <3>2, <4>5, <6>1 DEF Balanced, s, cs
        <5>3. Receiving(x)' BY <4>1, <4>2, <5>1, <5>2 DEF Receiving
        <5> QED BY <4>5, <5>1, <5>3
      <4> QED BY <4>3, <4>4, <4>5
    <3>3. CASE x # s
      <4>1. reqs'[x] = reqs[x] BY <1>10, <2>4, <3>3
      <4>2. Quiet(x) => Quiet(x)' BY <4>1 DEF Quiet
      <4>3. CASE at < n
        <5>1. at' - 1 = at /\ pc' = "send" BY <1>4, <1>15, <4>3
        <5>2. \A k \in 1..at : round.sends[k].to = x => k \in 1..(at - 1)
          <6>1. round.sends[at].to # x BY <3>3 DEF s
          <6> QED BY <1>4, <6>1
        <5>3. \A k \in 1..(at - 1) : k \in 1..at BY <1>4
        <5>4. Sending(x)' BY <3>1, <4>1, <4>2, <5>1, <5>2, <5>3 DEF Sending
        <5> QED BY <5>1, <5>4
      <4>4. CASE ~(at < n) /\ call.f = "exec_transaction"
        <5>1. at' = 1 /\ pc' = "recv" /\ at = 1 BY <1>13, <1>15, <4>4
        <5>2. 1..(at - 1) = {} BY <5>1
        <5>3. Quiet(x) BY <3>1, <5>2 DEF Sending
        <5>4. x # round.sends[1].to BY <3>3, <5>1 DEF s
        <5>5. Transacting(x)' BY <4>2, <5>3, <5>4 DEF Transacting
        <5> QED BY <4>4, <5>1, <5>5
      <4>5. CASE ~(at < n) /\ call.f # "exec_transaction"
        <5>1. at' = 1 /\ pc' = "recv" /\ at = n BY <1>4, <1>15, <4>5
        <5>2. CASE \E k \in 1..(at - 1) : round.sends[k].to = x
          <6>1. PICK k \in 1..(at - 1) : round.sends[k].to = x BY <5>2
          <6>2. k \in DOMAIN round.sends
            <7>1. DOMAIN round.sends = 1..n BY <1>3, RoundShape
            <7> QED BY <1>4, <6>1, <7>1
          <6>3. Cardinality(From(round, 1, x)) = Len(round.sends[k].cmds)
            BY <1>13, <4>5, <6>1, <6>2 DEF Balanced
          <6>4. Len(reqs[x]) + Len(reps[x]) = Len(round.sends[k].cmds) BY <3>1, <6>1 DEF Sending
          <6>5. Receiving(x)' BY <3>1, <4>1, <5>1, <6>3, <6>4 DEF Receiving, Sending
          <6> QED BY <4>5, <5>1, <6>5
        <5>3. CASE \A k \in 1..(at - 1) : round.sends[k].to # x
          <6>1. \A k \in 1..n : round.sends[k].to # x
            <7>1. round.sends[at].to # x BY <3>3 DEF s
            <7>2. \A k \in 1..n : k = at \/ k \in 1..(at - 1) BY <1>4, <5>1
            <7> QED BY <5>3, <7>1, <7>2
          <6>2. Cardinality(From(round, 1, x)) = 0
            <7> HIDE DEF T
            <7> QED BY <1>3, <6>1, FromNone
          <6>3. Quiet(x) BY <3>1, <5>3 DEF Sending
          <6>4. reqs'[x] = <<>> /\ reps'[x] = <<>> /\ multi'[x] = <<>> BY <4>1, <6>3 DEF Quiet
          <6>5. Len(reqs'[x]) = 0 /\ Len(reps'[x]) = 0 BY <6>4, EmptySeq
          <6>6. Receiving(x)' BY <5>1, <6>2, <6>4, <6>5 DEF Receiving
          <6> QED BY <4>5, <5>1, <6>6
        <5> QED BY <5>2, <5>3
      <4> QED BY <4>3, <4>4, <4>5
    <3> QED BY <3>2, <3>3
  <2> QED BY <1>2, <2>1, <2>2, <2>4 DEF WireInv
<1>23. SelectInv'
  <2>1. Selection' = Selection /\ Working' = Working /\ Opening' = Opening
    BY <1>2, ZenonT(60) DEF Selection, Opening
  <2> QED BY <1>1, <2>1 DEF SelectInv
<1> QED BY <1>16, <1>17, <1>18, <1>19, <1>20, <1>21, <1>22, <1>23 DEF IInv

\* One element of the round is sent, or fails to be.
LEMMA SendNextStep == ASSUME IInv, SendNext PROVE IInv'
<1> DEFINE s == round.sends[at]
<1>1. pc = "send" /\ UNCHANGED <<reps, lost, serverVars>> BY DEF SendNext
<1>2. CASE UNCHANGED reqs /\ Throw BY <1>1, <1>2, ThrowStep DEF wireVars
<1>3. CASE /\ s.to # NoSocket
           /\ reqs' = IF s.to \in lost THEN reqs
                      ELSE [reqs EXCEPT ![s.to] =
                              @ \o [i \in DOMAIN s.cmds |-> [cmd |-> s.cmds[i], of |-> calls]]]
           /\ IF at < Len(round.sends) THEN at' = at + 1 /\ pc' = pc
              ELSE at' = 1 /\ pc' = "recv"
           /\ UNCHANGED <<connections, call, got, round, replies, closing, outcome, history>>
  BY <1>1, <1>3, SentStep DEF serverVars, history, SentOn
<1> QED BY <1>2, <1>3, ZenonT(60) DEF SendNext

-----------------------------------------------------------------------------
(* Steps: replies are read                                                 *)

\* SELECT is answered as the reader wants it if the server has the database.
LEMMA SelectionIs == Accepts("ok", Selection) <=> call.db \in DBs
BY DEF Accepts, Selection, OK, Error, Reply

\* select changes the database of a connection, and nothing else.
LEMMA SelectedIs ==
  ASSUME connections \in Seq(Connections), call.f = "select" => call.db \in Int, NEW s
  PROVE  /\ Selected(FALSE, s) = connections
         /\ Selected(TRUE, s) \in Seq(Connections) /\ Len(Selected(TRUE, s)) = Len(connections)
         /\ DOMAIN Selected(TRUE, s) = DOMAIN connections
         /\ \A i \in DOMAIN connections :
              /\ Selected(TRUE, s)[i].socket = connections[i].socket
              /\ Selected(TRUE, s)[i].server = connections[i].server
              /\ Selected(TRUE, s)[i].dbindex = IF call.f = "select" /\ connections[i].socket = s
                                                THEN call.db ELSE connections[i].dbindex
<1> DEFINE n == Len(connections)
           new == Selected(TRUE, s)
<1>1. n \in Nat /\ DOMAIN connections = 1..n /\ \A i \in 1..n : connections[i] \in Connections
  BY SeqFacts
<1>2. Selected(FALSE, s) = connections BY DEF Selected
<1>3. CASE call.f # "select"
  <2>1. new = connections BY <1>3 DEF Selected
  <2> QED BY <1>2, <1>3, <2>1
<1>4. CASE call.f = "select"
  <2>1. new = [i \in 1..n |-> IF connections[i].socket = s
                              THEN [connections[i] EXCEPT !.dbindex = call.db] ELSE connections[i]]
    BY <1>1, <1>4 DEF Selected
  <2>2. \A c \in Connections : /\ [c EXCEPT !.dbindex = call.db] \in Connections
                               /\ [c EXCEPT !.dbindex = call.db].socket = c.socket
                               /\ [c EXCEPT !.dbindex = call.db].server = c.server
                               /\ [c EXCEPT !.dbindex = call.db].dbindex = call.db
    BY <1>4 DEF Connections
  <2> HIDE DEF n, new
  <2>3. \A i \in 1..n : IF connections[i].socket = s
                        THEN new[i] = [connections[i] EXCEPT !.dbindex = call.db]
                        ELSE new[i] = connections[i]
    BY <2>1
  <2>4. new \in [1..n -> Connections]
    <3>1. \A i \in 1..n : new[i] \in Connections BY <1>1, <2>2, <2>3
    <3>2. new = [i \in 1..n |-> new[i]] BY <2>1
    <3> QED BY <3>1, <3>2
  <2>5. new \in Seq(Connections) /\ Len(new) = n /\ DOMAIN new = 1..n BY <1>1, <2>4, ListIs
  <2>6. \A i \in 1..n :
          /\ new[i].socket = connections[i].socket
          /\ new[i].server = connections[i].server
          /\ new[i].dbindex = IF connections[i].socket = s THEN call.db ELSE connections[i].dbindex
    <3> SUFFICES ASSUME NEW i \in 1..n
                 PROVE  /\ new[i].socket = connections[i].socket
                        /\ new[i].server = connections[i].server
                        /\ new[i].dbindex = IF connections[i].socket = s THEN call.db
                                            ELSE connections[i].dbindex
      OBVIOUS
    <3> DEFINE c == connections[i]
               d == [c EXCEPT !.dbindex = call.db]
    <3>1. c \in Connections BY <1>1
    <3>2. d.socket = c.socket /\ d.server = c.server /\ d.dbindex = call.db BY <2>2, <3>1
    <3>3. IF c.socket = s THEN new[i] = d ELSE new[i] = c BY <2>3
    <3> HIDE DEF d
    <3> QED BY <3>2, <3>3
  <2> QED BY <1>1, <1>2, <1>4, <2>5, <2>6 DEF n, new
<1> QED BY <1>3, <1>4

\* What is read next.
LEMMA ReadingIs ==
  ASSUME IInv, pc = "recv", at <= Len(round.reads)
  PROVE  LET s == round.reads[at].from
         IN  /\ Working /\ s \in Open /\ s \in AllSockets /\ at \in 1..Len(round.reads) /\ at \in Nat \ {0}
             /\ Len(round.reads) \in Nat
             /\ RoundOK(round, call, Open \cup {NoSocket}) /\ GotOK(call, got)
             /\ AsksText(round, call, got)
             /\ replies \in Seq(Replies) /\ Len(replies) = at - 1
             /\ \A k \in 1..(at - 1) : Accepts(round.reads[k].as, replies[k])
             /\ \A k \in DOMAIN round.sends : round.sends[k].to # NoSocket
             /\ call.f \in Selecting => round.reads[at].as = "ok"
             /\ call.f = "open" => s = call.socket
             /\ call.f = "exec_transaction" => s = round.sends[1].to
             /\ IsCall(call)
<1> DEFINE T == Open \cup {NoSocket}
           s == round.reads[at].from
<1>1. RoundInv /\ CallInv BY DEF IInv
<1>2. /\ Working /\ RoundOK(round, call, T) /\ GotOK(call, got) /\ AsksText(round, call, got)
      /\ at \in 1..(Len(round.reads) + 1)
      /\ replies \in Seq(Replies) /\ Len(replies) = at - 1
      /\ \A k \in 1..(at - 1) : Accepts(round.reads[k].as, replies[k])
      /\ \A k \in DOMAIN round.sends : round.sends[k].to # NoSocket
  BY <1>1 DEF RoundInv, Working
<1> HIDE DEF T
<1>3. /\ Len(round.reads) \in Nat /\ DOMAIN round.reads = 1..Len(round.reads)
      /\ DOMAIN round.sends = 1..Len(round.sends)
      /\ \A i \in 1..Len(round.sends) : round.sends[i].to \in T
      /\ \A k \in 1..Len(round.reads) : \E i \in 1..Len(round.sends) : round.reads[k].from = round.sends[i].to
  BY <1>2, RoundShape
<1>4. at \in 1..Len(round.reads) /\ at \in Nat \ {0} BY <1>2, <1>3
<1>5. PICK i \in 1..Len(round.sends) : s = round.sends[i].to BY <1>3, <1>4
<1>6. s \in Open BY <1>2, <1>3, <1>5 DEF T
<1>7. s \in AllSockets BY <1>6 DEF Open
<1>8. call.f \in Selecting => round.reads[at].as = "ok" BY <1>2, <1>3, <1>4 DEF RoundOK
<1>9. call.f = "open" => s = call.socket BY <1>2, <1>3, <1>5 DEF RoundOK
<1>10. call.f = "exec_transaction" => s = round.sends[1].to
  BY <1>2, <1>3, <1>4 DEF RoundOK, Transaction
<1>11. IsCall(call) BY <1>1 DEF CallInv
<1> QED BY <1>2, <1>3, <1>4, <1>6, <1>7, <1>8, <1>9, <1>10, <1>11 DEF T

\* The parts of the invariant after a reply is read that are the same for a
\* reply from a server and for one that the client assumes.
LEMMA OneMoreReply ==
  ASSUME IInv, pc = "recv", at <= Len(round.reads), NEW r \in Replies,
         Accepts(round.reads[at].as, r), replies' = Append(replies, r), at' = at + 1,
         UNCHANGED <<pc, round, call, peer, got>>
  PROVE  RoundInv' /\ replies' # <<>> /\ at' - 1 = at
<1>1. /\ Working /\ at \in 1..Len(round.reads) /\ at \in Nat \ {0} /\ Len(round.reads) \in Nat
      /\ RoundOK(round, call, Open \cup {NoSocket}) /\ GotOK(call, got)
      /\ AsksText(round, call, got)
      /\ replies \in Seq(Replies) /\ Len(replies) = at - 1
      /\ \A k \in 1..(at - 1) : Accepts(round.reads[k].as, replies[k])
      /\ \A k \in DOMAIN round.sends : round.sends[k].to # NoSocket
  BY ReadingIs
<1>2. /\ replies' \in Seq(Replies) /\ Len(replies') = at
      /\ \A k \in 1..(at - 1) : replies'[k] = replies[k]
      /\ replies'[at] = r
  <2>1. /\ Append(replies, r) \in Seq(Replies) /\ Len(Append(replies, r)) = Len(replies) + 1
        /\ \A i \in 1..Len(replies) : Append(replies, r)[i] = replies[i]
        /\ Append(replies, r)[Len(replies) + 1] = r
    BY <1>1, AppendedIs
  <2>2. Len(replies) + 1 = at BY <1>1
  <2> QED BY <1>1, <2>1, <2>2
<1>3. at' - 1 = at /\ at' \in 1..(Len(round.reads) + 1) BY <1>1
<1>4. \A k \in 1..at : Accepts(round.reads[k].as, replies'[k])
  <2>1. \A k \in 1..at : k = at \/ k \in 1..(at - 1) BY <1>1
  <2> QED BY <1>1, <1>2, <2>1
<1>5. replies' # <<>> BY <1>1, <1>2, EmptySeq
<1>6. Open' = Open /\ pc' # "send" BY DEF Open
<1>7. RoundInv' BY <1>1, <1>2, <1>3, <1>4, <1>6 DEF RoundInv
<1> QED BY <1>3, <1>5, <1>7

\* A reply that the reader accepts.
Took(s) ==
  /\ Accepts(round.reads[at].as, reps[s][1].reply)
  /\ reps' = [reps EXCEPT ![s] = Tail(@)] /\ connections' = Selected(TRUE, s)
  /\ replies' = Append(replies, reps[s][1].reply)

\* The step that reads a reply and accepts it: one less is under way.
LEMMA ReadStep ==
  ASSUME IInv, pc = "recv", at <= Len(round.reads),
         UNCHANGED <<call, got, reqs, lost, peer, db, multi, store, calls, pc, round, slipped, failed>>,
         reps[round.reads[at].from] # <<>>, Took(round.reads[at].from), at' = at + 1
  PROVE  IInv'
<1> DEFINE s == round.reads[at].from
           r == reps[s][1].reply
<1>1. /\ TypeInv /\ SocketsOwned /\ SocketsOpen /\ CallInv /\ RoundInv
      /\ MultiInv /\ WireInv /\ SelectInv
  BY DEF IInv
<1>2. /\ Working /\ s \in Open /\ s \in AllSockets /\ at \in 1..Len(round.reads) /\ at \in Nat \ {0}
      /\ Len(round.reads) \in Nat
      /\ call.f \in Selecting => round.reads[at].as = "ok"
      /\ call.f = "open" => s = call.socket
      /\ call.f = "exec_transaction" => s = round.sends[1].to
      /\ IsCall(call)
  BY ReadingIs
<1>3. /\ Working' = Working /\ Opening' = Opening /\ Selection' = Selection /\ Open' = Open
  BY DEF Working, Opening, Selection, Open
<1>4. reps \in [AllSockets -> Seq(Answers)] /\ connections \in Seq(Connections) BY <1>1 DEF TypeInv
<1>5. /\ Tail(reps[s]) \in Seq(Answers) /\ Len(Tail(reps[s])) = Len(reps[s]) - 1
      /\ Len(reps[s]) \in Nat \ {0} /\ reps[s][1] \in Answers
      /\ \A i \in 1..Len(Tail(reps[s])) : Tail(reps[s])[i] = reps[s][i + 1] /\ i + 1 \in 1..Len(reps[s])
  <2> DEFINE q == reps[s]
  <2>1. q \in Seq(Answers) /\ q # <<>> BY <1>2, <1>4
  <2> HIDE DEF q
  <2>2. /\ Tail(q) \in Seq(Answers) /\ Len(Tail(q)) = Len(q) - 1
        /\ Len(q) \in Nat \ {0} /\ q[1] \in Answers
        /\ \A i \in 1..Len(Tail(q)) : Tail(q)[i] = q[i + 1] /\ i + 1 \in 1..Len(q)
    BY Zenon, <2>1, TailIs
  <2> QED BY <2>2 DEF q
<1>6. /\ reps' \in [AllSockets -> Seq(Answers)] /\ reps'[s] = Tail(reps[s])
      /\ \A x \in AllSockets : x # s => reps'[x] = reps[x]
  BY <1>2, <1>4, <1>5 DEF Took
<1>7. r \in Replies BY <1>5, SMTT(60) DEF Answers
<1>8. call.f \in Selecting => call.db \in Int BY <1>2, CallIs DEF Selecting
<1>9. /\ connections' \in Seq(Connections) /\ Len(connections') = Len(connections)
      /\ DOMAIN connections' = DOMAIN connections
      /\ \A i \in DOMAIN connections :
           /\ connections'[i].socket = connections[i].socket
           /\ connections'[i].server = connections[i].server
           /\ connections'[i].dbindex = IF call.f = "select" /\ connections[i].socket = s
                                        THEN call.db ELSE connections[i].dbindex
  <2>1. call.f = "select" => call.db \in Int BY <1>8 DEF Selecting
  <2> QED BY <1>4, <2>1, SelectedIs DEF Took
<1>10. Owned' = Owned BY <1>9 DEF Owned
<1>11. RoundInv' /\ replies' # <<>> /\ at' - 1 = at BY <1>7, OneMoreReply DEF Took
<1>12. ~slipped => s \notin lost BY <1>1, <1>2 DEF WireInv
<1>13. \A x \in AllSockets : /\ \A i \in 1..Len(reps'[x]) : \E j \in 1..Len(reps[x]) : reps'[x][i] = reps[x][j]
                             /\ reps'[x] # <<>> => reps[x] # <<>>
  <2> SUFFICES ASSUME NEW x \in AllSockets
               PROVE  /\ \A i \in 1..Len(reps'[x]) : \E j \in 1..Len(reps[x]) : reps'[x][i] = reps[x][j]
                      /\ reps'[x] # <<>> => reps[x] # <<>>
    OBVIOUS
  <2>1. CASE x = s BY ZenonT(60), <1>5, <1>6, <2>1
  <2>2. CASE x # s BY <1>6, <2>2
  <2> QED BY <2>1, <2>2
<1> HIDE DEF s, r
<1>14. TypeInv' BY <1>1, <1>3, <1>6, <1>9 DEF TypeInv
<1>15. SocketsOwned'
  <2>1. \A i \in DOMAIN connections : /\ connections'[i].socket = connections[i].socket
                                      /\ connections'[i].server = connections[i].server
    BY <1>9
  <2>2. DOMAIN connections' = DOMAIN connections /\ Owned \subseteq Open BY <1>1, <1>9 DEF SocketsOwned
  <2>3. \A i, j \in DOMAIN connections' : i # j => connections'[i].socket # connections'[j].socket
    <3> SUFFICES ASSUME NEW i \in DOMAIN connections', NEW j \in DOMAIN connections', i # j
                 PROVE  connections'[i].socket # connections'[j].socket
      OBVIOUS
    <3>1. i \in DOMAIN connections /\ j \in DOMAIN connections BY <2>2
    <3>2. connections[i].socket # connections[j].socket BY <1>1, <3>1 DEF SocketsOwned
    <3> QED BY <2>1, <3>1, <3>2
  <2>4. \A i \in DOMAIN connections' : connections'[i].server = peer'[connections'[i].socket]
    BY <1>1, <2>1, <2>2 DEF SocketsOwned
  <2> QED BY <1>3, <1>10, <2>2, <2>3, <2>4 DEF SocketsOwned
<1>16. SocketsOpen' BY <1>1, <1>3, <1>9, <1>10 DEF SocketsOpen
<1>17. CallInv'
  <2>1. connections # <<>> => connections' # <<>> BY <1>4, <1>9, SeqFacts
  <2> QED BY <1>1, <1>3, <1>9, <1>10, <2>1 DEF CallInv
<1>18. MultiInv' BY <1>1, MultiFrame
<1>19. WireInv'
  <2> SUFFICES ASSUME ~slipped PROVE WireInv' BY DEF WireInv
  <2>1. /\ \A x \in lost : reps[x] = <<>>
        /\ \A x \in AllSockets : /\ \A i \in 1..Len(reqs[x]) : reqs[x][i].of = calls
                                 /\ \A i \in 1..Len(reps[x]) : reps[x][i].of = calls
        /\ \A x \in AllSockets : \A i \in 1..Len(reqs[x]) : Fits(reqs[x][i].cmd, round, call)
        /\ \A x \in AllSockets \ lost :
             IF call.f = "exec_transaction" THEN Transacting(x) ELSE Receiving(x)
    BY <1>1, <1>2 DEF WireInv
  <2>2. \A x \in lost : reps'[x] = <<>>
    <3>1. lost \subseteq AllSockets BY <1>1 DEF TypeInv, Open
    <3> QED BY <1>6, <1>12, <2>1, <3>1
  <2>3. ASSUME NEW x \in AllSockets, NEW i \in 1..Len(reps'[x]) PROVE reps'[x][i].of = calls
    <3>1. PICK j \in 1..Len(reps[x]) : reps'[x][i] = reps[x][j] BY SMTT(60), <1>13
    <3> QED BY <2>1, <3>1
  <2>4. ASSUME NEW x \in AllSockets \ lost, call.f = "exec_transaction" PROVE Transacting(x)'
    <3>1. Transacting(x) BY <2>1, <2>4
    <3>2. CASE x = s
      <4>1. x = round.sends[1].to BY <1>2, <2>4, <3>2
      <4>2. Len(reps'[x]) + at' - 1 = Len(reps[x]) + at - 1
        <5> DEFINE a == Len(reps'[x])
                   b == Len(reps[x])
        <5>1. a = b - 1 /\ b \in Nat BY <1>5, <1>6, <3>2
        <5> HIDE DEF a, b
        <5>2. a + at' - 1 = b + at - 1 BY <1>2, <5>1
        <5> QED BY <5>2 DEF a, b
      <4> QED BY <3>1, <4>1, <4>2 DEF Transacting
    <3>3. CASE x # s
      <4>1. x # round.sends[1].to BY <1>2, <2>4, <3>3
      <4> QED BY <1>6, <3>1, <3>3, <4>1 DEF Transacting, Quiet
    <3> QED BY <3>2, <3>3
  <2>5. ASSUME NEW x \in AllSockets \ lost, call.f # "exec_transaction" PROVE Receiving(x)'
    <3>1. Receiving(x) BY <2>1, <2>5
    <3>2. /\ Cardinality(From(round, at, x))
               = Cardinality(From(round, at + 1, x)) + (IF s = x THEN 1 ELSE 0)
          /\ Cardinality(From(round, at + 1, x)) \in Nat
      <4>1. at + 1 \in Nat \ {0} BY <1>2
      <4> QED BY <1>2, <4>1, FromIs DEF s
    <3>3. Len(reqs[x]) \in Nat
      <4>1. reqs[x] \in Seq(Requests) BY <1>1 DEF TypeInv
      <4> QED BY <4>1, SeqFacts
    <3>4. CASE x = s
      <4>1. Len(reps'[x]) = Len(reps[x]) - 1 /\ Len(reps[x]) \in Nat BY <1>5, <1>6, <3>4
      <4>2. Len(reqs[x]) + Len(reps[x]) = Cardinality(From(round, at, x)) BY <3>1 DEF Receiving
      <4>3. Len(reqs[x]) + Len(reps'[x]) = Cardinality(From(round, at + 1, x))
        <5> DEFINE a == Len(reqs[x])
                   b == Len(reps[x])
                   d == Len(reps'[x])
                   e == Cardinality(From(round, at, x))
                   f == Cardinality(From(round, at + 1, x))
        <5>1. e = f + 1 /\ f \in Nat BY <3>2, <3>4
        <5>2. a \in Nat /\ b \in Nat /\ d = b - 1 /\ a + b = e BY <3>3, <4>1, <4>2
        <5> HIDE DEF a, b, d, e, f
        <5>3. a + d = f BY <5>1, <5>2
        <5> QED BY <5>3 DEF a, d, f
      <4> QED BY <3>1, <4>3 DEF Receiving
    <3>5. CASE x # s
      <4>1. reps'[x] = reps[x] BY <1>6, <3>5
      <4>2. Cardinality(From(round, at, x)) = Cardinality(From(round, at + 1, x)) BY <3>2, <3>5
      <4> QED BY <3>1, <4>1, <4>2 DEF Receiving
    <3> QED BY <3>4, <3>5
  <2>6. pc' = "recv" /\ lost' = lost /\ Working' BY <1>2, <1>3
  <2> QED BY <2>1, <2>2, <2>3, <2>4, <2>5, <2>6 DEF WireInv
<1>20. SelectInv'
  <2> SUFFICES ASSUME ~slipped PROVE SelectInv' BY DEF SelectInv
  <2>1. call.f \in Selecting => \A x \in AllSockets : \A i \in 1..Len(reps[x]) : reps[x][i].reply = Selection
    BY <1>1, <1>2 DEF SelectInv
  <2>2. call.f \in Selecting => call.db \in DBs
    <3> SUFFICES ASSUME call.f \in Selecting PROVE call.db \in DBs OBVIOUS
    <3>1. 1 \in 1..Len(reps[s]) BY <1>5
    <3>2. r = Selection BY <1>2, <2>1, <3>1 DEF r
    <3>3. Accepts("ok", r) BY <1>2 DEF r, s, Took
    <3> QED BY <3>2, <3>3, SelectionIs
  <2>3. Working' /\ call'.f \in Selecting =>
          \A x \in AllSockets : \A i \in 1..Len(reps'[x]) : reps'[x][i].reply = Selection'
    BY <1>3, <1>13, <2>1
  <2>4. call.f = "select" => \A x \in AllSockets : reps[x] # <<>> => db[x] = call.db
    BY <1>1, <1>2, <2>2 DEF SelectInv, Selecting
  <2>5. Working' /\ call'.f = "select" /\ call'.db \in DBs =>
          \A x \in AllSockets : reps'[x] # <<>> => db'[x] = call'.db
    BY <1>13, <2>4
  <2>6. ASSUME NEW i \in DOMAIN connections', connections'[i].socket \notin lost'
        PROVE  LET c == connections'[i]
               IN  \/ c.dbindex = db'[c.socket]
                   \/ /\ Working' /\ call'.f = "select"
                      /\ reps'[c.socket] # <<>> /\ db'[c.socket] = call'.db /\ call'.db \in DBs
    <3> DEFINE x == connections[i].socket
               d == connections[i].dbindex
               e == connections'[i].dbindex
    <3>1. /\ i \in DOMAIN connections /\ connections'[i].socket = x /\ x \notin lost
          /\ e = IF call.f = "select" /\ x = s THEN call.db ELSE d
      BY <1>9, <2>6
    <3>2. x \in AllSockets BY <1>1, <3>1 DEF SocketsOwned, Owned, Open
    <3>3. \/ d = db[x]
          \/ call.f = "select" /\ reps[x] # <<>> /\ db[x] = call.db /\ call.db \in DBs
      BY <1>1, <3>1 DEF SelectInv
    <3>4. CASE x = s /\ call.f = "select"
      <4>1. db[x] = call.db BY <1>2, <2>4, <3>4 DEF s
      <4> QED BY <3>1, <3>4, <4>1
    <3>5. CASE x # s \/ call.f # "select"
      <4>1. e = d BY <3>1, <3>5
      <4>2. call.f = "select" => reps'[x] = reps[x] BY <1>6, <3>2, <3>5
      <4> QED BY <1>2, <1>3, <3>1, <3>3, <4>1, <4>2
    <3> QED BY <3>4, <3>5
  <2>7. Opening' /\ call'.socket \notin lost' /\ (replies' # <<>> \/ reps'[call'.socket] # <<>>) =>
          (replies' # <<>> => call'.db \in DBs) /\ (call'.db \in DBs => db'[call'.socket] = call'.db)
    <3> SUFFICES ASSUME Opening, call.socket \notin lost
                 PROVE  call.db \in DBs /\ db[call.socket] = call.db
      BY <1>3
    <3>1. call.f = "open" /\ s = call.socket /\ call.db \in DBs BY <1>2, <2>2 DEF Opening, Selecting
    <3>2. reps[call.socket] # <<>> BY <3>1 DEF s
    <3> QED BY <1>1, <3>1, <3>2 DEF SelectInv
  <2> QED BY <2>3, <2>5, <2>6, <2>7 DEF SelectInv
<1> QED BY <1>11, <1>14, <1>15, <1>16, <1>17, <1>18, <1>19, <1>20 DEF IInv

\* A reply is read, and accepted or not.
LEMMA ReceiveStep == ASSUME IInv, Receive PROVE IInv'
<1> DEFINE s == round.reads[at].from
           r == reps[s][1].reply
           ok == Accepts(round.reads[at].as, r)
<1>1. /\ pc = "recv" /\ at <= Len(round.reads)
      /\ UNCHANGED <<call, got, reqs, lost, peer, db, multi, store, calls>>
      /\ reps[s] # <<>> /\ reps' = [reps EXCEPT ![s] = Tail(@)]
      /\ connections' = Selected(ok, s)
      /\ IF ok
         THEN /\ replies' = Append(replies, r) /\ at' = at + 1
              /\ UNCHANGED <<pc, round, outcome, slipped, failed>>
         ELSE GiveUp
  BY DEF Receive, serverVars
<1>2. CASE ok
  <2>1. Selected(ok, s) = Selected(TRUE, s) BY <1>2 DEF Selected
  <2> QED BY <1>1, <1>2, <2>1, ReadStep DEF Took
<1>3. CASE ~ok
  <2>1. /\ Working /\ s \in AllSockets /\ IsCall(call)
        /\ call.f \in Selecting => round.reads[at].as = "ok"
    BY <1>1, ReadingIs
  <2>2. TypeInv /\ SelectInv BY DEF IInv
  <2>3. reps \in [AllSockets -> Seq(Answers)] /\ connections \in Seq(Connections) BY <2>2 DEF TypeInv
  <2>4. Tail(reps[s]) \in Seq(Answers) /\ Len(reps[s]) \in Nat \ {0}
    <3> DEFINE q == reps[s]
    <3>1. q \in Seq(Answers) /\ q # <<>> BY <1>1, <2>1, <2>3
    <3> HIDE DEF q
    <3>2. Tail(q) \in Seq(Answers) /\ Len(q) \in Nat \ {0} BY <3>1, TailIs
    <3> QED BY <3>2 DEF q
  <2>5. connections' = connections BY <1>1, <1>3, SMTT(60) DEF Selected
  <2>6. /\ reps' \in [AllSockets -> Seq(Answers)]
        /\ \A x \in AllSockets : reps[x] = <<>> => reps'[x] = <<>>
    BY <1>1, <2>1, <2>3, <2>4
  <2>7. ASSUME ~slipped, call.f = "select", call.db \in DBs PROVE FALSE
    <3>1. call.f \in Selecting /\ 1 \in 1..Len(reps[s]) BY <2>4, <2>7 DEF Selecting
    <3>2. r = Selection BY <2>1, <2>2, <2>7, <3>1 DEF SelectInv
    <3>3. Accepts("ok", r) BY <2>7, <3>2, SelectionIs
    <3>4. round.reads[at].as = "ok" BY <2>1, <3>1
    <3> QED BY <1>3, <3>3, <3>4
  <2>8. GiveUp BY <1>1, <1>3
  <2> QED BY <1>1, <2>5, <2>6, <2>7, <2>8, GiveUpStep
<1> QED BY SMTT(60), <1>2, <1>3

\* There is no reply to read: the connection is lost.
LEMMA ReceiveFailsStep == ASSUME IInv, ReceiveFails PROVE IInv'
<1> DEFINE s == round.reads[at].from
<1>1. /\ pc = "recv" /\ at <= Len(round.reads) /\ s \in lost /\ reps[s] = <<>>
      /\ UNCHANGED <<wireVars, serverVars>>
  BY DEF ReceiveFails
<1>2. CASE Throw BY <1>1, <1>2, ThrowStep
<1>3. CASE /\ round.reads[at].as = "bye" /\ replies' = Append(replies, OK) /\ at' = at + 1
           /\ UNCHANGED <<connections, pc, call, got, round, history>>
  <2>1. /\ TypeInv /\ SocketsOwned /\ SocketsOpen /\ CallInv /\ RoundInv
        /\ MultiInv /\ WireInv /\ SelectInv
    BY DEF IInv
  <2>2. UNCHANGED <<connections, pc, call, got, round, peer, db, multi, store, reqs, reps,
                    lost, calls, slipped, failed>>
    BY <1>1, <1>3 DEF wireVars, serverVars, history
  <2>3. /\ Working /\ at \in 1..Len(round.reads) /\ at \in Nat \ {0} /\ Len(round.reads) \in Nat
        /\ call.f \in Selecting => round.reads[at].as = "ok"
        /\ call.f = "exec_transaction" => s = round.sends[1].to
    BY <1>1, ReadingIs
  <2>4. call.f \notin Selecting /\ call.f \notin {"select", "open"} BY <1>3, <2>3 DEF Selecting
  <2>5. Working' = Working /\ Opening' = Opening /\ ~Opening BY <2>2, <2>4 DEF Working, Opening
  <2>6. RoundInv' /\ at' - 1 = at
    <3>1. OK \in Replies /\ Accepts("bye", OK) BY ReplyKinds DEF Accepts, OK, Reply
    <3> QED BY <1>1, <1>3, <2>2, <3>1, OneMoreReply
  <2>7. TypeInv' BY <2>1, <2>2, TypeFrame
  <2>8. SocketsOwned' BY <2>1, <2>2, OwnedFrame
  <2>9. SocketsOpen' BY <2>1, <2>2, <2>5, OpenFrame
  <2>10. CallInv' BY <2>1, <2>2, CallFrame
  <2>11. MultiInv' BY <2>1, <2>2, MultiFrame
  <2>12. WireInv'
    <3> SUFFICES ASSUME ~slipped PROVE WireInv' BY <2>2 DEF WireInv
    <3>1. ASSUME NEW x \in AllSockets \ lost, call.f = "exec_transaction" PROVE Transacting(x)'
      <4>1. Transacting(x) BY <1>1, <2>1, <3>1 DEF WireInv
      <4>2. x # round.sends[1].to BY <1>1, <2>3, <3>1
      <4>3. Quiet(x)' BY <2>2, <4>1, <4>2 DEF Transacting, Quiet
      <4> QED BY <2>2, <4>2, <4>3 DEF Transacting
    <3>2. ASSUME NEW x \in AllSockets \ lost, call.f # "exec_transaction" PROVE Receiving(x)'
      <4>1. Receiving(x) BY <1>1, <2>1, <3>2 DEF WireInv
      <4>2. x # s BY <1>1, <3>2
      <4>3. /\ Cardinality(From(round, at, x))
                 = Cardinality(From(round, at + 1, x)) + (IF s = x THEN 1 ELSE 0)
            /\ Cardinality(From(round, at + 1, x)) \in Nat
        <5>1. at + 1 \in Nat \ {0} BY <2>3
        <5> QED BY <2>3, <5>1, FromIs
      <4>4. Cardinality(From(round, at, x)) = Cardinality(From(round, at', x)) BY <1>3, <4>2, <4>3
      <4> QED BY <2>2, <4>1, <4>4 DEF Receiving
    <3> QED BY <1>1, <2>1, <2>2, <2>3, <2>5, <3>1, <3>2 DEF WireInv
  <2>13. SelectInv' BY <2>1, <2>2, <2>4, <2>5 DEF SelectInv
  <2> QED BY <2>6, <2>7, <2>8, <2>9, <2>10, <2>11, <2>12, <2>13 DEF IInv
<1> QED BY <1>2, <1>3 DEF ReceiveFails

-----------------------------------------------------------------------------
(* Steps: a round is over                                                  *)

\* When all replies are read nothing is under way.
LEMMA RoundDone == ASSUME IInv, pc = "recv", at > Len(round.reads) PROVE Calm
<1>1. TypeInv /\ SocketsOwned /\ CallInv /\ RoundInv /\ MultiInv /\ WireInv /\ SelectInv BY DEF IInv
<1>2. /\ Working /\ RoundOK(round, call, Open \cup {NoSocket}) /\ IsCall(call)
      /\ at \in 1..(Len(round.reads) + 1)
  BY <1>1 DEF RoundInv, Working, CallInv
<1>3. Len(round.reads) \in Nat /\ at = Len(round.reads) + 1 /\ at \in Nat \ {0}
  <2> DEFINE T == Open \cup {NoSocket}
  <2> HIDE DEF T
  <2>1. RoundOK(round, call, T) BY <1>2 DEF T
  <2>2. Len(round.reads) \in Nat BY <2>1, RoundShape
  <2> QED BY <1>2, <2>2
<1> SUFFICES ASSUME ~slipped PROVE Calm BY DEF Calm
<1>4. ASSUME NEW s \in AllSockets PROVE /\ Len(reqs[s]) \in Nat /\ ((reqs[s] = <<>>) <=> (Len(reqs[s]) = 0))
                                        /\ Len(reps[s]) \in Nat /\ ((reps[s] = <<>>) <=> (Len(reps[s]) = 0))
  <2>1. reqs[s] \in Seq(Requests) /\ reps[s] \in Seq(Answers) BY <1>1 DEF TypeInv
  <2> QED BY <2>1, SeqFacts
<1>5. ASSUME NEW s \in AllSockets \ lost PROVE Quiet(s)
  <2> DEFINE a == Len(reqs[s])
             b == Len(reps[s])
             c == Len(round.reads)
  <2>1. CASE call.f = "exec_transaction"
    <3>1. Transacting(s) BY <1>1, <1>5, <2>1 DEF WireInv
    <3>2. CASE s # round.sends[1].to BY <3>1, <3>2 DEF Transacting
    <3>3. CASE s = round.sends[1].to
      <4>1. call.cmds \in Seq(Plainly) /\ c = 2 * Len(call.cmds) + 2
        BY <1>2, <2>1, CallIs DEF RoundOK, Transaction
      <4>2. Len(call.cmds) \in Nat /\ Len(Stream(call)) = Len(call.cmds) + 2 BY <4>1, StreamIs
      <4>3. /\ reqs[s] # <<>> => b + at - 1 = Len(Stream(call)) - a
            /\ reqs[s] = <<>> => multi[s] = <<>> /\ b + at - 1 = c
        BY <3>1, <3>3 DEF Transacting
      <4> DEFINE m == Len(call.cmds)
                 st == Len(Stream(call))
      <4>4. a \in Nat /\ b \in Nat /\ c \in Nat /\ at = c + 1 /\ m \in Nat /\ st = m + 2 /\ c = 2 * m + 2
        BY <1>3, <1>4, <4>1, <4>2
      <4>5. (reqs[s] = <<>> <=> a = 0) /\ (reps[s] = <<>> <=> b = 0) BY <1>4
      <4> HIDE DEF a, b, c, m
      <4>6. reqs[s] = <<>>
        <5> SUFFICES ASSUME reqs[s] # <<>> PROVE FALSE OBVIOUS
        <5>1. b + at - 1 = st - a /\ a # 0 BY <4>3, <4>5
        <5> HIDE DEF st
        <5> QED BY <4>4, <5>1
      <4>7. b = 0
        <5>1. b + at - 1 = c BY <4>3, <4>6
        <5> HIDE DEF st
        <5> QED BY <4>4, <5>1
      <4> QED BY <4>3, <4>5, <4>6, <4>7 DEF Quiet
    <3> QED BY <3>2, <3>3
  <2>2. CASE call.f # "exec_transaction"
    <3>1. Receiving(s) BY <1>1, <1>5, <2>2 DEF WireInv
    <3>2. Cardinality(From(round, at, s)) = 0
      <4>1. From(round, at, s) = {} BY <1>3, FromIs
      <4> QED BY <4>1, FS_EmptySet
    <3>3. a + b = 0 /\ multi[s] = <<>> BY <3>1, <3>2 DEF Receiving
    <3>4. a = 0 /\ b = 0
      <4>1. a \in Nat /\ b \in Nat BY <1>4
      <4> HIDE DEF a, b
      <4> QED BY <3>3, <4>1
    <3> QED BY <1>4, <3>3, <3>4 DEF Quiet
  <2> QED BY <2>1, <2>2
<1>6. ASSUME NEW s \in AllSockets PROVE reqs[s] = <<>> /\ reps[s] = <<>>
  <2>1. CASE s \in lost BY <1>1, <2>1 DEF MultiInv, WireInv
  <2>2. CASE s \notin lost BY <1>5, <2>2 DEF Quiet
  <2> QED BY <2>1, <2>2
<1>7. ASSUME NEW i \in DOMAIN connections, connections[i].socket \notin lost
      PROVE  connections[i].dbindex = db[connections[i].socket]
  <2>1. connections[i].socket \in AllSockets BY <1>1 DEF SocketsOwned, Owned, Open
  <2> QED BY <1>1, <1>6, <1>7, <2>1 DEF SelectInv
<1> QED BY <1>5, <1>6, <1>7 DEF Calm

\* The replies of the round are what the call goes on with.
LEMMA GotMore ==
  ASSUME IInv, pc = "recv", at > Len(round.reads)
  PROVE  /\ GotOK(call, Append(got, replies)) /\ Append(got, replies) # <<>>
         /\ call.f \notin MayBeEmpty => replies # <<>>
<1> DEFINE n == Len(got)
           g == Append(got, replies)
           T == Open \cup {NoSocket}
<1>1. /\ RoundOK(round, call, T) /\ GotOK(call, got) /\ AsksText(round, call, got)
      /\ at \in 1..(Len(round.reads) + 1)
      /\ replies \in Seq(Replies) /\ Len(replies) = at - 1
      /\ \A k \in 1..(at - 1) : Accepts(round.reads[k].as, replies[k])
  BY DEF IInv, RoundInv, Working
<1> HIDE DEF T
<1>2. Len(round.reads) \in Nat BY <1>1, RoundShape
<1>3. at - 1 = Len(round.reads) BY <1>1, <1>2
<1>4. call.f \notin MayBeEmpty => replies # <<>>
  <2> SUFFICES ASSUME call.f \notin MayBeEmpty PROVE replies # <<>> OBVIOUS
  <2>1. round.reads # <<>> BY <1>1 DEF RoundOK
  <2>2. round.reads \in Seq(Reads) BY <1>1 DEF RoundOK, Rounds
  <2>3. Len(round.reads) # 0
    <3> DEFINE q == round.reads
    <3>1. q \in Seq(Reads) /\ q # <<>> BY <2>1, <2>2
    <3> HIDE DEF q
    <3>2. Len(q) # 0 BY <3>1, SeqFacts
    <3> QED BY <3>2 DEF q
  <2>4. Len(replies) # 0 BY <1>1, <1>3, <2>3
  <2> QED BY <1>1, <2>4, EmptySeq
<1>5. got \in Seq(Seq(Replies)) BY <1>1 DEF GotOK
<1>6. /\ g \in Seq(Seq(Replies)) /\ Len(g) = n + 1 /\ n \in Nat
      /\ \A i \in 1..n : g[i] = got[i]
      /\ g[n + 1] = replies
  <2> DEFINE S == Seq(Replies)
  <2>1. got \in Seq(S) /\ replies \in S BY <1>1, <1>5
  <2> HIDE DEF S
  <2>2. /\ g \in Seq(S) /\ Len(g) = n + 1
        /\ \A i \in 1..n : g[i] = got[i]
        /\ g[n + 1] = replies
    BY <2>1, AppendedIs
  <2>3. n \in Nat BY <2>1, SeqFacts
  <2> QED BY <2>2, <2>3 DEF S
<1>7. DOMAIN got = 1..n
  <2> DEFINE S == Seq(Replies)
  <2>1. got \in Seq(S) BY <1>5
  <2> HIDE DEF S
  <2> QED BY <2>1, SeqFacts
<1> HIDE DEF g
<1>8. DOMAIN g = 1..(n + 1) /\ g # <<>>
  <2> DEFINE S == Seq(Replies)
  <2>1. g \in Seq(S) BY <1>6
  <2> HIDE DEF S
  <2>2. DOMAIN g = 1..Len(g) /\ (g = <<>> <=> Len(g) = 0) BY <2>1, SeqFacts
  <2> QED BY <1>6, <2>2
<1> HIDE DEF n
<1>9. call.f \notin MayBeEmpty => \A i \in DOMAIN g : g[i] # <<>>
  <2> SUFFICES ASSUME call.f \notin MayBeEmpty, NEW i \in 1..(n + 1) PROVE g[i] # <<>> BY <1>8
  <2>1. CASE i = n + 1 BY <1>4, <1>6, <2>1
  <2>2. CASE i # n + 1
    <3>1. i \in 1..n BY <1>6, <2>2
    <3> QED BY <1>1, <1>6, <1>7, <3>1 DEF GotOK
  <2> QED BY <2>1, <2>2
<1>10. ASSUME IsText(call, g), Len(g) > First(call) PROVE g[First(call) + 1][1].words # <<>>
  <2> DEFINE f == First(call)
  <2>1. f \in {1, 2} /\ f <= n BY <1>6, <1>10 DEF First
  <2> HIDE DEF f
  <2>2. f \in 1..n BY <1>6, <2>1
  <2>3. IsText(call, got)
    <3>1. Len(got) >= f BY <2>1 DEF n
    <3>2. g[f] = got[f] BY <1>6, <2>2
    <3> QED BY <1>10, <3>1, <3>2 DEF IsText, f
  <2>4. CASE f = n
    <3>1. Len(round.reads) = 1 /\ round.reads[1].as = "bulk" BY <1>1, <2>3, <2>4 DEF AsksText, f, n
    <3>2. Accepts("bulk", replies[1]) /\ 1 \in 1..Len(replies) BY <1>1, <1>3, <3>1
    <3>3. replies[1] \in Replies BY <1>1, <3>2, SeqFacts
    <3>4. replies[1].t = "bulk" BY <3>2 DEF Accepts
    <3>5. replies[1].words # <<>> BY <3>3, <3>4 DEF Replies
    <3> QED BY <1>6, <2>4, <3>5 DEF f
  <2>5. CASE f # n
    <3>1. f + 1 \in 1..n /\ n > f BY <1>6, <2>1, <2>5
    <3>2. got[f + 1][1].words # <<>> BY <1>1, <2>3, <3>1 DEF GotOK, f, n
    <3> QED BY <1>6, <3>1, <3>2 DEF f
  <2> QED BY <2>4, <2>5
<1>11. GotOK(call, g) BY <1>6, <1>9, <1>10 DEF GotOK
<1> QED BY <1>4, <1>8, <1>11 DEF g

\* open has its connection.
LEMMA OpenedStep == ASSUME IInv, FinishRound, call.f = "open" PROVE IInv'
<1> DEFINE g == Append(got, replies)
           p == Plan(call, g)
           s == call.socket
           new == [server |-> peer[s], socket |-> s, dbindex |-> call.db]
           n == Len(connections)
<1>1. /\ TypeInv /\ SocketsOwned /\ SocketsOpen /\ CallInv /\ RoundInv
      /\ MultiInv /\ WireInv /\ SelectInv
  BY DEF IInv
<1>2. /\ pc = "recv" /\ at > Len(round.reads) /\ Enter(p)
      /\ got' = g /\ connections' = Append(connections, new)
      /\ UNCHANGED <<call, reqs, reps, lost, peer, db, multi, store, calls, slipped, failed>>
  BY DEF FinishRound, wireVars, serverVars, history
<1>3. Calm BY <1>2, RoundDone
<1>4. GotOK(call, g) /\ g # <<>> /\ replies # <<>> BY <1>2, GotMore DEF MayBeEmpty
<1>5. Working /\ Opening BY <1>2 DEF Working, Opening
<1>6. IsCall(call) /\ n < Len(Servers) /\ s \in AllSockets \ Owned /\ call.db \in Int
  BY <1>1, <1>2, <1>5, CallIs DEF CallInv
<1>7. Open = Owned \cup failed \cup {s} BY <1>1, <1>5 DEF SocketsOpen
<1>8. s \in Open /\ peer[s] \in ToSet(Servers) /\ new \in Connections
  <2>1. s \in Open BY <1>7
  <2>2. peer[s] \in ToSet(Servers) BY <1>1, <2>1 DEF Open, TypeInv
  <2> QED BY <1>6, <2>1, <2>2 DEF Connections
<1>9. connections \in Seq(Connections) /\ n \in Nat /\ DOMAIN connections = 1..n
      /\ \A i \in 1..n : connections[i] \in Connections
  <2>1. connections \in Seq(Connections) BY <1>1 DEF TypeInv
  <2> QED BY <2>1, SeqFacts
<1>17. new.server = peer[s] /\ new.socket = s /\ new.dbindex = call.db OBVIOUS
<1>10. Fresh(p) /\ pc' = "idle"
  <2> DEFINE T == Open \cup {NoSocket}
  <2>1. T \subseteq Int
    <3>1. AllSockets \subseteq Int BY ClusterAssumption DEF AllSockets
    <3>2. Open \subseteq AllSockets /\ NoSocket \in Int BY DEF Open, NoSocket
    <3> QED BY <3>1, <3>2
  <2>2. s \in T BY <1>8
  <2>3. g \in Seq(Seq(Replies)) BY <1>4 DEF GotOK
  <2> HIDE DEF T, g
  <2>4. p.do = "return" BY <1>4, <1>6, <2>1, <2>2, <2>3, OpenPlan
  <2>5. Allowed(p, call, T) BY <2>4 DEF Allowed
  <2> HIDE DEF p
  <2> QED BY <1>2, <2>4, <2>5, EnterIs
<1> HIDE DEF g, p, new, n, s
<1>11. /\ connections' \in Seq(Connections) /\ Len(connections') = n + 1
       /\ DOMAIN connections' = 1..(n + 1)
       /\ \A i \in 1..n : connections'[i] = connections[i]
       /\ connections'[n + 1] = new
  <2>1. /\ connections' \in Seq(Connections) /\ Len(connections') = n + 1
        /\ \A i \in 1..n : connections'[i] = connections[i]
        /\ connections'[n + 1] = new
    BY <1>2, <1>8, <1>9, AppendedIs DEF n
  <2> QED BY <2>1, SeqFacts
<1>12. Open' = Open /\ Owned' = Owned \cup {s}
  <2>1. Open' = Open BY <1>2 DEF Open
  <2>2. \A x : x \in Owned <=> \E i \in 1..n : x = connections[i].socket BY <1>9 DEF Owned
  <2>3. \A x : x \in Owned' <=> \E i \in 1..(n + 1) : x = connections'[i].socket BY <1>11 DEF Owned
  <2>4. \A i \in 1..(n + 1) : i = n + 1 \/ i \in 1..n BY <1>9
  <2>5. n + 1 \in 1..(n + 1) /\ \A i \in 1..n : i \in 1..(n + 1) BY <1>9
  <2>6. \A x : x \in Owned' => x \in Owned \/ x = s BY <1>11, <1>17, <2>2, <2>3, <2>4
  <2>7. \A x : x \in Owned \/ x = s => x \in Owned' BY <1>11, <1>17, <2>2, <2>3, <2>5
  <2> QED BY <2>1, <2>6, <2>7
<1>13. ~Working' /\ ~Opening' BY <1>10 DEF Working, Opening
<1>14. \A i \in 1..(n + 1) : i = n + 1 \/ i \in 1..n BY <1>9
<1>15. \A i \in 1..n : connections[i].socket \in Owned /\ connections[i].socket # s
  BY <1>6, <1>9 DEF Owned, s
<1>16. TypeInv'
  <2>1. Len(connections') <= Len(Servers)
    <3>1. Servers \in Seq(STRING \ {"closed"}) BY ClusterAssumption
    <3>2. Len(Servers) \in Nat BY <3>1, SeqFacts
    <3> QED BY <1>6, <1>9, <1>11, <3>2 DEF n
  <2>2. pc' \in {"idle", "connect", "send", "recv", "close"} BY <1>10
  <2> QED BY <1>1, <1>2, <1>11, <1>12, <2>1, <2>2 DEF TypeInv
<1>18. SocketsOwned'
  <2>1. Owned' \subseteq Open' BY <1>1, <1>8, <1>12 DEF SocketsOwned, s
  <2>2. ASSUME NEW i \in 1..(n + 1), NEW j \in 1..(n + 1), i # j
        PROVE  connections'[i].socket # connections'[j].socket
    <3>1. CASE i \in 1..n /\ j \in 1..n
      <4>1. connections[i].socket # connections[j].socket BY <1>1, <1>9, <2>2, <3>1 DEF SocketsOwned
      <4> QED BY <1>11, <3>1, <4>1
    <3>2. CASE i = n + 1 /\ j \in 1..n BY <1>11, <1>15, <1>17, <3>2
    <3>3. CASE j = n + 1 /\ i \in 1..n BY <1>11, <1>15, <1>17, <3>3
    <3> QED BY <1>14, <2>2, <3>1, <3>2, <3>3
  <2>3. ASSUME NEW i \in 1..(n + 1) PROVE connections'[i].server = peer'[connections'[i].socket]
    <3>1. CASE i \in 1..n
      <4>1. connections[i].server = peer[connections[i].socket] BY <1>1, <1>9, <3>1 DEF SocketsOwned
      <4> QED BY <1>2, <1>11, <3>1, <4>1
    <3>2. CASE i = n + 1 BY <1>2, <1>11, <1>17, <3>2
    <3> QED BY <1>14, <3>1, <3>2
  <2> QED BY <1>11, <2>1, <2>2, <2>3 DEF SocketsOwned
<1>19. SocketsOpen'
  <2>1. PICK k \in 0..(n + calls) : Open = FirstSocket..(FirstSocket + k - 1)
    BY <1>1 DEF SocketsOpen, n
  <2>2. calls \in Nat BY <1>1 DEF TypeInv
  <2>3. k \in 0..(Len(connections') + calls') /\ k <= Len(connections') + calls' - 0
    BY <1>2, <1>9, <1>11, <2>1, <2>2
  <2>4. Open' = Owned' \cup failed' BY <1>2, <1>7, <1>12
  <2> QED BY <1>10, <1>12, <1>13, <2>1, <2>3, <2>4 DEF SocketsOpen
<1>20. CallInv' /\ RoundInv' BY <1>10, <1>13 DEF CallInv, RoundInv
<1>21. MultiInv' BY <1>1, <1>2, MultiFrame
<1>22. WireInv'
  <2>1. lost \subseteq AllSockets BY <1>1 DEF TypeInv, Open
  <2> QED BY <1>2, <1>3, <1>10, <2>1, FreshWire
<1>23. SelectInv'
  <2>1. \A i \in DOMAIN connections' : connections'[i].socket \in AllSockets
    <3>1. ASSUME NEW i \in 1..(n + 1) PROVE connections'[i].socket \in AllSockets
      <4>1. CASE i \in 1..n
        <5>1. connections[i].socket \in AllSockets BY <1>1, <1>15, <4>1 DEF SocketsOwned, Open
        <5> QED BY <1>11, <4>1, <5>1
      <4>2. CASE i = n + 1 BY <1>6, <1>11, <1>17, <4>2 DEF s
      <4> QED BY <1>14, <4>1, <4>2
    <3> QED BY <1>11, <3>1
  <2>2. ASSUME ~slipped, NEW i \in 1..(n + 1), connections'[i].socket \notin lost
        PROVE  connections'[i].dbindex = db[connections'[i].socket]
    <3>1. CASE i \in 1..n
      <4>1. connections'[i] = connections[i] BY <1>11, <3>1
      <4>2. connections[i].dbindex = db[connections[i].socket]
        BY <1>3, <1>9, <2>2, <3>1, <4>1 DEF Calm
      <4> QED BY <4>1, <4>2
    <3>2. CASE i = n + 1
      <4>1. s \notin lost BY <1>11, <1>17, <2>2, <3>2
      <4>2. call.db = db[s] BY <1>1, <1>4, <1>5, <2>2, <4>1 DEF SelectInv, s
      <4> QED BY <1>11, <1>17, <3>2, <4>2
    <3> QED BY <1>14, <3>1, <3>2
  <2>3. ~slipped => \A i \in DOMAIN connections' :
          (connections'[i].socket \notin lost) => connections'[i].dbindex = db[connections'[i].socket]
    BY <1>11, <2>2
  <2> QED BY <1>2, <1>3, <1>10, <1>13, <2>1, <2>3, FreshSelect
<1> QED BY <1>16, <1>18, <1>19, <1>20, <1>21, <1>22, <1>23 DEF IInv

\* The round is over; the next one begins, or the call ends.
LEMMA FinishRoundStep == ASSUME IInv, FinishRound PROVE IInv'
<1> SUFFICES ASSUME call.f # "open" PROVE IInv' BY OpenedStep
<1> DEFINE g == Append(got, replies)
           p == Plan(call, g)
           T == Open \cup {NoSocket}
<1>1. /\ TypeInv /\ SocketsOwned /\ SocketsOpen /\ CallInv /\ RoundInv
      /\ MultiInv /\ WireInv /\ SelectInv
  BY DEF IInv
<1>2. /\ pc = "recv" /\ at > Len(round.reads) /\ Enter(p) /\ got' = g
      /\ UNCHANGED <<connections, call, reqs, reps, lost, peer, db, multi, store, calls, slipped, failed>>
  BY DEF FinishRound, wireVars, serverVars, history
<1>3. Calm BY <1>2, RoundDone
<1>4. GotOK(call, g) BY <1>2, GotMore
<1>5. /\ IsCall(call) /\ connections # <<>> /\ call.f \notin {"open", "close"}
      /\ "con" \in DOMAIN call => call.con <= Len(connections)
      /\ calls > 0
  BY <1>1, <1>2 DEF CallInv
<1>6. /\ Fresh(p) /\ pc' \in {"send", "idle"}
      /\ pc' = "send" => RoundOK(p, call, T) /\ AsksText(p, call, g)
  <2>1. Wired(T) BY <1>1, <1>5, WiredIs
  <2> HIDE DEF T, g
  <2>2. Allowed(p, call, T) /\ (p.do = "round" => AsksText(p, call, g))
    BY <1>4, <1>5, <2>1, PlanOK
  <2> HIDE DEF p
  <2> QED BY <1>2, <2>2, EnterIs
<1> HIDE DEF p, g, T
<1>7. ~Opening /\ ~Opening' BY <1>2, <1>5 DEF Opening
<1>8. TypeInv'
  <2>1. pc' \in {"idle", "connect", "send", "recv", "close"} BY <1>6
  <2> QED BY <1>1, <1>2, <2>1 DEF TypeInv, Open
<1>9. SocketsOwned' BY <1>1, <1>2, OwnedFrame
<1>10. SocketsOpen'
  <2>1. PICK k \in 0..(Len(connections) + calls) :
          /\ Open = FirstSocket..(FirstSocket + k - 1) /\ k <= Len(connections) + calls - 1
    BY <1>1, <1>2, <1>7 DEF SocketsOpen
  <2>2. Len(connections) \in Nat /\ calls \in Nat BY <1>1, SeqFacts DEF TypeInv
  <2>3. k <= Len(connections) + calls - 0 BY <2>1, <2>2
  <2>4. Open' = Open /\ Owned' = Owned BY <1>2 DEF Open, Owned
  <2>5. Open = Owned \cup failed BY <1>1, <1>7 DEF SocketsOpen
  <2>6. UNCHANGED <<connections, calls, failed>> BY <1>2
  <2>7. CASE pc' = "idle" BY <1>7, <2>1, <2>3, <2>4, <2>5, <2>6, <2>7 DEF SocketsOpen
  <2>8. CASE pc' # "idle" BY <1>7, <2>1, <2>4, <2>5, <2>6, <2>8 DEF SocketsOpen
  <2> QED BY <2>7, <2>8
<1>11. CallInv' BY <1>2, <1>5, <1>6, <1>7 DEF CallInv
<1>12. RoundInv'
  <2>1. Open' = Open BY <1>2 DEF Open
  <2>2. pc' = "send" => /\ RoundOK(p, call', Open' \cup {NoSocket})
                        /\ GotOK(call', got') /\ AsksText(p, call', got')
    BY <1>2, <1>4, <1>6, <2>1 DEF T
  <2> QED BY <1>6, <2>2, FreshRound
<1>13. MultiInv' BY <1>1, <1>2, MultiFrame
<1>14. WireInv'
  <2>1. lost \subseteq AllSockets BY <1>1 DEF TypeInv, Open
  <2> QED BY <1>2, <1>3, <1>6, <2>1, FreshWire
<1>15. SelectInv'
  <2>1. \A i \in DOMAIN connections' : connections'[i].socket \in AllSockets
    BY <1>1, <1>2 DEF SocketsOwned, Owned, Open
  <2>2. ~slipped => \A i \in DOMAIN connections' :
          (connections'[i].socket \notin lost) => connections'[i].dbindex = db[connections'[i].socket]
    BY <1>2, <1>3 DEF Calm
  <2> QED BY <1>2, <1>3, <1>6, <1>7, <2>1, <2>2, FreshSelect
<1> QED BY <1>8, <1>9, <1>10, <1>11, <1>12, <1>13, <1>14, <1>15 DEF IInv

-----------------------------------------------------------------------------
(* Steps: a server processes a command                                     *)

\* What holds when a server has a request to process.
LEMMA ServedIs ==
  ASSUME IInv, NEW s \in AllSockets, reqs[s] # <<>>
  PROVE  /\ s \notin lost /\ s \in Open /\ peer[s] \in ToSet(Servers) /\ db[s] \in DBs
         /\ reqs[s] \in Seq(Requests) /\ reqs[s][1].cmd \in Commands /\ 1 \in 1..Len(reqs[s])
         /\ store[peer[s]] \in [DBs -> Databases] /\ store[peer[s]][db[s]] \in Databases
         /\ ~slipped => /\ Working /\ RoundOK(round, call, Open \cup {NoSocket}) /\ IsCall(call)
                        /\ Fits(reqs[s][1].cmd, round, call) /\ reqs[s][1].of = calls
                        /\ pc = "send" => at \in DOMAIN round.sends
                        /\ pc = "recv" => at \in 1..(Len(round.reads) + 1)
<1>1. TypeInv /\ MultiInv /\ WireInv /\ RoundInv /\ CallInv BY DEF IInv
<1>2. s \notin lost /\ s \in Open BY <1>1 DEF MultiInv, TypeInv
<1>3. peer[s] \in ToSet(Servers) /\ db[s] \in DBs BY <1>1, <1>2 DEF TypeInv, Open
<1>4. reqs[s] \in Seq(Requests) /\ 1 \in 1..Len(reqs[s]) /\ reqs[s][1] \in Requests
  <2> DEFINE q == reqs[s]
  <2>1. q \in Seq(Requests) /\ q # <<>> BY <1>1 DEF TypeInv
  <2> HIDE DEF q
  <2>2. 1 \in 1..Len(q) /\ q[1] \in Requests BY <2>1, SeqFacts
  <2> QED BY <2>1, <2>2 DEF q
<1>5. reqs[s][1].cmd \in Commands BY <1>4 DEF Requests
<1>6. store[peer[s]] \in [DBs -> Databases] /\ store[peer[s]][db[s]] \in Databases
  <2>1. store \in [ToSet(Servers) -> [DBs -> Databases]] BY <1>1 DEF TypeInv, Stores
  <2>2. store[peer[s]] \in [DBs -> Databases] BY <1>3, <2>1
  <2> QED BY <1>3, <2>2
<1>7. ASSUME ~slipped
      PROVE  /\ Working /\ RoundOK(round, call, Open \cup {NoSocket}) /\ IsCall(call)
             /\ Fits(reqs[s][1].cmd, round, call) /\ reqs[s][1].of = calls
             /\ pc = "send" => at \in DOMAIN round.sends
             /\ pc = "recv" => at \in 1..(Len(round.reads) + 1)
  <2>1. Working BY <1>1, <1>2, <1>7 DEF WireInv, Quiet
  <2>2. Fits(reqs[s][1].cmd, round, call) /\ reqs[s][1].of = calls
    BY <1>1, <1>4, <1>7, <2>1 DEF WireInv
  <2>3. IsCall(call) BY <1>1, <2>1 DEF CallInv, Working
  <2> QED BY <1>1, <2>1, <2>2, <2>3 DEF RoundInv
<1> QED BY <1>2, <1>3, <1>4, <1>5, <1>6, <1>7

\* The first request is processed: the others keep their places in or
\* outside of a transaction.
LEMMA BracketsTail ==
  ASSUME NEW ms, NEW q \in Seq(Requests), q # <<>>, NEW B, Brackets(ms, q, B),
         NEW new, (new # <<>>) <=> (2 \in B)
  PROVE  \E D \in SUBSET (1..Len(Tail(q))) : Brackets(new, Tail(q), D)
<1> DEFINE n == Len(q)
           w == Tail(q)
           D == {i \in 1..(n - 1) : i + 1 \in B}
<1>1. /\ n \in Nat \ {0} /\ Len(w) = n - 1 /\ w \in Seq(Requests)
      /\ \A i \in 1..(n - 1) : w[i] = q[i + 1]
  <2>1. /\ Tail(q) \in Seq(Requests) /\ Len(Tail(q)) = Len(q) - 1 /\ Len(q) \in Nat \ {0}
        /\ \A i \in 1..Len(Tail(q)) : Tail(q)[i] = q[i + 1]
    BY TailIs
  <2> QED BY <2>1
<1>2. B \subseteq 1..n BY DEF Brackets
<1>3. \A i \in 1..n : LET cmd == q[i].cmd
                      IN  /\ cmd[1] = "MULTI" => i \notin B /\ i + 1 \in B
                          /\ cmd[1] = "EXEC" => i \in B /\ i + 1 \notin B
                          /\ cmd[1] \notin {"MULTI", "EXEC"} =>
                               (i + 1 \in B <=> i \in B) /\ (i \in B => cmd \in Plainly)
  BY DEF Brackets
<1> HIDE DEF n, w
<1>4. \A i \in 1..n : i \in D <=> i + 1 \in B
  <2> SUFFICES ASSUME NEW i \in 1..n PROVE i \in D <=> i + 1 \in B OBVIOUS
  <2>1. i + 1 \in B => i + 1 <= n BY <1>1, <1>2
  <2>2. i + 1 <= n => i \in 1..(n - 1) BY <1>1
  <2> QED BY <2>1, <2>2
<1>5. D \subseteq 1..(n - 1) OBVIOUS
<1>6. 1 \in D <=> new # <<>>
  <2>1. 1 \in 1..n /\ 1 + 1 = 2 BY <1>1
  <2> HIDE DEF D
  <2> QED BY <1>4, <2>1
<1> HIDE DEF D
<1>7. ASSUME NEW i \in 1..(n - 1)
      PROVE  LET cmd == w[i].cmd
             IN  /\ cmd[1] = "MULTI" => i \notin D /\ i + 1 \in D
                 /\ cmd[1] = "EXEC" => i \in D /\ i + 1 \notin D
                 /\ cmd[1] \notin {"MULTI", "EXEC"} =>
                      (i + 1 \in D <=> i \in D) /\ (i \in D => cmd \in Plainly)
  <2> DEFINE j == i + 1
  <2>1. j \in 1..n /\ i \in 1..n BY <1>1
  <2>2. (i \in D <=> j \in B) /\ (j \in D <=> j + 1 \in B) BY <1>4, <2>1
  <2>3. w[i] = q[j] BY <1>1
  <2> HIDE DEF j
  <2>4. LET cmd == q[j].cmd
        IN  /\ cmd[1] = "MULTI" => j \notin B /\ j + 1 \in B
            /\ cmd[1] = "EXEC" => j \in B /\ j + 1 \notin B
            /\ cmd[1] \notin {"MULTI", "EXEC"} =>
                 (j + 1 \in B <=> j \in B) /\ (j \in B => cmd \in Plainly)
    BY <1>3, <2>1
  <2>5. LET cmd == w[i].cmd
        IN  /\ cmd[1] = "MULTI" => i \notin D /\ j \in D
            /\ cmd[1] = "EXEC" => i \in D /\ j \notin D
            /\ cmd[1] \notin {"MULTI", "EXEC"} =>
                 (j \in D <=> i \in D) /\ (i \in D => cmd \in Plainly)
    BY <2>2, <2>3, <2>4
  <2> QED BY <2>5 DEF j
<1>8. Brackets(new, w, D) BY <1>1, <1>5, <1>6, <1>7 DEF Brackets
<1>9. D \in SUBSET (1..Len(w)) BY <1>1, <1>5
<1> QED BY <1>8, <1>9 DEF w

\* The reads of the round that are still to come begin here.
From1 == IF pc = "recv" THEN at ELSE 1

\* Outside of a transaction nothing of a round is under way on a
\* connection, or all that is read from it.
LEMMA UnderWay ==
  ASSUME IInv, ~slipped, Working, call.f # "exec_transaction", NEW s \in AllSockets \ lost
  PROVE  /\ multi[s] = <<>>
         /\ \/ reqs[s] = <<>> /\ reps[s] = <<>>
            \/ Len(reqs[s]) + Len(reps[s]) = Cardinality(From(round, From1, s))
         /\ reqs[s] # <<>> => \E i \in 1..Len(round.sends) : round.sends[i].to = s
<1> DEFINE T == Open \cup {NoSocket}
<1>1. TypeInv /\ WireInv /\ RoundInv BY DEF IInv
<1>2. RoundOK(round, call, T) BY <1>1 DEF RoundInv
<1> HIDE DEF T
<1>3. /\ DOMAIN round.sends = 1..Len(round.sends) /\ Len(round.sends) \in Nat /\ Len(round.reads) \in Nat
  BY <1>2, RoundShape
<1>4. Balanced(round) BY <1>2 DEF RoundOK
<1>5. CASE pc = "send"
  <2>1. at \in 1..Len(round.sends) BY <1>1, <1>3, <1>5 DEF RoundInv, Working
  <2>2. Sending(s) BY <1>1, <1>5 DEF WireInv
  <2>3. From1 = 1 BY <1>5 DEF From1
  <2>4. CASE \A k \in 1..(at - 1) : round.sends[k].to # s BY <2>2, <2>4 DEF Sending, Quiet
  <2>5. CASE \E k \in 1..(at - 1) : round.sends[k].to = s
    <3>1. PICK k \in 1..(at - 1) : round.sends[k].to = s BY <2>5
    <3>2. k \in 1..Len(round.sends) BY <1>3, <2>1
    <3>3. Len(reqs[s]) + Len(reps[s]) = Len(round.sends[k].cmds) BY <2>2, <3>1 DEF Sending
    <3>4. Cardinality(From(round, 1, s)) = Len(round.sends[k].cmds)
      BY <1>3, <1>4, <3>1, <3>2 DEF Balanced
    <3> QED BY <2>2, <2>3, <3>1, <3>2, <3>3, <3>4 DEF Sending
  <2> QED BY <2>4, <2>5
<1>6. CASE pc = "recv"
  <2>1. Receiving(s) BY <1>1, <1>6 DEF WireInv
  <2>2. From1 = at /\ at \in Nat \ {0} BY <1>1, <1>3, <1>6 DEF From1, RoundInv, Working
  <2>3. ASSUME reqs[s] # <<>> PROVE \E i \in 1..Len(round.sends) : round.sends[i].to = s
    <3> SUFFICES ASSUME \A i \in 1..Len(round.sends) : round.sends[i].to # s PROVE FALSE OBVIOUS
    <3>1. Cardinality(From(round, at, s)) = 0 BY <1>2, <2>2, FromNone
    <3> DEFINE a == Len(reqs[s])
               b == Len(reps[s])
    <3>2. a + b = 0 BY <2>1, <3>1 DEF Receiving
    <3>3. a \in Nat /\ b \in Nat /\ a # 0
      <4>1. reqs[s] \in Seq(Requests) /\ reps[s] \in Seq(Answers) BY <1>1 DEF TypeInv
      <4> QED BY <2>3, <4>1, SeqFacts
    <3> HIDE DEF a, b
    <3> QED BY <3>2, <3>3
  <2> QED BY <2>1, <2>2, <2>3 DEF Receiving
<1> QED BY <1>5, <1>6 DEF Working

\* A server has processed the first request on s: it says rs, has queued ms
\* for the transaction and has d selected.
Served(s, rs, ms, d) ==
  /\ reqs' = [reqs EXCEPT ![s] = Tail(@)] /\ Says(s, rs)
  /\ multi' = [multi EXCEPT ![s] = ms] /\ db' = [db EXCEPT ![s] = d]
  /\ UNCHANGED <<clientVars, peer, history, lost>>

\* What that changes on s, and nowhere else.
LEMMA ServedMoves ==
  ASSUME IInv, NEW s \in AllSockets, reqs[s] # <<>>, NEW rs \in Seq(Replies),
         NEW ms \in Seq(Commands), NEW d \in DBs, Served(s, rs, ms, d)
  PROVE  /\ reqs' \in [AllSockets -> Seq(Requests)] /\ reps' \in [AllSockets -> Seq(Answers)]
         /\ multi' \in [AllSockets -> Seq(Commands)] /\ db' \in [AllSockets -> DBs]
         /\ \A x \in AllSockets : x # s =>
              /\ reqs'[x] = reqs[x] /\ reps'[x] = reps[x]
              /\ multi'[x] = multi[x] /\ db'[x] = db[x]
         /\ multi'[s] = ms /\ db'[s] = d /\ reqs'[s] = Tail(reqs[s])
         /\ Len(reqs[s]) \in Nat \ {0} /\ Len(reqs'[s]) = Len(reqs[s]) - 1
         /\ Len(reps[s]) \in Nat /\ Len(reps'[s]) = Len(reps[s]) + Len(rs)
         /\ \A i \in 1..Len(reqs'[s]) : reqs'[s][i] = reqs[s][i + 1] /\ i + 1 \in 1..Len(reqs[s])
         /\ \A i \in 1..Len(reps'[s]) :
              \/ \E j \in 1..Len(reps[s]) : reps'[s][i] = reps[s][j]
              \/ \E j \in 1..Len(rs) : reps'[s][i].reply = rs[j] /\ reps'[s][i].of = reqs[s][1].of
<1> DEFINE of  == reqs[s][1].of
           new == [i \in DOMAIN rs |-> [reply |-> rs[i], of |-> of]]
           a   == reps[s]
           q   == reqs[s]
<1>1. TypeInv BY DEF IInv
<1>2. /\ reqs \in [AllSockets -> Seq(Requests)] /\ reps \in [AllSockets -> Seq(Answers)]
      /\ multi \in [AllSockets -> Seq(Commands)] /\ db \in [AllSockets -> DBs]
  BY <1>1 DEF TypeInv
<1>3. q \in Seq(Requests) /\ q # <<>> /\ a \in Seq(Answers) BY <1>2
<1>4. /\ reqs' = [reqs EXCEPT ![s] = Tail(q)] /\ reps' = [reps EXCEPT ![s] = a \o new]
      /\ multi' = [multi EXCEPT ![s] = ms] /\ db' = [db EXCEPT ![s] = d]
  BY <1>2 DEF Served, Says
<1>5. /\ Tail(q) \in Seq(Requests) /\ Len(Tail(q)) = Len(q) - 1 /\ Len(q) \in Nat \ {0}
      /\ q[1] \in Requests
      /\ \A i \in 1..Len(Tail(q)) : Tail(q)[i] = q[i + 1] /\ i + 1 \in 1..Len(q)
  <2> HIDE DEF q
  <2> QED BY <1>3, TailIs
<1>6. of \in Nat BY <1>5 DEF Requests
<1> HIDE DEF of
<1>7. new \in Seq(Answers) /\ Len(new) = Len(rs) /\ \A j \in 1..Len(rs) : new[j].reply = rs[j] /\ new[j].of = of
  <2>1. /\ Len(rs) \in Nat /\ DOMAIN rs = 1..Len(rs) /\ \A i \in 1..Len(rs) : rs[i] \in Replies
    BY SeqFacts
  <2>2. new \in [1..Len(rs) -> Answers]
    <3> HIDE DEF Replies
    <3> QED BY <1>6, <2>1 DEF Answers
  <2>3. \A j \in 1..Len(rs) : new[j].reply = rs[j] /\ new[j].of = of BY <2>1
  <2> HIDE DEF new
  <2> QED BY <2>1, <2>2, <2>3, ListIs
<1> HIDE DEF new
<1>8. a \o new \in Seq(Answers) /\ Len(a \o new) = Len(a) + Len(new) /\ Len(a) \in Nat
  <2> HIDE DEF a
  <2>1. Len(a) \in Nat BY <1>3, SeqFacts
  <2>2. a \o new \in Seq(Answers) /\ Len(a \o new) = Len(a) + Len(new) BY <1>3, <1>7, ConcatIs
  <2> QED BY <2>1, <2>2
<1>9. ASSUME NEW i \in 1..Len(a \o new)
      PROVE  \/ \E j \in 1..Len(a) : (a \o new)[i] = a[j]
             \/ \E j \in 1..Len(rs) : (a \o new)[i].reply = rs[j] /\ (a \o new)[i].of = of
  <2> HIDE DEF a
  <2>1. CASE \E j \in 1..Len(a) : (a \o new)[i] = a[j] BY <2>1
  <2>2. CASE \E j \in 1..Len(new) : (a \o new)[i] = new[j]
    <3>1. PICK j \in 1..Len(new) : (a \o new)[i] = new[j] BY <2>2
    <3>2. j \in 1..Len(rs) /\ new[j].reply = rs[j] /\ new[j].of = of BY <1>7
    <3> DEFINE z == (a \o new)[i]
    <3>3. z = new[j] BY <3>1
    <3> HIDE DEF z
    <3>4. z.reply = rs[j] /\ z.of = of BY <3>2, <3>3
    <3> QED BY <3>2, <3>4 DEF z
  <2>3. a \in Seq(Answers) /\ new \in Seq(Answers) BY <1>3, <1>7
  <2>4. \/ \E j \in 1..Len(a) : (a \o new)[i] = a[j]
        \/ \E j \in 1..Len(new) : (a \o new)[i] = new[j]
    BY <2>3, CatElements
  <2> QED BY <2>1, <2>2, <2>4
<1> DEFINE b == a \o new
           w == Tail(q)
<1>10. /\ reqs' = [reqs EXCEPT ![s] = w] /\ reps' = [reps EXCEPT ![s] = b]
       /\ w \in Seq(Requests) /\ b \in Seq(Answers)
  BY <1>4, <1>5, <1>8
<1>11. /\ Len(b) = Len(a) + Len(rs)
       /\ \A i \in 1..Len(b) : \/ \E j \in 1..Len(a) : b[i] = a[j]
                               \/ \E j \in 1..Len(rs) : b[i].reply = rs[j] /\ b[i].of = of
  BY <1>7, <1>8, <1>9
<1>12. Len(w) = Len(q) - 1 /\ \A i \in 1..Len(w) : w[i] = q[i + 1] /\ i + 1 \in 1..Len(q) BY <1>5
<1>13. w = Tail(q) OBVIOUS
<1> HIDE DEF b, w
<1>14. /\ reqs' \in [AllSockets -> Seq(Requests)] /\ reps' \in [AllSockets -> Seq(Answers)]
       /\ multi' \in [AllSockets -> Seq(Commands)] /\ db' \in [AllSockets -> DBs]
  BY <1>2, <1>4, <1>10
<1>15. /\ \A x \in AllSockets : x # s =>
            /\ reqs'[x] = reqs[x] /\ reps'[x] = reps[x]
            /\ multi'[x] = multi[x] /\ db'[x] = db[x]
       /\ multi'[s] = ms /\ db'[s] = d /\ reqs'[s] = w /\ reps'[s] = b
  BY <1>2, <1>4, <1>10
<1> QED BY <1>5, <1>8, <1>11, <1>12, <1>13, <1>14, <1>15 DEF of, a, q

\* What a server may do with the first request, cmd: it runs the command,
\* queues it, or ends the transaction.
Rightly(s, cmd, rs, ms, d) ==
  /\ rs \in Seq(Replies) /\ ms \in Seq(Commands) /\ d \in DBs
  /\ \E B : Brackets(multi[s], reqs[s], B) /\ (ms # <<>> <=> 2 \in B)
  /\ ms # <<>> => Tail(ms) \in Seq(Plainly)
  /\ IF cmd[1] = "SELECT"
     THEN /\ rs = <<IF cmd[2] \in DBs THEN OK ELSE Error>>
          /\ d = IF cmd[2] \in DBs THEN cmd[2] ELSE db[s]
     ELSE d = db[s]
  /\ \/ Len(rs) = 1 /\ ms = <<>> /\ multi[s] = <<>> /\ cmd[1] \notin {"MULTI", "EXEC"}
     \/ /\ Len(rs) = 1 /\ Len(ms) = Len(multi[s]) + 1
        /\ cmd[1] = "MULTI" \/ (multi[s] # <<>> /\ cmd[1] # "EXEC")
     \/ Len(rs) = Len(multi[s]) /\ ms = <<>> /\ cmd[1] = "EXEC"

\* In a transaction the server is one command further.
LEMMA ServedTransaction ==
  ASSUME IInv, ~slipped, pc = "recv", call.f = "exec_transaction",
         NEW s \in AllSockets, reqs[s] # <<>>, NEW rs, NEW ms, NEW d,
         Served(s, rs, ms, d), Rightly(s, reqs[s][1].cmd, rs, ms, d)
  PROVE  Transacting(s)'
<1> DEFINE cmd == reqs[s][1].cmd
           m   == Len(call.cmds)
           p   == Len(Stream(call)) - Len(reqs[s])
           pp  == Len(Stream(call)) - Len(reqs'[s])
           b   == Len(reps[s])
           bb  == Len(reps'[s])
           a   == Len(reqs[s])
           aa  == Len(reqs'[s])
<1>1. TypeInv /\ WireInv BY DEF IInv
<1>2. /\ s \notin lost /\ Working /\ RoundOK(round, call, Open \cup {NoSocket}) /\ IsCall(call)
      /\ at \in 1..(Len(round.reads) + 1) /\ 1 \in 1..Len(reqs[s])
  BY ServedIs
<1>3. Transaction(round, call) BY <1>2 DEF RoundOK
<1>4. Transacting(s) BY <1>1, <1>2 DEF WireInv
<1>5. s = round.sends[1].to BY <1>4 DEF Transacting, Quiet
<1>6. /\ p \in Nat /\ \A i \in 1..Len(reqs[s]) : reqs[s][i].cmd = Stream(call)[p + i]
      /\ Len(multi[s]) = p /\ b + at - 1 = p
  BY <1>4, <1>5 DEF Transacting
<1>7. rs \in Seq(Replies) /\ ms \in Seq(Commands) /\ d \in DBs BY DEF Rightly
<1>8. /\ multi'[s] = ms /\ a \in Nat \ {0} /\ aa = a - 1 /\ b \in Nat /\ bb = b + Len(rs)
      /\ \A i \in 1..Len(reqs'[s]) : reqs'[s][i] = reqs[s][i + 1] /\ i + 1 \in 1..Len(reqs[s])
      /\ reqs' \in [AllSockets -> Seq(Requests)]
  BY <1>7, ServedMoves
<1>9. call.cmds \in Seq(Plainly) BY <1>2, CallIs
<1>10. /\ m \in Nat /\ Len(Stream(call)) = m + 2
       /\ Stream(call)[1] = <<"MULTI">> /\ Stream(call)[m + 2] = <<"EXEC">>
       /\ \A i \in 1..m : Stream(call)[i + 1] = call.cmds[i] /\ call.cmds[i] \in Plainly
  BY <1>9, StreamIs
<1>11. Len(round.reads) = 2 * m + 2 /\ at \in Nat BY <1>2, <1>3 DEF Transaction
<1>12. p = m + 2 - a /\ pp = m + 2 - aa BY <1>10
<1>13. cmd = Stream(call)[p + 1] BY <1>2, <1>6
<1>14. (multi[s] = <<>>) <=> (p = 0)
  <2>1. multi[s] \in Seq(Commands) BY <1>1 DEF TypeInv
  <2> QED BY <1>6, <2>1, SeqFacts
<1>15. (reqs'[s] = <<>>) <=> (aa = 0)
  <2>1. reqs'[s] \in Seq(Requests) BY <1>8
  <2> QED BY <2>1, SeqFacts
<1>16. \/ Len(rs) = 1 /\ ms = <<>> /\ multi[s] = <<>> /\ cmd[1] \notin {"MULTI", "EXEC"}
       \/ /\ Len(rs) = 1 /\ Len(ms) = Len(multi[s]) + 1
          /\ cmd[1] = "MULTI" \/ (multi[s] # <<>> /\ cmd[1] # "EXEC")
       \/ Len(rs) = Len(multi[s]) /\ ms = <<>> /\ cmd[1] = "EXEC"
  BY DEF Rightly
<1>17. pp \in Nat /\ \A i \in 1..Len(reqs'[s]) : reqs'[s][i].cmd = Stream(call)[pp + i]
  <2>1. pp = p + 1
    <3> HIDE DEF p, pp, a, aa, m
    <3> QED BY <1>8, <1>10, <1>12
  <2> HIDE DEF p, pp
  <2>2. ASSUME NEW i \in 1..Len(reqs'[s]) PROVE reqs'[s][i].cmd = Stream(call)[pp + i]
    <3>1. reqs'[s][i].cmd = Stream(call)[p + (i + 1)] BY <1>6, <1>8
    <3>2. p + (i + 1) = pp + i BY <1>6, <2>1
    <3> QED BY <3>1, <3>2
  <2> QED BY <1>6, <2>1, <2>2
<1>18. ASSUME reqs'[s] # <<>> PROVE Len(multi'[s]) = pp /\ bb + at - 1 = pp
  <2>1. a > 1 /\ p <= m /\ pp = p + 1
    <3> HIDE DEF p, pp, a, aa, m
    <3> QED BY <1>8, <1>10, <1>12, <1>15, <1>18
  <2>2. Len(rs) = 1 /\ Len(ms) = p + 1
    <3>1. CASE p = 0
      <4>1. cmd[1] = "MULTI"
        <5> HIDE DEF p, cmd
        <5> QED BY <1>10, <1>13, <3>1
      <4> HIDE DEF p, cmd
      <4> QED BY <1>6, <1>16, <4>1
    <3>2. CASE p # 0
      <4> HIDE DEF p, cmd, m
      <4>1. p \in 1..m BY <1>6, <1>10, <2>1, <3>2
      <4>2. cmd \in Plainly BY <1>10, <1>13, <4>1
      <4>3. cmd[1] \notin {"MULTI", "EXEC"} BY <4>2, PlainVerbs DEF Control
      <4> QED BY <1>6, <1>14, <1>16, <3>2, <4>3
    <3> QED BY <3>1, <3>2
  <2> HIDE DEF p, pp, b, bb
  <2>3. bb + at - 1 = pp BY <1>6, <1>8, <1>11, <2>1, <2>2
  <2> QED BY <1>8, <2>1, <2>2, <2>3
<1>19. ASSUME reqs'[s] = <<>> PROVE multi'[s] = <<>> /\ bb + at - 1 = Len(round.reads)
  <2>1. p = m + 1
    <3> HIDE DEF p, pp, a, aa, m
    <3> QED BY <1>8, <1>10, <1>12, <1>15, <1>19
  <2>2. p + 1 = m + 2
    <3> HIDE DEF p, m
    <3> QED BY <1>10, <2>1
  <2>3. cmd[1] = "EXEC"
    <3> HIDE DEF p, m, cmd
    <3> QED BY <1>10, <1>13, <2>2
  <2>4. Len(rs) = p /\ ms = <<>>
    <3> HIDE DEF p, cmd
    <3> QED BY <1>6, <1>16, <2>3
  <2> HIDE DEF p, b, bb, m
  <2>5. bb + at - 1 = 2 * m + 2 BY <1>6, <1>8, <1>10, <1>11, <2>1, <2>4
  <2> QED BY <1>8, <1>11, <2>4, <2>5
<1>20. UNCHANGED <<round, call, at>> BY DEF Served, clientVars
<1> HIDE DEF m, p, b, a, aa
<1>21. /\ reqs'[s] # <<>> => Len(multi'[s]) = pp /\ Len(reps'[s]) + at' - 1 = pp
       /\ reqs'[s] = <<>> => multi'[s] = <<>> /\ Len(reps'[s]) + at' - 1 = Len(round'.reads)
  BY <1>18, <1>19, <1>20
<1>22. s = round'.sends[1].to /\ Stream(call') = Stream(call) BY <1>5, <1>20
<1> QED BY <1>17, <1>21, <1>22 DEF Transacting

\* Otherwise a reply takes the place of a request.
LEMMA ServedPlainly ==
  ASSUME IInv, ~slipped, call.f # "exec_transaction",
         NEW s \in AllSockets, reqs[s] # <<>>, NEW rs, NEW ms, NEW d,
         Served(s, rs, ms, d), Rightly(s, reqs[s][1].cmd, rs, ms, d)
  PROVE  /\ multi[s] = <<>> /\ multi'[s] = <<>> /\ Len(rs) = 1
         /\ Len(reqs'[s]) + Len(reps'[s]) = Len(reqs[s]) + Len(reps[s])
<1> DEFINE cmd == reqs[s][1].cmd
           a == Len(reqs[s])
           b == Len(reps[s])
           aa == Len(reqs'[s])
           bb == Len(reps'[s])
<1>1. s \notin lost /\ Working /\ Fits(cmd, round, call) BY ServedIs
<1>2. multi[s] = <<>> BY <1>1, UnderWay
<1>3. cmd[1] \notin {"MULTI", "EXEC"} BY <1>1 DEF Fits
<1>4. Len(rs) = 1 /\ ms = <<>> /\ rs \in Seq(Replies) /\ ms \in Seq(Commands) /\ d \in DBs
  <2> HIDE DEF cmd
  <2>1. \/ Len(rs) = 1 /\ ms = <<>> /\ multi[s] = <<>> /\ cmd[1] \notin {"MULTI", "EXEC"}
        \/ /\ Len(rs) = 1 /\ Len(ms) = Len(multi[s]) + 1
           /\ cmd[1] = "MULTI" \/ (multi[s] # <<>> /\ cmd[1] # "EXEC")
        \/ Len(rs) = Len(multi[s]) /\ ms = <<>> /\ cmd[1] = "EXEC"
    BY DEF Rightly, cmd
  <2>2. rs \in Seq(Replies) /\ ms \in Seq(Commands) /\ d \in DBs BY DEF Rightly
  <2> QED BY <1>2, <1>3, <2>1, <2>2
<1>5. multi'[s] = ms /\ a \in Nat \ {0} /\ aa = a - 1 /\ b \in Nat /\ bb = b + Len(rs)
  BY <1>4, ServedMoves
<1>6. aa + bb = a + b
  <2> HIDE DEF a, b, aa, bb
  <2> QED BY <1>4, <1>5
<1> QED BY <1>2, <1>4, <1>5, <1>6

\* What is under way after a request is processed.
LEMMA ServedWire ==
  ASSUME IInv, NEW s \in AllSockets, reqs[s] # <<>>, NEW rs, NEW ms, NEW d,
         Served(s, rs, ms, d), Rightly(s, reqs[s][1].cmd, rs, ms, d)
  PROVE  WireInv'
<1>1. /\ UNCHANGED <<pc, call, round, at, calls, slipped, lost, replies>>
      /\ Working' = Working
  BY DEF Served, clientVars, history, Working
<1> SUFFICES ASSUME ~slipped PROVE WireInv' BY <1>1 DEF WireInv
<1>2. TypeInv /\ WireInv /\ lost \subseteq AllSockets BY DEF IInv, TypeInv, Open
<1>3. /\ s \notin lost /\ Working /\ RoundOK(round, call, Open \cup {NoSocket})
      /\ reqs[s][1].of = calls
      /\ pc = "send" => at \in DOMAIN round.sends
  BY ServedIs
<1>4. /\ \A x \in lost : reps[x] = <<>>
      /\ \A x \in AllSockets : /\ \A i \in 1..Len(reqs[x]) : reqs[x][i].of = calls
                               /\ \A i \in 1..Len(reps[x]) : reps[x][i].of = calls
      /\ \A x \in AllSockets : \A i \in 1..Len(reqs[x]) : Fits(reqs[x][i].cmd, round, call)
      /\ \A x \in AllSockets \ lost :
           /\ pc = "send" => Sending(x)
           /\ pc = "recv" => IF call.f = "exec_transaction" THEN Transacting(x) ELSE Receiving(x)
  BY <1>2, <1>3 DEF WireInv
<1>5. rs \in Seq(Replies) /\ ms \in Seq(Commands) /\ d \in DBs BY DEF Rightly
<1>6. /\ \A x \in AllSockets : x # s =>
           reqs'[x] = reqs[x] /\ reps'[x] = reps[x] /\ multi'[x] = multi[x]
      /\ \A i \in 1..Len(reqs'[s]) : reqs'[s][i] = reqs[s][i + 1] /\ i + 1 \in 1..Len(reqs[s])
      /\ \A i \in 1..Len(reps'[s]) :
           \/ \E j \in 1..Len(reps[s]) : reps'[s][i] = reps[s][j]
           \/ \E j \in 1..Len(rs) : reps'[s][i].reply = rs[j] /\ reps'[s][i].of = reqs[s][1].of
  BY ZenonT(60), <1>5, ServedMoves
<1>7. \A x \in lost : reps'[x] = <<>> BY <1>2, <1>3, <1>4, <1>6
<1>8. \A x \in AllSockets : /\ \A i \in 1..Len(reqs'[x]) : reqs'[x][i].of = calls
                            /\ \A i \in 1..Len(reqs'[x]) : Fits(reqs'[x][i].cmd, round, call)
  <2> SUFFICES ASSUME NEW x \in AllSockets, NEW i \in 1..Len(reqs'[x])
               PROVE  reqs'[x][i].of = calls /\ Fits(reqs'[x][i].cmd, round, call)
    OBVIOUS
  <2>1. CASE x = s BY SMTT(60), <1>4, <1>6, <2>1
  <2>2. CASE x # s BY <1>4, <1>6, <2>2
  <2> QED BY <2>1, <2>2
<1>9. \A x \in AllSockets : \A i \in 1..Len(reps'[x]) : reps'[x][i].of = calls
  <2> SUFFICES ASSUME NEW x \in AllSockets, NEW i \in 1..Len(reps'[x])
               PROVE  reps'[x][i].of = calls
    OBVIOUS
  <2>1. CASE x = s BY <1>3, <1>4, <1>6, <2>1
  <2>2. CASE x # s BY <1>4, <1>6, <2>2
  <2> QED BY <2>1, <2>2
<1>10. ASSUME pc = "send" PROVE call.f # "exec_transaction"
  <2> SUFFICES ASSUME call.f = "exec_transaction" PROVE FALSE OBVIOUS
  <2> DEFINE T == Open \cup {NoSocket}
             n == Len(round.sends)
  <2> HIDE DEF T
  <2>1. RoundOK(round, call, T) BY <1>3 DEF T
  <2>2. DOMAIN round.sends = 1..n BY <2>1, RoundShape
  <2>3. n = 1 BY <2>1 DEF RoundOK, Transaction
  <2>4. at = 1 BY <1>3, <1>10, <2>2, <2>3
  <2>5. 1..(at - 1) = {} BY <2>4
  <2> QED BY <1>3, <1>4, <1>10, <2>5 DEF Sending, Quiet
<1>11. ASSUME pc = "send" PROVE Sending(s)'
  <2>1. multi'[s] = <<>> /\ Len(reqs'[s]) + Len(reps'[s]) = Len(reqs[s]) + Len(reps[s])
    BY <1>10, <1>11, ServedPlainly
  <2>2. Sending(s) /\ ~Quiet(s) BY <1>3, <1>4, <1>11 DEF Quiet
  <2> QED BY <1>1, <2>1, <2>2 DEF Sending
<1>12. ASSUME pc = "recv", call.f # "exec_transaction" PROVE Receiving(s)'
  <2>1. multi'[s] = <<>> /\ Len(reqs'[s]) + Len(reps'[s]) = Len(reqs[s]) + Len(reps[s])
    BY <1>12, ServedPlainly
  <2>2. Receiving(s) BY <1>3, <1>4, <1>12
  <2> QED BY <1>1, <2>1, <2>2 DEF Receiving
<1>13. ASSUME pc = "recv", call.f = "exec_transaction" PROVE Transacting(s)'
  BY <1>13, ServedTransaction
<1>14. ASSUME NEW x \in AllSockets \ lost
       PROVE  /\ pc = "send" => Sending(x)'
              /\ pc = "recv" => IF call.f = "exec_transaction" THEN Transacting(x)' ELSE Receiving(x)'
  <2>1. CASE x = s BY <1>11, <1>12, <1>13, <2>1
  <2>2. CASE x # s
    <3>1. /\ Sending(x) => Sending(x)'
          /\ Receiving(x) => Receiving(x)'
          /\ Transacting(x) => Transacting(x)'
      BY <1>1, <1>6, <2>2, SocketFrame
    <3> QED BY <1>4, <3>1
  <2> QED BY <2>1, <2>2
<1> QED BY <1>1, <1>3, <1>7, <1>8, <1>9, <1>14 DEF WireInv

\* The database that the client notes is the one that is selected.
LEMMA ServedSelect ==
  ASSUME IInv, NEW s \in AllSockets, reqs[s] # <<>>, NEW rs, NEW ms, NEW d,
         Served(s, rs, ms, d), Rightly(s, reqs[s][1].cmd, rs, ms, d)
  PROVE  SelectInv'
<1> DEFINE cmd == reqs[s][1].cmd
<1>1. /\ UNCHANGED <<pc, call, connections, slipped, lost, replies>>
      /\ Working' = Working /\ Opening' = Opening /\ Selection' = Selection
  BY DEF Served, clientVars, history, Working, Opening, Selection
<1> SUFFICES ASSUME ~slipped PROVE SelectInv' BY <1>1 DEF SelectInv
<1>2. SelectInv /\ SocketsOwned /\ CallInv BY DEF IInv
<1>3. s \notin lost /\ Working /\ RoundOK(round, call, Open \cup {NoSocket}) /\ Fits(cmd, round, call)
  BY ServedIs
<1>4. rs \in Seq(Replies) /\ ms \in Seq(Commands) /\ d \in DBs BY DEF Rightly
<1>5. /\ \A x \in AllSockets : x # s => reps'[x] = reps[x] /\ db'[x] = db[x]
      /\ db'[s] = d
      /\ \A i \in 1..Len(reps'[s]) :
           \/ \E j \in 1..Len(reps[s]) : reps'[s][i] = reps[s][j]
           \/ \E j \in 1..Len(rs) : reps'[s][i].reply = rs[j] /\ reps'[s][i].of = reqs[s][1].of
      /\ Len(reps[s]) \in Nat /\ Len(reps'[s]) = Len(reps[s]) + Len(rs)
      /\ reps' \in [AllSockets -> Seq(Answers)]
  <2>1. /\ \A x \in AllSockets : x # s => reps'[x] = reps[x] /\ db'[x] = db[x]
        /\ db'[s] = d /\ reps' \in [AllSockets -> Seq(Answers)]
    BY <1>4, ServedMoves
  <2>2. Len(reps[s]) \in Nat /\ Len(reps'[s]) = Len(reps[s]) + Len(rs) BY <1>4, ServedMoves
  <2>3. \A i \in 1..Len(reps'[s]) :
          \/ \E j \in 1..Len(reps[s]) : reps'[s][i] = reps[s][j]
          \/ \E j \in 1..Len(rs) : reps'[s][i].reply = rs[j] /\ reps'[s][i].of = reqs[s][1].of
    BY SMTT(60), <1>4, ServedMoves
  <2> QED BY <2>1, <2>2, <2>3
\* SELECT is in a call that selects, and answers as expected.
<1>6. ASSUME call.f \in Selecting
      PROVE  /\ rs = <<Selection>> /\ d = IF call.db \in DBs THEN call.db ELSE db[s]
  <2>1. cmd = <<"SELECT", call.db>> BY <1>3, <1>6 DEF Fits
  <2>2. cmd[1] = "SELECT" /\ cmd[2] = call.db
    <3> HIDE DEF cmd
    <3> QED BY <2>1
  <2>3. /\ rs = <<IF cmd[2] \in DBs THEN OK ELSE Error>>
        /\ d = IF cmd[2] \in DBs THEN cmd[2] ELSE db[s]
    BY <2>2 DEF Rightly
  <2> HIDE DEF cmd
  <2> QED BY <2>2, <2>3 DEF Selection
<1>7. ASSUME call.f \notin Selecting PROVE d = db[s]
  <2>1. cmd[1] # "SELECT" BY <1>3, <1>7 DEF Fits
  <2> QED BY <2>1 DEF Rightly
<1>8. call.f \in Selecting => reps'[s] # <<>>
  <2> SUFFICES ASSUME call.f \in Selecting PROVE reps'[s] # <<>> OBVIOUS
  <2>1. Len(rs) = 1 BY <1>6
  <2>2. Len(reps'[s]) # 0
    <3> DEFINE b == Len(reps[s])
               bb == Len(reps'[s])
    <3>1. b \in Nat /\ bb = b + 1 BY <1>5, <2>1
    <3> HIDE DEF b, bb
    <3>2. bb # 0 BY <3>1
    <3> QED BY <3>2 DEF bb
  <2> QED BY <1>5, <2>2, EmptySeq
<1>9. Working /\ call.f \in Selecting =>
        \A x \in AllSockets : \A i \in 1..Len(reps'[x]) : reps'[x][i].reply = Selection
  <2> SUFFICES ASSUME call.f \in Selecting, NEW x \in AllSockets, NEW i \in 1..Len(reps'[x])
               PROVE  reps'[x][i].reply = Selection
    OBVIOUS
  <2>1. \A y \in AllSockets : \A j \in 1..Len(reps[y]) : reps[y][j].reply = Selection
    BY <1>2, <1>3 DEF SelectInv
  <2>2. \A j \in 1..Len(rs) : rs[j] = Selection BY <1>6
  <2>3. CASE x = s BY <1>5, <2>1, <2>2, <2>3
  <2>4. CASE x # s BY <1>5, <2>1, <2>4
  <2> QED BY <2>3, <2>4
<1>10. ASSUME NEW i \in DOMAIN connections, connections[i].socket \notin lost
       PROVE  LET c == connections[i]
              IN  \/ c.dbindex = db'[c.socket]
                  \/ /\ Working /\ call.f = "select"
                     /\ reps'[c.socket] # <<>> /\ db'[c.socket] = call.db /\ call.db \in DBs
  <2> DEFINE x == connections[i].socket
             e == connections[i].dbindex
  <2>1. x \in AllSockets /\ x \in Owned BY <1>2 DEF SocketsOwned, Owned, Open
  <2>2. \/ e = db[x]
        \/ call.f = "select" /\ reps[x] # <<>> /\ db[x] = call.db /\ call.db \in DBs
    BY <1>2, <1>10 DEF SelectInv
  <2> HIDE DEF x, e
  <2>3. \/ e = db'[x]
        \/ call.f = "select" /\ reps'[x] # <<>> /\ db'[x] = call.db /\ call.db \in DBs
    <3>1. CASE x # s BY <1>5, <2>1, <2>2, <3>1
    <3>2. CASE x = s /\ call.f = "select"
      <4>1. call.f \in Selecting BY <3>2 DEF Selecting
      <4> QED BY <1>5, <1>6, <1>8, <2>2, <3>2, <4>1
    <3>3. CASE x = s /\ call.f = "open"
      <4>1. call.socket \notin Owned BY <1>2, <1>3, <3>3 DEF CallInv, Opening, Working
      <4>2. s = call.socket
        <5>1. pc \in {"send", "recv"} /\ call.f # "exec_transaction" BY <1>3, <3>3 DEF Working
        <5>2. PICK k \in 1..Len(round.sends) : round.sends[k].to = s BY <1>3, <5>1, UnderWay
        <5>3. DOMAIN round.sends = 1..Len(round.sends) BY <1>3, RoundShape
        <5> QED BY <1>3, <3>3, <5>2, <5>3 DEF RoundOK
      <4> QED BY <2>1, <3>3, <4>1, <4>2
    <3>4. CASE x = s /\ call.f \notin {"select", "open"}
      <4>1. call.f \notin Selecting BY <3>4 DEF Selecting
      <4> QED BY <1>5, <1>7, <2>2, <3>4, <4>1
    <3> QED BY <3>1, <3>2, <3>3, <3>4
  <2> QED BY <1>3, <2>3 DEF x, e
<1>11. Working /\ call.f = "select" /\ call.db \in DBs =>
         \A x \in AllSockets : reps'[x] # <<>> => db'[x] = call.db
  <2> SUFFICES ASSUME call.f = "select", call.db \in DBs, NEW x \in AllSockets, reps'[x] # <<>>
               PROVE  db'[x] = call.db
    OBVIOUS
  <2>1. call.f \in Selecting BY DEF Selecting
  <2>2. CASE x = s BY <1>5, <1>6, <2>1, <2>2
  <2>3. CASE x # s BY <1>2, <1>3, <1>5, <2>3 DEF SelectInv
  <2> QED BY <2>2, <2>3
<1>12. Opening /\ call.socket \notin lost /\ (replies # <<>> \/ reps'[call.socket] # <<>>) =>
         (replies # <<>> => call.db \in DBs) /\ (call.db \in DBs => db'[call.socket] = call.db)
  <2> SUFFICES ASSUME Opening, call.socket \notin lost, replies # <<>> \/ reps'[call.socket] # <<>>
               PROVE  /\ replies # <<>> => call.db \in DBs
                      /\ call.db \in DBs => db'[call.socket] = call.db
    OBVIOUS
  <2>1. call.f \in Selecting BY DEF Opening, Selecting
  <2>2. call.socket \in AllSockets BY <1>2, <1>3 DEF CallInv, Working, Opening
  <2>3. replies # <<>> \/ reps[call.socket] # <<>> =>
          (replies # <<>> => call.db \in DBs) /\ (call.db \in DBs => db[call.socket] = call.db)
    BY <1>2 DEF SelectInv
  <2>4. CASE call.socket = s BY <1>5, <1>6, <2>1, <2>3, <2>4
  <2>5. CASE call.socket # s BY <1>5, <2>2, <2>3, <2>5
  <2> QED BY <2>4, <2>5
<1> QED BY <1>1, <1>9, <1>10, <1>11, <1>12 DEF SelectInv

\* A request is processed; it is not SHUTDOWN.
LEMMA ServedStep ==
  ASSUME IInv, NEW s \in AllSockets, reqs[s] # <<>>, NEW rs, NEW ms, NEW d,
         Served(s, rs, ms, d), Rightly(s, reqs[s][1].cmd, rs, ms, d), store' \in Stores
  PROVE  IInv'
<1>1. /\ TypeInv /\ SocketsOwned /\ SocketsOpen /\ CallInv /\ RoundInv
      /\ MultiInv /\ WireInv /\ SelectInv
  BY DEF IInv
<1>2. /\ UNCHANGED <<connections, pc, call, got, round, at, replies, peer, calls, slipped, failed, lost>>
      /\ Open' = Open /\ Opening' = Opening /\ (pc = "idle") = (pc = "idle")'
  BY DEF Served, clientVars, history, Working, Opening, Open
<1>3. /\ s \notin lost /\ s \in Open BY ServedIs
<1>4. rs \in Seq(Replies) /\ ms \in Seq(Commands) /\ d \in DBs BY DEF Rightly
<1>5. /\ reqs' \in [AllSockets -> Seq(Requests)] /\ reps' \in [AllSockets -> Seq(Answers)]
      /\ multi' \in [AllSockets -> Seq(Commands)] /\ db' \in [AllSockets -> DBs]
      /\ \A x \in AllSockets : x # s => reqs'[x] = reqs[x] /\ multi'[x] = multi[x]
      /\ multi'[s] = ms /\ reqs'[s] = Tail(reqs[s])
  BY <1>4, ServedMoves
<1>6. TypeInv'
  <2>1. \A x \in AllSockets \ Open' : reqs'[x] = <<>> BY <1>1, <1>2, <1>3, <1>5 DEF TypeInv
  <2> QED BY <1>1, <1>2, <1>5, <2>1 DEF TypeInv
<1>7. SocketsOwned' BY <1>1, <1>2, OwnedFrame
<1>8. SocketsOpen' BY <1>1, <1>2, OpenFrame
<1>9. CallInv' BY <1>1, <1>2, CallFrame
<1>10. RoundInv' BY <1>1, <1>2, RoundFrame
<1>11. MultiInv'
  <2>1. \A x \in lost' : reqs'[x] = <<>>
    <3>1. lost \subseteq AllSockets BY <1>1 DEF TypeInv, Open
    <3> QED BY <1>1, <1>2, <1>3, <1>5, <3>1 DEF MultiInv
  <2>2. ASSUME NEW x \in AllSockets \ lost
        PROVE  /\ \E B \in SUBSET (1..Len(reqs'[x])) : Brackets(multi'[x], reqs'[x], B)
               /\ multi'[x] # <<>> => Tail(multi'[x]) \in Seq(Plainly)
    <3>1. CASE x = s
      <4>1. PICK B : Brackets(multi[s], reqs[s], B) /\ (ms # <<>> <=> 2 \in B) BY DEF Rightly
      <4>2. reqs[s] \in Seq(Requests) BY <1>1 DEF TypeInv
      <4>3. \E D \in SUBSET (1..Len(Tail(reqs[s]))) : Brackets(ms, Tail(reqs[s]), D)
        <5> DEFINE q == reqs[s]
                   old == multi[s]
        <5>1. q \in Seq(Requests) /\ q # <<>> /\ Brackets(old, q, B) BY <4>1, <4>2
        <5> HIDE DEF q, old
        <5>2. \E D \in SUBSET (1..Len(Tail(q))) : Brackets(ms, Tail(q), D)
          BY <4>1, <5>1, BracketsTail
        <5> QED BY <5>2 DEF q
      <4>4. ms # <<>> => Tail(ms) \in Seq(Plainly) BY DEF Rightly
      <4> QED BY <1>5, <3>1, <4>3, <4>4
    <3>2. CASE x # s BY <1>1, <1>5, <2>2, <3>2 DEF MultiInv
    <3> QED BY <3>1, <3>2
  <2> QED BY <1>2, <2>1, <2>2 DEF MultiInv
<1>12. WireInv' BY ServedWire
<1>13. SelectInv' BY ServedSelect
<1> QED BY <1>6, <1>7, <1>8, <1>9, <1>10, <1>11, <1>12, <1>13 DEF IInv

\* A server that shuts down has one request under way, the only one of its
\* call, and no reply.
LEMMA LastRequest ==
  ASSUME IInv, ~slipped, NEW s \in AllSockets, reqs[s] # <<>>, reqs[s][1].cmd[1] = "SHUTDOWN"
  PROVE  /\ call.f \notin Selecting \cup {"exec_transaction"}
         /\ \A x \in AllSockets : reps[x] = <<>>
<1> DEFINE cmd == reqs[s][1].cmd
           r   == round
<1>1. /\ s \notin lost /\ Working /\ RoundOK(round, call, Open \cup {NoSocket}) /\ IsCall(call)
      /\ Fits(cmd, round, call)
      /\ pc = "recv" => at \in 1..(Len(round.reads) + 1)
  BY ServedIs
<1>2. TypeInv /\ WireInv BY DEF IInv
<1>3. Len(round.reads) = 1 BY <1>1 DEF Fits
<1>4. call.f \notin Selecting
  <2> SUFFICES ASSUME call.f \in Selecting PROVE FALSE OBVIOUS
  <2>1. cmd = <<"SELECT", call.db>> /\ cmd[1] = "SHUTDOWN" BY <1>1 DEF Fits
  <2> HIDE DEF cmd
  <2> QED BY <2>1
<1>5. call.f # "exec_transaction"
  <2> SUFFICES ASSUME call.f = "exec_transaction" PROVE FALSE OBVIOUS
  <2> DEFINE m == Len(call.cmds)
  <2>1. call.cmds \in Seq(Plainly) BY <1>1, CallIs
  <2>2. m \in Nat BY <2>1, StreamIs
  <2>3. 1 = 2 * m + 2 BY <1>1, <1>3 DEF RoundOK, Transaction
  <2> HIDE DEF m
  <2> QED BY <2>2, <2>3
<1>6. From1 \in Nat \ {0} BY <1>1, <1>3 DEF From1
<1> DEFINE k == From1
<1> HIDE DEF k
<1>7. k \in Nat \ {0} BY <1>6 DEF k
<1>8. \A x : /\ k = 1 => Cardinality(From(round, k, x)) = IF round.reads[1].from = x THEN 1 ELSE 0
             /\ k # 1 => Cardinality(From(round, k, x)) = 0
  <2> SUFFICES ASSUME NEW x
               PROVE  /\ k = 1 => Cardinality(From(round, k, x))
                                     = IF round.reads[1].from = x THEN 1 ELSE 0
                      /\ k # 1 => Cardinality(From(round, k, x)) = 0
    OBVIOUS
  <2>1. Len(round.reads) \in Nat BY <1>3
  <2>2. ASSUME NEW j \in Nat \ {0}, j > 1 PROVE Cardinality(From(round, j, x)) = 0
    <3>1. From(round, j, x) = {} BY <1>3, <2>1, <2>2, FromIs
    <3> QED BY <2>1, <3>1, FromIs
  <2>3. Cardinality(From(round, 1, x))
          = Cardinality(From(round, 1 + 1, x)) + (IF round.reads[1].from = x THEN 1 ELSE 0)
    <3>1. 1 \in Nat \ {0} /\ 1 \in 1..Len(round.reads) BY <1>3
    <3> QED BY <2>1, <3>1, FromIs
  <2>4. Cardinality(From(round, 1 + 1, x)) = 0
    <3>1. 1 + 1 \in Nat \ {0} /\ 1 + 1 > 1 OBVIOUS
    <3> QED BY <2>2, <3>1
  <2>5. k # 1 => k > 1 BY <1>7
  <2> QED BY <1>7, <2>2, <2>3, <2>4, <2>5
<1>9. \A x \in AllSockets \ lost :
        \/ reqs[x] = <<>> /\ reps[x] = <<>>
        \/ Len(reqs[x]) + Len(reps[x]) = Cardinality(From(round, k, x))
  BY <1>1, <1>5, UnderWay DEF k
<1>10. \A x \in AllSockets :
         /\ Len(reqs[x]) \in Nat /\ Len(reps[x]) \in Nat
         /\ reqs[x] # <<>> => Len(reqs[x]) # 0
         /\ Len(reps[x]) = 0 => reps[x] = <<>>
  <2> SUFFICES ASSUME NEW x \in AllSockets
               PROVE  /\ Len(reqs[x]) \in Nat /\ Len(reps[x]) \in Nat
                      /\ reqs[x] # <<>> => Len(reqs[x]) # 0
                      /\ Len(reps[x]) = 0 => reps[x] = <<>>
    OBVIOUS
  <2>1. reqs[x] \in Seq(Requests) /\ reps[x] \in Seq(Answers) BY <1>2 DEF TypeInv
  <2> QED BY <2>1, SeqFacts
<1>11. k = 1 /\ round.reads[1].from = s /\ Len(reps[s]) = 0
  <2> DEFINE a == Len(reqs[s])
             b == Len(reps[s])
             c == Cardinality(From(round, k, s))
  <2>1. a \in Nat /\ b \in Nat /\ a # 0 /\ a + b = c BY <1>1, <1>9, <1>10
  <2>2. c = IF k = 1 /\ round.reads[1].from = s THEN 1 ELSE 0 BY <1>8
  <2> HIDE DEF a, b, c
  <2>3. k = 1 /\ round.reads[1].from = s /\ b = 0 BY <2>1, <2>2
  <2> QED BY <2>3 DEF b
<1>12. ASSUME NEW x \in AllSockets PROVE reps[x] = <<>>
  <2>1. CASE x \in lost BY <1>2, <2>1 DEF WireInv
  <2>2. CASE x = s BY <1>10, <1>11, <2>2
  <2>3. CASE x \notin lost /\ x # s
    <3> DEFINE a == Len(reqs[x])
               b == Len(reps[x])
    <3>1. Cardinality(From(round, k, x)) = 0 BY <1>8, <1>11, <2>3
    <3>2. (reqs[x] = <<>> /\ reps[x] = <<>>) \/ a + b = 0 BY <1>9, <2>3, <3>1
    <3>3. a \in Nat /\ b \in Nat /\ (b = 0 => reps[x] = <<>>) BY <1>10
    <3> HIDE DEF a, b
    <3> QED BY <3>2, <3>3
  <2> QED BY <2>1, <2>2, <2>3
<1> QED BY <1>4, <1>5, <1>12

\* The connections to a server are lost when it shuts down.
LEMMA ShutdownStep ==
  ASSUME IInv, NEW s \in AllSockets, reqs[s] # <<>>, reqs[s][1].cmd[1] = "SHUTDOWN",
         lost' = lost \cup {x \in AllSockets : peer[x] = peer[s]},
         reqs' = [x \in AllSockets |-> IF peer[x] = peer[s] THEN <<>> ELSE reqs[x]],
         UNCHANGED <<reps, db, multi, store, clientVars, peer, history>>
  PROVE  IInv'
<1>1. /\ TypeInv /\ SocketsOwned /\ SocketsOpen /\ CallInv /\ RoundInv
      /\ MultiInv /\ WireInv /\ SelectInv
  BY DEF IInv
<1>2. /\ UNCHANGED <<connections, pc, call, got, round, at, replies, calls, slipped, failed,
                     reps, db, multi, store, peer>>
      /\ Open' = Open /\ Working' = Working /\ Opening' = Opening /\ (pc = "idle") = (pc = "idle")'
  BY DEF clientVars, history, Working, Opening, Open
<1>3. s \in Open BY ServedIs
<1>4. lost \subseteq lost' /\ lost' \subseteq Open BY <1>1, <1>3 DEF TypeInv, Open
<1>5. \A x \in AllSockets : reqs'[x] = <<>> \/ reqs'[x] = reqs[x] OBVIOUS
<1>6. \A x \in AllSockets \ lost' : reqs'[x] = reqs[x] OBVIOUS
<1>7. \A x \in lost' : reqs'[x] = <<>>
  <2>1. lost \subseteq AllSockets BY <1>1 DEF TypeInv, Open
  <2>2. ASSUME NEW x \in lost PROVE reqs'[x] = <<>>
    <3>1. reqs[x] = <<>> /\ x \in AllSockets BY <1>1, <2>1 DEF MultiInv
    <3> QED BY <1>5, <3>1
  <2> QED BY <2>2
<1>8. TypeInv'
  <2>1. reqs \in [AllSockets -> Seq(Requests)] BY <1>1 DEF TypeInv
  <2>2. <<>> \in Seq(Requests) BY EmptySeq
  <2>3. reqs' \in [AllSockets -> Seq(Requests)] BY <2>1, <2>2
  <2>4. \A x \in AllSockets \ Open' : reqs'[x] = <<>> BY <1>1, <1>2, <1>5 DEF TypeInv
  <2> QED BY <1>1, <1>2, <1>4, <2>3, <2>4 DEF TypeInv
<1>9. SocketsOwned' BY <1>1, <1>2, OwnedFrame
<1>10. SocketsOpen' BY <1>1, <1>2, OpenFrame
<1>11. CallInv' BY <1>1, <1>2, CallFrame
<1>12. RoundInv' BY <1>1, <1>2, RoundFrame
<1>13. MultiInv' BY <1>1, <1>2, <1>4, <1>6, <1>7 DEF MultiInv
<1>14. WireInv'
  <2> SUFFICES ASSUME ~slipped PROVE WireInv' BY <1>2 DEF WireInv
  <2>1. /\ call.f # "exec_transaction" /\ \A x \in AllSockets : reps[x] = <<>> BY LastRequest
  <2>2. Working BY ServedIs
  <2>3. \A x \in lost' : reps'[x] = <<>> BY <1>2, <1>4, <2>1 DEF Open
  <2>4. /\ \A x \in AllSockets : /\ \A i \in 1..Len(reqs[x]) : reqs[x][i].of = calls
                                 /\ \A i \in 1..Len(reps[x]) : reps[x][i].of = calls
        /\ \A x \in AllSockets : \A i \in 1..Len(reqs[x]) : Fits(reqs[x][i].cmd, round, call)
        /\ \A x \in AllSockets \ lost :
             /\ pc = "send" => Sending(x)
             /\ pc = "recv" => Receiving(x)
    BY <1>1, <2>1, <2>2 DEF WireInv
  <2>5. Len(<<>>) = 0 /\ 1..0 = {} BY EmptySeq
  <2>6. \A x \in AllSockets : \A i \in 1..Len(reqs'[x]) :
          reqs'[x][i].of = calls /\ Fits(reqs'[x][i].cmd, round, call)
    <3> SUFFICES ASSUME NEW x \in AllSockets, NEW i \in 1..Len(reqs'[x])
                 PROVE  reqs'[x][i].of = calls /\ Fits(reqs'[x][i].cmd, round, call)
      OBVIOUS
    <3>1. reqs'[x] # <<>> BY <2>5
    <3>2. reqs'[x] = reqs[x] BY <1>5, <3>1
    <3> QED BY <2>4, <3>2
  <2>7. ASSUME NEW x \in AllSockets \ lost'
        PROVE  /\ pc = "send" => Sending(x)'
               /\ pc = "recv" => Receiving(x)'
    <3>1. /\ Sending(x) => Sending(x)'
          /\ Receiving(x) => Receiving(x)'
      BY <1>2, <1>6, SocketFrame
    <3> QED BY <1>4, <2>4, <3>1
  <2> QED BY <1>2, <2>1, <2>2, <2>3, <2>4, <2>6, <2>7 DEF WireInv
<1>15. SelectInv'
  <2> SUFFICES ASSUME ~slipped PROVE SelectInv' BY <1>2 DEF SelectInv
  <2>1. call.f \notin Selecting BY LastRequest
  <2>2. call.f # "select" /\ ~Opening BY <2>1 DEF Selecting, Opening
  <2>3. \A i \in DOMAIN connections :
          connections[i].socket \notin lost' => connections[i].dbindex = db[connections[i].socket]
    BY <1>1, <1>4, <2>2 DEF SelectInv
  <2> QED BY <1>2, <2>1, <2>2, <2>3 DEF SelectInv
<1> QED BY <1>8, <1>9, <1>10, <1>11, <1>12, <1>13, <1>14, <1>15 DEF IInv

\* Where the first request stands: B says in or outside of a transaction.
LEMMA FirstRequest ==
  ASSUME IInv, NEW s \in AllSockets, reqs[s] # <<>>
  PROVE  \E B : LET cmd == reqs[s][1].cmd
                IN  /\ Brackets(multi[s], reqs[s], B) /\ (1 \in B <=> multi[s] # <<>>)
                    /\ cmd[1] = "MULTI" => 1 \notin B /\ 2 \in B
                    /\ cmd[1] = "EXEC" => 1 \in B /\ 2 \notin B
                    /\ cmd[1] \notin {"MULTI", "EXEC"} =>
                         (2 \in B <=> 1 \in B) /\ (1 \in B => cmd \in Plainly)
<1>1. s \notin lost /\ 1 \in 1..Len(reqs[s]) BY ServedIs
<1>2. PICK B : Brackets(multi[s], reqs[s], B) BY <1>1 DEF IInv, MultiInv
<1>3. LET cmd == reqs[s][1].cmd
      IN  /\ cmd[1] = "MULTI" => 1 \notin B /\ 1 + 1 \in B
          /\ cmd[1] = "EXEC" => 1 \in B /\ 1 + 1 \notin B
          /\ cmd[1] \notin {"MULTI", "EXEC"} =>
               (1 + 1 \in B <=> 1 \in B) /\ (1 \in B => cmd \in Plainly)
  BY <1>1, <1>2 DEF Brackets
<1>4. 1 + 1 = 2 OBVIOUS
<1>5. 1 \in B <=> multi[s] # <<>> BY <1>2 DEF Brackets
<1> QED BY <1>2, <1>3, <1>4, <1>5

\* A command is queued, or MULTI opens the queue.
LEMMA QueueStep ==
  ASSUME IInv, NEW s \in AllSockets, reqs[s] # <<>>, NEW cmd, cmd = reqs[s][1].cmd,
         cmd[1] = "MULTI" \/ (InMulti(s) /\ cmd[1] # "EXEC"),
         reqs' = [reqs EXCEPT ![s] = Tail(@)],
         multi' = [multi EXCEPT ![s] = Append(@, cmd)],
         Says(s, <<IF cmd[1] = "MULTI" THEN OK ELSE Reply("status", <<"QUEUED">>, 0)>>),
         UNCHANGED <<db, store, lost, clientVars, peer, history>>
  PROVE  IInv'
<1> DEFINE w  == IF cmd[1] = "MULTI" THEN OK ELSE Reply("status", <<"QUEUED">>, 0)
           rs == <<w>>
           m  == multi[s]
           ms == Append(m, cmd)
<1>1. TypeInv BY DEF IInv
<1>2. cmd \in Commands BY ServedIs
<1>3. m \in Seq(Commands) /\ db \in [AllSockets -> DBs] /\ multi \in [AllSockets -> Seq(Commands)]
  BY <1>1 DEF TypeInv
<1>4. w \in Replies
  <2>1. "QUEUED" \in STRING BY Zenon, WordsAssumption
  <2> HIDE DEF Replies
  <2> QED BY <2>1, ReplyKinds
<1>5. rs \in Seq(Replies) /\ Len(rs) = 1
  <2> HIDE DEF w, Replies
  <2> QED BY <1>4, OneElement
<1>6. ms \in Seq(Commands) /\ Len(ms) = Len(m) + 1
  <2> HIDE DEF m
  <2> QED BY <1>2, <1>3, AppendedIs
<1>7. PICK B : /\ Brackets(m, reqs[s], B) /\ (1 \in B <=> m # <<>>)
               /\ cmd[1] = "MULTI" => 1 \notin B /\ 2 \in B
               /\ cmd[1] \notin {"MULTI", "EXEC"} =>
                    (2 \in B <=> 1 \in B) /\ (1 \in B => cmd \in Plainly)
  BY FirstRequest
<1>8. cmd[1] = "MULTI" \/ (m # <<>> /\ cmd[1] # "EXEC") BY DEF InMulti
<1>9. 2 \in B /\ (m = <<>> \/ cmd \in Plainly) BY <1>7, <1>8
<1>10. ms # <<>>
  <2> HIDE DEF m
  <2> DEFINE n == Len(m)
  <2>1. n \in Nat BY <1>3, SeqFacts
  <2> HIDE DEF n
  <2>2. n + 1 # 0 BY <2>1
  <2> QED BY <1>6, <2>2, EmptySeq DEF n
<1>11. Tail(ms) \in Seq(Plainly)
  <2>1. m # <<>> => Tail(m) \in Seq(Plainly)
    <3>1. s \notin lost BY ServedIs
    <3> QED BY <3>1 DEF IInv, MultiInv
  <2>2. /\ Append(<<>>, cmd) = <<cmd>> /\ Tail(<<cmd>>) = <<>>
        /\ m # <<>> => Tail(Append(m, cmd)) = Append(Tail(m), cmd)
    <3> HIDE DEF m
    <3> QED BY <1>3, TailAppended
  <2>3. CASE m = <<>> BY <2>2, <2>3, EmptySeq
  <2>4. CASE m # <<>>
    <3> DEFINE t == Tail(m)
    <3>1. t \in Seq(Plainly) /\ cmd \in Plainly BY <1>9, <2>1, <2>4
    <3> HIDE DEF t
    <3>2. Append(t, cmd) \in Seq(Plainly) BY <3>1, AppendedIs
    <3> QED BY <2>2, <2>4, <3>2 DEF t
  <2> QED BY <2>3, <2>4
<1>12. cmd[1] # "SELECT"
  <2>1. CASE cmd[1] = "MULTI" BY <2>1
  <2>2. CASE m # <<>> /\ cmd[1] \notin {"MULTI", "EXEC"}
    <3>1. cmd \in Plainly BY <1>7, <2>2
    <3> QED BY <3>1, PlainVerbs DEF Control
  <2> QED BY <1>8, <2>1, <2>2
<1>13. Served(s, rs, ms, db[s])
  <2>1. multi' = [multi EXCEPT ![s] = ms] BY <1>3
  <2>2. db' = [db EXCEPT ![s] = db[s]] BY <1>3
  <2> QED BY <2>1, <2>2 DEF Served
<1>14. Rightly(s, cmd, rs, ms, db[s])
  <2>1. db[s] \in DBs BY <1>3
  <2>2. \E C : Brackets(multi[s], reqs[s], C) /\ (ms # <<>> <=> 2 \in C) BY <1>7, <1>9, <1>10
  <2>3. Len(ms) = Len(multi[s]) + 1 /\ (cmd[1] = "MULTI" \/ (multi[s] # <<>> /\ cmd[1] # "EXEC"))
    BY <1>6, <1>8
  <2> HIDE DEF ms, rs, m
  <2> QED BY <1>5, <1>6, <1>11, <1>12, <2>1, <2>2, <2>3 DEF Rightly
<1>15. store' \in Stores BY <1>1, SMTT(60) DEF TypeInv
<1> QED BY <1>13, <1>14, <1>15, ServedStep

\* EXEC runs what is queued.
LEMMA ExecStep ==
  ASSUME IInv, NEW s \in AllSockets, reqs[s] # <<>>, reqs[s][1].cmd[1] = "EXEC",
         NEW a, a = RunAll(store[peer[s]][db[s]], Tail(multi[s])),
         reqs' = [reqs EXCEPT ![s] = Tail(@)],
         multi' = [multi EXCEPT ![s] = <<>>],
         Says(s, <<Reply("header", <<>>, 0)>> \o a.reply),
         store' = [store EXCEPT ![peer[s]][db[s]] = a.db],
         UNCHANGED <<db, lost, clientVars, peer, history>>
  PROVE  IInv'
<1> DEFINE cmd == reqs[s][1].cmd
           w   == Reply("header", <<>>, 0)
           rs  == <<w>> \o a.reply
           m   == multi[s]
<1>1. TypeInv BY DEF IInv
<1>2. /\ s \notin lost /\ peer[s] \in ToSet(Servers) /\ db[s] \in DBs
      /\ store[peer[s]] \in [DBs -> Databases] /\ store[peer[s]][db[s]] \in Databases
  BY ServedIs
<1>3. m \in Seq(Commands) /\ db \in [AllSockets -> DBs] /\ store \in Stores BY <1>1 DEF TypeInv
<1>4. PICK B : Brackets(m, reqs[s], B) /\ (1 \in B <=> m # <<>>) /\ 1 \in B /\ 2 \notin B
  BY FirstRequest
<1>5. m # <<>> /\ Tail(m) \in Seq(Plainly) BY <1>2, <1>4 DEF IInv, MultiInv
<1>6. a.db \in Databases /\ a.reply \in Seq(Replies) /\ Len(a.reply) = Len(Tail(m))
  <2> DEFINE D == store[peer[s]][db[s]]
             t == Tail(m)
  <2>1. D \in Databases /\ t \in Seq(Plainly) /\ a = RunAll(D, t) BY <1>2, <1>5
  <2> HIDE DEF D, t, Databases
  <2>2. a.db \in Databases /\ a.reply \in Seq(Replies) /\ Len(a.reply) = Len(t) BY <2>1, RunAllIs
  <2> QED BY <2>2 DEF t
<1>7. rs \in Seq(Replies) /\ Len(rs) = Len(m)
  <2> DEFINE f == a.reply
  <2>1. f \in Seq(Replies) /\ Len(f) = Len(Tail(m)) BY <1>6
  <2>2. w \in Replies BY ReplyKinds
  <2> HIDE DEF f, w
  <2>3. <<w>> \o f \in Seq(Replies) /\ Len(<<w>> \o f) = Len(f) + 1 BY <2>1, <2>2, Prefixed
  <2>4. Len(Tail(m)) + 1 = Len(m)
    <3> HIDE DEF m
    <3> DEFINE n == Len(m)
    <3>1. Len(Tail(m)) = n - 1 /\ n \in Nat BY <1>3, <1>5, TailIs
    <3> HIDE DEF n
    <3>2. n - 1 + 1 = n BY <3>1
    <3> QED BY <3>1, <3>2 DEF n
  <2> QED BY <2>1, <2>3, <2>4 DEF f
<1>8. Served(s, rs, <<>>, db[s])
  <2>1. db' = [db EXCEPT ![s] = db[s]] BY <1>3
  <2> QED BY <2>1 DEF Served
<1>9. Rightly(s, cmd, rs, <<>>, db[s])
  <2>1. \E C : Brackets(multi[s], reqs[s], C) /\ (<<>> # <<>> <=> 2 \in C) BY <1>4
  <2>2. <<>> \in Seq(Commands) BY EmptySeq
  <2>3. Len(rs) = Len(multi[s]) /\ cmd[1] = "EXEC" BY <1>7
  <2> HIDE DEF rs, m, cmd
  <2> QED BY <1>2, <1>7, <2>1, <2>2, <2>3 DEF Rightly
<1>10. store' \in Stores
  <2> DEFINE D == a.db
             srv == peer[s]
             d == db[s]
  <2>1. D \in Databases /\ srv \in ToSet(Servers) /\ d \in DBs BY <1>2, <1>6
  <2>2. store' = [store EXCEPT ![srv][d] = D] OBVIOUS
  <2>3. store \in [ToSet(Servers) -> [DBs -> Databases]] BY <1>3 DEF Stores
  <2> HIDE DEF D, srv, d, Databases
  <2> DEFINE f == [store EXCEPT ![srv][d] = D]
  <2>4. f \in [ToSet(Servers) -> [DBs -> Databases]] BY <2>1, <2>3, NestedExcept
  <2>5. store' = f BY <2>2
  <2> QED BY <2>4, <2>5 DEF Stores
<1> QED BY <1>8, <1>9, <1>10, ServedStep

\* A command is run at once.
LEMMA ServeStep ==
  ASSUME IInv, NEW s \in AllSockets, reqs[s] # <<>>, NEW cmd, cmd = reqs[s][1].cmd,
         ~InMulti(s), cmd[1] \notin {"MULTI", "EXEC", "SHUTDOWN"},
         NEW a, a = Serve(s, cmd),
         reqs' = [reqs EXCEPT ![s] = Tail(@)],
         Says(s, <<a.reply>>),
         store' = [store EXCEPT ![peer[s]] = a.data],
         db' = [db EXCEPT ![s] = a.db],
         UNCHANGED <<multi, lost, clientVars, peer, history>>
  PROVE  IInv'
<1> DEFINE r  == a.reply
           rs == <<r>>
           d  == a.db
<1>1. TypeInv BY DEF IInv
<1>2. /\ cmd \in Commands /\ peer[s] \in ToSet(Servers) /\ db[s] \in DBs BY ServedIs
<1>3. multi[s] = <<>> /\ store \in Stores /\ multi \in [AllSockets -> Seq(Commands)]
  BY <1>1 DEF TypeInv, InMulti
<1>4. /\ r \in Replies /\ d \in DBs /\ a.data \in [DBs -> Databases]
      /\ cmd[1] # "SELECT" => d = db[s]
      /\ cmd[1] = "SELECT" =>
           /\ r = IF cmd[2] \in DBs THEN OK ELSE Error
           /\ d = IF cmd[2] \in DBs THEN cmd[2] ELSE db[s]
  BY <1>2, <1>3, ServeIs
<1>5. PICK B : /\ Brackets(multi[s], reqs[s], B) /\ (1 \in B <=> multi[s] # <<>>)
               /\ cmd[1] \notin {"MULTI", "EXEC"} => (2 \in B <=> 1 \in B)
  BY FirstRequest
<1>6. rs \in Seq(Replies) /\ Len(rs) = 1
  <2> HIDE DEF r, Replies
  <2> QED BY <1>4, OneElement
<1>7. Served(s, rs, <<>>, d)
  <2>1. multi' = [multi EXCEPT ![s] = <<>>] BY <1>3
  <2> QED BY <2>1 DEF Served
<1>8. Rightly(s, cmd, rs, <<>>, d)
  <2>1. \E C : Brackets(multi[s], reqs[s], C) /\ (<<>> # <<>> <=> 2 \in C) BY <1>3, <1>5
  <2>2. <<>> \in Seq(Commands) BY EmptySeq
  <2>3. IF cmd[1] = "SELECT"
        THEN /\ rs = <<IF cmd[2] \in DBs THEN OK ELSE Error>>
             /\ d = IF cmd[2] \in DBs THEN cmd[2] ELSE db[s]
        ELSE d = db[s]
    <3> HIDE DEF r, d
    <3> QED BY <1>4
  <2> HIDE DEF rs, d
  <2> QED BY <1>3, <1>4, <1>6, <2>1, <2>2, <2>3 DEF Rightly
<1>9. store' \in Stores
  <2> DEFINE D == a.data
  <2>1. D \in [DBs -> Databases] /\ store' = [store EXCEPT ![peer[s]] = D] BY <1>4
  <2> HIDE DEF D, Databases
  <2> QED BY <1>2, <1>3, <2>1 DEF Stores
<1> QED BY <1>7, <1>8, <1>9, ServedStep

\* One action of a server.
LEMMA ProcessStep == ASSUME IInv, NEW s \in AllSockets, Process(s) PROVE IInv'
<1> DEFINE cmd == reqs[s][1].cmd
           srv == peer[s]
<1>1. reqs[s] # <<>> /\ UNCHANGED <<clientVars, peer, history>> BY DEF Process
<1>2. CASE /\ cmd[1] = "SHUTDOWN"
           /\ lost' = lost \cup {x \in AllSockets : peer[x] = srv}
           /\ reqs' = [x \in AllSockets |-> IF peer[x] = srv THEN <<>> ELSE reqs[x]]
           /\ UNCHANGED <<reps, db, multi, store>>
  BY <1>1, <1>2, ShutdownStep
<1>3. ASSUME cmd[1] # "SHUTDOWN", reqs' = [reqs EXCEPT ![s] = Tail(@)], UNCHANGED lost,
             cmd[1] = "MULTI" \/ (InMulti(s) /\ cmd[1] # "EXEC"),
             multi' = [multi EXCEPT ![s] = Append(@, cmd)],
             Says(s, <<IF cmd[1] = "MULTI" THEN OK ELSE Reply("status", <<"QUEUED">>, 0)>>),
             UNCHANGED <<db, store>>
      PROVE  IInv'
  BY <1>1, <1>3, QueueStep
<1>4. ASSUME cmd[1] # "SHUTDOWN", reqs' = [reqs EXCEPT ![s] = Tail(@)], UNCHANGED lost,
             cmd[1] = "EXEC", UNCHANGED db,
             LET a == RunAll(store[srv][db[s]], Tail(multi[s]))
             IN  /\ Says(s, <<Reply("header", <<>>, 0)>> \o a.reply)
                 /\ store' = [store EXCEPT ![srv][db[s]] = a.db],
             multi' = [multi EXCEPT ![s] = <<>>]
      PROVE  IInv'
  BY <1>1, <1>4, ExecStep
<1>5. ASSUME cmd[1] # "SHUTDOWN", reqs' = [reqs EXCEPT ![s] = Tail(@)], UNCHANGED lost,
             ~InMulti(s), cmd[1] \notin {"MULTI", "EXEC"}, UNCHANGED multi,
             LET a == Serve(s, cmd)
             IN  /\ Says(s, <<a.reply>>)
                 /\ store' = [store EXCEPT ![srv] = a.data]
                 /\ db' = [db EXCEPT ![s] = a.db]
      PROVE  IInv'
  <2>1. cmd[1] \notin {"MULTI", "EXEC", "SHUTDOWN"} BY <1>5
  <2> QED BY <1>1, <1>5, <2>1, ServeStep
<1> QED BY <1>2, <1>3, <1>4, <1>5 DEF Process

-----------------------------------------------------------------------------
(* What holds of every behaviour                                           *)

\* Every step of the client, of a server, of a connection that is lost and
\* of another client keeps the invariant.
LEMMA EveryStep == ASSUME IInv, [Next]_vars PROVE IInv'
<1>1. ASSUME NEW c \in CallSet, Begin(c) PROVE IInv' BY <1>1, BeginStep
<1>2. CASE Client
  BY <1>2, ConnectStep, ConnectFailsStep, SendNextStep, ReceiveStep, ReceiveFailsStep,
     FinishRoundStep, CloseAgainStep DEF Client
<1>3. ASSUME NEW s \in AllSockets, Process(s) PROVE IInv' BY <1>3, ProcessStep
<1>4. ASSUME NEW s \in AllSockets, Lose(s) PROVE IInv' BY <1>4, LoseStep
<1>5. ASSUME NEW d \in Disturbers, Disturb(d[1], d[2]) PROVE IInv' BY <1>5, DisturbStep
<1>6. CASE UNCHANGED vars BY <1>6, StutterStep
<1> QED BY <1>1, <1>2, <1>3, <1>4, <1>5, <1>6 DEF Next

\* The inductive invariant holds in every reachable state.
THEOREM ClusterInvariant == Spec => []IInv
<1>1. Init => IInv BY InitStep
<1>2. IInv /\ [Next]_vars => IInv' BY EveryStep
<1> QED BY <1>1, <1>2, PTL DEF Spec

\* From the invariant: nothing is left, and replies are the call's own.
LEMMA RepliesFollow == ASSUME IInv PROVE RepliesSafe
<1>1. WireInv BY DEF IInv
<1>2. NothingLeft BY <1>1 DEF WireInv, NothingLeft, Quiet, Working
<1>3. OwnReplies
  <2> SUFFICES ASSUME pc = "recv", at <= Len(round.reads), ~slipped,
                      reps[round.reads[at].from] # <<>>
               PROVE  reps[round.reads[at].from][1].of = calls
    BY DEF OwnReplies
  <2> DEFINE s == round.reads[at].from
             q == reps[s]
  <2>1. s \in AllSockets BY ReadingIs
  <2>2. q \in Seq(Answers) /\ q # <<>> BY <2>1 DEF IInv, TypeInv
  <2>3. 1 \in 1..Len(q)
    <3> HIDE DEF q
    <3> DEFINE n == Len(q)
    <3>1. n \in Nat /\ n # 0 BY <2>2, SeqFacts
    <3> HIDE DEF n
    <3>2. 1 \in 1..n BY <3>1
    <3> QED BY <3>2 DEF n
  <2> QED BY <1>1, <2>1, <2>3 DEF WireInv
<1> QED BY <1>2, <1>3 DEF RepliesSafe

\* From the invariant: what the client notes is true of the servers.
LEMMA BeliefsFollow == ASSUME IInv PROVE ConnectionsTrue
<1>1. TypeInv /\ SocketsOwned /\ SocketsOpen /\ RoundInv /\ SelectInv BY DEF IInv
<1>2. TypeOK
  <2>1. \A i \in DOMAIN connections : connections[i].socket \in Open BY <1>1 DEF SocketsOwned, Owned
  <2>2. pc = "send" => at \in DOMAIN round.sends BY <1>1 DEF RoundInv, Working
  <2>3. \A srv \in ToSet(Servers), d \in DBs, k \in Keys : IsValue(store[srv][d][k])
    <3> SUFFICES ASSUME NEW srv \in ToSet(Servers), NEW d \in DBs, NEW k \in Keys
                 PROVE  IsValue(store[srv][d][k])
      OBVIOUS
    <3>1. store \in [ToSet(Servers) -> [DBs -> [Keys -> ValueSet]]]
      BY <1>1 DEF TypeInv, Stores, Databases
    <3>2. store[srv][d][k] \in ValueSet
      <4> HIDE DEF ValueSet
      <4> QED BY <3>1
    <3> QED BY <3>2 DEF ValueSet
  <2>4. lost \subseteq Open /\ pc \in {"idle", "connect", "send", "recv", "close"} BY <1>1 DEF TypeInv
  <2> QED BY <2>1, <2>2, <2>3, <2>4 DEF TypeOK
<1>3. DbIndexTrue BY <1>1 DEF DbIndexTrue, SelectInv, Working
<1>4. LeaksOnlyAfterSelect BY <1>1 DEF LeaksOnlyAfterSelect, SocketsOpen, Opening, Working, Owned
<1> QED BY <1>2, <1>3, <1>4 DEF ConnectionsTrue

\* A call works on the replies to its own requests, and on all of them:
\* whatever is sent at once to several servers, in whatever order they
\* answer, and whichever connection is lost, no reply is left for the next
\* call or taken from an earlier one, unless a call gave up in between.
THEOREM RepliesMatch == Spec => []RepliesSafe
<1>1. IInv => RepliesSafe BY RepliesFollow
<1> QED BY <1>1, ClusterInvariant, PTL

\* After every call dbindex is what the server has selected, and the open
\* sockets are those of the connections and of a SELECT that failed in init.
THEOREM BeliefsTrue == Spec => []ConnectionsTrue
<1>1. IInv => ConnectionsTrue BY BeliefsFollow
<1> QED BY <1>1, ClusterInvariant, PTL

-----------------------------------------------------------------------------
(* Values that move: rename and smove                                      *)

Moving == Renames \cup {"smove"}

\* What must not happen to a value: D is what the client saw before the call,
\* V what it sees now.
Keeps(c, D, V) ==
  IF c.f \in Renames
  THEN D[c.old].type # "none" => V[c.old] = D[c.old] \/ V[c.new] = D[c.old]
  ELSE c.member \notin D[c.dst].set => c.member \notin V[c.src].set \/ c.member \notin V[c.dst].set

\* The calls that the property is about.
Moves(c, D) ==
  \/ c.f \in Renames /\ D[c.old].type # "none"
  \/ c.f = "smove" /\ c.member \notin D[c.dst].set

\* S is where the keys are.
Socks   == [k \in Keys |-> Sock(k)]
Home(c, S) == IF c.f = "smove" THEN S[c.src] = S[c.dst] ELSE S[c.old] = S[c.new]

\* A reply that tells the value b, and what the new key holds after n parts
\* of it have been written.
Tells(b, words) == IF b.type = "set" THEN ToSet(words) = b.set ELSE words = b.seq
Part(b, words, n) ==
  CASE b.type = "string" -> b
    [] b.type = "list"   -> List([i \in 1..n |-> words[i]])
    [] b.type = "set"    -> Set({words[i] : i \in 1..n})

\* rename between servers, h being the replies after that to EXISTS: the type,
\* the value, and those to the commands that write it under the new name.  With
\* one reply more, that to DEL, it is over.
Written(b, h) == IF b.type = "string" THEN 3 ELSE Len(h[2][1].words) + 3
Kind(b, h)    == h[1][1].words[1] = b.type /\ b.type \in {"string", "list", "set"}

Copied(c, b, h, V) ==
  /\ V[c.old] = b
  /\ Len(h) > 0 => h[1][1].words[1] = b.type
  /\ Len(h) > 1 => Kind(b, h) /\ Tells(b, h[2][1].words)
  /\ Len(h) > 2 => V[c.new] = Part(b, h[2][1].words, Len(h) - 3) /\ Len(h) <= Written(b, h)
Over(b, h) == Len(h) > 2 /\ Kind(b, h) /\ Len(h) > Written(b, h)
Copying(c, b, h, V) == Copied(c, b, h, V) \/ Over(b, h)

\* How far the call is, given the replies of the rounds so far.
Halfway(c, D, g, V, S) ==
  CASE c.f \in Renames /\ Home(c, S)     -> g # <<>> \/ V[c.old] = D[c.old]
    [] c.f = "rename" /\ ~Home(c, S)     -> Copying(c, D[c.old], g, V)
    [] c.f = "renamenx" /\ ~Home(c, S)   ->
         IF g = <<>> THEN V[c.old] = D[c.old] ELSE Copying(c, D[c.old], Tail(g), V)
    [] c.f = "smove" /\ Home(c, S)       -> g # <<>> \/ c.member \notin V[c.dst].set
    [] c.f = "smove" /\ ~Home(c, S)      ->
         IF g = <<>> THEN c.member \notin V[c.dst].set
         ELSE Len(g) > 1 \/ c.member \notin V[c.src].set

\* A server processes a command on a key of socket s: B is its database, V and
\* W are what the client sees before and after.
Turns(B, cmd, s, V, W, S) ==
  \A k \in Keys :
    /\ S[k] = s => B[k] = V[k] /\ W[k] = Run(B, cmd).db[k]
    /\ Run(B, cmd).db[k] = B[k] => W[k] = V[k]

Safe(c, D, g, V, s, cmd, S) ==
  \A B, W \in Databases :
    Turns(B, cmd, s, V, W, S) =>
      Keeps(c, D, W) /\ Halfway(c, D, Append(g, <<Run(B, cmd).reply>>), W, S)

\* One command is under way, or its reply.
MoveRound(s, cmd) ==
  /\ round.sends = <<Send(s, <<cmd>>)>>
  /\ Len(round.reads) = 1 /\ round.reads[1].from = s /\ round.reads[1].as # "bye"
  /\ pc = "send" \/ reqs[s] # <<>> =>
       Halfway(call, before, got, View, Socks) /\ Safe(call, before, got, View, s, cmd, Socks)
  /\ reqs[s] # <<>> => reqs[s][1].cmd = cmd
  /\ reps[s] # <<>> => Halfway(call, before, Append(got, <<reps[s][1].reply>>), View, Socks)
  /\ replies # <<>> => Halfway(call, before, Append(got, replies), View, Socks)

MoveInv ==
  /\ before \in Databases
  /\ ~slipped /\ ~disturbed /\ Moves(call, before) =>
       /\ Keeps(call, before, View)
       /\ Working => \E k \in Keys, cmd \in Plainly : MoveRound(Sock(k), cmd)

\* What a value is, by its type.
LEMMA TypedValue ==
  ASSUME NEW b \in ValueSet
  PROVE  /\ b.type = "string" => b = Str(b.seq[1]) /\ Len(b.seq) = 1 /\ b.seq = <<b.seq[1]>>
         /\ b.type = "list" => b = List(b.seq)
         /\ b.type = "set" => b = Set(b.set)
         /\ b.type # "set" => b.set = {}
         /\ b.type = "none" => b = Nothing
<1>1. /\ b \in [type : STRING, seq : Seq(STRING), set : SUBSET STRING]
      /\ b.type # "set" <=> b.set = {}
      /\ b.type = "none" => b = Nothing
      /\ b.type = "string" => Len(b.seq) = 1
      /\ b.type = "list" => b.seq # <<>>
      /\ b.type = "set" => b.seq = <<>>
  BY DEF ValueSet, IsValue
<1>2. b = [type |-> b.type, seq |-> b.seq, set |-> b.set] BY <1>1
<1>3. ASSUME b.type = "string" PROVE b.seq = <<b.seq[1]>>
  <2>1. b.seq \in Seq(STRING) /\ Len(b.seq) = 1 BY <1>1, <1>3
  <2> QED BY <2>1
<1>4. b.type = "string" => b = Str(b.seq[1]) BY <1>1, <1>2, <1>3 DEF Str, Stored
<1>5. b.type = "list" => b = List(b.seq) BY <1>1, <1>2 DEF List, Stored
<1>6. b.type = "set" => b = Set(b.set) BY <1>1, <1>2 DEF Set, Stored
<1> QED BY <1>1, <1>3, <1>4, <1>5, <1>6

\* What is in a list or a set that has been made.
LEMMA MadeIs ==
  /\ \A q : List(q).seq = q /\ List(q).type \in {"none", "list"} /\ List(q).set = {}
  /\ \A Q : Set(Q).set = Q /\ Set(Q).type \in {"none", "set"}
  /\ \A w : Str(w).type = "string" /\ Str(w).set = {}
  /\ Nothing.type = "none" /\ Nothing.set = {}
BY DEF List, Set, Str, Nothing, Stored

\* A list or a set that is written part by part: nothing of it, one part more,
\* and all of it.
LEMMA PartsAre ==
  ASSUME NEW b \in ValueSet, NEW words \in Seq(STRING), Tells(b, words), b.type \in {"list", "set"}
  PROVE  /\ Part(b, words, 0) = Nothing
         /\ Part(b, words, Len(words)) = b
         /\ \A n \in Nat : n < Len(words) =>
              /\ words[n + 1] \in STRING
              /\ b.type = "list" => Part(b, words, n + 1) = List(Append(Part(b, words, n).seq, words[n + 1]))
              /\ b.type = "set" => Part(b, words, n + 1) = Set(Part(b, words, n).set \cup {words[n + 1]})
              /\ Part(b, words, n).type \in {"none", b.type}
<1>1. Len(words) \in Nat /\ DOMAIN words = 1..Len(words) /\ \A i \in 1..Len(words) : words[i] \in STRING
  BY SeqFacts
<1>2. ASSUME NEW n \in Nat, n < Len(words) PROVE words[n + 1] \in STRING
  <2>1. n + 1 \in 1..Len(words) BY <1>1, <1>2
  <2> QED BY <1>1, <2>1
<1>3. CASE b.type = "list"
  <2> DEFINE q(n) == [i \in 1..n |-> words[i]]
  <2>1. \A n : Part(b, words, n) = List(q(n)) BY <1>3 DEF Part
  <2>2. /\ q(0) = <<>> /\ q(Len(words)) = words
        /\ \A n \in Nat : n < Len(words) => Append(q(n), words[n + 1]) = q(n + 1)
    BY <1>1, FirstWords
  <2> HIDE DEF q
  <2>3. words = b.seq /\ b = List(b.seq) BY <1>3, TypedValue DEF Tells
  <2>4. List(<<>>) = Nothing BY DEF List
  <2>5. Part(b, words, 0) = Nothing BY <2>1, <2>2, <2>4
  <2>6. Part(b, words, Len(words)) = b BY <2>1, <2>2, <2>3
  <2>7. ASSUME NEW n \in Nat, n < Len(words)
        PROVE  /\ Part(b, words, n + 1) = List(Append(Part(b, words, n).seq, words[n + 1]))
               /\ Part(b, words, n).type \in {"none", "list"}
    <3>1. Append(q(n), words[n + 1]) = q(n + 1) BY <2>2, <2>7
    <3>2. List(q(n)).seq = q(n) /\ List(q(n)).type \in {"none", "list"} BY MadeIs
    <3>3. Part(b, words, n) = List(q(n)) /\ Part(b, words, n + 1) = List(q(n + 1)) BY <2>1
    <3> QED BY <3>1, <3>2, <3>3
  <2> QED BY <1>2, <1>3, <2>5, <2>6, <2>7
<1>4. CASE b.type = "set"
  <2> DEFINE q(n) == {words[i] : i \in 1..n}
  <2>1. \A n : Part(b, words, n) = Set(q(n)) BY <1>4 DEF Part
  <2>2. q(0) = {} OBVIOUS
  <2>3. q(Len(words)) = ToSet(words) BY <1>1 DEF ToSet
  <2>4. ASSUME NEW n \in Nat PROVE q(n) \cup {words[n + 1]} = q(n + 1)
    <3>1. \A i : i \in 1..(n + 1) <=> i \in 1..n \/ i = n + 1 OBVIOUS
    <3> QED BY <3>1
  <2> HIDE DEF q
  <2>5. ToSet(words) = b.set /\ b = Set(b.set) BY <1>4, TypedValue DEF Tells
  <2>6. Set({}) = Nothing BY DEF Set
  <2>7. Part(b, words, 0) = Nothing BY <2>1, <2>2, <2>6
  <2>8. Part(b, words, Len(words)) = b BY <2>1, <2>3, <2>5
  <2>9. ASSUME NEW n \in Nat
        PROVE  /\ Part(b, words, n + 1) = Set(Part(b, words, n).set \cup {words[n + 1]})
               /\ Part(b, words, n).type \in {"none", "set"}
    <3>1. q(n) \cup {words[n + 1]} = q(n + 1) BY <2>4
    <3>2. Set(q(n)).set = q(n) /\ Set(q(n)).type \in {"none", "set"} BY MadeIs
    <3>3. Part(b, words, n) = Set(q(n)) /\ Part(b, words, n + 1) = Set(q(n + 1)) BY <2>1
    <3> QED BY <3>1, <3>2, <3>3
  <2> QED BY <1>2, <1>4, <2>7, <2>8, <2>9
<1> QED BY <1>3, <1>4

-----------------------------------------------------------------------------
(* The commands of rename and smove                                        *)

\* A command of one key, as Run takes it apart.
LEMMA RunOnKey ==
  ASSUME NEW B, NEW k \in Keys
  PROVE  /\ Run(B, <<"TYPE", k>>) = TypeOf(B, k)
         /\ Run(B, <<"EXISTS", k>>) = Exists(B, k)
         /\ Run(B, <<"GET", k>>) = GetOf(B, k)
         /\ Run(B, <<"SMEMBERS", k>>) = Members(B, k)
         /\ Run(B, <<"LRANGE", k, "0", "-1">>) = Elements(B, k)
         /\ Run(B, <<"DEL", k>>) = DelOf(B, <<k>>)
<1>1. k \in STRING /\ {"0", "-1", "LRANGE", "TYPE", "EXISTS", "GET", "SMEMBERS", "DEL"} \subseteq STRING
  BY ZenonT(60), KeysAssumption, WordsAssumption
<1>2. ASSUME NEW v \in STRING
      PROVE  <<v, k>>[1] = v /\ Tail(<<v, k>>) = <<k>> /\ Tail(<<v, k>>)[1] = k
  BY <1>1
<1>3. Tail(<<"LRANGE", k, "0", "-1">>)[1] = k /\ <<"LRANGE", k, "0", "-1">>[1] = "LRANGE" BY <1>1
<1>4. Run(B, <<"TYPE", k>>) = TypeOf(B, k) BY <1>1, <1>2 DEF Run, Plain
<1>5. Run(B, <<"EXISTS", k>>) = Exists(B, k) BY <1>1, <1>2 DEF Run, Plain
<1>6. Run(B, <<"GET", k>>) = GetOf(B, k) BY <1>1, <1>2 DEF Run, Plain
<1>7. Run(B, <<"SMEMBERS", k>>) = Members(B, k) BY <1>1, <1>2 DEF Run, Plain
<1>8. Run(B, <<"LRANGE", k, "0", "-1">>) = Elements(B, k) BY <1>3 DEF Run, Plain
<1>9. Run(B, <<"DEL", k>>) = DelOf(B, <<k>>) BY <1>1, <1>2 DEF Run, Plain
<1> QED BY <1>4, <1>5, <1>6, <1>7, <1>8, <1>9

\* The commands on one key with a word, as Run takes them apart.
LEMMA RunWithWord ==
  ASSUME NEW B, NEW k \in Keys, NEW w \in STRING
  PROVE  /\ Run(B, <<"SET", k, w>>) = SetTo(B, k, w)
         /\ Run(B, <<"RPUSH", k, w>>) = Push(B, k, w)
         /\ Run(B, <<"SADD", k, w>>) = Change(B, "SADD", k, {w})
         /\ Run(B, <<"SREM", k, w>>) = Change(B, "SREM", k, {w})
<1>1. k \in STRING /\ {"SET", "RPUSH", "SADD", "SREM"} \subseteq STRING
  BY ZenonT(60), KeysAssumption, WordsAssumption
<1>2. ASSUME NEW v \in STRING
      PROVE  /\ <<v, k, w>>[1] = v /\ Tail(<<v, k, w>>)[1] = k /\ Tail(<<v, k, w>>)[2] = w
             /\ Tail(Tail(<<v, k, w>>)) = <<w>>
  BY <1>1
<1>3. ToSet(<<w>>) = {w} BY ToSetOne
<1>4. Run(B, <<"SET", k, w>>) = SetTo(B, k, w) BY <1>1, <1>2 DEF Run, Plain
<1>5. Run(B, <<"RPUSH", k, w>>) = Push(B, k, w) BY <1>1, <1>2 DEF Run, Plain
<1>6. Run(B, <<"SADD", k, w>>) = Change(B, "SADD", k, {w}) BY <1>1, <1>2, <1>3 DEF Run, Plain
<1>7. Run(B, <<"SREM", k, w>>) = Change(B, "SREM", k, {w}) BY <1>1, <1>2, <1>3 DEF Run, Plain
<1> QED BY <1>4, <1>5, <1>6, <1>7

\* The commands on two keys, as Run takes them apart.
LEMMA RunOnTwo ==
  ASSUME NEW B, NEW k \in Keys, NEW l \in Keys, NEW w \in STRING
  PROVE  /\ Run(B, <<"RENAME", k, l>>) = RenameTo(B, k, l)
         /\ Run(B, <<"RENAMENX", k, l>>) = RenameUnless(B, k, l)
         /\ Run(B, <<"SMOVE", k, l, w>>) = MoveMember(B, k, l, w)
<1>1. k \in STRING /\ l \in STRING /\ {"RENAME", "RENAMENX", "SMOVE"} \subseteq STRING
  BY ZenonT(60), KeysAssumption, WordsAssumption
<1>2. Tail(<<"SMOVE", k, l, w>>) = <<k, l, w>> BY <1>1
<1>3. Run(B, <<"RENAME", k, l>>) = RenameTo(B, k, l) BY <1>1 DEF Run, Plain
<1>4. Run(B, <<"RENAMENX", k, l>>) = RenameUnless(B, k, l) BY <1>1 DEF Run, Plain
<1>5. Run(B, <<"SMOVE", k, l, w>>) = MoveMember(B, k, l, w) BY <1>1, <1>2 DEF Run, Plain
<1> QED BY <1>3, <1>4, <1>5

\* A command that puts v at a key and leaves the other keys alone.
Puts(B, cmd, k, v) ==
  Run(B, cmd).db[k] = v /\ \A l \in Keys \ {k} : Run(B, cmd).db[l] = B[l]

\* A command that changes nothing changes nothing that the client sees.
LEMMA TurnsNone ==
  ASSUME NEW B, NEW cmd, NEW V, NEW W, NEW S, NEW s, Turns(B, cmd, s, V, W, S), Run(B, cmd).db = B
  PROVE  \A l \in Keys : W[l] = V[l]
BY DEF Turns

\* What the commands on one key tell and do.
LEMMA Told ==
  ASSUME NEW B \in Databases, NEW k \in Keys
  PROVE  /\ Run(B, <<"TYPE", k>>).db = B /\ Run(B, <<"TYPE", k>>).reply.words = <<B[k].type>>
         /\ Run(B, <<"EXISTS", k>>).db = B
         /\ Run(B, <<"GET", k>>).db = B
         /\ B[k].type = "string" => Run(B, <<"GET", k>>).reply.words = <<B[k].seq[1]>>
         /\ Run(B, <<"LRANGE", k, "0", "-1">>).db = B
         /\ B[k].type = "list" => Run(B, <<"LRANGE", k, "0", "-1">>).reply.words = B[k].seq
         /\ Run(B, <<"SMEMBERS", k>>).db = B
         /\ B[k].type = "set" => ToSet(Run(B, <<"SMEMBERS", k>>).reply.words) = B[k].set
<1>0. /\ Run(B, <<"TYPE", k>>) = TypeOf(B, k) /\ Run(B, <<"EXISTS", k>>) = Exists(B, k)
      /\ Run(B, <<"GET", k>>) = GetOf(B, k) /\ Run(B, <<"SMEMBERS", k>>) = Members(B, k)
      /\ Run(B, <<"LRANGE", k, "0", "-1">>) = Elements(B, k)
  BY RunOnKey
<1>1. IsFiniteSet(B[k].set) BY ValuesAre
<1>2. Run(B, <<"TYPE", k>>).db = B /\ Run(B, <<"TYPE", k>>).reply.words = <<B[k].type>>
  BY <1>0 DEF TypeOf, Answer, Reply
<1>3. Run(B, <<"EXISTS", k>>).db = B BY <1>0 DEF Exists, Answer
<1>4. Run(B, <<"GET", k>>).db = B BY <1>0 DEF GetOf, Answer
<1>5. B[k].type = "string" => Run(B, <<"GET", k>>).reply.words = <<B[k].seq[1]>>
  BY <1>0 DEF GetOf, Answer, Bulk, Reply, Has, IsOf
<1>6. Run(B, <<"LRANGE", k, "0", "-1">>).db = B BY <1>0 DEF Elements, Answer
<1>7. B[k].type = "list" => Run(B, <<"LRANGE", k, "0", "-1">>).reply.words = B[k].seq
  BY <1>0 DEF Elements, Answer, Multi, Reply, IsOf
<1>8. Run(B, <<"SMEMBERS", k>>).db = B BY <1>0 DEF Members, Answer
<1>9. B[k].type = "set" => Run(B, <<"SMEMBERS", k>>).reply.words = SetToSeq(B[k].set)
  BY <1>0 DEF Members, Answer, Multi, Reply, IsOf
<1> QED BY <1>1, <1>2, <1>3, <1>4, <1>5, <1>6, <1>7, <1>8, <1>9, SetToSeqHas

\* What the commands that write do to their key, and that they leave the
\* others.
LEMMA Wrote ==
  ASSUME NEW B \in Databases, NEW k \in Keys, NEW w \in STRING
  PROVE  /\ Puts(B, <<"DEL", k>>, k, Nothing)
         /\ Puts(B, <<"SET", k, w>>, k, Str(w))
         /\ IsOf(B, k, "list") => Puts(B, <<"RPUSH", k, w>>, k, List(Append(B[k].seq, w)))
         /\ IsOf(B, k, "set") => Puts(B, <<"SADD", k, w>>, k, Set(B[k].set \cup {w}))
         /\ IsOf(B, k, "set") => Puts(B, <<"SREM", k, w>>, k, Set(B[k].set \ {w}))
<1>1. B \in [Keys -> ValueSet] BY DEF Databases
<1>2. ASSUME NEW cmd, NEW v, NEW r, Run(B, cmd) = Answer([B EXCEPT ![k] = v], r)
      PROVE  Puts(B, cmd, k, v)
  BY <1>1, <1>2 DEF Puts, Answer
<1>3. Puts(B, <<"DEL", k>>, k, Nothing)
  <2>1. ToSet(<<k>>) = {k} BY ToSetOne
  <2>2. Run(B, <<"DEL", k>>).db = [l \in Keys |-> IF l \in {k} THEN Nothing ELSE B[l]]
    <3>1. Run(B, <<"DEL", k>>) = DelOf(B, <<k>>) BY RunOnKey
    <3> QED BY <2>1, <3>1 DEF DelOf, Answer
  <2> QED BY <2>2 DEF Puts
<1>4. Puts(B, <<"SET", k, w>>, k, Str(w)) BY <1>2, RunWithWord DEF SetTo
<1>5. IsOf(B, k, "list") => Puts(B, <<"RPUSH", k, w>>, k, List(Append(B[k].seq, w)))
  BY <1>2, RunWithWord, ZenonT(60) DEF Push
<1>6. IsOf(B, k, "set") => Puts(B, <<"SADD", k, w>>, k, Set(B[k].set \cup {w}))
  BY <1>2, RunWithWord DEF Change, OnSet
<1>7. IsOf(B, k, "set") => Puts(B, <<"SREM", k, w>>, k, Set(B[k].set \ {w}))
  BY <1>2, RunWithWord DEF Change, OnSet
<1> QED BY <1>3, <1>4, <1>5, <1>6, <1>7

-----------------------------------------------------------------------------
(* The rounds of a rename between servers                                  *)

\* What it asks when h are the replies, for each type.
Rest(c, h) == Script(Copy(c, h), Len(h) - 1, Void)

\* The rounds of a script, and its end.
LEMMA ScriptAt ==
  ASSUME NEW q, NEW n \in Nat \ {0}, Len(q) \in Nat
  PROVE  Script(q, n - 1, Void) = IF n <= Len(q) THEN q[n] ELSE Done(Void)
BY DEF Script

\* The rounds of a copy of a string: it is read, written and deleted.
LEMMA CopiesText ==
  ASSUME NEW c, c.old \in Keys, c.new \in Keys, NEW h \in Seq(Seq(Replies)), h # <<>>,
         h[1][1].words[1] = "string"
  PROVE  /\ Len(h) = 1 => Copy(c, h)[1] = Ask(c.old, <<"GET", c.old>>, "bulk")
         /\ Len(h) = 2 => Rest(c, h) = Ask(c.new, <<"SET", c.new, h[2][1].words[1]>>, "ok")
         /\ Len(h) = 3 => Rest(c, h) = Ask(c.old, <<"DEL", c.old>>, "int")
         /\ Len(h) > 3 => Rest(c, h) = Done(Void)
<1> DEFINE w == h[2][1].words[1]
           a == Ask(c.old, <<"GET", c.old>>, "bulk")
           x == Ask(c.new, <<"SET", c.new, w>>, "ok")
           d == Ask(c.old, <<"DEL", c.old>>, "int")
<1>1. Len(h) \in Nat \ {0} BY SeqFacts
<1>2. Copy(c, h) = <<a>> \o (IF Len(h) < 2 THEN <<>> ELSE <<x>> \o <<d>>) BY DEF Copy
<1>3. ASSUME Len(h) = 1 PROVE Copy(c, h)[1] = a
  <2>1. Copy(c, h) = <<a>> \o <<>> BY <1>2, <1>3
  <2> HIDE DEF a
  <2>2. <<>> \in Seq({a}) /\ a \in {a} BY EmptySeq
  <2> QED BY <2>1, <2>2, Prefixed
<1>4. ASSUME Len(h) > 1
      PROVE  /\ Len(h) = 2 => Rest(c, h) = x
             /\ Len(h) = 3 => Rest(c, h) = d
             /\ Len(h) > 3 => Rest(c, h) = Done(Void)
  <2>1. Copy(c, h) = <<a>> \o (<<x>> \o <<d>>) BY <1>1, <1>2, <1>4
  <2> DEFINE S == {a, x, d}
             e == <<d>>
             r == <<x>> \o e
  <2> HIDE DEF a, x, d
  <2>2. e \in Seq(S) /\ Len(e) = 1 /\ e[1] = d BY OneElement
  <2> HIDE DEF e
  <2>3. r \in Seq(S) /\ Len(r) = 2 /\ r[1] = x /\ r[2] = d
    <3>1. x \in S OBVIOUS
    <3> HIDE DEF S
    <3>0. e \in Seq(S) BY <2>2
    <3>2. /\ r \in Seq(S) /\ Len(r) = Len(e) + 1 /\ r[1] = x
          /\ \A i \in 1..Len(e) : r[i + 1] = e[i]
      BY <3>0, <3>1, Prefixed
    <3> HIDE DEF r
    <3>3. 1 \in 1..Len(e) BY <2>2
    <3>4. r[1 + 1] = e[1] BY <3>2, <3>3
    <3> QED BY <2>2, <3>2, <3>4
  <2> HIDE DEF r
  <2>4. Copy(c, h) = <<a>> \o r BY <2>1 DEF r, e
  <2> DEFINE q == <<a>> \o r
  <2>5. Len(q) = 3 /\ q[2] = x /\ q[3] = d
    <3>1. a \in S OBVIOUS
    <3> HIDE DEF S
    <3>0. r \in Seq(S) BY <2>3
    <3>2. q \in Seq(S) /\ Len(q) = Len(r) + 1 /\ \A i \in 1..Len(r) : q[i + 1] = r[i]
      BY <3>0, <3>1, Prefixed
    <3> HIDE DEF q
    <3>3. 1 \in 1..Len(r) /\ 2 \in 1..Len(r) BY <2>3
    <3>4. q[1 + 1] = r[1] /\ q[2 + 1] = r[2] BY <3>2, <3>3
    <3> QED BY <2>3, <3>2, <3>4
  <2> HIDE DEF q
  <2>6. Copy(c, h) = q BY <2>4 DEF q
  <2> DEFINE n == Len(h)
  <2>7. Rest(c, h) = IF n <= Len(q) THEN q[n] ELSE Done(Void)
    <3>1. n \in Nat \ {0} /\ Len(q) \in Nat BY <1>1, <2>5
    <3>2. Rest(c, h) = Script(q, n - 1, Void) BY <2>6 DEF Rest
    <3> HIDE DEF n
    <3> QED BY <3>1, <3>2, ScriptAt
  <2>8. n \in Nat BY <1>1
  <2> HIDE DEF n
  <2>9. /\ n = 2 => Rest(c, h) = x
        /\ n = 3 => Rest(c, h) = d
        /\ n > 3 => Rest(c, h) = Done(Void)
    BY <2>5, <2>7, <2>8
  <2> QED BY <2>9 DEF n
<1> HIDE DEF a, x, d
<1>5. Len(h) > 3 => Len(h) > 1 BY <1>1
<1> QED BY <1>1, <1>3, <1>4, <1>5 DEF a, x, d

Reader(c, type) == IF type = "list" THEN <<"LRANGE", c.old, "0", "-1">> ELSE <<"SMEMBERS", c.old>>
Adder(type)     == IF type = "list" THEN "RPUSH" ELSE "SADD"

\* The rounds of a copy of a list or a set: it is read, written part by
\* part under the new name after that has been deleted, and deleted.
LEMMA CopiesParts ==
  ASSUME NEW c, c.old \in Keys, c.new \in Keys, NEW h \in Seq(Seq(Replies)), h # <<>>,
         NEW type \in {"list", "set"}, h[1][1].words[1] = type
  PROVE  /\ Len(h) = 1 => Copy(c, h)[1] = Ask(c.old, Reader(c, type), "multi")
         /\ \A words \in Seq(STRING) : words = h[2][1].words =>
              /\ Len(h) = 2 => Rest(c, h) = Ask(c.new, <<"DEL", c.new>>, "int")
              /\ \A i \in 1..Len(words) : Len(h) = i + 2 =>
                   Rest(c, h) = Ask(c.new, <<Adder(type), c.new, words[i]>>, "int")
              /\ Len(h) = Len(words) + 3 => Rest(c, h) = Ask(c.old, <<"DEL", c.old>>, "int")
              /\ Len(h) > Len(words) + 3 => Rest(c, h) = Done(Void)
<1> DEFINE words == h[2][1].words
           a == Ask(c.old, Reader(c, type), "multi")
           x == Ask(c.new, <<"DEL", c.new>>, "int")
           y == [i \in DOMAIN words |-> Ask(c.new, <<Adder(type), c.new, words[i]>>, "int")]
           d == Ask(c.old, <<"DEL", c.old>>, "int")
<1>1. Len(h) \in Nat \ {0} BY SeqFacts
<1>2. Copy(c, h) = <<a>> \o (IF Len(h) < 2 THEN <<>> ELSE <<x>> \o y \o <<d>>)
  <2>1. CASE type = "list" BY <2>1 DEF Copy, Reader, Adder
  <2>2. CASE type = "set" BY <2>2 DEF Copy, Reader, Adder
  <2> QED BY <2>1, <2>2
<1>3. ASSUME Len(h) = 1 PROVE Copy(c, h)[1] = a
  <2>1. Copy(c, h) = <<a>> \o <<>> BY <1>2, <1>3
  <2> HIDE DEF a
  <2>2. <<>> \in Seq({a}) /\ a \in {a} BY EmptySeq
  <2> QED BY <2>1, <2>2, Prefixed
<1>4. ASSUME words \in Seq(STRING), Len(h) > 1
      PROVE  /\ Len(h) = 2 => Rest(c, h) = x
             /\ \A i \in 1..Len(words) : Len(h) = i + 2 => Rest(c, h) = y[i]
             /\ Len(h) = Len(words) + 3 => Rest(c, h) = d
             /\ Len(h) > Len(words) + 3 => Rest(c, h) = Done(Void)
             /\ \A i \in 1..Len(words) : y[i] = Ask(c.new, <<Adder(type), c.new, words[i]>>, "int")
  <2>0. Len(words) \in Nat /\ DOMAIN words = 1..Len(words)
    <3> HIDE DEF words
    <3> QED BY <1>4, SeqFacts
  <2>1. Copy(c, h) = <<a>> \o (<<x>> \o y \o <<d>>)
    <3>1. ~(Len(h) < 2) BY <1>1, <1>4
    <3> HIDE DEF a, x, y, d, words
    <3> QED BY Zenon, <1>2, <3>1
  <2>2. \A i \in 1..Len(words) : y[i] = Ask(c.new, <<Adder(type), c.new, words[i]>>, "int")
    <3> HIDE DEF words
    <3> QED BY <2>0
  <2> DEFINE n == Len(words)
             S == {a, x, d} \cup {y[i] : i \in 1..n}
             q == <<a>> \o (<<x>> \o y \o <<d>>)
  <2>3. y \in [1..n -> S]
    <3>1. DOMAIN y = 1..n /\ y = [i \in DOMAIN y |-> y[i]] BY <2>0
    <3> HIDE DEF y, a, x, d, words
    <3> QED BY <3>1
  <2> HIDE DEF a, x, d, y
  <2>4. a \in S /\ x \in S /\ d \in S OBVIOUS
  <2>5. y \in Seq(S) /\ Len(y) = n
    <3> HIDE DEF S, words
    <3> QED BY <2>0, <2>3, ListIs
  <2>6. /\ Len(q) = Len(y) + 3 /\ q[2] = x /\ q[Len(y) + 3] = d
        /\ \A i \in 1..Len(y) : q[i + 2] = y[i]
    <3> HIDE DEF S, words
    <3> QED BY <2>4, <2>5, Around
  <2>7. Copy(c, h) = q BY <2>1
  <2> HIDE DEF q, words, S
  <2>8. Rest(c, h) = IF Len(h) <= Len(q) THEN q[Len(h)] ELSE Done(Void)
    <3> DEFINE l == Len(h)
    <3>1. l \in Nat \ {0} /\ Len(q) \in Nat BY <1>1, <2>0, <2>5, <2>6
    <3>2. Rest(c, h) = Script(q, l - 1, Void) BY <2>7 DEF Rest
    <3> HIDE DEF l
    <3>3. Rest(c, h) = IF l <= Len(q) THEN q[l] ELSE Done(Void) BY <3>1, <3>2, ScriptAt
    <3> QED BY <3>3 DEF l
  <2> DEFINE l == Len(h)
  <2>9. l \in Nat /\ n \in Nat /\ Len(q) = n + 3 BY <1>1, <2>0, <2>5, <2>6
  <2>10. Rest(c, h) = IF l <= n + 3 THEN q[l] ELSE Done(Void) BY <2>8, <2>9
  <2>11. q[2] = x /\ q[n + 3] = d /\ \A i \in 1..n : q[i + 2] = y[i] BY <2>5, <2>6
  <2> HIDE DEF l, n
  <2>12. (l = 2 => Rest(c, h) = x) /\ (l = n + 3 => Rest(c, h) = d) /\ (l > n + 3 => Rest(c, h) = Done(Void))
    BY <2>9, <2>10, <2>11
  <2>13. \A i \in 1..n : l = i + 2 => Rest(c, h) = y[i] BY <2>9, <2>10, <2>11
  <2> QED BY <2>2, <2>12, <2>13 DEF l, n
<1>5. ASSUME words \in Seq(STRING)
      PROVE  (Len(h) > Len(words) + 3 => Len(h) > 1) /\ \A i \in 1..Len(words) : Len(h) = i + 2 => Len(h) > 1
  <2> HIDE DEF words
  <2>1. Len(words) \in Nat BY <1>5, SeqFacts
  <2> QED BY <1>1, <2>1
<1>6. words \in Seq(STRING) => Len(words) \in Nat
  <2> HIDE DEF words
  <2> QED BY SeqFacts
<1> HIDE DEF a, x, d, y
<1>7. Len(h) = 1 => Copy(c, h)[1] = Ask(c.old, Reader(c, type), "multi") BY <1>3 DEF a
<1>8. ASSUME NEW ws \in Seq(STRING), ws = h[2][1].words
      PROVE  /\ Len(h) = 2 => Rest(c, h) = Ask(c.new, <<"DEL", c.new>>, "int")
             /\ \A i \in 1..Len(ws) : Len(h) = i + 2 =>
                  Rest(c, h) = Ask(c.new, <<Adder(type), c.new, ws[i]>>, "int")
             /\ Len(h) = Len(ws) + 3 => Rest(c, h) = Ask(c.old, <<"DEL", c.old>>, "int")
             /\ Len(h) > Len(ws) + 3 => Rest(c, h) = Done(Void)
  <2>1. ws = words /\ words \in Seq(STRING) BY <1>8
  <2>2. Len(h) = 2 => Rest(c, h) = x BY <1>4, <2>1
  <2>3. ASSUME NEW i \in 1..Len(ws), Len(h) = i + 2
        PROVE  Rest(c, h) = Ask(c.new, <<Adder(type), c.new, ws[i]>>, "int")
    <3>1. Len(h) > 1 BY <1>5, <2>1, <2>3
    <3>2. Rest(c, h) = y[i] /\ y[i] = Ask(c.new, <<Adder(type), c.new, words[i]>>, "int")
      BY <1>4, <2>1, <2>3, <3>1
    <3> QED BY <2>1, <3>2
  <2>4. Len(h) = Len(ws) + 3 => Rest(c, h) = d
    <3>1. Len(h) = Len(ws) + 3 => Len(h) > 1 BY <1>6, <2>1
    <3> QED BY <1>4, <2>1, <3>1
  <2>5. Len(h) > Len(ws) + 3 => Rest(c, h) = Done(Void) BY <1>4, <1>5, <2>1
  <2> QED BY <2>2, <2>3, <2>4, <2>5 DEF x, d
<1> HIDE DEF words
<1> QED BY <1>7, <1>8

\* What has been learned of a value, reply by reply.
LEMMA CopiedMore ==
  ASSUME NEW c, NEW b, NEW h \in Seq(Seq(Replies)), NEW V, Copied(c, b, h, V),
         NEW W, W[c.old] = b, NEW r \in Replies,
         \/ Len(h) = 0 /\ r.words[1] = b.type
         \/ Len(h) = 1 /\ b.type \in {"string", "list", "set"} /\ Tells(b, r.words)
         \/ /\ Len(h) > 1 /\ Len(h) < Written(b, h) /\ Written(b, h) \in Nat
            /\ W[c.new] = Part(b, h[2][1].words, Len(h) - 2)
  PROVE  Copied(c, b, Append(h, <<r>>), W)
<1> DEFINE e == Append(h, <<r>>)
           n == Len(h)
<1>1. /\ n \in Nat /\ Len(e) = n + 1 /\ (n > 0 => e[1] = h[1]) /\ (n > 1 => e[2] = h[2])
      /\ (n = 0 => e[1] = <<r>>) /\ (n = 1 => e[2] = <<r>>) /\ <<r>>[1] = r
  BY SMTT(60), OneMoreList
<1>2. /\ n > 0 => h[1][1].words[1] = b.type
      /\ n > 1 => Kind(b, h) /\ Tells(b, h[2][1].words)
  BY DEF Copied
<1> HIDE DEF e, n
<1>3. Len(e) > 0 => e[1][1].words[1] = b.type
  <2>1. CASE n = 0
    <3>1. e[1][1] = r BY <1>1, <2>1
    <3>2. r.words[1] = b.type BY <2>1 DEF n
    <3> QED BY <3>1, <3>2
  <2>2. CASE n > 0
    <3>1. e[1] = h[1] BY <1>1, <2>2
    <3> QED BY <1>2, <2>2, <3>1
  <2> QED BY <1>1, <2>1, <2>2
<1>4. Len(e) > 1 => Kind(b, e) /\ Tells(b, e[2][1].words)
  <2>1. CASE n = 1
    <3>1. e[2][1] = r BY <1>1, <2>1
    <3>2. b.type \in {"string", "list", "set"} /\ Tells(b, r.words) BY <2>1 DEF n
    <3> QED BY <1>1, <1>3, <2>1, <3>1, <3>2 DEF Kind
  <2>2. CASE n > 1
    <3>1. e[1] = h[1] /\ e[2] = h[2] BY <1>1, <2>2
    <3> QED BY <1>2, <2>2, <3>1 DEF Kind
  <2> QED BY <1>1, <2>1, <2>2
<1>5. Len(e) > 2 => W[c.new] = Part(b, e[2][1].words, Len(e) - 3) /\ Len(e) <= Written(b, e)
  <2> SUFFICES ASSUME n > 1
               PROVE  W[c.new] = Part(b, e[2][1].words, Len(e) - 3) /\ Len(e) <= Written(b, e)
    BY <1>1
  <2>1. e[2] = h[2] /\ Len(e) - 3 = n - 2 BY <1>1
  <2>2. Written(b, e) = Written(b, h) BY <2>1 DEF Written
  <2>3. n < Written(b, h) /\ Written(b, h) \in Nat /\ W[c.new] = Part(b, h[2][1].words, n - 2)
    BY <1>1 DEF n
  <2>4. n + 1 <= Written(b, h) BY <1>1, <2>3
  <2> QED BY <1>1, <2>1, <2>2, <2>3, <2>4
<1> QED BY <1>3, <1>4, <1>5 DEF Copied, e

\* After the last command the copy is over, whatever the reply.
LEMMA OverThen ==
  ASSUME NEW c, NEW b, NEW h \in Seq(Seq(Replies)), NEW V, Copied(c, b, h, V), NEW r \in Replies,
         Len(h) > 2, Len(h) = Written(b, h)
  PROVE  Over(b, Append(h, <<r>>))
<1> DEFINE e == Append(h, <<r>>)
           n == Len(h)
<1>1. n \in Nat /\ Len(e) = n + 1 /\ (n > 0 => e[1] = h[1]) /\ (n > 1 => e[2] = h[2])
  BY OneMoreList
<1>2. n > 2 /\ n = Written(b, h) OBVIOUS
<1>3. Kind(b, h)
  <2>1. Len(h) > 1 BY <1>1, <1>2
  <2> QED BY <2>1 DEF Copied
<1> HIDE DEF e, n
<1>4. e[1] = h[1] /\ e[2] = h[2] /\ Len(e) > 2 /\ Len(e) > n BY <1>1, <1>2
<1>5. Written(b, e) = n BY <1>2, <1>4 DEF Written
<1>6. Kind(b, e) BY <1>3, <1>4 DEF Kind
<1> QED BY <1>4, <1>5, <1>6 DEF Over, e

\* What a command of the copy must not break.
Stays(c, b, h, V, k, cmd) ==
  \A B, W \in Databases :
    Turns(B, cmd, Socks[k], V, W, Socks) =>
      (W[c.old] = b \/ W[c.new] = b) /\ Copying(c, b, Append(h, <<Run(B, cmd).reply>>), W)

CopyGoes(p, c, b, h, V) ==
  \E k \in Keys, cmd \in Plainly, how \in Readers \ {"bye"} :
    p = Ask(k, cmd, how) /\ Stays(c, b, h, V, k, cmd)

\* A command that keeps the copy going is one for it to ask.
LEMMA Goes ==
  ASSUME NEW p, NEW c, NEW b, NEW h, NEW V, NEW k \in Keys, NEW cmd \in Plainly,
         NEW how \in {"ok", "line", "int", "intok", "bulk", "multi"}, p = Ask(k, cmd, how),
         Stays(c, b, h, V, k, cmd)
  PROVE  CopyGoes(p, c, b, h, V)
<1>1. how \in Readers \ {"bye"} BY DEF Readers
<1> QED BY <1>1 DEF CopyGoes

\* It asks for the type, and for the value.
LEMMA CopyReads ==
  ASSUME NEW c, c.old \in Keys, c.new \in Keys, NEW b \in ValueSet, NEW V \in Databases,
         NEW h \in Seq(Seq(Replies)), Copied(c, b, h, V), Len(h) \in {0, 1},
         Len(h) = 1 => b.type \in {"string", "list", "set"}, NEW cmd \in Plainly,
         \/ Len(h) = 0 /\ cmd = <<"TYPE", c.old>>
         \/ Len(h) = 1 /\ b.type = "string" /\ cmd = <<"GET", c.old>>
         \/ Len(h) = 1 /\ b.type \in {"list", "set"} /\ cmd = Reader(c, b.type)
  PROVE  Stays(c, b, h, V, c.old, cmd)
<1> SUFFICES ASSUME NEW B \in Databases, NEW W \in Databases,
                    Turns(B, cmd, Socks[c.old], V, W, Socks)
             PROVE  W[c.old] = b /\ Copied(c, b, Append(h, <<Run(B, cmd).reply>>), W)
  BY DEF Stays, Copying
<1> DEFINE r == Run(B, cmd).reply
<1>1. V[c.old] = b BY DEF Copied
<1>2. B[c.old] = b BY <1>1 DEF Turns
<1>3. r \in Replies BY RunIs DEF Answered
<1>4. Run(B, cmd).db = B
  <2>1. Run(B, <<"TYPE", c.old>>).db = B /\ Run(B, <<"GET", c.old>>).db = B BY Told
  <2>2. CASE cmd = Reader(c, b.type) BY <2>2, Told DEF Reader
  <2> QED BY <2>1, <2>2
<1>5. W[c.old] = b BY <1>1, <1>4, TurnsNone
<1>6. Len(h) = 0 => r.words[1] = b.type
  <2> SUFFICES ASSUME Len(h) = 0 PROVE r.words[1] = b.type OBVIOUS
  <2>1. cmd = <<"TYPE", c.old>> OBVIOUS
  <2>2. r.words = <<B[c.old].type>> BY <2>1, Told
  <2> QED BY <1>2, <2>2
<1>7. Len(h) = 1 => Tells(b, r.words)
  <2> SUFFICES ASSUME Len(h) = 1 PROVE Tells(b, r.words) OBVIOUS
  <2>1. CASE b.type = "string"
    <3>1. cmd = <<"GET", c.old>> BY <2>1
    <3>2. r.words = <<B[c.old].seq[1]>> BY <1>2, <2>1, <3>1, Told
    <3>3. b.seq = <<b.seq[1]>> BY <2>1, TypedValue
    <3> QED BY <1>2, <2>1, <3>2, <3>3 DEF Tells
  <2>2. CASE b.type = "list"
    <3>1. cmd = <<"LRANGE", c.old, "0", "-1">> BY <2>2 DEF Reader
    <3>2. r.words = B[c.old].seq BY <1>2, <2>2, <3>1, Told
    <3> QED BY <1>2, <2>2, <3>2 DEF Tells
  <2>3. CASE b.type = "set"
    <3>1. cmd = <<"SMEMBERS", c.old>> BY <2>3 DEF Reader
    <3>2. ToSet(r.words) = B[c.old].set BY <1>2, <2>3, <3>1, Told
    <3> QED BY <1>2, <2>3, <3>2 DEF Tells
  <2> QED BY <2>1, <2>2, <2>3
<1> HIDE DEF r
<1>8. Copied(c, b, Append(h, <<r>>), W) BY <1>3, <1>5, <1>6, <1>7, CopiedMore
<1> QED BY <1>5, <1>8 DEF r

\* It writes a part of the value at the new key.
LEMMA CopyWrites ==
  ASSUME NEW c, c.old \in Keys, c.new \in Keys, c.old # c.new, NEW b, NEW V \in Databases,
         NEW h \in Seq(Seq(Replies)), Copied(c, b, h, V), Len(h) > 1, Len(h) < Written(b, h),
         Written(b, h) \in Nat, NEW cmd \in Plainly,
         \A B \in Databases : B[c.new] = V[c.new] =>
           Puts(B, cmd, c.new, Part(b, h[2][1].words, Len(h) - 2))
  PROVE  Stays(c, b, h, V, c.new, cmd)
<1> SUFFICES ASSUME NEW B \in Databases, NEW W \in Databases,
                    Turns(B, cmd, Socks[c.new], V, W, Socks)
             PROVE  W[c.old] = b /\ Copied(c, b, Append(h, <<Run(B, cmd).reply>>), W)
  BY DEF Stays, Copying
<1> DEFINE r == Run(B, cmd).reply
           v == Part(b, h[2][1].words, Len(h) - 2)
<1>1. V[c.old] = b BY DEF Copied
<1>2. B[c.new] = V[c.new] BY DEF Turns
<1>3. r \in Replies BY RunIs DEF Answered
<1>4. Puts(B, cmd, c.new, v) BY <1>2
<1> HIDE DEF r, v
<1>5. W[c.new] = v /\ W[c.old] = V[c.old]
  <2>1. W[c.new] = v /\ \A l \in Keys \ {c.new} : W[l] = V[l] BY <1>4 DEF Turns, Puts
  <2> QED BY <2>1
<1>6. W[c.old] = b BY <1>1, <1>5
<1>7. Copied(c, b, Append(h, <<r>>), W)
  <2>1. W[c.new] = Part(b, h[2][1].words, Len(h) - 2) BY <1>5 DEF v
  <2> QED BY <1>3, <1>6, <2>1, CopiedMore
<1> QED BY <1>6, <1>7 DEF r

\* It deletes the old key, when the new one has the value.
LEMMA CopyDeletes ==
  ASSUME NEW c, c.old \in Keys, c.new \in Keys, c.old # c.new, NEW b, NEW V \in Databases,
         NEW h \in Seq(Seq(Replies)), Copied(c, b, h, V), Len(h) > 2, Len(h) = Written(b, h),
         V[c.new] = b
  PROVE  Stays(c, b, h, V, c.old, <<"DEL", c.old>>)
<1> DEFINE cmd == <<"DEL", c.old>>
<1> SUFFICES ASSUME NEW B \in Databases, NEW W \in Databases,
                    Turns(B, cmd, Socks[c.old], V, W, Socks)
             PROVE  W[c.new] = b /\ Over(b, Append(h, <<Run(B, cmd).reply>>))
  BY DEF Stays, Copying
<1> DEFINE r == Run(B, cmd).reply
<1>1. cmd \in Plainly BY OnePlain
<1>2. Puts(B, cmd, c.old, Nothing)
  <2>1. "DEL" \in STRING BY Zenon, WordsAssumption
  <2> QED BY <2>1, Wrote
<1> HIDE DEF cmd
<1>3. r \in Replies BY <1>1, RunIs DEF Answered
<1>4. \A l \in Keys \ {c.old} : W[l] = V[l] BY <1>2 DEF Turns, Puts
<1>5. W[c.new] = b BY <1>4
<1> HIDE DEF r
<1>6. Over(b, Append(h, <<r>>)) BY <1>3, OverThen
<1> QED BY <1>5, <1>6 DEF r

\* The replies are sequences of strings.
LEMMA RepliesAre ==
  ASSUME NEW h \in Seq(Seq(Replies)), \A n \in 1..Len(h) : h[n] # <<>>, NEW n \in 1..Len(h)
  PROVE  h[n] \in Seq(Replies) /\ h[n][1] \in Replies /\ h[n][1].words \in Seq(STRING)
<1> DEFINE x == h[n]
<1>1. x \in Seq(Replies) /\ x # <<>> BY SeqFacts
<1> HIDE DEF x
<1>2. x[1] \in Replies BY <1>1, SeqFacts
<1>3. x[1].words \in Seq(STRING) BY <1>2 DEF Replies
<1> QED BY <1>1, <1>2, <1>3 DEF x

\* While the copy is under way, rename goes on with it or ends.
LEMMA CopyStep ==
  ASSUME NEW c, c.old \in Keys, c.new \in Keys, Sock(c.old) # Sock(c.new),
         NEW b \in ValueSet, b.type # "none", NEW V \in Databases,
         NEW h \in Seq(Seq(Replies)), \A n \in 1..Len(h) : h[n] # <<>>, Copied(c, b, h, V),
         Rename(c, h).do = "round"
  PROVE  CopyGoes(Rename(c, h), c, b, h, V)
<1> DEFINE n == Len(h)
           words == h[2][1].words
<1>1. n \in Nat /\ ((h = <<>>) <=> (n = 0)) BY SeqFacts
<1>2. c.old # c.new OBVIOUS
<1>3. CASE n = 0
  <2>1. Rename(c, h) = Ask(c.old, <<"TYPE", c.old>>, "line") BY <1>1, <1>3 DEF Rename
  <2>2. <<"TYPE", c.old>> \in Plainly BY OnePlain
  <2>3. Stays(c, b, h, V, c.old, <<"TYPE", c.old>>)
    <3> DEFINE cmd == <<"TYPE", c.old>>
    <3>1. cmd \in Plainly /\ cmd = <<"TYPE", c.old>> BY <2>2
    <3> HIDE DEF cmd
    <3>2. Len(h) = 0 /\ Len(h) \in {0, 1} /\ Len(h) # 1 BY <1>3
    <3>3. Stays(c, b, h, V, c.old, cmd) BY <3>1, <3>2, CopyReads
    <3> QED BY <3>3 DEF cmd
  <2> QED BY <2>1, <2>2, <2>3, Goes
<1>4. ASSUME n > 0
      PROVE  /\ h[1][1].words[1] = b.type /\ b.type \in {"string", "list", "set"} /\ h # <<>>
             /\ n = 1 => Rename(c, h) = Copy(c, h)[1]
             /\ n > 1 => Rename(c, h) = Rest(c, h)
  <2>1. h[1][1].words[1] = b.type /\ h # <<>> BY <1>1, <1>4 DEF Copied
  <2>2. ASSUME b.type \notin {"string", "list", "set"} PROVE FALSE
    <3>1. Rename(c, h) = Refuse BY <2>1, <2>2 DEF Rename
    <3> QED BY <3>1, DoneIs
  <2>3. b.type \in {"string", "list", "set"} BY <2>2
  <2>4. Rename(c, h) = IF Len(h) = 1 THEN Copy(c, h)[1] ELSE Rest(c, h)
    BY <2>1, <2>3 DEF Rename, Rest
  <2> QED BY SMTT(60), <1>1, <2>1, <2>3, <2>4
<1>5. CASE n = 1 /\ b.type = "string"
  <2>0. Len(h) = 1 /\ n > 0 /\ b.type = "string" BY <1>5
  <2>a. h # <<>> /\ h[1][1].words[1] = "string" /\ Rename(c, h) = Copy(c, h)[1] BY <1>4, <1>5, <2>0
  <2>1. Rename(c, h) = Ask(c.old, <<"GET", c.old>>, "bulk") BY <2>0, <2>a, CopiesText
  <2> DEFINE cmd == <<"GET", c.old>>
  <2>2. cmd \in Plainly BY OnePlain
  <2>3. cmd = <<"GET", c.old>> OBVIOUS
  <2> HIDE DEF cmd
  <2>4. Stays(c, b, h, V, c.old, cmd) BY <1>5, <2>2, <2>3, CopyReads
  <2> QED BY <2>1, <2>2, <2>3, <2>4, Goes
<1>6. CASE n = 1 /\ b.type # "string"
  <2>a. Len(h) = 1 /\ n > 0 /\ b.type # "string" BY <1>6
  <2>b. h # <<>> /\ h[1][1].words[1] = b.type /\ Rename(c, h) = Copy(c, h)[1] BY <1>4, <1>6, <2>a
  <2>0. b.type \in {"list", "set"} BY <1>4, <2>a
  <2>1. Rename(c, h) = Ask(c.old, Reader(c, b.type), "multi") BY <2>0, <2>a, <2>b, CopiesParts
  <2>2. Reader(c, b.type) \in Plainly
    <3>1. "RPUSH" \in STRING BY Zenon, WordsAssumption
    <3> QED BY <3>1, OnePlain, PairPlain DEF Reader
  <2>4. Stays(c, b, h, V, c.old, Reader(c, b.type)) BY <1>6, <2>0, <2>2, CopyReads
  <2> QED BY <2>1, <2>2, <2>4, Goes
<1>7. ASSUME n > 1
      PROVE  /\ words \in Seq(STRING) /\ Tells(b, words) /\ Kind(b, h)
             /\ n > 2 => V[c.new] = Part(b, words, n - 3) /\ n <= Written(b, h)
             /\ Written(b, h) \in Nat
             /\ b.type = "string" => Written(b, h) = 3
             /\ b.type # "string" => Written(b, h) = Len(words) + 3
  <2>1. 2 \in 1..Len(h) BY <1>1, <1>7
  <2>2. words \in Seq(STRING) BY <2>1, RepliesAre
  <2>3. Tells(b, words) /\ Kind(b, h) /\ (n > 2 => V[c.new] = Part(b, words, n - 3) /\ n <= Written(b, h))
    BY <1>7 DEF Copied
  <2>4. Written(b, h) = IF b.type = "string" THEN 3 ELSE Len(words) + 3 BY DEF Written
  <2> HIDE DEF words
  <2>5. Len(words) \in Nat BY <2>2, SeqFacts
  <2> QED BY <2>2, <2>3, <2>4, <2>5
<1>8. CASE n > 1 /\ b.type = "string"
  <2>1. /\ Rename(c, h) = Rest(c, h) /\ h # <<>> /\ h[1][1].words[1] = "string" /\ Tells(b, words)
        /\ Written(b, h) = 3 /\ n \in {2, 3}
    <3>1. n \in Nat /\ n > 1 /\ n > 0 /\ b.type = "string" BY <1>1, <1>8
    <3>2. /\ Rename(c, h) = Rest(c, h) /\ h # <<>> /\ h[1][1].words[1] = "string" /\ Tells(b, words)
          /\ Written(b, h) = 3
      BY <1>4, <1>7, <3>1
    <3>3. n > 2 => n <= Written(b, h) BY <1>7, <3>1
    <3> HIDE DEF n, words
    <3>4. n \in {2, 3} BY <3>1, <3>2, <3>3
    <3> QED BY <3>2, <3>4
  <2>2. words[1] = b.seq[1] /\ b.seq[1] \in STRING /\ b = Str(b.seq[1])
    BY <1>8, <2>1, ValueIs, TypedValue DEF Tells
  <2>3. \A m : Part(b, words, m) = b BY <1>8 DEF Part
  <2>4. CASE n = 2
    <3> DEFINE cmd == <<"SET", c.new, words[1]>>
    <3>1. Rename(c, h) = Ask(c.new, cmd, "ok") BY <2>1, <2>4, CopiesText
    <3>2. cmd \in Plainly BY <2>2, TwoPlain
    <3>3. \A B \in Databases : Puts(B, cmd, c.new, b)
      <4> SUFFICES ASSUME NEW B \in Databases PROVE Puts(B, cmd, c.new, b) OBVIOUS
      <4> DEFINE w == b.seq[1]
      <4>1. w \in STRING /\ b = Str(w) /\ cmd = <<"SET", c.new, w>> BY <2>2
      <4> HIDE DEF w, cmd
      <4>2. Puts(B, <<"SET", c.new, w>>, c.new, Str(w)) BY <4>1, Wrote
      <4> QED BY <4>1, <4>2
    <3> HIDE DEF cmd
    <3>4. \A B \in Databases : B[c.new] = V[c.new] => Puts(B, cmd, c.new, Part(b, words, Len(h) - 2))
      BY <2>3, <3>3
    <3>5. Len(h) > 1 /\ Len(h) < Written(b, h) /\ Written(b, h) \in Nat BY <2>1, <2>4
    <3>6. Stays(c, b, h, V, c.new, cmd) BY <1>2, <3>2, <3>4, <3>5, CopyWrites
    <3> QED BY <3>1, <3>2, <3>6, Goes
  <2>5. CASE n = 3
    <3>1. Rename(c, h) = Ask(c.old, <<"DEL", c.old>>, "int") BY <2>1, <2>5, CopiesText
    <3>2. <<"DEL", c.old>> \in Plainly BY OnePlain
    <3>3. V[c.new] = b BY <1>7, <1>8, <2>3, <2>5
    <3>4. Len(h) > 2 /\ Len(h) = Written(b, h) BY <2>1, <2>5
    <3>5. Stays(c, b, h, V, c.old, <<"DEL", c.old>>) BY <1>2, <3>3, <3>4, CopyDeletes
    <3> QED BY <3>1, <3>2, <3>5, Goes
  <2> QED BY <2>1, <2>4, <2>5
<1>9. CASE n > 1 /\ b.type # "string"
  <2>1. /\ Rename(c, h) = Rest(c, h) /\ h # <<>> /\ h[1][1].words[1] = b.type
        /\ b.type \in {"list", "set"} /\ words \in Seq(STRING) /\ Tells(b, words)
        /\ Written(b, h) = Len(words) + 3 /\ Written(b, h) \in Nat
        /\ n > 2 => V[c.new] = Part(b, words, n - 3) /\ n <= Written(b, h)
    BY <1>1, <1>4, <1>7, <1>9
  <2>2. words = h[2][1].words OBVIOUS
  <2> HIDE DEF words
  <2>3. Len(words) \in Nat BY <2>1, SeqFacts
  <2>4. CASE n = 2
    <3>1. Rename(c, h) = Ask(c.new, <<"DEL", c.new>>, "int") BY <2>1, <2>2, <2>4, CopiesParts
    <3> DEFINE cmd == <<"DEL", c.new>>
    <3>2. cmd \in Plainly BY OnePlain
    <3>3. Part(b, words, 0) = Nothing BY <2>1, PartsAre
    <3>4. \A B \in Databases : Puts(B, cmd, c.new, Nothing)
      <4>1. "DEL" \in STRING BY Zenon, WordsAssumption
      <4> QED BY <4>1, Wrote
    <3> HIDE DEF cmd
    <3>5. \A B \in Databases : B[c.new] = V[c.new] =>
            Puts(B, cmd, c.new, Part(b, h[2][1].words, Len(h) - 2))
      BY <2>2, <2>4, <3>3, <3>4
    <3>6. Len(h) > 1 /\ Len(h) < Written(b, h) BY <2>1, <2>3, <2>4
    <3>7. Stays(c, b, h, V, c.new, cmd) BY <1>2, <2>1, <3>2, <3>5, <3>6, CopyWrites
    <3>8. Rename(c, h) = Ask(c.new, cmd, "int") BY <3>1 DEF cmd
    <3> QED BY <3>2, <3>7, <3>8, Goes
  <2>5. CASE n > 2 /\ n < Len(words) + 3
    <3> DEFINE m == n - 3
               w == words[m + 1]
               cmd == <<Adder(b.type), c.new, w>>
    <3>1. m \in Nat /\ m < Len(words) /\ m + 1 \in 1..Len(words) /\ n = (m + 1) + 2 /\ n - 2 = m + 1
      BY <1>1, <2>3, <2>5
    <3> HIDE DEF m
    <3>2. /\ w \in STRING
          /\ b.type = "list" => Part(b, words, m + 1) = List(Append(Part(b, words, m).seq, w))
          /\ b.type = "set" => Part(b, words, m + 1) = Set(Part(b, words, m).set \cup {w})
          /\ Part(b, words, m).type \in {"none", b.type}
      BY <2>1, <3>1, PartsAre
    <3>3. Rename(c, h) = Ask(c.new, cmd, "int")
      <4>1. \A i \in 1..Len(words) : Len(h) = i + 2 =>
              Rest(c, h) = Ask(c.new, <<Adder(b.type), c.new, words[i]>>, "int")
        BY <2>1, <2>2, CopiesParts
      <4> QED BY <2>1, <3>1, <4>1
    <3> HIDE DEF w
    <3>4. cmd \in Plainly BY <3>2, TwoPlain DEF Adder
    <3>5. V[c.new] = Part(b, words, m) BY <2>1, <2>5 DEF m
    <3>6. ASSUME NEW B \in Databases, B[c.new] = V[c.new]
          PROVE  Puts(B, cmd, c.new, Part(b, words, m + 1))
      <4>1. IsOf(B, c.new, b.type) BY <3>2, <3>5, <3>6 DEF IsOf
      <4>2. CASE b.type = "list"
        <5>1. Puts(B, <<"RPUSH", c.new, w>>, c.new, List(Append(B[c.new].seq, w)))
          BY <3>2, <4>1, <4>2, Wrote
        <5> QED BY <3>2, <3>5, <3>6, <4>2, <5>1 DEF Adder
      <4>3. CASE b.type = "set"
        <5>1. Puts(B, <<"SADD", c.new, w>>, c.new, Set(B[c.new].set \cup {w}))
          BY <3>2, <4>1, <4>3, Wrote
        <5> QED BY <3>2, <3>5, <3>6, <4>3, <5>1 DEF Adder
      <4> QED BY <2>1, <4>2, <4>3
    <3> HIDE DEF cmd
    <3>7. \A B \in Databases : B[c.new] = V[c.new] =>
            Puts(B, cmd, c.new, Part(b, h[2][1].words, Len(h) - 2))
      BY <2>2, <3>1, <3>6
    <3>8. Len(h) > 1 /\ Len(h) < Written(b, h) BY <1>9, <2>1, <2>5
    <3>9. Stays(c, b, h, V, c.new, cmd) BY <1>2, <2>1, <3>4, <3>7, <3>8, CopyWrites
    <3> QED BY <3>3, <3>4, <3>9, Goes
  <2>6. CASE n > 2 /\ n = Len(words) + 3
    <3>1. Rename(c, h) = Ask(c.old, <<"DEL", c.old>>, "int") BY <2>1, <2>2, <2>6, CopiesParts
    <3>2. <<"DEL", c.old>> \in Plainly BY OnePlain
    <3>3. Part(b, words, Len(words)) = b BY <2>1, PartsAre
    <3>4. n - 3 = Len(words) BY <2>3, <2>6
    <3>5. V[c.new] = b BY <2>1, <2>6, <3>3, <3>4
    <3>6. Len(h) > 2 /\ Len(h) = Written(b, h) BY <2>1, <2>6
    <3>7. Stays(c, b, h, V, c.old, <<"DEL", c.old>>) BY <1>2, <3>5, <3>6, CopyDeletes
    <3> QED BY <3>1, <3>2, <3>7, Goes
  <2>7. n = 2 \/ (n > 2 /\ n < Len(words) + 3) \/ (n > 2 /\ n = Len(words) + 3)
    <3>1. (n > 2 => n <= Len(words) + 3) /\ n \in Nat /\ n > 1 BY <1>1, <1>9, <2>1
    <3> HIDE DEF n
    <3> QED BY <2>3, <3>1
  <2> QED BY <2>4, <2>5, <2>6, <2>7
<1> HIDE DEF n, words
<1>10. n = 0 \/ n = 1 \/ n > 1 BY <1>1
<1> QED BY <1>3, <1>5, <1>6, <1>8, <1>9, <1>10

\* When it is over, rename returns.
LEMMA CopyEnds ==
  ASSUME NEW c, c.old \in Keys, c.new \in Keys, Sock(c.old) # Sock(c.new), NEW b,
         NEW h \in Seq(Seq(Replies)), \A n \in 1..Len(h) : h[n] # <<>>, Over(b, h)
  PROVE  Rename(c, h).do = "return"
<1>1. Len(h) \in Nat /\ Len(h) > 2 /\ Len(h) > Written(b, h) /\ h # <<>> BY SeqFacts DEF Over
<1>2. h[1][1].words[1] = b.type /\ b.type \in {"string", "list", "set"} BY DEF Over, Kind
<1>3. Rename(c, h) = Rest(c, h)
  <2>1. Rename(c, h) = IF Len(h) = 1 THEN Copy(c, h)[1] ELSE Rest(c, h)
    BY <1>1, <1>2 DEF Rename, Rest
  <2> QED BY <1>1, <2>1
<1>4. Rest(c, h) = Done(Void)
  <2>1. CASE b.type = "string"
    <3>1. Len(h) > 3 BY <1>1, <2>1 DEF Written
    <3> QED BY <1>1, <1>2, <2>1, <3>1, CopiesText
  <2>2. CASE b.type \in {"list", "set"}
    <3>1. 2 \in 1..Len(h) BY <1>1
    <3> DEFINE words == h[2][1].words
    <3>2. words \in Seq(STRING) BY <3>1, RepliesAre
    <3>3. Len(h) > Len(words) + 3 BY <1>1, <2>2 DEF Written
    <3>4. words = h[2][1].words OBVIOUS
    <3> HIDE DEF words
    <3> QED BY <1>1, <1>2, <2>2, <3>2, <3>3, <3>4, CopiesParts
  <2> QED BY <1>2, <2>1, <2>2
<1> QED BY <1>3, <1>4, DoneIs

-----------------------------------------------------------------------------
(* The rounds of the calls that move a value                               *)

\* Scripts of one and of two rounds.
LEMMA ScriptAsks ==
  ASSUME NEW a, NEW b, NEW n \in Nat, NEW x
  PROVE  /\ Script(<<a>>, n, x) = IF n = 0 THEN a ELSE Done(x)
         /\ Script(<<a, b>>, n, x) = IF n = 0 THEN a ELSE IF n = 1 THEN b ELSE Done(x)
<1>1. Len(<<a>>) = 1 /\ <<a>>[1] = a OBVIOUS
<1>2. Len(<<a, b>>) = 2 /\ <<a, b>>[1] = a /\ <<a, b>>[2] = b OBVIOUS
<1>3. Script(<<a>>, n, x) = IF n = 0 THEN a ELSE Done(x) BY <1>1 DEF Script
<1>4. Script(<<a, b>>, n, x) = IF n = 0 THEN a ELSE IF n = 1 THEN b ELSE Done(x) BY <1>2 DEF Script
<1> QED BY <1>3, <1>4

\* A round of such a call is one command, which keeps what the call must keep.
MoveGoes(p, c, D, g, V) ==
  \E k \in Keys, cmd \in Plainly, how \in Readers \ {"bye"} :
    p = Ask(k, cmd, how) /\ Safe(c, D, g, V, Socks[k], cmd, Socks)

\* A command that is safe is one for such a call to ask.
LEMMA MoveAsks ==
  ASSUME NEW p, NEW c, NEW D, NEW g, NEW V, NEW k \in Keys, NEW cmd \in Plainly,
         NEW how \in {"ok", "line", "int", "intok", "bulk", "multi"}, p = Ask(k, cmd, how),
         Safe(c, D, g, V, Socks[k], cmd, Socks)
  PROVE  MoveGoes(p, c, D, g, V)
<1>1. how \in Readers \ {"bye"} BY DEF Readers
<1> QED BY <1>1 DEF MoveGoes

\* Whether both keys are at one server.
LEMMA HomeIs ==
  ASSUME NEW c, IsCall(c)
  PROVE  /\ c.f \in Renames => (Home(c, Socks) <=> Sock(c.old) = Sock(c.new))
         /\ c.f = "smove" => (Home(c, Socks) <=> Sock(c.src) = Sock(c.dst))
<1>1. c.f \in Renames => c.old \in Keys /\ c.new \in Keys BY CallIs
<1>2. c.f = "smove" => c.src \in Keys /\ c.dst \in Keys BY CallIs
<1>3. \A k \in Keys : Socks[k] = Sock(k) BY DEF Socks
<1> QED BY <1>1, <1>2, <1>3 DEF Home, Renames

\* rename, when both keys are at one server, and the command that it sends.
LEMMA MovedTo ==
  ASSUME NEW B \in Databases, NEW k \in Keys, NEW l \in Keys, B[k].type # "none"
  PROVE  /\ Run(B, <<"RENAME", k, l>>).db[l] = B[k]
         /\ \/ Run(B, <<"RENAMENX", k, l>>).db = B
            \/ Run(B, <<"RENAMENX", k, l>>).db[l] = B[k]
<1>1. B \in [Keys -> ValueSet] BY DEF Databases
<1>2. "none" \in STRING BY Zenon, WordsAssumption
<1>3. Moved(B, k, l)[l] = B[k] BY <1>1 DEF Moved
<1>4. Run(B, <<"RENAME", k, l>>) = Answer(Moved(B, k, l), OK)
  <2>1. Run(B, <<"RENAME", k, l>>) = RenameTo(B, k, l) BY <1>2, RunOnTwo
  <2> QED BY <2>1 DEF RenameTo, Has
<1>5. \/ Run(B, <<"RENAMENX", k, l>>) = Answer(B, Count(0))
      \/ Run(B, <<"RENAMENX", k, l>>) = Answer(Moved(B, k, l), Count(1))
  <2>1. Run(B, <<"RENAMENX", k, l>>) = RenameUnless(B, k, l) BY <1>2, RunOnTwo
  <2> QED BY <2>1 DEF RenameUnless, Has
<1> QED BY <1>3, <1>4, <1>5 DEF Answer

\* RENAME and RENAMENX at one server keep the value.
LEMMA RenameAtHome ==
  ASSUME NEW c, c.f \in Renames, c.old \in Keys, c.new \in Keys, Home(c, Socks),
         NEW D, NEW V \in Databases, D[c.old].type # "none", V[c.old] = D[c.old],
         NEW cmd \in {<<"RENAME", c.old, c.new>>, <<"RENAMENX", c.old, c.new>>}
  PROVE  Safe(c, D, <<>>, V, Socks[c.old], cmd, Socks)
<1> SUFFICES ASSUME NEW B \in Databases, NEW W \in Databases,
                    Turns(B, cmd, Socks[c.old], V, W, Socks)
             PROVE  /\ Keeps(c, D, W)
                    /\ Halfway(c, D, Append(<<>>, <<Run(B, cmd).reply>>), W, Socks)
  BY DEF Safe
<1>1. Socks[c.new] = Socks[c.old] BY DEF Home, Renames
<1>2. B[c.old] = D[c.old] BY DEF Turns
<1>3. W[c.old] = Run(B, cmd).db[c.old] /\ W[c.new] = Run(B, cmd).db[c.new] BY <1>1 DEF Turns
<1>4. Run(B, cmd).db = B \/ Run(B, cmd).db[c.new] = B[c.old]
  <2>1. B[c.old].type # "none" BY <1>2
  <2>2. Run(B, <<"RENAME", c.old, c.new>>).db[c.new] = B[c.old] BY <2>1, MovedTo
  <2>3. \/ Run(B, <<"RENAMENX", c.old, c.new>>).db = B
        \/ Run(B, <<"RENAMENX", c.old, c.new>>).db[c.new] = B[c.old]
    BY <2>1, MovedTo
  <2> QED BY <2>2, <2>3
<1>5. W[c.old] = D[c.old] \/ W[c.new] = D[c.old] BY <1>2, <1>3, <1>4
<1>6. Keeps(c, D, W) BY <1>5 DEF Keeps
<1> DEFINE x == <<Run(B, cmd).reply>>
<1> HIDE DEF x
<1>7. Append(<<>>, x) # <<>> OBVIOUS
<1>8. Halfway(c, D, Append(<<>>, x), W, Socks) BY <1>7 DEF Halfway
<1> QED BY <1>6, <1>8 DEF x

\* Between servers; g are the replies of the call, h those of the copy.
LEMMA RenameAway ==
  ASSUME NEW c, IsCall(c), c.f \in Renames, ~Home(c, Socks),
         NEW D \in Databases, D[c.old].type # "none", NEW V \in Databases,
         NEW g, NEW h \in Seq(Seq(Replies)), \A n \in 1..Len(h) : h[n] # <<>>,
         Copying(c, D[c.old], h, V), Rename(c, h).do = "round",
         \A x, W : Copying(c, D[c.old], Append(h, x), W) => Halfway(c, D, Append(g, x), W, Socks)
  PROVE  MoveGoes(Rename(c, h), c, D, g, V)
<1> DEFINE b == D[c.old]
<1>1. c.old \in Keys /\ c.new \in Keys /\ Sock(c.old) # Sock(c.new) BY CallIs, HomeIs
<1>2. b \in ValueSet /\ b.type # "none" BY <1>1 DEF Databases
<1> HIDE DEF b
<1>3. Copied(c, b, h, V)
  <2> SUFFICES ASSUME Over(b, h) PROVE FALSE BY DEF Copying, b
  <2>1. Rename(c, h).do = "return" BY <1>1, CopyEnds
  <2> QED BY <2>1
<1>4. CopyGoes(Rename(c, h), c, b, h, V) BY <1>1, <1>2, <1>3, CopyStep
<1>5. PICK k \in Keys, cmd \in Plainly, how \in Readers \ {"bye"} :
        Rename(c, h) = Ask(k, cmd, how) /\ Stays(c, b, h, V, k, cmd)
  BY <1>4 DEF CopyGoes
<1>6. Safe(c, D, g, V, Socks[k], cmd, Socks)
  <2> SUFFICES ASSUME NEW B \in Databases, NEW W \in Databases,
                      Turns(B, cmd, Socks[k], V, W, Socks)
               PROVE  /\ Keeps(c, D, W)
                      /\ Halfway(c, D, Append(g, <<Run(B, cmd).reply>>), W, Socks)
    BY DEF Safe
  <2> DEFINE x == <<Run(B, cmd).reply>>
  <2>1. (W[c.old] = b \/ W[c.new] = b) /\ Copying(c, b, Append(h, x), W) BY <1>5 DEF Stays
  <2> HIDE DEF x
  <2>2. Keeps(c, D, W) BY <2>1 DEF Keeps, b
  <2>3. Halfway(c, D, Append(g, x), W, Socks) BY <2>1 DEF b
  <2> QED BY <2>2, <2>3 DEF x
<1> QED BY <1>5, <1>6 DEF MoveGoes

\* Scripts of one and of two rounds, by the replies so far.
LEMMA ScriptOf ==
  ASSUME NEW a, NEW b, NEW g, Len(g) \in Nat, NEW x, NEW p
  PROVE  /\ p = Script(<<a>>, Len(g), x) => p = IF Len(g) = 0 THEN a ELSE Done(x)
         /\ p = Script(<<a, b>>, Len(g), x) =>
              p = IF Len(g) = 0 THEN a ELSE IF Len(g) = 1 THEN b ELSE Done(x)
<1> DEFINE n == Len(g)
<1>1. n \in Nat OBVIOUS
<1> HIDE DEF n
<1>2. /\ Script(<<a>>, n, x) = IF n = 0 THEN a ELSE Done(x)
      /\ Script(<<a, b>>, n, x) = IF n = 0 THEN a ELSE IF n = 1 THEN b ELSE Done(x)
  BY <1>1, ScriptAsks
<1>3. /\ p = Script(<<a>>, n, x) => p = IF n = 0 THEN a ELSE Done(x)
      /\ p = Script(<<a, b>>, n, x) => p = IF n = 0 THEN a ELSE IF n = 1 THEN b ELSE Done(x)
  BY <1>2
<1> QED BY <1>3 DEF n

\* Every round of rename keeps the value.
LEMMA RenameMoves ==
  ASSUME NEW c, IsCall(c), c.f = "rename", NEW D \in Databases, D[c.old].type # "none",
         NEW V \in Databases, NEW g, GotOK(c, g), Halfway(c, D, g, V, Socks),
         Plan(c, g).do = "round"
  PROVE  MoveGoes(Plan(c, g), c, D, g, V)
<1>0. c.f \in Renames /\ c.f \notin MayBeEmpty BY DEF Renames, MayBeEmpty
<1>1. c.old \in Keys /\ c.new \in Keys BY <1>0, CallIs
<1>2. g \in Seq(Seq(Replies)) /\ Len(g) \in Nat /\ (\A n \in 1..Len(g) : g[n] # <<>>)
  BY <1>0, FirstReply
<1>3. Plan(c, g) = Rename(c, g) BY DEF Plan
<1>4. CASE Home(c, Socks)
  <2> DEFINE cmd == <<"RENAME", c.old, c.new>>
  <2>1. Rename(c, g) = Script(<<Ask(c.old, cmd, "ok")>>, Len(g), Void)
    BY <1>0, <1>4, HomeIs DEF Rename
  <2>2. cmd \in Plainly
    <3>1. "none" \in STRING BY Zenon, WordsAssumption
    <3> QED BY <1>1, <3>1, PairPlain
  <2>3. cmd \in {<<"RENAME", c.old, c.new>>, <<"RENAMENX", c.old, c.new>>} OBVIOUS
  <2> HIDE DEF cmd
  <2>4. Rename(c, g) = IF Len(g) = 0 THEN Ask(c.old, cmd, "ok") ELSE Done(Void)
    <3> DEFINE a == Ask(c.old, cmd, "ok")
    <3> HIDE DEF a
    <3>1. Rename(c, g) = Script(<<a>>, Len(g), Void) BY <2>1 DEF a
    <3>2. Rename(c, g) = IF Len(g) = 0 THEN a ELSE Done(Void) BY <1>2, <3>1, ScriptOf
    <3> QED BY <3>2 DEF a
  <2>5. Len(g) = 0 BY <1>3, <2>4, DoneIs
  <2>6. g = <<>> BY <1>2, <2>5, SeqFacts
  <2>7. V[c.old] = D[c.old] BY <1>0, <1>4, <2>6 DEF Halfway
  <2>8. Safe(c, D, g, V, Socks[c.old], cmd, Socks) BY <1>0, <1>1, <1>4, <2>3, <2>6, <2>7, RenameAtHome
  <2> QED BY <1>1, <1>3, <2>2, <2>4, <2>5, <2>8, MoveAsks
<1>5. CASE ~Home(c, Socks)
  <2>1. \A h, W : Halfway(c, D, h, W, Socks) = Copying(c, D[c.old], h, W)
    BY <1>0, <1>5 DEF Halfway
  <2>2. Copying(c, D[c.old], g, V) BY <2>1
  <2>3. \A x, W : Copying(c, D[c.old], Append(g, x), W) => Halfway(c, D, Append(g, x), W, Socks)
    BY <2>1
  <2> QED BY <1>0, <1>2, <1>3, <1>5, <2>2, <2>3, RenameAway
<1> QED BY <1>4, <1>5

\* Every round of renamenx keeps the value.
LEMMA RenameNxMoves ==
  ASSUME NEW c, IsCall(c), c.f = "renamenx", NEW D \in Databases, D[c.old].type # "none",
         NEW V \in Databases, NEW g, GotOK(c, g), Halfway(c, D, g, V, Socks),
         Plan(c, g).do = "round"
  PROVE  MoveGoes(Plan(c, g), c, D, g, V)
<1>0. c.f \in Renames /\ c.f \notin MayBeEmpty BY DEF Renames, MayBeEmpty
<1>1. c.old \in Keys /\ c.new \in Keys BY <1>0, CallIs
<1>2. g \in Seq(Seq(Replies)) /\ Len(g) \in Nat /\ (\A n \in 1..Len(g) : g[n] # <<>>)
  BY <1>0, FirstReply
<1>3. Plan(c, g) = RenameNx(c, g) BY DEF Plan
<1>4. CASE Home(c, Socks)
  <2> DEFINE cmd == <<"RENAMENX", c.old, c.new>>
             x == Num(g[1][1].n)
  <2>1. RenameNx(c, g) = Script(<<Ask(c.old, cmd, "int")>>, Len(g), x)
    BY <1>0, <1>4, HomeIs DEF RenameNx
  <2>2. cmd \in Plainly
    <3>1. "none" \in STRING BY Zenon, WordsAssumption
    <3> QED BY <1>1, <3>1, PairPlain
  <2>3. cmd \in {<<"RENAME", c.old, c.new>>, <<"RENAMENX", c.old, c.new>>} OBVIOUS
  <2> HIDE DEF cmd, x
  <2>4. RenameNx(c, g) = IF Len(g) = 0 THEN Ask(c.old, cmd, "int") ELSE Done(x)
    <3> DEFINE a == Ask(c.old, cmd, "int")
    <3> HIDE DEF a
    <3>1. RenameNx(c, g) = Script(<<a>>, Len(g), x) BY <2>1 DEF a
    <3>2. RenameNx(c, g) = IF Len(g) = 0 THEN a ELSE Done(x) BY <1>2, <3>1, ScriptOf
    <3> QED BY <3>2 DEF a
  <2>5. Len(g) = 0 BY <1>3, <2>4, DoneIs
  <2>6. g = <<>> BY <1>2, <2>5, SeqFacts
  <2>7. V[c.old] = D[c.old] BY <1>0, <1>4, <2>6 DEF Halfway
  <2>8. Safe(c, D, g, V, Socks[c.old], cmd, Socks) BY <1>0, <1>1, <1>4, <2>3, <2>6, <2>7, RenameAtHome
  <2> QED BY <1>1, <1>3, <2>2, <2>4, <2>5, <2>8, MoveAsks
<1>5. ASSUME ~Home(c, Socks)
      PROVE  \A h, W : Halfway(c, D, h, W, Socks) =
               IF h = <<>> THEN W[c.old] = D[c.old] ELSE Copying(c, D[c.old], Tail(h), W)
  BY <1>0, <1>5 DEF Halfway
<1>6. CASE ~Home(c, Socks) /\ g = <<>>
  <2> DEFINE cmd == <<"EXISTS", c.new>>
  <2>1. RenameNx(c, g) = Ask(c.new, cmd, "int") BY <1>0, <1>6, HomeIs DEF RenameNx
  <2>2. cmd \in Plainly BY <1>1, OnePlain
  <2>3. \A B \in Databases : Run(B, cmd).db = B BY <1>1, Told
  <2> HIDE DEF cmd
  <2>4. Safe(c, D, g, V, Socks[c.new], cmd, Socks)
    <3> SUFFICES ASSUME NEW B \in Databases, NEW W \in Databases,
                        Turns(B, cmd, Socks[c.new], V, W, Socks)
                 PROVE  /\ Keeps(c, D, W)
                        /\ Halfway(c, D, Append(g, <<Run(B, cmd).reply>>), W, Socks)
      BY DEF Safe
    <3>1. V[c.old] = D[c.old] BY <1>5, <1>6
    <3>2. \A l \in Keys : W[l] = V[l] BY <2>3 DEF Turns
    <3>3. W[c.old] = D[c.old] BY <1>1, <3>1, <3>2
    <3>4. Keeps(c, D, W) BY <1>0, <3>3 DEF Keeps
    <3> DEFINE x == <<Run(B, cmd).reply>>
               e == Append(g, x)
    <3> HIDE DEF x
    <3>5. e # <<>> /\ Tail(e) = <<>>
      <4>1. <<>> \in Seq(STRING) BY EmptySeq
      <4>2. Append(<<>>, x) = <<x>> /\ Tail(<<x>>) = <<>> BY <4>1, TailAppended
      <4> QED BY <1>6, <4>2
    <3> HIDE DEF e
    <3>6. Copied(c, D[c.old], <<>>, W) BY <3>3 DEF Copied
    <3>7. Halfway(c, D, e, W, Socks) BY <1>5, <1>6, <3>5, <3>6, ZenonT(60) DEF Copying
    <3> QED BY <3>4, <3>7 DEF e, x
  <2> QED BY <1>1, <1>3, <2>1, <2>2, <2>4, MoveAsks
<1>7. CASE ~Home(c, Socks) /\ g # <<>>
  <2> DEFINE h == Tail(g)
  <2>1. h \in Seq(Seq(Replies)) /\ Len(h) = Len(g) - 1 /\ \A i \in 1..Len(h) : h[i] = g[i + 1] /\ i + 1 \in 1..Len(g)
    BY <1>2, <1>7, TailIs
  <2>2. RenameNx(c, g) \in {Done(Num(0)), Done(Num(1)), Rename(c, h)}
    <3>1. Sock(c.old) # Sock(c.new) BY <1>0, <1>7, HomeIs
    <3> QED BY <1>7, <3>1 DEF RenameNx
  <2>3. \A x : Tail(Append(g, x)) = Append(h, x) /\ Append(g, x) # <<>> BY SMTT(60), <1>2, <1>7, TailAppended
  <2> HIDE DEF h
  <2>4. RenameNx(c, g) = Rename(c, h) /\ Rename(c, h).do = "round" BY <1>3, <2>2, DoneIs
  <2>5. \A n \in 1..Len(h) : h[n] # <<>> BY <1>2, <2>1
  <2>6. Copying(c, D[c.old], h, V) BY <1>5, <1>7 DEF h
  <2>7. \A x, W : Copying(c, D[c.old], Append(h, x), W) => Halfway(c, D, Append(g, x), W, Socks)
    BY ZenonT(60), <1>5, <1>7, <2>3
  <2> QED BY <1>0, <1>3, <1>7, <2>1, <2>4, <2>5, <2>6, <2>7, RenameAway
<1> QED BY <1>4, <1>6, <1>7

\* smove: the member leaves the one set before it joins the other.
LEMMA MemberMoves ==
  ASSUME NEW B \in Databases, NEW k \in Keys, NEW l \in Keys, NEW m \in STRING,
         m \notin B[l].set
  PROVE  LET E == Run(B, <<"SMOVE", k, l, m>>).db IN E = B \/ m \notin E[k].set
<1>1. Run(B, <<"SMOVE", k, l, m>>) = MoveMember(B, k, l, m) BY RunOnTwo
<1> DEFINE C == OnSet(B, "SREM", k, {m}).db
           E == OnSet(C, "SADD", l, {m}).db
<1>2. MoveMember(B, k, l, m).db \in {B, E} /\ (k = l => MoveMember(B, k, l, m).db = B)
  BY DEF MoveMember, Answer
<1>3. ASSUME k # l PROVE m \notin E[k].set
  <2>1. B \in [Keys -> ValueSet] BY DEF Databases
  <2> DEFINE v == Set(B[k].set \ {m})
             w == Set(C[l].set \cup {m})
  <2>2. C = [B EXCEPT ![k] = v] /\ E = [C EXCEPT ![l] = w] BY DEF OnSet, Answer
  <2>3. v.set = B[k].set \ {m} BY MadeIs
  <2> HIDE DEF v, w, C, E
  <2>4. C[k] = v /\ DOMAIN C = Keys BY <2>1, <2>2
  <2>5. E[k] = C[k] BY <1>3, <2>2, <2>4
  <2> QED BY <2>3, <2>4, <2>5
<1> HIDE DEF C, E
<1> QED BY <1>1, <1>2, <1>3

\* Every round of smove keeps the member out of one of the sets.
LEMMA SMoveMoves ==
  ASSUME NEW c, IsCall(c), c.f = "smove", NEW D \in Databases, c.member \notin D[c.dst].set,
         NEW V \in Databases, NEW g, GotOK(c, g), Halfway(c, D, g, V, Socks),
         Plan(c, g).do = "round"
  PROVE  MoveGoes(Plan(c, g), c, D, g, V)
<1>0. c.f \notin Renames /\ c.f \notin MayBeEmpty BY DEF Renames, MayBeEmpty
<1>1. c.src \in Keys /\ c.dst \in Keys /\ c.member \in STRING BY CallIs
<1>2. g \in Seq(Seq(Replies)) /\ Len(g) \in Nat BY <1>0, FirstReply
<1>3. Plan(c, g) = SMove(c, g) BY DEF Plan
<1>4. \A W : Keeps(c, D, W) = (c.member \notin W[c.src].set \/ c.member \notin W[c.dst].set)
  BY <1>0 DEF Keeps
<1>5. CASE Home(c, Socks)
  <2> DEFINE cmd == <<"SMOVE", c.src, c.dst, c.member>>
  <2>1. SMove(c, g) = Script(<<Ask(c.src, cmd, "intok")>>, Len(g), Void) BY <1>5, HomeIs DEF SMove
  <2>2. cmd \in Plainly BY <1>1, PairPlain
  <2>3. \A B \in Databases : c.member \notin B[c.dst].set =>
          Run(B, cmd).db = B \/ c.member \notin Run(B, cmd).db[c.src].set
    BY <1>1, MemberMoves
  <2> HIDE DEF cmd
  <2>4. SMove(c, g) = IF Len(g) = 0 THEN Ask(c.src, cmd, "intok") ELSE Done(Void)
    <3> DEFINE a == Ask(c.src, cmd, "intok")
    <3> HIDE DEF a
    <3>1. SMove(c, g) = Script(<<a>>, Len(g), Void) BY <2>1 DEF a
    <3>2. SMove(c, g) = IF Len(g) = 0 THEN a ELSE Done(Void) BY <1>2, <3>1, ScriptOf
    <3> QED BY <3>2 DEF a
  <2>5. Len(g) = 0 BY <1>3, <2>4, DoneIs
  <2>6. g = <<>> BY <1>2, <2>5, SeqFacts
  <2>7. c.member \notin V[c.dst].set BY <1>0, <1>5, <2>6 DEF Halfway
  <2>8. Safe(c, D, g, V, Socks[c.src], cmd, Socks)
    <3> SUFFICES ASSUME NEW B \in Databases, NEW W \in Databases,
                        Turns(B, cmd, Socks[c.src], V, W, Socks)
                 PROVE  /\ Keeps(c, D, W)
                        /\ Halfway(c, D, Append(g, <<Run(B, cmd).reply>>), W, Socks)
      BY DEF Safe
    <3>1. Socks[c.dst] = Socks[c.src] BY <1>5 DEF Home
    <3>2. /\ B[c.dst] = V[c.dst] /\ W[c.src] = Run(B, cmd).db[c.src]
          /\ Run(B, cmd).db = B => W[c.dst] = V[c.dst]
      BY <1>1, <3>1 DEF Turns
    <3>3. c.member \notin W[c.src].set \/ c.member \notin W[c.dst].set BY <2>3, <2>7, <3>2
    <3> DEFINE x == <<Run(B, cmd).reply>>
    <3> HIDE DEF x
    <3>4. Append(g, x) # <<>> BY <2>6
    <3>5. Halfway(c, D, Append(g, x), W, Socks) BY <1>0, <1>5, <3>4 DEF Halfway
    <3> QED BY <1>4, <3>3, <3>5 DEF x
  <2> QED BY <1>1, <1>3, <2>2, <2>4, <2>5, <2>8, MoveAsks
<1>6. CASE ~Home(c, Socks)
  <2> DEFINE cmd1 == <<"SREM", c.src, c.member>>
             cmd2 == <<"SADD", c.dst, c.member>>
  <2>1. SMove(c, g) = Script(<<Ask(c.src, cmd1, "intok"), Ask(c.dst, cmd2, "int")>>, Len(g), Void)
    BY <1>6, HomeIs DEF SMove
  <2>2. cmd1 \in Plainly /\ cmd2 \in Plainly BY <1>1, TwoPlain
  <2>3. \A h, W : Halfway(c, D, h, W, Socks) =
          IF h = <<>> THEN c.member \notin W[c.dst].set
          ELSE Len(h) > 1 \/ c.member \notin W[c.src].set
    BY <1>0, <1>6 DEF Halfway
  <2>4. ASSUME NEW B \in Databases PROVE c.member \notin Run(B, cmd1).db[c.src].set
                                        /\ \A l \in Keys \ {c.src} : Run(B, cmd1).db[l] = B[l]
    <3>1. CASE IsOf(B, c.src, "set")
      <4>1. Puts(B, cmd1, c.src, Set(B[c.src].set \ {c.member})) BY <1>1, <3>1, Wrote
      <4>2. Set(B[c.src].set \ {c.member}).set = B[c.src].set \ {c.member} BY MadeIs
      <4> QED BY <4>1, <4>2 DEF Puts
    <3>2. CASE ~IsOf(B, c.src, "set")
      <4>1. Run(B, cmd1) = Change(B, "SREM", c.src, {c.member}) BY <1>1, RunWithWord
      <4>2. Run(B, cmd1).db = B BY <3>2, <4>1 DEF Change, Answer
      <4>3. B[c.src] \in ValueSet BY <1>1 DEF Databases
      <4>4. B[c.src].set = {} BY <3>2, <4>3, TypedValue DEF IsOf
      <4> QED BY <4>2, <4>4
    <3> QED BY <3>1, <3>2
  <2>5. ASSUME NEW B \in Databases PROVE \A l \in Keys \ {c.dst} : Run(B, cmd2).db[l] = B[l]
    <3>1. CASE IsOf(B, c.dst, "set")
      <4>1. Puts(B, cmd2, c.dst, Set(B[c.dst].set \cup {c.member})) BY <1>1, <3>1, Wrote
      <4> QED BY <4>1 DEF Puts
    <3>2. CASE ~IsOf(B, c.dst, "set")
      <4>1. Run(B, cmd2) = Change(B, "SADD", c.dst, {c.member}) BY <1>1, RunWithWord
      <4>2. Run(B, cmd2).db = B BY <3>2, <4>1 DEF Change, Answer
      <4> QED BY <4>2
    <3> QED BY <3>1, <3>2
  <2> HIDE DEF cmd1, cmd2
  <2>6. SMove(c, g) = IF Len(g) = 0 THEN Ask(c.src, cmd1, "intok")
                      ELSE IF Len(g) = 1 THEN Ask(c.dst, cmd2, "int") ELSE Done(Void)
    <3> DEFINE a == Ask(c.src, cmd1, "intok")
               b == Ask(c.dst, cmd2, "int")
    <3> HIDE DEF a, b
    <3>1. SMove(c, g) = Script(<<a, b>>, Len(g), Void) BY <2>1 DEF a, b
    <3>2. SMove(c, g) = IF Len(g) = 0 THEN a ELSE IF Len(g) = 1 THEN b ELSE Done(Void)
      BY ZenonT(60), <1>2, <3>1, ScriptOf
    <3> QED BY <3>2 DEF a, b
  <2>7. c.src # c.dst BY <1>6 DEF Home
  <2>8. CASE Len(g) = 0
    <3>1. g = <<>> BY <1>2, <2>8, SeqFacts
    <3>2. c.member \notin V[c.dst].set BY <2>3, <3>1
    <3>3. Safe(c, D, g, V, Socks[c.src], cmd1, Socks)
      <4> SUFFICES ASSUME NEW B \in Databases, NEW W \in Databases,
                          Turns(B, cmd1, Socks[c.src], V, W, Socks)
                   PROVE  /\ Keeps(c, D, W)
                          /\ Halfway(c, D, Append(g, <<Run(B, cmd1).reply>>), W, Socks)
        BY DEF Safe
      <4>1. W[c.src] = Run(B, cmd1).db[c.src] BY <1>1 DEF Turns
      <4>2. c.member \notin W[c.src].set BY <2>4, <4>1
      <4> DEFINE x == <<Run(B, cmd1).reply>>
      <4> HIDE DEF x
      <4>3. Append(g, x) # <<>> BY <3>1
      <4> QED BY <1>4, <2>3, <4>2, <4>3 DEF x
    <3> QED BY <1>1, <1>3, <2>2, <2>6, <2>8, <3>3, MoveAsks
  <2>9. CASE Len(g) = 1
    <3>1. g # <<>>
      <4>1. (g = <<>>) <=> (Len(g) = 0) BY <1>2, SeqFacts
      <4> QED BY <2>9, <4>1
    <3> DEFINE n == Len(g)
    <3>2. c.member \notin V[c.src].set
      <4>1. n = 1 BY <2>9
      <4>2. n > 1 \/ c.member \notin V[c.src].set BY <2>3, <3>1
      <4> HIDE DEF n
      <4> QED BY <4>1, <4>2
    <3>3. Safe(c, D, g, V, Socks[c.dst], cmd2, Socks)
      <4> SUFFICES ASSUME NEW B \in Databases, NEW W \in Databases,
                          Turns(B, cmd2, Socks[c.dst], V, W, Socks)
                   PROVE  /\ Keeps(c, D, W)
                          /\ Halfway(c, D, Append(g, <<Run(B, cmd2).reply>>), W, Socks)
        BY DEF Safe
      <4>1. W[c.src] = V[c.src] BY <1>1, <2>5, <2>7 DEF Turns
      <4>2. c.member \notin W[c.src].set BY <3>2, <4>1
      <4> DEFINE x == <<Run(B, cmd2).reply>>
      <4> HIDE DEF x
      <4>3. Append(g, x) # <<>> BY <1>2, <3>1, TailAppended
      <4> QED BY <1>4, <2>3, <4>2, <4>3 DEF x
    <3> QED BY <1>1, <1>3, <2>2, <2>6, <2>9, <3>3, MoveAsks
  <2> QED BY <1>3, <2>6, <2>8, <2>9, DoneIs
<1> QED BY <1>5, <1>6

\* For each of these calls.
LEMMA MovePlan ==
  ASSUME NEW c, IsCall(c), NEW D \in Databases, Moves(c, D), NEW V \in Databases, NEW g,
         GotOK(c, g), Halfway(c, D, g, V, Socks), Plan(c, g).do = "round"
  PROVE  MoveGoes(Plan(c, g), c, D, g, V)
<1>1. CASE c.f = "rename"
  <2>1. D[c.old].type # "none" BY <1>1 DEF Moves, Renames
  <2> QED BY <1>1, <2>1, RenameMoves
<1>2. CASE c.f = "renamenx"
  <2>1. D[c.old].type # "none" BY <1>2 DEF Moves, Renames
  <2> QED BY <1>2, <2>1, RenameNxMoves
<1>3. CASE c.f = "smove"
  <2>1. c.member \notin D[c.dst].set BY <1>3 DEF Moves, Renames
  <2> QED BY <1>3, <2>1, SMoveMoves
<1> QED BY <1>1, <1>2, <1>3 DEF Moves, Renames

-----------------------------------------------------------------------------
(* Steps of the calls that move a value                                    *)

\* What the client sees, and where, changes with the connections and the
\* databases only.
LEMMA SameView ==
  ASSUME UNCHANGED <<connections, peer, db, store>>
  PROVE  View' = View /\ Socks' = Socks /\ \A k \in Keys : Sock(k)' = Sock(k)
<1>1. \A k \in Keys : Sock(k)' = Sock(k) BY DEF Sock
<1>2. Socks' = Socks BY <1>1 DEF Socks
<1>3. View' = View BY <1>1 DEF View
<1> QED BY <1>1, <1>2, <1>3

\* What the client sees is in the databases of the servers that it asks.
LEMMA ViewIs ==
  ASSUME IInv, connections # <<>>
  PROVE  /\ View \in Databases
         /\ \A k \in Keys : /\ Sock(k) \in Open /\ Sock(k) \in AllSockets
                            /\ peer[Sock(k)] \in ToSet(Servers) /\ db[Sock(k)] \in DBs
                            /\ View[k] = store[peer[Sock(k)]][db[Sock(k)]][k]
<1>1. TypeInv /\ SocketsOwned BY DEF IInv
<1>2. \A k \in Keys : /\ Sock(k) \in Open /\ Sock(k) \in AllSockets
                      /\ peer[Sock(k)] \in ToSet(Servers)
  BY <1>1, WiredIs DEF Open
<1>3. \A k \in Keys : db[Sock(k)] \in DBs BY <1>1, <1>2 DEF TypeInv
<1>4. \A k \in Keys : View[k] = store[peer[Sock(k)]][db[Sock(k)]][k] BY DEF View
<1>5. View \in Databases
  <2>1. store \in [ToSet(Servers) -> [DBs -> [Keys -> ValueSet]]]
    BY <1>1 DEF TypeInv, Stores, Databases
  <2> HIDE DEF ValueSet
  <2>2. ASSUME NEW k \in Keys PROVE store[peer[Sock(k)]][db[Sock(k)]][k] \in ValueSet
    <3> DEFINE a == peer[Sock(k)]
               b == db[Sock(k)]
    <3>1. a \in ToSet(Servers) /\ b \in DBs BY <1>2, <1>3
    <3> HIDE DEF a, b
    <3>2. store[a][b][k] \in ValueSet BY <2>1, <3>1
    <3> QED BY <3>2 DEF a, b
  <2> QED BY <2>2 DEF View, Databases
<1> QED BY <1>2, <1>3, <1>4, <1>5

\* The fields of the calls that matter.
LEMMA MovingIs ==
  ASSUME NEW c, NEW D, Moves(c, D)
  PROVE  /\ c.f \in Moving /\ c.f \notin {"open", "close", "exec_transaction", "select"}
         /\ c.f \notin MayBeEmpty /\ c.f \notin Selecting
BY DEF Moves, Moving, Renames, MayBeEmpty, Selecting

\* A round of one command is under way.
LEMMA OneUnderWay ==
  ASSUME IInv, ~slipped, Working, NEW D, Moves(call, D), NEW s \in AllSockets, NEW cmd,
         MoveRound(s, cmd)
  PROVE  /\ \A x \in AllSockets \ {s} : reqs[x] = <<>> /\ reps[x] = <<>>
         /\ pc = "send" => at = 1 /\ replies = <<>> /\ reqs[s] = <<>> /\ reps[s] = <<>>
         /\ pc = "recv" /\ at <= Len(round.reads) =>
              at = 1 /\ replies = <<>> /\ Len(reqs[s]) + Len(reps[s]) <= 1
         /\ pc = "recv" /\ at > Len(round.reads) => reqs[s] = <<>> /\ reps[s] = <<>>
         /\ reqs[s] # <<>> => s \notin lost /\ pc = "recv" /\ at = 1 /\ multi[s] = <<>>
<1>1. TypeInv /\ RoundInv /\ MultiInv /\ WireInv BY DEF IInv
<1>2. call.f # "exec_transaction" BY MovingIs
<1>3. /\ round.sends = <<Send(s, <<cmd>>)>> /\ Len(round.reads) = 1 /\ round.reads[1].from = s
  BY DEF MoveRound
<1>4. /\ Len(round.sends) = 1 /\ round.sends[1].to = s /\ DOMAIN round.sends = {1}
  <2> DEFINE e == Send(s, <<cmd>>)
  <2>1. e.to = s BY DEF Send
  <2> HIDE DEF e
  <2>2. Len(<<e>>) = 1 /\ <<e>>[1] = e /\ DOMAIN <<e>> = {1} OBVIOUS
  <2> QED BY <1>3, <2>1, <2>2 DEF e
<1>5. /\ \A x \in lost : reqs[x] = <<>> /\ reps[x] = <<>> BY <1>1 DEF MultiInv, WireInv
<1>6. CASE pc = "send"
  <2>1. at = 1 /\ replies = <<>> BY <1>1, <1>4, <1>6 DEF RoundInv, Working
  <2>2. \A k \in 1..(at - 1) : FALSE BY <2>1
  <2>3. \A x \in AllSockets \ lost : Quiet(x)
    <3>1. \A x \in AllSockets \ lost : Sending(x) BY <1>1, <1>6 DEF WireInv
    <3> QED BY <2>2, <3>1 DEF Sending
  <2>4. \A x \in AllSockets : reqs[x] = <<>> /\ reps[x] = <<>> BY <1>5, <2>3 DEF Quiet
  <2> QED BY <1>6, <2>1, <2>4
<1>7. CASE pc = "recv"
  <2>1. at \in 1..2 /\ Len(replies) = at - 1 /\ replies \in Seq(Replies)
    BY <1>1, <1>3, <1>7 DEF RoundInv, Working
  <2>2. \A x \in AllSockets \ lost :
          multi[x] = <<>> /\ Len(reqs[x]) + Len(reps[x]) = Cardinality(From(round, at, x))
    BY <1>1, <1>2, <1>7 DEF WireInv, Receiving
  <2>3. ASSUME NEW x \in AllSockets, x # s \/ at = 2 PROVE reqs[x] = <<>> /\ reps[x] = <<>>
    <3>1. CASE x \in lost BY <1>5, <3>1
    <3>2. CASE x \notin lost
      <4>1. From(round, at, x) = {}
        <5>1. \A i \in at..1 : i = 1 /\ at = 1 BY <2>1
        <5> QED BY <1>3, <2>3, <5>1 DEF From
      <4>2. Len(reqs[x]) + Len(reps[x]) = 0 BY <2>2, <3>2, <4>1, FS_EmptySet
      <4>3. reqs[x] \in Seq(Requests) /\ reps[x] \in Seq(Answers) BY <1>1 DEF TypeInv
      <4> DEFINE a == reqs[x]
                 b == reps[x]
                 m == Len(a)
                 n == Len(b)
      <4>4. a \in Seq(Requests) /\ b \in Seq(Answers) /\ m + n = 0 BY <4>2, <4>3
      <4> HIDE DEF a, b
      <4>5. m \in Nat /\ (a = <<>> <=> m = 0) BY <4>4, SeqFacts
      <4>6. n \in Nat /\ (b = <<>> <=> n = 0) BY <4>4, SeqFacts
      <4> HIDE DEF m, n
      <4>7. m = 0 /\ n = 0 BY <4>4, <4>5, <4>6
      <4>8. a = <<>> /\ b = <<>> BY <4>5, <4>6, <4>7
      <4> QED BY <4>8 DEF a, b
    <3> QED BY <3>1, <3>2
  <2>4. at = 1 => replies = <<>>
    <3>1. (replies = <<>>) <=> (Len(replies) = 0) BY <2>1, SeqFacts
    <3> QED BY <2>1, <3>1
  <2>5. at = 1 => Len(reqs[s]) + Len(reps[s]) <= 1
    <3>1. CASE s \in lost
      <4>1. reqs[s] = <<>> /\ reps[s] = <<>> /\ Len(<<>>) = 0 BY <1>5, <3>1, EmptySeq
      <4> QED BY <4>1
    <3>2. CASE s \notin lost /\ at = 1
      <4>1. From(round, at, s) = {1}
        <5>1. \A i \in 1..1 : i = 1 OBVIOUS
        <5>2. 1 \in 1..1 OBVIOUS
        <5> QED BY <1>3, <3>2, <5>1, <5>2 DEF From
      <4>2. Cardinality({1}) = 1 BY FS_Singleton
      <4> DEFINE n == Len(reqs[s]) + Len(reps[s])
      <4>3. n = Cardinality(From(round, at, s)) BY <2>2, <3>2
      <4>4. n = 1 BY <4>1, <4>2, <4>3
      <4> HIDE DEF n
      <4>5. n <= 1 BY <4>4
      <4> QED BY <4>5 DEF n
    <3> QED BY <3>1, <3>2
  <2>6. at <= Len(round.reads) <=> at = 1 BY <1>3, <2>1
  <2>7. at > Len(round.reads) <=> at = 2 BY <1>3, <2>1
  <2>8. reqs[s] # <<>> => s \notin lost /\ at = 1 /\ multi[s] = <<>>
    <3>1. reqs[s] # <<>> => s \notin lost BY <1>5
    <3>2. reqs[s] # <<>> => at # 2 BY <2>3
    <3>3. at = 1 \/ at = 2 BY <2>1
    <3>4. \A x \in AllSockets \ lost : multi[x] = <<>> BY <2>2
    <3> QED BY <3>1, <3>2, <3>3, <3>4
  <2> QED BY <1>7, <2>3, <2>4, <2>5, <2>6, <2>7, <2>8
<1> QED BY <1>6, <1>7 DEF Working

\* A call that moves nothing, or is over, or a step that keeps the view.
LEMMA MoveOther ==
  ASSUME before' \in Databases,
         ~slipped' /\ ~disturbed' /\ Moves(call', before') => FALSE
  PROVE  MoveInv'
BY DEF MoveInv

\* A call that ends has kept what it must.
LEMMA MoveEnds ==
  ASSUME MoveInv, UNCHANGED <<connections, peer, db, store, call, before, disturbed>>,
         ~slipped' => ~slipped, ~Working'
  PROVE  MoveInv'
<1>1. View' = View BY SameView
<1> QED BY <1>1 DEF MoveInv

\* The next round of such a call starts, or the call is over.
LEMMA MoveEnter ==
  ASSUME NEW p, Enter(p), before' \in Databases,
         ~slipped' /\ ~disturbed' /\ Moves(call', before') =>
           /\ Keeps(call', before', View')
           /\ \A s \in AllSockets : reqs'[s] = <<>> /\ reps'[s] = <<>>
           /\ \A k \in Keys : Sock(k)' \in AllSockets /\ Socks'[k] = Sock(k)'
           /\ Halfway(call', before', got', View', Socks')
           /\ p.do = "round" =>
                \E k \in Keys, cmd \in Plainly, how \in Readers \ {"bye"} :
                  /\ p = AskAt(Sock(k)', cmd, how)
                  /\ Safe(call', before', got', View', Socks'[k], cmd, Socks'),
         p.do \in {"round", "return", "throw"}
  PROVE  MoveInv'
<1> SUFFICES ASSUME ~slipped', ~disturbed', Moves(call', before'), Working'
             PROVE  \E k \in Keys, cmd \in Plainly : MoveRound(Sock(k), cmd)'
  BY DEF MoveInv
<1>1. p.do = "round" /\ pc' = "send" /\ round' = p /\ replies' = <<>>
  BY DEF Enter, EndCall, Working
<1>2. PICK k \in Keys, cmd \in Plainly, how \in Readers \ {"bye"} :
        p = AskAt(Sock(k)', cmd, how) /\ Safe(call', before', got', View', Socks'[k], cmd, Socks')
  BY <1>1
<1> DEFINE s == Sock(k)'
<1>3. s \in AllSockets /\ Socks'[k] = s OBVIOUS
<1>4. reqs'[s] = <<>> /\ reps'[s] = <<>> BY <1>3
<1>5. /\ round'.sends = <<Send(s, <<cmd>>)>> /\ Len(round'.reads) = 1
      /\ round'.reads[1].from = s /\ round'.reads[1].as # "bye"
  <2> HIDE DEF s
  <2>1. round' = AskAt(s, cmd, how) BY <1>1, <1>2 DEF s
  <2> DEFINE e == Read(s, how)
  <2>2. round'.sends = <<Send(s, <<cmd>>)>> /\ round'.reads = <<e>> BY <2>1 DEF AskAt, Round
  <2>3. e.from = s /\ e.as # "bye" BY <1>2 DEF Read
  <2> HIDE DEF e
  <2>4. Len(<<e>>) = 1 /\ <<e>>[1] = e OBVIOUS
  <2> QED BY <2>2, <2>3, <2>4
<1>6. MoveRound(Sock(k), cmd)' BY <1>1, <1>2, <1>3, <1>4, <1>5 DEF MoveRound
<1> QED BY <1>6

\* What the next round asks, at the connections as they are.
LEMMA MoveNext ==
  ASSUME NEW c, IsCall(c), NEW D \in Databases, Moves(c, D), NEW V \in Databases, NEW g,
         GotOK(c, g), Halfway(c, D, g, V, Socks), Plan(c, g).do = "round"
  PROVE  \E k \in Keys, cmd \in Plainly, how \in Readers \ {"bye"} :
           Plan(c, g) = AskAt(Sock(k), cmd, how) /\ Safe(c, D, g, V, Socks[k], cmd, Socks)
<1>1. MoveGoes(Plan(c, g), c, D, g, V) BY MovePlan
<1> QED BY <1>1 DEF MoveGoes, Ask

\* Such a call begins.
LEMMA MoveBegin ==
  ASSUME IInv, MoveInv, NEW c \in CallSet, Begin(c), Moves(c, View), IsCall(c), ~slipped
  PROVE  MoveInv'
<1>1. c.f \notin {"open", "close"} BY MovingIs
<1>2. /\ pc = "idle" /\ connections # <<>> /\ call' = c /\ got' = <<>> /\ before' = View
      /\ Enter(Plan(c, <<>>))
      /\ "con" \in DOMAIN c => c.con <= Len(connections)
      /\ UNCHANGED <<connections, peer, db, store, reqs, reps>>
  BY <1>1 DEF Begin, wireVars, serverVars
<1>3. View' = View /\ Socks' = Socks /\ \A k \in Keys : Sock(k)' = Sock(k) BY <1>2, SameView
<1>4. View \in Databases /\ \A k \in Keys : Sock(k) \in AllSockets BY <1>2, ViewIs
<1>5. \A s \in AllSockets : reqs[s] = <<>> /\ reps[s] = <<>>
  <2>1. Calm BY <1>2, CalmIs DEF IInv, Working
  <2> QED BY <2>1 DEF Calm
<1>6. Keeps(c, View, View) /\ Halfway(c, View, <<>>, View, Socks)
  <2>1. Keeps(c, View, View) BY DEF Moves, Keeps, Renames
  <2>2. Len(<<>>) = 0 BY EmptySeq
  <2>3. \A b : View[c.old] = b => Copying(c, b, <<>>, View) BY <2>2 DEF Copying, Copied
  <2>4. Halfway(c, View, <<>>, View, Socks) BY <2>3 DEF Moves, Halfway, Renames
  <2> QED BY <2>1, <2>4
<1>7. GotOK(c, <<>>)
  <2>1. <<>> \in Seq(Seq(Replies)) /\ Len(<<>>) = 0 /\ DOMAIN <<>> = {} BY EmptySeq
  <2>2. ~(Len(<<>>) > First(c)) BY <2>1 DEF First
  <2> QED BY <2>1, <2>2 DEF GotOK
<1> DEFINE p == Plan(c, <<>>)
<1>8. p.do = "round" =>
        \E k \in Keys, cmd \in Plainly, how \in Readers \ {"bye"} :
          p = AskAt(Sock(k), cmd, how) /\ Safe(c, View, <<>>, View, Socks[k], cmd, Socks)
  BY <1>4, <1>6, <1>7, MoveNext
<1>9. p.do \in {"round", "return", "throw"}
  <2>1. Wired(Open \cup {NoSocket}) BY <1>2, WiredIs DEF IInv
  <2>2. Allowed(p, c, Open \cup {NoSocket}) BY <1>1, <1>2, <1>7, <2>1, PlanOK
  <2> QED BY <2>2 DEF Allowed
<1> HIDE DEF p
<1>10. \A k \in Keys : Socks[k] = Sock(k) BY DEF Socks
<1>11. Enter(p) BY <1>2 DEF p
<1> QED BY <1>2, <1>3, <1>4, <1>5, <1>6, <1>8, <1>9, <1>10, <1>11, MoveEnter

\* A round of such a call is over.
LEMMA MoveFinish ==
  ASSUME IInv, MoveInv, FinishRound PROVE MoveInv'
<1> DEFINE g == Append(got, replies)
<1>1. /\ pc = "recv" /\ at > Len(round.reads) /\ got' = g
      /\ Enter(Plan(call, g))
      /\ UNCHANGED <<call, peer, db, store, reqs, reps, before, disturbed, slipped>>
      /\ call.f # "open" => connections' = connections
  BY DEF FinishRound, wireVars, serverVars, history
<1> SUFFICES ASSUME ~slipped, ~disturbed, Moves(call, before) PROVE MoveInv'
  BY <1>1, MoveOther DEF MoveInv
<1>2. call.f \notin {"open", "close"} /\ call.f \notin MayBeEmpty BY MovingIs
<1>3. View' = View /\ Socks' = Socks /\ \A k \in Keys : Sock(k)' = Sock(k) BY <1>1, <1>2, SameView
<1>4. Working BY <1>1 DEF Working
<1>5. /\ connections # <<>> /\ IsCall(call)
      /\ "con" \in DOMAIN call => call.con <= Len(connections)
  BY <1>1, <1>2 DEF IInv, CallInv
<1>6. View \in Databases /\ \A k \in Keys : Sock(k) \in AllSockets BY <1>5, ViewIs
<1>7. \A s \in AllSockets : reqs[s] = <<>> /\ reps[s] = <<>> BY <1>1, RoundDone DEF Calm
<1>8. GotOK(call, g) /\ replies # <<>> BY <1>1, <1>2, GotMore
<1>9. before \in Databases /\ Keeps(call, before, View) BY DEF MoveInv
<1>10. Halfway(call, before, g, View, Socks)
  <2>1. PICK k \in Keys, cmd \in Plainly : MoveRound(Sock(k), cmd) BY <1>4 DEF MoveInv
  <2> QED BY <1>1, <1>8, <2>1 DEF MoveRound
<1> HIDE DEF g
<1> DEFINE p == Plan(call, g)
<1>11. p.do = "round" =>
        \E k \in Keys, cmd \in Plainly, how \in Readers \ {"bye"} :
          p = AskAt(Sock(k), cmd, how) /\ Safe(call, before, g, View, Socks[k], cmd, Socks)
  BY <1>5, <1>6, <1>8, <1>9, <1>10, MoveNext
<1>12. p.do \in {"round", "return", "throw"}
  <2>1. Wired(Open \cup {NoSocket}) BY <1>5, WiredIs DEF IInv
  <2>2. Allowed(p, call, Open \cup {NoSocket}) BY <1>2, <1>5, <1>8, <2>1, PlanOK
  <2> QED BY <2>2 DEF Allowed
<1>13. Enter(p) BY <1>1
<1> HIDE DEF p
<1>14. \A k \in Keys : Socks[k] = Sock(k) BY DEF Socks
<1> QED BY <1>1, <1>3, <1>6, <1>7, <1>9, <1>10, <1>11, <1>12, <1>13, <1>14, MoveEnter

\* A command or a reply of the round moves on, the databases stay.
LEMMA MoveGoesOn ==
  ASSUME MoveInv, Working' => Working,
         UNCHANGED <<connections, peer, db, store, call, before, disturbed, slipped, got, round>>,
         ASSUME NEW k \in Keys, NEW cmd \in Plainly, ~slipped, ~disturbed, Moves(call, before),
                Working', MoveRound(Sock(k), cmd)
         PROVE  LET s == Sock(k)
                IN  /\ pc' = "send" \/ reqs'[s] # <<>> => pc = "send" \/ reqs[s] # <<>>
                    /\ reqs'[s] # <<>> => reqs'[s][1].cmd = cmd
                    /\ reps'[s] # <<>> => reps[s] # <<>> /\ reps'[s] = reps[s]
                    /\ \/ replies' = replies
                       \/ reps[s] # <<>> /\ replies' = <<reps[s][1].reply>>
  PROVE  MoveInv'
<1>1. View' = View /\ Socks' = Socks /\ \A k \in Keys : Sock(k)' = Sock(k) BY SameView
<1> SUFFICES ASSUME ~slipped, ~disturbed, Moves(call, before), Working'
             PROVE  \E k \in Keys, cmd \in Plainly : MoveRound(Sock(k), cmd)'
  BY <1>1 DEF MoveInv
<1>2. PICK k \in Keys, cmd \in Plainly : MoveRound(Sock(k), cmd) BY DEF MoveInv
<1> DEFINE s == Sock(k)
<1>3. /\ pc' = "send" \/ reqs'[s] # <<>> => pc = "send" \/ reqs[s] # <<>>
      /\ reqs'[s] # <<>> => reqs'[s][1].cmd = cmd
      /\ reps'[s] # <<>> => reps[s] # <<>> /\ reps'[s] = reps[s]
      /\ replies' = replies \/ (reps[s] # <<>> /\ replies' = <<reps[s][1].reply>>)
  BY <1>2
<1>4. Sock(k)' = s BY <1>1
<1>5. MoveRound(s, cmd) BY <1>2
<1> HIDE DEF s
<1>6. /\ round.sends = <<Send(s, <<cmd>>)>>
      /\ Len(round.reads) = 1 /\ round.reads[1].from = s /\ round.reads[1].as # "bye"
  BY <1>5 DEF MoveRound
<1>7. pc' = "send" \/ reqs'[s] # <<>> =>
        Halfway(call, before, got, View, Socks) /\ Safe(call, before, got, View, s, cmd, Socks)
  BY <1>3, <1>5 DEF MoveRound
<1>8. reps'[s] # <<>> => Halfway(call, before, Append(got, <<reps'[s][1].reply>>), View, Socks)
  BY <1>3, <1>5 DEF MoveRound
<1>9. replies' # <<>> => Halfway(call, before, Append(got, replies'), View, Socks)
  BY <1>3, <1>5 DEF MoveRound
<1>10. MoveRound(Sock(k), cmd)'
  BY <1>1, <1>3, <1>4, <1>6, <1>7, <1>8, <1>9, ZenonT(60) DEF MoveRound
<1> QED BY <1>10

\* The command is sent, or fails to be.
LEMMA MoveSends == ASSUME IInv, MoveInv, SendNext PROVE MoveInv'
<1>1. pc = "send" /\ UNCHANGED <<peer, db, store, reps>> BY DEF SendNext, serverVars
<1>2. CASE Throw
  <2>1. /\ UNCHANGED <<connections, call, before, disturbed>> /\ pc' = "idle" /\ (~slipped' => ~slipped)
    BY <1>2 DEF Throw, GiveUp, EndCall
  <2> QED BY <1>1, <2>1, MoveEnds DEF Working
<1>3. ASSUME LET s == round.sends[at]
             IN  /\ reqs' = IF s.to \in lost THEN reqs
                            ELSE [reqs EXCEPT ![s.to] =
                                    @ \o [i \in DOMAIN s.cmds |-> [cmd |-> s.cmds[i], of |-> calls]]]
                 /\ IF at < Len(round.sends) THEN at' = at + 1 /\ pc' = pc
                    ELSE at' = 1 /\ pc' = "recv"
                 /\ UNCHANGED <<connections, call, got, round, replies, closing, outcome, history>>
      PROVE  MoveInv'
  <2>1. UNCHANGED <<connections, peer, db, store, call, before, disturbed, slipped, got, round, replies, reps>>
    BY <1>1, <1>3 DEF history
  <2>2. Working BY <1>1 DEF Working
  <2>3. ASSUME NEW k \in Keys, NEW cmd \in Plainly, ~slipped, ~disturbed, Moves(call, before),
               MoveRound(Sock(k), cmd)
        PROVE  LET s == Sock(k)
               IN  /\ pc' = "send" \/ reqs'[s] # <<>> => pc = "send" \/ reqs[s] # <<>>
                   /\ reqs'[s] # <<>> => reqs'[s][1].cmd = cmd
                   /\ reps'[s] # <<>> => reps[s] # <<>> /\ reps'[s] = reps[s]
                   /\ \/ replies' = replies
                      \/ reps[s] # <<>> /\ replies' = <<reps[s][1].reply>>
    <3> DEFINE s == Sock(k)
               e == [cmd |-> cmd, of |-> calls]
    <3>1. call.f \notin {"open", "close"} BY <2>3, MovingIs
    <3>2. connections # <<>> BY <1>1, <3>1 DEF IInv, CallInv
    <3>3. s \in AllSockets BY <3>2, ViewIs
    <3>4. at = 1 /\ reqs[s] = <<>> /\ reps[s] = <<>> BY <1>1, <2>2, <2>3, <3>3, OneUnderWay
    <3>5. round.sends[1] = Send(s, <<cmd>>)
      <4>1. round.sends = <<Send(s, <<cmd>>)>> BY <2>3 DEF MoveRound
      <4> QED BY <4>1
    <3>6. round.sends[at].to = s /\ round.sends[at].cmds = <<cmd>> BY <3>4, <3>5 DEF Send
    <3>7. reqs \in [AllSockets -> Seq(Requests)] BY DEF IInv, TypeInv
    <3>8. [i \in DOMAIN <<cmd>> |-> [cmd |-> <<cmd>>[i], of |-> calls]] = <<e>>
      <4>1. DOMAIN <<cmd>> = {1} /\ <<cmd>>[1] = cmd OBVIOUS
      <4>2. DOMAIN <<e>> = {1} /\ <<e>>[1] = e /\ <<e>> = [i \in {1} |-> e] OBVIOUS
      <4> QED BY <4>1, <4>2
    <3>9. e.cmd = cmd OBVIOUS
    <3> HIDE DEF e
    <3>10. reqs' = reqs \/ reqs' = [reqs EXCEPT ![s] = reqs[s] \o <<e>>] BY <1>3, <3>6, <3>8
    <3>11. <<>> \o <<e>> = <<e>> /\ <<e>>[1] = e OBVIOUS
    <3>12. reqs'[s] # <<>> => reqs'[s] = <<e>> BY <3>3, <3>4, <3>7, <3>10, <3>11
    <3>13. reqs'[s] # <<>> => reqs'[s][1].cmd = cmd BY <3>9, <3>11, <3>12
    <3> QED BY <1>1, <2>1, <3>13
  <2> QED BY Zenon, <2>1, <2>2, <2>3, MoveGoesOn
<1> QED BY <1>2, <1>3, ZenonT(60) DEF SendNext

\* The reply is read, or is not what is expected.
LEMMA MoveReceives == ASSUME IInv, MoveInv, Receive PROVE MoveInv'
<1> DEFINE s == round.reads[at].from
           r == reps[s][1].reply
           ok == Accepts(round.reads[at].as, r)
<1>1. /\ pc = "recv" /\ at <= Len(round.reads)
      /\ UNCHANGED <<call, got, reqs, lost, peer, db, multi, store, before, disturbed>>
      /\ reps[s] # <<>> /\ reps' = [reps EXCEPT ![s] = Tail(@)]
      /\ connections' = Selected(ok, s)
      /\ IF ok
         THEN /\ replies' = Append(replies, r) /\ at' = at + 1
              /\ UNCHANGED <<pc, round, outcome, slipped, failed>>
         ELSE GiveUp
  BY DEF Receive, serverVars
<1>2. Working BY <1>1 DEF Working
<1>3. slipped => slipped' BY <1>1 DEF GiveUp
<1>4. before \in Databases BY DEF MoveInv
<1> SUFFICES ASSUME ~slipped, ~disturbed, Moves(call, before) PROVE MoveInv'
  BY <1>1, <1>3, <1>4, MoveOther
<1>5. call.f \notin {"open", "close", "select"} BY MovingIs
<1>6. connections' = connections BY <1>1, <1>5 DEF Selected
<1>7. CASE ~ok
  <2>1. pc' = "idle" BY <1>1, <1>7 DEF GiveUp, EndCall
  <2> QED BY <1>1, <1>3, <1>6, <2>1, MoveEnds, SMTT(60) DEF Working
<1>8. CASE ok
  <2>1. IInv' BY ReceiveStep
  <2>2. UNCHANGED <<pc, round, slipped>> /\ replies' = Append(replies, r) /\ at' = at + 1
    BY <1>1, <1>8
  <2>3. ASSUME NEW k \in Keys, NEW cmd \in Plainly, MoveRound(Sock(k), cmd)
        PROVE  LET x == Sock(k)
               IN  /\ pc' = "send" \/ reqs'[x] # <<>> => pc = "send" \/ reqs[x] # <<>>
                   /\ reqs'[x] # <<>> => reqs'[x][1].cmd = cmd
                   /\ reps'[x] # <<>> => reps[x] # <<>> /\ reps'[x] = reps[x]
                   /\ \/ replies' = replies
                      \/ reps[x] # <<>> /\ replies' = <<reps[x][1].reply>>
    <3> DEFINE x == Sock(k)
    <3>1. connections # <<>> BY <1>1, <1>5 DEF IInv, CallInv
    <3>2. x \in AllSockets BY <3>1, ViewIs
    <3>3. at = 1 /\ replies = <<>> /\ Len(reqs[x]) + Len(reps[x]) <= 1
      BY <1>1, <1>2, <2>3, <3>2, OneUnderWay
    <3>4. s = x BY <2>3, <3>3 DEF MoveRound
    <3>5. reqs[x] \in Seq(Requests) /\ reps[x] \in Seq(Answers) /\ reps \in [AllSockets -> Seq(Answers)]
      BY <3>2 DEF IInv, TypeInv
    <3>6. reqs[x] = <<>> /\ Len(reps[x]) = 1
      <4> DEFINE a == reqs[x]
                 b == reps[x]
                 m == Len(a)
                 n == Len(b)
      <4>1. a \in Seq(Requests) /\ b \in Seq(Answers) /\ m + n <= 1 /\ b # <<>>
        BY <1>1, <3>3, <3>4, <3>5
      <4> HIDE DEF a, b
      <4>2. m \in Nat /\ (a = <<>> <=> m = 0) BY <4>1, SeqFacts
      <4>3. n \in Nat /\ (b = <<>> <=> n = 0) BY <4>1, SeqFacts
      <4> HIDE DEF m, n
      <4>4. m = 0 /\ n = 1 BY <4>1, <4>2, <4>3
      <4>5. a = <<>> BY <4>2, <4>4
      <4> QED BY <4>4, <4>5 DEF a, b, n
    <3>7. Tail(reps[x]) = <<>>
      <4> DEFINE q == reps[x]
                 t == Tail(q)
      <4>1. q \in Seq(Answers) /\ q # <<>> /\ Len(q) = 1 BY <1>1, <3>4, <3>5, <3>6
      <4> HIDE DEF q
      <4>2. t \in Seq(Answers) /\ Len(t) = Len(q) - 1 BY <4>1, TailIs
      <4>3. Len(t) = 0 BY <4>1, <4>2
      <4> HIDE DEF t
      <4>4. t = <<>> BY <4>2, <4>3, SeqFacts
      <4> QED BY <4>4 DEF t, q
    <3>8. reps'[x] = <<>> BY <1>1, <3>2, <3>4, <3>5, <3>7
    <3>9. replies' = <<reps[x][1].reply>>
      <4>1. replies' = Append(<<>>, r) BY <2>2, <3>3
      <4> HIDE DEF r
      <4>2. Append(<<>>, r) = <<r>> OBVIOUS
      <4>3. replies' = <<r>> BY <4>1, <4>2
      <4> QED BY <3>4, <4>3 DEF r
    <3>10. pc' # "send" /\ reqs'[x] = <<>> /\ reps[x] # <<>> BY <1>1, <2>2, <3>4, <3>6
    <3> QED BY SMTT(60), <3>8, <3>9, <3>10
  <2> QED BY Zenon, <1>1, <1>2, <1>6, <2>2, <2>3, MoveGoesOn
<1> QED BY SMTT(60), <1>7, <1>8

\* There is no reply to read.
LEMMA MoveReceivesNot == ASSUME IInv, MoveInv, ReceiveFails PROVE MoveInv'
<1>1. /\ pc = "recv" /\ at <= Len(round.reads) /\ UNCHANGED <<peer, db, store>>
  BY DEF ReceiveFails, serverVars
<1>2. CASE Throw
  <2>1. /\ UNCHANGED <<connections, call, before, disturbed>> /\ pc' = "idle" /\ (~slipped' => ~slipped)
    BY <1>2 DEF Throw, GiveUp, EndCall
  <2> QED BY <1>1, <2>1, MoveEnds DEF Working
<1>3. CASE ~Throw
  <2>1. round.reads[at].as = "bye" /\ UNCHANGED <<call, before, disturbed, slipped>>
    BY <1>3 DEF ReceiveFails, history
  <2>2. before \in Databases BY DEF MoveInv
  <2> SUFFICES ASSUME ~slipped, ~disturbed, Moves(call, before) PROVE FALSE
    BY <2>1, <2>2, MoveOther
  <2>3. Working BY <1>1 DEF Working
  <2>4. PICK k \in Keys, cmd \in Plainly : MoveRound(Sock(k), cmd) BY <2>3 DEF MoveInv
  <2>5. call.f \notin {"open", "close"} BY MovingIs
  <2>6. connections # <<>> BY <1>1, <2>5 DEF IInv, CallInv
  <2>7. Sock(k) \in AllSockets BY <2>6, ViewIs
  <2>8. at = 1 BY <1>1, <2>3, <2>4, <2>7, OneUnderWay
  <2> QED BY <2>1, <2>4, <2>8 DEF MoveRound
<1> QED BY <1>2, <1>3

\* What a server does to the databases, as the client sees it.
LEMMA ViewTurns ==
  ASSUME IInv, connections # <<>>, NEW s \in AllSockets, peer[s] \in ToSet(Servers), db[s] \in DBs,
         NEW cmd, NEW a, a = Run(store[peer[s]][db[s]], cmd),
         UNCHANGED <<connections, peer, db>>,
         store' = [store EXCEPT ![peer[s]] = [store[peer[s]] EXCEPT ![db[s]] = a.db]]
  PROVE  Turns(store[peer[s]][db[s]], cmd, s, View, View', Socks)
<1> DEFINE B == store[peer[s]][db[s]]
<1>1. \A k \in Keys : Sock(k)' = Sock(k) BY DEF Sock
<1>2. store \in [ToSet(Servers) -> [DBs -> Databases]] BY DEF IInv, TypeInv, Stores
<1> SUFFICES ASSUME NEW k \in Keys
             PROVE  /\ Socks[k] = s => B[k] = View[k] /\ View'[k] = Run(B, cmd).db[k]
                    /\ Run(B, cmd).db[k] = B[k] => View'[k] = View[k]
  BY DEF Turns
<1> DEFINE x == Sock(k)
           p == peer[x]
           d == db[x]
           q == peer[s]
           e == db[s]
<1>3. Socks[k] = x BY DEF Socks
<1>4. p \in ToSet(Servers) /\ d \in DBs /\ View[k] = store[p][d][k] BY ViewIs
<1>5. View'[k] = store'[p][d][k] BY <1>1 DEF View
<1>6. q \in ToSet(Servers) /\ e \in DBs /\ B = store[q][e]
      /\ store' = [store EXCEPT ![q] = [store[q] EXCEPT ![e] = a.db]]
  OBVIOUS
<1>7. x = s => p = q /\ d = e OBVIOUS
<1>8. a = Run(B, cmd) OBVIOUS
<1> HIDE DEF x, p, d, q, e, B, Databases
<1>9. store'[p][d] = IF p = q /\ d = e THEN a.db ELSE store[p][d]
  <2>1. store[q] \in [DBs -> Databases] BY <1>2, <1>6
  <2>2. CASE p = q
    <3>1. store'[p] = [store[q] EXCEPT ![e] = a.db] BY <1>2, <1>4, <1>6, <2>2
    <3> QED BY <1>4, <2>1, <2>2, <3>1
  <2>3. CASE p # q
    <3>1. store'[p] = store[p] BY <1>2, <1>4, <1>6, <2>3
    <3> QED BY <2>3, <3>1
  <2> QED BY <2>2, <2>3
<1>10. Socks[k] = s => B[k] = View[k] /\ View'[k] = Run(B, cmd).db[k]
  BY <1>3, <1>4, <1>5, <1>6, <1>7, <1>8, <1>9
<1>11. Run(B, cmd).db[k] = B[k] => View'[k] = View[k]
  BY <1>4, <1>5, <1>6, <1>8, <1>9
<1> QED BY <1>10, <1>11

\* A server processes the command.
LEMMA MoveProcess == ASSUME IInv, MoveInv, NEW s \in AllSockets, Process(s) PROVE MoveInv'
<1>1. reqs[s] # <<>> /\ UNCHANGED <<clientVars, peer, history>> BY DEF Process
<1>2. UNCHANGED <<connections, pc, call, got, round, at, replies, before, disturbed, slipped>>
  BY <1>1 DEF clientVars, history
<1>3. before \in Databases BY DEF MoveInv
<1> SUFFICES ASSUME ~slipped, ~disturbed, Moves(call, before) PROVE MoveInv'
  BY <1>2, <1>3, MoveOther
<1>4. /\ Working /\ peer[s] \in ToSet(Servers) /\ db[s] \in DBs
      /\ store[peer[s]][db[s]] \in Databases
  BY <1>1, ServedIs
<1>5. PICK k \in Keys, cmd \in Plainly : MoveRound(Sock(k), cmd) BY <1>4 DEF MoveInv
<1>6. call.f \notin {"open", "close"} BY MovingIs
<1>7. connections # <<>> BY <1>4, <1>6 DEF IInv, CallInv, Working
<1>8. Sock(k) \in AllSockets BY <1>7, ViewIs
<1>9. Sock(k) = s BY <1>1, <1>4, <1>5, <1>8, OneUnderWay
<1>10. /\ pc = "recv" /\ at = 1 /\ multi[s] = <<>> BY <1>1, <1>4, <1>5, <1>8, <1>9, OneUnderWay
<1>11. Len(round.reads) = 1 BY <1>5 DEF MoveRound
<1>12. replies = <<>> /\ Len(reqs[s]) + Len(reps[s]) <= 1
  <2>1. at <= Len(round.reads) BY <1>10, <1>11
  <2> QED BY <1>4, <1>5, <1>8, <1>9, <1>10, <2>1, OneUnderWay
<1>13. reqs[s][1].cmd = cmd BY <1>1, <1>5, <1>9 DEF MoveRound
<1>14. cmd[1] \notin {"SELECT", "LASTSAVE", "FLUSHALL", "SHUTDOWN", "MULTI", "EXEC"}
  BY PlainVerbs DEF Control
<1> DEFINE B == store[peer[s]][db[s]]
           a == Run(B, cmd)
<1>15. /\ reqs' = [reqs EXCEPT ![s] = Tail(@)] /\ Says(s, <<a.reply>>)
       /\ store' = [store EXCEPT ![peer[s]] = [store[peer[s]] EXCEPT ![db[s]] = a.db]]
       /\ db' = db
  <2>1. ~InMulti(s) BY <1>10 DEF InMulti
  <2> DEFINE e == Serve(s, cmd)
  <2>2. e = [reply |-> a.reply, db |-> db[s], data |-> [store[peer[s]] EXCEPT ![db[s]] = a.db]]
    BY <1>14 DEF Serve
  <2> HIDE DEF a
  <2>3. e.reply = a.reply /\ e.db = db[s] /\ e.data = [store[peer[s]] EXCEPT ![db[s]] = a.db]
    BY <2>2
  <2> HIDE DEF e
  <2>4. /\ reqs' = [reqs EXCEPT ![s] = Tail(@)] /\ Says(s, <<e.reply>>)
        /\ store' = [store EXCEPT ![peer[s]] = e.data] /\ db' = [db EXCEPT ![s] = e.db]
    BY <1>13, <1>14, <2>1 DEF Process, e
  <2>5. db \in [AllSockets -> DBs] BY DEF IInv, TypeInv
  <2> QED BY <2>3, <2>4, <2>5
<1> DEFINE w == a.reply
<1>16. reqs'[s] = <<>> /\ reps'[s] # <<>> /\ reps'[s][1].reply = w
  <2>1. /\ reqs \in [AllSockets -> Seq(Requests)] /\ reps \in [AllSockets -> Seq(Answers)]
    BY DEF IInv, TypeInv
  <2> HIDE DEF w, a
  <2> DEFINE x == reqs[s]
             y == reps[s]
             m == Len(x)
             n == Len(y)
             u == [reply |-> w, of |-> reqs[s][1].of]
  <2>2. x \in Seq(Requests) /\ y \in Seq(Answers) /\ m + n <= 1 /\ x # <<>> BY <1>1, <1>12, <2>1
  <2>3. reqs'[s] = Tail(x) BY <1>15, <2>1
  <2>4. reps'[s] = y \o [i \in DOMAIN <<w>> |-> [reply |-> <<w>>[i], of |-> reqs[s][1].of]]
    BY <1>15, <2>1 DEF Says, w
  <2>5. [i \in DOMAIN <<w>> |-> [reply |-> <<w>>[i], of |-> reqs[s][1].of]] = <<u>>
    <3>1. DOMAIN <<w>> = {1} /\ <<w>>[1] = w OBVIOUS
    <3>2. DOMAIN <<u>> = {1} /\ <<u>>[1] = u /\ <<u>> = [i \in {1} |-> u] OBVIOUS
    <3> QED BY <3>1, <3>2
  <2>6. u.reply = w OBVIOUS
  <2> HIDE DEF x, y, u
  <2>7. m \in Nat /\ (x = <<>> <=> m = 0) BY <2>2, SeqFacts
  <2>8. n \in Nat /\ (y = <<>> <=> n = 0) BY <2>2, SeqFacts
  <2>9. Tail(x) \in Seq(Requests) /\ Len(Tail(x)) = m - 1 BY <2>2, TailIs
  <2> HIDE DEF m, n
  <2>10. m = 1 /\ n = 0 BY <2>2, <2>7, <2>8
  <2>11. Tail(x) = <<>>
    <3> DEFINE t == Tail(x)
    <3>1. t \in Seq(Requests) /\ Len(t) = 0 BY <2>9, <2>10
    <3> HIDE DEF t
    <3>2. t = <<>> BY <3>1, SeqFacts
    <3> QED BY <3>2 DEF t
  <2>12. y = <<>> BY <2>8, <2>10
  <2>13. <<>> \o <<u>> = <<u>> /\ <<u>> # <<>> /\ <<u>>[1] = u OBVIOUS
  <2>14. reps'[s] = <<u>> BY <2>4, <2>5, <2>12, <2>13
  <2> QED BY <2>3, <2>6, <2>11, <2>13, <2>14
<1>17. Turns(B, cmd, s, View, View', Socks)
  <2>1. a = Run(B, cmd) OBVIOUS
  <2> HIDE DEF a
  <2> QED BY <1>1, <1>2, <1>4, <1>7, <1>15, <2>1, ViewTurns
<1>18. Socks' = Socks /\ \A l \in Keys : Sock(l)' = Sock(l)
  <2>1. \A l \in Keys : Sock(l)' = Sock(l) BY <1>2 DEF Sock
  <2> QED BY <2>1 DEF Socks
<1>19. View' \in Databases
  <2>1. IInv' BY ProcessStep
  <2>2. connections' # <<>> BY <1>2, <1>7
  <2>3. (IInv /\ connections # <<>> => View \in Databases)' BY ViewIs, PTL
  <2> QED BY <2>1, <2>2, <2>3
<1>20. Safe(call, before, got, View, s, cmd, Socks) BY <1>1, <1>5, <1>9 DEF MoveRound
<1>21. Keeps(call, before, View') /\ Halfway(call, before, Append(got, <<w>>), View', Socks)
  BY <1>4, <1>17, <1>19, <1>20 DEF Safe
<1> HIDE DEF w, a, B
<1>22. MoveRound(s, cmd) BY <1>5, <1>9
<1>23. /\ round.sends = <<Send(s, <<cmd>>)>> /\ Len(round.reads) = 1
       /\ round.reads[1].from = s /\ round.reads[1].as # "bye"
  BY <1>22 DEF MoveRound
<1>24. MoveRound(Sock(k), cmd)'
  <2>1. Sock(k)' = s BY <1>9, <1>18
  <2> QED BY <1>2, <1>10, <1>12, <1>16, <1>18, <1>21, <1>23, <2>1 DEF MoveRound
<1> QED BY <1>2, <1>3, <1>21, <1>24 DEF MoveInv

\* A connection is lost, or nothing happens.
LEMMA MoveLoses ==
  ASSUME IInv, MoveInv, NEW s \in AllSockets, Lose(s) PROVE MoveInv'
<1>1. UNCHANGED <<connections, pc, call, got, round, at, replies, peer, db, store, before,
                  disturbed, slipped>>
  BY DEF Lose, clientVars, history
<1>2. /\ reqs' = [reqs EXCEPT ![s] = <<>>] /\ reps' = [reps EXCEPT ![s] = <<>>]
      /\ reqs \in [AllSockets -> Seq(Requests)] /\ reps \in [AllSockets -> Seq(Answers)]
  BY DEF Lose, IInv, TypeInv
<1>3. \A x \in AllSockets : /\ reqs'[x] = reqs[x] \/ reqs'[x] = <<>>
                            /\ reps'[x] = reps[x] \/ reps'[x] = <<>>
  BY <1>2
<1>4. ASSUME NEW k \in Keys, NEW cmd \in Plainly, ~slipped, ~disturbed, Moves(call, before),
             Working', MoveRound(Sock(k), cmd)
      PROVE  LET x == Sock(k)
             IN  /\ pc' = "send" \/ reqs'[x] # <<>> => pc = "send" \/ reqs[x] # <<>>
                 /\ reqs'[x] # <<>> => reqs'[x][1].cmd = cmd
                 /\ reps'[x] # <<>> => reps[x] # <<>> /\ reps'[x] = reps[x]
                 /\ \/ replies' = replies
                    \/ reps[x] # <<>> /\ replies' = <<reps[x][1].reply>>
  <2>1. call.f \notin {"open", "close"} BY <1>4, MovingIs
  <2>2. connections # <<>> BY <1>1, <1>4, <2>1 DEF IInv, CallInv, Working
  <2>3. Sock(k) \in AllSockets BY <2>2, ViewIs
  <2>4. reqs[Sock(k)] # <<>> => reqs[Sock(k)][1].cmd = cmd BY <1>4 DEF MoveRound
  <2> QED BY <1>1, <1>3, <2>3, <2>4
<1>5. Working' => Working BY <1>1 DEF Working
<1> QED BY Zenon, <1>1, <1>4, <1>5, MoveGoesOn

\* Nothing happens.
LEMMA MoveStays == ASSUME IInv, MoveInv, UNCHANGED vars PROVE MoveInv'
<1>1. UNCHANGED <<connections, pc, call, got, round, at, replies, peer, db, store, before,
                  disturbed, slipped, reqs, reps>>
  BY DEF vars, clientVars, wireVars, serverVars, history
<1>2. \A k \in Keys, cmd \in Plainly : MoveRound(Sock(k), cmd) =>
        (reqs[Sock(k)] # <<>> => reqs[Sock(k)][1].cmd = cmd)
  BY DEF MoveRound
<1>3. Working' => Working BY <1>1 DEF Working
<1> QED BY Zenon, <1>1, <1>2, <1>3, MoveGoesOn

\* At first no call moves anything.
LEMMA MoveInit == ASSUME Init PROVE MoveInv
<1>1. before = [k \in Keys |-> Nothing] /\ call = [f |-> "none"] BY DEF Init
<1>2. before \in Databases BY <1>1, ValueKinds DEF Databases
<1>3. call.f = "none" BY <1>1
<1>4. ~Moves(call, before) BY <1>3 DEF Moves, Renames
<1> QED BY <1>2, <1>4 DEF MoveInv

\* Every step keeps what such a call must keep.
LEMMA MoveStep == ASSUME IInv, MoveInv, [Next]_vars PROVE MoveInv'
<1>0. before \in Databases BY DEF MoveInv
<1>1. ASSUME NEW c \in CallSet, Begin(c) PROVE MoveInv'
  <2>1. /\ call' = c /\ slipped' = slipped
        /\ before' = IF connections = <<>> THEN before ELSE View
        /\ c.f # "open" => connections # <<>>
    BY <1>1 DEF Begin
  <2>2. before' \in Databases BY <1>0, <2>1, ViewIs
  <2>3. IsCall(c) BY CallAssumption
  <2>4. CASE ~slipped /\ Moves(c, before')
    <3>1. c.f # "open" BY <2>4, MovingIs
    <3>2. Moves(c, View) BY <2>1, <2>4, <3>1
    <3> QED BY <1>1, <2>3, <2>4, <3>2, MoveBegin
  <2> QED BY <2>1, <2>2, <2>4, MoveOther
<1>2. CASE Connect
  <2>1. pc = "connect" /\ call' = [call EXCEPT !.socket = NextSocket] /\ before' = before
    BY <1>2 DEF Connect, history
  <2>2. IsCall(call) /\ call.f = "open" BY <2>1 DEF IInv, CallInv
  <2>3. call'.f = "open"
    <3>1. "f" \in DOMAIN call /\ "f" # "socket" BY <2>2 DEF IsCall
    <3> QED BY <2>1, <2>2, <3>1
  <2>4. ~Moves(call', before') BY <2>3 DEF Moves, Renames
  <2> QED BY <1>0, <2>1, <2>4, MoveOther
<1>3. CASE ConnectFails
  <2>1. /\ UNCHANGED <<peer, db, store, connections, call, before, disturbed>>
        /\ pc' = "idle" /\ (~slipped' => ~slipped)
    BY <1>3 DEF ConnectFails, Throw, GiveUp, EndCall, serverVars
  <2> QED BY <2>1, MoveEnds DEF Working
<1>4. CASE SendNext BY <1>4, MoveSends
<1>5. CASE Receive BY <1>5, MoveReceives
<1>6. CASE ReceiveFails BY <1>6, MoveReceivesNot
<1>7. CASE FinishRound BY <1>7, MoveFinish
<1>8. CASE CloseAgain
  <2>1. /\ UNCHANGED <<peer, db, store, connections, call, before, disturbed, slipped>>
        /\ pc' \in {"close", "idle"}
    BY <1>8 DEF CloseAgain, EndCall, serverVars, history
  <2> QED BY <2>1, MoveEnds DEF Working
<1>9. ASSUME NEW s \in AllSockets, Process(s) PROVE MoveInv' BY <1>9, MoveProcess
<1>10. ASSUME NEW s \in AllSockets, Lose(s) PROVE MoveInv' BY <1>10, MoveLoses
<1>11. ASSUME NEW d \in Disturbers, Disturb(d[1], d[2]) PROVE MoveInv'
  <2>1. disturbed' = TRUE /\ before' = before BY <1>11 DEF Disturb
  <2> QED BY <1>0, <2>1, MoveOther
<1>12. CASE UNCHANGED vars BY <1>12, MoveStays
<1> QED BY <1>1, <1>2, <1>3, <1>4, <1>5, <1>6, <1>7, <1>8, <1>9, <1>10, <1>11, <1>12
        DEF Next, Client

\* From the invariant: no value is lost or doubled.
LEMMA MovesFollow == ASSUME MoveInv PROVE MovesSafe
<1> SUFFICES ASSUME ~slipped PROVE RenameKeepsValue /\ SMoveNeverTwice BY DEF MovesSafe
<1>1. RenameKeepsValue
  <2> SUFFICES ASSUME call.f \in {"rename", "renamenx"}, ~disturbed, before[call.old].type # "none"
               PROVE  before[call.old] \in {View[call.old], View[call.new]}
    BY DEF RenameKeepsValue
  <2>1. call.f \in Renames /\ Moves(call, before) BY DEF Moves, Renames
  <2>2. Keeps(call, before, View) BY <2>1 DEF MoveInv
  <2> QED BY <2>1, <2>2 DEF Keeps
<1>2. SMoveNeverTwice
  <2> SUFFICES ASSUME call.f = "smove", ~disturbed, call.member \notin before[call.dst].set
               PROVE  call.member \notin View[call.src].set \cap View[call.dst].set
    BY DEF SMoveNeverTwice
  <2>1. call.f \notin Renames /\ Moves(call, before) BY DEF Moves, Renames
  <2>2. Keeps(call, before, View) BY <2>1 DEF MoveInv
  <2> QED BY <2>1, <2>2 DEF Keeps
<1> QED BY <1>1, <1>2

\* A value that moves between keys, perhaps between servers, is not lost by
\* rename and not doubled by smove, at any moment: whichever connection is
\* lost in between, as long as no earlier call gave up and no other client
\* writes.
THEOREM MovesKept == Spec => []MovesSafe
<1>1. Init => IInv /\ MoveInv BY InitStep, MoveInit
<1>2. (IInv /\ MoveInv) /\ [Next]_vars => (IInv /\ MoveInv)' BY EveryStep, MoveStep
<1>3. MoveInv => MovesSafe BY MovesFollow
<1> QED BY <1>1, <1>2, <1>3, PTL DEF Spec
=============================================================================
