---------------------------- MODULE RedisServer ----------------------------
(***************************************************************************)
(* What a redis server does with one command on one database: external,    *)
(* as redisclient.h uses it.  A command is a sequence of words, a          *)
(* database a function from keys to values, a reply a record of what the   *)
(* readers of the client look at.                                          *)
(***************************************************************************)
EXTENDS Integers, FiniteSets, SequencesExt, TLC

CONSTANT Keys

ASSUME KeysAssumption == Keys \subseteq STRING /\ IsFiniteSet(Keys)

\* Words are strings (the provers have to be told).
ASSUME WordsAssumption ==
  {"none", "string", "list", "set", "hash", "status", "int", "bulk", "multi", "error", "header",
   "OK", "ERR", "QUEUED", "Background saving started", "**nonexistent-key**", "0", "-1", "*",
   "secs", "password", "GET", "SET", "MSET", "EXPIRE", "MGET", "DEL", "EXISTS", "TYPE", "KEYS",
   "DBSIZE", "RENAME", "RENAMENX", "LRANGE", "RPUSH", "SADD", "SREM", "SPOP", "SMOVE",
   "SMEMBERS", "SINTER", "SUNION", "SDIFF", "SINTERSTORE", "SUNIONSTORE", "SDIFFSTORE",
   "FLUSHDB", "FLUSHALL", "SAVE", "AUTH", "BGSAVE", "LASTSAVE", "RANDOMKEY", "SHUTDOWN",
   "MULTI", "EXEC"} \subseteq STRING

\* A value: a string or a list is a sequence, a set is a set; the client
\* does not look into the other types.
Stored(type, seq, set) == [type |-> type, seq |-> seq, set |-> set]

Nothing == Stored("none", <<>>, {})
Str(v)  == Stored("string", <<v>>, {})
List(s) == IF s = <<>> THEN Nothing ELSE Stored("list", s, {})
Set(S)  == IF S = {} THEN Nothing ELSE Stored("set", <<>>, S)
Hash    == Stored("hash", <<>>, {})

Missing == "**nonexistent-key**"    \* what the client makes of a nil reply

\* What a key can hold.
IsValue(v) ==
  /\ v \in [type : STRING, seq : Seq(STRING), set : SUBSET STRING] /\ IsFiniteSet(v.set)
  /\ (v.type = "none") <=> (v = Nothing)
  /\ (v.type # "set") <=> (v.set = {})
  /\ (v.type = "string") => Len(v.seq) = 1
  /\ (v.type = "list") => v.seq # <<>>
  /\ (v.type = "set") => v.seq = <<>>

Reply(t, words, n) == [t |-> t, words |-> words, n |-> n]

OK         == Reply("status", <<"OK">>, 0)
Count(n)   == Reply("int", <<>>, n)
Bulk(v)    == Reply("bulk", <<v>>, 0)
Multi(s)   == Reply("multi", s, 0)
Error      == Reply("error", <<"ERR">>, 0)

-----------------------------------------------------------------------------
Answer(db, reply) == [db |-> db, reply |-> reply]

IsOf(db, key, type) == db[key].type \in {"none", type}

\* The set that SINTER, SUNION or SDIFF makes of the sets at the keys.
Combined(db, verb, keys) ==
  LET sets == {db[k].set : k \in ToSet(keys)}
  IN  CASE verb = "SINTER" -> {m \in db[keys[1]].set : \A S \in sets : m \in S}
        [] verb = "SUNION" -> UNION sets
        [] verb = "SDIFF"  -> db[keys[1]].set \ UNION {db[k].set : k \in ToSet(Tail(keys))}

Plain == [SINTERSTORE |-> "SINTER", SUNIONSTORE |-> "SUNION", SDIFFSTORE |-> "SDIFF"]

\* MSET: a key that is named twice gets its last value.
AllSet(db, pairs) ==
  [k \in Keys |->
     LET at == {i \in DOMAIN pairs : i % 2 = 1 /\ pairs[i] = k}
     IN  IF at = {} THEN db[k] ELSE Str(pairs[(CHOOSE i \in at : \A j \in at : j <= i) + 1])]

OnSet(db, verb, key, members) ==
  LET S   == db[key].set
      new == IF verb = "SADD" THEN S \cup members ELSE S \ members
      diff == Cardinality(new \ S) + Cardinality(S \ new)
  IN  Answer([db EXCEPT ![key] = Set(new)], Count(diff))

Moved(db, from, to) ==
  IF from = to THEN db ELSE [db EXCEPT ![to] = db[from], ![from] = Nothing]

Has(db, key) == db[key].type # "none"
Held(db)     == {k \in Keys : Has(db, k)}

\* The commands.
GetOf(db, key) ==
  Answer(db, IF ~Has(db, key) THEN Bulk(Missing)
             ELSE IF IsOf(db, key, "string") THEN Bulk(db[key].seq[1]) ELSE Error)

SetTo(db, key, word) == Answer([db EXCEPT ![key] = Str(word)], OK)

MGetOf(db, keys) ==
  Answer(db, Multi([i \in DOMAIN keys |-> IF db[keys[i]].type = "string" THEN db[keys[i]].seq[1]
                                          ELSE Missing]))

DelOf(db, keys) ==
  Answer([k \in Keys |-> IF k \in ToSet(keys) THEN Nothing ELSE db[k]],
         Count(Cardinality(Held(db) \cap ToSet(keys))))

Exists(db, key) == Answer(db, Count(IF Has(db, key) THEN 1 ELSE 0))

TypeOf(db, key) == Answer(db, Reply("status", <<db[key].type>>, 0))

AllKeys(db) == Answer(db, Multi(SetToSeq(Held(db))))

DbSize(db) == Answer(db, Count(Cardinality(Held(db))))

RandomKey(db) ==
  Answer(db, IF Held(db) # {} THEN Bulk(CHOOSE k \in Held(db) : TRUE) ELSE Bulk(Missing))

RenameTo(db, key, to) ==
  IF ~Has(db, key) THEN Answer(db, Error) ELSE Answer(Moved(db, key, to), OK)

RenameUnless(db, key, to) ==
  IF ~Has(db, key) THEN Answer(db, Error)
  ELSE IF Has(db, to) THEN Answer(db, Count(0))
  ELSE Answer(Moved(db, key, to), Count(1))

Elements(db, key) == Answer(db, IF IsOf(db, key, "list") THEN Multi(db[key].seq) ELSE Error)

Push(db, key, word) ==
  IF ~IsOf(db, key, "list") THEN Answer(db, Error)
  ELSE Answer([db EXCEPT ![key] = List(Append(db[key].seq, word))], Count(Len(db[key].seq) + 1))

Change(db, verb, key, members) ==
  IF IsOf(db, key, "set") THEN OnSet(db, verb, key, members) ELSE Answer(db, Error)

Pop(db, key) ==
  LET m == CHOOSE x \in db[key].set : TRUE
  IN  IF ~IsOf(db, key, "set") THEN Answer(db, Error)
      ELSE IF ~Has(db, key) THEN Answer(db, Bulk(Missing))
      ELSE Answer([db EXCEPT ![key] = Set(db[key].set \ {m})], Bulk(m))

MoveMember(db, key, to, member) ==
  IF ~IsOf(db, key, "set") \/ ~IsOf(db, to, "set") THEN Answer(db, Error)
  ELSE IF member \notin db[key].set THEN Answer(db, Count(0))
  ELSE Answer(OnSet(OnSet(db, "SREM", key, {member}).db, "SADD", to, {member}).db, Count(1))

Members(db, key) ==
  Answer(db, IF IsOf(db, key, "set") THEN Multi(SetToSeq(db[key].set)) ELSE Error)

AreSets(db, keys) == \A k \in ToSet(keys) : IsOf(db, k, "set")

Combine(db, verb, keys) ==
  Answer(db, IF AreSets(db, keys) THEN Multi(SetToSeq(Combined(db, verb, keys))) ELSE Error)

CombineTo(db, verb, key, keys) ==
  IF AreSets(db, keys)
  THEN Answer([db EXCEPT ![key] = Set(Combined(db, verb, keys))],
              Count(Cardinality(Combined(db, verb, keys))))
  ELSE Answer(db, Error)

Run(db, cmd) ==
  LET verb == cmd[1]
      args == Tail(cmd)
      key  == args[1]
  IN
  CASE verb = "GET"       -> GetOf(db, key)
    [] verb = "SET"       -> SetTo(db, key, args[2])
    [] verb = "MSET"      -> Answer(AllSet(db, args), OK)
    [] verb = "EXPIRE"    -> Exists(db, key)
    [] verb = "MGET"      -> MGetOf(db, args)
    [] verb = "DEL"       -> DelOf(db, args)
    [] verb = "EXISTS"    -> Exists(db, key)
    [] verb = "TYPE"      -> TypeOf(db, key)
    [] verb = "KEYS"      -> AllKeys(db)
    [] verb = "DBSIZE"    -> DbSize(db)
    [] verb = "RENAME"    -> RenameTo(db, key, args[2])
    [] verb = "RENAMENX"  -> RenameUnless(db, key, args[2])
    [] verb = "LRANGE"    -> Elements(db, key)
    [] verb = "RPUSH"     -> Push(db, key, args[2])
    [] verb \in {"SADD", "SREM"} -> Change(db, verb, key, ToSet(Tail(args)))
    [] verb = "SPOP"      -> Pop(db, key)
    [] verb = "SMOVE"     -> MoveMember(db, key, args[2], args[3])
    [] verb = "SMEMBERS"  -> Members(db, key)
    [] verb \in {"SINTER", "SUNION", "SDIFF"} -> Combine(db, verb, args)
    [] verb \in DOMAIN Plain -> CombineTo(db, Plain[verb], key, Tail(args))
    [] verb = "FLUSHDB"   -> Answer([k \in Keys |-> Nothing], OK)
    [] verb \in {"SAVE", "AUTH"} -> Answer(db, OK)
    [] verb = "BGSAVE"    -> Answer(db, Reply("status", <<"Background saving started">>, 0))
    [] verb = "RANDOMKEY" -> RandomKey(db)

\* dbs[i] is what the i-th command finds.
RunAll(db, cmds) ==
  LET dbs[i \in 1..(Len(cmds) + 1)] ==
        IF i = 1 THEN db ELSE Run(dbs[i - 1], cmds[i - 1]).db
  IN  Answer(dbs[Len(cmds) + 1], [i \in DOMAIN cmds |-> Run(dbs[i], cmds[i]).reply])

\* The commands that Run is about, with the arguments they need.
ForKeys == {"MGET", "DEL", "SINTER", "SUNION", "SDIFF"} \cup DOMAIN Plain
ForTwo  == {"RENAME", "RENAMENX", "SMOVE"}
ForOne  == {"GET", "SET", "EXPIRE", "EXISTS", "TYPE", "LRANGE", "RPUSH", "SADD", "SREM",
            "SPOP", "SMEMBERS"}
ForAll  == {"KEYS", "DBSIZE", "FLUSHDB", "SAVE", "AUTH", "BGSAVE", "RANDOMKEY"}

Understood(cmd) ==
  /\ cmd \in Seq(STRING) /\ cmd # <<>>
  /\ \/ cmd[1] \in ForAll
     \/ cmd[1] = "MSET" /\ Len(cmd) % 2 = 1
     \/ cmd[1] \in ForOne /\ Len(cmd) > 1 /\ cmd[2] \in Keys
          /\ (cmd[1] \in {"SET", "RPUSH"} => Len(cmd) > 2)
     \/ cmd[1] \in ForTwo /\ Len(cmd) > 2 /\ cmd[2] \in Keys /\ cmd[3] \in Keys
          /\ (cmd[1] = "SMOVE" => Len(cmd) > 3)
     \/ cmd[1] \in ForKeys /\ Len(cmd) > 1 /\ (\A i \in 2..Len(cmd) : cmd[i] \in Keys)
          /\ (cmd[1] \in DOMAIN Plain => Len(cmd) > 2)
=============================================================================
