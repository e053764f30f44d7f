---------------------------- MODULE RedisSession ----------------------------
(***************************************************************************)
(* One connection of redis::base_client (redisclient.h) with its server,   *)
(* byte by byte: a call encodes its commands (makecmd), send_ writes them  *)
(* with anetWrite (anet.c) in as many pieces as the kernel takes, and the  *)
(* readers take the replies out of the stream with read_line and read_n,   *)
(* of which recv delivers what has arrived so far.  A number, a word or a  *)
(* payload character is one symbol of the stream.                          *)
(*                                                                         *)
(* read_line never adds to total_bytes_read, so its max_size bounds        *)
(* nothing and is left out.  recv and write are repeated or succeed when a *)
(* signal interrupts them, SIGPIPE is ignored.                             *)
(***************************************************************************)
EXTENDS RedisCommands, Integers, SequencesExt

CONSTANTS
  Names,       \* the calls made, a subset of the calls of the tables
  Pipelines,   \* those that send several commands at once
  Pieces,      \* the kernel takes so many bytes in one write, or all of them
  Segments,    \* so many bytes arrive at a time, or all that are under way
  BufferSize,  \* read_line peeks at so many bytes, 64 in the code
  Payloads,    \* values stored in the server, sequences of symbols
  Most,        \* the largest number that is written
  Numerals,    \* how numbers are written, one symbol for each
  LateCalls    \* the calls made after one that has left replies unread

ASSUME SessionAssumption ==
  /\ Names \subseteq DOMAIN Calls
  /\ Pipelines \subseteq {"msetex", "sadd_range", "exec", "exec_transaction"}
  /\ Pieces \subseteq Nat \ {0} /\ Segments \subseteq Nat \ {0}
  /\ BufferSize \in Nat \ {0}
  /\ LateCalls \subseteq Names
  /\ \A p \in Payloads : p \in Seq(STRING) /\ Len(p) <= Most

\* Each number is written in a way of its own, and a nil as the number -1.
ASSUME NumeralAssumption ==
  /\ Most \in Nat /\ Most >= 10
  /\ DOMAIN Numerals = -1..Most
  /\ \A n \in -1..Most : Numerals[n] \in STRING \ {"CR", "LF"}
  /\ \A m, n \in -1..Most : Numerals[m] = Numerals[n] => m = n
  /\ Numerals[-1] = "-1" /\ Numerals[0] = "0"

\* The numbers a server answers with in this model.
ASSUME DigitAssumption == Numerals[1] = "1" /\ Numerals[2] = "2" /\ Numerals[4] = "4"

\* The words of the stream are strings (the provers have to be told).
ASSUME WordsAssumption ==
  {"CR", "LF", "*", "$", "+", "-", ":", "-1", "0", "1", "2", "4",
   "MSET", "EXPIRE", "INCR", "MULTI", "EXEC", "key", "value", "secs",
   "OK", "QUEUED", "none", "hash", "stream", "Background saving started",
   "ERR ", "WRON", "text", "GTYPE text", "4294967298", "#", "role", "master", "config_file",
   "**nonexistent-key**"} \subseteq STRING

EOL == <<"CR", "LF">>

\* A number that a long holds and an int does not: 2^32 + 2.
Long == "4294967298"

-----------------------------------------------------------------------------
(* Requests: makecmd and its conversion to a string.                       *)

\* What an argument looks like: values may hold line ends.
Param(arg) == IF arg \in {"value", "member", "message"} THEN <<arg>> \o EOL ELSE <<arg>>

Encode(params) ==
  <<"*", Numerals[Len(params)]>> \o EOL
    \o FlattenSeq([i \in DOMAIN params |->
                     <<"$", Numerals[Len(params[i])]>> \o EOL \o params[i] \o EOL])

\* The commands of a call, each a sequence of arguments, verb first.
SingleCommand(c) == <<Calls[c].verb>> \o Calls[c].args

Queued == <<"INCR", "key">>    \* any command with a key does

Commands(c) ==
  CASE c = "msetex"           -> <<<<"MSET", "key", "value">>, <<"EXPIRE", "key", "secs">>>>
    [] c = "sadd_range"       -> <<SingleCommand("sadd"), SingleCommand("sadd")>>
    [] c = "exec"             -> <<Queued, Queued>>
    [] c = "exec_transaction" -> <<<<"MULTI">>, Queued, Queued, <<"EXEC">>>>
    [] OTHER                     -> <<SingleCommand(c)>>

\* The readers a call runs, in order.
Readers(c) ==
  CASE c = "msetex"           -> <<"ok", "intok">>
    [] c = "sadd_range"       -> <<"int", "int">>
    [] c = "exec"             -> <<"generic", "generic">>
    [] c = "exec_transaction" -> <<"ok", "queued", "queued", "header", "generic", "generic">>
    [] OTHER                     -> <<Calls[c].read>>

Request(c) ==
  FlattenSeq([i \in DOMAIN Commands(c) |->
                Encode([j \in DOMAIN Commands(c)[i] |-> Param(Commands(c)[i][j])])])

-----------------------------------------------------------------------------
(* The server, external: it reads commands out of the bytes it has got and *)
(* answers each with one of the replies its verb has, or with an error.    *)

Reply(t, v) == [t |-> t, v |-> v]

Status(word) == Reply("status", <<word>>)
Ints(ns)     == {Reply("int", <<n>>) : n \in ns}
Bulks        == {Reply("bulk", p) : p \in Payloads}
Nil          == Reply("nil", <<>>)         \* "$-1"
NilMulti     == Reply("nilmulti", <<>>)    \* "*-1"
Lists        == {Reply("multi", <<>>), Reply("multi", <<Nil>>)}
                  \cup {Reply("multi", <<bc[1], bc[2]>>) :
                           bc \in {p \in Bulks \X Bulks : p[1] # p[2]}}
Scored       == {Reply("multi", <<b, Reply("bulk", <<"2">>)>>) : b \in Bulks}

InfoTexts ==    \* a comment and a setting; a setting without value
  {<<"#", "CR", "LF", "role", ":", "master", "CR", "LF">>,
   <<"config_file", ":", "CR", "LF">>}

Statuses(verb) ==
  CASE verb = "TYPE"   -> {Status("none"), Status("hash"), Status("stream")}
    [] verb = "BGSAVE" -> {Status("Background saving started")}
    [] OTHER           -> {Status("OK")}

IntVerbs01 == {"SETNX", "MSETNX", "EXISTS", "DEL", "EXPIRE", "SADD", "SREM", "SMOVE",
               "SISMEMBER", "ZADD", "ZREM", "HSET", "HSETNX", "HEXISTS", "HDEL",
               "MOVE", "RENAMENX"}
BulkVerbs  == {"GET", "GETSET", "SUBSTR", "LINDEX", "LPOP", "RPOP", "SPOP", "HGET",
               "RANDOMKEY"}
ListVerbs  == {"LRANGE", "SINTER", "SUNION", "SDIFF", "SMEMBERS", "HMGET", "HKEYS",
               "HVALS", "KEYS", "SORT"}
RangeVerbs == {"ZRANGE", "ZREVRANGE", "ZRANGEBYSCORE"}
StatusVerbs == {"AUTH", "SET", "SETEX", "LTRIM", "LSET", "HMSET", "SELECT", "FLUSHDB",
                "FLUSHALL", "RENAME", "SAVE", "TYPE", "BGSAVE", "MSET", "MULTI"}

\* Verbs that are answered with a bulk, and with a multi bulk.
TextVerbs  == BulkVerbs \cup {"ZSCORE", "ZINCRBY", "INFO"}
MultiVerbs == ListVerbs \cup RangeVerbs \cup {"HGETALL", "BLPOP", "BRPOP"}

TextAnswers(verb) ==
  CASE verb = "ZSCORE"  -> {Reply("bulk", <<"2">>), Nil}
    [] verb = "ZINCRBY" -> {Reply("bulk", <<"2">>)}
    [] verb = "INFO"    -> {Reply("bulk", t) : t \in InfoTexts}
    [] OTHER            -> Bulks \cup {Nil}

MultiAnswers(verb, scores) ==
  CASE verb \in {"BLPOP", "BRPOP"}    -> {Reply("multi", <<Reply("bulk", <<"key">>), b>>) :
                                            b \in Bulks} \cup {NilMulti}
    [] verb \in ListVerbs             -> Lists
    [] verb \in RangeVerbs /\ scores  -> Scored
    [] OTHER                          -> Lists \ {Reply("multi", <<Nil>>)}

\* Replies that are no errors.
Answers(cmd) ==
  LET verb == cmd[1] IN
  CASE verb \in TextVerbs             -> TextAnswers(verb)
    [] verb \in MultiVerbs            -> MultiAnswers(verb, "WITHSCORES" \in ToSet(cmd))
    [] verb \in IntVerbs01            -> Ints({"0", "1"})
    [] verb \in {"ZRANK", "ZREVRANK"} -> Ints({"0", "2"}) \cup {Nil}
    [] verb \in StatusVerbs           -> Statuses(verb)
    [] verb = "APPEND"                -> Ints({"4"})    \* the length after it
    [] verb = "INCR"                  -> Ints({"2", Long})
    [] verb = "SHUTDOWN"              -> {}             \* the connection is closed
    [] OTHER                          -> Ints({"0", "2"})

\* The tables as the provers need them: no reader is run for a reply whose
\* rest it would leave in the stream.
ASSUME TableAssumption ==
  /\ "sadd" \in DOMAIN Calls /\ Calls["sadd"].verb = "SADD"
  /\ \A c \in DOMAIN Calls :
       /\ c \notin {"msetex", "sadd_range", "exec", "exec_transaction"}
       /\ SingleCommand(c) \in Seq(STRING) /\ Len(SingleCommand(c)) \in 1..10
       /\ SingleCommand(c)[1] = Calls[c].verb
       /\ Calls[c].verb \notin {"MULTI", "EXEC"}
       /\ Calls[c].read \in {"ok", "line", "int", "intok", "bulk", "multi"}
       /\ Calls[c].read = "bulk" => Calls[c].verb \notin MultiVerbs
       /\ Calls[c].read = "multi" => Calls[c].verb \notin TextVerbs
       /\ Calls[c].read \notin {"bulk", "multi"} => Calls[c].verb \notin TextVerbs \cup MultiVerbs

\* The first word has four characters; no error is shorter.
Errors == {Reply("error", <<"ERR ", "text">>), Reply("error", <<"WRON", "GTYPE text">>)}

\* The bytes of a reply.  A header is the first line of EXEC's answer.
LineBytes(c, v) == <<c>> \o v \o EOL

BulkBytes(b) ==
  IF b.t = "nil" THEN LineBytes("$", <<"-1">>)
  ELSE LineBytes("$", <<Numerals[Len(b.v)]>>) \o b.v \o EOL

Bytes(r) ==
  CASE r.t = "status" -> LineBytes("+", r.v)
    [] r.t = "error"  -> LineBytes("-", r.v)
    [] r.t = "int"    -> LineBytes(":", r.v)
    [] r.t = "header" -> LineBytes("*", r.v)
    [] r.t \in {"bulk", "nil"} -> BulkBytes(r)
    [] r.t = "nilmulti" -> LineBytes("*", <<"-1">>)
    [] OTHER          -> LineBytes("*", <<Numerals[Len(r.v)]>>)
                           \o FlattenSeq([i \in DOMAIN r.v |-> BulkBytes(r.v[i])])

\* boost::lexical_cast to a number.
Numbers ==
  [s \in {Numerals[n] : n \in -1..Most} |-> CHOOSE n \in -1..Most : Numerals[n] = s]
Number(symbol) == Numbers[symbol]
Numeric(text) == Len(text) = 1 /\ text[1] \in DOMAIN Numbers

\* To a long; no length is that long.
Whole(text) == Numeric(text) \/ text = <<Long>>

\* What an int keeps of it.
ToInt(text) == IF text = <<Long>> THEN <<"2">> ELSE text

\* Where the parameter that begins at p ends and the next one begins, 0 if
\* it has not arrived as a whole.
ParamEnd(bytes, p) ==
  LET end == p + Number(bytes[p + 1]) + 6
  IN  IF p = 0 \/ Len(bytes) < p + 3 \/ ~Numeric(<<bytes[p + 1]>>) THEN 0
      ELSE IF Len(bytes) < end - 1 THEN 0 ELSE end

\* Where the n parameters after the first line begin.  (at[i - 1] is bound
\* as the element of a set, so that it is evaluated once.)
ParamAt(bytes, n) ==
  LET at[i \in 1..n] ==
        IF i = 1 THEN 5
        ELSE CHOOSE end \in {ParamEnd(bytes, p) : p \in {at[i - 1]}} : TRUE
  IN  at

\* The first command in the bytes: its parameters, where the next command
\* begins, and whether it is complete.
FirstCommand(bytes) ==
  LET n  == IF Len(bytes) < 4 THEN 0 ELSE Number(bytes[2])
      at == ParamAt(bytes, n + 1)
  IN  IF n = 0 \/ at[n + 1] = 0 THEN [ok |-> FALSE]
      ELSE [ok   |-> TRUE,
            args |-> [i \in 1..n |-> SubSeq(bytes, at[i] + 4, at[i + 1] - 3)],
            next |-> at[n + 1]]

-----------------------------------------------------------------------------
(* What the calls make of what their readers return.                       *)

Missing == <<"**nonexistent-key**">>

Value(v) == [t |-> "value", v |-> v]
Throws(what) == [t |-> "throw", v |-> <<what>>]

\* split: what is between delimiters, the last piece only if it is not empty.
Split(text, delim) ==
  LET ends == {i \in DOMAIN text : text[i] = delim}
                \cup (IF text = <<>> \/ Last(text) = delim THEN {} ELSE {Len(text) + 1})
      cuts == SetToSortSeq({0} \cup ends, <)
  IN  [i \in 1..(Len(cuts) - 1) |-> SubSeq(text, cuts[i] + 1, cuts[i + 1] - 1)]

RTrim_LineFeed(text, ws) ==    \* the line feed only
  IF text # <<>> /\ Last(text) = "LF" THEN Front(text) ELSE text

\* rtrim: without the trailing symbols of ws.
RTrim(text, ws) ==
  LET ends == {n \in 0..Len(text) : \A i \in (n + 1)..Len(text) : text[i] \in ws}
  IN  SubSeq(text, 1, CHOOSE n \in ends : \A m \in ends : n <= m)

\* info: every line but comments and empty ones has a key and a value.
Info(text) ==
  LET lines    == {RTrim(line, {"CR", "LF"}) : line \in ToSet(Split(text, "LF"))}
      settings == {Split(line, ":") : line \in {l \in lines : l # <<>> /\ l[1] # "#"}}
  IN  IF text = <<>> \/ \E s \in settings : Len(s) # 2
      THEN Throws("protocol_error")
      ELSE Value(<<settings>>)

\* convert: members and scores in turn.
Scores(raw) ==
  IF Len(raw) % 2 # 0 THEN Throws("assertion")
  ELSE IF \A i \in DOMAIN raw : i % 2 = 0 => Numeric(raw[i])
       THEN Value([i \in 1..(Len(raw) \div 2) |-> <<raw[2 * i - 1], raw[2 * i]>>])
       ELSE Throws("bad_lexical_cast")

TypeNames == {"none", "string", "list", "set", "zset", "hash"}

Give(give, raw) ==
  CASE give = "void"     -> Value(<<>>)
    [] give = "is1"      -> Value(IF raw = <<"1">> THEN <<"true">> ELSE <<"false">>)
    [] give = "not0"     -> Value(IF raw # <<"0">> THEN <<"true">> ELSE <<"false">>)
    [] give = "size"     -> IF Number(raw[1]) >= Len(Param("value")) THEN Value(raw)
                            ELSE Throws("assertion")
    [] give = "exact"    -> IF raw = <<"2">> THEN Value(<<>>) ELSE Throws("value_error")
    [] give = "datatype" -> Value(IF raw[1] \in TypeNames THEN raw ELSE <<"unknown">>)
    [] give = "saving"   -> IF raw[1] \in {"OK", "Background saving started"} THEN Value(<<>>)
                            ELSE Throws("protocol_error")
    [] give = "double"   -> IF Numeric(raw) THEN Value(raw)
                            ELSE Throws("bad_lexical_cast")
    [] give = "pair"     -> Value(IF Len(raw) = 2 THEN raw ELSE <<<<>>, Missing>>)
    [] give = "second"   -> Value(IF Len(raw) = 2 THEN raw[2] ELSE Missing)
    [] give = "pairs"    -> Value([i \in 1..(Len(raw) \div 2) |-> <<raw[2 * i - 1], raw[2 * i]>>])
    [] give = "scores"   -> Scores(raw)
    [] give = "info"     -> Info(raw)
    [] OTHER             -> Value(raw)

\* Errors the calls themselves catch.
Caught(name, what) ==
  CASE name = "blpop_keys" /\ what = "key_error"      -> Throws("timeout_error")
    [] name \in {"blpop", "brpop"} /\ what = "key_error" -> Value(Missing)
    [] name = "shutdown" /\ what = "connection_error" -> Value(<<>>)
    [] OTHER                                          -> Throws(what)

-----------------------------------------------------------------------------
VARIABLES
  name,      \* the call that runs, or ran last
  pc,        \* where it is
  unsent,    \* bytes of its request that anetWrite still has to write
  todo,      \* the readers it still has to run
  rd,        \* locals of the running reader
  got,       \* what the readers returned
  outcome,   \* how the last call ended
  sock,      \* bytes that have arrived and wait in the socket
  wire,      \* bytes the server has sent and that are under way
  closed,    \* the connection is lost
  asked,     \* bytes of requests the server has
  multi,     \* the server's transaction: "no", "open" or "failed"
  due,       \* history: commands sent and not answered, "own" or "old"
  owed,      \* history: replies sent and not read, oldest first
  took,      \* history: replies this call's readers were run for
  slipped    \* history: a call ended before it had read its replies

clientVars == <<name, pc, unsent, todo, rd, got, outcome>>
serverVars == <<closed, asked, multi>>
history    == <<due, owed, took, slipped>>
vars       == <<clientVars, serverVars, sock, wire, history>>

AllCalls == Names \cup Pipelines

Fresh == [line |-> <<>>, take |-> 0, eol |-> FALSE, want |-> 0, data |-> <<>>,
          left |-> 0, elems |-> <<>>]

Init ==
  /\ name = "none" /\ pc = "idle" /\ unsent = <<>> /\ todo = <<>>
  /\ rd = Fresh /\ got = <<>> /\ outcome = Value(<<>>)
  /\ sock = <<>> /\ wire = <<>> /\ closed = FALSE /\ asked = <<>> /\ multi = "no"
  /\ due = <<>> /\ owed = <<>> /\ took = <<>> /\ slipped = FALSE

Aged(items) == [i \in DOMAIN items |-> [items[i] EXCEPT !.from = "old"]]

\* Bound: after a call that has left replies unread, one of LateCalls.
Begin(c) ==
  /\ pc = "idle"
  /\ slipped => c \in LateCalls
  /\ slipped /\ ~closed => name \in Pipelines
  /\ name' = c
  /\ pc' = "write"
  /\ unsent' = Request(c)
  /\ todo' = Readers(c)
  /\ rd' = Fresh /\ got' = <<>> /\ outcome' = Value(<<>>)
  /\ due' = Aged(due) \o [i \in DOMAIN Commands(c) |-> [from |-> "own", cmd |-> Commands(c)[i]]]
  /\ owed' = Aged(owed)
  /\ took' = <<>>
  /\ UNCHANGED <<serverVars, sock, wire, slipped>>

WriteSome_SamePlace(n) ==    \* buf is not moved on
  /\ pc = "write" /\ ~closed
  /\ n <= Len(unsent)
  /\ asked' = asked \o SubSeq(unsent, 1, n)
  /\ unsent' = SubSeq(unsent, 1, Len(unsent) - n)
  /\ pc' = IF unsent' = <<>> THEN "line" ELSE "write"
  /\ UNCHANGED <<name, todo, rd, got, outcome, sock, wire, closed, multi, history>>

\* One write(2) of the loop in anetWrite.
WriteSome(n) ==
  /\ pc = "write" /\ ~closed
  /\ n <= Len(unsent)
  /\ asked' = asked \o SubSeq(unsent, 1, n)
  /\ unsent' = SubSeq(unsent, n + 1, Len(unsent))
  /\ pc' = IF unsent' = <<>> THEN "line" ELSE "write"
  /\ UNCHANGED <<name, todo, rd, got, outcome, sock, wire, closed, multi, history>>

-----------------------------------------------------------------------------
(* The end of a reader and of a call.                                      *)

EndCall(result) ==
  /\ outcome' = result
  /\ pc' = "idle"
  /\ unsent' = <<>> /\ todo' = <<>> /\ rd' = Fresh

Throw(what) ==
  /\ EndCall(Caught(name, what))
  /\ slipped' = (slipped \/ (~closed /\ (due # <<>> \/ owed' # <<>>)))
  /\ UNCHANGED <<name, got>>

\* A reader is through with the oldest reply.
TakeReply ==
  /\ owed' = IF owed = <<>> THEN <<>> ELSE Tail(owed)
  /\ took' = IF owed = <<>> THEN took ELSE Append(took, Head(owed))

ReaderReturns(raw) ==
  LET all == Append(got, raw) IN
  /\ got' = all
  /\ todo' = Tail(todo)
  /\ rd' = Fresh
  /\ TakeReply
  /\ IF Len(todo) > 1
       THEN pc' = "line" /\ UNCHANGED outcome
       ELSE /\ pc' = "idle"
            /\ outcome' = IF name \in Pipelines THEN Value(all)
                          ELSE Give(Calls[name].give, raw)
  /\ UNCHANGED <<name, unsent, slipped>>

ReaderThrows(what) == TakeReply /\ Throw(what)

\* A bulk has been read: the reply itself, or an element of a multi bulk.
BulkRead(v) ==
  IF rd.left = 0 THEN ReaderReturns(v)
  ELSE IF rd.left = 1 THEN ReaderReturns(Append(rd.elems, v))
  ELSE /\ rd' = [Fresh EXCEPT !.left = rd.left - 1, !.elems = Append(rd.elems, v)]
       /\ pc' = "line"
       /\ UNCHANGED <<name, unsent, todo, got, outcome, owed, took, slipped>>

-----------------------------------------------------------------------------
(* read_line: peek at the next bytes, take them up to a line end.          *)

Peek ==
  /\ pc = "line" /\ sock # <<>>
  /\ LET look == SubSeq(sock, 1, IF Len(sock) < BufferSize THEN Len(sock) ELSE BufferSize)
         end  == IF "LF" \in ToSet(look)
                 THEN CHOOSE i \in DOMAIN look :
                        look[i] = "LF" /\ \A j \in 1..(i - 1) : look[j] # "LF"
                 ELSE 0
         read == IF end > 0 THEN end ELSE Len(look)
     IN  rd' = [rd EXCEPT !.line = @ \o SubSeq(look, 1, read),
                          !.take = read, !.eol = end > 0]
  /\ pc' = "take"
  /\ UNCHANGED <<name, unsent, todo, got, outcome, serverVars, sock, wire, history>>

Take ==
  /\ pc = "take"
  /\ sock' = SubSeq(sock, rd.take + 1, Len(sock))
  /\ pc' = IF rd.eol THEN "decode" ELSE "line"
  /\ UNCHANGED <<name, unsent, todo, rd, got, outcome, serverVars, wire, history>>

\* The line, without its end.
Line == RTrim(rd.line, {"CR", "LF"})
Rest == Tail(Line)
Prefix == IF Line = <<>> THEN "NUL" ELSE Line[1]

\* recv_generic_reply_ goes by the first character, elements of a multi bulk
\* are bulks.
ByPrefix(c) ==
  CASE c = "+" -> "status" [] c = "-" -> "error" [] c = ":" -> "int" [] c = "$" -> "bulk"
    [] c = "*" -> "multi"

Reader ==
  IF rd.left > 0 THEN "bulk"
  ELSE IF Head(todo) = "generic" THEN ByPrefix(Prefix) ELSE Head(todo)

DecodeStatus ==
  /\ Reader \in {"ok", "line", "queued"}
  /\ IF Prefix # "+" THEN ReaderThrows("protocol_error")
     ELSE IF Reader = "ok" /\ Rest # <<"OK">> THEN ReaderThrows("protocol_error")
     ELSE IF Reader = "queued" /\ Rest # <<"QUEUED">> THEN ReaderThrows("runtime_error")
     ELSE ReaderReturns(IF Reader = "ok" THEN <<>> ELSE Rest)

\* The generic reader keeps errors, without their first five characters, be
\* they "-ERR " or not.
DecodeGeneric ==
  /\ Reader \in {"status", "error"}
  /\ ReaderReturns(IF Reader = "status" THEN Rest ELSE Tail(Rest))

\* The generic reader has an int for it.
DecodeInt ==
  /\ Reader \in {"int", "intok"}
  /\ IF Prefix # ":" THEN ReaderThrows("protocol_error")
     ELSE IF ~Whole(Rest) THEN ReaderThrows("bad_lexical_cast")
     ELSE IF Reader = "intok" /\ Rest # <<"1">> THEN ReaderThrows("protocol_error")
     ELSE ReaderReturns(IF Head(todo) = "generic" THEN ToInt(Rest) ELSE Rest)

\* exec_transaction looks at the prefix of EXEC's answer only.
DecodeHeader ==
  /\ Reader = "header"
  /\ IF Prefix # "*" THEN ReaderThrows("runtime_error") ELSE ReaderReturns(Rest)

DecodeBulk_NoLineEnd ==    \* read_n of length bytes, without the two after them
  /\ Reader = "bulk"
  /\ IF Prefix # "$" THEN ReaderThrows("protocol_error")
     ELSE IF ~Numeric(Rest) THEN ReaderThrows("bad_lexical_cast")
     ELSE IF Rest[1] = "-1" THEN BulkRead(Missing)
     ELSE /\ rd' = [rd EXCEPT !.line = <<>>, !.want = Number(Rest[1])]
          /\ pc' = "body"
          /\ UNCHANGED <<name, unsent, todo, got, outcome, owed, took, slipped>>

DecodeBulk ==
  /\ Reader = "bulk"
  /\ IF Prefix # "$" THEN ReaderThrows("protocol_error")
     ELSE IF ~Numeric(Rest) THEN ReaderThrows("bad_lexical_cast")
     ELSE IF Rest[1] = "-1" THEN BulkRead(Missing)
     ELSE /\ rd' = [rd EXCEPT !.line = <<>>, !.want = Number(Rest[1]) + 2]
          /\ pc' = "body"
          /\ UNCHANGED <<name, unsent, todo, got, outcome, owed, took, slipped>>

DecodeMulti ==
  /\ Reader = "multi"
  /\ IF Prefix # "*" THEN ReaderThrows("protocol_error")
     ELSE IF ~Numeric(Rest) THEN ReaderThrows("bad_lexical_cast")
     ELSE IF Rest[1] = "-1" THEN ReaderThrows("key_error")
     ELSE IF Rest[1] = "0" THEN ReaderReturns(<<>>)
     ELSE /\ rd' = [Fresh EXCEPT !.left = Number(Rest[1])]
          /\ pc' = "line"
          /\ UNCHANGED <<name, unsent, todo, got, outcome, owed, took, slipped>>

Decode ==
  /\ pc = "decode"
  /\ DecodeStatus \/ DecodeGeneric \/ DecodeInt \/ DecodeHeader \/ DecodeBulk \/ DecodeMulti
  /\ UNCHANGED <<serverVars, sock, wire, due>>

ReadBody_Overwrites ==    \* bp stays at the beginning of the buffer
  /\ pc = "body" /\ sock # <<>>
  /\ LET n    == IF Len(sock) < rd.want THEN Len(sock) ELSE rd.want
         data == SubSeq(sock, 1, n) \o SubSeq(rd.data, n + 1, Len(rd.data))
     IN  /\ sock' = SubSeq(sock, n + 1, Len(sock))
         /\ IF n < rd.want
              THEN /\ rd' = [rd EXCEPT !.want = @ - n, !.data = data]
                   /\ UNCHANGED <<name, pc, unsent, todo, got, outcome, owed, took, slipped>>
              ELSE BulkRead(SubSeq(data, 1, Len(data) - 2))
  /\ UNCHANGED <<serverVars, wire, due>>

\* One recv of the loop in read_n.
ReadBody ==
  /\ pc = "body" /\ sock # <<>>
  /\ LET n    == IF Len(sock) < rd.want THEN Len(sock) ELSE rd.want
         data == rd.data \o SubSeq(sock, 1, n)
     IN  /\ sock' = SubSeq(sock, n + 1, Len(sock))
         /\ IF n < rd.want
              THEN /\ rd' = [rd EXCEPT !.want = @ - n, !.data = data]
                   /\ UNCHANGED <<name, pc, unsent, todo, got, outcome, owed, took, slipped>>
              ELSE BulkRead(SubSeq(data, 1, Len(data) - 2))
  /\ UNCHANGED <<serverVars, wire, due>>

ConnectionError_Ignored ==    \* a recv that returns 0 is tried again
  /\ closed
  /\ pc = "write"
  /\ owed' = <<>> /\ took' = took /\ due' = <<>>
  /\ Throw("connection_error")
  /\ UNCHANGED <<serverVars, sock, wire>>

\* recv returns 0 or an error, write an error, on a connection that is lost.
ConnectionError ==
  /\ closed
  /\ \/ pc = "write"
     \/ pc \in {"line", "body"} /\ sock = <<>>
  /\ owed' = <<>> /\ took' = took /\ due' = <<>>
  /\ Throw("connection_error")
  /\ UNCHANGED <<serverVars, sock, wire>>

-----------------------------------------------------------------------------
(* The environment: the server answers, bytes arrive, the connection ends. *)

Says(units) ==
  /\ wire' = wire \o FlattenSeq([i \in DOMAIN units |-> Bytes(units[i])])
  /\ owed' = owed \o [i \in DOMAIN units |-> [from |-> Head(due).from, reply |-> units[i]]]

Answer ==
  LET first == FirstCommand(asked)
      verb  == first.args[1][1]
  IN  /\ first.ok
      /\ verb # "SHUTDOWN"
      /\ \/ verb = "MULTI" /\ multi' = "open" /\ Says(<<Status("OK")>>)
         \/ verb = "EXEC" /\ multi = "open" /\ multi' = "no"
            /\ \E r \in {Reply("int", <<"2">>)} \cup Errors :
                 Says(<<Reply("header", <<"2">>), r, Reply("int", <<"2">>)>>)
         \/ verb = "EXEC" /\ multi = "failed" /\ multi' = "no" /\ \E r \in Errors : Says(<<r>>)
         \/ verb \notin {"MULTI", "EXEC"} /\ multi # "no" /\ UNCHANGED multi
            /\ Says(<<Status("QUEUED")>>)
         \/ verb \notin {"MULTI", "EXEC"} /\ multi # "no" /\ multi' = "failed"
            /\ \E r \in Errors : Says(<<r>>)
         \/ verb \notin {"MULTI", "EXEC"} /\ multi = "no" /\ UNCHANGED multi
            /\ \E r \in Answers([i \in DOMAIN first.args |-> first.args[i][1]]) \cup Errors :
                 Says(<<r>>)
      /\ asked' = SubSeq(asked, first.next, Len(asked))
      /\ due' = Tail(due)
      /\ UNCHANGED <<clientVars, closed, sock, took, slipped>>

Arrive(n) ==
  /\ 0 < n /\ n <= Len(wire)
  /\ sock' = sock \o SubSeq(wire, 1, n)
  /\ wire' = SubSeq(wire, n + 1, Len(wire))
  /\ UNCHANGED <<clientVars, serverVars, history>>

\* What is under way in either direction is gone.  SHUTDOWN ends so.
Lose ==
  /\ ~closed
  /\ pc # "idle" \/ slipped
  /\ closed' = TRUE
  /\ wire' = <<>> /\ asked' = <<>> /\ due' = <<>>
  /\ UNCHANGED <<clientVars, multi, sock, owed, took, slipped>>

Client ==
  \/ \E n \in Pieces \cup {Len(unsent)} : WriteSome(n)
  \/ Peek \/ Take \/ Decode \/ ReadBody \/ ConnectionError

Delivery == \E n \in Segments \cup {Len(wire)} : Arrive(n)

Next == (\E c \in AllCalls : Begin(c)) \/ Client \/ Answer \/ Delivery \/ Lose

Spec == Init /\ [][Next]_vars

\* The client runs when it can, the server answers and its bytes arrive; a
\* server told to shut down closes the connection.
FairSpec ==
  /\ Spec
  /\ WF_vars(Client) /\ WF_vars(Answer) /\ WF_vars(Delivery)
  /\ WF_vars(Lose /\ name = "shutdown")

-----------------------------------------------------------------------------
(* Properties                                                              *)

TypeOK ==
  /\ name \in AllCalls \cup {"none"}
  /\ pc \in {"idle", "write", "line", "take", "decode", "body"}
  /\ outcome.t \in {"value", "throw"}
  /\ rd.left \in Nat /\ rd.want \in Nat
  /\ closed \in BOOLEAN /\ slipped \in BOOLEAN
  /\ multi \in {"no", "open", "failed"}

\* However the request was cut into pieces, the server reads the commands of
\* the call, values with line ends included.
RequestExact ==
  FirstCommand(asked).ok =>
    /\ due # <<>>
    /\ LET sent == Head(due).cmd
       IN  FirstCommand(asked).args = [i \in DOMAIN sent |-> Param(sent[i])]

\* The stream stays in step: between two replies, and after a call, what is
\* unread are whole replies that no reader has been run for.  Only a call
\* that finds the rest of an earlier one may lose the step.
InStep ==
  /\ ~closed
  /\ slipped => name \in Pipelines
  /\ pc = "idle" \/ (pc = "line" /\ rd = Fresh)
  =>
    sock \o wire = FlattenSeq([i \in DOMAIN owed |-> Bytes(owed[i].reply)])

\* The contents of a reply, without its encoding.
Content(r) ==
  CASE r.t = "nil"   -> Missing
    [] r.t = "multi" -> [i \in DOMAIN r.v |-> IF r.v[i].t = "nil" THEN Missing ELSE r.v[i].v]
    [] OTHER         -> r.v

\* What a reader hands over: the contents of the reply, but that the generic
\* reader loses the beginning of an error and what an int cannot hold.
Handed(reader, r) ==
  CASE reader = "generic" /\ r.t = "error" -> Tail(Content(r))
    [] reader = "generic" /\ r.t = "int"   -> ToInt(Content(r))
    [] OTHER                               -> Content(r)

\* A call that returns has read what the server said to it, for every way the
\* bytes arrive in and with line ends in the payload: all of it, except that
\* exec and exec_transaction lose the first four characters of an error, "ERR "
\* or a part of another code, and change a number that exceeds an int.
AnswerExact ==
  /\ pc = "idle" /\ outcome.t = "value"
  /\ name \notin {"none", "shutdown"}
  /\ slipped => name \in Pipelines
  =>
    \A i \in DOMAIN got :
      Readers(name)[i] # "ok" => got[i] = Handed(Readers(name)[i], took[i].reply)

\* A call gets the answer to its own request, unless some call of several
\* commands gave up before it had read all of its replies.
OwnAnswer == (\E i \in DOMAIN took : took[i].from = "old") => slipped

\* Only the pipelined calls leave replies of their own behind, however a
\* call ends; any other does so only when it was given an older one instead.
OnlyPipelinesSlip ==
  pc = "idle" /\ ~closed /\ (\E i \in DOMAIN owed : owed[i].from = "own") =>
    name \in Pipelines \/ \E i \in DOMAIN took : took[i].from = "old"

\* The stream of one connection serves one call after the other: what was
\* not read stays whole, and no reader is given another call's reply.
StreamSafe == TypeOK /\ InStep /\ OwnAnswer /\ OnlyPipelinesSlip

\* Calls that throw although the server did as it was told: an integer that
\* is not 1, a missing member, a reply of another kind than expected.
Picky ==
  {"msetnx", "expire", "srem", "smove", "zadd", "zrem", "move", "zrank", "zrevrank",
   "zscore", "lrem_exact", "blpop_keys", "zrangebyscore_scores", "info", "msetex"}

\* The tables as the provers need them: every other call expects what its
\* verb is answered with, and can make its result of it.
ASSUME ExpectedAssumption ==
  \A c \in DOMAIN Calls \ Picky :
    /\ Calls[c].read = "ok" => /\ Calls[c].give = "void"
                              /\ Calls[c].verb \in StatusVerbs \cup {"SHUTDOWN"}
                              /\ Calls[c].verb \notin {"TYPE", "BGSAVE"}
    /\ Calls[c].read = "line" => Calls[c].verb \in {"TYPE", "BGSAVE"}
    /\ Calls[c].read = "int" => Calls[c].verb \notin StatusVerbs \cup {"ZRANK", "ZREVRANK"}
    /\ Calls[c].read # "intok"
    /\ Calls[c].read = "bulk" => Calls[c].verb \in TextVerbs
    /\ Calls[c].read = "multi" => Calls[c].verb \in MultiVerbs
    /\ Calls[c].verb \in {"BLPOP", "BRPOP"} => c \in {"blpop", "brpop"}
    /\ \/ Calls[c].give \in {"void", "is1", "not0", "value", "datatype", "pairs", "set", "second"}
       \/ Calls[c].give = "size" /\ Calls[c].verb = "APPEND" /\ Calls[c].read = "int"
       \/ Calls[c].give = "saving" /\ Calls[c].verb = "BGSAVE" /\ Calls[c].read = "line"
       \/ Calls[c].give = "double" /\ Calls[c].verb = "ZINCRBY"
       \/ Calls[c].give = "scores" /\ Calls[c].verb \in RangeVerbs
            /\ "WITHSCORES" \in ToSet(SingleCommand(c))

\* Apart from these, a call throws only if the server reports an error or
\* the connection is lost.
OnlyErrorsThrow ==
  pc = "idle" /\ outcome.t = "throw" /\ ~slipped /\ ~closed /\ name \notin Picky =>
    \E i \in DOMAIN took : took[i].reply.t = "error"

\* Every call ends: its replies arrive, or the connection is lost.
CallsEnd == pc # "idle" ~> pc = "idle"
=============================================================================
