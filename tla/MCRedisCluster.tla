--------------------------- MODULE MCRedisCluster ---------------------------
(* RedisCluster with two servers; a1 and a2 hash to the first, b1 to the    *)
(* second one.                                                              *)
EXTENDS RedisCluster

TheKeys == {"a1", "a2", "b1"}
TheServers == <<"A", "B">>
Hashes == [k \in TheKeys |-> IF k = "b1" THEN 3 ELSE 2]

NoSuchDB == 9

F(f) == [f |-> f]
With(f, field, v) == [F(f) EXCEPT !.f = f] @@ (field :> v)

Pairs == {<<<<"a1", "v">>, <<"b1", "w">>>>, <<<<"b1", "v">>, <<"a1", "v">>, <<"b1", "w">>>>,
          <<<<"a1", "v">>, <<"a2", "w">>>>}
KeyLists == {<<"b1", "a1", "a2">>, <<"a1", "a2">>, <<"a1", "b1">>}
TwoKeys == {<<"a1", "b1">>, <<"b1", "a1">>, <<"a1", "a2">>}

Cmds == {<<<<"SET", "b1", "v">>, <<"GET", "a1">>, <<"DEL", "b1">>>>,
         <<<<"DEL", "a1">>, <<"EXISTS", "a1">>>>}

MultiKey ==
  {With(f, "pairs", p) : f \in {"mset", "mset_vectors", "msetex"}, p \in Pairs}
    \cup {With(f, "cmds", c) : f \in {"exec", "exec_transaction"}, c \in Cmds}
    \cup {With(f, "keys", k) : f \in {"mget", "del_range", "sinter", "sunion", "sdiff"},
                               k \in KeyLists}
    \cup {With(f, "keys", k) @@ ("dst" :> d) :
            f \in {"sinterstore", "sunionstore", "sdiffstore"}, k \in KeyLists,
            d \in {"b1", "a2"}}
    \cup {With(f, "old", k[1]) @@ ("new" :> k[2]) : f \in {"rename", "renamenx"}, k \in TwoKeys}
    \cup {With("smove", "src", k[1]) @@ ("dst" :> k[2]) @@ ("member" :> "x") : k \in TwoKeys}
    \cup {With("sadd_range", "key", "b1") @@ ("values" :> <<"x", "y", "x">>)}

Everywhere ==
  {With(f, "con", i) : f \in {"keys", "dbsize", "flushdb", "save", "bgsave", "auth", "flushall"},
                       i \in {0, 2}}
    \cup {With("randomkey", "con", i) : i \in {1, 2}}
    \cup {With("select", "con", i) @@ ("db" :> d) : i \in {0, 1}, d \in {3, NoSuchDB}}
    \cup {F("lastsave"), F("shutdown")}

Connecting ==
  {With("open", "db", d) @@ ("socket" :> 0) : d \in {0, NoSuchDB}}
    \cup {With(f, "db", d) : f \in {"close", "connect"}, d \in {0, 3}}

GetOne(k) == With("single", "cmd", <<"GET", k>>) @@ ("read" :> "bulk")

Singles ==
  {GetOne("a1"), GetOne("b1"),
   With("single", "cmd", <<"SPOP", "b1">>) @@ ("read" :> "bulk"),
   With("single", "cmd", <<"SREM", "b1", "x">>) @@ ("read" :> "intok")}

AllCalls == MultiKey \cup Everywhere \cup Connecting \cup Singles

Later ==
  {GetOne("b1"), With("dbsize", "con", 0), With("close", "db", 3),
   With("rename", "old", "a1") @@ ("new" :> "b1"),
   With("smove", "src", "a1") @@ ("dst" :> "b1") @@ ("member" :> "x")}

\* What the keys hold: nothing, texts, lists, sets that overlap, another type.
SomeContents ==
  LET D(a1, a2, b1) == "a1" :> a1 @@ "a2" :> a2 @@ "b1" :> b1
  IN  {D(Nothing, Nothing, Nothing),
       D(Str("v"), Nothing, Str("w")),
       D(Nothing, Str("v"), Nothing),
       D(List(<<"x", "y", "x">>), Str("v"), Nothing),
       D(Set({"x", "y"}), Set({"y", "z"}), Set({"y"})),
       D(Set({"x"}), Set({"y"}), Set({"z"})),
       D(Set({"y"}), Nothing, Set({"x", "y"})),
       D(Hash, Nothing, Nothing),
       D(Str("v"), Set({"x"}), List(<<"w">>))}

SomeDisturbers == {<<"a1", Nothing>>, <<"b1", Str("other")>>}
=============================================================================
