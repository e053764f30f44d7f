----------------------------- MODULE JsonValue -----------------------------
(***************************************************************************)
(* The values of parson.c and its functions on objects and arrays.         *)
(* Memory is counted in blocks: an operator that allocates or frees        *)
(* returns, besides its result, the difference d of the blocks allocated   *)
(* and the blocks freed.  Allocation never fails.  A function that fails   *)
(* returns ok = FALSE and the object or array as it left it.               *)
(* (Definitions with a suffix after "_" are faulty variants, see CmdFifo.) *)
(***************************************************************************)
EXTENDS Utf8, Integers, SequencesExt

CONSTANTS STARTING_CAPACITY,    \* 15 in the code
          OBJECT_MAX_CAPACITY,  \* 960
          ARRAY_MAX_CAPACITY,   \* 122880
          MAX_NESTING           \* 19

ASSUME LimitsAssumption ==
  /\ STARTING_CAPACITY \in Nat \ {0} /\ MAX_NESTING \in Nat
  /\ OBJECT_MAX_CAPACITY \in Nat /\ ARRAY_MAX_CAPACITY \in Nat

-----------------------------------------------------------------------------
(* Nothing stands for a null pointer.  Objects have names and items,       *)
(* arrays items only; capacity is that of their tables.                    *)

Value(type, scalar) ==
  [type |-> type, scalar |-> scalar, names |-> <<>>, items |-> <<>>, capacity |-> 0]

Nothing       == Value("error", <<>>)
String(bytes) == Value("string", bytes)
Number(n)     == Value("number", <<n>>)
Boolean(b)    == Value("boolean", <<b>>)
Null          == Value("null", <<>>)
Object        == Value("object", <<>>)
Array         == Value("array", <<>>)

Count(v) == Len(v.items)

\* json_value_init_string takes no text that is not UTF-8.
InitString(bytes) == IF is_valid_utf8(bytes) THEN String(bytes) ELSE Nothing

Total(f) == FoldFunction(+, 0, f)

\* The blocks json_value_free frees: the value, the text of a string, the
\* head of an object or array with its tables, the names and the members.
RECURSIVE Blocks(_)
Blocks(v) ==
  LET members == Total([i \in DOMAIN v.items |-> Blocks(v.items[i])])
  IN  CASE v.type = "error"  -> 0
        [] v.type = "string" -> 2
        [] v.type = "object" -> 2 + (IF v.capacity > 0 THEN 2 ELSE 0) + Len(v.names) + members
        [] v.type = "array"  -> 2 + (IF v.capacity > 0 THEN 1 ELSE 0) + members
        [] OTHER             -> 1

Done(v, d)   == [ok |-> TRUE, v |-> v, d |-> d]
Failed(v, d) == [ok |-> FALSE, v |-> v, d |-> d]

-----------------------------------------------------------------------------
(* Room for one more.  The tables grow before anything else is looked at.  *)

Larger(a, b) == IF a > b THEN a ELSE b

Room(v, limit, tables) ==
  LET new == Larger(v.capacity * 2, STARTING_CAPACITY)
  IN  IF Count(v) < v.capacity THEN Done(v, 0)
      ELSE IF new > limit THEN Failed(v, 0)
      ELSE Done([v EXCEPT !.capacity = new], IF v.capacity = 0 THEN tables ELSE 0)

\* The first member with that name, 0 if there is none.
Index(obj, name) == SelectInSeq(obj.names, LAMBDA n : n = name)

json_object_get_value(obj, name) ==
  IF Index(obj, name) > 0 THEN obj.items[Index(obj, name)] ELSE Nothing

json_object_add(obj, name, value) ==
  LET r == Room(obj, OBJECT_MAX_CAPACITY, 2)
  IN  IF r.ok /\ json_object_get_value(obj, name) = Nothing
      THEN Done([r.v EXCEPT !.names = Append(@, name), !.items = Append(@, value)], r.d + 1)
      ELSE Failed(r.v, r.d)

json_array_add(arr, value) ==
  LET r == Room(arr, ARRAY_MAX_CAPACITY, 1)
  IN  IF r.ok THEN [r EXCEPT !.v.items = Append(@, value)] ELSE r

-----------------------------------------------------------------------------
(* Objects, by name and by dotted name                                     *)

json_object_set_value(obj, name, value) ==
  LET k == Index(obj, name)
  IN  CASE obj.type # "object" \/ value = Nothing -> Failed(obj, 0)
        [] obj.type = "object" /\ value # Nothing /\ k > 0 ->
             Done([obj EXCEPT !.items[k] = value], -Blocks(obj.items[k]))
        [] OTHER -> json_object_add(obj, name, value)

\* json_object_set_string, _number, _boolean, _null: the new value is handed
\* over and nobody frees it when it is refused.
json_object_set(obj, name, value) ==
  LET r == json_object_set_value(obj, name, value) IN [r EXCEPT !.d = @ + Blocks(value)]

Swapped(seq, i) == Front([seq EXCEPT ![i] = Last(seq)])    \* the last one takes the place

json_object_remove_LastDropped(obj, name) ==    \* the last member is not moved
  LET k == Index(obj, name)
  IN  IF obj.type # "object" \/ k = 0 THEN Failed(obj, 0)
      ELSE Done([obj EXCEPT !.names = Front(@), !.items = Front(@)], -(1 + Blocks(obj.items[k])))

json_object_remove(obj, name) ==
  LET k == Index(obj, name)
  IN  IF obj.type # "object" \/ k = 0 THEN Failed(obj, 0)
      ELSE Done([obj EXCEPT !.names = Swapped(@, k), !.items = Swapped(@, k)],
                -(1 + Blocks(obj.items[k])))

json_object_clear(obj) ==
  IF obj.type # "object" THEN Failed(obj, 0)
  ELSE Done([obj EXCEPT !.names = <<>>, !.items = <<>>],
            -Total([k \in DOMAIN obj.items |-> 1 + Blocks(obj.items[k])]))

Dot(path)    == SelectInSeq(path, LAMBDA b : b = 46)
Head1(path)  == SubSeq(path, 1, Dot(path) - 1)
Behind(path) == SubSeq(path, Dot(path) + 1, Len(path))

RECURSIVE json_object_dotget_value(_, _)
json_object_dotget_value(obj, path) ==
  IF Dot(path) = 0 THEN json_object_get_value(obj, path)
  ELSE json_object_dotget_value(json_object_get_value(obj, Head1(path)), Behind(path))

\* The object on the way is made when no member has its name; a member that
\* is no object makes the call fail.
RECURSIVE json_object_dotset_value(_, _, _)
json_object_dotset_value(obj, path, value) ==
  LET way   == json_object_get_value(obj, Head1(path))
      added == json_object_add(obj, Head1(path), Object)
      Deeper(o, r) == [ok |-> r.ok, d |-> r.d, v |-> [o EXCEPT !.items[Index(o, Head1(path))] = r.v]]
  IN  CASE value = Nothing -> Failed(obj, 0)
        [] value # Nothing /\ Dot(path) = 0 -> json_object_set_value(obj, path, value)
        [] value # Nothing /\ Dot(path) > 0 /\ way.type = "object" ->
             Deeper(obj, json_object_dotset_value(way, Behind(path), value))
        [] OTHER ->
             IF obj.type # "object" THEN Failed(obj, 0)
             ELSE IF ~added.ok THEN added
             ELSE LET r == Deeper(added.v, json_object_dotset_value(Object, Behind(path), value))
                  IN  [r EXCEPT !.d = @ + added.d + Blocks(Object)]

\* json_object_dotset_string and its siblings free a value that is refused.
json_object_dotset_Kept(obj, path, value) ==    \* they do not
  LET r == json_object_dotset_value(obj, path, value) IN [r EXCEPT !.d = @ + Blocks(value)]

json_object_dotset(obj, path, value) ==
  LET r == json_object_dotset_value(obj, path, value)
  IN  [r EXCEPT !.d = @ + (IF r.ok THEN Blocks(value) ELSE 0)]

RECURSIVE json_object_dotremove(_, _)
json_object_dotremove(obj, path) ==
  LET way == json_object_get_value(obj, Head1(path))
      r   == json_object_dotremove(way, Behind(path))
  IN  IF Dot(path) = 0 THEN json_object_remove(obj, path)
      ELSE IF way.type # "object" THEN Failed(obj, 0)
      ELSE [ok |-> r.ok, d |-> r.d, v |-> [obj EXCEPT !.items[Index(obj, Head1(path))] = r.v]]

-----------------------------------------------------------------------------
(* Arrays.  Positions begin with 0 in the code and with 1 here.            *)

\* _string, _number, _boolean and _null of append and replace free a value
\* that is refused.
json_array_append(arr, value) ==
  LET r == json_array_add(arr, value)
  IN  IF arr.type # "array" \/ value = Nothing THEN Failed(arr, 0)
      ELSE [r EXCEPT !.d = @ + (IF r.ok THEN Blocks(value) ELSE 0)]

json_array_replace(arr, i, value) ==
  IF arr.type # "array" \/ value = Nothing \/ i > Count(arr) THEN Failed(arr, 0)
  ELSE Done([arr EXCEPT !.items[i] = value], Blocks(value) - Blocks(arr.items[i]))

\* The count is lowered before the last item is fetched to fill the gap, so
\* nothing is fetched: the place keeps a null pointer, the last item is lost.
json_array_remove(arr, i) ==
  IF arr.type # "array" \/ i > Count(arr) THEN Failed(arr, 0)
  ELSE Done([arr EXCEPT !.items = Front(IF i = Count(arr) THEN @ ELSE [@ EXCEPT ![i] = Nothing])],
            -Blocks(arr.items[i]))

json_array_clear(arr) ==
  IF arr.type # "array" THEN Failed(arr, 0)
  ELSE Done([arr EXCEPT !.items = <<>>], -Total([k \in DOMAIN arr.items |-> Blocks(arr.items[k])]))

-----------------------------------------------------------------------------
(* Copies and comparison                                                   *)

\* Fails at a null pointer in an array and frees what it has copied.
RECURSIVE json_value_deep_copy(_)
json_value_deep_copy(v) ==
  LET new == [v EXCEPT !.names = <<>>, !.items = <<>>, !.capacity = 0]
      Add(sofar, k) ==
        LET item == json_value_deep_copy(v.items[k])
            a    == IF v.type = "object" THEN json_object_add(sofar.v, v.names[k], item.v)
                    ELSE json_array_add(sofar.v, item.v)
        IN  IF ~sofar.ok THEN sofar
            ELSE IF ~item.ok THEN Failed(Nothing, sofar.d + item.d - Blocks(sofar.v))
            ELSE IF ~a.ok THEN Failed(Nothing, sofar.d + item.d + a.d - Blocks(a.v) - Blocks(item.v))
            ELSE Done(a.v, sofar.d + item.d + a.d)
  IN  IF v = Nothing THEN Failed(Nothing, 0)
      ELSE FoldLeft(Add, Done(new, Blocks(new)), [k \in DOMAIN v.items |-> k])

\* Members of objects are compared by name, in any order.
RECURSIVE json_value_equals(_, _)
json_value_equals(a, b) ==
  /\ a.type = b.type /\ a.scalar = b.scalar /\ Count(a) = Count(b)
  /\ \A k \in DOMAIN a.items :
       json_value_equals(a.items[k],
                         IF a.type = "object" THEN json_object_get_value(b, a.names[k]) ELSE b.items[k])
=============================================================================
