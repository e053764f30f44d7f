---------------------------- MODULE JsonDocument ----------------------------
(***************************************************************************)
(* A client of parson.c and its document: it reads it from a text, changes *)
(* it call by call, by name, by dotted name or in its arrays, and replaces *)
(* it by a deep copy.  A text that cannot be read leaves it the document   *)
(* it had.                                                                 *)
(***************************************************************************)
EXTENDS JsonText

CONSTANTS Texts,       \* texts to parse
          Commented,   \* texts to parse with comments
          Names,       \* names and dotted names
          Scalars,     \* strings, numbers, ... to store; InitString of them
          MaxCalls     \* bound

Whole == <<0>>    \* stands for the document where a name is expected

VARIABLES root,   \* the document
          live,   \* blocks allocated and not freed
          last,   \* the last call: its name, what it was called with, its result;
                  \* "colon", "member", "refused": what a text is refused for;
                  \* "gap": the item removed from an array is not the last one
          calls   \* calls so far
vars == <<root, live, last, calls>>

Stored == Scalars \cup {Object, Array}
Fresh(value) == IF value.type = "string" THEN InitString(value.scalar) ELSE value

Get(doc, path) == IF path = Whole THEN doc ELSE json_object_dotget_value(doc, path)

Init ==
  /\ root = Object /\ live = Blocks(Object) /\ calls = 0
  /\ last = [call |-> "init", path |-> Whole, place |-> 0, value |-> Nothing, ok |-> TRUE]

CalledAt(call, path, place, value, ok) ==
  /\ calls < MaxCalls /\ calls' = calls + 1
  /\ last' = [call |-> call, path |-> path, place |-> place, value |-> value, ok |-> ok]

Called(call, path, value, ok) == CalledAt(call, path, 0, value, ok)

\* The new document takes the place of the old one, which is freed.
Replaced(r) ==
  /\ root' = IF r.ok THEN r.v ELSE root
  /\ live' = live + r.d - (IF r.ok THEN Blocks(root) ELSE 0)

Parse ==
  \E t \in Texts : \E r \in {json_parse_string(t)} :
    Replaced(r) /\ Called(r.why, Whole, IF r.ok THEN Nothing ELSE r.v, r.ok)

ParseWithComments ==
  \E t \in Commented : \E r \in {json_parse_string_with_comments(t)} :
    Replaced(r) /\ Called(r.why, Whole, IF r.ok THEN Nothing ELSE r.v, r.ok)

DeepCopy ==
  LET r == json_value_deep_copy(root)
  IN  Replaced(r) /\ Called("copy", Whole, Nothing, r.ok)

Changed(r) == root' = r.v /\ live' = live + r.d

Set ==
  \E name \in Names, value \in Stored :
    LET r == json_object_set(root, name, Fresh(value))
    IN  Changed(r) /\ Called("set", name, value, r.ok)

DotSet ==
  \E path \in Names, value \in Stored :
    LET r == json_object_dotset(root, path, Fresh(value))
    IN  Changed(r) /\ Called("dotset", path, value, r.ok)

RemoveName ==
  \E name \in Names : LET r == json_object_remove(root, name)
                      IN  Changed(r) /\ Called("remove", name, Nothing, r.ok)

DotRemove ==
  \E path \in Names : LET r == json_object_dotremove(root, path)
                      IN  Changed(r) /\ Called("dotremove", path, Nothing, r.ok)

\* The calls for an object or array get it from the document by its name.
RECURSIVE With(_, _, _)
With(doc, path, new) ==
  IF path = Whole THEN new
  ELSE IF Dot(path) = 0 THEN [doc EXCEPT !.items[Index(doc, path)] = new]
  ELSE [doc EXCEPT !.items[Index(doc, Head1(path))] = With(@, Behind(path), new)]

At(path, r) == root' = With(root, path, r.v) /\ live' = live + r.d

Targets(type) == {path \in Names \cup {Whole} : Get(root, path).type = type}

Clear ==
  \E path \in Targets("object") :
    LET r == json_object_clear(Get(root, path))
    IN  At(path, r) /\ Called("clear", path, Nothing, r.ok)

ClearArray ==
  \E path \in Targets("array") :
    LET r == json_array_clear(Get(root, path))
    IN  At(path, r) /\ Called("clear", path, Nothing, r.ok)

AppendItem ==
  \E path \in Targets("array"), value \in Scalars :
    LET r == json_array_append(Get(root, path), Fresh(value))
    IN  At(path, r) /\ Called("append", path, value, r.ok)

ReplaceItem ==
  \E path \in Targets("array"), value \in Scalars : \E i \in 1..(Count(Get(root, path)) + 1) :
    LET r == json_array_replace(Get(root, path), i, Fresh(value))
    IN  At(path, r) /\ CalledAt("replace", path, i, value, r.ok)

RemoveItem ==
  \E path \in Targets("array") : \E i \in 1..(Count(Get(root, path)) + 1) :
    LET arr == Get(root, path)
        r   == json_array_remove(arr, i)
    IN  At(path, r) /\ CalledAt(IF i < Count(arr) THEN "gap" ELSE "take", path, i, Nothing, r.ok)

Next == \/ Parse \/ ParseWithComments \/ DeepCopy
        \/ Set \/ DotSet \/ RemoveName \/ DotRemove \/ Clear
        \/ ClearArray \/ AppendItem \/ ReplaceItem \/ RemoveItem

Spec == Init /\ [][Next]_vars

-----------------------------------------------------------------------------
(* Properties                                                              *)

RECURSIVE Depth(_), TextsIn(_)
Depth(v)   == LET below == {Depth(v.items[k]) : k \in DOMAIN v.items}
              IN  IF below = {} THEN 0 ELSE 1 + (CHOOSE d \in below : \A e \in below : e <= d)
TextsIn(v) == (IF v.type = "string" THEN {v.scalar} ELSE ToSet(v.names))
                \cup UNION {TextsIn(v.items[k]) : k \in DOMAIN v.items}

Readable(v) ==
  /\ ~HasHole(v) /\ v.type \in {"object", "array"} /\ Depth(v) <= MAX_NESTING
  /\ \A text \in TextsIn(v) : \A k \in DOMAIN text : text[k] >= 32 \/ Place(Escaped, text[k]) > 0

\* What json_serialize_to_string or its pretty form writes, json_parse_string
\* reads: it gives an equal document, and no less after comments have been
\* looked for.  It fails for the other documents: those with a null pointer
\* left by json_array_remove, with a control character that has no escape of
\* its own, or nested more than MAX_NESTING deep.
RoundTrip ==
  \A text \in {json_serialize_to_string(root, pretty) : pretty \in BOOLEAN} :
    \A again \in {json_parse_string(text)} :
      IF Readable(root)
      THEN /\ again.ok /\ json_value_equals(again.v, root) /\ json_value_equals(root, again.v)
           /\ again.d = Blocks(again.v)
           /\ json_parse_string_with_comments(text) = again
      ELSE ~again.ok

\* Every string of the document is well-formed UTF-8, whatever was offered to
\* json_value_init_string and whatever \u escapes the texts had; the texts
\* that are parsed are well-formed themselves.
StringsWellFormed == \A text \in TextsIn(root) : WellFormed(text)

\* What a call that succeeds is for.  Items are compared at their places.
Kept(a, b) == a # Nothing /\ \A k \in DOMAIN a.items \cap DOMAIN b.items :
                                json_value_equals(a.items[k], b.items[k])
Achieved(call, path, place, value, old, new) ==
  LET arr == Get(old, path)
      now == Get(new, path)
  IN  CASE call = "set"       -> json_value_equals(json_object_get_value(new, path), value)
        [] call = "dotset"    -> json_value_equals(now, value)
        [] call = "remove"    -> json_object_get_value(new, path) = Nothing
        [] call = "dotremove" -> now = Nothing
        [] call = "clear"     -> now.type = arr.type /\ Count(now) = 0
        [] call = "append"    -> /\ Count(now) = Count(arr) + 1 /\ Kept(now, arr)
                                 /\ json_value_equals(now.items[Count(now)], value)
        [] call = "replace"   -> json_value_equals(now, [arr EXCEPT !.items[place] = value])
        [] call = "take"      -> Count(now) = Count(arr) - 1 /\ Kept(now, arr)
        [] call = "gap"       -> /\ Count(now) = Count(arr) - 1 /\ now.items[place] = Nothing
                                 /\ \A k \in DOMAIN now.items \ {place} :
                                      json_value_equals(now.items[k], arr.items[k])
        [] call = "copy"      -> json_value_equals(new, old)
        [] OTHER              -> TRUE

Related(p, q) == p = q \/ IsPrefix(p \o <<46>>, q) \/ IsPrefix(q \o <<46>>, p)

\* Whether a call for p may change what q leads to, dot by dot or as one name.
\* json_object_set and json_object_remove take a name with dots as one name.
MayChange(call, p, q) ==
  \/ p = Whole
  \/ Related(p, q) /\ (call \in {"set", "remove"} => Dot(p) = 0)
MayChangeMember(call, p, q) ==
  \/ p = Whole
  \/ IF call \in {"set", "remove"} THEN p = q ELSE Dot(q) = 0 /\ Related(p, q)

\* A call that succeeds does what it is for: what is stored by a (dotted) name
\* is found by it, what is removed is not, an item is appended, replaced or
\* removed at its place and the other items keep theirs, a copy is equal.
\* (json_array_remove of an item but the last drops the last one as well, and
\* leaves a null pointer in the place.)  It changes what another name leads to
\* only if one of the two leads through the other.  A call that fails,
\* whichever it is, changes nothing.
PathsIndependent ==
  [][IF last'.ok
     THEN /\ Achieved(last'.call, last'.path, last'.place, last'.value, root, root')
          /\ \A q \in Names :
               /\ \/ MayChange(last'.call, last'.path, q)
                  \/ json_value_equals(Get(root', q), Get(root, q))
               /\ \/ MayChangeMember(last'.call, last'.path, q)
                  \/ json_value_equals(json_object_get_value(root', q), json_object_get_value(root, q))
     ELSE json_value_equals(root', root)]_vars

\* The blocks that no document holds any more and nobody frees become more by
\* exactly these: the value that json_object_set refuses; the last item of an
\* array, when json_array_remove removes another one, although parson.h:167
\* says that it frees and removes the value at the given index; the key in
\* front of a missing colon; the blocks but the first of a value that a text
\* gives to a member that cannot be added.  A text refused for anything else,
\* and every other call, loses nothing; and they never become fewer: nothing
\* is freed twice.
Lost(doc, blocks) == blocks - Blocks(doc)
LostBy(call) ==
  CASE call.call = "set" /\ ~call.ok -> Blocks(Fresh(call.value))
    [] call.call = "gap"    -> Blocks(Last(Get(root, call.path).items))
    [] call.call = "colon"  -> 1
    [] call.call = "member" -> Blocks(call.value) - 1
    [] OTHER                -> 0
BlocksKept == [][Lost(root', live') - Lost(root, live) = LostBy(last')]_vars
=============================================================================
