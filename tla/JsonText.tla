------------------------------ MODULE JsonText ------------------------------
(***************************************************************************)
(* The parser and the serializer of parson.c.  A position in the text is   *)
(* passed along; parsing returns ok, the value v, the position i behind it *)
(* and the blocks d that are allocated and not freed; why says what a text *)
(* is refused for: a missing colon, a member that cannot be added (then v  *)
(* is its value), or anything else.  Numbers are integers.                 *)
(***************************************************************************)
EXTENDS JsonValue

IsSpace(c) == c \in {9, 10, 11, 12, 13, 32}

SkipSpaces(t, i) ==
  LET visible == {j \in i..Len(t) : ~IsSpace(t[j])}
  IN  IF visible = {} THEN Larger(i, Len(t) + 1) ELSE CHOOSE j \in visible : \A k \in visible : j <= k

-----------------------------------------------------------------------------
(* Strings                                                                 *)

\* The position behind the closing quote; the opening one is not looked at.
skip_quotes(t, i) ==
  LET close[j \in 1..(Len(t) + 1)] ==
        CASE Char(t, j) = 0  -> j
          [] Char(t, j) = 34 -> j + 1
          [] Char(t, j) = 92 -> IF Char(t, j + 1) = 0 THEN j + 1 ELSE close[j + 2]
          [] OTHER           -> close[j + 1]
  IN  close[i + 1]

Escaped == <<34, 92, 47, 8, 12, 10, 13, 9>>
Letters == <<34, 92, 47, 98, 102, 110, 114, 116>>    \* " \ / b f n r t

Place(seq, c) == SelectInSeq(seq, LAMBDA e : e = c)

\* What the byte at i, or the escape that begins there, stands for.
Unescaped(t, i) ==
  LET letter == Place(Letters, Char(t, i + 1))
  IN  CASE t[i] # 92 -> [ok |-> t[i] >= 32, bytes |-> <<t[i]>>, next |-> i + 1]
        [] t[i] = 92 /\ letter > 0 -> [ok |-> TRUE, bytes |-> <<Escaped[letter]>>, next |-> i + 2]
        [] t[i] = 92 /\ letter = 0 ->
             IF Char(t, i + 1) = 117 THEN parse_utf_16(t, i + 1)
             ELSE [ok |-> FALSE, bytes |-> <<>>, next |-> i]

\* The text between i and end, escapes replaced.
Processed(t, i, end) ==
  LET from[j \in 1..(Len(t) + 1)] ==
        IF j >= end \/ Char(t, j) = 0 THEN [ok |-> TRUE, bytes |-> <<>>]
        ELSE CHOOSE r \in {IF u.ok THEN [from[u.next] EXCEPT !.bytes = u.bytes \o @]
                           ELSE [ok |-> FALSE, bytes |-> <<>>] : u \in {Unescaped(t, j)}} : TRUE
  IN  from[i]

\* A C string ends at its first byte 0, which "\u0000" makes.
CString(bytes) == IF Place(bytes, 0) = 0 THEN bytes ELSE SubSeq(bytes, 1, Place(bytes, 0) - 1)

get_quoted_string(t, i) ==
  LET next == skip_quotes(t, i)
      p    == Processed(t, i + 1, next - 1)
  IN  IF Char(t, next) = 0 THEN [ok |-> FALSE, bytes |-> <<>>, i |-> next]
      ELSE [ok |-> p.ok, bytes |-> CString(p.bytes), i |-> next]

-----------------------------------------------------------------------------
(* Values                                                                  *)

TRUE_TOKEN  == <<116, 114, 117, 101>>
FALSE_TOKEN == <<102, 97, 108, 115, 101>>
NULL_TOKEN  == <<110, 117, 108, 108>>

Here(t, i, token) ==
  i + Len(token) <= Len(t) + 1 /\ SubSeq(t, i, i + Len(token) - 1) = token

Parsed(v, i, d)       == [ok |-> TRUE, v |-> v, i |-> i, d |-> d, why |-> "read"]
Stopped(why, v, i, d) == [ok |-> FALSE, v |-> v, i |-> i, d |-> d, why |-> why]
Refused(i, d)         == Stopped("refused", Nothing, i, d)

\* strtod takes the digits, if any; a zero in front of others is refused.
parse_number_value(t, i) ==
  LET first  == IF Char(t, i) = 45 THEN i + 1 ELSE i
      other  == {j \in first..(Len(t) + 1) : Char(t, j) \notin 48..57}
      behind == CHOOSE j \in other : \A k \in other : j <= k
      value  == Total([j \in first..(behind - 1) |-> (t[j] - 48) * 10^(behind - 1 - j)])
  IN  IF behind = first THEN Parsed(Number(0), i, 1)
      ELSE IF behind > first + 1 /\ t[first] = 48 THEN Refused(i, 0)
      ELSE Parsed(Number(IF first > i THEN -value ELSE value), behind, 1)

\* json_parse_string's result is trimmed: tables as large as the count.
Closed(v, i, d) == Parsed([v EXCEPT !.capacity = Count(v)], i, d)

RECURSIVE parse_value(_, _, _), Members(_, _, _, _, _)

parse_value(t, start, nesting) ==
  LET i == SkipSpaces(t, start)
      k == SkipSpaces(t, i + 1)
      c == Char(t, i)
      s == get_quoted_string(t, i)
      v == IF c = 123 THEN Object ELSE Array
  IN  IF nesting > MAX_NESTING THEN Refused(start, 0)
      ELSE CASE c \in {123, 91} -> IF Char(t, k) = c + 2 THEN Parsed(v, k + 1, 2)    \* the closing one
                                ELSE Members(t, k, nesting + 1, v, 2)
             [] c = 34  -> IF s.ok THEN Parsed(String(s.bytes), s.i, 2) ELSE Refused(s.i, 0)
             [] c = 45 \/ c \in 48..57    -> parse_number_value(t, i)
             [] Here(t, i, TRUE_TOKEN)  -> Parsed(Boolean(1), i + 4, 1)
             [] Here(t, i, FALSE_TOKEN) -> Parsed(Boolean(0), i + 5, 1)
             [] Here(t, i, NULL_TOKEN)  -> Parsed(Null, i + 4, 1)
             [] OTHER -> Refused(i, 0)

\* The loops of parse_object_value and parse_array_value; v is what they have
\* so far, made of d blocks.  A failure frees it all, but not the key in front
\* of a missing colon, and only the first block of a value that is not added.
Members(t, i, nesting, v, d) ==
  LET object == v.type = "object"
      key    == get_quoted_string(t, i)
      colon  == SkipSpaces(t, key.i)
      Then(val) ==
        LET a   == IF object THEN json_object_add(v, key.bytes, val.v) ELSE json_array_add(v, val.v)
            m   == SkipSpaces(t, val.i)
            all == d + val.d + a.d
        IN  IF ~val.ok THEN [val EXCEPT !.d = @ + d - Blocks(v)]
            ELSE IF ~a.ok THEN Stopped("member", val.v, val.i, all - Blocks(a.v) - 1)
            ELSE IF Char(t, m) = 44 THEN Members(t, SkipSpaces(t, m + 1), nesting, a.v, all)
            ELSE IF Char(t, m) = (IF object THEN 125 ELSE 93) THEN Closed(a.v, m + 1, all)
            ELSE Refused(m, all - Blocks(a.v))
  IN  IF Char(t, i) = 0 THEN Refused(i, d - Blocks(v))
      ELSE IF object /\ ~key.ok THEN Refused(colon, d - Blocks(v))
      ELSE IF object /\ Char(t, colon) # 58 THEN Stopped("colon", Nothing, colon, d - Blocks(v) + 1)
      ELSE CHOOSE r \in {Then(val) :
             val \in {parse_value(t, IF object THEN colon + 1 ELSE i, nesting)}} : TRUE

\* What stands behind the value is not looked at.
json_parse_string(t) ==
  LET i == SkipSpaces(t, 1)
  IN  IF Char(t, i) \in {123, 91} THEN parse_value(t, i, 0) ELSE Refused(i, 0)

-----------------------------------------------------------------------------
(* Comments                                                                *)

Blank(t, from, to) == [k \in DOMAIN t |-> IF k \in from..to THEN 32 ELSE t[k]]

\* Blanks what stands between the tokens, outside of strings.  A comment
\* without end loses its start token and nothing more.
RECURSIVE Uncommented(_, _, _, _, _, _)
Uncommented(t, i, start, end, in_string, escaped) ==
  LET ends  == {k \in (i + Len(start))..Len(t) : Here(t, k, end)}
      close == CHOOSE k \in ends : \A m \in ends : k <= m
      On(in, esc) == Uncommented(t, i + 1, start, end, in, esc)
  IN  IF i > Len(t) THEN t
      ELSE IF t[i] = 92 /\ ~escaped THEN On(in_string, TRUE)
      ELSE IF t[i] = 34 /\ ~escaped THEN On(~in_string, FALSE)
      ELSE IF in_string \/ ~Here(t, i, start) THEN On(in_string, FALSE)
      ELSE IF ends = {} THEN Blank(t, i, i + Len(start) - 1)
      ELSE Uncommented(Blank(t, i, close + Len(end) - 1), close + Len(end), start, end, FALSE, FALSE)

remove_comments(t, start, end) == Uncommented(t, 1, start, end, FALSE, FALSE)

json_parse_string_with_comments(t) ==
  json_parse_string(remove_comments(remove_comments(t, <<47, 42>>, <<42, 47>>), <<47, 47>>, <<10>>))

-----------------------------------------------------------------------------
(* Serializer                                                              *)

json_serialize_string_Plain(bytes) ==    \* a backslash is not escaped
  <<34>> \o FlattenSeq([k \in DOMAIN bytes |->
              LET e == Place(Escaped, bytes[k])
              IN  IF e > 0 /\ e # 2 THEN <<92, Letters[e]>> ELSE <<bytes[k]>>]) \o <<34>>

\* A control character without an escape of its own is written as it is.
json_serialize_string(bytes) ==
  <<34>> \o FlattenSeq([k \in DOMAIN bytes |->
              LET e == Place(Escaped, bytes[k])
              IN  IF e > 0 THEN <<92, Letters[e]>> ELSE <<bytes[k]>>]) \o <<34>>

RECURSIVE Digits(_)
Digits(n) == CASE n < 0    -> <<45>> \o Digits(-n)
               [] n \in 0..9 -> <<48 + n>>
               [] n > 9    -> Append(Digits(n \div 10), 48 + (n % 10))

Line(pretty)          == IF pretty THEN <<10>> ELSE <<>>
Indent(level, pretty) == IF pretty THEN [k \in 1..(4 * level) |-> 32] ELSE <<>>

RECURSIVE Written(_, _, _)
Written(v, level, pretty) ==
  LET Key(k)    == IF v.type = "array" THEN <<>>
                   ELSE json_serialize_string(v.names[k]) \o <<58>> \o (IF pretty THEN <<32>> ELSE <<>>)
      Member(k) == Indent(level + 1, pretty) \o Key(k) \o Written(v.items[k], level + 1, pretty)
                     \o (IF k < Count(v) THEN <<44>> ELSE <<>>) \o Line(pretty)
      Inside    == IF Count(v) = 0 THEN <<>>
                   ELSE Line(pretty) \o FlattenSeq([k \in 1..Count(v) |-> Member(k)])
                          \o Indent(level, pretty)
  IN  CASE v.type = "object"  -> <<123>> \o Inside \o <<125>>
        [] v.type = "array"   -> <<91>> \o Inside \o <<93>>
        [] v.type = "string"  -> json_serialize_string(v.scalar)
        [] v.type = "number"  -> Digits(v.scalar[1])
        [] v.type = "boolean" -> IF v.scalar[1] = 1 THEN TRUE_TOKEN ELSE FALSE_TOKEN
        [] v.type = "null"    -> NULL_TOKEN

RECURSIVE HasHole(_)
HasHole(v) == v = Nothing \/ \E k \in DOMAIN v.items : HasHole(v.items[k])

\* json_serialize_to_string and json_serialize_to_string_pretty; no text (a
\* null pointer) for a value with a null pointer in it.
json_serialize_to_string(v, pretty) == IF HasHole(v) THEN <<>> ELSE Written(v, 0, pretty)
=============================================================================
