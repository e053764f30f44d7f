-------------------------------- MODULE Utf8 --------------------------------
(***************************************************************************)
(* Texts as bytes, the way parson.c looks at them: which bytes it takes    *)
(* for UTF-8, and the bytes it makes from the escape \uXXXX.  Masks and    *)
(* shifts are written as divisions.  A text has no byte 0; reading behind  *)
(* its end gives the terminating 0.                                        *)
(* (Definitions with a suffix after "_" are faulty variants, see CmdFifo.) *)
(***************************************************************************)
EXTENDS Naturals, Sequences

Char(text, i) == IF i \in DOMAIN text THEN text[i] ELSE 0

IS_CONT(b) == b \div 64 = 2    \* 10xxxxxx

num_bytes_in_utf8_sequence(c) ==
  CASE c \in {192, 193} \/ c > 244 \/ IS_CONT(c) -> 0
    [] c < 128          -> 1
    [] c \div 32 = 6    -> 2
    [] c \div 16 = 14   -> 3
    [] c \div 8 = 30    -> 4

\* The code point of the len bytes that begin at i.
CodePoint(text, i, len) ==
  LET b(k) == Char(text, i + k)
  IN  CASE len = 1 -> b(0)
        [] len = 2 -> (b(0) % 32) * 64 + (b(1) % 64)
        [] len = 3 -> (b(0) % 16) * 4096 + (b(1) % 64) * 64 + (b(2) % 64)
        [] len = 4 -> (b(0) % 8) * 262144 + (b(1) % 64) * 4096 + (b(2) % 64) * 64 + (b(3) % 64)

Surrogates == 55296..57343    \* 0xD800..0xDFFF

verify_utf8_sequence_Overlong(text, i) ==    \* overlong encodings accepted
  LET len == num_bytes_in_utf8_sequence(Char(text, i))
      cp  == CodePoint(text, i, len)
  IN  /\ len > 0
      /\ \A k \in 1..(len - 1) : IS_CONT(Char(text, i + k))
      /\ cp <= 1114111 /\ cp \notin Surrogates

verify_utf8_sequence(text, i) ==
  LET len == num_bytes_in_utf8_sequence(Char(text, i))
      cp  == CodePoint(text, i, len)
  IN  /\ len > 0
      /\ \A k \in 1..(len - 1) : IS_CONT(Char(text, i + k))
      /\ ~(cp < 128 /\ len > 1) /\ ~(cp < 2048 /\ len > 2) /\ ~(cp < 65536 /\ len > 3)
      /\ cp <= 1114111 /\ cp \notin Surrogates

is_valid_utf8(text) ==
  LET valid[i \in 1..(Len(text) + 4)] ==
        \/ i > Len(text)
        \/ verify_utf8_sequence(text, i) /\ valid[i + num_bytes_in_utf8_sequence(text[i])]
  IN  valid[1]

-----------------------------------------------------------------------------
(* \uXXXX                                                                  *)

HexDigit(c) ==
  CASE c \in 48..57  -> c - 48
    [] c \in 65..70  -> c - 55
    [] c \in 97..102 -> c - 87
    [] OTHER         -> 16

is_utf16_hex(text, i) == \A k \in 0..3 : HexDigit(Char(text, i + k)) < 16

Hex4(text, i) ==
  LET h(k) == HexDigit(Char(text, i + k))
  IN  h(0) * 4096 + h(1) * 256 + h(2) * 16 + h(3)

\* The bytes for a code point, in the four ranges of the code.
Bytes(cp) ==
  LET low(n) == ((cp \div n) % 64) + 128
  IN  CASE cp < 128   -> <<cp>>
        [] cp \in 128..2047   -> <<((cp \div 64) % 32) + 192, low(1)>>
        [] cp \in 2048..65535 -> <<((cp \div 4096) % 16) + 224, low(64), low(1)>>
        [] cp > 65535         -> <<((cp \div 262144) % 8) + 240, low(4096), low(64), low(1)>>

Lead  == 55296..56319
Trail == 56320..57343

\* i is the position of the "u".  next is the one behind the escape.
parse_utf_16(text, i) ==
  LET cp    == Hex4(text, i + 1)
      trail == Hex4(text, i + 7)
      pair  == ((cp - 55296) % 1024) * 1024 + ((trail - 56320) % 1024) + 65536
      fails == [ok |-> FALSE, bytes |-> <<>>, next |-> i]
  IN  CASE ~is_utf16_hex(text, i + 1) -> fails
        [] is_utf16_hex(text, i + 1) /\ cp \notin Surrogates ->
             [ok |-> TRUE, bytes |-> Bytes(cp), next |-> i + 5]
        [] is_utf16_hex(text, i + 1) /\ cp \in Trail -> fails
        [] is_utf16_hex(text, i + 1) /\ cp \in Lead ->
             IF /\ Char(text, i + 5) = 92 /\ Char(text, i + 6) = 117    \* "\u"
                /\ is_utf16_hex(text, i + 7) /\ trail \in Trail
             THEN [ok |-> TRUE, bytes |-> Bytes(pair), next |-> i + 11]
             ELSE fails

-----------------------------------------------------------------------------
(* Reference: the well-formed byte sequences of the Unicode standard.      *)

Cont == 128..191

Form(s) ==
  \/ Len(s) = 1 /\ s[1] \in 1..127
  \/ Len(s) = 2 /\ s[1] \in 194..223 /\ s[2] \in Cont
  \/ Len(s) = 3 /\ s[3] \in Cont
       /\ \/ s[1] = 224 /\ s[2] \in 160..191
          \/ s[1] \in (225..239) \ {237} /\ s[2] \in Cont
          \/ s[1] = 237 /\ s[2] \in 128..159
  \/ Len(s) = 4 /\ s[3] \in Cont /\ s[4] \in Cont
       /\ \/ s[1] = 240 /\ s[2] \in 144..191
          \/ s[1] \in 241..243 /\ s[2] \in Cont
          \/ s[1] = 244 /\ s[2] \in 128..143

WellFormed(text) ==
  LET from[i \in 1..(Len(text) + 1)] ==
        \/ i > Len(text)
        \/ \E n \in 1..4 : i + n <= Len(text) + 1 /\ Form(SubSeq(text, i, i + n - 1)) /\ from[i + n]
  IN  from[1]
=============================================================================
