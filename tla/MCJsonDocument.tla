--------------------------- MODULE MCJsonDocument ---------------------------
(***************************************************************************)
(* Instance of JsonDocument: small limits and a few telling texts.         *)
(***************************************************************************)
EXTENDS JsonDocument

\* The bytes of a text that is written with ' for the quote and ! for the
\* backslash.
Signs == " !'*,-./0123456789:ABCDEFGHIJKLMNOPQRSTUVWXYZ[]abcdefghijklmnopqrstuvwxyz{}"
Codes == <<32, 92, 34, 42, 44, 45, 46, 47>> \o [k \in 1..11 |-> 47 + k] \o [k \in 1..26 |-> 64 + k]
           \o <<91, 93>> \o [k \in 1..26 |-> 96 + k] \o <<123, 125>>
Code == [c \in {SubSeq(Signs, k, k) : k \in 1..Len(Signs)} |->
           Codes[CHOOSE k \in 1..Len(Signs) : SubSeq(Signs, k, k) = c]]
Text(s) == [k \in 1..Len(s) |-> Code[SubSeq(s, k, k)]]

MCTexts == {
  Text("{'a':{'b':'x!/'},'b':[1,-20]} x"),     \* text behind the document
  Text("[{'a':null},true]"),
  Text("{'a':'!u00e9!u20AC!uD83D!uDE00!n'}"),  \* two, three, four bytes
  Text("{'a':'!uDE00'}"),                       \* half a pair
  Text("{'a':1,'a':[2]}"),                       \* a name twice
  Text("{'a' 1}"), Text("[1,]"), Text("{'a':01}"), Text("[1"),
  Text("{a':'!u0000z'}"),                       \* a key without opening quote, a byte 0
  Text("[[[0]]]"), Text("[[[[0]]]]") }           \* as deep as allowed, and deeper

MCCommented == { Text("/* { */{'a':'//' /*'*/}// x") \o <<10>>, Text("{'a':1}/*"), Text("{}// x") }

MCNames == { Text("a"), Text("b"), Text("a.b"), Text("a.b.a") }

MCScalars == { String(<<92, 34>>), String(<<1>>), String(<<195, 169>>),
               String(<<224, 130, 169>>),  \* three bytes for what needs two
               Number(-7) }
=============================================================================
