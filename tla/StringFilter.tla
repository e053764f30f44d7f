---------------------------- MODULE StringFilter ----------------------------
(***************************************************************************)
(* jpush_arg::string_filter (files.cpp), which cuts a redis record into    *)
(* fields, one action per way through the body of its loop.  Positions     *)
(* count from 1, so src itself is position 1, the last character is        *)
(* position Len(src) and the terminating '\0' is position Len(src) + 1.    *)
(* The only delimiter the program uses is one character long.  A field is  *)
(* copied into temp without a test of its length: what the program does    *)
(* once a field does not fit is undefined, and not followed any further.   *)
(* (Definitions with a suffix after "_" are faulty variants, see CmdFifo.) *)
(***************************************************************************)
EXTENDS Integers, Sequences, FiniteSets

CONSTANTS Chars,    \* the characters of a record
          Delim,    \* the delimiter, "," in the program
          Records,  \* the texts that come out of redis, without '\0'
          FieldSize \* the bytes of temp, 256 in the program

ASSUME TextAssumption ==
  Delim \in Chars /\ Records \subseteq Seq(Chars) /\ FieldSize \in Nat \ {0}

VARIABLES src,      \* the record, never assigned
          front,    \* where the next field begins
          res,      \* the fields found so far
          pc        \* "loop" at the loop condition, "done" after the loop,
                    \* "undefined" when a text was copied where it does not fit

vars == <<src, front, res, pc>>

Init ==
  /\ src \in Records
  /\ front = 1
  /\ res = <<>>
  /\ pc = "loop"

\* strstr(front, delim) finds the delimiter at position b
Found(b) ==
  /\ b \in front..Len(src)
  /\ src[b] = Delim
  /\ \A i \in front..(b - 1) : src[i] # Delim

NotFound == \A i \in front..Len(src) : src[i] # Delim

InLoop == pc = "loop" /\ front # Len(src)

\* memcpy(temp, front, n); stemp = temp: the '\0' behind it needs a place too
Fits(n) == n < FieldSize

Overrun ==          \* either memcpy
  /\ InLoop
  /\ \/ NotFound /\ ~Fits(Len(src) + 1 - front)
     \/ \E b \in 2..Len(src) : Found(b) /\ ~Fits(b - front)
  /\ pc' = "undefined"
  /\ UNCHANGED <<src, front, res>>

Leave_PastEnd ==    \* while(front != src + strlen(src))
  /\ pc = "loop"
  /\ front = Len(src) + 1
  /\ pc' = "done"
  /\ UNCHANGED <<src, front, res>>

Leave ==            \* while(front != src + strlen(src) - 1)
  /\ pc = "loop"
  /\ front = Len(src)
  /\ pc' = "done"
  /\ UNCHANGED <<src, front, res>>

TakeRest_OneShort ==
  /\ InLoop
  /\ NotFound /\ Fits(Len(src) + 1 - front)
  /\ res' = Append(res, SubSeq(src, front, Len(src) - 1))
  /\ pc' = "done"
  /\ UNCHANGED <<src, front>>

TakeRest ==
  /\ InLoop
  /\ NotFound /\ Fits(Len(src) + 1 - front)
  /\ res' = Append(res, SubSeq(src, front, Len(src)))
  /\ pc' = "done"
  /\ UNCHANGED <<src, front>>

SkipLeading ==      \* back == src
  /\ InLoop
  /\ Found(1)
  /\ res' = Append(res, <<>>)
  /\ front' = front + 1
  /\ UNCHANGED <<src, pc>>

TakeField_NoBreak(b) ==
  /\ InLoop
  /\ Found(b) /\ Fits(b - front)
  /\ b # 1
  /\ front' = b + 1
  /\ res' = Append(res, SubSeq(src, front, b - 1))
  /\ UNCHANGED <<src, pc>>

TakeField(b) ==
  /\ InLoop
  /\ Found(b) /\ Fits(b - front)
  /\ b # 1
  /\ front' = b + 1
  /\ IF b = Len(src)
       THEN /\ res' = Append(Append(res, SubSeq(src, front, b - 1)), <<>>)
            /\ pc' = "done"
       ELSE /\ res' = Append(res, SubSeq(src, front, b - 1))
            /\ UNCHANGED pc
  /\ UNCHANGED src

Next ==
  \/ Leave \/ TakeRest \/ SkipLeading \/ Overrun
  \/ \E b \in 2..Len(src) : TakeField(b)

Spec == Init /\ [][Next]_vars

-----------------------------------------------------------------------------
(* Properties                                                              *)

TypeOK ==
  /\ src \in Records
  /\ front \in 1..(Len(src) + 1)
  /\ res \in Seq(Seq(Chars))
  /\ pc \in {"loop", "done", "undefined"}

\* The loop compares front for equality with the last character: it never
\* gets past it, where it would read beyond the record and not stop.
FrontInside == pc = "loop" => front = 1 \/ front <= Len(src)

\* The record cut at every delimiter: the field before the k-th delimiter is
\* field k, the last one ends where the record does.
Delims  == {i \in DOMAIN src : src[i] = Delim}
UpTo(i) == Cardinality({j \in Delims : j <= i})

Cut(k) ==
  CASE k = 0                    -> 0
    [] k \in 1..UpTo(Len(src))  -> CHOOSE i \in Delims : UpTo(i) = k
    [] OTHER                    -> Len(src) + 1

Field(k) == SubSeq(src, Cut(k - 1) + 1, Cut(k) - 1)

\* The fields string_filter sees: what begins at the last character of the
\* record is not there for it.
Hidden ==
  CASE Len(src) = 1                                         -> UpTo(Len(src)) + 1
    [] Len(src) > 1 /\ src[Len(src) - 1] = Delim            ->
         IF src[Len(src)] = Delim THEN 2 ELSE 1
    [] OTHER                                                -> 0

Visible == [k \in 1..(UpTo(Len(src)) + 1 - Hidden) |-> Field(k)]

FieldsFit == \A k \in DOMAIN Visible : Fits(Len(Visible[k]))

\* What string_filter returns is what cutting the text means, but for fields
\* that begin at the last character; and it returns, with all that follows
\* defined, if each of these fields fits into temp.
FieldsReturned == pc \notin {"loop", "undefined"} => res = Visible /\ FieldsFit

\* The loop ends for every record, delimiters in any place, unless a field
\* does not fit.
Terminates == <>(pc = "done" \/ pc = "undefined")
=============================================================================
