---------------------------- MODULE MCRecordPath ----------------------------
(* RecordPath on every short text, and on records whose fields are put      *)
(* together from the values that the checks tell apart.                     *)
EXTENDS RecordPath, SequencesExt

MaxLen == 6
Letters == {"x", "0", Delim}
Texts == UNION {[1..n -> Letters] : n \in 0..MaxLen}

Commas(fields) == Tail(FlattenSeq([i \in DOMAIN fields |-> <<Delim>> \o fields[i]]))

Number == {<<"0">>, <<"1">>, <<"2">>, <<"3">>, <<"4">>, <<"5">>, <<"6">>, <<"7">>, <<"8">>, <<"9">>,
           <<"1", "0">>, <<"1", "1">>, <<"1", "2">>, <<"4", "9">>, <<"5", "0">>,
           <<"1", "0", "0">>, <<"0", "1">>, <<"3", "x">>, <<"x">>, <<>>,
           <<"-", "1">>, <<"-", "0">>, <<"+", "1">>, <<" ", "1">>, <<" ", "-", "1">>,
           <<"-", " ", "1">>, <<" ">>, <<"-">>, <<"1", "0", "0", "1">>, <<"-", "1", "0", "0", "1">>}

\* The fields of a record are shorter than this, the texts of a row altogether.
MCFieldSize == 6
MCSqlSize == 12

Field6 ==
  {<<>>, <<"x">>, <<"x", "y">>, <<"x", BadByte>>, <<"x", "&">>, <<"%">>, <<"'">>,
   [i \in 1..5 |-> "y"], [i \in 1..6 |-> "y"]}

Whole(targets, platforms, receivers, numbers, lasts) ==
  {Commas(<<t, p, <<"c">>, r, w, f>>) :
     t \in targets, p \in platforms, r \in receivers, w \in numbers, f \in lasts}

\* Every number of fields, the last one of one character or of two.
Shortened ==
  LET good == <<<<"t">>, <<"0">>, <<"c">>, <<"4">>, <<"5", "0">>, <<"x">>, <<"x">>, <<"x">>>>
  IN  {Commas(SubSeq(good, 1, n)) \o tail : n \in 1..8, tail \in {<<>>, <<"x">>}}

MCRecords ==
  Texts
    \cup Whole({<<>>, <<"t">>, <<"&", "'">>}, {<<"0">>}, {<<"2">>}, {<<"3">>, <<"5", "0">>}, Field6)
    \cup Whole({<<"t">>}, {<<"0">>}, {<<"2">>, <<"5">>}, Number, {<<>>, <<"x">>})
    \cup Whole({<<"t">>}, {<<"0">>, <<"1">>, <<"0", "0">>, <<>>}, {<<"2">>, <<"6">>, <<"2", "x">>},
               {<<"1">>, <<"x">>, <<"1", "0", "0">>}, {<<"x">>})
    \cup Shortened
    \cup {[i \in 1..n |-> IF i % 2 = 0 THEN Delim ELSE "x"] : n \in 17..20}

Setting(sendno, key, live, production, override) ==
  [sendno |-> sendno, app_key |-> <<key>>, master_secret |-> <<"secret">>, msg_type |-> 1,
   send_description |-> <<>>, time_to_live |-> live, apns_production |-> production,
   override_msg_id |-> override, receiver_type |-> 0]

MCChars == Letters \cup {"1", "2", "3", "4", "5", "6", "7", "8", "9", "c", "t", "y", "-", "+", " ", "&",
                               "%", "'", BadByte}

MCSettings ==
  {Setting(7, "key", -1, -1, <<>>), Setting(7, "%", 0, 1, <<"id">>), Setting(0, "key", 0, 1, <<>>)}
=============================================================================
