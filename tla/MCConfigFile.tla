---------------------------- MODULE MCConfigFile ----------------------------
(* Instances of ConfigFile for TLC: ints of four bits, files of a few lines *)
(* out of those that differ for the program.                                *)
EXTENDS ConfigFile

Lengths == 0..3

Piece1(k, m, v, r) == [key |-> k, mark |-> m, value |-> v, kept |-> r]
Plain(k, v) == <<Piece1(k, "none", v, v)>>

Numbers == {0, 1, 2, 7, 8, 15, 16, 17}

PlainLines ==
  {Plain("sendno", v) : v \in {NoValue, Empty, Word} \cup Numbers}
    \cup {Plain(k, v) : k \in {"msg_type", "time_to_live"}, v \in {NoValue, 1}}
    \cup {Plain(k, v) : k \in {"app_key", "override_msg_id"},
                        v \in {NoValue, Empty, Word}}

MaskedLine == <<Piece1("sendno", "front", 1, 1)>>
Remark     == <<Piece1("sendno", "behind", 1, 1)>>

\* A comment of more than 255 characters, whose rest looks like a setting.
LongComment ==
  <<Piece1("time_to_live", "front", 2, 2), Piece1("time_to_live", "none", 1, 1)>>

\* The same behind a setting; bytes that are not gb2312 in a value.
LongRemark ==
  <<Piece1("sendno", "behind", 7, 7), Piece1("override_msg_id", "none", Word, Word)>>
Garbled == {<<Piece1("sendno", "none", 7, NoValue)>>,
            <<Piece1("app_key", "none", Word, Empty)>>}

MCFiles ==
  UNION {[1..n -> PlainLines \cup Garbled
                    \cup {MaskedLine, Remark, LongComment, LongRemark}] : n \in Lengths}

MCMemory == {-3, 0, 1, 6}
=============================================================================
