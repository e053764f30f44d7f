---------------------------- MODULE RedisRecord ----------------------------
(***************************************************************************)
(* What event_handle::get_data_redis (event_drive.cpp) does with one       *)
(* record once it has been taken from the redis list: the fields are       *)
(* checked in a fixed order, the warning type selects title, content and   *)
(* an extras code, the command is built with config_value and              *)
(* consist_cmd_data and checked by is_data_ok.  A record is abstracted to  *)
(* what these tests tell apart; vector::at() with an index that is not     *)
(* there throws, and nothing in the program catches that.                  *)
(***************************************************************************)
EXTENDS Integers

CONSTANTS Config,     \* p_file: what read_config left for consist_cmd_data
          NotANumber  \* a warning field that does not begin with a number

ASSUME ConfigAssumption ==
  Config \in [sendno : Int, app_key : BOOLEAN, msg_type : Int]
    \* app_key: whether one is configured

\* A record: how many fields string_filter found, and fields 1, 3 and 4.
\* The values of fields that are not there are irrelevant.
Platforms == {"0", "1", "other"}
Receivers == {"2", "3", "4", "5", "other"}
Record(MaxFields, WarningTypes) ==
  [n : 0..MaxFields, platform : Platforms, receiver_type : Receivers,
   warning : WarningTypes]

\* lpop on a list that has become empty returns "**nonexistent-key**", a
\* text without a delimiter: one field.
MissingValue == [n |-> 1, platform |-> "other", receiver_type |-> "other",
                 warning |-> 0]

strtol(field) == IF field = NotANumber THEN 0 ELSE field

\* The cases of the switch that end in a break.  A content that is "field"
\* is made from field 5.  The title stands for the Chinese text.
Warning(title, content, code) ==
  [title |-> title, content |-> content, code |-> code]

Warnings ==
  [type \in {0, 1, 3, 4, 6, 7, 8, 9, 11, 50} |->
     CASE type = 0  -> Warning("vehicle fault", "none", "0")
       [] type = 1  -> Warning("overspeed", "field", "7")
       [] type = 3  -> Warning("device fault", "none", "2")
       [] type = 4  -> Warning("low voltage", "field", "6")
       [] type = 6  -> Warning("ECM fault", "field", "4")
       [] type = 7  -> Warning("coolant hot", "field", "5")
       [] type = 8  -> Warning("coolant cold", "field", "5")
       [] type = 9  -> Warning("maintenance due", "none", "3")
       [] type = 11 -> Warning("collision", "none", "8")
       [] type = 50 -> Warning("unlawful movement", "field", "1")]

-----------------------------------------------------------------------------
(* The tests, in the order of the code.  Has(r, i): at(i) does not throw.  *)

Has(r, i) == r.n > i

\* "1" is accepted by the first test, but its case of the switch has no
\* break and runs into default.
PlatformOk(r) == r.platform = "0"

ReceiverOk(r) == r.receiver_type \in {"2", "3", "4", "5"}

\* Type 100 has a case without a break too, and ends in default.
WarningOk(r) == strtol(r.warning) \in DOMAIN Warnings

\* After push_back("warnning_type") field 5 is there even if the record had
\* five fields only.
Field5(r) == IF Has(r, 5) THEN "field 5" ELSE "warnning_type"

KeyCount == 8    \* string_key

CountOk_AtLeast(r) == r.n + 2 >= KeyCount

CountOk(r) == r.n + 2 = KeyCount

\* The command given to store_cmd_data: config_value fills it from the
\* fields, consist_cmd_data from the configuration.
Command(r) ==
  LET w == Warnings[strtol(r.warning)]
  IN  [platform      |-> "android",
       receiver_type |-> r.receiver_type,
       title         |-> w.title,
       content       |-> IF w.content = "field" THEN Field5(r) ELSE "",
       code          |-> w.code,
       sendno        |-> Config.sendno,
       app_key       |-> Config.app_key,
       msg_type      |-> Config.msg_type]

is_data_ok(cmd) ==
  /\ cmd.sendno > 0
  /\ cmd.app_key
  /\ cmd.receiver_type \in {"2", "3", "4", "5"}
  /\ cmd.msg_type \in {1, 2}
  /\ cmd.platform \in {"android", "ios", "winphone"}

\* A missing field is noticed by at(), if the tests before let it get there.
Throws(r) ==
  \/ r.n = 1
  \/ Has(r, 1) /\ PlatformOk(r) /\ ~Has(r, 3)
  \/ Has(r, 3) /\ PlatformOk(r) /\ ReceiverOk(r) /\ ~Has(r, 4)

Stores(r) ==
  /\ Has(r, 4)
  /\ PlatformOk(r) /\ ReceiverOk(r) /\ WarningOk(r) /\ CountOk(r)
  /\ is_data_ok(Command(r))

\* "stored": get_data_redis stores a command and returns true; "rejected":
\* it returns false and the record is gone; "throws": std::out_of_range
\* ends the process.
Outcome(r) == IF Throws(r) THEN "throws"
              ELSE IF Stores(r) THEN "stored" ELSE "rejected"
=============================================================================
