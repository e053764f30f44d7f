----------------------------- MODULE RecordPath -----------------------------
(***************************************************************************)
(* The way of one record through the program, its text taken apart by      *)
(* StringFilter: get_data_redis (event_drive.cpp) copies it into strTemp   *)
(* and checks the fields, which is RedisRecord, and builds a command,      *)
(* data_push makes the form of the request from it and store_data_msql the *)
(* row of the table.  The body of the request and the statement for the    *)
(* row are concatenated without escapes: form and row are what the service *)
(* and the database read there.  A text is a sequence of characters,       *)
(* longer literals of the program count as one.                            *)
(* (Definitions with a suffix after "_" are faulty variants, see CmdFifo.) *)
(***************************************************************************)
EXTENDS StringFilter

CONSTANTS Settings,    \* what read_config may have left in p_file
          NotANumber,  \* see RedisRecord, where a number stands for its text
          BadByte,     \* a byte that is not part of valid UTF-8
          Blanks,      \* the characters isspace takes
          LongMax,     \* the largest long
          TextSize,    \* the bytes of strTemp, 1024
          SqlSize      \* what sql[1024] has for the texts of the row beside the rest

SettingNames ==
  {"sendno", "app_key", "master_secret", "msg_type", "send_description", "time_to_live",
   "apns_production", "override_msg_id", "receiver_type"}

ASSUME SettingsAssumption ==
  \A s \in Settings : /\ DOMAIN s = SettingNames
                      /\ s.sendno \in Int /\ s.msg_type \in Int

ASSUME NumberAssumption ==
  /\ NotANumber \notin Int
  /\ LongMax \in Nat /\ LongMax >= 100
  /\ Blanks \cap {"0", "1", "2", "3", "4", "5", "6", "7", "8", "9"} = {}

ASSUME SizeAssumption == TextSize \in Nat /\ SqlSize \in Nat

VARIABLES p_file,      \* the settings, never assigned
          outcome,     \* what became of the record
          cmd,         \* the command, a function of the names of its fields
          form,        \* the parameters the service reads in the request
          row          \* the columns that are stored

pathVars == <<vars, p_file, outcome, cmd, form, row>>

NoFields == [name \in {} |-> <<>>]

-----------------------------------------------------------------------------
(* Checks and command                                                      *)

Digits == <<"0", "1", "2", "3", "4", "5", "6", "7", "8", "9">>
IsDigit(c) == \E d \in 1..10 : Digits[d] = c

\* The number that the digits at the beginning of a text make.
Magnitude(text) ==
  LET digits == {i \in DOMAIN text : \A j \in 1..i : IsDigit(text[j])}
      Digit(i) == (CHOOSE d \in 1..10 : Digits[d] = text[i]) - 1
      value[i \in 0..Cardinality(digits)] ==
        IF i = 0 THEN 0 ELSE 10 * value[i - 1] + Digit(i)
  IN  value[Cardinality(digits)]

\* strtol(text, NULL, 10): blanks, a sign, digits, 0 without any; a number
\* that is no long becomes the nearest one.
strtol(text) ==
  LET blanks == {i \in DOMAIN text : \A j \in 1..i : text[j] \in Blanks}
      number == SubSeq(text, Cardinality(blanks) + 1, Len(text))
      Sign(c) == number # <<>> /\ number[1] = c
      value  == Magnitude(IF Sign("-") \/ Sign("+") THEN Tail(number) ELSE number)
  IN  CASE ~Sign("-") /\ value <= LongMax -> value
        [] ~Sign("-") /\ value > LongMax  -> LongMax
        [] Sign("-") /\ value <= LongMax  -> -value
        [] OTHER                          -> -LongMax - 1

Checks == INSTANCE RedisRecord WITH
  Config <- [sendno   |-> p_file.sendno,
             app_key  |-> p_file.app_key # <<>>,
             msg_type |-> p_file.msg_type]

\* The titles are valid UTF-8.
ASSUME LiteralsAssumption ==
  \A type \in DOMAIN Checks!Warnings : Checks!Warnings[type].title # BadByte

\* What the checks look at; at(i) counts from 0.
Has(i) == Len(res) > i
Tested(i, texts) ==    \* one of these characters, or some other text
  IF Has(i) /\ \E c \in texts : res[i + 1] = <<c>> THEN res[i + 1][1] ELSE "other"

Seen ==
  [n             |-> Len(res),
   platform      |-> Tested(1, {"0", "1"}),
   receiver_type |-> Tested(3, {"2", "3", "4", "5"}),
   warning       |-> IF Has(4) THEN strtol(res[5]) ELSE 0]

\* string_value once the platform, the title and the content are replaced and
\* the extras are pushed behind the six fields.
Values ==
  LET w == Checks!Warnings[Seen.warning]
      content == IF w.content = "field" THEN <<w.title>> \o res[6] ELSE <<>>
  IN  <<res[1], <<"android">>, res[3], res[4], <<w.title>>, content,
        <<"warnning_type">>, <<w.code>>>>

string_key_TypeFirst ==
  <<"receiver_value", "platform", "customizedID", "receiver_type", "n_content", "n_title",
    "n_extras1:key", "n_extras1:value">>

string_key ==
  <<"receiver_value", "platform", "customizedID", "receiver_type", "n_title", "n_content",
    "n_extras1:key", "n_extras1:value">>

\* config_value for each value, then consist_cmd_data.
Command ==
  LET Of(key) == Values[CHOOSE i \in DOMAIN string_key : string_key[i] = key]
      texts == {"receiver_value", "platform", "customizedID", "n_title", "n_content"}
  IN  [name \in SettingNames \cup texts \cup {"n_extras"} |->
         CASE name = "receiver_type" -> strtol(Of("receiver_type"))
           [] name \in texts         -> Of(name)
           [] name = "n_extras"      -> <<Of("n_extras1:key"), Of("n_extras1:value")>>
           [] OTHER                  -> p_file[name]]

\* Only what is stored gets a command; "throws" ends the process.
Decode ==
  /\ pc = "done"
  /\ outcome' = Checks!Outcome(Seen)
  /\ IF outcome' = "stored" THEN cmd' = Command /\ pc' = "push"
     ELSE pc' = "end" /\ UNCHANGED cmd
  /\ UNCHANGED <<src, front, res, p_file, form, row>>

-----------------------------------------------------------------------------
(* func_routine: the request, and then the row                             *)

Without(text, characters) == \A i \in DOMAIN text : text[i] \notin characters

ValidUtf8(text) == \A i \in DOMAIN text : text[i] # BadByte

\* serialization_to_json.  parson takes no text that is not UTF-8, which
\* nobody notices; the title depends on the content.  n_builder_id stays 0.
MsgContent ==
  LET Taken(name) == ValidUtf8(cmd[name]) /\ (name = "n_title" => cmd.n_content # <<>>)
  IN  [name \in {n \in {"n_content", "n_title"} : Taken(n)} \cup {"n_extras"} |->
         IF name = "n_extras" THEN [key \in {cmd.n_extras[1]} |-> cmd.n_extras[2]]
         ELSE cmd[name]]

MD5(texts) == <<"MD5 of", texts>>

\* The command brings no verification_code of its own.
VerificationCode ==
  MD5(<<cmd.sendno, cmd.receiver_type, cmd.receiver_value, cmd.master_secret>>)

\* consist_push_data: the parameters that are written
Form ==
  LET Given(name) == CASE name = "receiver_type"  -> cmd[name] \in 2..5
                       [] name = "time_to_live"   -> cmd[name] >= 0
                       [] name = "apns_production" -> cmd[name] \in {0, 1}
                       [] name \in {"receiver_value", "override_msg_id"} -> cmd[name] # <<>>
                       [] OTHER -> TRUE
      names == {"sendno", "app_key", "receiver_type", "receiver_value", "msg_type",
                "send_description", "platform", "time_to_live", "apns_production",
                "override_msg_id"}
  IN  [name \in {n \in names : Given(n)} \cup {"verification_code", "msg_content"} |->
         CASE name = "verification_code" -> VerificationCode
           [] name = "msg_content"       -> MsgContent
           [] OTHER                      -> cmd[name]]

\* No text has a character that a reader of forms takes for a part of the
\* form.
FormPlain ==
  \A name \in {"app_key", "receiver_value", "n_content", "send_description", "override_msg_id"} :
    Without(cmd[name], {"&", "=", "%", "+"})

\* A format without an argument: what printf makes of a "%" is undefined.
Logs(text) == Without(text, {"%"})

\* Where a text is not plain, the service may read something else.  The log
\* line of a push that succeeded has the app_key as a part of its format.
data_push ==
  /\ pc = "push"
  /\ form' \in (IF FormPlain THEN {Form} ELSE {Form, NoFields})
  /\ pc' \in (IF Logs(cmd.app_key) THEN {"insert"} ELSE {"insert", "undefined"})
  /\ UNCHANGED <<src, front, res, p_file, outcome, cmd, row>>

Columns ==
  <<"owner_id", "push_no", "app_key", "app_type", "push_type", "push_id", "msg_content",
    "msg_title", "msg_live", "msg_show_type">>

\* consist_mysql_data, in the order of its values
RowValues ==
  <<cmd.customizedID, cmd.sendno, cmd.app_key, cmd.platform, cmd.receiver_type,
    cmd.receiver_value, cmd.n_content, cmd.n_title, cmd.time_to_live, cmd.msg_type>>

Row ==
  [c \in {Columns[i] : i \in DOMAIN Columns} |->
     RowValues[CHOOSE i \in DOMAIN Columns : Columns[i] = c]]

RowTexts == {"customizedID", "app_key", "receiver_value", "n_content", "n_title"}

\* What a quote ends, or a backslash changes, is another statement: the row
\* is refused, or is another one.
RowPlain == \A name \in RowTexts : Without(cmd[name], {"'", "\\"})

RowFits ==
  Len(cmd.customizedID) + Len(cmd.app_key) + Len(cmd.receiver_value)
    + Len(cmd.n_content) + Len(cmd.n_title) < SqlSize

RowLogs == \A name \in RowTexts : Logs(cmd[name])

\* The row is logged as a format, and printed into sql[1024] without a test.
store_data_msql ==
  /\ pc = "insert"
  /\ row' = IF RowPlain THEN Row ELSE NoFields
  /\ pc' \in (IF RowLogs /\ RowFits THEN {"end"} ELSE {"end", "undefined"})
  /\ UNCHANGED <<src, front, res, p_file, outcome, cmd, form>>

-----------------------------------------------------------------------------
\* memcpy(strTemp, ltemp.c_str(), ltemp.size()), before the text is cut
TextFits == Len(src) < TextSize

CopyOverruns ==
  /\ pc = "loop" /\ ~TextFits
  /\ pc' = "undefined"
  /\ UNCHANGED <<src, front, res, p_file, outcome, cmd, form, row>>

PathInit ==
  /\ Init
  /\ p_file \in Settings
  /\ outcome = "none"
  /\ cmd = NoFields /\ form = NoFields /\ row = NoFields

Splitting == TextFits /\ Next /\ UNCHANGED <<p_file, outcome, cmd, form, row>>

PathNext == CopyOverruns \/ Splitting \/ Decode \/ data_push \/ store_data_msql

PathSpec == PathInit /\ [][PathNext]_pathVars

FairPath == PathSpec /\ WF_pathVars(PathNext)   \* nothing blocks it here

-----------------------------------------------------------------------------
(* Properties                                                              *)

ReceiverTexts == {<<"2">>, <<"3">>, <<"4">>, <<"5">>}
KnownWarnings == {0, 1, 3, 4, 6, 7, 8, 9, 11, 50}

\* What is_data_ok asks of the settings.
Configured == p_file.sendno > 0 /\ p_file.app_key # <<>> /\ p_file.msg_type \in {1, 2}

\* Where the program does what the language does not define: a record that
\* does not fit into strTemp, a field that does not fit into temp, a row that
\* does not fit into sql, a "%" in what is logged of a push or a row.
Unsafe ==
  \/ ~TextFits
  \/ \E k \in 1..(UpTo(Len(src)) + 1) : ~Fits(Len(Field(k)))
  \/ outcome = "stored" /\ ~(Logs(cmd.app_key) /\ RowLogs /\ RowFits)

\* From the text to the outcome: a record is served exactly if it has six
\* visible fields, is for android, addresses a receiver type 2..5 and has a
\* warning type the table knows, where strtol reads blanks, a sign and
\* digits and takes a text that is no number for 0, and the settings are
\* complete.  at() throws at the first missing field that is asked for, never
\* for a record of five fields or more.  Every record gets that far but those
\* the program has no room for, and the way ends early for no other reason.
ServedExactly ==
  /\ outcome # "none" =>
       LET f == Visible
           n == Len(f)
           android  == n > 1 /\ f[2] = <<"0">>
           receiver == n > 3 /\ f[4] \in ReceiverTexts
       IN  /\ (outcome = "stored") <=>
                (n = 6 /\ android /\ receiver /\ strtol(f[5]) \in KnownWarnings /\ Configured)
           /\ (outcome = "throws") <=>
                (n = 1 \/ (n \in {2, 3} /\ android) \/ (n = 4 /\ android /\ receiver))
           /\ TextFits /\ FieldsFit
  /\ pc = "undefined" => Unsafe

\* Where a record is served and nothing in its texts and the settings is taken
\* for a part of the form: the request goes to the receiver of the record and
\* is signed for it, its content tells field 6 of the record and never
\* the marker "warnning_type", the extras tell the kind of warning.
RequestTrue ==
  LET f == Visible
      warning == Checks!Warnings[strtol(f[5])]
      content == form.msg_content
      Told(name) == IF name \in DOMAIN form THEN form[name] ELSE <<>>
  IN  /\ Told("receiver_value") = f[1]
      /\ form.receiver_type = strtol(f[4])
      /\ form.verification_code =
           MD5(<<form.sendno, form.receiver_type, f[1], p_file.master_secret>>)
      /\ "n_content" \in DOMAIN content =>
           content.n_content = (IF warning.content = "field" THEN <<warning.title>> \o f[6] ELSE <<>>)
      /\ "n_content" \notin DOMAIN content => ~ValidUtf8(f[6])
      /\ content.n_extras = [key \in {<<"warnning_type">>} |-> <<warning.code>>]
      \* A push without content has no title either.
      /\ ("n_title" \in DOMAIN content) <=> (warning.content = "field")

\* The row of texts without quotes and backslashes tells of the request that
\* was written: column by column the same, but for what the request leaves
\* out.  Where there is one in a text, there is no such row.
RowTrue ==
  LET Same(column, name) == name \in DOMAIN Form => row[column] = Form[name]
      SameText(column, name) ==
        name \in DOMAIN Form.msg_content => row[column] = Form.msg_content[name]
  IN  /\ Same("push_no", "sendno") /\ Same("app_key", "app_key")
      /\ Same("app_type", "platform") /\ Same("push_type", "receiver_type")
      /\ Same("push_id", "receiver_value") /\ Same("msg_live", "time_to_live")
      /\ Same("msg_show_type", "msg_type")
      /\ SameText("msg_content", "n_content") /\ SameText("msg_title", "n_title")
      /\ row.owner_id = Visible[3]

\* What is pushed and what is stored agree with the record and each other,
\* each as long as its own texts are not taken for something else.
RequestAndRow ==
  pc = "end" /\ outcome = "stored" =>
    /\ FormPlain => RequestTrue
    /\ IF RowPlain THEN RowTrue ELSE row = NoFields

\* event_drive.cpp:240, "send type:%s which can only be 0 or 1", and :332,
\* "自定义消息,没有附加信息" (custom message, without additional
\* information): a complete record of send type 1 (ios) is served like one of
\* send type 0, and one of warning type 100 like one of warning type 1.
DocumentedTypesServed ==
  LET f == Visible
  IN  outcome # "none" /\ Configured /\ Len(f) = 6 /\ f[4] = <<"2">>
        /\ <<f[2], f[5]>> \in {<<<<"1">>, <<"1">>>>, <<<<"0">>, <<"1", "0", "0">>>>}
      => outcome = "stored"
=============================================================================
