----------------------------- MODULE ConfigFile -----------------------------
(***************************************************************************)
(* The start of the server: jpush_arg::read_config reads the settings file *)
(* buffer by buffer, config_value assigns each setting, event_init derives *)
(* the connections and the number of threads, and p_file, which remains,   *)
(* decides for every record whether is_data_ok accepts it and what the     *)
(* request contains.  Text is abstracted to Empty, Word (neither empty nor *)
(* a number) and numbers; db_ip stands for all the textual parameters of   *)
(* mysql, which event_init tests alike.                                    *)
(* (Definitions with a suffix after "_" are faulty variants, see CmdFifo.) *)
(***************************************************************************)
EXTENDS Integers, Sequences

CONSTANTS Files,      \* the settings files: sequences of lines
          Memory,     \* what uninitialized int members may contain
          IntHalf,    \* an int holds -IntHalf..IntHalf-1: 2^31 in the program
          Empty, Word,
          NoValue     \* nothing behind the keyword, not even a blank

ASSUME WidthAssumption == IntHalf \in Nat /\ IntHalf > 2   \* the message types fit
ASSUME TextAssumption  ==
  Empty \notin Int /\ Word \notin Int /\ NoValue \notin Int \cup {Empty, Word}

IntKeys  == {"sendno", "msg_type", "time_to_live", "apns_production",
             "thread_num", "db_port", "redis_port"}
TextKeys == {"app_key", "override_msg_id", "db_ip", "redis_host"}
Keys     == IntKeys \cup TextKeys

(* A line is a sequence of pieces, which fgets makes of it: one for every   *)
(* 255 characters.  mark: where the first "#" of the piece is, in front of  *)
(* the keyword or behind the value.  kept: what code_convert, from gb2312   *)
(* to utf-8, leaves of the value: all of it; less, or nothing, if iconv_open *)
(* fails or iconv stops, at bytes that are not gb2312 or at the end of its  *)
(* buffer; anything, if the 256 bytes are filled up and no zero ends them.  *)
Text  == Int \cup {Empty, Word, NoValue}
Piece == [key : Keys, mark : {"none", "front", "behind"}, value : Text, kept : Text]
Line  == Seq(Piece) \ {<<>>}

ASSUME FilesAssumption == \A f \in Files : f \in Seq(Line)

VARIABLES file,      \* the settings file
          line, piece, \* position of the next fgets
          memory,    \* content of the uninitialized members
          setting,   \* p_temp and run_arg
          p_file,    \* static member, zero until it is assigned
          result,    \* return value of read_config
          launched,  \* what event_init has derived
          pc

vars == <<file, line, piece, memory, setting, p_file, result, launched, pc>>

Nothing == [db |-> "none", redis |-> "none", threads |-> 0]

Init ==
  /\ file \in Files
  /\ line = 1 /\ piece = 1
  /\ memory \in Memory
  /\ setting = [k \in Keys |-> IF k \in IntKeys THEN memory ELSE Empty]
  /\ p_file = [k \in Keys |-> IF k \in IntKeys THEN 0 ELSE Empty]
  /\ result = 0
  /\ launched = Nothing
  /\ pc = "open"

-----------------------------------------------------------------------------
(* read_config                                                             *)

OpenFails ==      \* returns 0, which event_init ignores
  /\ pc = "open"
  /\ pc' = "launch"
  /\ UNCHANGED <<file, line, piece, memory, setting, p_file, result, launched>>

\* init_data sets these members and no others.
Preset == {"sendno", "time_to_live", "apns_production"}

Open ==
  /\ pc = "open"
  /\ setting' = [k \in Keys |-> IF k \in Preset THEN -1 ELSE setting[k]]
  /\ pc' = "read"
  /\ UNCHANGED <<file, line, piece, memory, p_file, result, launched>>

strtol(text) == IF text \in {Empty, Word} THEN 0 ELSE text

ToInt(long) ==    \* the assignment of a long to an int
  LET low == long % (2 * IntHalf)
  IN  IF low < IntHalf THEN low ELSE low - 2 * IntHalf

ConfigValue_FirstWins(key, value) ==
  setting' = [setting EXCEPT ![key] =
                IF @ # Empty THEN @
                ELSE IF key \in IntKeys THEN ToInt(strtol(value)) ELSE value]

ConfigValue(key, value) ==
  setting' = [setting EXCEPT ![key] =
                IF key \in IntKeys THEN ToInt(strtol(value)) ELSE value]

Assigns(p) == p.mark # "front" /\ p.kept # NoValue

ReadPiece ==      \* one fgets, code_convert and the rest of the loop
  /\ pc = "read"
  /\ line <= Len(file)
  /\ LET p == file[line][piece]
     IN  /\ IF Assigns(p) THEN ConfigValue(p.key, p.kept) ELSE UNCHANGED setting
         /\ IF piece < Len(file[line])
              THEN piece' = piece + 1 /\ UNCHANGED line
              ELSE piece' = 1 /\ line' = line + 1
  /\ UNCHANGED <<file, memory, p_file, result, launched, pc>>

EndOfFile_NotKept ==
  /\ pc = "read"
  /\ line > Len(file)
  /\ result' = 1
  /\ pc' = "launch"
  /\ UNCHANGED <<file, line, piece, memory, setting, p_file, launched>>

EndOfFile ==
  /\ pc = "read"
  /\ line > Len(file)
  /\ p_file' = setting
  /\ result' = 1
  /\ pc' = "launch"
  /\ UNCHANGED <<file, line, piece, memory, setting, launched>>

-----------------------------------------------------------------------------
(* event_init, with the settings gain_config_value copied                  *)

Endpoint(host, port) ==
  IF setting[host] = Empty \/ setting[port] = 0
    THEN "default" ELSE <<setting[host], setting[port]>>

Launch ==
  /\ pc = "launch"
  /\ launched' = [db      |-> Endpoint("db_ip", "db_port"),
                  redis   |-> Endpoint("redis_host", "redis_port"),
                  threads |-> IF setting["thread_num"] = 0 THEN 1
                              ELSE setting["thread_num"]]
  /\ pc' = "running"
  /\ UNCHANGED <<file, line, piece, memory, setting, p_file, result>>

Next == OpenFails \/ Open \/ ReadPiece \/ EndOfFile \/ Launch

Spec == Init /\ [][Next]_vars

-----------------------------------------------------------------------------
(* What a record becomes with these settings                               *)

\* consist_push_data: which optional parameters the request has.
OptionalFields ==
  {k \in {"time_to_live"} : p_file[k] >= 0}
    \cup {k \in {"apns_production"} : p_file[k] \in {0, 1}}
    \cup {k \in {"override_msg_id"} : p_file[k] # Empty}

Record == INSTANCE RedisRecord WITH
  NotANumber <- Word,
  Config <- [sendno   |-> p_file["sendno"],
             app_key  |-> p_file["app_key"] # Empty,
             msg_type |-> p_file["msg_type"]]

CompleteRecord == [n |-> 6, platform |-> "0", receiver_type |-> "4",
                   warning |-> 1]

Served == Record!Outcome(CompleteRecord) = "stored"

-----------------------------------------------------------------------------
(* Properties                                                              *)

TypeOK ==
  /\ line \in 1..(Len(file) + 1)
  /\ piece \in IF line <= Len(file) THEN DOMAIN file[line] ELSE {1}
  /\ \A s \in {setting, p_file} :
       DOMAIN s = Keys /\ \A k \in TextKeys : s[k] # NoValue
  /\ result \in {0, 1}
  /\ pc \in {"open", "read", "launch", "running"}

Places == UNION {{l} \X DOMAIN file[l] : l \in DOMAIN file}
At(p)  == file[p[1]][p[2]]

Before(a, b) == a[1] = b[1] /\ a[2] < b[2]
Later(a, b)  == a[1] > b[1] \/ (a[1] = b[1] /\ a[2] >= b[2])

\* A "#" masks the rest of its line.
Masked(p) ==
  \/ At(p).mark = "front"
  \/ \E q \in Places : Before(q, p) /\ At(q).mark # "none"

\* The pieces by which the file sets k.
Setting(k) == {p \in Places : At(p).key = k /\ ~Masked(p) /\ At(p).value # NoValue}

\* What the file says of k last.
Said(k) ==
  LET a == CHOOSE x \in Setting(k) : \A y \in Setting(k) : Later(x, y)
  IN  At(a).value

\* All that the file says of k survives code_convert, and no masked rest of a
\* long line looks like a setting of k.
Intact(k) ==
  \A p \in Places :
    At(p).key = k => IF Masked(p) THEN ~Assigns(At(p)) ELSE At(p).kept = At(p).value

Read == pc = "running" /\ result = 1

\* Of several lines for one keyword the last one counts, whatever stands
\* between them; a keyword with nothing behind it changes nothing.  Not
\* for a keyword whose text code_convert cuts, nor for one that stands in the
\* masked text behind the 255th character of a line.
LastSettingWins ==
  Read => \A k \in Keys :
            Intact(k) /\ Setting(k) # {} =>
              setting[k] = IF k \in IntKeys THEN ToInt(strtol(Said(k)))
                           ELSE Said(k)

\* The request has no optional parameter that no line of the file sets: the
\* service then applies its own default (one day of lifetime, the
\* environment of the application).  The exceptions are those above.
OptionalOnlyIfSet ==
  Read => \A k \in OptionalFields : Intact(k) => Setting(k) # {}

\* What the unmasked lines of the file say is in force, and nothing else, for
\* the keywords the file does not cut or leak.
SettingsExact == TypeOK /\ LastSettingWins /\ OptionalOnlyIfSet

Given == {"sendno", "app_key", "msg_type"}

\* A file with a positive sendno that fits an int, an app_key and a message
\* type of 1 or 2, all of which survive the reading, makes the server accept
\* complete records.
ServesWhenConfigured ==
  Read /\ (\A k \in Given : Intact(k) /\ Setting(k) # {})
    /\ strtol(Said("sendno")) \in 1..(IntHalf - 1)
    /\ Said("app_key") # Empty
    /\ Said("msg_type") \in {1, 2}
  => Served
=============================================================================
