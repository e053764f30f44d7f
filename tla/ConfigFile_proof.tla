-------------------------- MODULE ConfigFile_proof --------------------------
(***************************************************************************)
(* The settings are what the file says, for any files, any content of the  *)
(* memory and any width of an int.  The argument: at any position in the   *)
(* file every setting is what the program makes of the last of the pieces  *)
(* before it that assign it, and what init_data or the memory gave it if    *)
(* there is none.  If a keyword is intact these are the pieces by which the *)
(* file sets it.                                                           *)
(***************************************************************************)
EXTENDS ConfigFile, TLAPS

Assigned(k, value) == IF k \in IntKeys THEN ToInt(strtol(value)) ELSE value

Unset(k) == IF k \in Preset THEN -1 ELSE IF k \in IntKeys THEN memory ELSE Empty

\* The pieces that assign k; the last of them.
Assigning(k) == {p \in Places : At(p).key = k /\ Assigns(At(p))}
LastRead(k) ==
  LET a == CHOOSE x \in Assigning(k) : \A y \in Assigning(k) : Later(x, y)
  IN  At(a).kept

\* The pieces that have been read, and those of them that assign k.
Passed(p) == p[1] < line \/ (p[1] = line /\ p[2] < piece)
SoFar(k)  == {p \in Assigning(k) : Passed(p)}

LastOf(a, pieces) == a \in pieces /\ \A p \in pieces : Later(a, p)

UpToDate ==
  \A k \in Keys :
    \/ SoFar(k) = {} /\ setting[k] = Unset(k)
    \/ \E a \in SoFar(k) : LastOf(a, SoFar(k)) /\ setting[k] = Assigned(k, At(a).kept)

IInv ==
  /\ TypeOK
  /\ file \in Seq(Line)
  /\ pc = "read" => result = 0
  /\ pc = "open" => /\ line = 1 /\ piece = 1 /\ result = 0
                    /\ \A k \in Keys : setting[k] = IF k \in IntKeys THEN memory ELSE Empty
  /\ pc = "read" => UpToDate
  /\ result = 1 => line > Len(file) /\ UpToDate /\ p_file = setting

-----------------------------------------------------------------------------
(* Places in the file                                                      *)

LEMMA LineAt ==
  ASSUME file \in Seq(Line), NEW l \in 1..Len(file)
  PROVE  /\ file[l] \in Seq(Piece) /\ Len(file[l]) \in Nat \ {0}
         /\ DOMAIN file[l] = 1..Len(file[l])
         /\ \A i \in 1..Len(file[l]) : file[l][i] \in Piece
<1>1. file[l] \in Line OBVIOUS
<1>2. file[l] \in Seq(Piece) /\ file[l] # <<>> BY <1>1 DEF Line
<1> QED BY <1>2

LEMMA PlacesAre ==
  ASSUME file \in Seq(Line), NEW p
  PROVE  p \in Places <=>
           \E l \in 1..Len(file) : \E i \in 1..Len(file[l]) : p = <<l, i>>
<1>1. DOMAIN file = 1..Len(file) OBVIOUS
<1>2. \A l \in 1..Len(file) : DOMAIN file[l] = 1..Len(file[l]) BY LineAt
<1> QED BY <1>1, <1>2 DEF Places

LEMMA PlacesOrdered ==
  ASSUME file \in Seq(Line), NEW p \in Places, NEW q \in Places
  PROVE  /\ p[1] \in 1..Len(file) /\ p[2] \in Nat \ {0} /\ p = <<p[1], p[2]>>
         /\ At(p) \in Piece
         /\ Later(p, p) /\ (Later(p, q) /\ Later(q, p) => p = q)
<1>1. PICK l \in 1..Len(file) : \E i \in 1..Len(file[l]) : p = <<l, i>> BY PlacesAre
<1>2. PICK m \in 1..Len(file) : \E i \in 1..Len(file[m]) : q = <<m, i>> BY PlacesAre
<1>3. At(p) \in Piece BY <1>1, LineAt DEF At
<1>4. Len(file[l]) \in Nat /\ Len(file[m]) \in Nat /\ Len(file) \in Nat BY LineAt
<1> QED BY <1>1, <1>2, <1>3, <1>4 DEF Later

\* One fgets passes one piece.
LEMMA PassesOne ==
  ASSUME TypeOK, file \in Seq(Line), ReadPiece
  PROVE  /\ <<line, piece>> \in Places /\ At(<<line, piece>>) \in Piece
         /\ At(<<line, piece>>) = file[line][piece]
         /\ line' \in 1..(Len(file) + 1)
         /\ piece' \in IF line' <= Len(file) THEN DOMAIN file[line'] ELSE {1}
         /\ \A p \in Places : Passed(p)' <=> Passed(p) \/ p = <<line, piece>>
         /\ \A p \in Places : Passed(p) => Later(<<line, piece>>, p)
         /\ ~Passed(<<line, piece>>)
<1>1. line \in 1..Len(file) /\ piece \in 1..Len(file[line])
  BY LineAt DEF TypeOK, ReadPiece
<1>2. <<line, piece>> \in Places BY <1>1, PlacesAre
<1>3. At(<<line, piece>>) \in Piece BY <1>2, PlacesOrdered
<1>4. At(<<line, piece>>) = file[line][piece] BY DEF At
<1>5. IF piece < Len(file[line]) THEN piece' = piece + 1 /\ line' = line
                                        ELSE piece' = 1 /\ line' = line + 1
  BY DEF ReadPiece
<1>6. Len(file[line]) \in Nat BY <1>1, LineAt
<1>7. line' \in 1..(Len(file) + 1) BY <1>1, <1>5
<1>8. piece' \in IF line' <= Len(file) THEN DOMAIN file[line'] ELSE {1}
  <2>1. CASE piece < Len(file[line]) BY <1>1, <1>5, <1>6, <2>1, LineAt
  <2>2. CASE ~(piece < Len(file[line]))
    <3>1. line' <= Len(file) => line' \in 1..Len(file) BY <1>7
    <3>2. line' <= Len(file) => 1 \in DOMAIN file[line'] BY <3>1, LineAt
    <3> QED BY <1>5, <2>2, <3>2
  <2> QED BY <2>1, <2>2
<1>9. ASSUME NEW p \in Places
      PROVE  /\ Passed(p)' <=> Passed(p) \/ p = <<line, piece>>
             /\ Passed(p) => Later(<<line, piece>>, p)
  <2>0. PICK l \in 1..Len(file) : \E i \in 1..Len(file[l]) : p = <<l, i>> BY PlacesAre
  <2>1. PICK i \in 1..Len(file[l]) : p = <<l, i>> BY <2>0
  <2>2. Len(file[l]) \in Nat BY LineAt
  <2>3. Passed(p)' <=> l < line' \/ (l = line' /\ i < piece') BY <2>1 DEF Passed
  <2>4. Passed(p) <=> l < line \/ (l = line /\ i < piece) BY <2>1 DEF Passed
  <2>5. p = <<line, piece>> <=> l = line /\ i = piece BY <2>1
  <2>6. l = line => i <= Len(file[line]) BY <2>1, <2>2
  <2>7. Passed(p) => Later(<<line, piece>>, p) BY <1>1, <1>6, <2>1, <2>2, <2>4 DEF Later
  <2>8. (l < line' \/ (l = line' /\ i < piece'))
          <=> (l < line \/ (l = line /\ i < piece)) \/ (l = line /\ i = piece)
    <3>1. l \in Nat /\ i \in Nat \ {0} /\ line \in Nat /\ piece \in Nat BY <1>1, <1>6, <2>2
    <3>2. CASE piece < Len(file[line]) BY <1>5, <3>1, <3>2
    <3>3. CASE ~(piece < Len(file[line]))
      <4>1. piece = Len(file[line]) /\ piece' = 1 /\ line' = line + 1
        BY <1>1, <1>5, <1>6, <3>3
      <4>2. l = line => i <= piece BY <2>6, <4>1
      <4> QED BY <3>1, <4>1, <4>2
    <3> QED BY <3>2, <3>3
  <2> QED BY <2>3, <2>4, <2>5, <2>7, <2>8
<1>10. ~Passed(<<line, piece>>) BY <1>1, <1>6 DEF Passed
<1> QED BY <1>2, <1>3, <1>4, <1>7, <1>8, <1>9, <1>10

-----------------------------------------------------------------------------
(* The induction                                                           *)

LEMMA IInvInit == Init => IInv
<1> SUFFICES ASSUME Init PROVE IInv OBVIOUS
<1>1. file \in Seq(Line) BY FilesAssumption DEF Init
<1>2. Len(file) \in Nat BY <1>1
<1>3. piece \in IF line <= Len(file) THEN DOMAIN file[line] ELSE {1}
  <2>1. line <= Len(file) => 1 \in DOMAIN file[1] BY <1>1, <1>2, LineAt DEF Init
  <2> QED BY <2>1 DEF Init
<1>4. Empty # NoValue BY TextAssumption
<1>5. \A k \in TextKeys : k \in Keys /\ k \notin IntKeys BY DEF TextKeys, IntKeys, Keys
<1> QED BY <1>1, <1>2, <1>3, <1>4, <1>5 DEF Init, IInv, TypeOK

LEMMA OpenStep == IInv /\ Open => IInv'
<1> SUFFICES ASSUME IInv, Open PROVE IInv' OBVIOUS
<1>1. /\ line = 1 /\ piece = 1 /\ result = 0 /\ pc' = "read"
      /\ UNCHANGED <<file, line, piece, memory, p_file, result>>
  BY DEF IInv, Open
<1>2. \A k \in Keys : setting'[k] = Unset(k)
  BY DEF IInv, Open, Unset, Preset, IntKeys
<1>3. \A k : SoFar(k)' = {}
  <2>1. ASSUME NEW p \in Places PROVE ~Passed(p)'
    <3>1. p[1] \in 1..Len(file) /\ p[2] \in Nat \ {0} BY PlacesOrdered DEF IInv
    <3>2. Len(file) \in Nat BY DEF IInv
    <3> QED BY <1>1, <3>1, <3>2 DEF Passed
  <2> QED BY <1>1, <2>1 DEF SoFar, Assigning, Places, At
<1>4. UpToDate' BY <1>1, <1>2, <1>3 DEF UpToDate, Unset
<1>5. TypeOK'
  <2>1. \A k \in TextKeys : k \in Keys /\ k \notin Preset BY DEF TextKeys, Preset, Keys
  <2> QED BY <1>1, <2>1 DEF IInv, TypeOK, Open
<1> QED BY <1>1, <1>4, <1>5 DEF IInv

LEMMA ReadStep == IInv /\ ReadPiece => IInv'
<1> SUFFICES ASSUME IInv, ReadPiece PROVE IInv' OBVIOUS
<1> DEFINE here == <<line, piece>>
           Skipped == ~Assigns(At(here))
<1>1. TypeOK /\ file \in Seq(Line) /\ UpToDate /\ pc = "read" /\ result = 0
  BY DEF IInv, ReadPiece
<1>2. UNCHANGED <<file, memory, p_file, result, pc>> BY DEF ReadPiece
<1>3. /\ here \in Places /\ At(here) \in Piece
      /\ \A p \in Places : Passed(p)' <=> Passed(p) \/ p = here
      /\ \A p \in Places : Passed(p) => Later(here, p)
      /\ ~Passed(here)
  BY <1>1, PassesOne
<1>4. At(here) = file[line][piece] BY DEF At
<1>5. IF Skipped THEN setting' = setting
      ELSE setting' = [setting EXCEPT ![At(here).key] = Assigned(At(here).key, At(here).kept)]
  BY <1>4 DEF ReadPiece, ConfigValue, Assigned
<1>7. \A k : here \in Assigning(k) <=> At(here).key = k /\ ~Skipped
  BY <1>3 DEF Assigning
<1> HIDE DEF here, Skipped
<1>8. \A k : Assigning(k)' = Assigning(k) /\ Assigning(k) \subseteq Places
  BY <1>2 DEF Assigning, Places, At
<1>9. \A k : SoFar(k)' = IF here \in Assigning(k) THEN SoFar(k) \cup {here} ELSE SoFar(k)
  BY <1>3, <1>8 DEF SoFar
<1>10. \A p : At(p)' = At(p) BY <1>2 DEF At
<1>11. \A k : Unset(k)' = Unset(k) BY <1>2 DEF Unset
<1>12. DOMAIN setting = Keys BY <1>1 DEF TypeOK
<1>13. ASSUME NEW k \in Keys
       PROVE  \/ SoFar(k)' = {} /\ setting'[k] = Unset(k)'
              \/ \E a \in SoFar(k)' : LastOf(a, SoFar(k)') /\ setting'[k] = Assigned(k, At(a).kept)
  <2>1. CASE here \in Assigning(k)
    <3>1. setting'[k] = Assigned(k, At(here).kept) BY <1>5, <1>7, <1>12, <2>1
    <3>2. SoFar(k)' = SoFar(k) \cup {here} BY <1>9, <2>1
    <3>3. Later(here, here) BY <1>1, <1>3, PlacesOrdered
    <3>4. \A p \in SoFar(k) : Later(here, p) BY <1>3, <1>8 DEF SoFar
    <3> QED BY <3>1, <3>2, <3>3, <3>4 DEF LastOf
  <2>2. CASE here \notin Assigning(k)
    <3>1. setting'[k] = setting[k] BY <1>5, <1>7, <1>12, <2>2
    <3>2. SoFar(k)' = SoFar(k) BY <1>9, <2>2
    <3> QED BY <1>1, <1>11, <3>1, <3>2 DEF UpToDate
  <2> QED BY <2>1, <2>2
<1>14. UpToDate' BY <1>10, <1>13 DEF UpToDate, LastOf, Assigned, Later, ToInt, strtol
<1>15. TypeOK'
  <2>1. /\ line' \in 1..(Len(file) + 1)
        /\ piece' \in IF line' <= Len(file) THEN DOMAIN file[line'] ELSE {1}
    BY <1>1, PassesOne
  <2>2. DOMAIN setting' = Keys BY <1>5, <1>12
  <2>3. ASSUME NEW k \in TextKeys PROVE setting'[k] # NoValue
    <3>1. k \in Keys /\ k \notin IntKeys BY DEF TextKeys, IntKeys, Keys
    <3>2. setting[k] # NoValue BY <1>1 DEF TypeOK
    <3>3. CASE here \in Assigning(k)
      <4>1. setting'[k] = At(here).kept BY <1>5, <1>7, <1>12, <3>1, <3>3 DEF Assigned
      <4> QED BY <3>3, <4>1 DEF Assigning, Assigns
    <3>4. CASE here \notin Assigning(k) BY <1>5, <1>7, <1>12, <3>1, <3>2, <3>4
    <3> QED BY <3>3, <3>4
  <2> QED BY <1>1, <1>2, <2>1, <2>2, <2>3 DEF TypeOK
<1> QED BY <1>1, <1>2, <1>14, <1>15 DEF IInv

LEMMA IInvStep == IInv /\ [Next]_vars => IInv'
<1> SUFFICES ASSUME IInv, [Next]_vars PROVE IInv' BY SMTT(60)
<1>1. \* steps that leave the position, the settings and the file alone
      ASSUME UNCHANGED <<file, line, piece, memory, setting>>
      PROVE  UpToDate => UpToDate'
  BY <1>1 DEF UpToDate, SoFar, Passed, Assigning, Places, At, LastOf, Unset
<1>2. CASE OpenFails BY <1>2 DEF OpenFails, IInv, TypeOK
<1>3. CASE EndOfFile BY <1>1, <1>3 DEF EndOfFile, IInv, TypeOK
<1>4. CASE Launch BY <1>1, <1>4 DEF Launch, IInv, TypeOK
<1>5. CASE UNCHANGED vars BY <1>1, <1>5 DEF vars, IInv, TypeOK
<1> QED BY <1>2, <1>3, <1>4, <1>5, OpenStep, ReadStep DEF Next

\* The conjunction on which the result below rests.
THEOREM Inductive == Spec => []IInv
<1> QED BY IInvInit, IInvStep, PTL DEF Spec

\* Once the file has been read, all its pieces have been passed.
LEMMA AllPassed ==
  ASSUME IInv, Read, NEW k \in Keys
  PROVE  Assigning(k) \subseteq Places /\ SoFar(k) = Assigning(k)
<1>1. line > Len(file) /\ file \in Seq(Line) /\ TypeOK BY DEF IInv, Read
<1>2. ASSUME NEW p \in Places PROVE Passed(p)
  <2>1. p[1] \in 1..Len(file) /\ Len(file) \in Nat /\ line \in Nat
    BY <1>1, PlacesOrdered DEF TypeOK
  <2> QED BY <1>1, <2>1 DEF Passed
<1> QED BY <1>2 DEF SoFar, Assigning

LEMMA LastExists ==
  ASSUME IInv, Read, NEW k \in Keys, Assigning(k) # {}
  PROVE  \E a \in Assigning(k) :
           LastOf(a, Assigning(k)) /\ setting[k] = Assigned(k, At(a).kept)
<1> QED BY AllPassed DEF IInv, Read, UpToDate

LEMMA AsRead ==
  ASSUME IInv, Read, NEW k \in Keys
  PROVE  IF Assigning(k) = {} THEN setting[k] = Unset(k)
         ELSE setting[k] = Assigned(k, LastRead(k))
<1>1. file \in Seq(Line) BY DEF IInv
<1>2. CASE Assigning(k) = {} BY <1>2, AllPassed DEF IInv, Read, UpToDate
<1>3. CASE Assigning(k) # {}
  <2>1. PICK a \in Assigning(k) :
          LastOf(a, Assigning(k)) /\ setting[k] = Assigned(k, At(a).kept)
    BY <1>3, LastExists
  <2> DEFINE b == CHOOSE x \in Assigning(k) : \A y \in Assigning(k) : Later(x, y)
  <2>2. b \in Assigning(k) /\ \A y \in Assigning(k) : Later(b, y) BY <2>1 DEF LastOf
  <2>3. Later(a, b) /\ Later(b, a) BY <2>1, <2>2 DEF LastOf
  <2>4. a = b BY <1>1, <2>1, <2>2, <2>3, AllPassed, PlacesOrdered
  <2>5. LastRead(k) = At(b).kept BY DEF LastRead
  <2> QED BY <1>3, <2>1, <2>4, <2>5
<1> QED BY <1>2, <1>3

\* What is intact is assigned by the pieces that set it in the file.
LEMMA IntactPieces ==
  ASSUME NEW k, Intact(k)
  PROVE  /\ Assigning(k) = Setting(k)
         /\ \A p \in Setting(k) : At(p).kept = At(p).value
<1>1. ASSUME NEW p \in Places, At(p).key = k, Masked(p)
      PROVE  p \notin Assigning(k) /\ p \notin Setting(k)
  BY <1>1 DEF Intact, Assigning, Setting
<1>2. ASSUME NEW p \in Places, At(p).key = k, ~Masked(p)
      PROVE  /\ At(p).kept = At(p).value
             /\ p \in Assigning(k) <=> p \in Setting(k)
  <2>1. At(p).kept = At(p).value BY <1>2 DEF Intact
  <2>2. At(p).mark # "front" BY <1>2 DEF Masked
  <2> QED BY <1>2, <2>1, <2>2 DEF Assigning, Setting, Assigns
<1> QED BY <1>1, <1>2 DEF Assigning, Setting

LEMMA AsSaid ==
  ASSUME IInv, Read, NEW k \in Keys, Intact(k)
  PROVE  IF Setting(k) = {} THEN setting[k] = Unset(k)
         ELSE setting[k] = Assigned(k, Said(k))
<1>1. Assigning(k) = Setting(k) BY IntactPieces
<1>2. ASSUME Setting(k) # {} PROVE LastRead(k) = Said(k)
  <2> DEFINE b == CHOOSE x \in Setting(k) : \A y \in Setting(k) : Later(x, y)
  <2>1. PICK a \in Assigning(k) : LastOf(a, Assigning(k))
    BY <1>1, <1>2, LastExists
  <2>2. b \in Setting(k) BY <1>1, <2>1 DEF LastOf
  <2>3. LastRead(k) = At(b).kept /\ Said(k) = At(b).value
    BY <1>1 DEF LastRead, Said
  <2> QED BY <2>2, <2>3, IntactPieces
<1> QED BY <1>1, <1>2, AsRead

\* An int holds every long of its range unchanged.
LEMMA ToIntExact ==
  ASSUME NEW n \in Nat, n < IntHalf
  PROVE  ToInt(n) = n
<1> DEFINE m == 2 * IntHalf
<1>1. m \in Nat \ {0} /\ n < m BY WidthAssumption
<1>2. n % m = n
  <2> HIDE DEF m
  <2> QED BY <1>1
<1> QED BY <1>2 DEF ToInt

\* A complete record is stored with a positive sendno, an app_key and a
\* message type is_data_ok knows.
LEMMA CompleteStored ==
  ASSUME p_file["sendno"] > 0, p_file["app_key"] # Empty, p_file["msg_type"] \in {1, 2}
  PROVE  Served
<1> DEFINE r == CompleteRecord
<1>1. /\ r.n = 6 /\ r.platform = "0" /\ r.receiver_type = "4" /\ r.warning = 1
  BY DEF CompleteRecord
<1>2. Record!strtol(r.warning) \in {0, 1} BY <1>1 DEF Record!strtol
<1>3. {0, 1} \subseteq DOMAIN Record!Warnings BY DEF Record!Warnings
<1>4. Record!WarningOk(r) BY <1>2, <1>3 DEF Record!WarningOk
<1>5. Record!PlatformOk(r) /\ Record!ReceiverOk(r) /\ Record!CountOk(r)
  BY <1>1 DEF Record!PlatformOk, Record!ReceiverOk, Record!CountOk, Record!KeyCount
<1>6. Record!Has(r, 1) /\ Record!Has(r, 3) /\ Record!Has(r, 4) BY <1>1 DEF Record!Has
<1> DEFINE c == Record!Command(r)
<1>7. /\ c.sendno = p_file["sendno"] /\ c.app_key = (p_file["app_key"] # Empty)
      /\ c.msg_type = p_file["msg_type"] /\ c.receiver_type = "4" /\ c.platform = "android"
  BY <1>1 DEF Record!Command
<1>8. Record!is_data_ok(c) BY <1>7 DEF Record!is_data_ok
<1>9. ~Record!Throws(r) BY <1>1, <1>6 DEF Record!Throws
<1>10. Record!Stores(r) BY <1>4, <1>5, <1>6, <1>8 DEF Record!Stores
<1> QED BY <1>9, <1>10 DEF Served, Record!Outcome

-----------------------------------------------------------------------------
(* The theorems                                                            *)

\* For any files, whatever the memory held and however wide an int is: the
\* last unmasked line for a keyword counts, and the request has no optional
\* parameter that no unmasked line asks for.  A keyword is excepted if
\* code_convert cuts what the file says of it, or if it stands in masked text
\* behind the 255th character of a line, which read_config takes for a line.
THEOREM SettingsAreTheFile == Spec => []SettingsExact
<1>1. IInv => SettingsExact
  <2> SUFFICES ASSUME IInv PROVE SettingsExact OBVIOUS
  <2>1. TypeOK BY DEF IInv
  <2>2. LastSettingWins BY AsSaid DEF LastSettingWins, Assigned
  <2>3. OptionalOnlyIfSet
    <3> SUFFICES ASSUME Read, NEW k \in OptionalFields, Intact(k), Setting(k) = {}
                 PROVE  FALSE
      BY DEF OptionalOnlyIfSet
    <3>1. k \in {"time_to_live", "apns_production", "override_msg_id"} /\ k \in Keys
      BY DEF OptionalFields, Keys, IntKeys, TextKeys
    <3>2. p_file[k] = Unset(k) BY <3>1, AsSaid DEF IInv, Read
    <3> QED BY <3>1, <3>2 DEF Unset, Preset, IntKeys, OptionalFields
  <2> QED BY <2>1, <2>2, <2>3 DEF SettingsExact
<1> QED BY <1>1, Inductive, PTL

\* A file whose last unmasked lines give a sendno that fits an int, an app_key
\* and a message type of 1 or 2 makes the server accept complete records,
\* whatever else stands in it, if these three survive code_convert and do not
\* stand in masked text behind the 255th character of a line.
THEOREM ConfiguredServes == Spec => []ServesWhenConfigured
<1>1. IInv => ServesWhenConfigured
  <2> SUFFICES ASSUME IInv, Read,
                      \A k \in Given : Intact(k) /\ Setting(k) # {},
                      strtol(Said("sendno")) \in 1..(IntHalf - 1),
                      Said("app_key") # Empty, Said("msg_type") \in {1, 2}
               PROVE  Served
    BY DEF ServesWhenConfigured
  <2>1. {"sendno", "app_key", "msg_type"} \subseteq Keys /\ "app_key" \notin IntKeys
        /\ "sendno" \in IntKeys /\ "msg_type" \in IntKeys
    BY DEF Keys, IntKeys, TextKeys
  <2>2. \A k \in Given : setting[k] = Assigned(k, Said(k))
    BY <2>1, AsSaid DEF Given
  <2>3. p_file = setting BY DEF IInv, Read
  <2>4. p_file["sendno"] > 0
    <3> DEFINE n == strtol(Said("sendno"))
    <3>1. n \in Nat /\ n > 0 /\ n < IntHalf BY WidthAssumption
    <3>2. ToInt(n) = n BY <3>1, ToIntExact
    <3>3. setting["sendno"] = ToInt(n) BY <2>1, <2>2 DEF Assigned, Given
    <3> QED BY <2>3, <3>1, <3>2, <3>3
  <2>5. p_file["app_key"] # Empty BY <2>1, <2>2, <2>3 DEF Assigned, Given
  <2>6. p_file["msg_type"] \in {1, 2}
    <3> DEFINE n == Said("msg_type")
    <3>1. strtol(n) = n BY TextAssumption DEF strtol
    <3>2. setting["msg_type"] = ToInt(n) BY <2>1, <2>2, <3>1 DEF Assigned, Given
    <3>3. ToInt(n) = n BY WidthAssumption, ToIntExact
    <3> QED BY <2>3, <3>2, <3>3
  <2> QED BY <2>4, <2>5, <2>6, CompleteStored
<1> QED BY <1>1, Inductive, PTL
=============================================================================
