-------------------------- MODULE ParamMenu_proof --------------------------
(***************************************************************************)
(* First what the flash holds, for a record of any number of words and any *)
(* values of its parameters, over any number of edits, saves, refused and  *)
(* worn half-words and power cuts.  Then the car with its menu, which      *)
(* keeps the flash as ParamFlash says: what is proved of every save holds  *)
(* of the saves the menu makes, for every record a car may be delivered    *)
(* with and every play of the keys.                                        *)
(***************************************************************************)
EXTENDS ParamMenu, TLAPS

(***************************************************************************)
(* The inductive invariant.  Nothing is touched before the erase; from     *)
(* then on what is not yet reached is all erased or all old, and what is   *)
(* compared holds.  While half a word is programmed, or the comparison     *)
(* found a difference, that one word holds anything.  A record counts as   *)
(* saved only while no save is under way.                                  *)
(***************************************************************************)
RestFrom(n) == \/ \A i \in Halves : i > n => flash[i] = Erased
               \/ \A i \in Halves : i > n => flash[i] = old[i]

Untouched == stage \in {"menu", "erase"} => at = 0 /\ half = 0 /\ flash = old
Reached == stage = "program" =>
             /\ RestFrom(2 * at + half)
             /\ half = 1 => at < Words
Compared == stage # "menu" => \A i \in Halves : i <= 2 * at => flash[i] = temp[i]
Rest == stage # "menu" => RestFrom(2 * at + 2)
SavedHolds == saved # NotSaved => flash = saved /\ stage \in {"boot", "menu", "running"}

Inv == FlashTypeOK /\ Untouched /\ Reached /\ Compared /\ Rest /\ SavedHolds

USE FlashAssumption DEF FlashAssumption, Halves, Stages

LEMMA RestGrows ==
    ASSUME FlashTypeOK, NEW m \in Nat, NEW n \in Nat, m <= n, RestFrom(m)
    PROVE  RestFrom(n)
BY DEF RestFrom, FlashTypeOK

LEMMA InitEstablishesInv ==
    ASSUME flash \in Records, FlashInit
    PROVE  Inv
BY DEF FlashInit, Inv, FlashTypeOK, Untouched, Reached, Compared, Rest,
       SavedHolds, RestFrom

\* The actions outside the save, and those that only end it.
LEMMA QuietStepKeepsInv ==
    ASSUME Inv, ReadParams \/ Edit \/ Save \/ Refuse \/ PowerCut
                \/ UNCHANGED flashVars
    PROVE  Inv'
<1> USE DEF Inv, FlashTypeOK, Untouched, Reached, Compared, Rest, SavedHolds, RestFrom
<1>1. CASE ReadParams
  BY <1>1 DEF ReadParams
<1>2. CASE Edit
  BY <1>2 DEF Edit
<1>3. CASE Save
  BY <1>3 DEF Save
<1>4. CASE Refuse
  BY <1>4 DEF Refuse
<1>5. CASE PowerCut
  BY <1>5 DEF PowerCut
<1>6. CASE UNCHANGED flashVars
  BY <1>6 DEF flashVars
<1> QED
  BY <1>1, <1>2, <1>3, <1>4, <1>5, <1>6

LEMMA EraseKeepsInv ==
    ASSUME Inv, Erase
    PROVE  Inv'
<1>1. flash' \in Records
  BY DEF Inv, FlashTypeOK, Erase, ErasedRecord, Records
<1>2. RestFrom(0)'
  BY DEF Inv, Untouched, FlashTypeOK, Erase, ErasedRecord, RestFrom
<1> QED
  BY <1>1, <1>2, RestGrows
     DEF Inv, FlashTypeOK, Untouched, Reached, Compared, Rest, SavedHolds, Erase, RestFrom

\* What the programming of a half-word leaves alone.
LEMMA ProgramTouchesOne ==
    ASSUME Inv, Program
    PROVE  /\ flash' \in Records
           /\ \A i \in Halves : i # Next16 => flash'[i] = flash[i]
           /\ saved = NotSaved
<1>1. temp \in Records /\ flash \in Records /\ at \in Nat /\ half \in {0, 1}
      /\ Next16 \in Halves
  BY DEF Inv, FlashTypeOK, Program, Next16
<1>2. saved = NotSaved
  BY DEF Inv, SavedHolds, Program
<1>3. CASE flash' = flash
  BY <1>1, <1>2, <1>3
<1>4. CASE flash' = [flash EXCEPT ![Next16] = temp[Next16]]
  BY <1>1, <1>2, <1>4 DEF Records
<1> QED
  BY <1>3, <1>4 DEF Program

LEMMA ProgramLowKeepsInv ==
    ASSUME Inv, ProgramLow
    PROVE  Inv'
<1>1. Program
  BY DEF ProgramLow
<1>2. /\ stage = "program" /\ stage' = "program" /\ at' = at /\ half = 0 /\ half' = 1
      /\ temp' = temp /\ old' = old /\ saved' = saved /\ at < Words
      /\ at \in Nat /\ Next16 = 2 * at + 1
  BY DEF ProgramLow, Program, Inv, FlashTypeOK, Next16
<1>3. /\ flash' \in Records
      /\ \A i \in Halves : i # 2 * at + 1 => flash'[i] = flash[i]
      /\ saved = NotSaved
  BY <1>1, <1>2, ProgramTouchesOne
<1>4. FlashTypeOK'
  BY <1>2, <1>3 DEF Inv, FlashTypeOK
<1>5. RestFrom(2 * at + half)
  BY <1>2 DEF Inv, Reached
<1>6. RestFrom(2 * at + half)'
  BY <1>2, <1>3, <1>5 DEF RestFrom
<1>7. Reached'
  BY <1>2, <1>6 DEF Reached
<1>8. Rest'
  BY <1>2, <1>4, <1>6 DEF Rest, RestFrom
<1>9. Compared'
  BY <1>2, <1>3 DEF Inv, Compared
<1> QED
  BY <1>2, <1>3, <1>4, <1>7, <1>8, <1>9 DEF Inv, Untouched, SavedHolds

LEMMA ProgramHighKeepsInv ==
    ASSUME Inv, ProgramHigh
    PROVE  Inv'
<1>1. Program
  BY DEF ProgramHigh
<1>2. /\ stage = "program" /\ half = 1 /\ half' = 0
      /\ temp' = temp /\ old' = old /\ saved' = saved /\ at < Words
      /\ at \in Nat /\ Next16 = 2 * at + 2
  BY DEF ProgramHigh, Program, Inv, FlashTypeOK, Next16
<1>3. /\ flash' \in Records
      /\ \A i \in Halves : i # 2 * at + 2 => flash'[i] = flash[i]
      /\ saved = NotSaved
  BY <1>1, <1>2, ProgramTouchesOne
<1>4. RestFrom(2 * at + 1)
  BY <1>2 DEF Inv, Reached
<1>5. \/ \A i \in Halves : i > 2 * at + 2 => flash'[i] = Erased
      \/ \A i \in Halves : i > 2 * at + 2 => flash'[i] = old'[i]
  BY <1>2, <1>3, <1>4 DEF RestFrom
<1>6. CASE WordHolds /\ at' = at + 1 /\ UNCHANGED stage
  <2>1. FlashTypeOK'
    BY <1>2, <1>3, <1>6 DEF Inv, FlashTypeOK
  <2>2. Reached'
    BY <1>2, <1>5, <1>6 DEF Reached, RestFrom
  <2>3. Rest'
    BY <1>2, <1>5, <1>6 DEF Rest, RestFrom
  <2>4. Compared'
    <3>1. ASSUME NEW i \in Halves, i <= 2 * at + 2 PROVE flash'[i] = temp[i]
      <4>1. CASE i <= 2 * at
        BY <1>2, <1>3, <4>1 DEF Inv, Compared
      <4>2. CASE i \in {2 * at + 1, 2 * at + 2}
        BY <1>6, <4>2 DEF WordHolds
      <4> QED
        BY <1>2, <3>1, <4>1, <4>2
    <3> QED
      BY <1>2, <1>6, <3>1 DEF Compared
  <2> QED
    BY <1>2, <1>3, <1>6, <2>1, <2>2, <2>3, <2>4 DEF Inv, Untouched, SavedHolds
<1>7. CASE ~WordHolds /\ stage' = "running" /\ UNCHANGED at
  <2>1. FlashTypeOK'
    BY <1>2, <1>3, <1>7 DEF Inv, FlashTypeOK
  <2>2. Rest'
    BY <1>2, <1>5, <1>7 DEF Rest, RestFrom
  <2>3. Compared'
    BY <1>2, <1>3, <1>7 DEF Inv, Compared
  <2> QED
    BY <1>2, <1>3, <1>7, <2>1, <2>2, <2>3 DEF Inv, Untouched, Reached, SavedHolds
<1> QED
  BY <1>6, <1>7 DEF ProgramHigh

LEMMA ReportKeepsInv ==
    ASSUME Inv, Report
    PROVE  Inv'
<1>1. flash = temp
  <2>1. \A i \in Halves : flash[i] = temp[i]
    BY DEF Inv, FlashTypeOK, Compared, Report
  <2> QED
    BY <2>1 DEF Inv, FlashTypeOK, Records
<1> QED
  BY <1>1 DEF Report, Inv, FlashTypeOK, Untouched, Reached, Compared, Rest,
              SavedHolds, RestFrom

LEMMA NextKeepsInv == Inv /\ [FlashNext]_flashVars => Inv'
BY QuietStepKeepsInv, EraseKeepsInv, ProgramLowKeepsInv, ProgramHighKeepsInv,
   ReportKeepsInv DEF FlashNext, SaveStep

LEMMA SpecKeepsInv == FlashSpec => []Inv
<1>1. flash \in Records /\ FlashInit => Inv
  BY InitEstablishesInv
<1> QED
  BY <1>1, NextKeepsInv, PTL DEF FlashSpec

(***************************************************************************)
(* Every variable keeps its type.                                          *)
(***************************************************************************)
THEOREM TypeCorrect == FlashSpec => []FlashTypeOK
<1>1. Inv => FlashTypeOK
  BY DEF Inv
<1> QED
  BY <1>1, SpecKeepsInv, PTL

(***************************************************************************)
(* A record reported as saved stays in the flash, whole, until the next    *)
(* save.                                                                   *)
(***************************************************************************)
THEOREM DurableCorrect == FlashSpec => []Durable
<1>1. Inv => Durable
  BY DEF Inv, SavedHolds, Durable
<1> QED
  BY <1>1, SpecKeepsInv, PTL

(***************************************************************************)
(* Wherever a save ends, the flash holds a beginning of the new record and *)
(* then, but for one word, only erased or only old parameters.             *)
(***************************************************************************)
THEOREM PrefixCorrect == FlashSpec => []PrefixThenRest
<1>1. Inv => PrefixThenRest
  BY DEF Inv, FlashTypeOK, Compared, Rest, RestFrom, PrefixThenRest
<1> QED
  BY <1>1, SpecKeepsInv, PTL

HIDE FlashAssumption DEF FlashAssumption, Halves, Stages

-----------------------------------------------------------------------------

(***************************************************************************)
(* The inductive invariant: the menu edits 16-bit words, at a place of the *)
(* screen that the tables of the fields know.                              *)
(***************************************************************************)
EditsRecord ==
    /\ flash \in Records /\ temp \in Records
    /\ show_line \in Lines /\ show_page \in Pages

LEMMA ChangedStaysRecord ==
    ASSUME temp \in Records, NEW field \in 1..14, NEW by \in {1, -1}
    PROVE  [temp EXCEPT ![field] = Wrap16(@ + by)] \in Records
<1>1. Halves = 1..14 /\ Int16 = (Top - Span + 1)..Top
  BY MenuAssumption DEF MenuAssumption, Halves
<1>2. temp[field] \in (Top - Span + 1)..Top
  BY <1>1 DEF Records
<1>3. Wrap16(temp[field] + by) \in (Top - Span + 1)..Top
  <2>1. Top \in Int /\ Span \in Int /\ Span > 2
    BY DEF Top, Span
  <2> QED
    BY <1>2, <2>1 DEF Wrap16
<1> QED
  BY <1>1, <1>3 DEF Records

LEMMA FieldsKnown ==
    ASSUME NEW p \in Pages, NEW l \in Lines
    PROVE  AddChanges[p][l] \in 0..14 /\ SubChanges[p][l] \in 0..14
<1>1. p \in {1, 2, 3, 4, 5} /\ l \in {1, 2, 3}
  BY DEF Pages, Lines
<1> QED
  BY <1>1 DEF AddChanges, SubChanges, Field, None

LEMMA ChangeIsEdit ==
    ASSUME EditsRecord, stage = "menu",
           NEW field \in 0..14, NEW by \in {1, -1}, Change(field, by)
    PROVE  /\ Edit \/ UNCHANGED flashVars
           /\ show_line' = show_line /\ show_page' = show_page
<1>1. CASE field = None
  BY <1>1 DEF Change
<1>2. CASE field # None
  <2>1. /\ temp' = [temp EXCEPT ![field] = Wrap16(@ + by)]
        /\ UNCHANGED <<stage, flash, at, half, old, saved>>
    BY <1>2 DEF Change
  <2>2. temp' \in Records
    <3>1. field \in 1..14
      BY <1>2 DEF None
    <3> QED
      BY <2>1, <3>1, ChangedStaysRecord DEF EditsRecord
  <2> QED
    BY <2>1, <2>2 DEF Edit, Change
<1> QED
  BY <1>1, <1>2

(***************************************************************************)
(* Each step of the car is a step of the flash, or leaves it alone.        *)
(***************************************************************************)
LEMMA StepIsFlashStep ==
    ASSUME EditsRecord, [Next]_vars
    PROVE  [FlashNext]_flashVars
<1> USE DEF FlashNext
<1>1. CASE Start
  BY <1>1 DEF Start
<1>2. CASE Poll \/ PollSettled \/ Hold \/ HoldSettled \/ Switch \/ Entry \/ Finger
  BY <1>2 DEF Poll, PollSettled, Hold, HoldSettled, Switch, Entry, Finger
<1>3. CASE Add
  BY <1>3, FieldsKnown, ChangeIsEdit DEF Add, InMenu, EditsRecord
<1>4. CASE Sub
  BY <1>4, FieldsKnown, ChangeIsEdit DEF Sub, InMenu, EditsRecord
<1>5. CASE Leave
  BY <1>5 DEF Leave
<1>6. CASE Saving
  BY <1>6 DEF Saving
<1>7. CASE Cut
  BY <1>7 DEF Cut
<1>8. CASE UNCHANGED vars
  BY <1>8 DEF vars
<1> QED
  BY <1>1, <1>2, <1>3, <1>4, <1>5, <1>6, <1>7, <1>8 DEF Next, MainThread

LEMMA FlashStepKeepsRecords ==
    ASSUME flash \in Records, temp \in Records, [FlashNext]_flashVars
    PROVE  flash' \in Records /\ temp' \in Records
<1>1. CASE Erase
  BY <1>1, FlashAssumption DEF FlashAssumption, Erase, ErasedRecord, Records
<1>2. ASSUME Program PROVE flash' \in Records /\ temp' \in Records
  <2>1. temp[Next16] \in Int16 \/ Next16 \notin Halves
    BY DEF Records
  <2> QED
    BY <1>2, <2>1 DEF Program, Records
<1>3. CASE ProgramLow \/ ProgramHigh
  BY <1>2, <1>3 DEF ProgramLow, ProgramHigh
<1> QED
  BY <1>1, <1>3 DEF FlashNext, SaveStep, flashVars, ReadParams, Edit, Save,
                    Refuse, Report, PowerCut

LEMMA StepKeepsPlace ==
    ASSUME EditsRecord, [Next]_vars
    PROVE  show_line' \in Lines /\ show_page' \in Pages
<1> USE DEF EditsRecord, Lines, Pages
<1>1. CASE Poll \/ PollSettled \/ Hold \/ HoldSettled \/ Leave \/ Saving \/ Finger
           \/ UNCHANGED vars
  BY <1>1 DEF Poll, PollSettled, Hold, HoldSettled, Leave, Saving, Finger,
              viewVars, menuVars, vars
<1>2. CASE Switch
  <2>1. /\ show_line' = IF show_line = 3 THEN 1 ELSE show_line + 1
        /\ show_page' = show_page
    BY <1>2, Zenon DEF Switch
  <2> QED
    BY <2>1
<1>3. CASE Entry
  BY <1>3 DEF Entry
<1>4. CASE Add \/ Sub
  BY <1>4 DEF Add, Sub, Change
<1>5. CASE Start \/ Cut
  BY <1>5 DEF Start, Cut, MenuStart
<1> QED
  BY <1>1, <1>2, <1>3, <1>4, <1>5 DEF Next, MainThread

(***************************************************************************)
(* The car implements ParamFlash: it starts with some record, and changes  *)
(* record and flash only by the flash's own steps.                         *)
(***************************************************************************)
THEOREM Refinement == Spec => FlashSpec
<1>1. Init => EditsRecord /\ flash \in Records /\ FlashInit
  BY MenuAssumption DEF Init, EditsRecord, MenuAssumption, FlashInit, Lines, Pages
<1>2. EditsRecord /\ [Next]_vars => EditsRecord' /\ [FlashNext]_flashVars
  <2> SUFFICES ASSUME EditsRecord, [Next]_vars
               PROVE  EditsRecord' /\ [FlashNext]_flashVars
    OBVIOUS
  <2> QED
    BY StepIsFlashStep, FlashStepKeepsRecords, StepKeepsPlace DEF EditsRecord
<1> QED
  BY <1>1, <1>2, PTL DEF Spec, FlashSpec

(***************************************************************************)
(* So whatever the keys did, a record the car reported saved is whole in   *)
(* the flash until the next save begins.                                   *)
(***************************************************************************)
THEOREM CarDurable == Spec => []Durable
BY Refinement, DurableCorrect, PTL

(***************************************************************************)
(* And wherever a save the menu began is cut, the flash holds a beginning  *)
(* of the new record and a rest of one kind.                               *)
(***************************************************************************)
THEOREM CarPrefix == Spec => []PrefixThenRest
BY Refinement, PrefixCorrect, PTL

-----------------------------------------------------------------------------

(***************************************************************************)
(* What the car drives with: from the moment the menu is left, the gains   *)
(* of the record in memory, which is the record reported saved, if one is. *)
(***************************************************************************)
DriveInv ==
    /\ stage \in {"erase", "program", "running"} => car_parm = Gains(temp)
    /\ stage = "running" /\ saved # NotSaved => saved = temp

LEMMA StepKeepsDrive ==
    ASSUME Inv, DriveInv, [Next]_vars
    PROVE  DriveInv'
<1> USE DEF DriveInv
<1>1. CASE Start \/ Cut
  BY <1>1 DEF Start, Cut, ReadParams, PowerCut
<1>2. CASE Poll \/ PollSettled \/ Hold \/ HoldSettled \/ Switch \/ Entry
  BY <1>2 DEF Poll, PollSettled, Hold, HoldSettled, Switch, Entry, InMenu, flashVars
<1>3. CASE Add \/ Sub
  BY <1>3 DEF Add, Sub, Change, InMenu, flashVars
<1>4. CASE Leave
  BY <1>4 DEF Leave, Save
<1>5. CASE Saving
  <2>1. saved = NotSaved /\ stage \in {"erase", "program"}
    BY <1>5 DEF Saving, SaveStep, Erase, ProgramLow, ProgramHigh, Program, Refuse,
                Report, Inv, SavedHolds
  <2> QED
    BY <1>5, <2>1 DEF Saving, SaveStep, Erase, ProgramLow, ProgramHigh, Program,
                      Refuse, Report
<1>6. CASE Finger \/ UNCHANGED vars
  BY <1>6 DEF Finger, vars, flashVars
<1> QED
  BY <1>1, <1>2, <1>3, <1>4, <1>5, <1>6 DEF Next, MainThread

(***************************************************************************)
(* When the car drives on a save nobody complained of, its gains are those *)
(* of the record the flash holds.                                          *)
(***************************************************************************)
THEOREM DrivesAsSavedCorrect == Spec => []DrivesAsSaved
<1>1. Spec => []Inv
  BY Refinement, SpecKeepsInv, PTL
<1>2. Init => DriveInv
  BY DEF Init, FlashInit, DriveInv
<1>3. Inv /\ DriveInv /\ [Next]_vars => DriveInv'
  BY StepKeepsDrive
<1>4. Inv /\ DriveInv => DrivesAsSaved
  BY DEF Inv, SavedHolds, DriveInv, DrivesAsSaved
<1> QED
  BY <1>1, <1>2, <1>3, <1>4, PTL DEF Spec

-----------------------------------------------------------------------------

(***************************************************************************)
(* The counter of the loop that ENTRY is held in passes its limit only on  *)
(* the way out of the menu.                                                *)
(***************************************************************************)
KeysInv ==
    /\ keys \in Chords /\ pc \in Points
    /\ key_value \in Keys \cup {KEY_NULL, KEY_FUNC_OUT}
    /\ key_timeout \in 0..(KEY_TIMEOUT + 1)
    /\ key_timeout = KEY_TIMEOUT + 1 => key_value = KEY_FUNC_OUT /\ pc = "act"
    /\ edits \in 0..MaxEdits /\ cuts \in 0..MaxCuts

LEMMA StepKeepsKeys ==
    ASSUME KeysInv, [Next]_vars
    PROVE  KeysInv'
<1> USE MenuAssumption DEF KeysInv, MenuAssumption, KEY_TIMEOUT, Points, KEY_NULL,
        KEY_FUNC_OUT, Keys
<1>1. CASE Start \/ Cut
  BY <1>1 DEF Start, Cut, MenuStart
<1>2. CASE Poll \/ Hold
  BY <1>2 DEF Poll, Hold, InMenu, loopVars
<1>3. CASE PollSettled
  <2>1. ReadKey \in Keys \cup {KEY_NULL}
    BY DEF ReadKey
  <2> QED
    BY <1>3, <2>1 DEF PollSettled, InMenu
<1>4. CASE HoldSettled
  <2>1. CASE UNCHANGED loopVars /\ pc = "hold_settle" /\ pc' \in {"act", "hold"}
    BY <1>4, <2>1 DEF HoldSettled, loopVars
  <2>2. CASE key_value = "ENTRY" /\ key_timeout' = key_timeout + 1
    <3>1. key_timeout \in 0..5 /\ key_timeout' \in 1..6
      BY <2>2
    <3>2. /\ pc' \in {"act", "hold"} /\ UNCHANGED <<keys, edits, cuts>>
          /\ \/ key_timeout' > 5 /\ pc' = "act" /\ key_value' = KEY_FUNC_OUT
             \/ ~(key_timeout' > 5) /\ key_value' = key_value
      BY <1>4, <2>2, <3>1 DEF HoldSettled, InMenu, loopVars
    <3> QED
      BY <2>2, <3>1, <3>2
  <2> QED
    BY <1>4, <2>1, <2>2 DEF HoldSettled, InMenu
<1>5. CASE Switch \/ Entry
  <2>1. InMenu("act", "poll") /\ Again /\ UNCHANGED <<keys, edits, cuts>>
    BY <1>5, Zenon DEF Switch, Entry
  <2> QED
    BY <2>1 DEF InMenu, Again
<1>6. CASE Add \/ Sub
  BY <1>6 DEF Add, Sub, Change, InMenu, Again
<1>7. CASE Leave
  BY <1>7 DEF Leave, InMenu, loopVars
<1>8. CASE Saving
  BY <1>8 DEF Saving, loopVars, menuVars
<1>9. CASE Finger
  BY <1>9 DEF Finger, loopVars, menuVars
<1>10. CASE UNCHANGED vars
  BY <1>10 DEF loopVars, menuVars, vars
<1> QED
  BY <1>1, <1>2, <1>3, <1>4, <1>5, <1>6, <1>7, <1>8, <1>9, <1>10 DEF Next, MainThread

LEMMA QuotientFits ==
    ASSUME NEW n \in Int16, NEW d \in {10, 200}
    PROVE  Quotient(n, d) \in Int16
<1>1. Top \in Nat /\ Span \in Nat /\ Top < Span
  BY DEF Top, Span
<1>2. n \in Int /\ n <= Top /\ Top - Span + 1 <= n
  BY <1>1, MenuAssumption DEF MenuAssumption
<1>3. ASSUME NEW m \in Nat PROVE m \div d \in Nat /\ m \div d <= m
  <2>1. CASE d = 10
    BY <2>1
  <2>2. CASE d = 200
    BY <2>2
  <2> QED
    BY <2>1, <2>2
<1>4. CASE n < 0
  <2>1. (-n) \div d \in Nat /\ (-n) \div d <= -n
    BY <1>2, <1>3, <1>4
  <2> QED
    BY <1>1, <1>2, <1>4, <2>1, MenuAssumption DEF MenuAssumption, Quotient
<1>5. CASE n >= 0
  <2>1. n \div d \in Nat /\ n \div d <= n
    BY <1>2, <1>3, <1>5
  <2> QED
    BY <1>1, <1>2, <1>5, <2>1, MenuAssumption DEF MenuAssumption, Quotient
<1> QED
  BY <1>2, <1>4, <1>5

LEMMA GainsAreRecord ==
    ASSUME NEW record \in Records
    PROVE  Gains(record) \in Records
<1>1. Halves = 1..14
  BY MenuAssumption DEF MenuAssumption, Halves
<1>2. /\ Quotient(record[3], 10) \in Int16
      /\ Quotient(record[5], 200) \in Int16
      /\ Quotient(record[7], 10) \in Int16
  BY <1>1, QuotientFits DEF Records
<1> QED
  BY <1>1, <1>2, FlashAssumption DEF FlashAssumption, Records, Gains, Field

LEMMA StepKeepsGains ==
    ASSUME temp \in Records, car_parm \in Records, [Next]_vars
    PROVE  car_parm' \in Records
<1>1. CASE Start \/ Cut
  BY <1>1, FlashAssumption DEF FlashAssumption, Start, Cut, MenuStart, Records
<1>2. CASE Leave
  BY <1>2, GainsAreRecord DEF Leave
<1>3. CASE Add \/ Sub
  BY <1>3 DEF Add, Sub, Change
<1>4. CASE UNCHANGED car_parm
  BY <1>4
<1> QED
  BY <1>1, <1>2, <1>3, <1>4 DEF Next, MainThread, Poll, PollSettled, Hold,
     HoldSettled, Switch, Entry, Saving, Finger, vars

(***************************************************************************)
(* What is shown.  A line shows the parameter that ADD changes there, with *)
(* its value, or nothing; once a page is shown, the star is on the line of *)
(* the keys, and no line but an empty one shows nothing.                   *)
(***************************************************************************)
Screens == [Lines -> [star : Stars, field : 0..14, value : Int16]]

ScreenInv ==
    /\ screen \in Screens
    /\ heading \in 0..5
    /\ \A l \in Lines : screen[l].field \in {None, AddChanges[show_page][l]}
    /\ heading # 0 =>
         \A l \in Lines : /\ screen[l].field = AddChanges[show_page][l]
                          /\ screen[l].star = "*" <=> l = show_line
    /\ stage = "menu" =>
         \A l \in Lines : screen[l].field # None => screen[l].value = temp[screen[l].field]

\* Drawing a star changes nothing else of a line.
LEMMA StarOnly ==
    ASSUME NEW line \in [star : Stars, field : 0..14, value : Int16], NEW s \in Stars
    PROVE  /\ [line EXCEPT !.star = s] \in [star : Stars, field : 0..14, value : Int16]
           /\ [line EXCEPT !.star = s].star = s
           /\ [line EXCEPT !.star = s].field = line.field
           /\ [line EXCEPT !.star = s].value = line.value
<1> DEFINE F == 0..14
<1>1. line \in [star : Stars, field : F, value : Int16]
  OBVIOUS
<1> HIDE DEF F
<1>2. /\ [line EXCEPT !.star = s] \in [star : Stars, field : F, value : Int16]
      /\ [line EXCEPT !.star = s].star = s
      /\ [line EXCEPT !.star = s].field = line.field
      /\ [line EXCEPT !.star = s].value = line.value
  BY <1>1, Zenon
<1> QED
  BY <1>2 DEF F

\* The digits run over the next line's star, and over nothing else.
LEMMA OverrunHits ==
    ASSUME NEW lines \in Screens, NEW l \in Lines, NEW shown \in Overrun(lines, l)
    PROVE  /\ shown \in Screens
           /\ \A k \in Lines : /\ shown[k].field = lines[k].field
                               /\ shown[k].value = lines[k].value
                               /\ \/ shown[k].star = lines[k].star
                                  \/ k # l /\ k = l + 1 /\ shown[k].star = "?"
<1>1. CASE shown = lines
  BY <1>1
<1>2. CASE l + 1 \in Lines /\ shown = [lines EXCEPT ![l + 1].star = "?"]
  <2> DEFINE struck == [lines[l + 1] EXCEPT !.star = "?"]
  <2>1. shown = [lines EXCEPT ![l + 1] = struck]
    BY <1>2, Zenon
  <2>2. lines[l + 1] \in [star : Stars, field : 0..14, value : Int16] /\ "?" \in Stars
    BY <1>2 DEF Screens, Stars
  <2>3. /\ struck \in [star : Stars, field : 0..14, value : Int16]
        /\ struck.star = "?"
        /\ struck.field = lines[l + 1].field
        /\ struck.value = lines[l + 1].value
    BY <2>2, StarOnly
  <2> HIDE DEF struck
  <2>4. l + 1 # l
    BY DEF Lines
  <2>5. /\ shown \in Screens
        /\ shown[l + 1] = struck
        /\ \A k \in Lines : k # l + 1 => shown[k] = lines[k]
    BY <1>2, <2>1, <2>3 DEF Screens
  <2> QED
    BY <2>3, <2>4, <2>5
<1> QED
  BY <1>1, <1>2 DEF Overrun

(***************************************************************************)
(* The three switches over the page agree: the page ENTRY draws is the one *)
(* whose fields ADD and SUB change next, and no field is on it twice.      *)
(***************************************************************************)
LEMMA SwitchesAgree ==
    ASSUME NEW p \in Pages, NEW l \in Lines
    PROVE  /\ PageDraws[p][l] \in 0..14
           /\ PageDraws[p][l] = AddChanges[IF p = 5 THEN 1 ELSE p + 1][l]
           /\ SubChanges[p][l] = AddChanges[p][l]
           /\ \A k \in Lines : AddChanges[p][k] = AddChanges[p][l]
                                 => k = l \/ AddChanges[p][l] = None
           /\ PageDraws[p][1] # None
<1>1. p \in {1, 2, 3, 4, 5} /\ l \in {1, 2, 3}
  BY DEF Pages, Lines
<1> QED
  BY <1>1 DEF AddChanges, SubChanges, PageDraws, Field, None, Lines

LEMMA PageShows ==
    ASSUME temp \in Records, NEW p \in Pages
    PROVE  /\ Page(PageDraws[p]) \in Screens
           /\ \A l \in Lines :
                LET line == Page(PageDraws[p])[l] IN
                /\ line.field = PageDraws[p][l]
                /\ line.star = "*" <=> l = 1
                /\ line.field # None => line.value = temp[line.field]
<1> DEFINE fields == PageDraws[p]
<1>1. \A l \in Lines : fields[l] \in 0..14
  BY SwitchesAgree
<1>2. fields[1] # None
  BY SwitchesAgree DEF Lines
<1> HIDE DEF fields
<1>3. Halves = 1..14 /\ 0 \in Int16
  BY MenuAssumption, FlashAssumption DEF MenuAssumption, FlashAssumption, Halves
<1>4. \A f \in 1..14 : temp[f] \in Int16
  BY <1>3 DEF Records
<1>5. ASSUME NEW l \in Lines
      PROVE  LET line == Page(fields)[l] IN
             /\ line \in [star : Stars, field : 0..14, value : Int16]
             /\ line.field = fields[l]
             /\ line.star = "*" <=> l = 1
             /\ line.field # None => line.value = temp[line.field]
  <2>1. CASE fields[l] = None
    <3>1. Page(fields)[l] = Blank /\ l # 1
      BY <1>2, <2>1 DEF Page
    <3>2. /\ Blank \in [star : Stars, field : 0..14, value : Int16]
          /\ Blank.field = None /\ Blank.star = " "
      BY <1>3 DEF Blank, Stars, None
    <3> QED
      BY <2>1, <3>1, <3>2
  <2>2. CASE fields[l] # None
    <3> DEFINE star == IF l = 1 THEN "*" ELSE " "
    <3>1. Page(fields)[l] = [star |-> star, field |-> fields[l],
                             value |-> temp[fields[l]]]
      BY <2>2 DEF Page
    <3>2. temp[fields[l]] \in Int16
      BY <1>1, <1>4, <2>2 DEF None
    <3>3. star \in Stars /\ (star = "*" <=> l = 1)
      BY DEF Stars
    <3> HIDE DEF star
    <3> QED
      BY <1>1, <3>1, <3>2, <3>3
  <2> QED
    BY <2>1, <2>2
<1>6. Page(fields) = [l \in Lines |-> Page(fields)[l]]
  BY DEF Page
<1>7. Page(fields) \in Screens
  BY <1>5, <1>6 DEF Screens
<1> QED
  BY <1>5, <1>7 DEF fields

LEMMA EntryKeepsScreen ==
    ASSUME EditsRecord, ScreenInv, Entry
    PROVE  ScreenInv'
<1> DEFINE page == Page(PageDraws[show_page])
<1>1. /\ heading' = show_page /\ screen' \in Drawn(PageDraws[show_page])
      /\ show_page' = IF show_page = 5 THEN 1 ELSE show_page + 1
      /\ show_line' = 1 /\ temp' = temp
  BY DEF Entry, flashVars
<1>2. show_page \in Pages /\ temp \in Records
  BY DEF EditsRecord
<1>3. /\ page \in Screens
      /\ \A l \in Lines : /\ page[l].field = PageDraws[show_page][l]
                          /\ page[l].star = "*" <=> l = 1
                          /\ page[l].field # None => page[l].value = temp[page[l].field]
  BY <1>2, PageShows
<1>4. screen' \in Overrun(page, 1) \/ screen' = page
  BY <1>1 DEF Drawn
<1> HIDE DEF page
<1>5. /\ screen' \in Screens
      /\ \A l \in Lines : /\ screen'[l].field = page[l].field
                          /\ screen'[l].value = page[l].value
                          /\ \/ screen'[l].star = page[l].star
                             \/ l # 1 /\ screen'[l].star = "?"
  <2>1. 1 \in Lines
    BY DEF Lines
  <2> QED
    BY <1>3, <1>4, <2>1, OverrunHits
<1>6. \A l \in Lines : PageDraws[show_page][l] = AddChanges[show_page'][l]
  BY <1>1, <1>2, SwitchesAgree
<1>7. heading' \in 0..5
  BY <1>1, <1>2 DEF Pages
<1> QED
  BY <1>1, <1>3, <1>5, <1>6, <1>7 DEF ScreenInv

LEMMA SwitchKeepsScreen ==
    ASSUME EditsRecord, ScreenInv, Switch
    PROVE  ScreenInv'
<1> DEFINE Line == [star : Stars, field : 0..14, value : Int16]
           starred(l) == IF l = show_line' THEN "*" ELSE " "
<1>1. /\ screen' = [l \in Lines |-> [screen[l] EXCEPT !.star = starred(l)]]
      /\ UNCHANGED <<show_page, heading, temp, stage>>
  BY Zenon DEF Switch, flashVars
<1>2. \A l \in Lines : screen[l] \in Line /\ starred(l) \in Stars
  BY DEF ScreenInv, Screens, Stars
<1>3. ASSUME NEW l \in Lines
      PROVE  /\ screen'[l] \in Line
             /\ screen'[l].star = starred(l)
             /\ screen'[l].field = screen[l].field
             /\ screen'[l].value = screen[l].value
  <2>1. screen'[l] = [screen[l] EXCEPT !.star = starred(l)]
    BY <1>1, Zenon
  <2>2. screen[l] \in Line /\ starred(l) \in Stars
    BY <1>2
  <2> HIDE DEF starred
  <2> QED
    BY <2>1, <2>2, StarOnly, Zenon
<1>4. screen' \in [Lines -> Line]
  <2>1. screen' = [l \in Lines |-> screen'[l]]
    BY <1>1, Zenon
  <2> HIDE DEF Line
  <2> QED
    BY <1>3, <2>1
<1>5. show_page' = show_page /\ heading' = heading /\ temp' = temp /\ stage' = stage
  BY <1>1
<1>6. \A l \in Lines :
        /\ screen'[l].star = IF l = show_line' THEN "*" ELSE " "
        /\ screen'[l].field = screen[l].field /\ screen'[l].value = screen[l].value
  BY <1>3
<1>7. screen' \in Screens
  BY <1>4 DEF Screens
<1> HIDE DEF starred, Line
<1> QED
  BY <1>5, <1>6, <1>7 DEF ScreenInv

LEMMA ChangeKeepsScreen ==
    ASSUME EditsRecord, ScreenInv, stage = "menu", NEW by \in {1, -1},
           Change(AddChanges[show_page][show_line], by)
    PROVE  ScreenInv'
<1> DEFINE field == AddChanges[show_page][show_line]
           line == [star |-> "*", field |-> field, value |-> temp'[field]]
           lines == [screen EXCEPT ![show_line] = line]
<1>1. UNCHANGED <<show_line, show_page, heading>>
  BY DEF Change
<1>2. show_line \in Lines /\ show_page \in Pages /\ temp \in Records
  BY DEF EditsRecord
<1>3. CASE field = None
  BY <1>1, <1>3 DEF Change, ScreenInv, flashVars
<1>4. CASE field # None
  <2>1. field \in 1..14
    BY <1>2, <1>4, FieldsKnown DEF None
  <2>2. /\ temp' = [temp EXCEPT ![field] = Wrap16(@ + by)]
        /\ stage' = stage /\ screen' \in Overrun(lines, show_line)
    BY <1>4 DEF Change
  <2>3. temp' \in Records
    BY <1>2, <2>1, <2>2, ChangedStaysRecord
  <2>4. Halves = 1..14
    BY MenuAssumption DEF MenuAssumption, Halves
  <2>5. /\ temp'[field] \in Int16
        /\ \A f \in 1..14 : f # field => temp'[f] = temp[f]
    <3> HIDE DEF field
    <3> QED
      BY <1>2, <2>1, <2>2, <2>3, <2>4 DEF Records
  <2>6. \A k \in Lines : AddChanges[show_page][k] = field => k = show_line
    BY <1>2, <1>4, SwitchesAgree
  <2>7. \A k \in Lines : screen[k].field \in {None, AddChanges[show_page][k]}
    BY DEF ScreenInv
  <2>8. screen \in Screens
    BY DEF ScreenInv
  <2> HIDE DEF field
  <2>9. /\ line \in [star : Stars, field : 0..14, value : Int16]
        /\ line.star = "*" /\ line.field = field /\ line.value = temp'[field]
    BY <2>1, <2>5 DEF Stars
  <2> HIDE DEF line
  <2>10. /\ lines \in Screens
         /\ lines[show_line] = line
         /\ \A k \in Lines : k # show_line => lines[k] = screen[k]
    BY <1>2, <2>8, <2>9 DEF Screens
  <2> HIDE DEF lines
  <2>11. /\ screen' \in Screens
         /\ \A k \in Lines : /\ screen'[k].field = lines[k].field
                             /\ screen'[k].value = lines[k].value
                             /\ \/ screen'[k].star = lines[k].star
                                \/ k # show_line /\ screen'[k].star = "?"
    BY <1>2, <2>2, <2>10, OverrunHits
  <2>12. \A k \in Lines : screen'[k].field \in {None, AddChanges[show_page][k]}
    BY <2>7, <2>9, <2>10, <2>11 DEF field
  <2>13. ASSUME heading # 0, NEW k \in Lines
         PROVE  /\ screen'[k].field = AddChanges[show_page][k]
                /\ screen'[k].star = "*" <=> k = show_line
    <3>1. /\ screen[k].field = AddChanges[show_page][k]
          /\ screen[k].star = "*" <=> k = show_line
      BY <2>13 DEF ScreenInv
    <3>2. CASE k = show_line
      BY <2>9, <2>10, <2>11, <3>2 DEF field
    <3>3. CASE k # show_line
      BY <2>10, <2>11, <3>1, <3>3
    <3> QED
      BY <3>2, <3>3
  <2>14. ASSUME NEW k \in Lines, screen'[k].field # None
         PROVE  screen'[k].value = temp'[screen'[k].field]
    <3>1. CASE k = show_line
      BY <2>9, <2>10, <2>11, <3>1
    <3>2. CASE k # show_line
      <4>1. screen[k].field # field /\ screen[k].field # None
        BY <2>6, <2>7, <2>10, <2>11, <2>14, <3>2
      <4>2. screen[k].field \in 1..14
        BY <2>8, <4>1 DEF Screens, None
      <4>3. screen[k].value = temp[screen[k].field]
        BY <4>1 DEF ScreenInv
      <4> QED
        BY <2>5, <2>10, <2>11, <3>2, <4>1, <4>2, <4>3
    <3> QED
      BY <3>1, <3>2
  <2>15. heading \in 0..5
    BY DEF ScreenInv
  <2> QED
    BY <1>1, <2>11, <2>12, <2>13, <2>14, <2>15 DEF ScreenInv
<1> QED
  BY <1>3, <1>4

LEMMA LogoIsScreen ==
    ASSUME show_page = 1, heading = 0, screen = Logo
    PROVE  ScreenInv
<1>1. Blank \in [star : Stars, field : 0..14, value : Int16] /\ Blank.field = None
  BY FlashAssumption DEF FlashAssumption, Blank, Stars, None
<1>2. \A l \in Lines : screen[l] = Blank
  BY DEF Logo
<1>3. screen \in Screens
  BY <1>1 DEF Logo, Screens
<1> QED
  BY <1>1, <1>2, <1>3 DEF ScreenInv

LEMMA StepKeepsScreen ==
    ASSUME EditsRecord, ScreenInv, [Next]_vars
    PROVE  ScreenInv'
<1>1. CASE Start \/ Cut
  <2>1. show_page' = 1 /\ heading' = 0 /\ screen' = Logo
    BY <1>1 DEF Start, Cut, MenuStart
  <2>2. (show_page = 1 /\ heading = 0 /\ screen = Logo)' => ScreenInv'
    BY LogoIsScreen, PTL
  <2> QED
    BY <2>1, <2>2
<1>2. CASE Poll \/ PollSettled \/ Hold \/ HoldSettled \/ Finger \/ UNCHANGED vars
  BY <1>2 DEF Poll, PollSettled, Hold, HoldSettled, Finger, vars, menuVars, viewVars,
              flashVars, ScreenInv
<1>3. CASE Leave \/ Saving
  <2>1. UNCHANGED viewVars /\ stage' # "menu"
    BY <1>3 DEF Leave, Save, Saving, menuVars, SaveStep, Erase, ProgramLow,
                ProgramHigh, Program, Refuse, Report
  <2> QED
    BY <2>1 DEF viewVars, ScreenInv
<1>4. CASE Switch
  BY <1>4, SwitchKeepsScreen
<1>5. CASE Entry
  BY <1>5, EntryKeepsScreen
<1>6. CASE Add
  BY <1>6, ChangeKeepsScreen DEF Add, InMenu
<1>7. CASE Sub
  <2>1. SubChanges[show_page][show_line] = AddChanges[show_page][show_line]
    BY SwitchesAgree DEF EditsRecord
  <2> QED
    BY <1>7, <2>1, ChangeKeepsScreen DEF Sub, InMenu
<1> QED
  BY <1>1, <1>2, <1>3, <1>4, <1>5, <1>6, <1>7 DEF Next, MainThread

LEMMA SpecKeepsMenu == Spec => [](Inv /\ EditsRecord /\ KeysInv /\ ScreenInv /\ car_parm \in Records)
<1>1. Spec => []Inv
  BY Refinement, SpecKeepsInv, PTL
<1>2. Init => EditsRecord /\ KeysInv /\ ScreenInv /\ car_parm \in Records
  <2> SUFFICES ASSUME Init PROVE EditsRecord /\ KeysInv /\ ScreenInv /\ car_parm \in Records
    OBVIOUS
  <2>1. ScreenInv
    BY LogoIsScreen DEF Init
  <2>2. EditsRecord
    BY MenuAssumption DEF Init, EditsRecord, MenuAssumption, FlashInit, Lines, Pages
  <2>3. KeysInv
    BY MenuAssumption DEF Init, MenuAssumption, KeysInv, Points, KEY_TIMEOUT
  <2>4. car_parm \in Records
    BY FlashAssumption DEF Init, FlashAssumption, Records
  <2> QED
    BY <2>1, <2>2, <2>3, <2>4
<1>3. EditsRecord /\ KeysInv /\ ScreenInv /\ car_parm \in Records /\ [Next]_vars
        => EditsRecord' /\ KeysInv' /\ ScreenInv' /\ (car_parm \in Records)'
  <2> SUFFICES ASSUME EditsRecord, KeysInv, ScreenInv, car_parm \in Records, [Next]_vars
               PROVE  EditsRecord' /\ KeysInv' /\ ScreenInv' /\ (car_parm \in Records)'
    OBVIOUS
  <2>1. EditsRecord'
    BY StepIsFlashStep, FlashStepKeepsRecords, StepKeepsPlace DEF EditsRecord
  <2>2. car_parm' \in Records
    BY StepKeepsGains DEF EditsRecord
  <2> QED
    BY <2>1, <2>2, StepKeepsKeys, StepKeepsScreen
<1> QED
  BY <1>1, <1>2, <1>3, PTL DEF Spec

(***************************************************************************)
(* Every variable of the menu keeps its type: a parameter stays within its *)
(* 16 bits and the count of held ENTRYs within its limit.                  *)
(***************************************************************************)
THEOREM MenuTypeCorrect == Spec => []TypeOK
<1>1. Inv /\ EditsRecord /\ KeysInv /\ ScreenInv /\ car_parm \in Records => TypeOK
  BY Zenon DEF Inv, EditsRecord, KeysInv, ScreenInv, Screens, TypeOK
<1> QED
  BY <1>1, SpecKeepsMenu, PTL

(***************************************************************************)
(* What is on the screen is what the keys act on, on every page and after  *)
(* any play of the keys, whatever the digits ran over.                     *)
(***************************************************************************)
THEOREM DisplayCorrect == Spec => []DisplayTruth
<1>1. EditsRecord /\ ScreenInv => DisplayTruth
  BY SwitchesAgree DEF EditsRecord, ScreenInv, DisplayTruth
<1> QED
  BY <1>1, SpecKeepsMenu, PTL
=============================================================================
