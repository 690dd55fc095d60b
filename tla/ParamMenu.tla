----------------------------- MODULE ParamMenu -----------------------------
(***************************************************************************)
(* show_menu_process: before the car drives, the four keys page through    *)
(* the parameters on the OLED and change them; holding ENTRY leaves the    *)
(* menu, which computes the gains, saves the record and lets the car go.   *)
(* The keys move at any time, between any two samples; the delays of the   *)
(* code are where they get the time to.                                    *)
(***************************************************************************)
EXTENDS ParamFlash, Sequences

CONSTANTS
    Factory,    \* the records the flash may hold when the car is first started
    Chords,     \* the sets of keys that may be down together
    MaxEdits,   \* bound: edits over all the starts
    MaxCuts     \* bound: power cuts

Keys == {"ENTRY", "SWITCH", "ADD", "SUB"}
KEY_NULL == "none"
KEY_FUNC_OUT == "func_out"
KEY_TIMEOUT == 5
Lines == 1..3
Pages == 1..5

\* A parameter has 16 bits.
Top == 32767
Span == 65536

ASSUME MenuAssumption ==
    /\ Words = 7 /\ Int16 = (Top - Span + 1)..Top
    /\ Factory \subseteq Records
    /\ Chords \subseteq SUBSET Keys /\ {} \in Chords
    /\ MaxEdits \in Nat /\ MaxCuts \in Nat

\* The fields of struct balance_car_parm, in the order they lie in memory.
Field == [blc_Kp |-> 1, blc_Ki |-> 2, blc_Kd |-> 3,
          speed_Kp |-> 4, speed_Ki |-> 5, speed_Kd |-> 6,
          turn_Kp |-> 7, turn_Ki |-> 8, turn_Kd |-> 9,
          speed |-> 10, g_speed |-> 11, t_speed |-> 12,
          blc_angle |-> 13, rev |-> 14]

VARIABLES
    keys,         \* the keys that are down
    pc,           \* where the menu loop is
    key_value,
    key_timeout,
    show_line,
    show_page,    \* the page ENTRY shows next: 1 for MENU_PAGE_1
    heading,      \* the heading on the screen, by the page that drew it; 0: logo
    screen,       \* the three lines of the screen
    car_parm,     \* the parameters the control thread uses
    edits,        \* ADD and SUB so far, for the bound
    cuts          \* power cuts so far, for the bound

loopVars == <<key_value, key_timeout>>
viewVars == <<show_line, show_page, heading, screen>>
menuVars == <<pc, loopVars, viewVars>>
vars == <<flashVars, keys, menuVars, car_parm, edits, cuts>>

None == 0      \* no field
Blank == [star |-> " ", field |-> None, value |-> 0]
Logo == [l \in Lines |-> Blank]
Stars == {" ", "*", "?"}
Points == {"poll", "poll_settle", "hold", "hold_settle", "act"}

TypeOK ==
    /\ FlashTypeOK
    /\ keys \in Chords
    /\ pc \in Points
    /\ key_value \in Keys \cup {KEY_NULL, KEY_FUNC_OUT}
    /\ key_timeout \in 0..(KEY_TIMEOUT + 1)
    /\ show_line \in Lines /\ show_page \in Pages /\ heading \in 0..5
    /\ screen \in [Lines -> [star : Stars, field : 0..14, value : Int16]]
    /\ car_parm \in Records
    /\ edits \in 0..MaxEdits /\ cuts \in 0..MaxCuts

-----------------------------------------------------------------------------

\* Mistaken variant of Wrap16: no wrap.
Wrap16_None(n) == n

\* What 16 bits hold of a number just beyond them.
Wrap16(n) == IF n > Top THEN n - Span ELSE IF n <= Top - Span THEN n + Span ELSE n

\* Integer division as in C, towards zero.
Quotient(n, d) == IF n < 0 THEN -((-n) \div d) ELSE n \div d

\* What the record in memory becomes for the control thread; rev is not copied.
Gains(record) ==
    [record EXCEPT ![Field.blc_Kd] = Quotient(@, 10),
                   ![Field.speed_Ki] = Quotient(@, 200),
                   ![Field.turn_Kp] = Quotient(@, 10),
                   ![Field.rev] = 0]

\* rt_read_key, after its delay: the one key that is down, if it is one.
ReadKey == IF \E k \in Keys : keys = {k} THEN CHOOSE k \in Keys : keys = {k}
                                         ELSE KEY_NULL

\* The fields ENTRY draws for each page it shows.
PageDraws == <<
    <<Field.blc_Kp, Field.blc_Ki, Field.blc_Kd>>,
    <<Field.speed_Kp, Field.speed_Ki, Field.speed_Kd>>,
    <<Field.speed, Field.g_speed, Field.t_speed>>,
    <<Field.turn_Kp, Field.turn_Ki, Field.turn_Kd>>,
    <<Field.blc_angle, None, None>> >>

\* The field ADD changes, by show_page and show_line.
AddChanges == <<
    <<Field.blc_angle, None, None>>,
    <<Field.blc_Kp, Field.blc_Ki, Field.blc_Kd>>,
    <<Field.speed_Kp, Field.speed_Ki, Field.speed_Kd>>,
    <<Field.speed, Field.g_speed, Field.t_speed>>,
    <<Field.turn_Kp, Field.turn_Ki, Field.turn_Kd>> >>

\* Mistaken variant of SubChanges: a line copied and not edited.
SubChanges_Copied == [AddChanges EXCEPT ![3][2] = Field.speed_Kp]

\* The field SUB changes.
SubChanges == <<
    <<Field.blc_angle, None, None>>,
    <<Field.blc_Kp, Field.blc_Ki, Field.blc_Kd>>,
    <<Field.speed_Kp, Field.speed_Ki, Field.speed_Kd>>,
    <<Field.speed, Field.g_speed, Field.t_speed>>,
    <<Field.turn_Kp, Field.turn_Ki, Field.turn_Kd>> >>

(***************************************************************************)
(* rt_oled_show_digit draws six characters that no zero ends, and whatever *)
(* lies behind them in memory: on the next line, from the left, where the  *)
(* star is.  Three characters of it at most are modelled, as "?".          *)
(***************************************************************************)
Overrun(lines, l) ==
    {lines} \cup (IF l + 1 \in Lines THEN {[lines EXCEPT ![l + 1].star = "?"]} ELSE {})

\* ENTRY draws each value before its line, which covers what ran over it.
Page(fields) ==
    [l \in Lines |->
        IF fields[l] = None THEN Blank
        ELSE [star |-> IF l = 1 THEN "*" ELSE " ",
              field |-> fields[l], value |-> temp[fields[l]]]]

Drawn(fields) == IF fields[2] = None THEN Overrun(Page(fields), 1) ELSE {Page(fields)}

-----------------------------------------------------------------------------

InMenu(here, next) == stage = "menu" /\ pc = here /\ pc' = next

(***************************************************************************)
(* rt_read_key in the waiting loop: a key seen down is read again after    *)
(* the delay.                                                              *)
(***************************************************************************)
Poll ==
    /\ InMenu("poll", "poll_settle")
    /\ keys # {}
    /\ UNCHANGED <<flashVars, keys, loopVars, viewVars, car_parm, edits, cuts>>

PollSettled ==
    /\ key_value' = ReadKey
    /\ \/ ReadKey = KEY_NULL /\ InMenu("poll_settle", "poll")
       \/ ReadKey # KEY_NULL /\ InMenu("poll_settle", "hold")
    /\ UNCHANGED <<flashVars, keys, key_timeout, viewVars, car_parm, edits, cuts>>

(***************************************************************************)
(* The loop that runs while ENTRY is read, which counts only if ENTRY is   *)
(* also what ended the waiting.                                            *)
(***************************************************************************)
Hold ==
    /\ \/ keys = {} /\ InMenu("hold", "act")
       \/ keys # {} /\ InMenu("hold", "hold_settle")
    /\ UNCHANGED <<flashVars, keys, loopVars, viewVars, car_parm, edits, cuts>>

\* Mistaken variant of HoldSettled: the time is not counted.
HoldSettled_NoCount ==
    /\ \/ /\ ReadKey # "ENTRY"
          /\ InMenu("hold_settle", "act")
       \/ /\ ReadKey = "ENTRY"
          /\ InMenu("hold_settle", "hold")
    /\ UNCHANGED <<flashVars, keys, loopVars, viewVars, car_parm, edits, cuts>>

HoldSettled ==
    /\ \/ /\ ReadKey # "ENTRY"
          /\ InMenu("hold_settle", "act")
          /\ UNCHANGED loopVars
       \/ /\ ReadKey = "ENTRY" /\ key_value # "ENTRY"
          /\ InMenu("hold_settle", "hold")
          /\ UNCHANGED loopVars
       \/ /\ ReadKey = "ENTRY" /\ key_value = "ENTRY"
          /\ key_timeout' = key_timeout + 1
          /\ IF key_timeout' > KEY_TIMEOUT
               THEN InMenu("hold_settle", "act") /\ key_value' = KEY_FUNC_OUT
               ELSE InMenu("hold_settle", "hold") /\ UNCHANGED key_value
    /\ UNCHANGED <<flashVars, keys, viewVars, car_parm, edits, cuts>>

Again == key_value' = KEY_NULL /\ key_timeout' = 0

\* The star moves to the next line.
Switch ==
    /\ InMenu("act", "poll") /\ key_value = "SWITCH"
    /\ show_line' = IF show_line = 3 THEN 1 ELSE show_line + 1
    /\ screen' = [l \in Lines |->
                    [screen[l] EXCEPT !.star = IF l = show_line' THEN "*" ELSE " "]]
    /\ Again
    /\ UNCHANGED <<flashVars, keys, show_page, heading, car_parm, edits, cuts>>

\* The next page is shown.
Entry ==
    /\ InMenu("act", "poll") /\ key_value = "ENTRY"
    /\ heading' = show_page
    /\ screen' \in Drawn(PageDraws[show_page])
    /\ show_page' = IF show_page = 5 THEN 1 ELSE show_page + 1
    /\ show_line' = 1
    /\ Again
    /\ UNCHANGED <<flashVars, keys, car_parm, edits, cuts>>

\* A field is changed and its line drawn again, or there is none to change.
Change(field, by) ==
    /\ IF field = None
         THEN UNCHANGED <<flashVars, screen, edits>>
         ELSE /\ edits < MaxEdits /\ edits' = edits + 1
              /\ temp' = [temp EXCEPT ![field] = Wrap16(@ + by)]
              /\ UNCHANGED <<stage, flash, at, half, old, saved>>
              /\ screen' \in Overrun([screen EXCEPT ![show_line] =
                   [star |-> "*", field |-> field, value |-> temp'[field]]], show_line)
    /\ Again
    /\ UNCHANGED <<keys, show_line, show_page, heading, car_parm, cuts>>

Add ==
    /\ InMenu("act", "poll") /\ key_value = "ADD"
    /\ Change(AddChanges[show_page][show_line], 1)

Sub ==
    /\ InMenu("act", "poll") /\ key_value = "SUB"
    /\ Change(SubChanges[show_page][show_line], -1)

\* Mistaken variant of Leave: the gains are computed in the record itself.
Leave_InPlace ==
    /\ InMenu("act", "act") /\ key_value = KEY_FUNC_OUT
    /\ stage' = "erase" /\ saved' = NotSaved
    /\ temp' = Gains(temp) /\ car_parm' = temp'
    /\ UNCHANGED <<flash, at, half, old, keys, loopVars, viewVars, edits, cuts>>

\* The loop ends: the gains are computed and the record is saved.
Leave ==
    /\ InMenu("act", "act") /\ key_value = KEY_FUNC_OUT
    /\ Save
    /\ car_parm' = Gains(temp)
    /\ UNCHANGED <<keys, loopVars, viewVars, edits, cuts>>

Saving == SaveStep /\ UNCHANGED <<keys, menuVars, car_parm, edits, cuts>>

\* What show_menu_process starts with; the logo is on the screen.
MenuStart ==
    /\ pc' = "poll"
    /\ key_value' = KEY_NULL /\ key_timeout' = 0
    /\ show_line' = 1 /\ show_page' = 1
    /\ heading' = 0 /\ screen' = Logo
    /\ car_parm' = [i \in Halves |-> 0]

\* show_menu_process starts: the record is read.
Start ==
    /\ ReadParams
    /\ MenuStart
    /\ UNCHANGED <<keys, edits, cuts>>

\* The power is cut and comes back.
Cut ==
    /\ cuts < MaxCuts /\ cuts' = cuts + 1
    /\ PowerCut
    /\ MenuStart
    /\ UNCHANGED <<keys, edits>>

\* Somebody presses or releases keys, which nobody looks at while a save runs.
Finger ==
    /\ stage \in {"menu", "running"}
    /\ keys' \in Chords \ {keys}
    /\ UNCHANGED <<flashVars, menuVars, car_parm, edits, cuts>>

MainThread ==
    \/ Start
    \/ Poll \/ PollSettled \/ Hold \/ HoldSettled
    \/ Switch \/ Entry \/ Add \/ Sub
    \/ Leave \/ Saving

Init ==
    /\ flash \in Factory /\ FlashInit
    /\ keys \in Chords
    /\ pc = "poll" /\ key_value = KEY_NULL /\ key_timeout = 0
    /\ show_line = 1 /\ show_page = 1 /\ heading = 0 /\ screen = Logo
    /\ car_parm = [i \in Halves |-> 0]
    /\ edits = 0 /\ cuts = 0

Next == MainThread \/ Finger \/ Cut

\* Nothing else runs yet: the main thread always gets on.
Spec == Init /\ [][Next]_vars /\ WF_vars(MainThread)

-----------------------------------------------------------------------------

(***************************************************************************)
(* What is on the screen is what the keys act on: every value shown is the *)
(* parameter's, and once a page is shown, the star and only the star is on *)
(* the line whose parameter both ADD and SUB would change, although three  *)
(* switches over the page have to agree on it (show_menu_process).         *)
(***************************************************************************)
DisplayTruth ==
    stage = "menu" =>
      /\ \A l \in Lines : screen[l].field # None =>
            screen[l].value = temp[screen[l].field]
      /\ heading # 0 =>
            /\ \A l \in Lines : screen[l].star = "*" <=> l = show_line
            /\ screen[show_line].field = AddChanges[show_page][show_line]
            /\ screen[show_line].field = SubChanges[show_page][show_line]

(***************************************************************************)
(* When the car drives on a save nobody complained of, the gains it uses   *)
(* are those a restart left at once would compute from the flash           *)
(* (show_menu_process, rt_write_param_to_flash).                           *)
(***************************************************************************)
DrivesAsSaved ==
    stage = "running" /\ saved # NotSaved => car_parm = Gains(flash)

(***************************************************************************)
(* Holding ENTRY, from a moment the menu waits for a key, lets the car go, *)
(* unless the power is cut (show_menu_process).  From another moment it    *)
(* need not: while the loop after another key is read, ENTRY only keeps    *)
(* the loop going.                                                         *)
(***************************************************************************)
Waiting == stage = "menu" /\ pc = "poll"
HoldingEntryLeaves ==
    [](Waiting /\ [](keys = {"ENTRY"}) => <>(stage \in {"running", "boot"}))
=============================================================================
