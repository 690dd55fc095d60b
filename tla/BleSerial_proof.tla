-------------------------- MODULE BleSerial_proof --------------------------
(***************************************************************************)
(* The serial port, for any bytes, any length of a byte and of a frame.  A *)
(* time-out of HAL_UART_Transmit takes a thread that robs ble of the       *)
(* processor in one of two places; no byte is written over another even    *)
(* then; and without one no byte is lost while the car drives.             *)
(***************************************************************************)
EXTENDS BleSerial, TLAPS

(***************************************************************************)
(* The inductive invariant.  Until the first tick of a call ble has the    *)
(* processor.  A tick that came before the byte was written either left it *)
(* the processor until the next, or took it.  Hence once the time is over, *)
(* and the byte may not be out, ble has been robbed.                       *)
(***************************************************************************)
AtOnce == ble # "begin" /\ elapsed = 0 => Running = "ble"
Accounted == /\ ble = "begin" => elapsed = 0
             /\ elapsed > 0 /\ (ble \in Unwritten \/ ~late) => due \/ delayed
OverIsRobbed ==
    elapsed > Timeout /\ (ble \in Unwritten \cup Clocks \/ ~TC) => robbed

\* Between two calls a byte waits for the shifter only after a time-out.
WaitsWhenDeaf == ble \in {"begin", "TXE"} /\ ~TXE => ~RXNEIE
NothingYet == stage = "reset" => awake = {} /\ ble = "begin" /\ TXE

Inv == /\ elapsed \in Nat /\ ble \in {"begin"} \cup Unwritten \cup Written
       /\ AtOnce /\ Accounted /\ OverIsRobbed
       /\ WaitsWhenDeaf /\ NothingYet
       /\ DeafOnlyIfRobbed /\ FramesWhole

USE DEF Timeout, Unwritten, Written, Clocks

\* A thread runs only after the start of the car has begun.
LEMMA ThreadsComeLater ==
    ASSUME Inv, Running # "main"
    PROVE  stage # "reset"
BY DEF Inv, NothingYet, Running

\* The steps that leave the send of a byte alone, and ble the processor.
LEMMA OtherStepKeepsInv ==
    ASSUME Inv, UNCHANGED <<sendVars, robbed>>,
           Running = "ble" => Running' = "ble",
           \/ UNCHANGED <<stage, awake, RXNEIE>>
           \/ stage = "reset" /\ stage' # "reset" /\ RXNEIE' = TRUE
           \/ stage # "reset" /\ stage' # "reset" /\ UNCHANGED RXNEIE
    PROVE  Inv'
<1>1. AtOnce' /\ Accounted' /\ OverIsRobbed'
  BY DEF Inv, sendVars, AtOnce, Accounted, OverIsRobbed, TC
<1>2. WaitsWhenDeaf' /\ NothingYet' /\ DeafOnlyIfRobbed' /\ FramesWhole'
  BY DEF Inv, sendVars, WaitsWhenDeaf, NothingYet, DeafOnlyIfRobbed, FramesWhole
<1> QED
  BY <1>1, <1>2 DEF Inv, sendVars

LEMMA LineKeepsInv ==
    ASSUME Inv, Load \/ ByteOut
    PROVE  Inv'
<1>1. /\ UNCHANGED <<stage, RXNEIE, ble, elapsed, late, due, delayed, awake, head, robbed>>
      /\ TC => TC'
      /\ TXE => TXE'
  BY DEF Load, ByteOut, lineVars, schedVars, historyVars, TC
<1>2. AtOnce' /\ Accounted' /\ OverIsRobbed'
  BY <1>1 DEF Inv, AtOnce, Accounted, OverIsRobbed, Running
<1>3. WaitsWhenDeaf' /\ NothingYet' /\ DeafOnlyIfRobbed' /\ FramesWhole'
  BY <1>1 DEF Inv, WaitsWhenDeaf, NothingYet, DeafOnlyIfRobbed, FramesWhole
<1> QED
  BY <1>1, <1>2, <1>3 DEF Inv

\* Going on in the call, up to writing.
LEMMA GoesKeepsInv ==
    ASSUME Inv, BleStep, UNCHANGED RXNEIE,
           NEW next, Goes(next),
           \/ ble = "begin" /\ next = "TXE"
           \/ ble = "TXE" /\ next = (IF TXE THEN "write" ELSE "TXE_clock")
           \/ ble = "TC" /\ ~TC /\ next = "TC_clock"
           \/ ble \in Clocks /\ ~(elapsed > Timeout)
              /\ next = (IF ble = "TC_clock" THEN "TC" ELSE "TXE")
    PROVE  Inv'
<1>1. /\ Running = "ble" /\ Running' = "ble" /\ stage # "reset"
      /\ UNCHANGED <<stage, TXE, shifting, elapsed, late, due, delayed, robbed>>
      /\ ble' = next
  BY ThreadsComeLater DEF BleStep, Runs, Goes, schedVars, historyVars, Running
<1>2. AtOnce' /\ Accounted'
  BY <1>1 DEF Inv, AtOnce, Accounted
<1>3. OverIsRobbed'
  BY <1>1 DEF Inv, Accounted, OverIsRobbed, TC
<1>4. WaitsWhenDeaf' /\ FramesWhole'
  BY <1>1 DEF Inv, WaitsWhenDeaf, FramesWhole
<1> QED
  BY <1>1, <1>2, <1>3, <1>4 DEF Inv, NothingYet, DeafOnlyIfRobbed

LEMMA WriteKeepsInv ==
    ASSUME Inv, Write
    PROVE  Inv'
<1>1. /\ Running = "ble" /\ Running' = "ble" /\ stage # "reset"
      /\ ble = "write" /\ ble' = "TC"
      /\ UNCHANGED <<stage, RXNEIE, elapsed, due, delayed, robbed>>
  BY ThreadsComeLater DEF Write, BleStep, Runs, schedVars, historyVars, Running
<1> QED
  BY <1>1 DEF Inv, AtOnce, Accounted, OverIsRobbed, WaitsWhenDeaf, NothingYet,
              DeafOnlyIfRobbed, FramesWhole

\* The call returns with the byte out, or with the interrupt disabled.
LEMMA ReturnKeepsInv ==
    ASSUME Inv, BleStep, Return,
           (TC /\ UNCHANGED RXNEIE) \/ (robbed /\ RXNEIE' = FALSE)
    PROVE  Inv'
<1>1. /\ stage # "reset"
      /\ ble' = "begin" /\ elapsed' = 0
      /\ UNCHANGED <<stage, TXE, shifting, robbed>>
  BY ThreadsComeLater DEF BleStep, Runs, Return, historyVars
<1> QED
  BY <1>1 DEF Inv, AtOnce, Accounted, OverIsRobbed, WaitsWhenDeaf, NothingYet,
              DeafOnlyIfRobbed, FramesWhole, TC

LEMMA BleKeepsInv ==
    ASSUME Inv, BleThread
    PROVE  Inv'
<1>1. CASE Begin
  BY <1>1, GoesKeepsInv DEF Begin
<1>2. CASE ReadTXE
  BY <1>2, GoesKeepsInv DEF ReadTXE
<1>3. CASE ReadTC
  BY <1>3, GoesKeepsInv, ReturnKeepsInv DEF ReadTC
<1>4. CASE ReadClock
  <2>1. CASE elapsed > Timeout
    <3>1. robbed
      BY <1>4, <2>1 DEF ReadClock, Inv, OverIsRobbed
    <3> QED
      BY <1>4, <2>1, <3>1, ReturnKeepsInv DEF ReadClock
  <2>2. CASE ~(elapsed > Timeout)
    BY <1>4, <2>2, GoesKeepsInv DEF ReadClock
  <2> QED
    BY <2>1, <2>2
<1> QED
  BY <1>1, <1>2, <1>3, <1>4, WriteKeepsInv DEF BleThread

LEMMA TickKeepsInv ==
    ASSUME Inv, NEW w \in BOOLEAN, Tick(w)
    PROVE  Inv'
<1>1. /\ UNCHANGED <<stage, RXNEIE, TXE, shifting, ble>>
      /\ stage # "reset"
      /\ late => TC
      /\ ~due
      /\ ble \in Clocks /\ late => away
      /\ late'
      /\ robbed => robbed'
  BY DEF Tick, lineVars
<1>2. elapsed' = IF ble = "begin" \/ elapsed > Timeout THEN elapsed ELSE elapsed + 1
  BY DEF Tick
<1>3. due' = (ble # "begin" /\ Running' = "ble")
  BY DEF Tick
<1>4. /\ delayed' = (delayed \/ (Running = "ble" /\ Running' # "ble" /\ ble \in Unwritten))
      /\ away => away'
      /\ elapsed' > Timeout /\ (delayed' \/ away') => robbed'
  BY DEF Tick
<1>5. AtOnce'
  BY <1>1, <1>2 DEF Inv, AtOnce, Accounted
<1>6. Accounted'
  \* Before the first tick ble had the processor.
  <2>1. CASE ble \in Unwritten /\ elapsed = 0
    BY <1>1, <1>2, <1>3, <1>4, <2>1 DEF Inv, AtOnce, Accounted
  <2>2. CASE ble \in Unwritten /\ elapsed > 0
    BY <1>1, <1>2, <1>4, <2>2 DEF Inv, Accounted
  <2> QED
    BY <1>1, <1>2, <2>1, <2>2 DEF Inv, Accounted
<1>7. OverIsRobbed'
  <2>1. CASE elapsed > Timeout
    BY <1>1, <1>2, <2>1 DEF Inv, OverIsRobbed, TC
  <2>2. CASE ~(elapsed > Timeout) /\ elapsed' > Timeout
    <3>1. elapsed > 0 /\ ble # "begin"
      BY <1>2, <2>2 DEF Inv
    <3>2. CASE ble \in Unwritten \/ ~late
      BY <1>1, <1>4, <2>2, <3>1, <3>2 DEF Inv, Accounted, OverIsRobbed
    <3>3. CASE ble \in Written /\ late
      BY <1>1, <1>4, <2>2, <3>3 DEF OverIsRobbed, TC
    <3> QED
      BY <3>1, <3>2, <3>3 DEF Inv, OverIsRobbed
  <2> QED
    BY <1>2, <2>1, <2>2 DEF Inv, OverIsRobbed
<1>8. elapsed' \in Nat
  BY <1>2 DEF Inv
<1> QED
  BY <1>1, <1>5, <1>6, <1>7, <1>8
     DEF Inv, WaitsWhenDeaf, NothingYet, DeafOnlyIfRobbed, FramesWhole

LEMMA NextKeepsInv == Inv /\ [Next]_vars => Inv'
<1> SUFFICES ASSUME Inv, [Next]_vars PROVE Inv'
  OBVIOUS
<1>1. ASSUME NEW b \in Bytes, ByteIn(b) PROVE Inv'
  BY <1>1, OtherStepKeepsInv DEF ByteIn, schedVars, Running
<1>2. CASE Interrupt
  BY <1>2, OtherStepKeepsInv
     DEF Interrupt, ReadStatus, ReadData, historyVars, schedVars, Running
<1>3. CASE EnableInterrupt
  BY <1>3, OtherStepKeepsInv DEF EnableInterrupt, historyVars, schedVars, Running
<1>4. CASE FlashBusy \/ FlashDone
  BY <1>4, OtherStepKeepsInv DEF FlashBusy, FlashDone, historyVars, schedVars, Running
<1>5. CASE StartCtrl \/ MainStarts
  <2>1. /\ UNCHANGED <<sendVars, robbed, RXNEIE>>
        /\ Running = "main" /\ stage # "reset" /\ stage' # "reset"
    BY <1>5 DEF StartCtrl, MainStarts, StartBle, RegisterCallback, StartShow, Starts,
                historyVars, Runs
  <2> QED
    BY <2>1, OtherStepKeepsInv
<1>6. CASE CtrlCycle \/ ShowRound
  <2>1. /\ UNCHANGED <<sendVars, robbed, RXNEIE, stage>>
        /\ Running \notin {"ble", "main"}
    BY <1>6 DEF CtrlCycle, ShowRound, historyVars, Runs
  <2> QED
    BY <2>1, OtherStepKeepsInv, ThreadsComeLater
<1>7. CASE UNCHANGED vars
  BY <1>7, OtherStepKeepsInv DEF vars, lineVars, historyVars, schedVars, Running
<1> QED
  BY <1>1, <1>2, <1>3, <1>4, <1>5, <1>6, <1>7, LineKeepsInv, BleKeepsInv,
     TickKeepsInv DEF Next, Step

LEMMA SpecKeepsInv == Spec => []Inv
<1>1. Init => Inv
  BY DEF Init, Inv, AtOnce, Accounted, OverIsRobbed, WaitsWhenDeaf, NothingYet,
         DeafOnlyIfRobbed, FramesWhole
<1> QED
  BY <1>1, NextKeepsInv, PTL DEF Spec

(***************************************************************************)
(* However the threads interleave, the receive interrupt is only disabled  *)
(* after a call lasted two ticks for ble's losing the processor before it  *)
(* wrote the byte, or between reading a flag and the clock.                *)
(***************************************************************************)
THEOREM DeafCorrect == Spec => []DeafOnlyIfRobbed
<1>1. Inv => DeafOnlyIfRobbed
  BY DEF Inv
<1> QED
  BY <1>1, SpecKeepsInv, PTL

(***************************************************************************)
(* No byte is written over another, time-outs included, and a call has to  *)
(* wait for room only when an earlier one has disabled the interrupt.      *)
(***************************************************************************)
THEOREM FramesWholeCorrect == Spec => []FramesWhole
<1>1. Inv => FramesWhole
  BY DEF Inv
<1> QED
  BY <1>1, SpecKeepsInv, PTL

-----------------------------------------------------------------------------
(***************************************************************************)
(* The receiving side.  A byte that comes in on the driving car finds the  *)
(* data register read, for the handler, which takes two steps, has the     *)
(* processor to itself until then and a byte takes longer than that.  So   *)
(* the last byte is in the data register or has been handed over.          *)
(***************************************************************************)
Receiving ==
    RXNEIE /\ stage = "driving" =>
      /\ RXNE => /\ DR = latest
                 /\ isr = "out" => quiet = 0
                 /\ isr = "data" => quiet <= 1
      /\ ~RXNE => latest \in {NoByte, heard} /\ isr = "out"

ReceiveInv ==
    /\ quiet \in 0..ByteTime
    /\ isr \in {"out", "data"}
    /\ isr = "data" => RXNE
    /\ stalled => stage = "menu"
    /\ stage # "driving" => latest = NoByte
    /\ Receiving

\* The steps that neither receive, nor handle, nor move the main thread on.
\* All but the tick take the processor, so they find nothing pending.
LEMMA OtherStepKeepsReceiveInv ==
    ASSUME ReceiveInv, quiet' \in 0..ByteTime, RXNEIE' => RXNEIE,
           UNCHANGED <<stage, DR, RXNE, ORE, stalled, isrVars, latest>>,
           ~Pending \/ quiet' = quiet
    PROVE  ReceiveInv'
BY DEF ReceiveInv, Receiving, Pending, isrVars

LEMMA CountedStays ==
    ASSUME quiet \in 0..ByteTime, Counted
    PROVE  quiet' \in 0..ByteTime /\ (quiet = 0 => quiet' = 1)
BY SerialAssumption DEF SerialAssumption, Counted

LEMMA ByteInKeepsReceiveInv ==
    ASSUME ReceiveInv, NEW b \in Bytes, ByteIn(b)
    PROVE  ReceiveInv'
<1>1. stage = "driving" => ~stalled /\ quiet = ByteTime
  BY DEF ReceiveInv, ByteIn
<1>2. RXNEIE /\ stage = "driving" => ~RXNE
  BY <1>1, SerialAssumption DEF SerialAssumption, ReceiveInv, Receiving
<1>3. CASE RXNE
  BY <1>2, <1>3, SerialAssumption
     DEF SerialAssumption, ReceiveInv, Receiving, ByteIn, isrVars
<1>4. CASE ~RXNE
  BY <1>4, SerialAssumption
     DEF SerialAssumption, ReceiveInv, Receiving, ByteIn, isrVars
<1> QED
  BY <1>3, <1>4

LEMMA HandlerKeepsReceiveInv ==
    ASSUME ReceiveInv, Interrupt
    PROVE  ReceiveInv'
<1>1. quiet \in 0..ByteTime /\ Counted
  BY DEF ReceiveInv, Interrupt, ReadStatus, ReadData
<1>2. quiet' \in 0..ByteTime /\ (quiet = 0 => quiet' = 1)
  BY <1>1, CountedStays
<1>3. CASE ReadStatus
  BY <1>2, <1>3 DEF ReceiveInv, Receiving, ReadStatus, historyVars
<1>4. CASE ReadData
  BY <1>2, <1>4 DEF ReceiveInv, Receiving, ReadData, historyVars
<1> QED
  BY <1>3, <1>4 DEF Interrupt

LEMMA MainKeepsReceiveInv ==
    ASSUME ReceiveInv,
           EnableInterrupt \/ FlashBusy \/ FlashDone \/ StartCtrl \/ MainStarts
    PROVE  ReceiveInv'
<1> USE DEF ReceiveInv, Receiving, Runs, Pending, isrVars, historyVars
<1>1. CASE EnableInterrupt
  BY <1>1, CountedStays DEF EnableInterrupt
<1>2. CASE FlashBusy
  BY <1>2 DEF FlashBusy
<1>3. CASE FlashDone
  BY <1>3 DEF FlashDone
<1>4. CASE StartCtrl
  BY <1>4, CountedStays DEF StartCtrl, Starts
<1>5. CASE MainStarts
  BY <1>5, CountedStays DEF MainStarts, StartBle, RegisterCallback, StartShow, Starts
<1> QED
  BY <1>1, <1>2, <1>3, <1>4, <1>5

LEMMA NextKeepsReceiveInv == ReceiveInv /\ [Next]_vars => ReceiveInv'
<1> SUFFICES ASSUME ReceiveInv, [Next]_vars PROVE ReceiveInv'
  OBVIOUS
<1>1. quiet \in 0..ByteTime
  BY DEF ReceiveInv
<1>2. CASE Load \/ ByteOut
  BY <1>1, <1>2, OtherStepKeepsReceiveInv DEF Load, ByteOut, lineVars, historyVars
<1>3. CASE CtrlCycle \/ ShowRound
  BY <1>1, <1>3, CountedStays, OtherStepKeepsReceiveInv
     DEF CtrlCycle, ShowRound, Runs, historyVars
<1>4. CASE BleThread
  <2>1. RXNEIE' => RXNEIE
    BY <1>4 DEF BleThread, Begin, ReadTXE, Write, ReadTC, ReadClock
  <2> QED
    BY <1>1, <1>4, <2>1, CountedStays, OtherStepKeepsReceiveInv
       DEF BleThread, Begin, ReadTXE, Write, ReadTC, ReadClock, BleStep, Runs, historyVars
<1>5. ASSUME NEW w \in BOOLEAN, Tick(w) PROVE ReceiveInv'
  BY <1>1, <1>5, OtherStepKeepsReceiveInv DEF Tick, lineVars, historyVars
<1>6. CASE UNCHANGED vars
  BY <1>1, <1>6, OtherStepKeepsReceiveInv DEF vars, lineVars, historyVars
<1> QED
  BY <1>2, <1>3, <1>4, <1>5, <1>6, ByteInKeepsReceiveInv, HandlerKeepsReceiveInv,
     MainKeepsReceiveInv DEF Next, Step

(***************************************************************************)
(* Whenever a thread has the processor on the driving car, the last byte   *)
(* that came in has been handed over, unless a time-out has disabled the   *)
(* receive interrupt.                                                      *)
(***************************************************************************)
THEOREM UpToDateCorrect == Spec => []UpToDate
<1>1. Init => ReceiveInv
  BY SerialAssumption DEF SerialAssumption, Init, ReceiveInv, Receiving
<1>2. ReceiveInv => UpToDate
  BY DEF ReceiveInv, Receiving, UpToDate, Pending
<1> QED
  BY <1>1, <1>2, NextKeepsReceiveInv, PTL DEF Spec

-----------------------------------------------------------------------------
(***************************************************************************)
(* Types.  Thread by thread what a step does to the variables that are not *)
(* flags; then the flags, which are only ever set, cleared or left alone.  *)
(***************************************************************************)
LineFlags == /\ RXNE \in BOOLEAN /\ ORE \in BOOLEAN /\ RXNEIE \in BOOLEAN
             /\ sawORE \in BOOLEAN /\ stalled \in BOOLEAN /\ robbed \in BOOLEAN
SendFlags == /\ TXE \in BOOLEAN /\ shifting \in BOOLEAN /\ late \in BOOLEAN
             /\ due \in BOOLEAN /\ delayed \in BOOLEAN /\ away \in BOOLEAN

LineTyped == /\ DR \in Bytes \cup {NoByte} /\ heard \in Bytes \cup {NoByte}
             /\ latest \in Bytes \cup {NoByte}
             /\ isr \in {"out", "data"}
             /\ quiet \in 0..ByteTime
ThreadsTyped == /\ stage \in Stages
                /\ awake \subseteq Started
                /\ head \in Peers
SendTyped == /\ ble \in {"begin"} \cup Unwritten \cup Written
             /\ left \in 1..Frame
             /\ elapsed \in 0..2

LEMMA TypesTogether ==
    TypeOK <=> LineFlags /\ SendFlags /\ LineTyped /\ ThreadsTyped /\ SendTyped
<1>1. {RXNE, ORE, RXNEIE, sawORE, stalled, robbed} \subseteq BOOLEAN <=> LineFlags
  BY Zenon DEF LineFlags
<1>2. {TXE, shifting, late, due, delayed, away} \subseteq BOOLEAN <=> SendFlags
  BY Zenon DEF SendFlags
<1>3. Timeout + 1 = 2
  OBVIOUS
<1> HIDE DEF Timeout
<1> QED
  BY <1>1, <1>2, <1>3 DEF TypeOK, LineTyped, ThreadsTyped, SendTyped

LEMMA NextKeepsLine == LineTyped /\ [Next]_vars => LineTyped'
<1> SUFFICES ASSUME LineTyped, [Next]_vars PROVE LineTyped'
  OBVIOUS
<1>1. Counted => quiet' \in 0..ByteTime
  BY CountedStays DEF LineTyped
<1> USE DEF LineTyped, lineVars, isrVars, historyVars
<1>2. ASSUME NEW b \in Bytes, ByteIn(b) PROVE LineTyped'
  BY <1>2, SerialAssumption DEF SerialAssumption, ByteIn
<1>3. CASE Load \/ ByteOut
  BY <1>3 DEF Load, ByteOut
<1>4. CASE Interrupt
  BY <1>1, <1>4 DEF Interrupt, ReadStatus, ReadData
<1>5. CASE EnableInterrupt \/ FlashBusy \/ FlashDone
  BY <1>1, <1>5 DEF EnableInterrupt, FlashBusy, FlashDone
<1>6. CASE StartCtrl \/ MainStarts
  BY <1>1, <1>6 DEF StartCtrl, MainStarts, StartBle, RegisterCallback, StartShow,
                    Starts
<1>7. CASE CtrlCycle \/ ShowRound
  BY <1>1, <1>7 DEF CtrlCycle, ShowRound
<1>8. CASE BleThread
  BY <1>1, <1>8 DEF BleThread, Begin, ReadTXE, Write, ReadTC, ReadClock, BleStep
<1>9. ASSUME NEW w \in BOOLEAN, Tick(w) PROVE LineTyped'
  BY <1>9 DEF Tick
<1>10. CASE UNCHANGED vars
  BY <1>10 DEF vars
<1> QED
  BY <1>2, <1>3, <1>4, <1>5, <1>6, <1>7, <1>8, <1>9, <1>10 DEF Next, Step

LEMMA SleepKeepsThreads ==
    ASSUME ThreadsTyped, NEW t \in Threads, Sleep(t), UNCHANGED stage
    PROVE  ThreadsTyped'
<1>1. awake' \subseteq Started' /\ Started' = Started
  BY DEF ThreadsTyped, Sleep, Started
<1>2. head' \in Peers
  <2>1. (CHOOSE p \in Peers : p # t) \in Peers
    BY DEF Peers
  <2> QED
    BY <2>1 DEF ThreadsTyped, Sleep
<1> QED
  BY <1>1, <1>2 DEF ThreadsTyped

LEMMA StartsKeepsThreads ==
    ASSUME ThreadsTyped, StartCtrl \/ MainStarts
    PROVE  ThreadsTyped'
<1> USE DEF ThreadsTyped, Stages, Started, Threads
<1>1. ASSUME NEW t \in SUBSET Threads, t \cap Peers # {}
      PROVE  (CHOOSE p \in Peers : p \in t) \in Peers
  BY <1>1
<1>2. CASE StartCtrl
  BY <1>1, <1>2 DEF StartCtrl, Starts
<1>3. CASE StartBle
  BY <1>1, <1>3 DEF StartBle, Starts
<1>4. CASE RegisterCallback
  BY <1>1, <1>4 DEF RegisterCallback, Starts
<1>5. CASE StartShow
  BY <1>1, <1>5 DEF StartShow, Starts
<1> QED
  BY <1>2, <1>3, <1>4, <1>5 DEF MainStarts

LEMMA NextKeepsThreads == ThreadsTyped /\ [Next]_vars => ThreadsTyped'
<1> SUFFICES ASSUME ThreadsTyped, [Next]_vars PROVE ThreadsTyped'
  OBVIOUS
<1>1. ASSUME UNCHANGED <<stage, awake, head>> PROVE ThreadsTyped'
  BY <1>1 DEF ThreadsTyped, Started
<1>2. ASSUME NEW b \in Bytes, ByteIn(b) PROVE ThreadsTyped'
  BY <1>1, <1>2 DEF ByteIn, schedVars
<1>3. CASE Load \/ ByteOut
  BY <1>1, <1>3 DEF Load, ByteOut, schedVars
<1>4. CASE Interrupt
  BY <1>1, <1>4 DEF Interrupt, ReadStatus, ReadData, schedVars
<1>5. CASE EnableInterrupt \/ FlashBusy \/ FlashDone
  <2>1. CASE EnableInterrupt
    BY <2>1 DEF EnableInterrupt, schedVars, ThreadsTyped, Started, Stages
  <2>2. CASE FlashBusy \/ FlashDone
    BY <1>1, <2>2 DEF FlashBusy, FlashDone, schedVars
  <2> QED
    BY <1>5, <2>1, <2>2
<1>6. CASE CtrlCycle \/ ShowRound
  BY <1>6, SleepKeepsThreads DEF CtrlCycle, ShowRound, Threads
<1>7. CASE BleThread
  <2>1. UNCHANGED <<awake, head>> \/ Sleep("ble")
    BY <1>7 DEF BleThread, Begin, ReadTXE, Write, ReadTC, ReadClock, Goes, Return,
                schedVars
  <2>2. UNCHANGED stage
    BY <1>7 DEF BleThread, Begin, ReadTXE, Write, ReadTC, ReadClock, BleStep
  <2> QED
    BY <1>1, <2>1, <2>2, SleepKeepsThreads DEF Threads
<1>8. ASSUME NEW w \in BOOLEAN, Tick(w) PROVE ThreadsTyped'
  <2> DEFINE woken == (Started \cap Peers) \cup {t \in {"ctrl"} : w}
  <2>1. awake' = awake \cup woken /\ head' \in NewHead(woken) /\ stage' = stage
        /\ stage \notin {"reset", "menu"}
    BY <1>8 DEF Tick
  <2>2. Started' = Started /\ woken \subseteq Started
    BY <2>1 DEF Started, ThreadsTyped, Stages, Threads
  <2>3. NewHead(woken) \subseteq Peers
    BY DEF NewHead, ThreadsTyped
  <2> QED
    BY <2>1, <2>2, <2>3 DEF ThreadsTyped
<1>9. CASE UNCHANGED vars
  BY <1>1, <1>9 DEF vars, schedVars
<1> QED
  BY <1>2, <1>3, <1>4, <1>5, <1>6, <1>7, <1>8, <1>9, StartsKeepsThreads
     DEF Next, Step

LEMMA NextKeepsSend == SendTyped /\ [Next]_vars => SendTyped'
<1> SUFFICES ASSUME SendTyped, [Next]_vars PROVE SendTyped'
  OBVIOUS
<1> USE DEF SendTyped
<1>1. CASE UNCHANGED <<ble, left, elapsed>>
  BY <1>1
<1>2. CASE BleThread
  BY <1>2, SerialAssumption
     DEF SerialAssumption, BleThread, Begin, ReadTXE, Write, ReadTC, ReadClock, Goes,
     Return
<1>3. ASSUME NEW w \in BOOLEAN, Tick(w) PROVE SendTyped'
  BY <1>3 DEF Tick
<1>4. ASSUME NEW b \in Bytes, ByteIn(b) PROVE SendTyped'
  BY <1>4 DEF ByteIn, sendVars
<1>5. Load \/ ByteOut \/ Interrupt \/ EnableInterrupt \/ FlashBusy \/ FlashDone
      \/ StartCtrl \/ MainStarts \/ CtrlCycle \/ ShowRound \/ UNCHANGED vars
      => UNCHANGED <<ble, left, elapsed>>
  BY DEF Load, ByteOut, Interrupt, ReadStatus, ReadData, EnableInterrupt, FlashBusy,
         FlashDone, StartCtrl, MainStarts, StartBle, RegisterCallback, StartShow,
         Starts, CtrlCycle, ShowRound, vars, sendVars
<1> QED
  BY <1>1, <1>2, <1>3, <1>4, <1>5 DEF Next, Step

LEMMA NextKeepsLineFlags == LineFlags /\ [Next]_vars => LineFlags'
<1> SUFFICES ASSUME LineFlags, [Next]_vars PROVE LineFlags'
  OBVIOUS
<1> USE DEF LineFlags, lineVars, isrVars, historyVars
<1>1. ASSUME NEW b \in Bytes, ByteIn(b) PROVE LineFlags'
  BY <1>1, Zenon DEF ByteIn
<1>2. CASE Load \/ ByteOut
  BY <1>2, Zenon DEF Load, ByteOut
<1>3. CASE ReadStatus
  BY <1>3, Zenon DEF ReadStatus
<1>4. CASE ReadData
  BY <1>4, Zenon DEF ReadData
<1>5. CASE EnableInterrupt \/ FlashBusy \/ FlashDone
  BY <1>5, Zenon DEF EnableInterrupt, FlashBusy, FlashDone
<1>6. CASE StartCtrl \/ MainStarts
  BY <1>6, Zenon DEF StartCtrl, MainStarts, StartBle, RegisterCallback, StartShow,
                     Starts
<1>7. CASE CtrlCycle \/ ShowRound
  BY <1>7, Zenon DEF CtrlCycle, ShowRound
<1>8. CASE Begin \/ ReadTXE \/ Write \/ ReadTC
  BY <1>8, Zenon DEF Begin, ReadTXE, Write, ReadTC, BleStep
<1>9. CASE ReadClock
  BY <1>9, Zenon DEF ReadClock, BleStep
<1>10. ASSUME NEW w \in BOOLEAN, Tick(w) PROVE LineFlags'
  BY <1>10, Zenon DEF Tick
<1>11. CASE UNCHANGED vars
  BY <1>11, Zenon DEF vars
<1> HIDE DEF LineFlags
<1> QED
  BY <1>1, <1>2, <1>3, <1>4, <1>5, <1>6, <1>7, <1>8, <1>9, <1>10, <1>11
     DEF Next, Step, Interrupt, BleThread

LEMMA NextKeepsSendFlags == SendFlags /\ [Next]_vars => SendFlags'
<1> SUFFICES ASSUME SendFlags, [Next]_vars PROVE SendFlags'
  OBVIOUS
<1> USE DEF SendFlags
<1>1. CASE UNCHANGED sendVars
  BY <1>1, Zenon DEF sendVars
<1>2. CASE Load \/ ByteOut
  BY <1>2, Zenon DEF Load, ByteOut
<1>3. CASE Begin \/ ReadTXE \/ Write
  BY <1>3, Zenon DEF Begin, ReadTXE, Write, Goes, BleStep
<1>4. CASE ReadTC \/ ReadClock
  BY <1>4, Zenon DEF ReadTC, ReadClock, Return, Goes, BleStep
<1>5. ASSUME NEW w \in BOOLEAN, Tick(w) PROVE SendFlags'
  BY <1>5, Zenon DEF Tick
<1> HIDE DEF SendFlags
<1>6. ASSUME NEW b \in Bytes, ByteIn(b) PROVE SendFlags'
  BY <1>1, <1>6 DEF ByteIn
<1>7. Interrupt \/ EnableInterrupt \/ FlashBusy \/ FlashDone \/ StartCtrl
      \/ MainStarts \/ CtrlCycle \/ ShowRound \/ UNCHANGED vars
      => UNCHANGED sendVars
  BY DEF Interrupt, ReadStatus, ReadData, EnableInterrupt, FlashBusy, FlashDone,
         StartCtrl, MainStarts, StartBle, RegisterCallback, StartShow, Starts,
         CtrlCycle, ShowRound, vars
<1> QED
  BY <1>1, <1>2, <1>3, <1>4, <1>5, <1>6, <1>7 DEF Next, Step, BleThread

(***************************************************************************)
(* Every variable keeps its type: only threads that were started are ever  *)
(* ready, and a frame never has more bytes left to send than it has.       *)
(***************************************************************************)
THEOREM TypeCorrect == Spec => []TypeOK
<1> DEFINE Typed == LineFlags /\ SendFlags /\ LineTyped /\ ThreadsTyped /\ SendTyped
<1>1. Init => LineFlags /\ SendFlags
  BY Zenon DEF Init, LineFlags, SendFlags
<1>2. Init => LineTyped /\ ThreadsTyped /\ SendTyped
  BY SerialAssumption DEF SerialAssumption, Init, LineTyped, ThreadsTyped, SendTyped,
     Stages, Peers, Started
<1>3. Typed /\ [Next]_vars => Typed'
  BY NextKeepsLineFlags, NextKeepsSendFlags, NextKeepsLine, NextKeepsThreads,
     NextKeepsSend
<1> QED
  BY <1>1, <1>2, <1>3, TypesTogether, PTL DEF Spec
=============================================================================
