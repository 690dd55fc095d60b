------------------------- MODULE WheelEncoder_proof -------------------------
(***************************************************************************)
(* Every reading the control loop keeps is exact up to the one edge of a   *)
(* backward wrap, and no error of an earlier reading is carried over, for  *)
(* every timer period, plausibility limit and bound on the edges of a      *)
(* control period that EncoderAssumption allows.                           *)
(***************************************************************************)
EXTENDS WheelEncoder, TLAPS

(***************************************************************************)
(* The inductive invariant.  The wheel goes no further than the edges it   *)
(* makes; the timer is that way, wrapped at most once; and from the read   *)
(* of the timer on, the same holds of what was read.  Nothing need be said *)
(* of the wrap count: any value of it will do.                             *)
(***************************************************************************)
Period == Reload + 1
OnTimer(way) == IF way < 0 THEN way + Period ELSE way
Reach == (-MaxPulses)..MaxPulses

TimerHoldsWay == moved + edges >= 0 /\ moved <= edges /\ cnt = OnTimer(moved)
ReadHoldsWay == seen \in Reach /\ count = OnTimer(seen)

Inv == TypeOK /\ TimerHoldsWay /\ ReadHoldsWay /\ KeptReadingExact

\* A wrap count other than zero outweighs everything else in the sum.
LEMMA WrapsOutweigh ==
    ASSUME NEW f \in Int, NEW r \in Nat
    PROVE  /\ f = 0 => f * r = 0
           /\ f = -1 => f * r = -r
           /\ f >= 1 => f * r >= r
           /\ f <= -2 => f * r <= -2 * r
OBVIOUS

\* The heart of it: a plausible sum is the way made.
LEMMA PlausibleIsExact ==
    ASSUME NEW way \in Reach, NEW f \in Int,
           Plausible(Sign * (OnTimer(way) + f * Reload))
    PROVE  OnTimer(way) + f * Reload = IF way < 0 THEN way + 1 ELSE way
<1> USE EncoderAssumption DEF EncoderAssumption, Reach, OnTimer, Period
<1> DEFINE w == f * Reload
           s == OnTimer(way) + w
<1>1. w \in Int /\ s \in Int
  OBVIOUS
<1>2. s <= Limit /\ s >= -Limit
  <2>1. Sign * s <= Limit /\ Sign * s >= -Limit
    BY DEF Plausible
  <2> HIDE DEF s
  <2>2. Sign = 1 \/ Sign = -1
    OBVIOUS
  <2>3. CASE Sign = 1
    BY <1>1, <2>1, <2>3
  <2>4. CASE Sign = -1
    BY <1>1, <2>1, <2>4
  <2> QED
    BY <2>2, <2>3, <2>4
<1>3. /\ f = 0 => w = 0
      /\ f = -1 => w = -Reload
      /\ f >= 1 => w >= Reload
      /\ f <= -2 => w <= -2 * Reload
  BY WrapsOutweigh
<1>4. f = 0 \/ f = -1 \/ f >= 1 \/ f <= -2
  OBVIOUS
<1> HIDE DEF w
<1>5. CASE way < 0
  <2>1. f = -1
    BY <1>1, <1>2, <1>3, <1>4, <1>5
  <2> QED
    BY <1>1, <1>3, <1>5, <2>1
<1>6. CASE way >= 0
  <2>1. f = 0
    BY <1>1, <1>2, <1>3, <1>4, <1>6
  <2> QED
    BY <1>1, <1>3, <1>6, <2>1
<1> QED
  BY <1>5, <1>6, <1>1 DEF w

LEMMA InitEstablishesInv == Init => Inv
<1> SUFFICES ASSUME Init PROVE Inv
  OBVIOUS
<1>1. rolling \in BOOLEAN
  BY Zenon DEF Init
<1> USE EncoderAssumption DEF EncoderAssumption, Init
<1>2. TypeOK
  BY <1>1 DEF TypeOK, ThreadPoints, Bit
<1>3. TimerHoldsWay /\ ReadHoldsWay
  BY DEF TimerHoldsWay, ReadHoldsWay, Reach, OnTimer
<1>4. KeptReadingExact
  BY DEF KeptReadingExact, Told
<1> QED
  BY <1>2, <1>3, <1>4 DEF Inv

LEMMA EdgeKeepsInv ==
    ASSUME Inv, NEW d \in {1, -1}, NEW rising \in BOOLEAN, Edge(d, rising)
    PROVE  Inv'
<1> USE EncoderAssumption DEF EncoderAssumption
<1>1. moved' = moved + d /\ edges' = edges + 1 /\ edges < MaxPulses
      /\ cnt' = Step(cnt, d)
  BY DEF Edge
<1>2. TimerHoldsWay'
  <2>1. moved' + edges' >= 0 /\ moved' <= edges' /\ edges' \in 0..MaxPulses
    BY <1>1 DEF Inv, TypeOK, TimerHoldsWay
  <2>2. cnt' = Step(cnt, d) /\ cnt \in 0..Reload
    BY <1>1 DEF Inv, TypeOK
  <2>3. cnt' = OnTimer(moved')
    <3>1. /\ moved < 0 => cnt = moved + Reload + 1
          /\ moved >= 0 => cnt = moved
          /\ moved \in Int /\ moved < Reload /\ moved > -Reload
      BY <1>1 DEF Inv, TypeOK, TimerHoldsWay, OnTimer, Period
    <3> QED
      BY <1>1, <3>1, <2>1, <2>2 DEF Step, OnTimer, Period
  <2> QED
    BY <2>1, <2>3 DEF TimerHoldsWay, OnTimer, Period
<1>3. TypeOK'
  <2>1. cnt' \in 0..Reload
    BY <1>1 DEF Step, Inv, TypeOK
  <2>2. edges' \in 0..MaxPulses /\ moved' \in Int
    BY <1>1 DEF Inv, TypeOK
  <2>3. down' \in Bit /\ uif' \in Bit /\ capture' \in Bit /\ wrapped' \in Bit
    BY DEF Edge, Inv, TypeOK, Bit
  <2> QED
    BY <2>1, <2>2, <2>3 DEF Edge, Inv, TypeOK, readVars
<1>4. ReadHoldsWay' /\ KeptReadingExact'
  BY DEF Edge, Inv, readVars, ReadHoldsWay, KeptReadingExact, Told
<1> QED
  BY <1>2, <1>3, <1>4 DEF Inv

\* The handler only touches the flags and the wrap count.
LEMMA IsrKeepsInv ==
    ASSUME Inv, Isr
    PROVE  Inv'
<1>1. UNCHANGED <<cnt, moved, edges, readVars, speed, told, pc, rolling, down, wrapped>>
  BY DEF Isr, IsrEnter, IsrJudge, IsrAcknowledge, timerVars
<1>2. /\ over_under_flowcount' \in Int
      /\ isr' \in {"none", "judge", "acknowledge"}
  BY DEF Isr, IsrEnter, IsrJudge, IsrAcknowledge, Inv, TypeOK
<1>3. uif' \in Bit /\ capture' \in Bit
  BY DEF Isr, IsrEnter, IsrJudge, IsrAcknowledge, Inv, TypeOK, timerVars, Bit
<1>4. TypeOK'
  BY <1>1, <1>2, <1>3 DEF Inv, TypeOK, readVars
<1> QED
  BY <1>1, <1>4
     DEF Inv, TimerHoldsWay, ReadHoldsWay, KeptReadingExact, Told, readVars

\* The thread's reads and clears carry the way along; its filter keeps a
\* reading only when PlausibleIsExact applies.
LEMMA ThreadKeepsInv ==
    ASSUME Inv, Thread
    PROVE  Inv'
<1> USE EncoderAssumption DEF EncoderAssumption, readVars
<1>1. ASSUME NEW first \in {"cnt_first", "flow_first"}, Wake(first) PROVE Inv'
  <2>1. TypeOK'
    BY <1>1 DEF Wake, At, Inv, TypeOK, ThreadPoints
  <2> QED
    BY <1>1, <2>1 DEF Wake, Inv, TimerHoldsWay, ReadHoldsWay, KeptReadingExact,
                      Told, OnTimer
<1>2. CASE ReadCounter
  <2>1. TypeOK'
    BY <1>2 DEF ReadCounter, At, Inv, TypeOK, ThreadPoints
  <2>2. ReadHoldsWay'
    BY <1>2 DEF ReadCounter, Inv, TypeOK, TimerHoldsWay, ReadHoldsWay, Reach,
                OnTimer, Period
  <2> QED
    BY <1>2, <2>1, <2>2
       DEF ReadCounter, Inv, TimerHoldsWay, KeptReadingExact, Told, OnTimer
<1>3. CASE ReadFlow
  <2>1. TypeOK'
    BY <1>3 DEF ReadFlow, At, Inv, TypeOK, ThreadPoints
  <2> QED
    BY <1>3, <2>1 DEF ReadFlow, Inv, TimerHoldsWay, ReadHoldsWay,
                      KeptReadingExact, Told, OnTimer
<1>4. CASE ClearFlow
  <2>1. TypeOK'
    BY <1>4 DEF ClearFlow, At, Inv, TypeOK, ThreadPoints
  <2> QED
    BY <1>4, <2>1 DEF ClearFlow, Inv, TimerHoldsWay, ReadHoldsWay,
                      KeptReadingExact, Told, OnTimer
<1>5. CASE ClearCounter
  <2>1. TypeOK'
    BY <1>5 DEF ClearCounter, At, Inv, TypeOK, ThreadPoints
  <2>2. TimerHoldsWay'
    BY <1>5 DEF ClearCounter, TimerHoldsWay, OnTimer
  <2> QED
    BY <1>5, <2>1, <2>2
       DEF ClearCounter, Inv, ReadHoldsWay, KeptReadingExact, Told, OnTimer
<1>6. CASE Filter
  <2>1. Reading \in Int /\ seen \in Reach /\ flow \in Int
        /\ Reading = OnTimer(seen) + flow * Reload
    BY <1>6 DEF Reading, Inv, TypeOK, ReadHoldsWay
  <2>2. speed' \in Int /\ told' \in Int
    BY <1>6, <2>1 DEF Filter, Inv, TypeOK
  <2>3. KeptReadingExact'
    <3>1. CASE Plausible(Sign * Reading)
      <4>1. Reading = IF seen < 0 THEN seen + 1 ELSE seen
        BY <2>1, <3>1, PlausibleIsExact
      <4> QED
        BY <1>6, <3>1, <4>1 DEF Filter, KeptReadingExact, Told
    <3>2. CASE ~Plausible(Sign * Reading)
      BY <1>6, <3>2 DEF Filter, Inv, KeptReadingExact, Told
    <3> QED
      BY <3>1, <3>2
  <2>4. TypeOK'
    BY <1>6, <2>2 DEF Filter, At, Inv, TypeOK, ThreadPoints
  <2> QED
    BY <1>6, <2>3, <2>4 DEF Filter, Inv, TimerHoldsWay, ReadHoldsWay, OnTimer
<1> QED
  BY <1>1, <1>2, <1>3, <1>4, <1>5, <1>6 DEF Thread

LEMMA NextKeepsInv == Inv /\ [Next]_vars => Inv'
<1> SUFFICES ASSUME Inv, [Next]_vars PROVE Inv'
  OBVIOUS
<1>1. ASSUME NEW d \in {1, -1}, NEW rising \in BOOLEAN, Edge(d, rising)
      PROVE  Inv'
  BY <1>1, EdgeKeepsInv
<1>2. CASE Halt
  <2>1. rolling' \in BOOLEAN
    BY <1>2, Zenon DEF Halt
  <2> QED
    BY <1>2, <2>1 DEF Halt, readVars, Inv, TypeOK, TimerHoldsWay, ReadHoldsWay,
                      KeptReadingExact, Told, OnTimer
<1>3. CASE Isr
  BY <1>3, IsrKeepsInv
<1>4. CASE Thread
  BY <1>4, ThreadKeepsInv
<1>5. CASE UNCHANGED vars
  BY <1>5 DEF vars, timerVars, readVars, Inv, TypeOK, TimerHoldsWay,
              ReadHoldsWay, KeptReadingExact, Told, OnTimer
<1> QED
  BY <1>1, <1>2, <1>3, <1>4, <1>5 DEF Next

LEMMA SpecKeepsInv == Spec => []Inv
BY InitEstablishesInv, NextKeepsInv, PTL DEF Spec

(***************************************************************************)
(* The timer, the wrap count and what the thread reads of them keep their  *)
(* ranges: the bound on edges keeps the timer within one wrap of the truth.*)
(***************************************************************************)
THEOREM TypeCorrect == Spec => []TypeOK
BY SpecKeepsInv, PTL DEF Inv

(***************************************************************************)
(* Every speed the control loop keeps is the way the wheel made, up to the *)
(* one edge of a backward wrap, under every interleaving of the edges, the *)
(* interrupt handler and the thread's reads and clears.                    *)
(***************************************************************************)
THEOREM KeptReadingCorrect == Spec => []KeptReadingExact
BY SpecKeepsInv, PTL DEF Inv

-----------------------------------------------------------------------------
(***************************************************************************)
(* No carry-over.  Unless the timer has wrapped since the wraps were last  *)
(* cleared, no wrap is counted, waiting or being judged; and, but for the  *)
(* moment between the two clears, the wheel is not behind where the timer  *)
(* was cleared.  What the thread has read so far says the same.            *)
(***************************************************************************)
CarryInv ==
    wrapped = 0 =>
      /\ uif = 0 /\ isr # "judge" /\ over_under_flowcount = 0
      /\ pc # "clear_cnt" => moved >= 0
      /\ pc \in {"flow_second", "clear_flow"} => seen >= 0
      /\ pc \in {"cnt_second", "clear_flow"} => flow = 0

LEMMA NextKeepsCarry == Inv /\ CarryInv /\ [Next]_vars => CarryInv'
<1> SUFFICES ASSUME Inv, CarryInv, [Next]_vars PROVE CarryInv'
  OBVIOUS
<1> USE DEF CarryInv
<1>1. ASSUME NEW d \in {1, -1}, NEW rising \in BOOLEAN, Edge(d, rising)
      PROVE  CarryInv'
  <2>1. CASE Wraps(cnt, d)
    BY <1>1, <2>1 DEF Edge
  <2>2. CASE ~Wraps(cnt, d)
    <3>1. moved >= 0 => moved + d >= 0
      BY <2>2 DEF Inv, TypeOK, TimerHoldsWay, OnTimer, Wraps
    <3>2. /\ UNCHANGED <<uif, wrapped, isr, over_under_flowcount, pc, seen, flow>>
          /\ moved' = moved + d
      BY <1>1, <2>2 DEF Edge, readVars
    <3> QED
      BY <3>1, <3>2
  <2> QED
    BY <2>1, <2>2
<1>2. CASE Halt
  BY <1>2 DEF Halt, readVars
<1>3. CASE Isr
  BY <1>3 DEF Isr, IsrEnter, IsrJudge, IsrAcknowledge, timerVars, readVars
<1>4. CASE Thread
  <2> USE DEF At, readVars
  <2>1. ASSUME NEW first \in {"cnt_first", "flow_first"}, Wake(first)
        PROVE  CarryInv'
    BY <2>1 DEF Wake
  <2>2. CASE ReadCounter
    BY <2>2 DEF ReadCounter
  <2>3. CASE ReadFlow
    BY <2>3 DEF ReadFlow
  <2>4. CASE ClearFlow
    BY <2>4 DEF ClearFlow
  <2>5. CASE ClearCounter
    BY <2>5 DEF ClearCounter
  <2>6. CASE Filter
    BY <2>6 DEF Filter
  <2> QED
    BY <1>4, <2>1, <2>2, <2>3, <2>4, <2>5, <2>6 DEF Thread
<1>5. CASE UNCHANGED vars
  BY <1>5 DEF vars, timerVars, readVars
<1> QED
  BY <1>1, <1>2, <1>3, <1>4, <1>5 DEF Next

(***************************************************************************)
(* A cycle in which the timer does not wrap, begun with no wrap left       *)
(* unserved, reads exactly the way the wheel made, whatever the handler    *)
(* missed or misjudged before.                                             *)
(***************************************************************************)
THEOREM NoCarryOverCorrect == Spec => []NoCarryOver
<1>1. Init => CarryInv
  BY DEF Init, CarryInv
<1>2. Inv /\ CarryInv => NoCarryOver
  BY EncoderAssumption DEF EncoderAssumption, Inv, TypeOK, CarryInv, NoCarryOver,
     Reading, ReadHoldsWay, OnTimer, Reach
<1> QED
  BY <1>1, <1>2, SpecKeepsInv, NextKeepsCarry, PTL DEF Spec
=============================================================================
