-------------------------- MODULE MotorDrive_proof --------------------------
(***************************************************************************)
(* The safety of the drive, for every demand, rotation and direction byte  *)
(* and any width of the unsigned integer that holds two periods: types,    *)
(* the PWM inside its period, a modest turn inside the range, the turn     *)
(* command that was given, and both wheels pulling the same way.  Each     *)
(* property has an inductive invariant of its own; all of them rest on     *)
(* TypeOK.                                                                 *)
(***************************************************************************)
EXTENDS MotorDrive, TLAPS

\* From here on ctrl_set_speed has computed out_pwm and way; from LeftDone on
\* the left motor is updated.
Driving == {"left_in1", "left_in2", "left_pwm",
            "right_in1", "right_in2", "right_pwm", "delay"}
LeftDone == {"right_in1", "right_in2", "right_pwm", "delay"}

USE DEF Wheels, Points, Driving, LeftDone

-----------------------------------------------------------------------------
(***************************************************************************)
(* Types.                                                                  *)
(***************************************************************************)

\* The conversion to unsigned loses nothing from a number that fits.
LEMMA Unsigned ==
    ASSUME NEW n \in Int
    PROVE  /\ AsUInt(n) \in 0..(UInt - 1)
           /\ n \in 0..(UInt - 1) => AsUInt(n) = n
<1>1. UInt \in Nat /\ UInt > 0
  BY MotorAssumption DEF MotorAssumption, MOTOR_PERIOD
<1> QED
  BY <1>1 DEF AsUInt

\* The period is 460 ticks, and a pulse takes between two and 460 of them.
LEMMA TicksInRange ==
    /\ PeriodTicks = 460
    /\ \A p \in Int : PulseTicks(p) \in MIN_PULSE..PeriodTicks
<1>1. PeriodTicks = 460
  BY DEF PeriodTicks, MOTOR_PERIOD, TimMHz, MIN_PERIOD
<1>2. ASSUME NEW p \in Int PROVE PulseTicks(p) \in MIN_PULSE..PeriodTicks
  <2>1. (p * TimMHz) \div 1000 \in Int
    BY DEF TimMHz
  <2> QED
    BY <1>1, <2>1 DEF PulseTicks, MIN_PULSE
<1> QED
  BY <1>1, <1>2

LEMMA MagnitudeInRange ==
    ASSUME NEW demand \in Int
    PROVE  Magnitude(demand) \in DeadZone..MaxOut /\ Magnitude(demand) \in Int
BY DEF Magnitude, DeadZone, MaxOut

LEMMA AskedIsInt ==
    ASSUME TypeOK, NEW w \in Wheels
    PROVE  Asked(w) \in Int
BY DEF TypeOK, Asked

LEMMA LevelsAreBits ==
    ASSUME NEW w \in Wheels, NEW dir
    PROVE  Levels(w, dir) \in {<<1, 0>>, <<0, 1>>}
BY DEF Levels

\* One write to a pin leaves the other pins alone.
LEMMA SetPinWrites ==
    ASSUME TypeOK, NEW w \in Wheels, NEW i \in {1, 2}, SetPin(w, i)
    PROVE  /\ bridge' \in [Wheels -> Bit \X Bit]
           /\ bridge'[w][i] = Levels(w, way)[i]
           /\ \A v \in Wheels, k \in {1, 2} :
                 v # w \/ k # i => bridge'[v][k] = bridge[v][k]
BY LevelsAreBits DEF SetPin, TypeOK, Bit

LEMMA SteeredIsTyped ==
    ASSUME TypeOK PROVE RecordSteering \in [Commands -> {-1, 0, 1}]
BY DEF TypeOK, RecordSteering

LEMMA SetPwmTyped ==
    ASSUME TypeOK, NEW w \in Wheels, SetPwm(w)
    PROVE  /\ pulse' \in [Wheels -> 0..(UInt - 1)]
           /\ ccr' \in [Wheels -> Nat]
           /\ arr' = 459
           /\ ccr'[w] \in 1..459
           /\ pulse'[w] = AsUInt(Asked(w))
           /\ \A v \in Wheels : v # w => pulse'[v] = pulse[v] /\ ccr'[v] = ccr[v]
<1> DEFINE p == AsUInt(Asked(w))
           t == PulseTicks(p)
<1>1. p \in 0..(UInt - 1) /\ p \in Int
  BY AskedIsInt, Unsigned, MotorAssumption DEF MotorAssumption
<1>2. t \in 2..460 /\ PeriodTicks = 460
  BY <1>1, TicksInRange DEF MIN_PULSE
<1>3. arr' = PeriodTicks - 1 /\ ccr' = [ccr EXCEPT ![w] = t - 1]
      /\ pulse' = [pulse EXCEPT ![w] = p]
  BY DEF SetPwm
<1> HIDE DEF p, t
<1>4. p = AsUInt(Asked(w))
  BY DEF p
<1> QED
  BY <1>1, <1>2, <1>3, <1>4 DEF TypeOK

LEMMA InitTyped == Init => TypeOK
BY MotorAssumption DEF MotorAssumption, MOTOR_PERIOD, Init, TypeOK, Bit, Commands

LEMMA NextKeepsTypes == TypeOK /\ [Next]_vars => TypeOK'
<1> SUFFICES ASSUME TypeOK, [Next]_vars PROVE TypeOK'
  OBVIOUS
<1> USE DEF TypeOK, cycleVars, motorVars, Goto
<1>1. ASSUME NEW r \in TurnRates, TurnPid(r) PROVE TypeOK'
  BY <1>1, MotorAssumption DEF MotorAssumption, TurnPid
<1>2. CASE TestLeft
  BY <1>2 DEF TestLeft
<1>3. CASE TestRight
  BY <1>3 DEF TestRight
<1>4. ASSUME NEW demand \in Demands, SetSpeed(demand) PROVE TypeOK'
  <2>1. demand \in Int
    BY MotorAssumption DEF MotorAssumption
  <2>2. Magnitude(demand) \in Int
    BY <2>1, MagnitudeInRange
  <2> QED
    BY <1>4, <2>2 DEF SetSpeed
<1>5. ASSUME NEW w \in Wheels, NEW i \in {1, 2}, SetPin(w, i),
             pc' \in Points, UNCHANGED <<direction, steered>>
      PROVE  TypeOK'
  BY <1>5, SetPinWrites DEF SetPin
<1>6. ASSUME NEW w \in Wheels, SetPwm(w),
             pc' \in Points, UNCHANGED <<direction, steered>>
      PROVE  TypeOK'
  <2>1. /\ pulse' \in [Wheels -> 0..(UInt - 1)]
        /\ ccr' \in [Wheels -> Nat] /\ arr' = 459
    BY <1>6, SetPwmTyped
  <2> QED
    BY <1>6, <2>1 DEF SetPwm
<1>7. CASE LeftMotor \/ RightMotor
  BY <1>5, <1>6, <1>7 DEF LeftMotor, RightMotor
<1>8. CASE Wake
  BY <1>8, SteeredIsTyped DEF Wake
<1>9. ASSUME NEW c \in Directions, Command(c) PROVE TypeOK'
  BY <1>9 DEF Command
<1>10. CASE UNCHANGED vars
  BY <1>10 DEF vars
<1> QED
  BY <1>1, <1>2, <1>3, <1>4, <1>7, <1>8, <1>9, <1>10 DEF Next, Cycle

(***************************************************************************)
(* Every variable keeps its type; the pulses are unsigned 32-bit numbers   *)
(* also where the demand less the turn is negative.                        *)
(***************************************************************************)
THEOREM TypeCorrect == Spec => []TypeOK
BY InitTyped, NextKeepsTypes, PTL DEF Spec

-----------------------------------------------------------------------------
(***************************************************************************)
(* The numbers.  From the time ctrl_set_speed has run, out_pwm is between  *)
(* the dead zone and the clamp; once a motor is updated, its pulse is what *)
(* was asked of it; its registers are a pulse of the period the timer runs.*)
(***************************************************************************)
OutInRange == pc \in Driving => out_pwm \in DeadZone..MaxOut
PulseIsAsked ==
    /\ pc \in LeftDone => pulse["left"] = AsUInt(Asked("left"))
    /\ pc = "delay" => pulse["right"] = AsUInt(Asked("right"))
RegistersFit ==
    /\ arr = 0 \/ arr = 459
    /\ \A w \in Wheels : ccr[w] <= arr

NumbersInv == OutInRange /\ PulseIsAsked /\ RegistersFit

LEMMA InitNumbers == Init => NumbersInv
BY DEF Init, NumbersInv, OutInRange, PulseIsAsked, RegistersFit

LEMMA SetPwmFits ==
    ASSUME TypeOK, RegistersFit, NEW w \in Wheels, SetPwm(w)
    PROVE  RegistersFit'
<1>1. /\ ccr'[w] \in 1..459 /\ arr' = 459
      /\ \A v \in Wheels : v # w => ccr'[v] = ccr[v]
  BY SetPwmTyped
<1> QED
  BY <1>1 DEF TypeOK, RegistersFit

\* What a motor is asked for depends on the two demands only.
LEMMA AskedStays ==
    ASSUME UNCHANGED <<turn_pwm, out_pwm>>
    PROVE  /\ Asked("left")' = Asked("left") /\ Asked("right")' = Asked("right")
           /\ AsUInt(Asked("left"))' = AsUInt(Asked("left"))
           /\ AsUInt(Asked("right"))' = AsUInt(Asked("right"))
BY DEF Asked, AsUInt

LEMMA NextKeepsNumbers == TypeOK /\ NumbersInv /\ [Next]_vars => NumbersInv'
<1> SUFFICES ASSUME TypeOK, NumbersInv, [Next]_vars PROVE NumbersInv'
  OBVIOUS
<1> USE DEF NumbersInv, OutInRange, PulseIsAsked, RegistersFit,
            cycleVars, motorVars, Goto
<1>1. ASSUME NEW r \in TurnRates, TurnPid(r) PROVE NumbersInv'
  BY <1>1 DEF TurnPid
<1>2. CASE TestLeft \/ TestRight
  BY <1>2 DEF TestLeft, TestRight
<1>3. ASSUME NEW demand \in Demands, SetSpeed(demand) PROVE NumbersInv'
  BY <1>3, MagnitudeInRange, MotorAssumption DEF MotorAssumption, SetSpeed
<1>4. CASE LeftMotor
  <2>1. CASE Goto("left_in1", "left_in2") /\ SetPin("left", 1)
    BY <2>1 DEF SetPin
  <2>2. CASE Goto("left_in2", "left_pwm") /\ SetPin("left", 2)
    BY <2>2 DEF SetPin
  <2>3. CASE Goto("left_pwm", "right_in1") /\ SetPwm("left")
    <3>1. UNCHANGED <<turn_pwm, out_pwm>>
      BY <2>3 DEF SetPwm
    <3>2. pulse'["left"] = AsUInt(Asked("left")) /\ RegistersFit'
      BY <2>3, SetPwmTyped, SetPwmFits
    <3> QED
      BY <2>3, <3>1, <3>2, AskedStays
  <2> QED
    BY <1>4, <2>1, <2>2, <2>3 DEF LeftMotor
<1>5. CASE RightMotor
  <2>1. ASSUME NEW i \in {1, 2}, SetPin("right", i),
               pc \in {"right_in1", "right_in2"}, pc' \in {"right_in2", "right_pwm"}
        PROVE  NumbersInv'
    BY <2>1, AskedStays DEF SetPin
  <2>2. CASE Goto("right_pwm", "delay") /\ SetPwm("right")
    <3>1. UNCHANGED <<turn_pwm, out_pwm>>
      BY <2>2 DEF SetPwm
    <3>2. /\ pulse'["right"] = AsUInt(Asked("right"))
          /\ pulse'["left"] = pulse["left"]
          /\ RegistersFit'
      BY <2>2, SetPwmTyped, SetPwmFits
    <3> QED
      BY <2>2, <3>1, <3>2, AskedStays
  <2> QED
    BY <1>5, <2>1, <2>2 DEF RightMotor
<1>6. CASE Wake
  BY <1>6 DEF Wake
<1>7. ASSUME NEW c \in Directions, Command(c) PROVE NumbersInv'
  BY <1>7, AskedStays DEF Command
<1>8. CASE UNCHANGED vars
  BY <1>8, AskedStays DEF vars
<1> QED
  BY <1>1, <1>2, <1>3, <1>4, <1>5, <1>6, <1>7, <1>8 DEF Next, Cycle

LEMMA SpecKeepsNumbers == Spec => []NumbersInv
BY TypeCorrect, InitNumbers, NextKeepsNumbers, PTL DEF Spec

(***************************************************************************)
(* No motor is ever given more than the whole period, whatever is asked of *)
(* it, also while only one of the two has been updated.                    *)
(***************************************************************************)
THEOREM DutyCorrect == Spec => []DutyInRange
<1>1. NumbersInv => DutyInRange
  BY DEF NumbersInv, RegistersFit, DutyInRange
<1> QED
  BY <1>1, SpecKeepsNumbers, PTL

(***************************************************************************)
(* A turn no larger than the dead zone never wraps a pulse round zero.     *)
(***************************************************************************)
THEOREM ModestTurnCorrect == Spec => []ModestTurnInRange
<1>1. ASSUME TypeOK, NumbersInv, pc = "delay", Modest, NEW w \in Wheels
      PROVE  pulse[w] <= MaxOut + DeadZone
  <2>1. /\ out_pwm \in Int /\ turn_pwm \in Int
        /\ out_pwm >= 450 /\ out_pwm <= 4000
        /\ turn_pwm <= 450 /\ turn_pwm >= 0 - 450
    BY <1>1 DEF TypeOK, NumbersInv, OutInRange, Modest, DeadZone, MaxOut
  <2>2. /\ Asked(w) \in Int
        /\ Asked(w) >= 0 /\ Asked(w) <= 4450
    BY <2>1 DEF Asked
  <2>3. UInt \in Nat /\ UInt > 14400
    BY MotorAssumption DEF MotorAssumption, MOTOR_PERIOD
  <2>4. Asked(w) \in 0..(UInt - 1)
    BY <2>2, <2>3
  <2>5. pulse[w] = AsUInt(Asked(w))
    BY <1>1 DEF NumbersInv, PulseIsAsked
  <2> QED
    BY <2>2, <2>4, <2>5, Unsigned DEF MaxOut, DeadZone
<1>2. TypeOK /\ NumbersInv => ModestTurnInRange
  BY <1>1 DEF ModestTurnInRange
<1> QED
  BY <1>2, TypeCorrect, SpecKeepsNumbers, PTL

-----------------------------------------------------------------------------
(***************************************************************************)
(* The turn command.  TurnTermJustified looks back over the cycle: before  *)
(* the first test nothing is added, and the second test is reached only    *)
(* with a direction other than LEFT at the first.                          *)
(***************************************************************************)
TurnInv ==
    /\ direction \in held
    /\ pc \in {"test_left", "test_right"} => turn_pwm = rate
    /\ pc = "test_right" => held # {LEFT_DIRECTION}
    /\ TurnTermJustified

LEMMA NextKeepsTurn == TypeOK /\ TurnInv /\ [Next]_vars => TurnInv'
<1> SUFFICES ASSUME TypeOK, TurnInv, [Next]_vars PROVE TurnInv'
  OBVIOUS
<1> USE DEF TurnInv, TurnTermJustified, Commands, LEFT_DIRECTION,
            RIGHT_DIRECTION, cycleVars, Goto
<1>1. ASSUME NEW r \in TurnRates, TurnPid(r) PROVE TurnInv'
  BY <1>1 DEF TurnPid
<1>2. CASE TestLeft
  BY <1>2 DEF TestLeft, TypeOK
<1>3. CASE TestRight
  BY <1>3 DEF TestRight, TypeOK
<1>4. ASSUME NEW demand \in Demands, SetSpeed(demand) PROVE TurnInv'
  BY <1>4 DEF SetSpeed
<1>5. CASE LeftMotor \/ RightMotor
  BY <1>5 DEF LeftMotor, RightMotor, SetPin, SetPwm
<1>6. CASE Wake
  BY <1>6 DEF Wake
<1>7. ASSUME NEW c \in Directions, Command(c) PROVE TurnInv'
  <2>1. direction \in held /\ c # direction /\ held' = held \cup {c}
    BY <1>7 DEF Command
  <2>2. \A d : held' # {d}
    BY <2>1
  <2> QED
    BY <1>7, <2>1, <2>2 DEF Command
<1>8. CASE UNCHANGED vars
  BY <1>8 DEF vars
<1> QED
  BY <1>1, <1>2, <1>3, <1>4, <1>5, <1>6, <1>7, <1>8 DEF Next, Cycle

(***************************************************************************)
(* The command a cycle adds was given, and one held all through it is      *)
(* added, wherever the interrupt changes the direction.                    *)
(***************************************************************************)
THEOREM TurnTermCorrect == Spec => []TurnTermJustified
<1>1. Init => TurnInv
  BY DEF Init, TurnInv, TurnTermJustified
<1>2. TurnInv => TurnTermJustified
  BY DEF TurnInv
<1> QED
  BY <1>1, <1>2, TypeCorrect, NextKeepsTurn, PTL DEF Spec

-----------------------------------------------------------------------------
(***************************************************************************)
(* The bridges.  Each pin, from the time it is written in a cycle, has the *)
(* level that way asks of it, and way does not change until the next one.  *)
(***************************************************************************)
PinWritten(w, i) == bridge[w][i] = Levels(w, way)[i]
BridgeInv ==
    /\ pc \in {"left_in2", "left_pwm"} \cup LeftDone => PinWritten("left", 1)
    /\ pc \in {"left_pwm"} \cup LeftDone => PinWritten("left", 2)
    /\ pc \in {"right_in2", "right_pwm", "delay"} => PinWritten("right", 1)
    /\ pc \in {"right_pwm", "delay"} => PinWritten("right", 2)

LEMMA NextKeepsBridge == TypeOK /\ BridgeInv /\ [Next]_vars => BridgeInv'
<1> SUFFICES ASSUME TypeOK, BridgeInv, [Next]_vars PROVE BridgeInv'
  OBVIOUS
<1> USE DEF BridgeInv, cycleVars, motorVars, Goto
<1>1. ASSUME NEW r \in TurnRates, TurnPid(r) PROVE BridgeInv'
  BY <1>1 DEF TurnPid
<1>2. CASE TestLeft \/ TestRight
  BY <1>2 DEF TestLeft, TestRight
<1>3. ASSUME NEW demand \in Demands, SetSpeed(demand) PROVE BridgeInv'
  BY <1>3 DEF SetSpeed
<1>4. ASSUME UNCHANGED <<bridge, way>>, NEW w \in Wheels, NEW i \in {1, 2},
             PinWritten(w, i)
      PROVE  PinWritten(w, i)'
  BY <1>4 DEF PinWritten, Levels
<1>5. ASSUME NEW w \in Wheels, NEW i \in {1, 2}, SetPin(w, i)
      PROVE  /\ PinWritten(w, i)'
             /\ \A v \in Wheels, k \in {1, 2} :
                   PinWritten(v, k) => PinWritten(v, k)'
  <2>1. way' = way /\ \A v \in Wheels : Levels(v, way)' = Levels(v, way)
    BY <1>5 DEF SetPin, Levels
  <2>2. /\ bridge'[w][i] = Levels(w, way)[i]
        /\ \A v \in Wheels, k \in {1, 2} :
              v # w \/ k # i => bridge'[v][k] = bridge[v][k]
    BY <1>5, SetPinWrites
  <2> QED
    BY <2>1, <2>2 DEF PinWritten
<1>6. CASE LeftMotor
  <2>1. CASE Goto("left_in1", "left_in2") /\ SetPin("left", 1)
    BY <2>1, <1>5
  <2>2. CASE Goto("left_in2", "left_pwm") /\ SetPin("left", 2)
    BY <2>2, <1>5
  <2>3. CASE Goto("left_pwm", "right_in1") /\ SetPwm("left")
    BY <2>3, <1>4 DEF SetPwm
  <2> QED
    BY <1>6, <2>1, <2>2, <2>3 DEF LeftMotor
<1>7. CASE RightMotor
  <2>1. CASE Goto("right_in1", "right_in2") /\ SetPin("right", 1)
    BY <2>1, <1>5
  <2>2. CASE Goto("right_in2", "right_pwm") /\ SetPin("right", 2)
    BY <2>2, <1>5
  <2>3. CASE Goto("right_pwm", "delay") /\ SetPwm("right")
    BY <2>3, <1>4 DEF SetPwm
  <2> QED
    BY <1>7, <2>1, <2>2, <2>3 DEF RightMotor
<1>8. CASE Wake
  BY <1>8 DEF Wake
<1>9. ASSUME NEW c \in Directions, Command(c) PROVE BridgeInv'
  BY <1>9, <1>4 DEF Command
<1>10. CASE UNCHANGED vars
  BY <1>10, <1>4 DEF vars
<1> QED
  BY <1>1, <1>2, <1>3, <1>6, <1>7, <1>8, <1>9, <1>10 DEF Next, Cycle

(***************************************************************************)
(* When a cycle ends both wheels pull the same way over the ground.        *)
(***************************************************************************)
THEOREM PullTogetherCorrect == Spec => []WheelsPullTogether
<1>1. Init => BridgeInv
  BY DEF Init, BridgeInv
<1>2. ASSUME TypeOK, BridgeInv, pc = "delay"
      PROVE  /\ bridge["left"] \in {<<1, 0>>, <<0, 1>>}
             /\ bridge["right"] = <<bridge["left"][2], bridge["left"][1]>>
  <2>1. \A w \in Wheels : bridge[w] = Levels(w, way)
    BY <1>2, LevelsAreBits DEF BridgeInv, PinWritten, TypeOK, Bit
  <2>2. /\ Levels("left", way) \in {<<1, 0>>, <<0, 1>>}
        /\ Levels("right", way) =
             <<Levels("left", way)[2], Levels("left", way)[1]>>
    BY DEF Levels
  <2> QED
    BY <2>1, <2>2
<1>3. TypeOK /\ BridgeInv => WheelsPullTogether
  BY <1>2 DEF WheelsPullTogether
<1> QED
  BY <1>1, <1>3, TypeCorrect, NextKeepsBridge, PTL DEF Spec
=============================================================================
