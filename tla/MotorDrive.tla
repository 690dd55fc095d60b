----------------------------- MODULE MotorDrive -----------------------------
(***************************************************************************)
(* From the steering direction and the balance demand to the two motors:   *)
(* ctrl_turn_pid and ctrl_set_speed (controler.c), the H-bridge drivers    *)
(* (dev_motor.c) and the PWM registers (drv_pwm.c), one control cycle      *)
(* after the other, while the Bluetooth interrupt may change the direction *)
(* between any two statements.                                             *)
(***************************************************************************)
EXTENDS Integers

CONSTANTS
    Demands,     \* the values balance_pwm + speed_pwm can take
    TurnRates,   \* the values turn_Kp * (0 - turn_gyor) can take, truncated
    Directions,  \* the bytes the receiver can leave in turn_parm.direction
    UInt         \* 2^32: one more than the largest rt_uint32_t

LEFT_DIRECTION == 3
RIGHT_DIRECTION == 4
POSITIVE_DIRECTION == 0
NEGATIVE_DIRECTION == 1
MOTOR_PERIOD == 7200
MIN_PERIOD == 3
MIN_PULSE == 2
TimMHz == 64     \* the clock of the motor timer, HAL_RCC_GetPCLK1Freq() * 2

ASSUME MotorAssumption ==
    /\ Demands \subseteq Int /\ TurnRates \subseteq Int
    /\ Directions \subseteq 0..255 /\ 0 \in Directions
    /\ UInt \in Nat /\ UInt > 2 * MOTOR_PERIOD

Wheels == {"left", "right"}

VARIABLES
    direction,   \* turn_parm.direction
    pc,          \* the statement the control thread is about to execute
    turn_pwm,    \* speed_parm.turn_pwm
    out_pwm,     \* speed_parm.out_pwm
    way,         \* the local direction of ctrl_set_speed
    pulse,       \* the pulse last asked of each motor's driver, in ns
    bridge,      \* the levels of each motor's two H-bridge pins
    ccr,         \* each motor's compare register
    arr,         \* the timer's reload register
    rate,        \* history: turn_pwm before the command is added
    held,        \* history: the directions held during this cycle
    steered      \* history: what LEFT and RIGHT last did (see RecordSteering)

cycleVars == <<turn_pwm, out_pwm, way, rate>>
motorVars == <<pulse, bridge, ccr, arr>>
vars == <<direction, pc, cycleVars, motorVars, held, steered>>

Points == {"turn_pid", "test_left", "test_right", "set_speed",
           "left_in1", "left_in2", "left_pwm",
           "right_in1", "right_in2", "right_pwm", "delay"}
Commands == {LEFT_DIRECTION, RIGHT_DIRECTION}
Bit == {0, 1}

TypeOK ==
    /\ direction \in Directions
    /\ pc \in Points
    /\ turn_pwm \in Int /\ rate \in Int /\ out_pwm \in Int
    /\ way \in {POSITIVE_DIRECTION, NEGATIVE_DIRECTION}
    /\ pulse \in [Wheels -> 0..(UInt - 1)]
    /\ bridge \in [Wheels -> Bit \X Bit]
    /\ ccr \in [Wheels -> Nat]
    /\ arr \in Nat
    /\ held \subseteq Directions
    /\ steered \in [Commands -> {-1, 0, 1}]

-----------------------------------------------------------------------------

\* rt_motor_dev_init: the PWM runs with pulse 0 and all bridge pins are low.
Init ==
    /\ direction = 0
    /\ pc = "turn_pid"
    /\ turn_pwm = 0 /\ rate = 0 /\ out_pwm = 0 /\ way = POSITIVE_DIRECTION
    /\ pulse = [w \in Wheels |-> 0]
    /\ bridge = [w \in Wheels |-> <<0, 0>>]
    /\ ccr = [w \in Wheels |-> 0]
    /\ arr = 0
    /\ held = {0}
    /\ steered = [c \in Commands |-> 0]

\* ble_recv_data, in the UART interrupt, between any two statements.
Command(c) ==
    /\ c # direction
    /\ direction' = c
    /\ held' = held \cup {c}
    /\ UNCHANGED <<pc, cycleVars, motorVars, steered>>

Goto(here, next) == pc = here /\ pc' = next /\ UNCHANGED <<direction, steered>>

-----------------------------------------------------------------------------

(***************************************************************************)
(* ctrl_turn_pid: the damping term, then the command, which is read twice. *)
(***************************************************************************)
TurnPid(r) ==
    /\ Goto("turn_pid", "test_left")
    /\ turn_pwm' = r
    /\ rate' = r
    /\ held' = {direction}
    /\ UNCHANGED <<out_pwm, way, motorVars>>

\* Mistaken variant of TestLeft: the two commands are mixed up.
TestLeft_Swapped ==
    /\ IF direction = RIGHT_DIRECTION
         THEN Goto("test_left", "set_speed") /\ turn_pwm' = turn_pwm + 50
         ELSE Goto("test_left", "test_right") /\ UNCHANGED turn_pwm
    /\ UNCHANGED <<rate, out_pwm, way, motorVars, held>>

TestLeft ==
    /\ IF direction = LEFT_DIRECTION
         THEN Goto("test_left", "set_speed") /\ turn_pwm' = turn_pwm + 50
         ELSE Goto("test_left", "test_right") /\ UNCHANGED turn_pwm
    /\ UNCHANGED <<rate, out_pwm, way, motorVars, held>>

\* Mistaken variant of TestRight: else instead of else if.
TestRight_Else ==
    /\ Goto("test_right", "set_speed")
    /\ turn_pwm' = turn_pwm - 50
    /\ UNCHANGED <<rate, out_pwm, way, motorVars, held>>

TestRight ==
    /\ Goto("test_right", "set_speed")
    /\ turn_pwm' = IF direction = RIGHT_DIRECTION THEN turn_pwm - 50 ELSE turn_pwm
    /\ UNCHANGED <<rate, out_pwm, way, motorVars, held>>

(***************************************************************************)
(* ctrl_set_speed: magnitude and sign of the demand apart, the dead zone   *)
(* compensated, the magnitude clamped.                                     *)
(***************************************************************************)
DeadZone == 450
MaxOut == 4000

\* Mistaken variant of Magnitude: the dead zone is not added.
Magnitude_Bare(demand) ==
    LET m == IF demand < 0 THEN -demand ELSE demand
    IN  IF m > MaxOut THEN MaxOut ELSE m

Magnitude(demand) ==
    LET m == (IF demand < 0 THEN -demand ELSE demand) + DeadZone
    IN  IF m > MaxOut THEN MaxOut ELSE m

SetSpeed(demand) ==
    /\ Goto("set_speed", "left_in1")
    /\ out_pwm' = Magnitude(demand)
    /\ way' = IF demand < 0 THEN NEGATIVE_DIRECTION ELSE POSITIVE_DIRECTION
    /\ UNCHANGED <<turn_pwm, rate, motorVars, held>>

\* The arguments of the set_pwm calls, in the three branches on turn_pwm.
Asked(w) ==
    IF turn_pwm > 0
      THEN IF w = "left" THEN out_pwm + turn_pwm ELSE out_pwm - turn_pwm
    ELSE IF turn_pwm < 0
      THEN IF w = "left" THEN out_pwm - turn_pwm ELSE out_pwm + turn_pwm
    ELSE out_pwm + turn_pwm

\* Mistaken variant of AsUInt: no conversion.
AsUInt_Signed(n) == n

\* The conversion of an int argument to rt_uint32_t.
AsUInt(n) == n % UInt

\* Mistaken variant of Levels: both motors wired alike.
Levels_Alike(w, dir) == IF dir = POSITIVE_DIRECTION THEN <<1, 0>> ELSE <<0, 1>>

(***************************************************************************)
(* rt_left_motor_set_pwm and rt_right_motor_set_pwm: the two pins one by   *)
(* one, then the PWM.  The right motor is mounted the other way round.     *)
(***************************************************************************)
Levels(w, dir) == IF (w = "left") = (dir = POSITIVE_DIRECTION) THEN <<1, 0>>
                                                               ELSE <<0, 1>>

SetPin(w, i) ==
    /\ bridge' = [bridge EXCEPT ![w][i] = Levels(w, way)[i]]
    /\ UNCHANGED <<cycleVars, pulse, ccr, arr, held>>

\* rt_drv_pwm_set: nanoseconds to ticks, clamped to the period (the prescaler
\* is 1 for any period below 65535 ticks).
PeriodTicks == LET t == (MOTOR_PERIOD * TimMHz) \div 1000
               IN  IF t < MIN_PERIOD THEN MIN_PERIOD ELSE t

\* Mistaken variant of PulseTicks: no clamp to the period.
PulseTicks_Unclamped(p) == LET t == (p * TimMHz) \div 1000
                           IN  IF t < MIN_PULSE THEN MIN_PULSE ELSE t

PulseTicks(p) == LET t == (p * TimMHz) \div 1000
                 IN  IF t < MIN_PULSE THEN MIN_PULSE
                     ELSE IF t > PeriodTicks THEN PeriodTicks ELSE t

SetPwm(w) ==
    /\ pulse' = [pulse EXCEPT ![w] = AsUInt(Asked(w))]
    /\ arr' = PeriodTicks - 1
    /\ ccr' = [ccr EXCEPT ![w] = PulseTicks(AsUInt(Asked(w))) - 1]
    /\ UNCHANGED <<cycleVars, bridge, held>>

LeftMotor ==
    \/ Goto("left_in1", "left_in2") /\ SetPin("left", 1)
    \/ Goto("left_in2", "left_pwm") /\ SetPin("left", 2)
    \/ Goto("left_pwm", "right_in1") /\ SetPwm("left")

RightMotor ==
    \/ Goto("right_in1", "right_in2") /\ SetPin("right", 1)
    \/ Goto("right_in2", "right_pwm") /\ SetPin("right", 2)
    \/ Goto("right_pwm", "delay") /\ SetPwm("right")

\* rt_thread_delay(5) ends.  History: driving forward without any rotation to
\* damp, one command held all through the cycle, which wheel is driven harder?
RecordSteering ==
    IF rate = 0 /\ way = POSITIVE_DIRECTION /\ direction \in Commands /\ held = {direction}
      THEN [steered EXCEPT ![direction] =
              IF ccr["left"] > ccr["right"] THEN 1
              ELSE IF ccr["left"] < ccr["right"] THEN -1 ELSE 0]
      ELSE steered

Wake ==
    /\ pc = "delay" /\ pc' = "turn_pid"
    /\ steered' = RecordSteering
    /\ UNCHANGED <<direction, cycleVars, motorVars, held>>

Cycle ==
    \/ \E r \in TurnRates : TurnPid(r)
    \/ TestLeft \/ TestRight
    \/ \E demand \in Demands : SetSpeed(demand)
    \/ LeftMotor \/ RightMotor
    \/ Wake

Next == Cycle \/ \E c \in Directions : Command(c)

\* ctrl is the thread of highest priority, and the interrupts that preempt it
\* return.
Spec == Init /\ [][Next]_vars /\ WF_vars(Cycle)

-----------------------------------------------------------------------------

(***************************************************************************)
(* The command a cycle adds was the direction at some moment of the cycle, *)
(* and a command held all through the cycle is added, although the         *)
(* interrupt may change the direction between the two tests                *)
(* (ctrl_turn_pid).                                                        *)
(***************************************************************************)
TurnTermJustified ==
    pc = "set_speed" =>
      /\ turn_pwm - rate \in {-50, 0, 50}
      /\ turn_pwm - rate = 50 => LEFT_DIRECTION \in held
      /\ turn_pwm - rate = -50 => RIGHT_DIRECTION \in held
      /\ turn_pwm = rate => \A c \in Commands : held # {c}

(***************************************************************************)
(* Neither motor is ever given more than the whole period, whatever pulse  *)
(* is asked, also one that wrapped round below zero, and also between the  *)
(* updates of the two motors (rt_drv_pwm_set).                             *)
(***************************************************************************)
DutyInRange == \A w \in Wheels : ccr[w] <= arr

(***************************************************************************)
(* The dead zone added before the turn is what keeps it harmless: a turn   *)
(* no larger than the dead zone asks both motors for a pulse well inside   *)
(* the period, and neither wraps round zero (ctrl_set_speed).              *)
(***************************************************************************)
Modest == turn_pwm <= DeadZone /\ turn_pwm >= -DeadZone
ModestTurnInRange ==
    pc = "delay" /\ Modest => \A w \in Wheels : pulse[w] <= MaxOut + DeadZone

(***************************************************************************)
(* When a cycle ends both wheels are driven the same way over the ground,  *)
(* though their bridges are wired the opposite way round and the pins are  *)
(* written one by one (rt_left_motor_set_pwm, rt_right_motor_set_pwm).     *)
(***************************************************************************)
WheelsPullTogether ==
    pc = "delay" =>
      /\ bridge["left"] \in {<<1, 0>>, <<0, 1>>}
      /\ bridge["right"] = <<bridge["left"][2], bridge["left"][1]>>

(***************************************************************************)
(* A turn command that stays is applied, cycle after cycle.                *)
(***************************************************************************)
CommandReachesWheels ==
    /\ <>[](direction = LEFT_DIRECTION) =>
         []<>(pc = "delay" /\ turn_pwm = rate + 50)
    /\ <>[](direction = RIGHT_DIRECTION) =>
         []<>(pc = "delay" /\ turn_pwm = rate - 50)

(***************************************************************************)
(* The remote's two turn commands turn the car to opposite sides           *)
(* (balance_car.js: "send turn left command", "send turn right command").  *)
(***************************************************************************)
TurnsOppose ==
    steered[LEFT_DIRECTION] # 0 =>
        steered[LEFT_DIRECTION] # steered[RIGHT_DIRECTION]
=============================================================================
