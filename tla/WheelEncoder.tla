---------------------------- MODULE WheelEncoder ----------------------------
(***************************************************************************)
(* How the control loop learns the speed of one wheel.  A hardware timer   *)
(* counts the edges of the wheel's encoder and raises an update flag when  *)
(* it wraps; the interrupt handler (drv_pulse_encoder.c) counts the wraps; *)
(* the control thread (dev_encoder.c, controler.c) reads both counts, then *)
(* clears both, none of it atomic, and keeps the reading only when it is   *)
(* plausible.                                                              *)
(***************************************************************************)
EXTENDS Integers

CONSTANTS
    Reload,      \* AUTO_RELOAD_VALUE: the timer counts from 0 to Reload
    Limit,       \* the largest plausible speed, 50
    Sign,        \* 1 for the left wheel, -1 for the right one
    MaxPulses    \* BOUND: edges a wheel can make between two clears

\* The timer is read as a signed 16-bit number. A wheel makes far fewer edges
\* in a control period than the timer can count.
ASSUME EncoderAssumption ==
    /\ Reload \in 1..32767 /\ Limit \in Nat /\ MaxPulses \in Nat
    /\ Sign \in {1, -1}
    /\ MaxPulses + Limit < Reload

VARIABLES
    \* the timer; its flags are bits
    cnt,         \* CNT
    down,        \* CR1.DIR: was the last edge a backward one?
    uif,         \* SR.UIF: wrapped, not yet served
    capture,     \* SR.CC1IF or CC2IF: the flags that raise the interrupt
    rolling,     \* does the wheel still turn?
    \* the interrupt handler
    isr,         \* "none", or the statement it is about to execute
    over_under_flowcount,
    \* the control thread
    pc,          \* the statement it is about to execute
    count,       \* what it has read of the timer
    flow,        \* what it has read of the wraps
    speed,       \* speed_parm.get_left_speed or get_right_speed
    \* history
    edges,       \* edges made since the timer was last cleared
    moved,       \* the way made since the timer was last cleared
    seen,        \* moved when the timer was read
    told,        \* seen for the last reading that was kept
    wrapped      \* has the timer wrapped since the wraps were last cleared?

timerVars  == <<cnt, down, uif, capture, rolling>>
readVars   == <<count, flow, seen>>
vars == <<timerVars, isr, over_under_flowcount, pc, readVars, speed,
          edges, moved, told, wrapped>>

Bit == {0, 1}

ThreadPoints == {"delay", "cnt_first", "flow_first", "cnt_second",
                 "flow_second", "clear_flow", "clear_cnt", "filter"}

TypeOK ==
    /\ cnt \in 0..Reload
    /\ down \in Bit /\ uif \in Bit /\ capture \in Bit /\ wrapped \in Bit
    /\ rolling \in BOOLEAN
    /\ isr \in {"none", "judge", "acknowledge"}
    /\ over_under_flowcount \in Int /\ flow \in Int
    /\ pc \in ThreadPoints
    /\ count \in 0..Reload
    /\ speed \in Int /\ moved \in Int /\ seen \in Int /\ told \in Int
    /\ edges \in 0..MaxPulses

-----------------------------------------------------------------------------

Init ==
    /\ cnt = 0 /\ down = 0 /\ uif = 0 /\ capture = 0
    /\ rolling = TRUE
    /\ isr = "none" /\ over_under_flowcount = 0
    /\ pc = "delay" /\ count = 0 /\ flow = 0 /\ speed = 0
    /\ edges = 0 /\ moved = 0 /\ seen = 0 /\ told = 0 /\ wrapped = 0

(***************************************************************************)
(* The hardware.  All four edges of a quadrature period count, the two     *)
(* rising ones are captured; an edge can come at any moment, also inside   *)
(* the handler.                                                            *)
(***************************************************************************)
Wraps(n, d) == n + d < 0 \/ n + d > Reload

Step(n, d) == IF n + d < 0 THEN Reload ELSE IF n + d > Reload THEN 0 ELSE n + d

Edge(d, rising) ==
    /\ rolling
    /\ edges < MaxPulses
    /\ cnt' = Step(cnt, d)
    /\ down' = IF d = -1 THEN 1 ELSE 0
    /\ uif' = IF Wraps(cnt, d) THEN 1 ELSE uif
    /\ capture' = IF rising THEN 1 ELSE capture
    /\ edges' = edges + 1
    /\ moved' = moved + d
    /\ wrapped' = IF Wraps(cnt, d) THEN 1 ELSE wrapped
    /\ UNCHANGED <<rolling, isr, over_under_flowcount, pc, readVars, speed, told>>

\* The wheel stops for good.
Halt ==
    /\ rolling
    /\ rolling' = FALSE
    /\ UNCHANGED <<cnt, down, uif, capture, isr, over_under_flowcount, pc,
                   readVars, speed, edges, moved, told, wrapped>>

(***************************************************************************)
(* rt_pulse_encoder_update_isr.  Only the capture flags raise it: a wrap   *)
(* is served with the next captured edge, and by the direction the wheel   *)
(* turns then.                                                             *)
(***************************************************************************)
IsrEnter ==
    /\ isr = "none" /\ capture = 1
    /\ uif' = 0
    /\ isr' = IF uif = 1 THEN "judge" ELSE "acknowledge"
    /\ UNCHANGED <<cnt, down, capture, rolling, over_under_flowcount, pc,
                   readVars, speed, edges, moved, told, wrapped>>

IsrJudge ==
    /\ isr = "judge"
    /\ over_under_flowcount' = over_under_flowcount + (IF down = 1 THEN -1 ELSE 1)
    /\ isr' = "acknowledge"
    /\ UNCHANGED <<timerVars, pc, readVars, speed, edges, moved, told, wrapped>>

IsrAcknowledge ==
    /\ isr = "acknowledge"
    /\ capture' = 0
    /\ isr' = "none"
    /\ UNCHANGED <<cnt, down, uif, rolling, over_under_flowcount, pc,
                   readVars, speed, edges, moved, told, wrapped>>

Isr == IsrEnter \/ IsrJudge \/ IsrAcknowledge

-----------------------------------------------------------------------------

(***************************************************************************)
(* The control thread, which no handler leaves unserved: a pending         *)
(* interrupt is taken before the thread's next instruction.                *)
(***************************************************************************)
At(here, next) ==
    /\ isr = "none" /\ capture = 0
    /\ pc = here /\ pc' = next
    /\ UNCHANGED <<down, uif, capture, rolling, isr>>

\* rt_thread_delay(5) ends. In rt_pulse_encoder_get_count the two operands of
\* the sum may be read in either order.
Wake(first) ==
    /\ At("delay", first)
    /\ UNCHANGED <<cnt, over_under_flowcount, readVars, speed, edges, moved,
                   told, wrapped>>

ReadCounter ==
    /\ At("cnt_first", "flow_second") \/ At("cnt_second", "clear_flow")
    /\ count' = cnt
    /\ seen' = moved
    /\ UNCHANGED <<cnt, over_under_flowcount, flow, speed, edges, moved, told,
                   wrapped>>

ReadFlow ==
    /\ At("flow_first", "cnt_second") \/ At("flow_second", "clear_flow")
    /\ flow' = over_under_flowcount
    /\ UNCHANGED <<cnt, over_under_flowcount, count, seen, speed, edges, moved,
                   told, wrapped>>

\* Mistaken variant of ClearFlow: the wraps are not cleared.
ClearFlow_Forgotten ==
    /\ At("clear_flow", "clear_cnt")
    /\ wrapped' = uif
    /\ UNCHANGED <<cnt, over_under_flowcount, readVars, speed, edges, moved, told>>

\* rt_pulse_encoder_clear_count: two stores. An update not yet served stays.
ClearFlow ==
    /\ At("clear_flow", "clear_cnt")
    /\ over_under_flowcount' = 0
    /\ wrapped' = uif
    /\ UNCHANGED <<cnt, readVars, speed, edges, moved, told>>

\* Mistaken variant of ClearCounter: the timer is not cleared.
ClearCounter_Forgotten ==
    /\ At("clear_cnt", "filter")
    /\ edges' = 0
    /\ moved' = 0
    /\ UNCHANGED <<cnt, over_under_flowcount, readVars, speed, told, wrapped>>

ClearCounter ==
    /\ At("clear_cnt", "filter")
    /\ cnt' = 0
    /\ edges' = 0
    /\ moved' = 0
    /\ UNCHANGED <<over_under_flowcount, readVars, speed, told, wrapped>>

\* The sum of rt_pulse_encoder_get_count, and ctrl_get_speed's test of it.
Reading == count + flow * Reload
\* Mistaken variant of Plausible: every reading is kept.
Plausible_Always(s) == TRUE

Plausible(s) == s <= Limit /\ s >= -Limit

Filter ==
    /\ At("filter", "delay")
    /\ IF Plausible(Sign * Reading)
         THEN speed' = Sign * Reading /\ told' = seen
         ELSE UNCHANGED <<speed, told>>
    /\ UNCHANGED <<cnt, over_under_flowcount, readVars, edges, moved, wrapped>>

Thread ==
    \/ Wake("cnt_first") \/ Wake("flow_first")
    \/ ReadCounter \/ ReadFlow
    \/ ClearFlow \/ ClearCounter
    \/ Filter

Next ==
    \/ \E d \in {1, -1}, rising \in BOOLEAN : Edge(d, rising)
    \/ Halt
    \/ Isr
    \/ Thread

(***************************************************************************)
(* The interrupt is enabled and ctrl is the thread of highest priority: a  *)
(* wheel that has stopped holds neither up.                                *)
(***************************************************************************)
Fairness == WF_vars(Isr) /\ WF_vars(Thread)

Spec == Init /\ [][Next]_vars /\ Fairness

-----------------------------------------------------------------------------

(***************************************************************************)
(* A reading that passes the plausibility test is the way the wheel made   *)
(* since the counter was cleared, up to the one edge that a backward wrap  *)
(* costs (AUTO_RELOAD_VALUE is one less than the timer's period), although *)
(* the two reads, the two clears and the handler interleave freely and the *)
(* handler may miss or misjudge wraps: every such error throws the reading *)
(* out of the plausible range (ctrl_get_speed).                            *)
(***************************************************************************)
Told(way) == Sign * (IF way < 0 THEN way + 1 ELSE way)
KeptReadingExact == speed = Told(told)

(***************************************************************************)
(* Errors do not accumulate: when the timer has not wrapped since the wrap *)
(* count was last cleared, and no wrap was left unserved then, the reading *)
(* is exact, whatever earlier readings were (rt_pulse_encoder_clear_count).*)
(***************************************************************************)
NoCarryOver == pc = "clear_flow" /\ wrapped = 0 => Reading = seen

(***************************************************************************)
(* A wheel that has stopped is eventually seen stopped for good: no update *)
(* left pending at the stop and no rejected reading leaves a stale speed   *)
(* in the speed loop.                                                      *)
(***************************************************************************)
StoppedWheelSeen == ~rolling ~> [](speed = 0)
=============================================================================
