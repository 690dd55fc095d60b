------------------------------ MODULE Mpu6050 ------------------------------
(***************************************************************************)
(* The motion sensor and its only user: rt_mpu6050_dev_init, which sets    *)
(* the sensor up at boot one register at a time, and ctrl_get_angle, which *)
(* reads it every control cycle (dev_mpu6050.c, controler.c).  A transfer  *)
(* is one step that tells the truth when it succeeds (RegisterTransfer);   *)
(* it can fail whenever the bus is disturbed, and a failed write may have  *)
(* reached the register all the same.  The results of the initialisation   *)
(* and of the readings are ignored by everybody but a log line.            *)
(***************************************************************************)
EXTENDS Integers, Sequences

CONSTANTS
    Boots,       \* the contents of the registers when the car is started
    Ids,         \* what the WHO_AM_I register may answer
    Samples      \* the accelerations and rotations the sensor can measure

Byte == 0..255
Registers == {"pwr", "gyro", "accel"}
MPU6050_WHO_AM_I == 104

ASSUME SensorAssumption ==
    /\ Boots \subseteq [Registers -> Byte]
    /\ Ids \subseteq Byte
    /\ Samples # {}

Axes == 1..3
Unset == "unset"      \* what the stack or the zeroed globals hold
NoSample == [i \in Axes |-> Unset]
Values == Samples \cup {Unset}

VARIABLES
    \* the sensor and the bus
    regs,
    id,
    now,         \* what the sensor measures
    quiet,       \* is the bus undisturbed?
    \* rt_mpu6050_dev_init
    pc,
    step,        \* which of its writes it is at
    byte,        \* the register read by rt_mpu6050_write_bits
    config,      \* mpu6050_dev.config: the two ranges
    res,         \* the sum of the results
    init,        \* what it returned
    \* the readings
    latched,     \* the sample the sensor gives out in a block read
    buffer,      \* the axes read of it
    got,
    samples,     \* the globals accel and gyro
    boot,        \* history: the registers at the start
    fresh        \* history: the globals read anew in this cycle

sensorVars == <<regs, id, now, quiet>>
initVars == <<step, byte, config, res, init>>
readVars == <<latched, buffer, got, samples>>
vars == <<sensorVars, pc, initVars, readVars, boot, fresh>>

Globals == {"accel", "gyro"}

-----------------------------------------------------------------------------

(***************************************************************************)
(* Bits of a register.  A field is named by its lowest bit and its length. *)
(***************************************************************************)
\* Mistaken variant of FieldOf: the mask is left out.
FieldOf_Unmasked(b, low, len) == b \div 2^low

\* rt_mpu6050_read_bits
FieldOf(b, low, len) == (b \div 2^low) % 2^len

\* rt_mpu6050_write_bits and, for one bit, rt_mpu6050_write_bit
Insert(b, w) == b + (w.data - FieldOf(b, w.low, w.len)) * 2^w.low

FS_SEL == [low |-> 3, len |-> 2]     \* also AFS_SEL

\* The writes of rt_mpu6050_dev_init: clock, the two ranges, no sleep.
Writes == <<
    [reg |-> "pwr",   low |-> 0, len |-> 3, data |-> 1],
    [reg |-> "gyro",  low |-> 3, len |-> 2, data |-> 0],
    [reg |-> "accel", low |-> 3, len |-> 2, data |-> 0],
    [reg |-> "pwr",   low |-> 6, len |-> 1, data |-> 0] >>

W == Writes[step]

Init ==
    /\ regs \in Boots /\ boot = regs
    /\ id \in Ids /\ now \in Samples /\ quiet \in BOOLEAN
    /\ pc = "who_am_i"
    /\ step = 1 /\ byte = 0 /\ res = 0 /\ init = "none"
    /\ config = [r \in {"gyro", "accel"} |-> 0]
    /\ latched = NoSample /\ buffer = NoSample /\ got = 0
    /\ samples = [g \in Globals |-> NoSample]
    /\ fresh = {}

-----------------------------------------------------------------------------

\* The car moves; the disturbance comes and goes.
Move ==
    /\ now' \in Samples \ {now}
    /\ UNCHANGED <<regs, id, quiet, pc, initVars, readVars, boot, fresh>>

Disturb ==
    /\ quiet' = ~quiet
    /\ UNCHANGED <<regs, id, now, pc, initVars, readVars, boot, fresh>>

Goto(here, next) == pc = here /\ pc' = next

Fails == ~quiet     \* a transfer may fail now

(***************************************************************************)
(* rt_mpu6050_dev_init.  It gives up early only before it has changed      *)
(* anything; from then on it goes through all the registers and adds up    *)
(* the results.                                                            *)
(***************************************************************************)
WhoAmI ==
    /\ UNCHANGED <<sensorVars, step, byte, config, res, readVars, boot, fresh>>
    /\ \/ /\ id = MPU6050_WHO_AM_I
          /\ Goto("who_am_i", "get_accel_range") /\ UNCHANGED init
       \/ /\ id # MPU6050_WHO_AM_I \/ Fails
          /\ Goto("who_am_i", "accel") /\ init' = "error"

\* rt_mpu6050_get_param: a failed reading leaves 0 in the cache.
GetRange(reg) ==
    /\ UNCHANGED <<sensorVars, step, byte, init, readVars, boot, fresh>>
    /\ \/ /\ config' = [config EXCEPT ![reg] = FieldOf(regs[reg], FS_SEL.low, FS_SEL.len)]
          /\ UNCHANGED res
       \/ /\ Fails
          /\ config' = [config EXCEPT ![reg] = 0]
          /\ res' = res + 1

GetAccelRange == Goto("get_accel_range", "get_gyro_range") /\ GetRange("accel")
GetGyroRange  == Goto("get_gyro_range", "read_bits") /\ GetRange("gyro")

\* rt_mpu6050_set_param caches a range whether or not it reached the sensor.
Cached == IF W.reg \in DOMAIN config THEN [config EXCEPT ![W.reg] = W.data] ELSE config

\* Mistaken variant of Finish: only the last result counts.
Finish_LastOnly(error) ==
    /\ res' = res + error
    /\ config' = Cached
    /\ IF step < Len(Writes)
         THEN pc' = "read_bits" /\ step' = step + 1 /\ UNCHANGED init
         ELSE pc' = "accel" /\ init' = (IF error = 0 THEN "ok" ELSE "error") /\ UNCHANGED step

\* One write is over: the next one, or the end.
Finish(error) ==
    /\ res' = res + error
    /\ config' = Cached
    /\ IF step < Len(Writes)
         THEN pc' = "read_bits" /\ step' = step + 1 /\ UNCHANGED init
         ELSE pc' = "accel" /\ init' = (IF res' = 0 THEN "ok" ELSE "error") /\ UNCHANGED step

ReadBits ==
    /\ pc = "read_bits"
    /\ UNCHANGED <<sensorVars, readVars, boot, fresh>>
    /\ \/ pc' = "write_bits" /\ byte' = regs[W.reg] /\ UNCHANGED <<step, config, res, init>>
       \/ Fails /\ Finish(1) /\ UNCHANGED byte

WriteBits ==
    /\ pc = "write_bits"
    /\ byte' = 0
    /\ UNCHANGED <<id, now, quiet, readVars, boot, fresh>>
    /\ \/ Finish(0) /\ regs' = [regs EXCEPT ![W.reg] = Insert(byte, W)]
       \/ Fails /\ Finish(1) /\ regs' \in {regs, [regs EXCEPT ![W.reg] = Insert(byte, W)]}

-----------------------------------------------------------------------------

(***************************************************************************)
(* rt_mpu6050_get_accel_raw and rt_mpu6050_get_gyro_raw.  The sensor gives *)
(* out one sample per block, axis after axis; the local buffer starts with *)
(* whatever was on the stack.  The sample reaches the global only when all *)
(* of the block has come through.                                          *)
(***************************************************************************)
Reading(g, next) ==
    /\ UNCHANGED <<sensorVars, initVars, boot>>
    /\ pc = g
    /\ \/ /\ got = 0 /\ latched = NoSample          \* the block begins
          /\ latched' = [i \in Axes |-> now] /\ buffer' = NoSample
          /\ UNCHANGED <<pc, got, samples, fresh>>
       \/ /\ latched # NoSample /\ got < 3
          /\ buffer' = [buffer EXCEPT ![got + 1] = latched[got + 1]]
          /\ got' = got + 1
          /\ UNCHANGED <<pc, latched, samples, fresh>>
       \/ /\ got = 3                                \* RT_EOK
          /\ samples' = [samples EXCEPT ![g] = buffer]
          /\ fresh' = fresh \cup {g}
          /\ pc' = next /\ got' = 0 /\ latched' = NoSample /\ buffer' = NoSample

\* Mistaken variant of Failed: the result is not looked at.
Failed_Copied(g, next) ==
    /\ Fails /\ Goto(g, next)
    /\ got' = 0 /\ latched' = NoSample /\ buffer' = NoSample
    /\ samples' = [samples EXCEPT ![g] = buffer]
    /\ UNCHANGED <<sensorVars, initVars, boot, fresh>>

\* An error, at any point of the transfer: the global keeps the old sample.
Failed(g, next) ==
    /\ Fails /\ Goto(g, next)
    /\ got' = 0 /\ latched' = NoSample /\ buffer' = NoSample
    /\ UNCHANGED <<sensorVars, initVars, samples, boot, fresh>>

Accel == Reading("accel", "gyro") \/ Failed("accel", "gyro")
Gyro  == Reading("gyro", "angle") \/ Failed("gyro", "angle")

\* Mistaken variant of Cycle: the acceleration is read only once.
Cycle_GyroOnly ==
    /\ Goto("angle", "gyro")
    /\ fresh' = {}
    /\ UNCHANGED <<sensorVars, initVars, readVars, boot>>

\* The angle is computed from the two globals; the rest of the cycle follows.
Cycle ==
    /\ Goto("angle", "accel")
    /\ fresh' = {}
    /\ UNCHANGED <<sensorVars, initVars, readVars, boot>>

Thread ==
    \/ WhoAmI \/ GetAccelRange \/ GetGyroRange \/ ReadBits \/ WriteBits
    \/ Accel \/ Gyro
    \/ Cycle

Next == Thread \/ Move \/ Disturb

\* A transfer always returns (SoftI2c, Returns) and nothing of higher priority
\* runs: the thread gets on.
Spec == Init /\ [][Next]_vars /\ WF_vars(Thread)

-----------------------------------------------------------------------------

Results == {"none", "ok", "error"}
Points == {"who_am_i", "get_accel_range", "get_gyro_range", "read_bits",
           "write_bits", "accel", "gyro", "angle"}

TypeOK ==
    /\ regs \in [Registers -> Byte] /\ boot \in Boots /\ id \in Ids
    /\ now \in Samples /\ quiet \in BOOLEAN
    /\ pc \in Points
    /\ step \in DOMAIN Writes /\ byte \in Byte
    /\ config \in [{"gyro", "accel"} -> 0..3]
    /\ res \in 0..6 /\ init \in Results
    /\ latched \in [Axes -> Values] /\ buffer \in [Axes -> Values] /\ got \in 0..3
    /\ samples \in [Globals -> [Axes -> Values]]
    /\ fresh \subseteq Globals

(***************************************************************************)
(* When the initialisation reports success the sensor is awake, on the     *)
(* right clock and in the ranges the driver has cached, and every bit that *)
(* is none of these is as the sensor had it -- although each register is   *)
(* read and written back in separate transfers, one register twice, and    *)
(* the first error stops nothing (rt_mpu6050_dev_init).                    *)
(***************************************************************************)
Configured ==
    init = "ok" =>
      /\ \A w \in {Writes[i] : i \in DOMAIN Writes} :
            FieldOf(regs[w.reg], w.low, w.len) = w.data
      /\ \A r \in DOMAIN config : config[r] = FieldOf(regs[r], FS_SEL.low, FS_SEL.len)
      /\ regs["pwr"] = Insert(Insert(boot["pwr"], Writes[1]), Writes[4])
      /\ regs["gyro"] = Insert(boot["gyro"], Writes[2])
      /\ regs["accel"] = Insert(boot["accel"], Writes[3])

(***************************************************************************)
(* The three axes the angle is computed from always belong to one sample,  *)
(* wherever a transfer broke off: a torn sample would look like a sudden   *)
(* tilt (rt_mpu6050_get_accel_raw, rt_mpu6050_get_gyro_raw).               *)
(***************************************************************************)
SampleWhole == \A g \in Globals : \A i \in Axes : samples[g][i] = samples[g][1]

(***************************************************************************)
(* No failure sticks: once the bus is quiet for good, every angle is       *)
(* computed from two samples read in the same cycle, whatever the          *)
(* initialisation had reported (ctrl_get_angle, ctrl_thread_entry).        *)
(***************************************************************************)
FreshAgain ==
    <>[]quiet => <>[](pc = "angle" => fresh = Globals)
=============================================================================
