--------------------------- MODULE Mpu6050_proof ---------------------------
(***************************************************************************)
(* The motion sensor, for whatever its registers held at the start, its    *)
(* identity and the samples it measures: what a successful initialisation  *)
(* means, bit by bit, and that no sample is torn.                          *)
(***************************************************************************)
EXTENDS Mpu6050, TLAPS

(***************************************************************************)
(* The bits.                                                               *)
(***************************************************************************)
LEMMA WritesAre ==
    /\ Len(Writes) = 4 /\ DOMAIN Writes = 1..4
    /\ Writes[1].low = 0 /\ Writes[1].len = 3 /\ Writes[1].data = 1
    /\ Writes[2].low = 3 /\ Writes[2].len = 2 /\ Writes[2].data = 0
    /\ Writes[3].low = 3 /\ Writes[3].len = 2 /\ Writes[3].data = 0
    /\ Writes[4].low = 6 /\ Writes[4].len = 1 /\ Writes[4].data = 0
    /\ Writes[1].reg = "pwr" /\ Writes[2].reg = "gyro"
    /\ Writes[3].reg = "accel" /\ Writes[4].reg = "pwr"
BY DEF Writes

LEMMA FieldsAre ==
    ASSUME NEW b \in Byte
    PROVE  /\ FieldOf(b, 0, 3) = b % 8
           /\ FieldOf(b, 3, 2) = (b \div 8) % 4
           /\ FieldOf(b, 6, 1) = (b \div 64) % 2
<1>1. 2^0 = 1 /\ 2^1 = 2 /\ 2^2 = 4 /\ 2^3 = 8 /\ 2^6 = 64
  OBVIOUS
<1> QED
  BY <1>1 DEF FieldOf, Byte

LEMMA InsertsAre ==
    ASSUME NEW b \in Byte
    PROVE  /\ Insert(b, Writes[1]) = b + (1 - (b % 8))
           /\ Insert(b, Writes[2]) = b - 8 * ((b \div 8) % 4)
           /\ Insert(b, Writes[3]) = b - 8 * ((b \div 8) % 4)
           /\ Insert(b, Writes[4]) = b - 64 * ((b \div 64) % 2)
<1>1. /\ Insert(b, Writes[1]) = b + (1 - FieldOf(b, 0, 3)) * 2^0
      /\ Insert(b, Writes[2]) = b + (0 - FieldOf(b, 3, 2)) * 2^3
      /\ Insert(b, Writes[3]) = b + (0 - FieldOf(b, 3, 2)) * 2^3
      /\ Insert(b, Writes[4]) = b + (0 - FieldOf(b, 6, 1)) * 2^6
  BY WritesAre DEF Insert
<1>2. 2^0 = 1 /\ 2^3 = 8 /\ 2^6 = 64
  OBVIOUS
<1>3. /\ FieldOf(b, 0, 3) = b % 8
      /\ FieldOf(b, 3, 2) = (b \div 8) % 4
      /\ FieldOf(b, 6, 1) = (b \div 64) % 2
  BY FieldsAre
<1>4. Insert(b, Writes[1]) = b + (1 - (b % 8)) * 1
  BY <1>1, <1>2, <1>3
<1>5. /\ Insert(b, Writes[2]) = b + (0 - ((b \div 8) % 4)) * 8
      /\ Insert(b, Writes[3]) = b + (0 - ((b \div 8) % 4)) * 8
  BY <1>1, <1>2, <1>3
<1>6. Insert(b, Writes[4]) = b + (0 - ((b \div 64) % 2)) * 64
  BY <1>1, <1>2, <1>3
<1>7. /\ b \in Int /\ b % 8 \in Int
      /\ (b \div 8) % 4 \in Int /\ (b \div 64) % 2 \in Int
  BY DEF Byte
<1> QED
  BY <1>4, <1>5, <1>6, <1>7

\* A write puts its data in its field and makes a byte of a byte.
LEMMA InsertSetsField ==
    ASSUME NEW b \in Byte, NEW i \in 1..4
    PROVE  /\ Insert(b, Writes[i]) \in Byte
           /\ FieldOf(Insert(b, Writes[i]), Writes[i].low, Writes[i].len)
                = Writes[i].data
<1> USE DEF Byte
<1>1. CASE i = 1
  <2>1. b + (1 - (b % 8)) \in 0..255
    OBVIOUS
  <2>2. (b + (1 - (b % 8))) % 8 = 1
    OBVIOUS
  <2> DEFINE x == Insert(b, Writes[i])
  <2>3. x = b + (1 - (b % 8))
    BY <1>1, InsertsAre
  <2> HIDE DEF x
  <2>4. x \in 0..255 /\ x % 8 = 1
    BY <2>1, <2>2, <2>3
  <2>5. FieldOf(x, 0, 3) = 1
    BY <2>4, FieldsAre
  <2>6. Writes[i].low = 0 /\ Writes[i].len = 3 /\ Writes[i].data = 1
    BY <1>1, WritesAre
  <2>7. FieldOf(x, Writes[i].low, Writes[i].len) = Writes[i].data
    BY <2>5, <2>6
  <2> QED
    BY <2>4, <2>7 DEF x
<1>2. CASE i \in {2, 3}
  <2>1. b - 8 * ((b \div 8) % 4) \in 0..255
    OBVIOUS
  <2>2. ((b - 8 * ((b \div 8) % 4)) \div 8) % 4 = 0
    OBVIOUS
  <2> DEFINE x == Insert(b, Writes[i])
  <2>3. x = b - 8 * ((b \div 8) % 4)
    BY <1>2, InsertsAre
  <2> HIDE DEF x
  <2>4. x \in 0..255 /\ (x \div 8) % 4 = 0
    BY <2>1, <2>2, <2>3
  <2>5. FieldOf(x, 3, 2) = 0
    BY <2>4, FieldsAre
  <2>6. Writes[i].low = 3 /\ Writes[i].len = 2 /\ Writes[i].data = 0
    BY <1>2, WritesAre
  <2>7. FieldOf(x, Writes[i].low, Writes[i].len) = Writes[i].data
    BY <2>5, <2>6
  <2> QED
    BY <2>4, <2>7 DEF x
<1>3. CASE i = 4
  <2>1. b - 64 * ((b \div 64) % 2) \in 0..255
    OBVIOUS
  <2>2. ((b - 64 * ((b \div 64) % 2)) \div 64) % 2 = 0
    OBVIOUS
  <2> DEFINE x == Insert(b, Writes[i])
  <2>3. x = b - 64 * ((b \div 64) % 2)
    BY <1>3, InsertsAre
  <2> HIDE DEF x
  <2>4. x \in 0..255 /\ (x \div 64) % 2 = 0
    BY <2>1, <2>2, <2>3
  <2>5. FieldOf(x, 6, 1) = 0
    BY <2>4, FieldsAre
  <2>6. Writes[i].low = 6 /\ Writes[i].len = 1 /\ Writes[i].data = 0
    BY <1>3, WritesAre
  <2>7. FieldOf(x, Writes[i].low, Writes[i].len) = Writes[i].data
    BY <2>5, <2>6
  <2> QED
    BY <2>4, <2>7 DEF x
<1> QED
  BY <1>1, <1>2, <1>3

\* Waking the sensor leaves its clock alone.
LEMMA WakeKeepsClock ==
    ASSUME NEW b \in Byte
    PROVE  FieldOf(Insert(b, Writes[4]), 0, 3) = FieldOf(b, 0, 3)
<1> USE DEF Byte
<1>1. b - 64 * ((b \div 64) % 2) \in 0..255
  OBVIOUS
<1>2. (b - 64 * ((b \div 64) % 2)) % 8 = b % 8
  OBVIOUS
<1> QED
  BY <1>1, <1>2, InsertsAre, FieldsAre

LEMMA RangeInRange ==
    ASSUME NEW b \in Byte
    PROVE  FieldOf(b, FS_SEL.low, FS_SEL.len) \in 0..3
<1>1. FieldOf(b, 3, 2) = (b \div 8) % 4 /\ (b \div 8) % 4 \in 0..3
  BY FieldsAre DEF Byte
<1> QED
  BY <1>1 DEF FS_SEL

-----------------------------------------------------------------------------
(***************************************************************************)
(* Steps of the initialisation, steps of the readings and of the world.    *)
(***************************************************************************)
InitStep == WhoAmI \/ GetAccelRange \/ GetGyroRange \/ ReadBits \/ WriteBits
ReadStep == Accel \/ Gyro \/ Cycle

LEMMA NextByKind == Next <=> InitStep \/ ReadStep \/ Move \/ Disturb
BY Zenon DEF Next, Thread, InitStep, ReadStep

LEMMA InitStepFrame ==
    ASSUME InitStep
    PROVE  UNCHANGED <<id, now, quiet, readVars, boot, fresh>>
BY DEF InitStep, WhoAmI, GetAccelRange, GetGyroRange, GetRange, ReadBits,
       WriteBits, sensorVars

LEMMA ReadStepFrame ==
    ASSUME ReadStep
    PROVE  /\ UNCHANGED <<sensorVars, initVars, boot>>
           /\ pc \in {"accel", "gyro", "angle"} /\ pc' \in {"accel", "gyro", "angle"}
BY DEF ReadStep, Accel, Gyro, Cycle, Reading, Failed, Goto

LEMMA WorldStepFrame ==
    ASSUME Move \/ Disturb \/ UNCHANGED vars
    PROVE  UNCHANGED <<regs, id, pc, initVars, readVars, boot, fresh>>
BY DEF Move, Disturb, vars, sensorVars

-----------------------------------------------------------------------------
(***************************************************************************)
(* Types.  Each of the six transfers of the initialisation adds at most    *)
(* one to the sum of the results.                                          *)
(***************************************************************************)
Ranges == {"gyro", "accel"}
ResBounded ==
    /\ pc \in {"who_am_i", "get_accel_range"} => res = 0
    /\ pc = "get_gyro_range" => res <= 1
    /\ pc \in {"read_bits", "write_bits"} => res <= step + 1

InitTyped ==
    /\ regs \in [Registers -> Byte]
    /\ pc \in Points
    /\ step \in 1..4 /\ byte \in Byte
    /\ config \in [Ranges -> 0..3]
    /\ res \in 0..6 /\ init \in Results
    /\ ResBounded

\* The end of one write.
LEMMA FinishIsTyped ==
    ASSUME InitTyped, NEW error \in {0, 1}, Finish(error),
           pc \in {"read_bits", "write_bits"}
    PROVE  /\ pc' \in Points /\ step' \in 1..4 /\ res' \in 0..6
           /\ config' \in [Ranges -> 0..3] /\ init' \in Results
           /\ ResBounded'
<1>1. config' \in [Ranges -> 0..3]
  <2>1. W.data \in 0..3
    BY WritesAre DEF InitTyped, W
  <2> QED
    BY <2>1 DEF Finish, Cached, InitTyped
<1>2. res \in 0..6 /\ step \in 1..4 /\ res <= step + 1 /\ res' = res + error
      /\ Len(Writes) = 4
  BY WritesAre DEF InitTyped, ResBounded, Finish
<1>3. CASE step < 4
  BY <1>1, <1>2, <1>3 DEF Finish, Points, InitTyped, ResBounded
<1>4. CASE step = 4
  BY <1>1, <1>2, <1>4 DEF Finish, Points, InitTyped, ResBounded, Results
<1> QED
  BY <1>2, <1>3, <1>4

LEMMA InitStepKeepsTypes ==
    ASSUME InitTyped, InitStep
    PROVE  InitTyped'
<1>1. CASE WhoAmI
  BY <1>1 DEF WhoAmI, Goto, sensorVars, InitTyped, Points, Results, ResBounded
<1>2. ASSUME NEW reg \in Ranges, GetRange(reg), res < 6
      PROVE  /\ config' \in [Ranges -> 0..3] /\ res' \in {res, res + 1}
             /\ res' \in 0..6 /\ UNCHANGED <<regs, step, byte, init>>
  <2>1. FieldOf(regs[reg], FS_SEL.low, FS_SEL.len) \in 0..3
    BY RangeInRange DEF InitTyped, Ranges, Registers
  <2> QED
    BY <1>2, <2>1 DEF GetRange, sensorVars, InitTyped
<1>3. CASE GetAccelRange
  BY <1>2, <1>3 DEF GetAccelRange, Goto, InitTyped, ResBounded, Points, Ranges
<1>4. CASE GetGyroRange
  BY <1>2, <1>4 DEF GetGyroRange, Goto, InitTyped, ResBounded, Points, Ranges
<1>5. CASE ReadBits
  <2>1. W.reg \in Registers
    BY WritesAre DEF InitTyped, W, Registers
  <2>2. regs' = regs /\ pc = "read_bits"
    BY <1>5 DEF ReadBits, sensorVars
  <2>3. CASE pc' = "write_bits" /\ byte' = regs[W.reg]
             /\ UNCHANGED <<step, config, res, init>>
    BY <2>1, <2>2, <2>3 DEF InitTyped, ResBounded, Points
  <2>4. CASE Finish(1) /\ UNCHANGED byte
    BY <2>2, <2>4, FinishIsTyped DEF InitTyped
  <2> QED
    BY <1>5, <2>3, <2>4 DEF ReadBits
<1>6. CASE WriteBits
  <2>1. Insert(byte, W) \in Byte /\ W.reg \in Registers
    BY InsertSetsField, WritesAre DEF InitTyped, W, Registers
  <2>2. regs' \in [Registers -> Byte] /\ byte' \in Byte
    BY <1>6, <2>1 DEF WriteBits, InitTyped, Byte
  <2>3. Finish(0) \/ Finish(1)
    BY <1>6 DEF WriteBits
  <2> QED
    BY <1>6, <2>2, <2>3, FinishIsTyped DEF WriteBits, InitTyped
<1> QED
  BY <1>1, <1>3, <1>4, <1>5, <1>6 DEF InitStep

LEMMA NextKeepsInitTyped == InitTyped /\ [Next]_vars => InitTyped'
<1> SUFFICES ASSUME InitTyped, [Next]_vars PROVE InitTyped'
  OBVIOUS
<1>1. CASE InitStep
  BY <1>1, InitStepKeepsTypes
<1>2. CASE ReadStep
  BY <1>2, ReadStepFrame DEF sensorVars, initVars, InitTyped, ResBounded, Points
<1>3. CASE Move \/ Disturb \/ UNCHANGED vars
  BY <1>3, WorldStepFrame DEF initVars, InitTyped, ResBounded
<1> QED
  BY <1>1, <1>2, <1>3, NextByKind

LEMMA AxesAre == Axes = {1, 2, 3} /\ NoSample \in [Axes -> Values]
BY DEF Axes, NoSample, Values

ReadTyped ==
    /\ latched \in [Axes -> Values] /\ buffer \in [Axes -> Values] /\ got \in 0..3
    /\ samples \in [Globals -> [Axes -> Values]]
    /\ fresh \subseteq Globals
WorldTyped == now \in Samples /\ id \in Ids /\ boot \in Boots

LEMMA ReadingIsTyped ==
    ASSUME ReadTyped, WorldTyped, NEW g \in Globals, NEW next,
           Reading(g, next) \/ Failed(g, next)
    PROVE  ReadTyped'
<1> USE AxesAre DEF ReadTyped
<1>1. CASE Reading(g, next)
  <2>1. CASE got = 0 /\ latched' = [i \in Axes |-> now] /\ buffer' = NoSample
             /\ UNCHANGED <<got, samples, fresh>>
    BY <2>1 DEF WorldTyped, Values
  <2>2. CASE /\ got < 3 /\ got' = got + 1
             /\ buffer' = [buffer EXCEPT ![got + 1] = latched[got + 1]]
             /\ UNCHANGED <<latched, samples, fresh>>
    BY <2>2 DEF Axes
  <2>3. CASE /\ samples' = [samples EXCEPT ![g] = buffer] /\ fresh' = fresh \cup {g}
             /\ got' = 0 /\ latched' = NoSample /\ buffer' = NoSample
    BY <2>3
  <2> QED
    BY <1>1, <2>1, <2>2, <2>3 DEF Reading
<1>2. CASE Failed(g, next)
  BY <1>2 DEF Failed
<1> QED
  BY <1>1, <1>2

LEMMA NextKeepsReadTyped ==
    ReadTyped /\ WorldTyped /\ [Next]_vars => (ReadTyped /\ WorldTyped)'
<1> SUFFICES ASSUME ReadTyped, WorldTyped, [Next]_vars
             PROVE  (ReadTyped /\ WorldTyped)'
  OBVIOUS
<1>1. CASE InitStep
  BY <1>1, InitStepFrame DEF readVars, ReadTyped, WorldTyped
<1>2. CASE ReadStep
  <2>1. WorldTyped'
    BY <1>2, ReadStepFrame DEF sensorVars, WorldTyped
  <2>2. CASE Accel \/ Gyro
    BY <2>1, <2>2, ReadingIsTyped DEF Accel, Gyro, Globals
  <2>3. CASE Cycle
    BY <2>1, <2>3 DEF Cycle, readVars, ReadTyped
  <2> QED
    BY <1>2, <2>2, <2>3 DEF ReadStep
<1>3. CASE Move \/ Disturb \/ UNCHANGED vars
  <2>1. now' \in Samples
    BY <1>3 DEF Move, Disturb, vars, sensorVars, WorldTyped
  <2> QED
    BY <1>3, <2>1, WorldStepFrame DEF readVars, ReadTyped, WorldTyped
<1> QED
  BY <1>1, <1>2, <1>3, NextByKind

QuietTyped == quiet \in BOOLEAN

LEMMA NextKeepsQuiet == QuietTyped /\ [Next]_vars => QuietTyped'
<1> SUFFICES ASSUME QuietTyped, [Next]_vars PROVE QuietTyped'
  OBVIOUS
<1> USE DEF QuietTyped
<1>1. CASE InitStep
  BY <1>1, InitStepFrame, Zenon
<1>2. CASE ReadStep
  BY <1>2, ReadStepFrame, Zenon DEF sensorVars
<1>3. CASE Move \/ Disturb \/ UNCHANGED vars
  BY <1>3, Zenon DEF Move, Disturb, vars, sensorVars
<1> QED
  BY <1>1, <1>2, <1>3, NextByKind

LEMMA InitIsTyped == Init => InitTyped /\ ReadTyped /\ WorldTyped
<1> SUFFICES ASSUME Init PROVE InitTyped /\ ReadTyped /\ WorldTyped
  OBVIOUS
<1>1. regs \in [Registers -> Byte] /\ WorldTyped
  BY SensorAssumption DEF SensorAssumption, Init, WorldTyped
<1>2. InitTyped
  BY <1>1 DEF Init, InitTyped, ResBounded, Points, Results, Byte, Ranges
<1>3. ReadTyped
  BY AxesAre DEF Init, ReadTyped
<1> QED
  BY <1>1, <1>2, <1>3

(***************************************************************************)
(* Every variable keeps its type: the bits of a register written one field *)
(* at a time remain a byte, and the sum of the results counts at most the  *)
(* six transfers.                                                          *)
(***************************************************************************)
THEOREM TypeCorrect == Spec => []TypeOK
<1>1. Init => QuietTyped
  BY Zenon DEF Init, QuietTyped
<1>2. InitTyped /\ ReadTyped /\ WorldTyped /\ QuietTyped => TypeOK
  BY WritesAre, Zenon DEF InitTyped, ReadTyped, WorldTyped, QuietTyped, TypeOK, Ranges
<1> QED
  BY <1>1, <1>2, InitIsTyped, NextKeepsInitTyped, NextKeepsReadTyped,
     NextKeepsQuiet, PTL DEF Spec

-----------------------------------------------------------------------------
(***************************************************************************)
(* No torn sample.  What the sensor gives out in a block is one sample,    *)
(* and the axes read so far are those of the block under way.              *)
(***************************************************************************)
Whole(v) == \A i \in Axes : v[i] = v[1]
SampleInv ==
    /\ Whole(latched)
    /\ \A i \in Axes : i <= got => buffer[i] = latched[i]
    /\ SampleWhole

LEMMA ReadingKeepsSamples ==
    ASSUME ReadTyped, SampleInv, NEW g \in Globals, NEW next,
           Reading(g, next) \/ Failed(g, next)
    PROVE  SampleInv'
<1> USE AxesAre DEF ReadTyped, SampleInv, Whole
<1>1. Whole(NoSample)
  BY DEF NoSample
<1>2. CASE Reading(g, next)
  <2>1. CASE got = 0 /\ latched' = [i \in Axes |-> now] /\ buffer' = NoSample
             /\ UNCHANGED <<got, samples>>
    BY <2>1 DEF SampleWhole
  <2>2. CASE /\ got < 3 /\ got' = got + 1
             /\ buffer' = [buffer EXCEPT ![got + 1] = latched[got + 1]]
             /\ UNCHANGED <<latched, samples>>
    BY <2>2 DEF SampleWhole
  <2>3. CASE /\ got = 3 /\ samples' = [samples EXCEPT ![g] = buffer]
             /\ got' = 0 /\ latched' = NoSample /\ buffer' = NoSample
    <3>1. Whole(buffer)
      BY <2>3
    <3>2. \A h \in Globals : Whole(samples'[h])
      BY <2>3, <3>1 DEF SampleWhole
    <3> QED
      BY <1>1, <2>3, <3>2 DEF SampleWhole
  <2> QED
    BY <1>2, <2>1, <2>2, <2>3 DEF Reading
<1>3. CASE Failed(g, next)
  BY <1>1, <1>3 DEF Failed, SampleWhole
<1> QED
  BY <1>2, <1>3

LEMMA NextKeepsSamples == ReadTyped /\ SampleInv /\ [Next]_vars => SampleInv'
<1> SUFFICES ASSUME ReadTyped, SampleInv, [Next]_vars PROVE SampleInv'
  OBVIOUS
<1>1. ASSUME UNCHANGED readVars PROVE SampleInv'
  BY <1>1 DEF readVars, SampleInv, Whole, SampleWhole
<1>2. CASE InitStep
  BY <1>1, <1>2, InitStepFrame
<1>3. CASE Accel \/ Gyro
  BY <1>3, ReadingKeepsSamples DEF Accel, Gyro, Globals
<1>4. CASE Cycle
  BY <1>1, <1>4 DEF Cycle
<1>5. CASE Move \/ Disturb \/ UNCHANGED vars
  BY <1>1, <1>5, WorldStepFrame
<1> QED
  BY <1>2, <1>3, <1>4, <1>5, NextByKind DEF ReadStep

(***************************************************************************)
(* The three axes the angle is computed from always belong to one sample,  *)
(* wherever a transfer broke off and whatever the buffer held.             *)
(***************************************************************************)
THEOREM SampleWholeCorrect == Spec => []SampleWhole
<1>1. Init => SampleInv
  BY AxesAre DEF Init, SampleInv, Whole, SampleWhole, NoSample
<1>2. SampleInv => SampleWhole
  BY DEF SampleInv
<1> QED
  BY <1>1, <1>2, InitIsTyped, NextKeepsReadTyped, NextKeepsSamples, PTL DEF Spec

-----------------------------------------------------------------------------
(***************************************************************************)
(* The initialisation.  As long as no transfer has failed, each register   *)
(* holds what the writes before step n make of its content at the start,   *)
(* and so does the cache; between its two transfers a write has the        *)
(* register's content at hand.  Afterwards nothing is written any more.    *)
(***************************************************************************)
Written(n) ==
    /\ regs["pwr"] = IF n > 4 THEN Insert(Insert(boot["pwr"], Writes[1]), Writes[4])
                     ELSE IF n > 1 THEN Insert(boot["pwr"], Writes[1])
                     ELSE boot["pwr"]
    /\ regs["gyro"] = IF n > 2 THEN Insert(boot["gyro"], Writes[2]) ELSE boot["gyro"]
    /\ regs["accel"] = IF n > 3 THEN Insert(boot["accel"], Writes[3])
                                ELSE boot["accel"]
    /\ n > 2 => config["gyro"] = 0
    /\ n > 3 => config["accel"] = 0

ConfigInv ==
    /\ pc \in {"who_am_i", "get_accel_range", "get_gyro_range"} =>
         step = 1 /\ regs = boot /\ init = "none"
    /\ pc \in {"read_bits", "write_bits"} =>
         init = "none" /\ (res = 0 => Written(step))
    /\ pc = "write_bits" => byte = regs[W.reg]
    /\ init = "ok" => pc \in {"accel", "gyro", "angle"} /\ Written(5)

LEMMA UnwrittenStays ==
    ASSUME NEW n, UNCHANGED <<regs, config, boot>>, Written(n)
    PROVE  Written(n)'
BY DEF Written

\* One write that comes through.
LEMMA WriteComesThrough ==
    ASSUME InitTyped, Written(step), byte = regs[W.reg], UNCHANGED boot,
           config' = Cached, regs' = [regs EXCEPT ![W.reg] = Insert(byte, W)]
    PROVE  /\ step = 1 => Written(2)'
           /\ step = 2 => Written(3)'
           /\ step = 3 => Written(4)'
           /\ step = 4 => Written(5)'
<1> USE DEF InitTyped, Written, Registers, Ranges
<1>1. DOMAIN config = Ranges
  OBVIOUS
<1>2. CASE step = 1
  <2>1. W = Writes[1] /\ W.reg = "pwr"
    BY <1>2, WritesAre DEF W
  <2> QED
    BY <1>1, <1>2, <2>1 DEF Cached
<1>3. CASE step = 2
  <2>1. W = Writes[2] /\ W.reg = "gyro" /\ W.data = 0
    BY <1>3, WritesAre DEF W
  <2> QED
    BY <1>1, <1>3, <2>1 DEF Cached
<1>4. CASE step = 3
  <2>1. W = Writes[3] /\ W.reg = "accel" /\ W.data = 0
    BY <1>4, WritesAre DEF W
  <2> QED
    BY <1>1, <1>4, <2>1 DEF Cached
<1>5. CASE step = 4
  <2>1. W = Writes[4] /\ W.reg = "pwr"
    BY <1>5, WritesAre DEF W
  <2> QED
    BY <1>1, <1>5, <2>1 DEF Cached
<1> QED
  BY <1>2, <1>3, <1>4, <1>5

LEMMA InitStepKeepsConfig ==
    ASSUME InitTyped, ConfigInv, InitStep
    PROVE  ConfigInv'
<1>1. boot' = boot
  BY InitStepFrame
<1>2. step \in 1..4 /\ res \in 0..6 /\ Len(Writes) = 4
  BY WritesAre DEF InitTyped
<1>3. CASE WhoAmI
  BY <1>1, <1>3 DEF WhoAmI, Goto, sensorVars, ConfigInv
<1>4. CASE GetAccelRange
  BY <1>1, <1>4 DEF GetAccelRange, GetRange, Goto, sensorVars, ConfigInv
<1>5. CASE GetGyroRange
  BY <1>1, <1>5 DEF GetGyroRange, GetRange, Goto, sensorVars, ConfigInv, Written
\* After a transfer that failed the sum of the results is no longer 0.
<1>6. ASSUME Finish(1), init = "none" PROVE ConfigInv'
  BY <1>2, <1>6 DEF Finish, ConfigInv
<1>7. CASE ReadBits
  <2>1. regs' = regs /\ pc = "read_bits" /\ init = "none"
    BY <1>7 DEF ReadBits, sensorVars, ConfigInv
  <2>2. CASE pc' = "write_bits" /\ byte' = regs[W.reg]
             /\ UNCHANGED <<step, config, res, init>>
    BY <1>1, <2>1, <2>2, UnwrittenStays DEF ConfigInv, W
  <2> QED
    BY <1>6, <1>7, <2>1, <2>2 DEF ReadBits
<1>8. CASE WriteBits
  <2>1. pc = "write_bits" /\ init = "none" /\ byte = regs[W.reg]
    BY <1>8 DEF WriteBits, ConfigInv
  <2>2. CASE Finish(0) /\ regs' = [regs EXCEPT ![W.reg] = Insert(byte, W)]
    <3>1. res' = res /\ config' = Cached
      BY <1>2, <2>2 DEF Finish
    <3>2. res = 0 => Written(step)
      BY <2>1 DEF ConfigInv
    <3>3. CASE res # 0
      BY <1>2, <2>1, <2>2, <3>1, <3>3 DEF Finish, ConfigInv
    <3>4. CASE res = 0 /\ step < 4
      <4>1. step' = step + 1 /\ pc' = "read_bits" /\ init' = "none"
        BY <1>2, <2>1, <2>2, <3>4 DEF Finish
      <4>2. step' \in {2, 3, 4} /\ Written(step)
        BY <1>2, <3>2, <3>4, <4>1
      <4>3. /\ step = 1 => Written(2)'
            /\ step = 2 => Written(3)'
            /\ step = 3 => Written(4)'
        BY <1>1, <2>1, <2>2, <3>1, <4>2, WriteComesThrough
      <4>4. Written(step)'
        BY <1>2, <3>4, <4>1, <4>3 DEF Written
      <4> QED
        BY <4>1, <4>4 DEF ConfigInv
    <3>5. CASE res = 0 /\ step = 4
      <4>1. pc' = "accel" /\ Written(5)'
        BY <1>1, <1>2, <2>1, <2>2, <3>1, <3>2, <3>5, WriteComesThrough DEF Finish
      <4> QED
        BY <4>1 DEF ConfigInv
    <3> QED
      BY <1>2, <3>3, <3>4, <3>5
  <2> QED
    BY <1>6, <1>8, <2>1, <2>2 DEF WriteBits
<1> QED
  BY <1>3, <1>4, <1>5, <1>7, <1>8 DEF InitStep

LEMMA NextKeepsConfig == InitTyped /\ ConfigInv /\ [Next]_vars => ConfigInv'
<1> SUFFICES ASSUME InitTyped, ConfigInv, [Next]_vars PROVE ConfigInv'
  OBVIOUS
<1>1. CASE InitStep
  BY <1>1, InitStepKeepsConfig
<1>2. CASE ReadStep
  BY <1>2, ReadStepFrame, UnwrittenStays DEF sensorVars, initVars, ConfigInv
<1>3. CASE Move \/ Disturb \/ UNCHANGED vars
  BY <1>3, WorldStepFrame, UnwrittenStays DEF initVars, ConfigInv, W
<1> QED
  BY <1>1, <1>2, <1>3, NextByKind

(***************************************************************************)
(* When the initialisation reports success every bit of the three          *)
(* registers is as it should be: the fields the driver sets and caches     *)
(* hold its data, all others what they held at the start.                  *)
(***************************************************************************)
THEOREM ConfiguredCorrect == Spec => []Configured
<1>1. ASSUME InitTyped, WorldTyped, Written(5)
      PROVE  /\ \A w \in {Writes[i] : i \in DOMAIN Writes} :
                   FieldOf(regs[w.reg], w.low, w.len) = w.data
             /\ \A r \in DOMAIN config :
                   config[r] = FieldOf(regs[r], FS_SEL.low, FS_SEL.len)
             /\ regs["pwr"] = Insert(Insert(boot["pwr"], Writes[1]), Writes[4])
             /\ regs["gyro"] = Insert(boot["gyro"], Writes[2])
             /\ regs["accel"] = Insert(boot["accel"], Writes[3])
  <2>1. boot["pwr"] \in Byte /\ boot["gyro"] \in Byte /\ boot["accel"] \in Byte
    BY <1>1, SensorAssumption DEF SensorAssumption, WorldTyped, Registers
  <2>2. /\ regs["pwr"] = Insert(Insert(boot["pwr"], Writes[1]), Writes[4])
        /\ regs["gyro"] = Insert(boot["gyro"], Writes[2])
        /\ regs["accel"] = Insert(boot["accel"], Writes[3])
        /\ config["gyro"] = 0 /\ config["accel"] = 0
    BY <1>1 DEF Written
  <2>3. /\ Insert(boot["pwr"], Writes[1]) \in Byte
        /\ FieldOf(Insert(boot["pwr"], Writes[1]), 0, 3) = 1
    BY <2>1, InsertSetsField, WritesAre
  <2>4. FieldOf(regs["pwr"], 0, 3) = 1
    BY <2>2, <2>3, WakeKeepsClock
  <2>5. FieldOf(regs["pwr"], 6, 1) = 0
    BY <2>2, <2>3, InsertSetsField, WritesAre
  <2>6. FieldOf(regs["gyro"], 3, 2) = 0 /\ FieldOf(regs["accel"], 3, 2) = 0
    BY <2>1, <2>2, InsertSetsField, WritesAre
  <2>7. \A i \in 1..4 :
          FieldOf(regs[Writes[i].reg], Writes[i].low, Writes[i].len) = Writes[i].data
    <3>1. \A i \in 1..4 : i = 1 \/ i = 2 \/ i = 3 \/ i = 4
      OBVIOUS
    <3> QED
      BY <3>1, <2>4, <2>5, <2>6, WritesAre
  <2>8. \A r \in DOMAIN config :
          config[r] = FieldOf(regs[r], FS_SEL.low, FS_SEL.len)
    BY <1>1, <2>2, <2>6 DEF InitTyped, Ranges, FS_SEL
  <2> QED
    BY <2>2, <2>7, <2>8, WritesAre
<1>2. InitTyped /\ WorldTyped /\ ConfigInv => Configured
  BY <1>1 DEF ConfigInv, Configured
<1>3. Init => ConfigInv
  BY DEF Init, ConfigInv
<1> QED
  BY <1>2, <1>3, InitIsTyped, NextKeepsInitTyped, NextKeepsReadTyped,
     NextKeepsConfig, PTL DEF Spec
=============================================================================
