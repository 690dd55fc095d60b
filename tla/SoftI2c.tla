------------------------------ MODULE SoftI2c ------------------------------
(***************************************************************************)
(* The bit-banged I2C master of drv_soft_i2c.c, pin by pin, with the one   *)
(* device of its bus (the MPU6050 of dev_mpu6050.c: a register pointer,    *)
(* then data).  Both lines are open drain: a line is high when nobody      *)
(* pulls it low.  The device may refuse bytes, may hold the clock, and is  *)
(* in any state when the car is reset in the middle of a transfer.  The    *)
(* flags no caller uses (10-bit addresses, IGNORE_NACK, NO_START,          *)
(* NO_READ_ACK) are left out, and so are the retries, which stay 0.        *)
(***************************************************************************)
EXTENDS Integers, Sequences

CONSTANTS
    Bits,       \* bits of a byte: 8, but nothing depends on it
    Address,    \* the device's address
    Calls,      \* what the callers transfer: sequences of messages
    Registers,  \* the contents the device's registers may start with
    MaxHolds    \* bound: how often the device holds the clock

Bytes == 0..(2^Bits - 1)
Bit == {0, 1}
RT_ERROR == -1
RT_ETIMEOUT == -2
RT_EIO == -8

\* The transfers of rt_mpu6050_write_reg and rt_mpu6050_read_reg.
WriteReg(reg, data) == << [rd |-> 0, buf |-> <<reg, data>>, len |-> 2] >>
ReadReg(reg, n) == << [rd |-> 0, buf |-> <<reg>>, len |-> 1],
                      [rd |-> 1, buf |-> <<>>, len |-> n] >>

ASSUME I2cAssumption ==
    /\ Bits \in Nat \ {0}
    /\ Address \in Nat /\ 2 * Address + 1 \in Bytes
    /\ Registers \subseteq [Bytes -> Bytes]
    /\ Calls \subseteq {WriteReg(r, d) : r, d \in Bytes}
                        \cup {ReadReg(r, n) : r \in Bytes, n \in 1..2^Bits}
    /\ MaxHolds \in Nat

VARIABLES
    sda, scl,   \* the master's two pins: 0 pulls the line low
    pc,         \* the next pin access of the master
    msgs,       \* the argument of rt_soft_i2c_master_xfer
    leg,        \* the message it is at
    pos,        \* the byte of that message; 0 is the address
    bit,        \* the bits of that byte that are through
    val,        \* the bits of it read so far
    buf,        \* the bytes read
    waited,     \* SCL_H has found the clock low and slept
    ret,
    slave,      \* the device
    started,    \* history: the device has seen the start of this transfer
    late        \* history: a wait for the clock has timed out in it

pinVars == <<sda, scl, slave, started>>
byteVars == <<bit, val, buf>>
msgVars == <<msgs, leg, pos, ret>>
vars == <<pinVars, byteVars, msgVars, pc, waited, late>>

Modes == {"off", "addr", "ptr", "data", "give"}
Devices == [mode : Modes, slot : 0..(Bits + 1), shift : Bytes, ack : Bit,
            sda : Bit, scl : Bit, ptr : Bytes, regs : [Bytes -> Bytes],
            holds : 0..MaxHolds]

\* The levels of the lines.
Sda(m, s) == m * s.sda
Scl(m, s) == m * s.scl

-----------------------------------------------------------------------------

(***************************************************************************)
(* The device.  It counts the clocks of a byte, answers in the last slot,  *)
(* and changes what it drives when the clock has fallen.                   *)
(***************************************************************************)
BitOf(n, i) == (n \div 2^(Bits - i)) % 2      \* bit 1 goes first
NextReg(r) == (r + 1) % 2^Bits

Off(s) == [s EXCEPT !.mode = "off", !.sda = 1, !.slot = 0, !.shift = 0, !.ack = 0]

AfterRise(s, level) ==
    IF s.mode = "off" \/ s.slot > Bits THEN s
    ELSE IF s.slot = Bits THEN [s EXCEPT !.slot = Bits + 1, !.ack = level]
    ELSE IF s.mode = "give" THEN [s EXCEPT !.slot = @ + 1]
    ELSE [s EXCEPT !.slot = @ + 1, !.shift = (2 * @ + level) % 2^Bits]

\* The acknowledged byte counts, and what follows it begins.
Give(s) == [s EXCEPT !.mode = "give", !.slot = 0, !.sda = BitOf(s.regs[s.ptr], 1)]
Accepted(s) ==
    LET next == [s EXCEPT !.slot = 0, !.shift = 0, !.sda = 1]
    IN  IF s.mode = "addr"
          THEN IF s.shift % 2 = 1 THEN Give(next) ELSE [next EXCEPT !.mode = "ptr"]
        ELSE IF s.mode = "ptr" THEN [next EXCEPT !.mode = "data", !.ptr = s.shift]
        ELSE [next EXCEPT !.regs[s.ptr] = s.shift, !.ptr = NextReg(@)]

AfterFall(s) ==
    IF s.mode = "off" \/ s.slot = 0 THEN {s}
    ELSE IF s.mode = "give"
      THEN IF s.slot < Bits THEN {[s EXCEPT !.sda = BitOf(s.regs[s.ptr], s.slot + 1)]}
           ELSE IF s.slot = Bits THEN {[s EXCEPT !.sda = 1]}
           ELSE IF s.ack = 0 THEN {Give([s EXCEPT !.ptr = NextReg(@)])}
           ELSE {Off(s)}
    ELSE IF s.slot < Bits THEN {s}
    ELSE IF s.slot > Bits THEN {Accepted(s)}
    ELSE IF s.mode = "addr" /\ s.shift \div 2 # Address THEN {Off(s)}
    ELSE {Off(s), [s EXCEPT !.sda = 0]}

\* A device that takes part may hold the clock low once it has fallen.
Holding(s) == IF s.mode = "off" \/ s.holds = MaxHolds THEN {s}
              ELSE {s, [s EXCEPT !.scl = 0, !.holds = @ + 1]}

React(s, c0, d0, c1, d1) ==
    IF c0 = 0 /\ c1 = 1 THEN {AfterRise(s, d1)}
    ELSE IF c0 = 1 /\ c1 = 0 THEN UNION {Holding(t) : t \in AfterFall(s)}
    ELSE IF c0 = 1 /\ d0 = 1 /\ d1 = 0
      THEN {[s EXCEPT !.mode = "addr", !.slot = 0, !.shift = 0, !.sda = 1]}
    ELSE IF c0 = 1 /\ d0 = 0 /\ d1 = 1 THEN {Off(s)}
    ELSE {s}

-----------------------------------------------------------------------------

(***************************************************************************)
(* One write to a pin, and what the device makes of the lines then.        *)
(***************************************************************************)
Pins(d, c) ==
    /\ sda' = d /\ scl' = c
    /\ slave' \in React(slave, Scl(scl, slave), Sda(sda, slave),
                               Scl(c, slave), Sda(d, slave))
    /\ started' = (started \/ (pc = "start_sda" /\ Sda(sda, slave) = 1
                               /\ Scl(scl, slave) = 1))

Goto(here, next) == pc = here /\ pc' = next

Write(here, next, d, c) ==
    /\ Goto(here, next)
    /\ Pins(d, c)
    /\ UNCHANGED <<byteVars, msgVars, waited, late>>

\* Mistaken variant of Await: it never gives up.
Await_Forever(here, next, failed) ==
    /\ pc = here
    /\ UNCHANGED <<pinVars, byteVars, msgVars, late>>
    /\ \/ Scl(scl, slave) = 1 /\ pc' = next /\ waited' = 0
       \/ Scl(scl, slave) = 0 /\ waited = 0 /\ waited' = 1 /\ UNCHANGED pc

(***************************************************************************)
(* The rest of SCL_H, the pin being high already: the clock is awaited,    *)
(* asleep, until the time is over.                                         *)
(***************************************************************************)
Await(here, next, failed) ==
    /\ pc = here
    /\ UNCHANGED <<pinVars, byteVars, msgVars>>
    /\ \/ /\ Scl(scl, slave) = 1
          /\ pc' = next /\ waited' = 0 /\ UNCHANGED late
       \/ /\ Scl(scl, slave) = 0 /\ waited = 0
          /\ waited' = 1 /\ UNCHANGED <<pc, late>>
       \/ /\ Scl(scl, slave) = 0 /\ waited = 1
          /\ pc' = failed /\ waited' = 0 /\ late' = TRUE

Msg == msgs[leg]

Fail(code) == ret' = code /\ UNCHANGED <<msgs, leg, pos>>

\* A caller starts a transfer: the start condition.
Call(x) ==
    /\ Goto("idle", "start_sda")
    /\ msgs' = x
    /\ UNCHANGED <<pinVars, byteVars, leg, pos, ret, waited, late>>

Start == Write("start_sda", "start_scl", 0, scl) \/ Write("start_scl", "w_low", sda, 0)

(***************************************************************************)
(* rt_soft_i2c_writeb of the address or of a byte of the message.          *)
(***************************************************************************)
ByteOut == IF pos = 0 THEN 2 * Address + Msg.rd ELSE Msg.buf[pos]

BitThrough ==
    /\ pc' = IF bit + 1 < Bits THEN "w_low" ELSE "w_end"
    /\ bit' = bit + 1

WriteByte ==
    \/ Write("w_low", "w_sda", sda, 0)
    \/ Write("w_sda", "w_high", BitOf(ByteOut, bit + 1), scl)
    \/ Write("w_high", "w_wait", sda, 1)
    \/ Await("w_wait", "w_next", "w_late")
    \/ pc = "w_next" /\ BitThrough /\ UNCHANGED <<pinVars, val, buf, msgVars, waited, late>>

\* Mistaken variant of WaitAck: the level is not looked at.
WaitAck_Blind ==
    \/ Write("w_end", "a_sda", sda, 0)
    \/ Write("a_sda", "a_high", 1, scl)
    \/ Write("a_high", "a_wait", sda, 1)
    \/ Await("a_wait", "a_get", "w_late")
    \/ /\ Goto("a_get", "a_low") /\ val' = 0
       /\ UNCHANGED <<pinVars, bit, buf, msgVars, waited, late>>
    \/ Write("a_low", "w_done", sda, 0)

\* rt_soft_i2c_waitack.
WaitAck ==
    \/ Write("w_end", "a_sda", sda, 0)
    \/ Write("a_sda", "a_high", 1, scl)
    \/ Write("a_high", "a_wait", sda, 1)
    \/ Await("a_wait", "a_get", "w_late")
    \/ /\ Goto("a_get", "a_low") /\ val' = Sda(sda, slave)
       /\ UNCHANGED <<pinVars, bit, buf, msgVars, waited, late>>
    \/ Write("a_low", "w_done", sda, 0)

(***************************************************************************)
(* What follows a byte written: the next one, the bytes to read, the next  *)
(* message, the end (rt_soft_i2c_send_bytes, rt_soft_i2c_bit_send_address, *)
(* rt_soft_i2c_master_xfer).                                               *)
(***************************************************************************)
NextByte == pos' = pos + 1 /\ UNCHANGED <<msgs, leg, ret>>
MessageEnds ==
    IF leg < Len(msgs)
      THEN pc' = "restart_sda" /\ UNCHANGED msgVars
      ELSE pc' = "stop_sda" /\ ret' = Len(msgs) /\ UNCHANGED <<msgs, leg, pos>>

ByteWritten ==
    /\ bit' = 0 /\ val' = 0
    /\ UNCHANGED <<pinVars, buf, waited, late>>
    /\ \/ Goto("w_late", "stop_sda") /\ Fail(IF pos = 0 THEN RT_EIO ELSE RT_ETIMEOUT)
       \/ Goto("w_done", "stop_sda") /\ val = 1 /\ Fail(IF pos = 0 THEN RT_EIO ELSE RT_ERROR)
       \/ Goto("w_done", "r_sda") /\ val = 0 /\ Msg.rd = 1 /\ NextByte
       \/ Goto("w_done", "w_low") /\ val = 0 /\ Msg.rd = 0 /\ pos < Msg.len /\ NextByte
       \/ pc = "w_done" /\ val = 0 /\ Msg.rd = 0 /\ pos = Msg.len /\ MessageEnds

(***************************************************************************)
(* rt_soft_i2c_restart and rt_soft_i2c_stop: whether the clock came up is  *)
(* not asked.                                                              *)
(***************************************************************************)
Restart ==
    \/ Write("restart_sda", "restart_high", 1, scl)
    \/ Write("restart_high", "restart_wait", sda, 1)
    \/ Await("restart_wait", "restart_start", "restart_start")
    \/ Write("restart_start", "restart_low", 0, scl)
    \/ /\ Goto("restart_low", "w_low") /\ Pins(sda, 0)
       /\ leg' = leg + 1 /\ pos' = 0
       /\ UNCHANGED <<byteVars, msgs, ret, waited, late>>

Stop ==
    \/ Write("stop_sda", "stop_high", 0, scl)
    \/ Write("stop_high", "stop_wait", sda, 1)
    \/ Await("stop_wait", "stop_end", "stop_end")
    \/ Write("stop_end", "done", 1, scl)

\* rt_soft_i2c_master_xfer returns: its variables are gone.
Return ==
    /\ Goto("done", "idle")
    /\ msgs' = <<>> /\ leg' = 1 /\ pos' = 0 /\ ret' = 0
    /\ bit' = 0 /\ val' = 0 /\ buf' = <<>>
    /\ started' = FALSE /\ late' = FALSE
    /\ UNCHANGED <<sda, scl, slave, waited>>

\* Mistaken variant of GetBit: the bits are not counted.
GetBit_Uncounted ==
    /\ Goto("r_get", "r_low")
    /\ val' = 2 * val + Sda(sda, slave)
    /\ UNCHANGED <<pinVars, bit, buf, msgVars, waited, late>>

(***************************************************************************)
(* rt_soft_i2c_readb, and the acknowledge of every byte but the last       *)
(* (rt_soft_i2c_send_ack_or_nack, rt_soft_i2c_recv_bytes).                 *)
(***************************************************************************)
GetBit ==
    /\ Goto("r_get", "r_low")
    /\ val' = 2 * val + Sda(sda, slave) /\ bit' = bit + 1
    /\ UNCHANGED <<pinVars, buf, msgVars, waited, late>>

ReadByte ==
    \/ Write("r_sda", "r_high", 1, scl)
    \/ Write("r_high", "r_wait", sda, 1)
    \/ Await("r_wait", "r_get", "r_late")
    \/ GetBit
    \/ Write("r_low", IF bit < Bits THEN "r_high" ELSE "r_done", sda, 0)

Remaining == Msg.len - pos

ByteRead ==
    /\ Goto("r_done", "k_sda")
    /\ buf' = Append(buf, val) /\ bit' = 0 /\ val' = 0
    /\ UNCHANGED <<pinVars, msgVars, waited, late>>

\* Mistaken variant of SendAck: the last byte is acknowledged too.
SendAck_Always ==
    \/ Write("k_sda", "k_high", 0, scl)
    \/ Write("k_high", "k_wait", sda, 1)
    \/ Await("k_wait", "k_low", "k_late")
    \/ Write("k_low", "k_done", sda, 0)

SendAck ==
    \/ Write("k_sda", "k_high", IF Remaining > 0 THEN 0 ELSE sda, scl)
    \/ Write("k_high", "k_wait", sda, 1)
    \/ Await("k_wait", "k_low", "k_late")
    \/ Write("k_low", "k_done", sda, 0)

BytesRead ==
    /\ \/ Goto("r_late", "stop_sda") /\ Fail(RT_EIO)
       \/ Goto("k_late", "stop_sda") /\ Fail(RT_ETIMEOUT)
       \/ Goto("k_done", "r_sda") /\ Remaining > 0 /\ NextByte
       \/ pc = "k_done" /\ Remaining = 0 /\ MessageEnds
    /\ UNCHANGED <<pinVars, byteVars, waited, late>>

\* The device lets go of the clock.
Release ==
    /\ slave.scl = 0
    /\ LET s == [slave EXCEPT !.scl = 1]
       IN  slave' = IF scl = 1 THEN AfterRise(s, Sda(sda, s)) ELSE s
    /\ UNCHANGED <<sda, scl, started, byteVars, msgVars, pc, waited, late>>

-----------------------------------------------------------------------------

\* rt_soft_i2c_configure has let both lines go; the device may be anywhere.
Init ==
    /\ sda = 1 /\ scl = 1
    /\ pc = "idle"
    /\ msgs = <<>> /\ leg = 1 /\ pos = 0 /\ ret = 0
    /\ bit = 0 /\ val = 0 /\ buf = <<>>
    /\ waited = 0
    /\ slave \in {s \in [mode : {"off", "give"}, slot : {0}, shift : {0}, ack : {0},
                         sda : Bit, scl : {1}, ptr : {0}, regs : Registers,
                         holds : {0}] :
                    s.mode = "off" => s.sda = 1}
    /\ started = FALSE /\ late = FALSE

Transfer ==
    \/ Start \/ WriteByte \/ WaitAck \/ ByteWritten
    \/ Restart \/ ReadByte \/ ByteRead \/ SendAck \/ BytesRead
    \/ Stop \/ Return

Next == Transfer \/ (\E x \in Calls : Call(x)) \/ Release

\* The thread that transfers gets on; nobody makes the device let go.
Spec == Init /\ [][Next]_vars /\ WF_vars(Transfer)

-----------------------------------------------------------------------------

TypeOK ==
    /\ sda \in Bit /\ scl \in Bit /\ waited \in Bit
    /\ slave \in Devices
    /\ bit \in 0..Bits /\ val \in Bytes
    /\ \A i \in DOMAIN buf : buf[i] \in Bytes
    /\ msgs \in Calls \cup {<<>>}
    /\ leg \in 1..2 /\ pos \in Nat
    /\ ret \in {0, 1, 2, RT_ERROR, RT_ETIMEOUT, RT_EIO}
    /\ started \in BOOLEAN /\ late \in BOOLEAN

Clean == pc = "done" /\ started /\ ~late

(***************************************************************************)
(* The bus master implements RegisterTransfer.  A call is disturbed when   *)
(* the device missed its start, or a wait for the clock timed out in it.   *)
(***************************************************************************)
Asked(m) == IF Len(m) = 1
              THEN [op |-> "write", reg |-> m[1].buf[1], data |-> m[1].buf[2]]
              ELSE [op |-> "read", reg |-> m[1].buf[1], size |-> m[2].len]

RT == INSTANCE RegisterTransfer WITH
    Values <- Bytes,
    Calls <- {Asked(x) : x \in Calls},
    registers <- slave.regs,
    call <- IF pc = "idle" THEN [op |-> "none"] ELSE Asked(msgs),
    disturbed <- pc \notin {"idle", "start_sda"} /\ (late \/ ~started),
    answer <- IF pc # "done" THEN [status |-> "none", data |-> <<>>]
              ELSE IF ret > 0 THEN [status |-> "done", data |-> buf]
              ELSE [status |-> "failed", data |-> <<>>]

(***************************************************************************)
(* Unless the call was disturbed: reported as done, a write is in the      *)
(* device's register, and the bytes read are those of its registers, in    *)
(* order; and whatever is reported, no register changes but the one to be  *)
(* written (rt_soft_i2c_master_xfer, rt_mpu6050_write_reg,                 *)
(* rt_mpu6050_read_reg).  A disturbed read may change one: when the device *)
(* misses the restart it takes the address byte for data.                  *)
(***************************************************************************)
ImplementsTransfer == RT!Spec

(***************************************************************************)
(* After an undisturbed transfer, done or failed, the device is off the    *)
(* bus: it has seen the stop, and it does not pull the data line low,      *)
(* which is what leaving the last byte read unacknowledged is for          *)
(* (rt_soft_i2c_recv_bytes, rt_soft_i2c_stop).                             *)
(***************************************************************************)
BusFree == Clean => slave.mode = "off" /\ Sda(sda, slave) = 1 /\ Scl(scl, slave) = 1

(***************************************************************************)
(* A transfer always returns, even if the device holds the clock for ever  *)
(* (SCL_H gives up).                                                       *)
(***************************************************************************)
Returns == pc # "idle" ~> pc = "idle"
=============================================================================
