----------------------------- MODULE MCMpu6050 -----------------------------
(* The registers after power-on (asleep), as the last run left them, and   *)
(* with every bit set that the car does not use.                           *)
EXTENDS Mpu6050
MCRegs(pwr, gyro, accel) ==
    [r \in Registers |-> IF r = "pwr" THEN pwr ELSE IF r = "gyro" THEN gyro ELSE accel]
MCBoots == {MCRegs(64, 0, 0), MCRegs(1, 0, 0), MCRegs(111, 248, 255)}
MCIds == {104, 0}
MCSamples == {"upright", "tilted"}
=============================================================================
