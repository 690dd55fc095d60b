----------------------------- MODULE MCSoftI2c -----------------------------
(* Bytes of two bits: device 1, its four registers, one of them written.   *)
EXTENDS SoftI2c
MCCalls == {WriteReg(1, 2), ReadReg(1, 1), ReadReg(1, 2)}
MCRegisters == {[r \in 0..3 |-> IF r = 1 THEN 1 ELSE 0]}
=============================================================================
