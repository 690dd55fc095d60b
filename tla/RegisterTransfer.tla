-------------------------- MODULE RegisterTransfer --------------------------
(***************************************************************************)
(* What the callers of rt_mpu6050_write_reg and rt_mpu6050_read_reg may    *)
(* rely on, without a bus: a register is written or a block of registers   *)
(* is read, and the call is answered.  Done means that it happened; failed *)
(* leaves a write open, and nothing else is ever touched.  Nothing is      *)
(* promised about a call that is disturbed.                                *)
(***************************************************************************)
EXTENDS Integers, Sequences, FiniteSets

CONSTANTS
    Values,    \* the numbers of the registers, and what they hold: 0..n
    Calls      \* [op |-> "write", reg, data] and [op |-> "read", reg, size]

VARIABLES
    registers,
    call,         \* the call under way
    disturbed,    \* something went wrong in it that nobody noticed
    answer        \* what it returns

vars == <<registers, call, disturbed, answer>>

NoCall == [op |-> "none"]
NoAnswer == [status |-> "none", data |-> <<>>]

\* What a block of registers holds; the last register is followed by the first.
Block(reg, size) ==
    [i \in 1..size |-> LET r == reg + i - 1
                       IN  registers[IF r \in Values THEN r ELSE r - Cardinality(Values)]]

Init ==
    /\ registers \in [Values -> Values]
    /\ call = NoCall /\ disturbed = FALSE /\ answer = NoAnswer

Begin ==
    /\ call = NoCall
    /\ call' \in Calls
    /\ UNCHANGED <<registers, disturbed, answer>>

Pending == call # NoCall /\ answer = NoAnswer

Disturb ==
    /\ Pending
    /\ disturbed' = TRUE
    /\ UNCHANGED <<registers, call, answer>>

\* The register takes the value, or whatever a disturbed call makes of it.
Take ==
    /\ Pending
    /\ \/ /\ call.op = "write"
          /\ registers' = [registers EXCEPT ![call.reg] = call.data]
       \/ disturbed /\ registers' \in [Values -> Values]
    /\ UNCHANGED <<call, disturbed, answer>>

Fail ==
    /\ Pending
    /\ answer' = [status |-> "failed", data |-> <<>>]
    /\ UNCHANGED <<registers, call, disturbed>>

Succeed ==
    /\ Pending
    /\ answer' \in [status : {"done"}, data : Seq(Values)]
    /\ \/ disturbed
       \/ call.op = "write" /\ registers[call.reg] = call.data
       \/ call.op = "read" /\ answer'.data = Block(call.reg, call.size)
    /\ UNCHANGED <<registers, call, disturbed>>

Return ==
    /\ answer # NoAnswer
    /\ call' = NoCall /\ disturbed' = FALSE /\ answer' = NoAnswer
    /\ UNCHANGED registers

Next == Begin \/ Disturb \/ Take \/ Fail \/ Succeed \/ Return

Spec == Init /\ [][Next]_vars
=============================================================================
