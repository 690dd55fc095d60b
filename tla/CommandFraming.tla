--------------------------- MODULE CommandFraming ---------------------------
(***************************************************************************)
(* What the Bluetooth command receiver promises to whoever writes bytes to *)
(* the car, without a buffer or an offset.                                 *)
(*                                                                         *)
(* The bytes between two tails are a line.  A line is well formed when its *)
(* first byte is the head and it is shorter than the receiver can hold.    *)
(* The promise is: a well-formed line is executed, once, when its tail     *)
(* arrives, and only then; and nothing is executed while the line received *)
(* so far may still turn out well formed.  Nothing is promised about a     *)
(* malformed line (lost bytes, noise, a lone tail).                        *)
(***************************************************************************)
EXTENDS Integers

CONSTANTS
    Bytes,       \* the byte values that may appear on the line
    HeadByte,    \* first byte of a command line
    TailByte,    \* byte that ends a line
    NulByte,     \* what an absent header byte reads as
    SteerType,   \* the type of a command that sets the steering direction
    MaxLine      \* a line of this many bytes no longer fits the receiver

VARIABLES
    line,        \* the line so far: its first three bytes and its length
    armed,       \* does anybody execute commands yet?
    direction    \* the steering direction last commanded

vars == <<line, armed, direction>>

\* Absent header bytes read as zero.
EmptyLine == [header |-> [i \in 1..3 |-> NulByte], length |-> 0]

\* The length saturates at MaxLine: an overlong line stays overlong.
Extend(l, b) ==
    [header |-> [i \in 1..3 |-> IF i = l.length + 1 THEN b ELSE l.header[i]],
     length |-> IF l.length < MaxLine THEN l.length + 1 ELSE MaxLine]

WellFormed(l) == l.length \in 1..(MaxLine - 1) /\ l.header[1] = HeadByte

Execute(l) == IF l.header[2] = SteerType THEN l.header[3] ELSE direction

-----------------------------------------------------------------------------

Init == line = EmptyLine /\ armed = FALSE /\ direction = NulByte

Arm == armed' = TRUE /\ UNCHANGED <<line, direction>>

Collect(b) ==
    /\ b # TailByte
    /\ line' = Extend(line, b)
    /\ IF armed /\ ~WellFormed(line') THEN direction' \in Bytes
                                      ELSE UNCHANGED direction
    /\ UNCHANGED armed

EndLine ==
    /\ line' = EmptyLine
    /\ direction' \in IF ~armed THEN {direction}
                      ELSE IF WellFormed(line) THEN {Execute(line)}
                      ELSE Bytes
    /\ UNCHANGED armed

Next == Arm \/ EndLine \/ \E b \in Bytes : Collect(b)

Spec == Init /\ [][Next]_vars
=============================================================================
