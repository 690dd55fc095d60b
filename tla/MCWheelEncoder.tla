--------------------------- MODULE MCWheelEncoder ---------------------------
EXTENDS WheelEncoder

\* ctrl_get_speed negates the right wheel's reading.
RightWheel == -1
=============================================================================
