---------------------------- MODULE MCMotorDrive ----------------------------
EXTENDS MotorDrive

\* No demand, both signs, and beyond the clamp at 4000.
MCDemands == {-300, 0, 5000}
\* No rotation, within the dead zone either way, and beyond it: at a turn gain
\* of 4 a rotation of 150 degrees per second gives 600.
MCTurnRates == {-600, -100, 0, 100, 600}
MCDirections == {0, 3, 4, 5}
\* TLC counts to 2^31 - 1: a 16-bit word stands for the 32-bit one. Every
\* pulse a negative value turns into exceeds the period either way.
MCUInt == 65536
=============================================================================
