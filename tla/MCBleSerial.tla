---------------------------- MODULE MCBleSerial ----------------------------
EXTENDS BleSerial

\* Two values, so that a byte differs from the one before it.
MCBytes == {"a", "b"}
=============================================================================
