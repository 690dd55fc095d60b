---------------------------- MODULE MCBleFraming ----------------------------
EXTENDS BleFraming

\* Zero, the steering type, a turn and the stop channel, tail and head. The
\* offset treats all positions past the header alike, so a buffer of 7 bytes
\* (BufSize) has every case of one of 20.
MCBytes == {0, 2, 3, 5, 10, 188}
=============================================================================
