----------------------------- MODULE MCBleLink -----------------------------
EXTENDS BleLink

\* The bytes of the packets below, which noise may repeat, but for the turns:
\* no receiver can tell a forged turn from a real one, nor can the property.
MCBytes == {NUL, BLE_PARAM_TYPE, BLE_DIRECTION_TYPE, LEFT, RIGHT, STOP,
            BLE_TAIL, BLE_HEAD}
MCNoise == {NUL, BLE_DIRECTION_TYPE, BLE_TAIL, BLE_HEAD}

\* The phone's forward and back buttons are left out: the receiver treats every
\* channel alike.
MCPhoneChannels == {LEFT, RIGHT, STOP}

\* The PC tool's left-up button has the channel of the car's STOP; it has no
\* stop button. A parameter may have the number of a turn.
MCPcChannels == {LEFT, STOP}
MCPcParams == {LEFT}

\* 2560: its second byte is the tail.
MCNumbers == {<<0, 10, 0, 0>>}

\* Memory nobody set: with a tail byte in it, and with a packet in the packet.
MCJunk == {<<0, 10, 0, 0, 0, 0, 0, 0>>, <<10, 0, 0, 0, 0, 188, 2, 3>>}
=============================================================================
