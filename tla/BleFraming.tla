----------------------------- MODULE BleFraming -----------------------------
(***************************************************************************)
(* The receiver fed with arbitrary bytes, beside the history of the line   *)
(* being received, and the claim that it implements CommandFraming.        *)
(***************************************************************************)
EXTENDS BleReceiver

VARIABLE line    \* history: the bytes received since the last tail

framingVars == <<receiverVars, line>>

CF == INSTANCE CommandFraming
        WITH HeadByte <- BLE_HEAD, TailByte <- BLE_TAIL, NulByte <- NUL,
             SteerType <- BLE_DIRECTION_TYPE, MaxLine <- BufSize,
             armed <- recv_cb_func

LineTypeOK ==
    /\ line \in [header : [1..3 -> Bytes], length : 0..BufSize]
    /\ \A i \in 1..3 : i > line.length => line.header[i] = NUL

-----------------------------------------------------------------------------

FramingInit == ReceiverInit /\ line = CF!EmptyLine

Receive(b) ==
    /\ rt_ble_uart_recv(b)
    /\ line' = IF b = BLE_TAIL THEN CF!EmptyLine ELSE CF!Extend(line, b)

Register == ble_recv_cb_register /\ UNCHANGED line

FramingNext == Register \/ \E b \in Bytes : Receive(b)

FramingSpec == FramingInit /\ [][FramingNext]_framingVars

-----------------------------------------------------------------------------

(***************************************************************************)
(* Between two bytes the offset and the header in the buffer agree with    *)
(* the line received since the last tail, as long as that line may still   *)
(* be a command: the stale bytes of earlier packets never show through,    *)
(* and a tail always leaves the receiver aligned (rt_ble_uart_recv).       *)
(***************************************************************************)
BufferHoldsLine ==
    /\ line.length = 0 => ble_data_offset = 0
    /\ CF!WellFormed(line) =>
         /\ ble_data_offset = line.length
         /\ \A i \in HeaderIndex : i < line.length =>
              ble_recv_buff[i] = line.header[i + 1]

(***************************************************************************)
(* The receiver implements the abstract promise: every well-formed line is *)
(* executed exactly when its tail arrives, from whatever state the bytes   *)
(* before it left the buffer in (rt_ble_uart_recv and ble_recv_data).      *)
(***************************************************************************)
ImplementsFraming == CF!Spec
=============================================================================
