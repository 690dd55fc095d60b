---------------------------- MODULE BleReceiver ----------------------------
(***************************************************************************)
(* The command receiver of the car: the UART3 interrupt hands every byte   *)
(* to rt_ble_uart_recv (dev_ble.c), which cuts the byte stream into        *)
(* packets; ble_recv_data (ble_ctrl.c), once registered, turns a packet    *)
(* into the steering direction the control loop reads.                     *)
(*                                                                         *)
(* One interrupt is one step: nothing on the car preempts it at this       *)
(* priority that touches this state.  Of the 20-byte buffer only the three *)
(* header bytes are kept: a later byte is read once, as the byte just      *)
(* stored, and never again.                                                *)
(***************************************************************************)
EXTENDS Integers

CONSTANTS
    Bytes,       \* the byte values that may come out of the UART
    BufSize      \* sizeof(ble_recv_buff), 20

BLE_HEAD == 188
BLE_TAIL == 10
BLE_PARAM_TYPE == 1
BLE_DIRECTION_TYPE == 2
NUL == 0

ASSUME BytesAssumption == /\ Bytes \subseteq 0..255
                          /\ {NUL, BLE_TAIL, BLE_HEAD} \subseteq Bytes
ASSUME BufSizeAssumption == BufSize \in Nat /\ BufSize > 3

VARIABLES
    ble_recv_buff,     \* its first three bytes: head, type, channel
    ble_data_offset,   \* where the next byte goes
    recv_cb_func,      \* is ble_recv_data registered?
    direction          \* turn_parm.direction, read by the control loop

receiverVars == <<ble_recv_buff, ble_data_offset, recv_cb_func, direction>>

HeaderIndex == 0..2

TypeOK ==
    /\ ble_recv_buff \in [HeaderIndex -> Bytes]
    /\ ble_data_offset \in 0..(BufSize - 1)
    /\ recv_cb_func \in BOOLEAN
    /\ direction \in Bytes

-----------------------------------------------------------------------------

\* The zero-initialised globals; no callback before the menu is left.
ReceiverInit ==
    /\ ble_recv_buff = [i \in HeaderIndex |-> NUL]
    /\ ble_data_offset = 0
    /\ recv_cb_func = FALSE
    /\ direction = NUL

\* The buffer after b is stored at the offset.
Store(b) == [i \in HeaderIndex |-> IF i = ble_data_offset THEN b
                                                          ELSE ble_recv_buff[i]]

\* The byte that follows a first byte other than the head is dropped with it,
\* whatever it is: also when it is the head of a good packet, or a tail.
SecondOfForeign == ble_data_offset = 1 /\ ble_recv_buff[0] # BLE_HEAD

\* Mistaken variant of Completes: a full buffer is not noticed.
Completes_TailOnly(b) == b = BLE_TAIL

\* Mistaken variant of Completes: the tail is not noticed.
Completes_FullOnly(b) == ble_data_offset + 1 = BufSize

Completes(b) == b = BLE_TAIL \/ ble_data_offset + 1 = BufSize

\* Mistaken variant of ble_recv_data: the type is not tested.
ble_recv_data_AnyType(packet) == direction' = packet[2]

\* The callback reads type and channel whatever the packet's size: after a
\* short packet they are what earlier packets left in the buffer.
ble_recv_data(packet) ==
    direction' = IF packet[1] = BLE_DIRECTION_TYPE THEN packet[2] ELSE direction

DropForeign(b) ==
    /\ SecondOfForeign
    /\ ble_recv_buff' = Store(b)
    /\ ble_data_offset' = 0
    /\ UNCHANGED direction

\* Mistaken variant of Deliver: the offset is not reset.
Deliver_NoReset(b) ==
    /\ ~SecondOfForeign
    /\ Completes(b)
    /\ ble_recv_buff' = Store(NUL)
    /\ IF recv_cb_func THEN ble_recv_data(Store(NUL)) ELSE UNCHANGED direction
    /\ UNCHANGED ble_data_offset

\* The byte that completes the packet is overwritten with '\0'.
Deliver(b) ==
    /\ ~SecondOfForeign
    /\ Completes(b)
    /\ ble_recv_buff' = Store(NUL)
    /\ IF recv_cb_func THEN ble_recv_data(Store(NUL)) ELSE UNCHANGED direction
    /\ ble_data_offset' = 0

Keep(b) ==
    /\ ~SecondOfForeign
    /\ ~Completes(b)
    /\ ble_recv_buff' = Store(b)
    /\ ble_data_offset' = ble_data_offset + 1
    /\ UNCHANGED direction

\* One run of the interrupt handler.
rt_ble_uart_recv(b) ==
    /\ DropForeign(b) \/ Deliver(b) \/ Keep(b)
    /\ UNCHANGED recv_cb_func

\* ble_ctrl_init, after the menu; the interrupt has been on since boot.
ble_recv_cb_register ==
    /\ ~recv_cb_func
    /\ recv_cb_func' = TRUE
    /\ UNCHANGED <<ble_recv_buff, ble_data_offset, direction>>
=============================================================================
