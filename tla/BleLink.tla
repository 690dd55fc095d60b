------------------------------ MODULE BleLink ------------------------------
(***************************************************************************)
(* The remote controls at one end of the Bluetooth serial link, the car's  *)
(* receiver at the other.                                                  *)
(*                                                                         *)
(* The phone (balance_car.js) and the PC tool (bc_upper.cpp) write 12-byte *)
(* packets, one per press, never acknowledged and never repeated.  The     *)
(* module's UART delivers bytes in order; a byte may be lost (the receive  *)
(* register is overrun while interrupts are off), garbled, or appear out   *)
(* of nothing (a start bit seen in noise).                                 *)
(***************************************************************************)
EXTENDS BleReceiver, Sequences

CONSTANTS
    PhoneChannels,   \* the channels of the phone's buttons that are pressed
    PcChannels,      \* those of the PC tool's direction buttons
    PcParams,        \* those of its parameter buttons
    Numbers,         \* the four bytes of what is typed beside these
    Junk,            \* what the PC's memory held where send_data now lies
    Noise            \* the bytes that noise can produce

LEFT == 3
RIGHT == 4
STOP == 5
Turns == {LEFT, RIGHT}
PacketSize == 12

\* Between channel and tail lie reserver1, data and reserver2.
Zeros == [i \in 1..8 |-> 0]

\* struct ble_data_packet and, on the PC, struct data_packet.
packet(type, channel, rest) ==
    <<BLE_HEAD, type, channel>> \o rest \o <<BLE_TAIL>>

\* No channel has the number of the tail, and the buffer is longer than a packet.
ASSUME PacketsAssumption ==
    /\ {BLE_PARAM_TYPE, BLE_DIRECTION_TYPE, STOP} \subseteq Bytes
    /\ PhoneChannels \cup PcChannels \cup PcParams \subseteq Bytes \ {BLE_TAIL}
    /\ PacketSize <= BufSize
    /\ \A n \in Numbers : n \in Seq(Bytes) /\ Len(n) = 4
    /\ \A j \in Junk : j \in Seq(Bytes) /\ Len(j) = 8
    /\ Noise \subseteq Bytes

VARIABLES
    send_data,   \* the PC tool's packet, between channel and tail
    sending,     \* the packet last written to the link
    gone,        \* how many of its bytes have left the remote
    aligned,     \* history: was the last byte that arrived a tail?
    trusted,     \* history: did this packet start aligned and arrive unhurt?
    pressed      \* history: the turns of which a byte was on the line since the
                 \* last trusted STOP arrived

linkVars == <<receiverVars, send_data, sending, gone, aligned, trusted, pressed>>

LinkTypeOK ==
    /\ TypeOK
    /\ sending \in Seq(Bytes) /\ Len(sending) = PacketSize
    /\ send_data \in Seq(Bytes) /\ Len(send_data) = 8
    /\ gone \in 0..PacketSize
    /\ aligned \in BOOLEAN /\ trusted \in BOOLEAN
    /\ pressed \subseteq Turns

Idle == gone = PacketSize
Type(p) == p[2]
Channel(p) == p[3]
IsCommand(p, channel) == Type(p) = BLE_DIRECTION_TYPE /\ Channel(p) = channel
TurnBytes(p) == {t \in Turns : \E i \in 1..PacketSize : p[i] = t}

\* A head behind a tail byte begins a packet within the packet.
Payload == 4..(PacketSize - 1)
Nested(p) == \E i, j \in Payload : i < j /\ p[i] = BLE_TAIL /\ p[j] = BLE_HEAD

-----------------------------------------------------------------------------

LinkInit ==
    /\ ReceiverInit
    /\ send_data \in Junk
    /\ sending = packet(BLE_DIRECTION_TYPE, STOP, Zeros)
    /\ gone = PacketSize
    /\ aligned = TRUE
    /\ trusted = FALSE
    /\ pressed = {}

\* A remote writes a packet.
Send(p) ==
    /\ Idle
    /\ sending' = p
    /\ gone' = 0
    /\ trusted' = aligned
    /\ pressed' = pressed \cup TurnBytes(p)
    /\ UNCHANGED <<receiverVars, aligned>>

\* A button of the phone: up_command, left_command, ...
PhonePress(c) ==
    /\ Send(packet(BLE_DIRECTION_TYPE, c, Zeros))
    /\ UNCHANGED send_data

\* A parameter button of the PC tool: on_push_balance_p_clicked, ...
PcSet(c, n) ==
    /\ send_data' = [i \in 1..8 |-> IF i \in 2..5 THEN n[i - 1] ELSE send_data[i]]
    /\ Send(packet(BLE_PARAM_TYPE, c, send_data'))

\* A direction button of the PC tool, which sends the last number again.
PcPress(c) ==
    /\ Send(packet(BLE_DIRECTION_TYPE, c, send_data))
    /\ UNCHANGED send_data

\* The next byte of the packet reaches the receiver's interrupt.
Arrive ==
    /\ ~Idle
    /\ rt_ble_uart_recv(sending[gone + 1])
    /\ gone' = gone + 1
    /\ aligned' = (sending[gone + 1] = BLE_TAIL)
    /\ pressed' = IF /\ gone' = PacketSize /\ trusted
                     /\ IsCommand(sending, STOP) /\ ~Nested(sending)
                  THEN {} ELSE pressed
    /\ UNCHANGED <<send_data, sending, trusted>>

Lose ==
    /\ ~Idle
    /\ gone' = gone + 1
    /\ trusted' = FALSE
    /\ UNCHANGED <<receiverVars, send_data, sending, aligned, pressed>>

Garble(b) ==
    /\ ~Idle
    /\ rt_ble_uart_recv(b)
    /\ gone' = gone + 1
    /\ aligned' = (b = BLE_TAIL)
    /\ trusted' = FALSE
    /\ pressed' = pressed \cup (Turns \cap {b})
    /\ UNCHANGED <<send_data, sending>>

\* A byte out of nothing between two packets.
Spurious(b) ==
    /\ Idle
    /\ rt_ble_uart_recv(b)
    /\ aligned' = (b = BLE_TAIL)
    /\ trusted' = FALSE
    /\ pressed' = pressed \cup (Turns \cap {b})
    /\ UNCHANGED <<send_data, sending, gone>>

\* The menu is left and the callback registered: what arrived before is lost.
RegisterMidway ==
    /\ ble_recv_cb_register
    /\ trusted' = FALSE
    /\ UNCHANGED <<send_data, sending, gone, aligned, pressed>>

LinkNext ==
    \/ \E c \in PhoneChannels : PhonePress(c)
    \/ \E c \in PcParams, n \in Numbers : PcSet(c, n)
    \/ \E c \in PcChannels : PcPress(c)
    \/ Arrive
    \/ Lose
    \/ \E b \in Noise : Garble(b) \/ Spurious(b)
    \/ RegisterMidway

LinkSpec == LinkInit /\ [][LinkNext]_linkVars

-----------------------------------------------------------------------------

(***************************************************************************)
(* Any fault costs at most the packet it hits and the next one: a steering *)
(* packet that starts after a tail has arrived, and is not hurt itself, is *)
(* obeyed by the time its last byte is in, whatever lies in the buffer and *)
(* in its payload, unless that spells a packet of its own                  *)
(* (rt_ble_uart_recv, ble_recv_data).                                      *)
(***************************************************************************)
TrustedPacketObeyed ==
    Idle /\ trusted /\ recv_cb_func
      /\ Type(sending) = BLE_DIRECTION_TYPE /\ ~Nested(sending)
        => direction = Channel(sending)

(***************************************************************************)
(* Once a STOP has come through, no loss or noise in what follows brings a *)
(* turn back of which no byte came since: neither the stale header bytes a *)
(* short packet exposes nor the tail of a broken packet replay one         *)
(* (ble_recv_data reads type and channel without looking at the size).     *)
(***************************************************************************)
NoTurnResurrected ==
    direction \in Turns => direction \in pressed
=============================================================================
