------------------------- MODULE BleReceiver_proof -------------------------
(***************************************************************************)
(* The receiver keeps its types, its buffer always holds the line being    *)
(* received, and it implements CommandFraming, for every set of bytes and  *)
(* every buffer of more than three bytes.  At the end of the link, it      *)
(* obeys every packet that arrives whole and aligned, and turns only where *)
(* the line says so, for all that the remotes may send and noise may add.  *)
(***************************************************************************)
EXTENDS BleFraming, BleLink, SequenceTheorems, TLAPS

USE BytesAssumption, BufSizeAssumption DEF BLE_HEAD, BLE_TAIL, NUL, BLE_DIRECTION_TYPE

(***************************************************************************)
(* The inductive invariant: the types and what the buffer holds.           *)
(***************************************************************************)
Inv == TypeOK /\ LineTypeOK /\ BufferHoldsLine

LEMMA InitEstablishesInv == FramingInit => Inv
<1> SUFFICES ASSUME FramingInit PROVE Inv
  OBVIOUS
<1>0. NUL \in Bytes
  BY DEF BytesAssumption
<1>1. TypeOK
  <2>1. recv_cb_func \in BOOLEAN
    BY Zenon DEF FramingInit, ReceiverInit
  <2>2. ble_recv_buff \in [HeaderIndex -> Bytes] /\ direction \in Bytes
    BY <1>0 DEF FramingInit, ReceiverInit
  <2>3. ble_data_offset \in 0..(BufSize - 1)
    BY DEF FramingInit, ReceiverInit
  <2> QED
    BY <2>1, <2>2, <2>3 DEF TypeOK
<1>2. LineTypeOK
  BY <1>0 DEF FramingInit, LineTypeOK, CF!EmptyLine
<1>3. BufferHoldsLine
  BY DEF FramingInit, ReceiverInit, BufferHoldsLine, CF!EmptyLine, CF!WellFormed
<1> QED
  BY <1>1, <1>2, <1>3 DEF Inv

\* Every byte the interrupt handles keeps the types of the receiver.
LEMMA ReceiveKeepsTypes ==
    ASSUME TypeOK, NEW b \in Bytes, rt_ble_uart_recv(b)
    PROVE  TypeOK'
<1> USE DEF TypeOK, HeaderIndex, Store
<1>1. CASE DropForeign(b)
  BY <1>1 DEF rt_ble_uart_recv, DropForeign
<1>2. CASE Deliver(b)
  BY <1>2 DEF rt_ble_uart_recv, Deliver, ble_recv_data
<1>3. CASE Keep(b)
  BY <1>3 DEF rt_ble_uart_recv, Keep, Completes
<1> QED
  BY <1>1, <1>2, <1>3 DEF rt_ble_uart_recv

\* The line stays a line whatever byte extends it.
LEMMA ExtendKeepsType ==
    ASSUME LineTypeOK, NEW b \in Bytes
    PROVE  /\ CF!EmptyLine \in [header : [1..3 -> Bytes], length : 0..BufSize]
           /\ CF!Extend(line, b) \in [header : [1..3 -> Bytes], length : 0..BufSize]
           /\ CF!Extend(line, b).length > 0
           /\ \A i \in 1..3 : i > CF!Extend(line, b).length =>
                CF!Extend(line, b).header[i] = NUL
BY DEF LineTypeOK, CF!EmptyLine, CF!Extend

\* A line that can still be a command could before its last byte, unless that
\* byte is its first.
LEMMA WellFormedPrefix ==
    ASSUME LineTypeOK, NEW b \in Bytes, CF!WellFormed(CF!Extend(line, b))
    PROVE  /\ CF!Extend(line, b).length = line.length + 1
           /\ line.length + 1 < BufSize
           /\ line.length = 0 => b = BLE_HEAD
           /\ line.length > 0 => CF!WellFormed(line)
<1> USE DEF LineTypeOK, CF!Extend, CF!WellFormed
<1>1. CF!Extend(line, b).length = line.length + 1 /\ line.length + 1 < BufSize
  OBVIOUS
<1>2. line.length = 0 => b = BLE_HEAD
  OBVIOUS
<1>3. line.length > 0 => CF!WellFormed(line)
  BY <1>1
<1> QED
  BY <1>1, <1>2, <1>3

\* While the line may be a command, the handler just keeps its bytes.
LEMMA WellFormedIsKept ==
    ASSUME Inv, NEW b \in Bytes, b # BLE_TAIL, rt_ble_uart_recv(b),
           CF!WellFormed(CF!Extend(line, b))
    PROVE  Keep(b) /\ ble_data_offset = line.length
<1>1. ble_data_offset = line.length /\ line.length + 1 < BufSize
  BY WellFormedPrefix DEF Inv, BufferHoldsLine, LineTypeOK
<1>2. ~SecondOfForeign
  <2> SUFFICES ASSUME ble_data_offset = 1
               PROVE  ble_recv_buff[0] = BLE_HEAD
    BY DEF SecondOfForeign
  <2>1. line.length = 1 /\ CF!WellFormed(line)
    BY <1>1, WellFormedPrefix DEF Inv
  <2> QED
    BY <2>1 DEF Inv, BufferHoldsLine, CF!WellFormed, HeaderIndex
<1>3. ~Completes(b)
  BY <1>1 DEF Completes
<1> QED
  BY <1>1, <1>2, <1>3 DEF rt_ble_uart_recv, DropForeign, Deliver

\* A tail aligns the receiver again, whatever came before it.
LEMMA TailAligns ==
    ASSUME rt_ble_uart_recv(BLE_TAIL)
    PROVE  ble_data_offset' = 0
BY DEF rt_ble_uart_recv, DropForeign, Deliver, Keep, Completes

LEMMA ReceiveKeepsBuffer ==
    ASSUME Inv, NEW b \in Bytes, Receive(b)
    PROVE  BufferHoldsLine'
<1>1. CASE b = BLE_TAIL
  <2>1. ble_data_offset' = 0 /\ line' = CF!EmptyLine
    BY <1>1, TailAligns DEF Receive
  <2> QED
    BY <2>1 DEF BufferHoldsLine, CF!EmptyLine, CF!WellFormed
<1>2. CASE b # BLE_TAIL
  <2>1. line' = CF!Extend(line, b) /\ line'.length > 0
    BY <1>2, ExtendKeepsType DEF Receive, Inv
  <2>2. CASE CF!WellFormed(line')
    <3>1. Keep(b) /\ ble_data_offset = line.length /\ line'.length = line.length + 1
      BY <1>2, <2>1, <2>2, WellFormedIsKept, WellFormedPrefix DEF Receive, Inv
    <3>2. line.length > 0 => CF!WellFormed(line)
      BY <2>1, <2>2, WellFormedPrefix DEF Inv
    <3>3. ble_data_offset' = line'.length
      BY <3>1 DEF Keep
    <3>4. \A i \in HeaderIndex : i < line'.length =>
             ble_recv_buff'[i] = line'.header[i + 1]
      BY <2>1, <3>1, <3>2
         DEF Keep, Store, Inv, LineTypeOK, TypeOK, BufferHoldsLine, HeaderIndex, CF!Extend
    <3> QED
      BY <2>1, <3>3, <3>4 DEF BufferHoldsLine
  <2>3. CASE ~CF!WellFormed(line')
    BY <2>1, <2>3 DEF BufferHoldsLine, CF!WellFormed
  <2> QED
    BY <2>2, <2>3
<1> QED
  BY <1>1, <1>2

LEMMA NextKeepsInv == Inv /\ [FramingNext]_framingVars => Inv'
<1> SUFFICES ASSUME Inv, [FramingNext]_framingVars PROVE Inv'
  OBVIOUS
<1>1. ASSUME NEW b \in Bytes, Receive(b) PROVE Inv'
  <2>1. TypeOK'
    BY <1>1, ReceiveKeepsTypes DEF Receive, Inv
  <2>2. LineTypeOK'
    BY <1>1, ExtendKeepsType DEF Receive, Inv, LineTypeOK, CF!EmptyLine
  <2>3. BufferHoldsLine'
    BY <1>1, ReceiveKeepsBuffer
  <2> QED
    BY <2>1, <2>2, <2>3 DEF Inv
<1>2. CASE Register
  BY <1>2 DEF Register, ble_recv_cb_register, Inv, TypeOK, LineTypeOK,
              BufferHoldsLine, CF!WellFormed
<1>3. CASE UNCHANGED framingVars
  BY <1>3 DEF framingVars, receiverVars, Inv, TypeOK, LineTypeOK,
              BufferHoldsLine, CF!WellFormed
<1> QED
  BY <1>1, <1>2, <1>3 DEF FramingNext

(***************************************************************************)
(* The receiver never leaves its buffer: between two bytes the offset      *)
(* points into it, whatever bytes the UART delivers.                       *)
(***************************************************************************)
THEOREM TypeCorrect == FramingSpec => []TypeOK
<1>1. FramingSpec => []Inv
  BY InitEstablishesInv, NextKeepsInv, PTL DEF FramingSpec
<1> QED
  BY <1>1, PTL DEF Inv

(***************************************************************************)
(* The buffer and the offset agree with the line received since the last   *)
(* tail as long as that line may still be a command.                       *)
(***************************************************************************)
THEOREM BufferCorrect == FramingSpec => []BufferHoldsLine
<1>1. FramingSpec => []Inv
  BY InitEstablishesInv, NextKeepsInv, PTL DEF FramingSpec
<1> QED
  BY <1>1, PTL DEF Inv

\* Every step of the receiver is one the abstract specification allows.
LEMMA NextImplementsNext ==
    Inv /\ [FramingNext]_framingVars => [CF!Next]_CF!vars
<1> SUFFICES ASSUME Inv, [FramingNext]_framingVars PROVE [CF!Next]_CF!vars
  OBVIOUS
<1>1. ASSUME NEW b \in Bytes, Receive(b), b # BLE_TAIL PROVE CF!Collect(b)
  <2>1. line' = CF!Extend(line, b) /\ UNCHANGED recv_cb_func
    BY <1>1 DEF Receive, rt_ble_uart_recv
  <2>2. CASE CF!WellFormed(line')
    <3>1. Keep(b)
      BY <1>1, <2>1, <2>2, WellFormedIsKept DEF Receive
    <3> QED
      BY <1>1, <2>1, <2>2, <3>1 DEF Keep, CF!Collect
  <2>3. CASE ~CF!WellFormed(line')
    <3>1. direction' \in Bytes
      BY <1>1, ReceiveKeepsTypes DEF Receive, Inv, TypeOK
    <3>2. ~recv_cb_func => UNCHANGED direction
      BY <1>1 DEF Receive, rt_ble_uart_recv, DropForeign, Deliver, Keep
    <3> QED
      BY <1>1, <2>1, <2>3, <3>1, <3>2 DEF CF!Collect, Inv, TypeOK
  <2> QED
    BY <2>2, <2>3
<1>2. ASSUME Receive(BLE_TAIL) PROVE CF!EndLine
  <2>1. line' = CF!EmptyLine /\ UNCHANGED recv_cb_func
    BY <1>2 DEF Receive, rt_ble_uart_recv
  <2>2. direction' \in Bytes
    BY <1>2, ReceiveKeepsTypes DEF Receive, Inv, TypeOK
  <2>3. ~recv_cb_func => UNCHANGED direction
    BY <1>2 DEF Receive, rt_ble_uart_recv, DropForeign, Deliver, Keep
  <2>4. ASSUME recv_cb_func, CF!WellFormed(line)
        PROVE  direction' = CF!Execute(line)
    <3>1. ble_data_offset = line.length /\ line.length \in 1..(BufSize - 1)
      BY <2>4 DEF Inv, BufferHoldsLine, CF!WellFormed
    <3>2. ble_recv_buff[0] = BLE_HEAD
      BY <2>4, <3>1 DEF Inv, BufferHoldsLine, CF!WellFormed, HeaderIndex, LineTypeOK
    <3>3. Deliver(BLE_TAIL)
      BY <1>2, <3>2 DEF Receive, rt_ble_uart_recv, DropForeign, SecondOfForeign,
                        Keep, Completes
    <3>4. direction' = IF Store(NUL)[1] = BLE_DIRECTION_TYPE THEN Store(NUL)[2]
                                                             ELSE direction
      BY <2>4, <3>3 DEF Deliver, ble_recv_data
    <3>5. Store(NUL)[1] = line.header[2]
      <4>1. CASE line.length = 1
        BY <3>1, <4>1 DEF Store, HeaderIndex, Inv, LineTypeOK
      <4>2. CASE line.length > 1
        BY <2>4, <3>1, <4>2 DEF Store, HeaderIndex, Inv, BufferHoldsLine
      <4> QED
        BY <3>1, <4>1, <4>2
    <3>6. CASE line.length = 1
      BY <3>4, <3>5, <3>6 DEF Inv, LineTypeOK, CF!Execute
    <3>7. CASE line.length > 1
      <4>1. Store(NUL)[2] = line.header[3]
        <5>1. CASE line.length = 2
          BY <3>1, <5>1 DEF Store, HeaderIndex, Inv, LineTypeOK
        <5>2. CASE line.length > 2
          BY <2>4, <3>1, <5>2 DEF Store, HeaderIndex, Inv, BufferHoldsLine
        <5> QED
          BY <3>1, <3>7, <5>1, <5>2
      <4> QED
        BY <3>4, <3>5, <4>1 DEF CF!Execute
    <3> QED
      BY <3>1, <3>6, <3>7
  <2> QED
    BY <2>1, <2>2, <2>3, <2>4 DEF CF!EndLine, Inv, TypeOK
<1>3. CASE Register
  BY <1>3 DEF Register, ble_recv_cb_register, CF!Next, CF!Arm
<1>4. CASE UNCHANGED framingVars
  BY <1>4 DEF framingVars, receiverVars, CF!vars
<1>5. ASSUME NEW b \in Bytes, Receive(b) PROVE CF!Next
  BY <1>1, <1>2, <1>5 DEF CF!Next
<1> QED
  BY <1>3, <1>4, <1>5 DEF FramingNext

(***************************************************************************)
(* The receiver implements the abstract promise: a well-formed line is     *)
(* executed exactly when its tail arrives, whatever came before.           *)
(***************************************************************************)
THEOREM Refinement == FramingSpec => ImplementsFraming
<1>1. FramingInit => CF!Init
  BY DEF FramingInit, ReceiverInit, CF!Init
<1>2. FramingSpec => []Inv
  BY InitEstablishesInv, NextKeepsInv, PTL DEF FramingSpec
<1> QED
  BY <1>1, <1>2, NextImplementsNext, PTL DEF FramingSpec, ImplementsFraming, CF!Spec

-----------------------------------------------------------------------------

(***************************************************************************)
(* The link.  First its types.                                             *)
(***************************************************************************)
Payloads == {rest \in Seq(Bytes) : Len(rest) = 8}

LEMMA Joined ==
    ASSUME NEW a \in Seq(Bytes), NEW b \in Seq(Bytes), NEW c, c = a \o b
    PROVE  /\ c \in Seq(Bytes) /\ Len(c) = Len(a) + Len(b)
           /\ \A i \in 1..Len(a) + Len(b) :
                c[i] = IF i <= Len(a) THEN a[i] ELSE b[i - Len(a)]
<1>1. a \o b \in Seq(Bytes) /\ Len(a \o b) = Len(a) + Len(b)
  BY ConcatProperties
<1>2. \A i \in 1..Len(a) + Len(b) :
        (a \o b)[i] = IF i <= Len(a) THEN a[i] ELSE b[i - Len(a)]
  BY ConcatProperties
<1> QED
  BY <1>1, <1>2, Zenon

LEMMA PacketLooks ==
    ASSUME NEW type \in Bytes, NEW channel \in Bytes, NEW rest \in Payloads
    PROVE  LET p == packet(type, channel, rest) IN
           /\ p \in Seq(Bytes) /\ Len(p) = 12
           /\ p[1] = BLE_HEAD /\ p[2] = type /\ p[3] = channel /\ p[12] = BLE_TAIL
<1> DEFINE p == packet(type, channel, rest)
<1> DEFINE three == <<BLE_HEAD, type, channel>>
           one == <<BLE_TAIL>>
<1>0. /\ three \in Seq(Bytes) /\ Len(three) = 3
      /\ three[1] = BLE_HEAD /\ three[2] = type /\ three[3] = channel
      /\ one \in Seq(Bytes) /\ Len(one) = 1 /\ one[1] = BLE_TAIL
  OBVIOUS
<1> HIDE DEF three, one
<1>1. PICK header \in Seq(Bytes) :
        /\ header = three /\ Len(header) = 3
        /\ header[1] = BLE_HEAD /\ header[2] = type /\ header[3] = channel
  BY <1>0, Zenon
<1>2. PICK tail \in Seq(Bytes) : tail = one /\ Len(tail) = 1 /\ tail[1] = BLE_TAIL
  BY <1>0, Zenon
<1>3. PICK body \in Seq(Bytes) : body = rest /\ Len(body) = 8
  BY Zenon DEF Payloads
<1>4. PICK begun \in Seq(Bytes) : begun = header \o body
  BY ConcatProperties, Zenon
<1>5. /\ Len(begun) = 11
      /\ begun[1] = BLE_HEAD /\ begun[2] = type /\ begun[3] = channel
  <2>1. Len(begun) = Len(header) + Len(body)
    BY <1>4, Joined
  <2>2. \A i \in 1..Len(header) + Len(body) :
          begun[i] = IF i <= Len(header) THEN header[i] ELSE body[i - Len(header)]
    BY <1>4, Joined
  <2> QED
    BY <1>1, <1>3, <2>1, <2>2
<1>6. p = begun \o tail
  BY <1>1, <1>2, <1>3, <1>4, Zenon DEF packet, three, one
<1> HIDE DEF p
<1>7. /\ p \in Seq(Bytes) /\ Len(p) = Len(begun) + Len(tail)
      /\ \A i \in 1..Len(begun) + Len(tail) :
            p[i] = IF i <= Len(begun) THEN begun[i] ELSE tail[i - Len(begun)]
  BY <1>6, Joined
<1>8. /\ p \in Seq(Bytes) /\ Len(p) = 12
      /\ p[1] = BLE_HEAD /\ p[2] = type /\ p[3] = channel /\ p[12] = BLE_TAIL
  BY <1>2, <1>5, <1>7
<1> QED
  BY <1>8 DEF p

LEMMA FunctionIsSeq ==
    ASSUME NEW n \in Nat, NEW f \in [1..n -> Bytes]
    PROVE  f \in Seq(Bytes)
OBVIOUS

LEMMA EightBytesArePayload == [1..8 -> Bytes] \subseteq Payloads
<1> SUFFICES ASSUME NEW f \in [1..8 -> Bytes] PROVE f \in Seq(Bytes) /\ Len(f) = 8
  BY Zenon DEF Payloads
<1>1. f \in Seq(Bytes)
  BY FunctionIsSeq
<1> QED
  BY <1>1, LenProperties

\* The typed number's bytes take their place in the PC tool's packet.
LEMMA NumberInPayload ==
    ASSUME send_data \in Payloads, NEW n \in Numbers
    PROVE  [i \in 1..8 |-> IF i \in 2..5 THEN n[i - 1] ELSE send_data[i]] \in Payloads
<1>1. send_data \in Seq(Bytes) /\ Len(send_data) = 8 /\ n \in Seq(Bytes) /\ Len(n) = 4
  BY PacketsAssumption DEF PacketsAssumption, Payloads
<1>2. ASSUME NEW i \in 1..8
      PROVE  (IF i \in 2..5 THEN n[i - 1] ELSE send_data[i]) \in Bytes
  <2>1. CASE i \in 2..5
    <3>1. i - 1 \in 1..Len(n)
      BY <1>1, <2>1
    <3> QED
      BY <1>1, <2>1, <3>1, ElementOfSeq
  <2>2. CASE i \notin 2..5
    <3>1. i \in 1..Len(send_data)
      BY <1>1
    <3> QED
      BY <1>1, <2>2, <3>1, ElementOfSeq
  <2> QED
    BY <2>1, <2>2
<1>3. [i \in 1..8 |-> IF i \in 2..5 THEN n[i - 1] ELSE send_data[i]] \in [1..8 -> Bytes]
  BY <1>2
<1> QED
  BY <1>3, EightBytesArePayload

(***************************************************************************)
(* The inductive invariant of the link.  Every packet begins with the head *)
(* and ends with the tail; a tail leaves the receiver aligned; nothing is  *)
(* steered before the callback is registered; a turn in the third byte of  *)
(* the buffer, or obeyed, has been on the line since the last STOP.        *)
(***************************************************************************)
LinkTyped == LinkTypeOK /\ send_data \in Payloads
PacketSent ==
    /\ sending[1] = BLE_HEAD /\ sending[12] = BLE_TAIL
    /\ Type(sending) = BLE_DIRECTION_TYPE => Channel(sending) # BLE_TAIL
Aligned == aligned => ble_data_offset = 0
Unsteered == ~recv_cb_func => direction = NUL
TurnsSeen ==
    /\ ble_recv_buff[2] \in Turns => ble_recv_buff[2] \in pressed
    /\ direction \in Turns => direction \in pressed
    /\ ~Idle => TurnBytes(sending) \subseteq pressed

(***************************************************************************)
(* A steering packet that is trusted is still held from its first byte on, *)
(* or a tail byte has completed it: then it has been obeyed, and of what   *)
(* follows in it, two bytes at a time are dropped.                         *)
(***************************************************************************)
Held ==
    /\ gone < PacketSize /\ ble_data_offset = gone
    /\ \A i \in HeaderIndex : i < gone => ble_recv_buff[i] = sending[i + 1]
Obeyed ==
    /\ gone > 3 /\ ble_data_offset \in {0, 1}
    /\ ble_data_offset = 1 => ble_recv_buff[0] # BLE_HEAD
    /\ ble_recv_buff[2] = Channel(sending)
    /\ recv_cb_func => direction = Channel(sending)
    /\ \E i \in 4..gone : sending[i] = BLE_TAIL
Steering == Type(sending) = BLE_DIRECTION_TYPE /\ ~Nested(sending)
Progress == trusted /\ Steering => Held \/ Obeyed

LinkInv == LinkTyped /\ PacketSent /\ Aligned /\ Unsteered /\ TurnsSeen /\ Progress

\* What one byte does to the third byte of the buffer and to the direction.
LEMMA ReceiveMoves ==
    ASSUME TypeOK, NEW b \in Bytes, rt_ble_uart_recv(b)
    PROVE  /\ ble_recv_buff'[2] \in {ble_recv_buff[2], b, NUL}
           /\ direction' \in {direction, ble_recv_buff'[2]}
           /\ recv_cb_func' = recv_cb_func
           /\ ~recv_cb_func => direction' = direction
           /\ b = BLE_TAIL => ble_data_offset' = 0
<1> USE DEF TypeOK, HeaderIndex, Store
<1>1. CASE DropForeign(b)
  BY <1>1 DEF rt_ble_uart_recv, DropForeign
<1>2. CASE Deliver(b)
  BY <1>2 DEF rt_ble_uart_recv, Deliver, ble_recv_data
<1>3. CASE Keep(b)
  BY <1>3 DEF rt_ble_uart_recv, Keep, Completes
<1> QED
  BY <1>1, <1>2, <1>3 DEF rt_ble_uart_recv

LEMMA LinkInitEstablishesInv == LinkInit => LinkInv
<1> SUFFICES ASSUME LinkInit PROVE LinkInv
  OBVIOUS
<1>1. TypeOK
  <2>1. recv_cb_func \in BOOLEAN
    BY Zenon DEF LinkInit, ReceiverInit
  <2>2. ble_recv_buff \in [HeaderIndex -> Bytes] /\ direction \in Bytes
    BY DEF LinkInit, ReceiverInit, BytesAssumption
  <2>3. ble_data_offset \in 0..(BufSize - 1)
    BY DEF LinkInit, ReceiverInit, BufSizeAssumption
  <2> QED
    BY <2>1, <2>2, <2>3 DEF TypeOK
<1>2. Zeros \in Payloads /\ send_data \in Payloads
  <2>1. Zeros \in [1..8 -> Bytes]
    BY DEF Zeros, BytesAssumption
  <2>2. \A j \in Junk : j \in Payloads
    BY PacketsAssumption DEF PacketsAssumption, Payloads
  <2> QED
    BY <2>1, <2>2, EightBytesArePayload DEF LinkInit
<1>3. /\ sending \in Seq(Bytes) /\ Len(sending) = 12 /\ sending[1] = BLE_HEAD
      /\ sending[2] = BLE_DIRECTION_TYPE /\ sending[3] = STOP /\ sending[12] = BLE_TAIL
  <2>1. BLE_DIRECTION_TYPE \in Bytes /\ STOP \in Bytes
    BY PacketsAssumption DEF PacketsAssumption
  <2>2. sending = packet(BLE_DIRECTION_TYPE, STOP, Zeros)
    BY Zenon DEF LinkInit
  <2> HIDE DEF BLE_DIRECTION_TYPE, BLE_HEAD, BLE_TAIL
  <2> QED
    BY <1>2, <2>1, <2>2, PacketLooks
<1>4. aligned \in BOOLEAN /\ trusted \in BOOLEAN
  BY Zenon DEF LinkInit
<1>5. gone = PacketSize /\ trusted = FALSE /\ pressed = {} /\ ble_data_offset = 0
      /\ direction = NUL /\ ble_recv_buff[2] = NUL
  BY DEF LinkInit, ReceiverInit, HeaderIndex
<1>6. LinkTyped
  BY <1>1, <1>2, <1>3, <1>4, <1>5 DEF LinkTyped, LinkTypeOK, Payloads, PacketSize
<1>7. PacketSent
  BY <1>3 DEF PacketSent, Channel, STOP
<1>8. Aligned /\ Unsteered /\ Progress
  BY <1>5 DEF Aligned, Unsteered, Progress
<1>9. TurnsSeen
  BY <1>5 DEF TurnsSeen, Turns, LEFT, RIGHT, Idle
<1> QED
  BY <1>6, <1>7, <1>8, <1>9 DEF LinkInv

LEMMA SendKeepsInv ==
    ASSUME LinkInv, NEW type \in {BLE_PARAM_TYPE, BLE_DIRECTION_TYPE},
           NEW c \in PhoneChannels \cup PcChannels \cup PcParams,
           NEW rest \in Payloads, send_data' \in Payloads,
           Send(packet(type, c, rest))
    PROVE  LinkInv'
<1>1. /\ Idle /\ sending' = packet(type, c, rest) /\ gone' = 0
      /\ trusted' = aligned /\ aligned' = aligned
      /\ pressed' = pressed \cup TurnBytes(sending')
      /\ UNCHANGED receiverVars
  BY Zenon DEF Send
<1>2. type \in Bytes /\ c \in Bytes /\ c # BLE_TAIL
  BY PacketsAssumption DEF PacketsAssumption
<1>3. /\ sending' \in Seq(Bytes) /\ Len(sending') = 12
      /\ sending'[1] = BLE_HEAD /\ sending'[2] = type /\ sending'[3] = c
      /\ sending'[12] = BLE_TAIL
  <2> HIDE DEF BLE_HEAD, BLE_TAIL
  <2> QED
    BY <1>1, <1>2, PacketLooks
<1>4. LinkTyped'
  <2>1. TypeOK'
    BY <1>1 DEF LinkInv, LinkTyped, LinkTypeOK, TypeOK, receiverVars
  <2>2. aligned' \in BOOLEAN /\ trusted' \in BOOLEAN
    BY <1>1, Zenon DEF LinkInv, LinkTyped, LinkTypeOK
  <2>3. pressed' \subseteq Turns
    BY <1>1, Zenon DEF LinkInv, LinkTyped, LinkTypeOK, TurnBytes
  <2>4. gone' \in 0..PacketSize /\ Len(sending') = PacketSize
    BY <1>1, <1>3 DEF PacketSize
  <2> QED
    BY <1>3, <2>1, <2>2, <2>3, <2>4, Zenon DEF LinkTyped, LinkTypeOK, Payloads
<1>5. PacketSent'
  BY <1>2, <1>3 DEF PacketSent, Channel
<1>6. Aligned' /\ Unsteered'
  BY <1>1 DEF LinkInv, Aligned, Unsteered, receiverVars
<1>7. TurnsSeen'
  BY <1>1 DEF LinkInv, TurnsSeen, receiverVars
<1>8. Progress'
  BY <1>1 DEF LinkInv, Aligned, Progress, Held, PacketSize, receiverVars, HeaderIndex
<1> QED
  BY <1>4, <1>5, <1>6, <1>7, <1>8 DEF LinkInv

\* The next byte of a trusted steering packet.
LEMMA ArriveKeepsProgress ==
    ASSUME LinkInv, Arrive
    PROVE  Progress'
<1> DEFINE b == sending[gone + 1]
<1>1. /\ gone \in 0..11 /\ rt_ble_uart_recv(b) /\ gone' = gone + 1
      /\ sending' = sending /\ trusted' = trusted /\ recv_cb_func' = recv_cb_func
  BY DEF Arrive, LinkInv, LinkTyped, LinkTypeOK, PacketSize, Idle, rt_ble_uart_recv
<1> SUFFICES ASSUME trusted, Steering PROVE Held' \/ Obeyed'
  BY <1>1 DEF Progress, Steering, Type, Nested
<1>2. /\ Type(sending) = BLE_DIRECTION_TYPE /\ sending[1] = BLE_HEAD
      /\ sending[2] = BLE_DIRECTION_TYPE /\ sending[3] = Channel(sending)
      /\ sending[3] # BLE_TAIL /\ sending[12] = BLE_TAIL
  BY DEF Steering, LinkInv, PacketSent, Type, Channel
<1>3. 12 <= BufSize
  BY PacketsAssumption DEF PacketsAssumption, PacketSize
<1>4. /\ ble_recv_buff \in [HeaderIndex -> Bytes] /\ HeaderIndex = 0..2
  BY DEF LinkInv, LinkTyped, LinkTypeOK, TypeOK, HeaderIndex
<1>5. CASE Held
  <2>1. /\ ble_data_offset = gone
        /\ \A i \in 0..2 : i < gone => ble_recv_buff[i] = sending[i + 1]
    BY <1>4, <1>5 DEF Held
  <2>2. ~SecondOfForeign
    BY <1>2, <2>1 DEF SecondOfForeign
  <2>3. Completes(b) => gone >= 3 /\ b = BLE_TAIL
    BY <1>1, <1>2, <1>3, <2>1 DEF Completes
  <2>4. CASE Completes(b)
    <3>1. Deliver(b)
      BY <1>1, <2>2, <2>4 DEF rt_ble_uart_recv, DropForeign, Keep
    <3>2. /\ ble_recv_buff' = ble_recv_buff /\ ble_data_offset' = 0
      BY <1>4, <2>1, <2>3, <2>4, <3>1 DEF Deliver, Store
    <3>3. recv_cb_func => direction' = ble_recv_buff[2]
      <4>1. ble_recv_buff[1] = BLE_DIRECTION_TYPE /\ ble_recv_buff[2] = sending[3]
        BY <1>1, <1>2, <2>1, <2>3, <2>4
      <4>2. Store(NUL) = ble_recv_buff
        BY <3>1, <3>2 DEF Deliver
      <4>3. recv_cb_func => direction' = IF Store(NUL)[1] = BLE_DIRECTION_TYPE
                                         THEN Store(NUL)[2] ELSE direction
        BY <3>1, Zenon DEF Deliver, ble_recv_data
      <4> QED
        BY <4>1, <4>2, <4>3
    <3> QED
      BY <1>1, <1>2, <2>1, <2>3, <2>4, <3>2, <3>3 DEF Obeyed, Channel
  <2>5. CASE ~Completes(b)
    <3>1. Keep(b)
      BY <1>1, <2>2, <2>5 DEF rt_ble_uart_recv, DropForeign, Deliver
    <3>2. gone' < 12
      BY <1>1, <1>2, <2>5 DEF Completes
    <3>3. \A i \in 0..2 : i < gone' => ble_recv_buff'[i] = sending[i + 1]
      BY <1>1, <1>4, <2>1, <3>1 DEF Keep, Store
    <3> QED
      BY <1>1, <1>4, <2>1, <3>1, <3>2, <3>3 DEF Held, Keep, PacketSize
  <2> QED
    BY <2>4, <2>5
<1>6. CASE Obeyed
  <2>1. b # BLE_HEAD
    <3>1. PICK i \in 4..gone : sending[i] = BLE_TAIL
      BY <1>6 DEF Obeyed
    <3>2. CASE gone + 1 = 12
      BY <1>2, <3>2
    <3>3. CASE gone + 1 # 12
      BY <1>1, <3>1, <3>3 DEF Steering, Nested, Payload, PacketSize
    <3> QED
      BY <3>2, <3>3
  <2>2. /\ gone > 3 /\ ble_data_offset \in {0, 1}
        /\ ble_data_offset = 1 => ble_recv_buff[0] # BLE_HEAD
        /\ ble_recv_buff[2] = Channel(sending)
        /\ recv_cb_func => direction = Channel(sending)
    BY <1>6 DEF Obeyed
  <2>3. /\ ble_data_offset' \in {0, 1}
        /\ ble_data_offset' = 1 => ble_recv_buff'[0] # BLE_HEAD
        /\ ble_recv_buff'[2] = Channel(sending)
        /\ recv_cb_func => direction' = Channel(sending)
    <3>1. CASE DropForeign(b)
      BY <1>4, <2>2, <3>1 DEF DropForeign, SecondOfForeign, Store
    <3>2. CASE Deliver(b)
      BY <1>4, <2>2, <3>2 DEF Deliver, SecondOfForeign, Store, ble_recv_data
    <3>3. CASE Keep(b)
      BY <1>4, <2>1, <2>2, <3>3 DEF Keep, SecondOfForeign, Store
    <3> QED
      BY <1>1, <3>1, <3>2, <3>3 DEF rt_ble_uart_recv
  <2>4. \E i \in 4..gone' : sending'[i] = BLE_TAIL
    BY <1>1, <1>6 DEF Obeyed
  <2> QED
    BY <1>1, <2>2, <2>3, <2>4 DEF Obeyed, Channel
<1> QED
  BY <1>5, <1>6 DEF LinkInv, Progress

\* A byte reaches the receiver, and every turn it may be is counted.
LEMMA ByteKeepsReceiver ==
    ASSUME LinkInv, NEW b \in Bytes, rt_ble_uart_recv(b), aligned' = (b = BLE_TAIL)
    PROVE  /\ TypeOK' /\ Aligned' /\ Unsteered' /\ aligned' \in BOOLEAN
           /\ pressed \cup (Turns \cap {b}) \subseteq pressed'
                => /\ ble_recv_buff'[2] \in Turns => ble_recv_buff'[2] \in pressed'
                   /\ direction' \in Turns => direction' \in pressed'
<1>1. TypeOK
  BY DEF LinkInv, LinkTyped, LinkTypeOK
<1>2. TypeOK'
  BY <1>1, ReceiveKeepsTypes
<1>3. /\ ble_recv_buff'[2] \in {ble_recv_buff[2], b, NUL}
      /\ direction' \in {direction, ble_recv_buff'[2]}
      /\ recv_cb_func' = recv_cb_func
      /\ ~recv_cb_func => direction' = direction
      /\ b = BLE_TAIL => ble_data_offset' = 0
  BY <1>1, ReceiveMoves
<1>4. Aligned' /\ Unsteered'
  BY <1>3 DEF LinkInv, Aligned, Unsteered
<1>5. NUL \notin Turns
  BY DEF Turns, LEFT, RIGHT
<1> QED
  BY <1>2, <1>3, <1>4, <1>5 DEF LinkInv, TurnsSeen

LEMMA ArriveKeepsInv ==
    ASSUME LinkInv, Arrive
    PROVE  LinkInv'
<1> DEFINE b == sending[gone + 1]
           done == /\ gone' = PacketSize /\ trusted
                   /\ IsCommand(sending, STOP) /\ ~Nested(sending)
<1>1. /\ ~Idle /\ rt_ble_uart_recv(b) /\ gone' = gone + 1
      /\ aligned' = (b = BLE_TAIL) /\ pressed' = IF done THEN {} ELSE pressed
      /\ UNCHANGED <<send_data, sending, trusted>>
  BY DEF Arrive
<1>2. gone \in 0..11 /\ sending \in Seq(Bytes) /\ Len(sending) = 12
  BY <1>1 DEF LinkInv, LinkTyped, LinkTypeOK, PacketSize, Idle
<1>3. b \in Bytes
  <2>1. gone + 1 \in 1..Len(sending)
    BY <1>2
  <2> QED
    BY <1>2, <2>1, ElementOfSeq
<1>4. Progress'
  BY ArriveKeepsProgress
<1>5. /\ TypeOK' /\ Aligned' /\ Unsteered' /\ aligned' \in BOOLEAN
      /\ pressed \cup (Turns \cap {b}) \subseteq pressed'
           => /\ ble_recv_buff'[2] \in Turns => ble_recv_buff'[2] \in pressed'
              /\ direction' \in Turns => direction' \in pressed'
  <2> HIDE DEF b
  <2> QED
    BY <1>1, <1>3, ByteKeepsReceiver
<1>6. LinkTyped'
  <2>1. gone' \in 0..PacketSize /\ pressed' \subseteq Turns
    BY <1>1, <1>2 DEF PacketSize, LinkInv, LinkTyped, LinkTypeOK
  <2> QED
    BY <1>1, <1>5, <2>1, Zenon DEF LinkInv, LinkTyped, LinkTypeOK
<1>7. PacketSent'
  BY <1>1 DEF LinkInv, PacketSent, Type, Channel
<1>8. TurnsSeen'
  <2>1. CASE done
    <3>1. Obeyed'
      BY <1>1, <1>4, <2>1 DEF Progress, Steering, Held, IsCommand, Type, Nested
    <3>2. ble_recv_buff'[2] = STOP /\ (recv_cb_func' => direction' = STOP)
      BY <1>1, <2>1, <3>1 DEF Obeyed, IsCommand, Channel
    <3>3. STOP \notin Turns /\ NUL \notin Turns
      BY DEF Turns, LEFT, RIGHT, STOP
    <3>4. Idle'
      BY <2>1 DEF Idle
    <3> QED
      BY <1>5, <3>2, <3>3, <3>4 DEF TurnsSeen, Unsteered
  <2>2. CASE ~done
    <3>1. TurnBytes(sending) \subseteq pressed
      BY <1>1 DEF LinkInv, TurnsSeen
    <3>2. Turns \cap {b} \subseteq TurnBytes(sending)
      BY <1>2 DEF TurnBytes, PacketSize
    <3>3. TurnBytes(sending') = TurnBytes(sending) /\ pressed' = pressed
      BY <1>1, <2>2
    <3> HIDE DEF b
    <3> QED
      BY <1>5, <3>1, <3>2, <3>3 DEF TurnsSeen
  <2> QED
    BY <2>1, <2>2
<1> QED
  BY <1>4, <1>5, <1>6, <1>7, <1>8 DEF LinkInv

\* A byte changed on the way, or one out of nothing.
LEMMA NoiseKeepsInv ==
    ASSUME LinkInv, NEW b \in Noise, Garble(b) \/ Spurious(b)
    PROVE  LinkInv'
<1>1. /\ rt_ble_uart_recv(b) /\ aligned' = (b = BLE_TAIL) /\ trusted' = FALSE
      /\ pressed' = pressed \cup (Turns \cap {b})
      /\ UNCHANGED <<send_data, sending>>
  BY Zenon DEF Garble, Spurious
<1>2. gone' \in 0..PacketSize /\ (Idle => Idle')
  BY DEF Garble, Spurious, LinkInv, LinkTyped, LinkTypeOK, PacketSize, Idle
<1>3. b \in Bytes
  BY PacketsAssumption DEF PacketsAssumption
<1>4. /\ TypeOK' /\ Aligned' /\ Unsteered' /\ aligned' \in BOOLEAN
      /\ ble_recv_buff'[2] \in Turns => ble_recv_buff'[2] \in pressed'
      /\ direction' \in Turns => direction' \in pressed'
  BY <1>1, <1>3, ByteKeepsReceiver
<1>5. LinkTyped'
  <2>1. trusted' \in BOOLEAN /\ pressed' \subseteq Turns
    BY <1>1, Zenon DEF LinkInv, LinkTyped, LinkTypeOK
  <2> QED
    BY <1>1, <1>2, <1>4, <2>1, Zenon DEF LinkInv, LinkTyped, LinkTypeOK
<1>6. PacketSent' /\ Progress'
  BY <1>1 DEF LinkInv, PacketSent, Type, Channel, Progress
<1>7. TurnsSeen'
  BY <1>1, <1>2, <1>4 DEF LinkInv, TurnsSeen
<1> QED
  BY <1>4, <1>5, <1>6, <1>7 DEF LinkInv

LEMMA LinkNextKeepsInv == LinkInv /\ [LinkNext]_linkVars => LinkInv'
<1> SUFFICES ASSUME LinkInv, [LinkNext]_linkVars PROVE LinkInv'
  OBVIOUS
<1>1. ASSUME NEW c \in PhoneChannels, PhonePress(c) PROVE LinkInv'
  <2>1. Zeros \in Payloads
    <3>1. Zeros \in [1..8 -> Bytes]
      BY DEF Zeros, BytesAssumption
    <3> QED
      BY <3>1, EightBytesArePayload
  <2>2. send_data' \in Payloads
    BY <1>1 DEF PhonePress, LinkInv, LinkTyped
  <2> QED
    BY <1>1, <2>1, <2>2, SendKeepsInv DEF PhonePress
<1>2. ASSUME NEW c \in PcParams, NEW n \in Numbers, PcSet(c, n) PROVE LinkInv'
  <2>1. send_data' \in Payloads
    BY <1>2, NumberInPayload DEF PcSet, LinkInv, LinkTyped
  <2>2. PICK sent \in Payloads : sent = send_data' /\ Send(packet(BLE_PARAM_TYPE, c, sent))
    BY <1>2, <2>1, Zenon DEF PcSet
  <2> QED
    BY <2>1, <2>2, SendKeepsInv
<1>3. ASSUME NEW c \in PcChannels, PcPress(c) PROVE LinkInv'
  <2>1. send_data \in Payloads /\ send_data' \in Payloads
    BY <1>3 DEF PcPress, LinkInv, LinkTyped
  <2> QED
    BY <1>3, <2>1, SendKeepsInv DEF PcPress
<1>4. CASE Lose
  <2>1. gone' \in 0..PacketSize
    BY <1>4 DEF Lose, Idle, LinkInv, LinkTyped, LinkTypeOK, PacketSize
  <2>2. LinkTyped'
    <3>1. trusted' \in BOOLEAN /\ TypeOK'
      BY <1>4 DEF Lose, LinkInv, LinkTyped, LinkTypeOK, TypeOK, receiverVars
    <3> QED
      BY <1>4, <2>1, <3>1, Zenon DEF Lose, LinkInv, LinkTyped, LinkTypeOK
  <2> QED
    BY <1>4, <2>2 DEF Lose, LinkInv, PacketSent, Type, Channel, Aligned, Unsteered,
                      TurnsSeen, Progress, receiverVars
<1>5. CASE RegisterMidway
  <2>1. LinkTyped'
    <3>1. trusted' \in BOOLEAN /\ TypeOK'
      BY <1>5 DEF RegisterMidway, ble_recv_cb_register, LinkInv, LinkTyped, LinkTypeOK,
                  TypeOK
    <3> QED
      BY <1>5, <3>1, Zenon DEF RegisterMidway, LinkInv, LinkTyped, LinkTypeOK
  <2> QED
    BY <1>5, <2>1 DEF RegisterMidway, ble_recv_cb_register, LinkInv, PacketSent, Type,
                      Channel, Aligned, Unsteered, TurnsSeen, Progress, Idle
<1>6. CASE UNCHANGED linkVars
  <2>1. LinkTyped'
    <3>1. TypeOK'
      BY <1>6 DEF linkVars, receiverVars, LinkInv, LinkTyped, LinkTypeOK, TypeOK
    <3> QED
      BY <1>6, <3>1, Zenon DEF linkVars, LinkInv, LinkTyped, LinkTypeOK
  <2> QED
    BY <1>6, <2>1 DEF linkVars, receiverVars, LinkInv, PacketSent, Type, Channel, Aligned,
                      Unsteered, TurnsSeen, Progress, Steering, Nested, Held, Obeyed, Idle
<1> QED
  BY <1>1, <1>2, <1>3, <1>4, <1>5, <1>6, ArriveKeepsInv, NoiseKeepsInv DEF LinkNext

LEMMA LinkSpecKeepsInv == LinkSpec => []LinkInv
BY LinkInitEstablishesInv, LinkNextKeepsInv, PTL DEF LinkSpec

(***************************************************************************)
(* Every variable of the link keeps its type, whatever is lost or garbled. *)
(***************************************************************************)
THEOREM LinkTypeCorrect == LinkSpec => []LinkTypeOK
<1>1. LinkInv => LinkTypeOK
  BY DEF LinkInv, LinkTyped
<1> QED
  BY <1>1, LinkSpecKeepsInv, PTL

(***************************************************************************)
(* A steering packet that arrives whole, behind a tail, is obeyed by the   *)
(* time its last byte is in.                                               *)
(***************************************************************************)
THEOREM ObeyedCorrect == LinkSpec => []TrustedPacketObeyed
<1>1. LinkInv => TrustedPacketObeyed
  BY DEF LinkInv, Progress, Steering, Held, Obeyed, TrustedPacketObeyed, Idle, PacketSize
<1> QED
  BY <1>1, LinkSpecKeepsInv, PTL

(***************************************************************************)
(* No turn is obeyed of which no byte was on the line since the last STOP  *)
(* that came through.                                                      *)
(***************************************************************************)
THEOREM NoTurnResurrectedCorrect == LinkSpec => []NoTurnResurrected
<1>1. LinkInv => NoTurnResurrected
  BY DEF LinkInv, TurnsSeen, NoTurnResurrected
<1> QED
  BY <1>1, LinkSpecKeepsInv, PTL
=============================================================================
