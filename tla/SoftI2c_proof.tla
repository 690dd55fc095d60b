--------------------------- MODULE SoftI2c_proof ---------------------------
(***************************************************************************)
(* The bit-banged bus for bytes of any width, any address, any contents of *)
(* the registers and any number of held clocks.  The argument has four     *)
(* parts, each resting on the one before:                                  *)
(*   - the device: what it makes of every pair of levels of the two lines; *)
(*   - Control: where the master is says what its pins, its counters and   *)
(*     its result are, whatever the device does;                           *)
(*   - InStep: once the device has seen the start, and until a wait for    *)
(*     the clock is given up, where the master is also says in which slot  *)
(*     of which byte the device is;                                        *)
(*   - Through: then the bits add up to bytes, the bytes to the pointer,   *)
(*     the register and the buffer.                                        *)
(* BusFree follows from the third part, RegisterTransfer from the fourth.  *)
(***************************************************************************)
EXTENDS SoftI2c, FiniteSetTheorems, FunctionTheorems, SequenceTheorems, TLAPS

\* The subsets of 1..n are 2^n.
LEMMA Subsets ==
    ASSUME NEW n \in Nat
    PROVE  IsFiniteSet(SUBSET (1..n)) /\ Cardinality(SUBSET (1..n)) = 2^n
<1>1. IsFiniteSet(1..n) /\ Cardinality(1..n) = n
  BY FS_Interval
<1> QED
  BY <1>1, FS_SUBSET

\* A power of two is at least one,
LEMMA PowerPositive ==
    ASSUME NEW n \in Nat
    PROVE  2^n \in Nat \ {0}
<1>1. Cardinality(SUBSET (1..n)) \in Nat
  BY Subsets, FS_CardinalityType
<1>2. SUBSET (1..n) # {}
  OBVIOUS
<1>3. Cardinality(SUBSET (1..n)) # 0
  BY <1>2, Subsets, FS_EmptySet
<1> QED
  BY <1>1, <1>3, Subsets

\* grows with its exponent,
LEMMA PowerMonotone ==
    ASSUME NEW m \in Nat, NEW n \in Nat, m <= n
    PROVE  2^m <= 2^n
<1>1. SUBSET (1..m) \in SUBSET (SUBSET (1..n))
  <2>1. 1..m \subseteq 1..n
    OBVIOUS
  <2> QED
    BY <2>1
<1>2. Cardinality(SUBSET (1..m)) <= Cardinality(SUBSET (1..n))
  BY <1>1, Subsets, FS_Subset
<1> QED
  BY <1>2, Subsets

\* and doubles with each: the subsets of 1..n+1 are those without n+1 and
\* those with it.
LEMMA PowerDoubles ==
    ASSUME NEW n \in Nat
    PROVE  2^(n + 1) = 2 * 2^n
<1> DEFINE Old == SUBSET (1..n)
           add == [A \in Old |-> A \cup {n + 1}]
           New == {A \cup {n + 1} : A \in Old}
<1>1. SUBSET (1..(n + 1)) = Old \cup New
  <2>1. ASSUME NEW A \in SUBSET (1..(n + 1)) PROVE A \in Old \cup New
    <3>1. CASE n + 1 \in A
      <4>1. A \ {n + 1} \in Old /\ A = (A \ {n + 1}) \cup {n + 1}
        BY <3>1
      <4> QED
        BY <4>1
    <3>2. CASE n + 1 \notin A
      BY <3>2
    <3> QED
      BY <3>1, <3>2
  <2>2. ASSUME NEW A \in Old \cup New PROVE A \in SUBSET (1..(n + 1))
    OBVIOUS
  <2> QED
    BY <2>1, <2>2
<1>2. Old \cap New = {}
  OBVIOUS
<1>3. ExistsBijection(Old, New)
  <2>1. add \in [Old -> New] /\ \A A \in New : \E B \in Old : add[B] = A
    OBVIOUS
  <2>2. \A A, B \in Old : add[A] = add[B] => A = B
    <3> SUFFICES ASSUME NEW A \in Old, NEW B \in Old,
                        A \cup {n + 1} = B \cup {n + 1}
                 PROVE  A = B
      OBVIOUS
    <3>1. n + 1 \notin A /\ n + 1 \notin B
      OBVIOUS
    <3> QED
      BY <3>1
  <2>3. add \in Bijection(Old, New)
    BY <2>1, <2>2, Fun_IsBij
  <2> QED
    BY <2>3 DEF ExistsBijection
<1>4. /\ IsFiniteSet(Old) /\ Cardinality(Old) = 2^n
      /\ Cardinality(SUBSET (1..(n + 1))) = 2^(n + 1)
  <2>1. n + 1 \in Nat
    OBVIOUS
  <2> QED
    BY <2>1, Subsets
<1>5. IsFiniteSet(New) /\ Cardinality(New) = 2^n
  BY <1>3, <1>4, FS_Bijection
<1>6. Cardinality(Old \cup New) = 2^n + 2^n - Cardinality(Old \cap New)
  BY <1>4, <1>5, FS_Union
<1>7. Cardinality(Old \cap New) = 0
  BY <1>2, FS_EmptySet
<1>8. 2^(n + 1) = 2^n + 2^n
  <2>1. Cardinality(SUBSET (1..(n + 1))) = Cardinality(Old \cup New)
    BY <1>1
  <2>2. 2^n + 2^n - Cardinality(Old \cap New) = 2^n + 2^n
    BY <1>7, PowerPositive
  <2> QED
    BY <1>4, <1>6, <2>1, <2>2, Zenon
<1> QED
  BY <1>8, PowerPositive

\* What divides into what.
LEMMA Division ==
    ASSUME NEW n \in Nat, NEW d \in Nat \ {0}
    PROVE  /\ n \div d \in Nat /\ n % d \in 0..(d - 1)
           /\ n = d * (n \div d) + (n % d)
           /\ n \div d <= n
OBVIOUS

\* A quotient from its remainder.
LEMMA Quotient ==
    ASSUME NEW n \in Nat, NEW d \in Nat \ {0}, NEW q \in Nat, NEW r \in 0..(d - 1),
           n = d * q + r
    PROVE  n \div d = q
OBVIOUS

\* Dividing by half as much brings one more binary digit.
LEMMA Halved ==
    ASSUME NEW n \in Nat, NEW d \in Nat \ {0}
    PROVE  n \div d = (2 * (n \div (2 * d))) + ((n \div d) % 2)
OBVIOUS

\* Bits and bytes are natural numbers, and % 2^Bits brings any number into
\* the bytes.
LEMMA BytesAre ==
    /\ \A b \in Bytes : b \in Nat
    /\ \A b \in Bit : b \in Bytes
    /\ \A n \in Nat : n % 2^Bits \in Bytes /\ (n \in Bytes => n % 2^Bits = n)
<1> DEFINE d == 2^Bits
<1>1. d \in Nat /\ 2 <= d
  <2>1. 2^1 = 2
    OBVIOUS
  <2>2. Bits \in Nat /\ 1 \in Nat /\ 1 <= Bits
    BY I2cAssumption DEF I2cAssumption
  <2>3. 2^1 <= d
    BY <2>2, PowerMonotone
  <2>4. d \in Nat
    BY <2>2, PowerPositive
  <2> HIDE DEF d
  <2> QED
    BY <2>1, <2>3, <2>4
<1> HIDE DEF d
<1>3. /\ \A b \in 0..(d - 1) : b \in Nat
      /\ \A b \in Bit : b \in 0..(d - 1)
      /\ \A n \in Nat : n % d \in 0..(d - 1) /\ (n \in 0..(d - 1) => n % d = n)
  BY <1>1 DEF Bit
<1> QED
  BY <1>3 DEF Bytes, d

\* A bit of a number is a bit.
LEMMA BitOfIsBit ==
    ASSUME NEW n \in Nat, NEW i \in 1..Bits
    PROVE  BitOf(n, i) \in Bit
<1>1. Bits - i \in Nat
  BY I2cAssumption DEF I2cAssumption
<1>2. 2^(Bits - i) \in Nat \ {0}
  BY <1>1, PowerPositive
<1>3. n \div 2^(Bits - i) \in Nat
  BY <1>2, Division
<1> QED
  BY <1>3 DEF BitOf, Bit

\* The slots of a byte: its bits, the answer, and none yet.
Slots == 0..(Bits + 1)
\* The parts of a device, and the values they start from.
LEMMA DevicesAre ==
    /\ Devices = [mode : Modes, slot : Slots, shift : Bytes, ack : Bit,
                  sda : Bit, scl : Bit, ptr : Bytes, regs : [Bytes -> Bytes],
                  holds : 0..MaxHolds]
    /\ Bits \in Slots /\ Bits + 1 \in Slots /\ 0 \in Slots
    /\ Bits \in Nat /\ Bits > 0 /\ 1 \in 1..Bits /\ \A k \in Slots : k \in Nat
    /\ \A k \in Slots : k < Bits => k + 1 \in Slots
    /\ 0 \in Bytes /\ 0 \in Bit /\ 1 \in Bit
    /\ \A m \in {"off", "addr", "ptr", "data", "give"} : m \in Modes
<1>1. 0 \in Bytes
  BY BytesAre DEF Bit
<1> QED
  BY <1>1, I2cAssumption DEF I2cAssumption, Slots, Devices, Modes, Bit

\* A device that goes off the bus lets go of the data line and keeps its
\* registers.
LEMMA OffIs ==
    ASSUME NEW s \in Devices
    PROVE  /\ Off(s) \in Devices
           /\ Off(s).mode = "off" /\ Off(s).sda = 1 /\ Off(s).slot = 0
           /\ Off(s).regs = s.regs /\ Off(s).ptr = s.ptr
           /\ Off(s).scl = s.scl /\ Off(s).holds = s.holds
<1>1. "off" \in Modes
  BY DevicesAre
<1> QED
  BY <1>1, DevicesAre, Zenon DEF Off

\* What the device makes of a rising clock: a bit in the slots of a byte,
\* the answer in the last.
LEMMA AfterRiseIs ==
    ASSUME NEW s \in Devices, NEW level \in Bit, NEW t, t = AfterRise(s, level)
    PROVE  /\ t \in Devices
           /\ t.mode = s.mode /\ t.sda = s.sda /\ t.scl = s.scl
           /\ t.ptr = s.ptr /\ t.regs = s.regs
           /\ s.mode # "off" /\ s.slot < Bits =>
                 /\ t.slot = s.slot + 1
                 /\ s.mode # "give" => t.shift = ((2 * s.shift) + level) % 2^Bits
           /\ s.mode # "off" /\ s.slot = Bits =>
                 t.slot = Bits + 1 /\ t.ack = level /\ t.shift = s.shift
<1> DEFINE twice == ((2 * s.shift) + level) % 2^Bits
           next == s.slot + 1
<1>1. s.slot \in Slots /\ s.shift \in Nat /\ s.slot \in Nat /\ Bits \in Nat
  <2>1. s.slot \in Slots /\ s.shift \in Bytes
    BY DevicesAre
  <2> QED
    BY <2>1, BytesAre, DevicesAre
<1>2. twice \in Bytes
  <2>1. (2 * s.shift) + level \in Nat
    BY <1>1 DEF Bit
  <2> QED
    BY <2>1, BytesAre
<1>3. s.slot < Bits => next \in Slots
  BY <1>1, DevicesAre
<1>4. CASE s.mode = "off" \/ s.slot > Bits
  <2>1. t = s
    BY <1>4 DEF AfterRise
  <2>2. ~(s.mode # "off" /\ s.slot < Bits) /\ ~(s.mode # "off" /\ s.slot = Bits)
    BY <1>1, <1>4
  <2> QED
    BY <2>1, <2>2
<1>5. CASE s.mode # "off" /\ s.slot = Bits
  <2>1. t = [s EXCEPT !.slot = Bits + 1, !.ack = level]
    BY <1>5, DevicesAre DEF AfterRise
  <2>2. /\ t \in Devices
        /\ t.mode = s.mode /\ t.sda = s.sda /\ t.scl = s.scl
        /\ t.ptr = s.ptr /\ t.regs = s.regs
        /\ t.slot = Bits + 1 /\ t.ack = level /\ t.shift = s.shift
    BY <2>1, DevicesAre, Zenon
  <2> QED
    BY <1>5, <2>2, DevicesAre
<1>6. CASE s.mode = "give" /\ s.slot < Bits
  <2>1. t = [s EXCEPT !.slot = next]
    BY <1>1, <1>6, DevicesAre DEF AfterRise
  <2>2. /\ t \in Devices
        /\ t.mode = s.mode /\ t.sda = s.sda /\ t.scl = s.scl
        /\ t.ptr = s.ptr /\ t.regs = s.regs /\ t.slot = next
    <3> HIDE DEF next
    <3> QED
      BY <1>3, <1>6, <2>1, DevicesAre, Zenon
  <2> QED
    BY <1>6, <2>2, DevicesAre
<1>7. CASE s.mode \notin {"off", "give"} /\ s.slot < Bits
  <2>1. t = [s EXCEPT !.slot = next, !.shift = twice]
    BY <1>1, <1>7, DevicesAre DEF AfterRise
  <2>2. /\ t \in Devices
        /\ t.mode = s.mode /\ t.sda = s.sda /\ t.scl = s.scl
        /\ t.ptr = s.ptr /\ t.regs = s.regs /\ t.slot = next /\ t.shift = twice
    <3> HIDE DEF next, twice
    <3> QED
      BY <1>2, <1>3, <1>7, <2>1, DevicesAre, Zenon
  <2> QED
    BY <1>7, <2>2, DevicesAre
<1>8. s.slot > Bits \/ s.slot = Bits \/ s.slot < Bits
  BY <1>1
<1> QED
  BY <1>4, <1>5, <1>6, <1>7, <1>8

\* A device that begins to give a byte shows its first bit.
LEMMA GiveIs ==
    ASSUME NEW s \in Devices
    PROVE  /\ Give(s) \in Devices
           /\ Give(s).mode = "give" /\ Give(s).slot = 0
           /\ Give(s).sda = BitOf(s.regs[s.ptr], 1)
           /\ Give(s).regs = s.regs /\ Give(s).ptr = s.ptr
           /\ Give(s).scl = s.scl /\ Give(s).holds = s.holds
<1> DEFINE first == BitOf(s.regs[s.ptr], 1)
<1>1. first \in Bit
  <2>1. s.regs[s.ptr] \in Bytes
    BY DevicesAre
  <2>2. s.regs[s.ptr] \in Nat /\ 1 \in 1..Bits
    BY <2>1, BytesAre, DevicesAre
  <2> QED
    BY <2>2, BitOfIsBit
<1>2. Give(s) = [s EXCEPT !.mode = "give", !.slot = 0, !.sda = first]
  BY DEF Give
<1> HIDE DEF first
<1>3. "give" \in Modes
  BY DevicesAre
<1>4. /\ Give(s) \in Devices
      /\ Give(s).mode = "give" /\ Give(s).slot = 0
      /\ Give(s).sda = first
      /\ Give(s).regs = s.regs /\ Give(s).ptr = s.ptr
      /\ Give(s).scl = s.scl /\ Give(s).holds = s.holds
  BY <1>1, <1>2, <1>3, DevicesAre, Zenon
<1> QED
  BY <1>4 DEF first

\* What the device makes of a byte it has acknowledged.
LEMMA AcceptedIs ==
    ASSUME NEW s \in Devices, NEW t, t = Accepted(s)
    PROVE  /\ t \in Devices /\ t.scl = s.scl /\ t.holds = s.holds
           /\ s.mode = "addr" /\ s.shift % 2 = 1 =>
                 /\ t.mode = "give" /\ t.slot = 0
                 /\ t.sda = BitOf(s.regs[s.ptr], 1)
                 /\ t.regs = s.regs /\ t.ptr = s.ptr
           /\ s.mode = "addr" /\ s.shift % 2 # 1 =>
                 /\ t.mode = "ptr" /\ t.slot = 0 /\ t.shift = 0 /\ t.sda = 1
                 /\ t.regs = s.regs /\ t.ptr = s.ptr
           /\ s.mode = "ptr" =>
                 /\ t.mode = "data" /\ t.slot = 0 /\ t.shift = 0 /\ t.sda = 1
                 /\ t.regs = s.regs /\ t.ptr = s.shift
           /\ s.mode \notin {"addr", "ptr"} =>
                 /\ t.mode = s.mode /\ t.slot = 0 /\ t.shift = 0 /\ t.sda = 1
                 /\ t.regs = [s.regs EXCEPT ![s.ptr] = s.shift]
<1> DEFINE next == [s EXCEPT !.slot = 0, !.shift = 0, !.sda = 1]
           after == NextReg(s.ptr)
           regs == [s.regs EXCEPT ![s.ptr] = s.shift]
<1>1. /\ next \in Devices
      /\ next.mode = s.mode /\ next.slot = 0 /\ next.shift = 0 /\ next.sda = 1
      /\ next.regs = s.regs /\ next.ptr = s.ptr
      /\ next.scl = s.scl /\ next.holds = s.holds
  BY DevicesAre, Zenon
<1>2. after \in Bytes /\ s.ptr \in Bytes /\ s.shift \in Bytes
  <2>1. s.ptr \in Bytes /\ s.shift \in Bytes
    BY DevicesAre
  <2>2. s.ptr + 1 \in Nat
    BY <2>1, BytesAre
  <2> QED
    BY <2>1, <2>2, BytesAre DEF NextReg
<1>3. regs \in [Bytes -> Bytes]
  BY <1>2, DevicesAre
<1>4. CASE s.mode = "addr" /\ s.shift % 2 = 1
  <2>1. t = Give(next)
    BY <1>4 DEF Accepted
  <2> HIDE DEF next
  <2> QED
    BY <1>1, <1>4, <2>1, GiveIs
<1>5. CASE s.mode = "addr" /\ s.shift % 2 # 1
  <2>1. t = [next EXCEPT !.mode = "ptr"]
    BY <1>5 DEF Accepted
  <2>2. "ptr" \in Modes
    BY DevicesAre
  <2> HIDE DEF next
  <2>3. /\ t \in Devices
        /\ t.mode = "ptr" /\ t.slot = next.slot /\ t.shift = next.shift
        /\ t.sda = next.sda /\ t.regs = next.regs /\ t.ptr = next.ptr
        /\ t.scl = next.scl /\ t.holds = next.holds
    BY <1>1, <2>1, <2>2, DevicesAre, Zenon
  <2> QED
    BY <1>1, <1>5, <2>3
<1>6. CASE s.mode = "ptr"
  <2>1. t = [next EXCEPT !.mode = "data", !.ptr = s.shift]
    BY <1>6 DEF Accepted
  <2>2. "data" \in Modes
    BY DevicesAre
  <2> HIDE DEF next
  <2>3. /\ t \in Devices
        /\ t.mode = "data" /\ t.slot = next.slot /\ t.shift = next.shift
        /\ t.sda = next.sda /\ t.regs = next.regs /\ t.ptr = s.shift
        /\ t.scl = next.scl /\ t.holds = next.holds
    BY <1>1, <1>2, <2>1, <2>2, DevicesAre, Zenon
  <2> QED
    BY <1>1, <1>6, <2>3
<1>7. CASE s.mode \notin {"addr", "ptr"}
  <2>1. t = [next EXCEPT !.regs[s.ptr] = s.shift, !.ptr = NextReg(@)]
    BY <1>7 DEF Accepted
  <2>2. t = [next EXCEPT !.regs = regs, !.ptr = after]
    BY <1>1, <2>1
  <2> HIDE DEF next, regs, after
  <2>3. /\ t \in Devices
        /\ t.mode = next.mode /\ t.slot = next.slot /\ t.shift = next.shift
        /\ t.sda = next.sda /\ t.regs = regs
        /\ t.scl = next.scl /\ t.holds = next.holds
    BY <1>1, <1>2, <1>3, <2>2, DevicesAre, Zenon
  <2> QED
    BY <1>1, <1>7, <2>3 DEF regs
<1> QED
  BY <1>4, <1>5, <1>6, <1>7

\* What a falling clock makes of it.
Alike(s, t) == /\ t.mode = s.mode /\ t.slot = s.slot /\ t.shift = s.shift
               /\ t.ack = s.ack /\ t.sda = s.sda /\ t.ptr = s.ptr /\ t.regs = s.regs

\* A device that holds the clock changes in nothing else.
LEMMA HoldingIs ==
    ASSUME NEW s \in Devices, NEW t \in Holding(s)
    PROVE  /\ t \in Devices /\ Alike(s, t)
           /\ s.mode = "off" => t.scl = s.scl
<1>1. CASE t = s
  BY <1>1 DEF Alike
<1>2. CASE t # s
  <2> DEFINE n == s.holds + 1
  <2>1. /\ t = [s EXCEPT !.scl = 0, !.holds = n]
        /\ s.mode # "off" /\ s.holds # MaxHolds
    BY <1>2 DEF Holding
  <2>2. n \in 0..MaxHolds
    <3>1. s.holds \in 0..MaxHolds /\ MaxHolds \in Nat
      BY DevicesAre, I2cAssumption DEF I2cAssumption
    <3> QED
      BY <2>1, <3>1
  <2> HIDE DEF n
  <2>3. t \in Devices /\ Alike(s, t)
    BY <2>1, <2>2, DevicesAre, Zenon DEF Alike
  <2> QED
    BY <2>1, <2>3
<1> QED
  BY <1>1, <1>2

\* What the device makes of a falling clock, case by case.
LEMMA AfterFallIs ==
    ASSUME NEW s \in Devices, NEW t \in AfterFall(s)
    PROVE  /\ t \in Devices /\ t.scl = s.scl
           /\ s.mode = "off" \/ s.slot = 0 => t = s
           /\ s.mode # "give" /\ s.slot < Bits => t = s
           /\ s.mode = "give" /\ 0 < s.slot /\ s.slot < Bits =>
                 /\ t.mode = "give" /\ t.slot = s.slot
                 /\ t.sda = BitOf(s.regs[s.ptr], s.slot + 1)
                 /\ t.ptr = s.ptr /\ t.regs = s.regs
           /\ s.mode = "give" /\ s.slot = Bits =>
                 /\ t.mode = "give" /\ t.slot = Bits /\ t.sda = 1
                 /\ t.ptr = s.ptr /\ t.regs = s.regs
           /\ s.mode = "give" /\ s.slot > Bits /\ s.ack = 0 =>
                 /\ t.mode = "give" /\ t.slot = 0
                 /\ t.sda = BitOf(t.regs[t.ptr], 1)
                 /\ t.ptr = NextReg(s.ptr) /\ t.regs = s.regs
           /\ s.mode = "give" /\ s.slot > Bits /\ s.ack # 0 => t = Off(s)
           /\ s.mode \notin {"off", "give"} /\ s.slot = Bits =>
                 \/ t = Off(s)
                 \/ /\ t.mode = s.mode /\ t.slot = Bits /\ t.sda = 0
                    /\ t.shift = s.shift /\ t.ptr = s.ptr /\ t.regs = s.regs
           /\ s.mode \notin {"off", "give"} /\ s.slot > Bits => t = Accepted(s)
<1>1. s.slot \in Nat /\ Bits \in Nat /\ Bits > 0
  <2>1. s.slot \in Slots
    BY DevicesAre
  <2> QED
    BY <2>1, DevicesAre
<1>2. CASE s.mode = "off" \/ s.slot = 0
  BY <1>1, <1>2 DEF AfterFall
<1>3. CASE s.mode = "give" /\ 0 < s.slot /\ s.slot < Bits
  <2> DEFINE next == BitOf(s.regs[s.ptr], s.slot + 1)
  <2>1. t = [s EXCEPT !.sda = next]
    BY <1>1, <1>3 DEF AfterFall
  <2>2. next \in Bit
    <3>1. s.regs[s.ptr] \in Bytes
      BY DevicesAre
    <3>2. s.regs[s.ptr] \in Nat /\ s.slot + 1 \in 1..Bits
      BY <1>1, <1>3, <3>1, BytesAre
    <3> QED
      BY <3>2, BitOfIsBit
  <2> HIDE DEF next
  <2>3. /\ t \in Devices /\ t.scl = s.scl
        /\ t.mode = s.mode /\ t.slot = s.slot /\ t.sda = next
        /\ t.ptr = s.ptr /\ t.regs = s.regs
    BY <2>1, <2>2, DevicesAre, Zenon
  <2> QED
    BY <1>1, <1>3, <2>3 DEF next
<1>4. CASE s.mode = "give" /\ s.slot = Bits
  <2>1. t = [s EXCEPT !.sda = 1]
    BY <1>1, <1>4 DEF AfterFall
  <2>2. /\ t \in Devices /\ t.scl = s.scl
        /\ t.mode = s.mode /\ t.slot = s.slot /\ t.sda = 1
        /\ t.ptr = s.ptr /\ t.regs = s.regs
    BY <2>1, DevicesAre, Zenon
  <2> QED
    BY <1>1, <1>4, <2>2
<1>5. CASE s.mode = "give" /\ s.slot > Bits /\ s.ack = 0
  <2> DEFINE after == NextReg(s.ptr)
             next == [s EXCEPT !.ptr = after]
  <2>1. t = Give(next)
    BY <1>1, <1>5 DEF AfterFall
  <2>2. after \in Bytes
    <3>1. s.ptr \in Bytes
      BY DevicesAre
    <3>2. s.ptr + 1 \in Nat
      BY <3>1, BytesAre
    <3> QED
      BY <3>2, BytesAre DEF NextReg
  <2> HIDE DEF after
  <2>3. next \in Devices /\ next.scl = s.scl /\ next.ptr = after /\ next.regs = s.regs
    BY <2>2, DevicesAre, Zenon
  <2> HIDE DEF next
  <2>4. /\ t \in Devices /\ t.scl = s.scl /\ t.mode = "give" /\ t.slot = 0
        /\ t.sda = BitOf(t.regs[t.ptr], 1) /\ t.ptr = after /\ t.regs = s.regs
    BY <2>1, <2>3, GiveIs
  <2> QED
    BY <1>1, <1>5, <2>4 DEF after
<1>6. CASE s.mode = "give" /\ s.slot > Bits /\ s.ack # 0
  <2>1. t = Off(s)
    BY <1>1, <1>6 DEF AfterFall
  <2> QED
    BY <1>1, <1>6, <2>1, OffIs
<1>7. CASE s.mode \notin {"off", "give"} /\ 0 < s.slot /\ s.slot < Bits
  BY <1>1, <1>7 DEF AfterFall
<1>8. CASE s.mode \notin {"off", "give"} /\ s.slot = Bits
  <2>1. t = Off(s) \/ t = [s EXCEPT !.sda = 0]
    BY <1>1, <1>8 DEF AfterFall
  <2>2. CASE t = Off(s)
    BY <1>1, <1>8, <2>2, OffIs
  <2>3. CASE t = [s EXCEPT !.sda = 0]
    <3>1. /\ t \in Devices /\ t.scl = s.scl
          /\ t.mode = s.mode /\ t.slot = s.slot /\ t.sda = 0
          /\ t.shift = s.shift /\ t.ptr = s.ptr /\ t.regs = s.regs
      BY <2>3, DevicesAre, Zenon
    <3> QED
      BY <1>1, <1>8, <3>1
  <2> QED
    BY <2>1, <2>2, <2>3
<1>9. CASE s.mode \notin {"off", "give"} /\ s.slot > Bits
  <2>1. t = Accepted(s)
    BY <1>1, <1>9 DEF AfterFall
  <2>2. t \in Devices /\ t.scl = s.scl
    BY <2>1, AcceptedIs
  <2> QED
    BY <1>1, <1>9, <2>1, <2>2
<1>10. /\ s.slot = 0 \/ (0 < s.slot /\ s.slot < Bits) \/ s.slot = Bits \/ s.slot > Bits
       /\ s.mode = "off" \/ s.mode = "give" \/ s.mode \notin {"off", "give"}
  BY <1>1
<1> QED
  BY <1>2, <1>3, <1>4, <1>5, <1>6, <1>7, <1>8, <1>9, <1>10

\* A device that a falling clock finds or leaves off the bus has let go of
\* its data line.
LEMMA FallenOff ==
    ASSUME NEW s \in Devices, NEW t \in AfterFall(s), t.mode = "off"
    PROVE  t = s \/ t = Off(s)
<1>1. s.slot \in Slots /\ \A k \in Slots : k \in Nat
  BY DevicesAre
<1>2. s.slot \in Nat /\ Bits \in Nat
  BY <1>1, DevicesAre
<1>3. s.mode \notin {"off", "give"} /\ s.slot > Bits => FALSE
  <2> SUFFICES ASSUME s.mode \notin {"off", "give"}, s.slot > Bits PROVE FALSE
    OBVIOUS
  <2>1. t = Accepted(s)
    BY AfterFallIs
  <2> QED
    BY <2>1, AcceptedIs
<1> QED
  BY <1>2, <1>3, AfterFallIs

-----------------------------------------------------------------------------

\* The device after the start condition.
Begun(s) == [s EXCEPT !.mode = "addr", !.slot = 0, !.shift = 0, !.sda = 1]
\* A device that has begun is one that awaits its address.
LEMMA BegunIs ==
    ASSUME NEW s \in Devices, NEW t, t = Begun(s)
    PROVE  /\ t \in Devices /\ t.scl = s.scl /\ t.ptr = s.ptr /\ t.regs = s.regs
           /\ t.mode = "addr" /\ t.slot = 0 /\ t.shift = 0 /\ t.sda = 1
<1>1. "addr" \in Modes
  BY DevicesAre
<1> QED
  BY <1>1, DevicesAre, Zenon DEF Begun

\* The two pins and the device.
LineTyped == sda \in Bit /\ scl \in Bit /\ slave \in Devices

\* With the clock low throughout, nothing reaches the device.
LEMMA PinsQuiet ==
    ASSUME LineTyped, NEW d \in Bit, NEW c \in Bit, Pins(d, c),
           (scl = 0 /\ c = 0) \/ slave.scl = 0
    PROVE  slave' = slave
<1>1. Scl(scl, slave) = 0 /\ Scl(c, slave) = 0
  <2>1. slave.scl \in Bit
    BY DevicesAre DEF LineTyped
  <2> QED
    BY <2>1 DEF LineTyped, Scl, Bit
<1> QED
  BY <1>1 DEF Pins, React

\* The master lets the clock rise.
LEMMA PinsRaise ==
    ASSUME LineTyped, NEW d \in Bit, Pins(d, 1), scl = 0, slave.scl = 1
    PROVE  slave' = AfterRise(slave, d * slave.sda)
<1>1. Scl(scl, slave) = 0 /\ Scl(1, slave) = 1
  BY DEF LineTyped, Scl, Bit
<1> QED
  BY <1>1 DEF Pins, React, Sda

\* The master lowers the clock.
LEMMA PinsLower ==
    ASSUME LineTyped, NEW d \in Bit, Pins(d, 0), scl = 1, slave.scl = 1
    PROVE  \E t \in AfterFall(slave) : slave' \in Holding(t)
<1>1. Scl(scl, slave) = 1 /\ Scl(0, slave) = 0
  BY DEF LineTyped, Scl, Bit
<1> QED
  BY <1>1 DEF Pins, React

\* Data falls under a high clock: the start condition, if the line was up.
LEMMA PinsStart ==
    ASSUME LineTyped, Pins(0, 1), scl = 1, slave.scl = 1
    PROVE  /\ sda = 1 /\ slave.sda = 1 =>
                slave' = Begun(slave)
           /\ ~(sda = 1 /\ slave.sda = 1) => slave' = slave
<1>1. Scl(scl, slave) = 1 /\ Scl(1, slave) = 1
  BY DEF LineTyped, Scl, Bit
<1>2. Sda(0, slave) = 0 /\ slave.sda \in Bit
  BY DevicesAre DEF LineTyped, Sda, Bit
<1>3. Sda(sda, slave) = IF sda = 1 /\ slave.sda = 1 THEN 1 ELSE 0
  BY <1>2 DEF LineTyped, Sda, Bit
<1>4. slave' \in React(slave, 1, Sda(sda, slave), 1, 0)
  BY <1>1, <1>2 DEF Pins
<1>5. Sda(sda, slave) = 1 => slave' = Begun(slave)
  <2>1. 1 # 0
    OBVIOUS
  <2> QED
    BY <1>4, <2>1, Zenon DEF React, Begun
<1>6. Sda(sda, slave) = 0 => slave' = slave
  BY <1>4 DEF React
<1> QED
  BY <1>3, <1>5, <1>6

\* Data rises under a high clock: the stop condition, if the line was down.
LEMMA PinsStop ==
    ASSUME LineTyped, Pins(1, 1), scl = 1, slave.scl = 1
    PROVE  /\ sda = 0 /\ slave.sda = 1 => slave' = Off(slave)
           /\ ~(sda = 0 /\ slave.sda = 1) => slave' = slave
<1>1. Scl(scl, slave) = 1 /\ Scl(1, slave) = 1
  BY DEF LineTyped, Scl, Bit
<1>2. Sda(1, slave) = slave.sda /\ slave.sda \in Bit
  BY DevicesAre DEF LineTyped, Sda, Bit
<1>3. Sda(sda, slave) = IF sda = 1 /\ slave.sda = 1 THEN 1 ELSE 0
  BY <1>2 DEF LineTyped, Sda, Bit
<1> QED
  BY <1>1, <1>2, <1>3 DEF Pins, React, LineTyped, Bit

(***************************************************************************)
(* Whatever is done to the pins, the device stays a device, lets go of the *)
(* lines when it is off, and only a falling clock changes its registers.   *)
(***************************************************************************)
OffIsFree == slave.mode = "off" => slave.sda = 1 /\ slave.scl = 1

\* A rising clock leaves all but the byte under way alone.
LEMMA RaisedIsDevice ==
    ASSUME LineTyped, NEW level \in Bit, slave' = AfterRise(slave, level)
    PROVE  /\ slave' \in Devices /\ slave'.mode = slave.mode /\ slave'.sda = slave.sda
           /\ slave'.scl = slave.scl /\ slave'.regs = slave.regs /\ slave'.ptr = slave.ptr
BY AfterRiseIs DEF LineTyped

\* A write to the pins keeps the device in order.
LEMMA PinsKeepDevice ==
    ASSUME LineTyped, OffIsFree, NEW d \in Bit, NEW c \in Bit, Pins(d, c)
    PROVE  /\ LineTyped' /\ OffIsFree'
           /\ c = 1 \/ scl = 0 => slave'.regs = slave.regs /\ slave'.ptr = slave.ptr
<1>1. sda' \in Bit /\ scl' \in Bit
  BY DEF Pins
<1>2. slave.scl \in Bit /\ slave.sda \in Bit
  BY DevicesAre DEF LineTyped
<1>3. CASE slave' = slave
  BY <1>1, <1>3 DEF LineTyped, OffIsFree
<1>4. CASE scl = 0 /\ c = 1 /\ slave.scl = 1
  <2>1. d * slave.sda \in Bit
    BY <1>2 DEF Bit
  <2>2. PICK level \in Bit : slave' = AfterRise(slave, level)
    BY <1>4, <2>1, PinsRaise
  <2>3. /\ slave' \in Devices /\ slave'.mode = slave.mode /\ slave'.sda = slave.sda
        /\ slave'.scl = slave.scl /\ slave'.regs = slave.regs /\ slave'.ptr = slave.ptr
    BY <2>2, RaisedIsDevice
  <2> QED
    BY <1>1, <2>3 DEF LineTyped, OffIsFree
<1>5. CASE scl = 1 /\ c = 0 /\ slave.scl = 1
  <2>1. PICK t \in AfterFall(slave) : slave' \in Holding(t)
    BY <1>5, PinsLower
  <2>2. t \in Devices /\ t.scl = 1 /\ (t.mode = "off" => t.sda = 1)
    <3>1. t \in Devices /\ t.scl = slave.scl
      BY <2>1, AfterFallIs DEF LineTyped
    <3>2. t.mode = "off" => t = slave \/ t = Off(slave)
      BY <2>1, FallenOff DEF LineTyped
    <3> QED
      BY <1>5, <3>1, <3>2, OffIs DEF LineTyped, OffIsFree
  <2>3. slave' \in Devices /\ Alike(t, slave')
        /\ (t.mode = "off" => slave'.scl = t.scl)
    BY <2>1, <2>2, HoldingIs
  <2> QED
    BY <1>1, <1>5, <2>2, <2>3 DEF LineTyped, OffIsFree, Alike
<1>6. CASE scl = 1 /\ c = 1 /\ slave.scl = 1
  <2>1. slave' \in {slave, Off(slave), Begun(slave)}
    BY <1>6, PinsStart, PinsStop DEF Bit
  <2>2. CASE slave' = Off(slave)
    BY <1>1, <1>6, <2>2, OffIs DEF LineTyped, OffIsFree
  <2>3. CASE slave' = Begun(slave)
    <3>1. slave' \in Devices /\ slave'.mode = "addr" /\ slave'.regs = slave.regs /\ slave'.ptr = slave.ptr
      BY <2>3, BegunIs DEF LineTyped
    <3> QED
      BY <1>1, <1>6, <3>1 DEF LineTyped, OffIsFree
  <2> QED
    BY <1>3, <2>1, <2>2, <2>3
<1>7. CASE (scl = 0 /\ c = 0) \/ slave.scl = 0
  BY <1>3, <1>7, PinsQuiet
<1> QED
  BY <1>2, <1>4, <1>5, <1>6, <1>7 DEF LineTyped, Bit

-----------------------------------------------------------------------------
(***************************************************************************)
(* The master.  The pin accesses of drv_soft_i2c.c, by the function that   *)
(* makes them.                                                             *)
(***************************************************************************)
Sending == {"w_low", "w_sda", "w_high", "w_wait", "w_next"}
Acked == {"w_end", "a_sda", "a_high", "a_wait", "a_get", "a_low", "w_done"}
Restarting == {"restart_sda", "restart_high", "restart_wait", "restart_start", "restart_low"}
Reading == {"r_sda", "r_high", "r_wait", "r_get", "r_low", "r_done"}
AckGiving == {"k_sda", "k_high", "k_wait", "k_low", "k_done"}
Stopping == {"stop_sda", "stop_high", "stop_wait", "stop_end", "done"}
Starting == {"idle", "start_sda", "start_scl"}
Points == Starting \cup Sending \cup Acked \cup Restarting \cup Reading
          \cup AckGiving \cup Stopping \cup {"w_late", "r_late", "k_late"}

\* The types of the master's variables.
MasterTyped ==
    /\ sda \in Bit /\ scl \in Bit /\ waited \in Bit
    /\ bit \in 0..Bits /\ val \in Bytes /\ buf \in Seq(Bytes)
    /\ msgs \in Calls \cup {<<>>}
    /\ leg \in 1..2 /\ pos \in Nat
    /\ ret \in {0, 1, 2, RT_ERROR, RT_ETIMEOUT, RT_EIO}
    /\ started \in BOOLEAN /\ late \in BOOLEAN

\* Which message and byte the master can be at, and with which result.
Course ==
    /\ pc \in Points
    /\ msgs = <<>> <=> pc = "idle"
    /\ pc \in Starting => leg = 1 /\ pos = 0 /\ bit = 0 /\ val = 0 /\ buf = <<>>
    /\ pc \in {"idle", "start_sda"} => ~late /\ ~started
    /\ pc \in {"w_late", "r_late", "k_late"} => late
    /\ pc \in Sending \cup Acked \cup {"w_late"} =>
          (leg = 1 /\ pos <= msgs[1].len) \/ (leg = 2 /\ Len(msgs) = 2 /\ pos = 0)
    /\ pc \in Restarting => leg = 1 /\ Len(msgs) = 2 /\ pos = 1
    /\ pc \in Reading \cup AckGiving \cup {"r_late", "k_late"} =>
          leg = 2 /\ Len(msgs) = 2 /\ pos \in 1..msgs[2].len
    /\ ret # 0 <=> pc \in Stopping
    /\ ret > 0 => ret = Len(msgs)

\* How many bits of that byte are through.
BitsCounted ==
    /\ pc \in Sending \cup {"r_sda", "r_high", "r_wait", "r_get"} => bit < Bits
    /\ pc \in Acked \cup {"r_done"} => bit = Bits
    /\ pc \in {"r_sda"} \cup AckGiving \cup Restarting => bit = 0
    /\ pc \in AckGiving \cup Restarting => val = 0
    /\ pc = "r_low" => bit > 0
    /\ pc \in Reading => val < 2^bit

\* The levels of the master's pins.
PinsSet ==
    /\ pc \in {"w_sda", "w_high", "a_sda", "a_high", "w_done", "restart_sda",
               "restart_high", "r_sda", "r_high", "r_done", "k_sda", "k_high", "k_done"} => scl = 0
    /\ pc \in {"w_wait", "w_next", "w_end", "a_wait", "a_get", "a_low",
               "restart_wait", "restart_start", "restart_low", "r_wait", "r_get", "r_low",
               "k_wait", "k_low", "stop_wait", "stop_end", "done"} \cup Starting => scl = 1
    /\ pc \in {"stop_sda", "stop_high"} /\ ~late => scl = 0
    /\ pc \in {"a_high", "a_wait", "a_get", "a_low", "w_done", "restart_high", "restart_wait",
               "restart_start", "r_high", "r_wait", "r_get", "r_low", "r_done", "k_sda",
               "done", "idle", "start_sda"} => sda = 1
    /\ pc \in {"start_scl", "restart_low", "stop_high", "stop_wait", "stop_end"} => sda = 0
    /\ pc \in {"k_high", "k_wait", "k_low"} => sda = IF Remaining > 0 THEN 0 ELSE 1

Control == MasterTyped /\ Course /\ BitsCounted /\ PinsSet

\* The errors are not counts of messages.
LEMMA ErrorsAre ==
    \A e \in {RT_ERROR, RT_ETIMEOUT, RT_EIO} : e \in Int /\ e # 0 /\ ~(e > 0)
BY DEF RT_ERROR, RT_ETIMEOUT, RT_EIO

\* The data line is high or low.
LEMMA SdaIsBit ==
    ASSUME LineTyped
    PROVE  Sda(sda, slave) \in Bit
<1>1. slave.sda \in Bit
  BY DevicesAre DEF LineTyped
<1> QED
  BY <1>1 DEF LineTyped, Sda, Bit

\* What the callers transfer.
LEMMA CallsAre ==
    ASSUME NEW m \in Calls
    PROVE  /\ m[1].rd = 0 /\ m # <<>>
           /\ \/ /\ Len(m) = 1 /\ m[1].len = 2
                 /\ m[1].buf[1] \in Bytes /\ m[1].buf[2] \in Bytes
              \/ /\ Len(m) = 2 /\ m[1].len = 1 /\ m[1].buf[1] \in Bytes
                 /\ m[2].rd = 1 /\ m[2].len \in 1..2^Bits
<1>1. CASE \E r, d \in Bytes : m = WriteReg(r, d)
  BY <1>1 DEF WriteReg
<1>2. CASE \E r \in Bytes, n \in 1..2^Bits : m = ReadReg(r, n)
  BY <1>2 DEF ReadReg
<1> QED
  BY <1>1, <1>2, I2cAssumption DEF I2cAssumption

\* The message the transfer is at.
LEMMA MsgIs ==
    ASSUME MasterTyped, Course, pc # "idle"
    PROVE  /\ msgs \in Calls /\ Len(msgs) \in {1, 2}
           /\ msgs[1].len \in {1, 2} /\ msgs[1].rd = 0
           /\ Len(msgs) = 1 <=> msgs[1].len = 2
           /\ Len(msgs) = 2 => msgs[2].len \in Nat \ {0} /\ msgs[2].rd = 1
           /\ msgs[1].buf[1] \in Bytes
           /\ Len(msgs) = 1 => msgs[1].buf[2] \in Bytes
<1>1. msgs \in Calls
  BY DEF MasterTyped, Course
<1>2. 2^Bits \in Nat
  BY PowerPositive, I2cAssumption DEF I2cAssumption
<1>3. \A n \in 1..2^Bits : n \in Nat \ {0}
  BY <1>2
<1> QED
  BY <1>1, <1>3, CallsAre

\* The byte that is sent, and the bit of it.
LEMMA ByteIs ==
    ASSUME MasterTyped, Course, pc # "idle",
           (leg = 1 /\ pos <= msgs[1].len) \/ (leg = 2 /\ Len(msgs) = 2 /\ pos = 0)
    PROVE  ByteOut \in Bytes
<1>1. 2 * Address \in Bytes /\ 2 * Address + 1 \in Bytes
  <2>1. 2^Bits \in Nat /\ 2 * Address + 1 \in 0..(2^Bits - 1) /\ Address \in Nat
    BY PowerPositive, I2cAssumption DEF I2cAssumption, Bytes
  <2> QED
    BY <2>1 DEF Bytes
<1>2. CASE pos = 0
  <2>1. Msg.rd = 0 \/ Msg.rd = 1
    BY MsgIs DEF Msg
  <2>2. ByteOut = 2 * Address \/ ByteOut = 2 * Address + 1
    BY <1>2, <2>1, I2cAssumption DEF I2cAssumption, ByteOut
  <2> QED
    BY <1>1, <2>2
<1>3. CASE pos # 0
  BY <1>3, MsgIs DEF MasterTyped, ByteOut, Msg
<1> QED
  BY <1>2, <1>3

\* The bit that is sent is a bit of a byte.
LEMMA SentIsBit ==
    ASSUME MasterTyped, Course, BitsCounted, pc \in Sending
    PROVE  /\ ByteOut \in Bytes /\ BitOf(ByteOut, bit + 1) \in Bit
<1>1. ByteOut \in Bytes
  BY ByteIs DEF Course, Sending
<1>2. bit + 1 \in 1..Bits
  BY I2cAssumption DEF I2cAssumption, MasterTyped, BitsCounted
<1>3. ByteOut \in Nat
  BY <1>1, BytesAre
<1> QED
  BY <1>1, <1>2, <1>3, BitOfIsBit

\* A bit more of a byte that is read.
LEMMA GotBit ==
    ASSUME MasterTyped, BitsCounted, LineTyped, pc = "r_get"
    PROVE  /\ bit + 1 \in 0..Bits
           /\ 2 * val + Sda(sda, slave) < 2^(bit + 1)
           /\ 2 * val + Sda(sda, slave) \in Bytes
<1> DEFINE next == 2 * val + Sda(sda, slave)
           here == 2^bit
           there == 2^(bit + 1)
           all == 2^Bits
<1>1. bit \in Nat /\ Bits \in Nat /\ bit + 1 <= Bits /\ val < here /\ val \in Nat
  BY BytesAre, I2cAssumption DEF I2cAssumption, MasterTyped, BitsCounted, Reading
<1>2. Sda(sda, slave) \in {0, 1}
  BY SdaIsBit DEF Bit
<1>3. there = 2 * here /\ here \in Nat
  BY <1>1, PowerDoubles, PowerPositive
<1>4. there <= all /\ all \in Nat
  BY <1>1, PowerMonotone, PowerPositive
<1> HIDE DEF here, there, all
<1>5. next < there /\ next \in 0..(all - 1)
  BY <1>1, <1>2, <1>3, <1>4
<1> QED
  BY <1>1, <1>5 DEF here, there, all, Bytes

\* A caller's transfer is begun with nothing done.
LEMMA ControlOfCall ==
    ASSUME Control, NEW x \in Calls, Call(x)
    PROVE  Control'
<1> USE DEF Control, Call, Goto, pinVars, byteVars
<1>1. x # <<>>
  BY CallsAre
<1>2. MasterTyped'
  BY DEF MasterTyped
<1>3. Course'
  BY <1>1 DEF Course, Points, Starting, Sending, Acked, Restarting, Reading,
       AckGiving, Stopping
<1>4. BitsCounted'
  BY DEF BitsCounted, Sending, Acked, Restarting, Reading, AckGiving
<1>5. PinsSet'
  BY DEF PinsSet, Starting, Course
<1> QED
  BY <1>2, <1>3, <1>4, <1>5

\* The control of the start condition,
LEMMA ControlOfStart ==
    ASSUME Control, Start
    PROVE  Control'
<1> USE DEF Control, Start, Write, Goto, Pins, byteVars, msgVars
<1>2. MasterTyped'
  BY DEF MasterTyped, Bit
<1>3. Course'
  BY MsgIs DEF Course, Points, Starting, Sending, Acked, Restarting, Reading,
       AckGiving, Stopping
<1>4. BitsCounted'
  BY I2cAssumption DEF I2cAssumption, BitsCounted, Course, Sending, Acked,
       Restarting, Reading, AckGiving, Starting
<1>5. PinsSet'
  BY DEF PinsSet, Starting, Course
<1> QED
  BY <1>2, <1>3, <1>4, <1>5

\* of a byte that is written: its bits are counted,
LEMMA ControlOfWriteByte ==
    ASSUME Control, WriteByte
    PROVE  Control'
<1> USE DEF Control, WriteByte, Write, Await, Goto, Pins, pinVars, byteVars,
            msgVars, BitThrough
<1>1. pc \in Sending => BitOf(ByteOut, bit + 1) \in Bit
  BY SentIsBit
<1>2. MasterTyped'
  <2>1. CASE Write("w_sda", "w_high", BitOf(ByteOut, bit + 1), scl)
    <3>1. sda' \in Bit
      BY <1>1, <2>1 DEF Sending
    <3> QED
      BY <2>1, <3>1 DEF MasterTyped
  <2>2. CASE pc = "w_next" /\ BitThrough
              /\ UNCHANGED <<pinVars, val, buf, msgVars, waited, late>>
    <3>1. bit + 1 \in 0..Bits
      BY <2>2, I2cAssumption DEF I2cAssumption, MasterTyped, BitsCounted, Sending
    <3> QED
      BY <2>2, <3>1 DEF MasterTyped
  <2>3. CASE ~Write("w_sda", "w_high", BitOf(ByteOut, bit + 1), scl) /\ pc # "w_next"
    BY <2>3 DEF MasterTyped, Bit
  <2> QED
    BY <2>1, <2>2, <2>3
<1>3. Course'
  BY MsgIs DEF Course, Points, Starting, Sending, Acked, Restarting, Reading,
       AckGiving, Stopping
<1>4. BitsCounted'
  BY I2cAssumption, SMTT(30) DEF BitsCounted, Course, Points, Starting, Sending, Acked,
       Restarting, Reading, AckGiving, Stopping, I2cAssumption, MasterTyped
<1>5. PinsSet'
  BY DEF PinsSet, Course, Points, Starting, Sending, Acked, Restarting, Reading,
       AckGiving, Stopping
<1> QED
  BY <1>2, <1>3, <1>4, <1>5

\* of the wait for the acknowledge,
LEMMA ControlOfWaitAck ==
    ASSUME Control, LineTyped, WaitAck
    PROVE  Control'
<1> USE DEF Control, WaitAck, Write, Await, Goto, Pins, pinVars, byteVars, msgVars
<1>2. MasterTyped'
  <2>1. sda' \in Bit /\ scl' \in Bit /\ waited' \in Bit
    BY DEF MasterTyped, Bit
  <2>2. val' \in Bytes
    <3>1. val' = val \/ val' = Sda(sda, slave)
      OBVIOUS
    <3> QED
      BY <3>1, SdaIsBit, BytesAre DEF MasterTyped
  <2>3. UNCHANGED <<bit, buf, msgs, leg, pos, ret>>
    OBVIOUS
  <2>4. late' \in BOOLEAN /\ started' \in BOOLEAN
    BY DEF MasterTyped
  <2> HIDE DEF WaitAck
  <2> QED
    BY <2>1, <2>2, <2>3, <2>4 DEF MasterTyped
<1>3. Course'
  BY MsgIs DEF Course, Points, Starting, Sending, Acked, Restarting, Reading,
       AckGiving, Stopping
<1>4. BitsCounted'
  BY DEF BitsCounted, Course, Points, Starting, Sending, Acked, Restarting, Reading,
       AckGiving, Stopping
<1>5. PinsSet'
  BY DEF PinsSet, Course, Points, Starting, Sending, Acked, Restarting, Reading,
       AckGiving, Stopping
<1> QED
  BY <1>2, <1>3, <1>4, <1>5

\* of what follows a written byte: the five ways on,
LEMMA ControlOfByteWritten ==
    ASSUME Control, ByteWritten
    PROVE  Control'
<1> USE DEF Control, ByteWritten, Write, Await, Goto, Pins, pinVars, byteVars,
            msgVars, MessageEnds, NextByte, Fail, Msg
<1>2. MasterTyped'
  BY BytesAre, MsgIs, DevicesAre DEF MasterTyped, Bit
<1>3. Course'
  <2>1. CASE Goto("w_late", "stop_sda") /\ Fail(IF pos = 0 THEN RT_EIO ELSE RT_ETIMEOUT)
    BY <2>1, ErrorsAre DEF Course, Points, Starting, Sending, Acked, Restarting,
         Reading,
             AckGiving, Stopping, MasterTyped
  <2>2. CASE Goto("w_done", "stop_sda") /\ val = 1
              /\ Fail(IF pos = 0 THEN RT_EIO ELSE RT_ERROR)
    BY <2>2, ErrorsAre DEF Course, Points, Starting, Sending, Acked, Restarting,
         Reading,
             AckGiving, Stopping, MasterTyped
  <2>3. CASE Goto("w_done", "r_sda") /\ val = 0 /\ Msg.rd = 1 /\ NextByte
    BY <2>3, MsgIs DEF Course, Points, Starting, Sending, Acked, Restarting, Reading,
             AckGiving, Stopping, MasterTyped
  <2>4. CASE Goto("w_done", "w_low") /\ val = 0 /\ Msg.rd = 0 /\ pos < Msg.len /\ NextByte
    BY <2>4, MsgIs DEF Course, Points, Starting, Sending, Acked, Restarting, Reading,
             AckGiving, Stopping, MasterTyped
  <2>5. CASE pc = "w_done" /\ val = 0 /\ Msg.rd = 0 /\ pos = Msg.len /\ MessageEnds
    <3>1. leg = 1 /\ pos = msgs[1].len /\ msgs # <<>>
      BY <2>5, MsgIs DEF Course, Acked
    <3>2. CASE Len(msgs) = 2
      BY <2>5, <3>1, <3>2, MsgIs DEF Course, Points, Starting, Sending, Acked,
           Restarting, Reading,
             AckGiving, Stopping, MasterTyped
    <3>3. CASE Len(msgs) = 1
      BY <2>5, <3>1, <3>3, MsgIs DEF Course, Points, Starting, Sending, Acked,
           Restarting, Reading,
             AckGiving, Stopping, MasterTyped
    <3> QED
      BY <2>5, <3>2, <3>3, MsgIs
  <2> QED
    BY <2>1, <2>2, <2>3, <2>4, <2>5
<1>4. BitsCounted'
  BY PowerPositive, I2cAssumption DEF BitsCounted, Course, Points, Starting,
       Sending, Acked, Restarting, Reading, AckGiving, Stopping, I2cAssumption,
       MasterTyped
<1>5. PinsSet'
  BY MsgIs DEF PinsSet, Course, Points, Starting, Sending, Acked, Restarting,
       Reading, AckGiving, Stopping, Remaining
<1> QED
  BY <1>2, <1>3, <1>4, <1>5

\* of the restart before the second message,
LEMMA ControlOfRestart ==
    ASSUME Control, Restart
    PROVE  Control'
<1> USE DEF Control, Restart, Write, Await, Goto, Pins, pinVars, byteVars, msgVars
<1>2. MasterTyped'
  <2>1. pc = "restart_low" => leg + 1 \in 1..2
    BY DEF Course, Restarting
  <2>2. leg' \in 1..2 /\ pos' \in Nat
    BY <2>1 DEF MasterTyped
  <2>3. /\ sda' \in Bit /\ scl' \in Bit /\ waited' \in Bit
        /\ started' \in BOOLEAN /\ late' \in BOOLEAN
    BY DEF MasterTyped, Bit
  <2>4. UNCHANGED <<bit, val, buf, msgs, ret>>
    OBVIOUS
  <2> QED
    BY <2>2, <2>3, <2>4 DEF MasterTyped
<1>3. Course'
  BY MsgIs DEF Course, Points, Starting, Sending, Acked, Restarting, Reading,
       AckGiving, Stopping
<1>4. BitsCounted'
  BY I2cAssumption DEF BitsCounted, Course, Points, Starting, Sending, Acked,
       Restarting, Reading, AckGiving, Stopping, I2cAssumption
<1>5. PinsSet'
  BY DEF PinsSet, Course, Points, Starting, Sending, Acked, Restarting, Reading,
       AckGiving, Stopping
<1> QED
  BY <1>2, <1>3, <1>4, <1>5

\* of the stop condition,
LEMMA ControlOfStop ==
    ASSUME Control, Stop
    PROVE  Control'
<1> USE DEF Control, Stop, Write, Await, Goto, Pins, pinVars, byteVars, msgVars
<1>2. MasterTyped'
  BY DEF MasterTyped, Bit
<1>3. Course'
  BY MsgIs DEF Course, Points, Starting, Sending, Acked, Restarting, Reading,
       AckGiving, Stopping
<1>4. BitsCounted'
  BY DEF BitsCounted, Course, Points, Starting, Sending, Acked, Restarting, Reading,
       AckGiving, Stopping
<1>5. PinsSet'
  BY DEF PinsSet, Course, Points, Starting, Sending, Acked, Restarting, Reading,
       AckGiving, Stopping
<1> QED
  BY <1>2, <1>3, <1>4, <1>5

\* of the return, which forgets the call,
LEMMA ControlOfReturn ==
    ASSUME Control, Return
    PROVE  Control'
<1> USE DEF Control, Return, Write, Await, Goto, Pins, pinVars, byteVars, msgVars
<1>1. 0 \in Bytes /\ 0 \in 0..Bits /\ <<>> \in Seq(Bytes)
  BY DevicesAre
<1>2. MasterTyped'
  <2>1. /\ sda' \in Bit /\ scl' \in Bit /\ waited' \in Bit
        /\ started' \in BOOLEAN /\ late' \in BOOLEAN
    BY DEF MasterTyped
  <2>2. msgs' = <<>> /\ leg' = 1 /\ pos' = 0 /\ ret' = 0 /\ bit' = 0 /\ val' = 0 /\ buf' = <<>>
    OBVIOUS
  <2> HIDE DEF Return
  <2> QED
    BY <1>1, <2>1, <2>2 DEF MasterTyped
<1>3. Course'
  BY DEF Course, Points, Starting, Sending, Acked, Restarting, Reading, AckGiving,
       Stopping
<1>4. BitsCounted'
  BY I2cAssumption DEF BitsCounted, Course, Points, Starting, Sending, Acked,
       Restarting, Reading, AckGiving, Stopping, I2cAssumption, MasterTyped
<1>5. PinsSet'
  BY DEF PinsSet, Course, Points, Starting, Sending, Acked, Restarting, Reading,
       AckGiving, Stopping
<1> QED
  BY <1>2, <1>3, <1>4, <1>5

\* of a byte that is read: its value stays below 2^bit,
LEMMA ControlOfReadByte ==
    ASSUME Control, LineTyped, ReadByte
    PROVE  Control'
<1> USE DEF Control, ReadByte, Write, Await, Goto, Pins, pinVars, byteVars, msgVars,
            GetBit
<1>1. pc = "r_get" => 2 * val + Sda(sda, slave) < 2^(bit + 1)
                      /\ 2 * val + Sda(sda, slave) \in Bytes
                      /\ bit + 1 \in 0..Bits
  BY GotBit DEF Reading
<1>2. MasterTyped'
  BY <1>1 DEF MasterTyped, Bit
<1>3. Course'
  BY MsgIs DEF Course, Points, Starting, Sending, Acked, Restarting, Reading,
       AckGiving, Stopping
<1>4. BitsCounted'
  <2>1. pc \in {"r_sda", "r_high", "r_wait", "r_low"} => bit' = bit /\ val' = val
    OBVIOUS
  <2>2. pc \in Reading => val < 2^bit
    BY DEF BitsCounted
  <2>3. pc' \in Reading => val' < 2^bit'
    BY <1>1, <2>1, <2>2 DEF Reading
  <2>4. pc \in {"r_sda", "r_high", "r_wait", "r_get", "r_low"} /\ bit \in Nat /\ Bits \in Nat
    BY I2cAssumption DEF I2cAssumption, MasterTyped
  <2>5. pc' = "r_low" => bit' > 0
    BY <2>4
  <2>6. pc' \in {"r_high", "r_wait", "r_get"} => bit' < Bits
    BY <2>4 DEF BitsCounted
  <2>7. pc' = "r_done" => bit' = Bits
    BY <2>4 DEF BitsCounted, MasterTyped
  <2>8. pc' \in {"r_high", "r_wait", "r_get", "r_low", "r_done", "r_late"}
    BY <2>4
  <2> QED
    BY <2>3, <2>5, <2>6, <2>7, <2>8 DEF BitsCounted, Sending, Acked, Restarting,
         Reading, AckGiving
<1>5. PinsSet'
  BY DEF PinsSet, Course, Points, Starting, Sending, Acked, Restarting, Reading,
       AckGiving, Stopping
<1> QED
  BY <1>2, <1>3, <1>4, <1>5

\* of the byte that is put in the buffer,
LEMMA ControlOfByteRead ==
    ASSUME Control, ByteRead
    PROVE  Control'
<1> USE DEF Control, ByteRead, Write, Await, Goto, Pins, pinVars, byteVars, msgVars
<1>2. MasterTyped'
  BY BytesAre, DevicesAre DEF MasterTyped, Bit
<1>3. Course'
  BY MsgIs DEF Course, Points, Starting, Sending, Acked, Restarting, Reading,
       AckGiving, Stopping
<1>4. BitsCounted'
  BY I2cAssumption DEF BitsCounted, Course, Points, Starting, Sending, Acked,
       Restarting, Reading, AckGiving, Stopping, I2cAssumption, MasterTyped
<1>5. PinsSet'
  BY DEF PinsSet, Course, Points, Starting, Sending, Acked, Restarting, Reading,
       AckGiving, Stopping
<1> QED
  BY <1>2, <1>3, <1>4, <1>5

\* of the acknowledge, which the last byte does not get,
LEMMA ControlOfSendAck ==
    ASSUME Control, SendAck
    PROVE  Control'
<1> USE DEF Control, SendAck, Write, Await, Goto, Pins, pinVars, byteVars, msgVars
<1>2. MasterTyped'
  BY BytesAre DEF MasterTyped, Bit
<1>3. Course'
  BY MsgIs DEF Course, Points, Starting, Sending, Acked, Restarting, Reading,
       AckGiving, Stopping
<1>4. BitsCounted'
  BY I2cAssumption DEF BitsCounted, Course, Points, Starting, Sending, Acked,
       Restarting, Reading, AckGiving, Stopping, I2cAssumption, MasterTyped
<1>5. PinsSet'
  BY DEF PinsSet, Course, Points, Starting, Sending, Acked, Restarting, Reading,
       AckGiving, Stopping, Remaining, Msg, MasterTyped, Bit
<1> QED
  BY <1>2, <1>3, <1>4, <1>5

\* and of what follows a byte read.
LEMMA ControlOfBytesRead ==
    ASSUME Control, BytesRead
    PROVE  Control'
<1> USE DEF Control, BytesRead, Write, Await, Goto, Pins, pinVars, byteVars,
            msgVars, MessageEnds, NextByte, Fail, Remaining, Msg
<1>2. MasterTyped'
  <2>1. CASE \/ Goto("r_late", "stop_sda") /\ Fail(RT_EIO)
             \/ Goto("k_late", "stop_sda") /\ Fail(RT_ETIMEOUT)
    BY <2>1 DEF MasterTyped
  <2>2. CASE Goto("k_done", "r_sda") /\ Remaining > 0 /\ NextByte
    BY <2>2 DEF MasterTyped
  <2>3. CASE pc = "k_done" /\ Remaining = 0 /\ MessageEnds
    <3>1. Len(msgs) \in {1, 2}
      BY <2>3, MsgIs
    <3>2. ret' \in {0, 1, 2, RT_ERROR, RT_ETIMEOUT, RT_EIO}
      BY <2>3, <3>1 DEF MasterTyped
    <3>3. UNCHANGED <<pinVars, byteVars, msgs, leg, pos, waited, late>>
      BY <2>3
    <3> QED
      BY <3>2, <3>3 DEF MasterTyped
  <2> HIDE DEF Goto, Fail, MessageEnds, NextByte, Remaining, Control
  <2> QED
    BY <2>1, <2>2, <2>3
<1>3. Course'
  <2>1. CASE \/ Goto("r_late", "stop_sda") /\ Fail(RT_EIO)
             \/ Goto("k_late", "stop_sda") /\ Fail(RT_ETIMEOUT)
    BY <2>1, ErrorsAre DEF Course, Points, Starting, Sending, Acked, Restarting,
         Reading,
             AckGiving, Stopping, MasterTyped
  <2>2. CASE Goto("k_done", "r_sda") /\ Remaining > 0 /\ NextByte
    BY <2>2, MsgIs DEF Course, Points, Starting, Sending, Acked, Restarting, Reading,
             AckGiving, Stopping, MasterTyped
  <2>3. CASE pc = "k_done" /\ Remaining = 0 /\ MessageEnds
    <3>1. leg = 2 /\ Len(msgs) = 2 /\ msgs # <<>>
      BY <2>3, MsgIs DEF Course, AckGiving
    <3> QED
      BY <2>3, <3>1 DEF Course, Points, Starting, Sending, Acked, Restarting, Reading,
             AckGiving, Stopping, MasterTyped
  <2> HIDE DEF Goto, Fail, MessageEnds, NextByte, Remaining, Control
  <2> QED
    BY <2>1, <2>2, <2>3
<1>4. BitsCounted'
  BY PowerPositive, I2cAssumption DEF BitsCounted, Course, Points, Starting,
       Sending, Acked, Restarting, Reading, AckGiving, Stopping, I2cAssumption,
       MasterTyped
<1>5. PinsSet'
  BY MsgIs DEF PinsSet, Course, Points, Starting, Sending, Acked, Restarting,
       Reading, AckGiving, Stopping, MasterTyped
<1> QED
  BY <1>2, <1>3, <1>4, <1>5

\* A device that lets go of the clock does not move the master.
LEMMA ControlOfRelease ==
    ASSUME Control, Release
    PROVE  Control'
<1> USE DEF Control, Release, Write, Await, Goto, Pins, pinVars, byteVars, msgVars
<1>2. MasterTyped'
  BY DEF MasterTyped, Bit
<1>3. Course'
  BY DEF Course, Points, Starting, Sending, Acked, Restarting, Reading, AckGiving,
       Stopping
<1>4. BitsCounted'
  BY DEF BitsCounted, Course, Points, Starting, Sending, Acked, Restarting, Reading,
       AckGiving, Stopping
<1>5. PinsSet'
  BY DEF PinsSet, Course, Points, Starting, Sending, Acked, Restarting, Reading,
       AckGiving, Stopping, Remaining, Msg
<1> QED
  BY <1>2, <1>3, <1>4, <1>5

\* All that holds whatever the device does.
Machine == Control /\ LineTyped /\ OffIsFree

\* What the bits of a byte that have gone through amount to.
Prefix(n, k) == n \div 2^(Bits - k)

\* A byte is made of its bits, one at a time, without ever leaving the bytes.
LEMMA PrefixIs ==
    ASSUME NEW n \in Bytes
    PROVE  /\ Prefix(n, 0) = 0 /\ Prefix(n, Bits) = n
           /\ \A k \in 0..(Bits - 1) :
                 /\ BitOf(n, k + 1) \in Bit
                 /\ Prefix(n, k + 1) = 2 * Prefix(n, k) + BitOf(n, k + 1)
                 /\ Prefix(n, k + 1) = (2 * Prefix(n, k) + BitOf(n, k + 1)) % 2^Bits
<1> DEFINE all == 2^Bits
<1>1. Bits \in Nat /\ n \in Nat /\ all \in Nat \ {0} /\ n \in 0..(all - 1)
  BY I2cAssumption, BytesAre, PowerPositive DEF I2cAssumption, Bytes
<1>2. Prefix(n, 0) = 0
  <2>1. Prefix(n, 0) = n \div all
    BY <1>1 DEF Prefix
  <2> HIDE DEF all
  <2>2. n = all * 0 + n
    BY <1>1
  <2>3. n \div all = 0
    BY <1>1, <2>2, Quotient
  <2> QED
    BY <2>1, <2>3
<1>3. Prefix(n, Bits) = n
  <2>1. Bits - Bits = 0 /\ 2^0 = 1
    BY <1>1
  <2>2. Prefix(n, Bits) = n \div 1
    BY <2>1 DEF Prefix
  <2> QED
    BY <1>1, <2>2
<1>4. ASSUME NEW k \in 0..(Bits - 1)
      PROVE  /\ BitOf(n, k + 1) \in Bit
             /\ Prefix(n, k + 1) = 2 * Prefix(n, k) + BitOf(n, k + 1)
             /\ Prefix(n, k + 1) = (2 * Prefix(n, k) + BitOf(n, k + 1)) % 2^Bits
  <2> DEFINE m == Bits - (k + 1)
             d == 2^m
  <2>1. m \in Nat /\ m + 1 = Bits - k /\ k + 1 \in 1..Bits
    BY <1>1
  <2>2. d \in Nat \ {0} /\ 2^(m + 1) = 2 * d
    BY <2>1, PowerPositive, PowerDoubles
  <2>3. Prefix(n, k + 1) = n \div d /\ Prefix(n, k) = n \div (2 * d)
    BY <2>1, <2>2 DEF Prefix
  <2>4. BitOf(n, k + 1) = (n \div d) % 2
    BY DEF BitOf
  <2> HIDE DEF d, m
  <2>5. Prefix(n, k + 1) = 2 * Prefix(n, k) + BitOf(n, k + 1)
    BY <1>1, <2>2, <2>3, <2>4, Halved
  <2>6. Prefix(n, k + 1) \in Nat /\ Prefix(n, k + 1) <= n
    BY <1>1, <2>2, <2>3, Division
  <2>7. Prefix(n, k + 1) \in Bytes
    BY <1>1, <2>6 DEF Bytes
  <2>8. Prefix(n, k + 1) % 2^Bits = Prefix(n, k + 1)
    BY <2>6, <2>7, BytesAre
  <2>9. BitOf(n, k + 1) \in Bit
    BY <1>1, <2>1, BitOfIsBit
  <2> QED
    BY <2>5, <2>8, <2>9
<1> QED
  BY <1>2, <1>3, <1>4

-----------------------------------------------------------------------------

\* A clock that rises, as the device sees it.
Rose == /\ slave' \in Devices /\ slave'.mode = slave.mode /\ slave'.scl = 1
        /\ slave'.sda = slave.sda /\ slave'.ptr = slave.ptr /\ slave'.regs = slave.regs
        /\ slave.mode # "off" /\ slave.slot < Bits =>
              /\ slave'.slot = slave.slot + 1
              /\ slave.mode # "give" =>
                    slave'.shift = ((2 * slave.shift) + (sda' * slave.sda)) % 2^Bits
        /\ slave.mode # "off" /\ slave.slot = Bits =>
              /\ slave'.slot = Bits + 1 /\ slave'.ack = sda' * slave.sda
              /\ slave'.shift = slave.shift

\* The clock the master lets go rises, or the device holds it.
LEMMA RaiseIs ==
    ASSUME LineTyped, NEW d \in Bit, Pins(d, 1), scl = 0
    PROVE  (slave.scl = 0 /\ slave' = slave) \/ (slave.scl = 1 /\ Rose)
<1>1. slave.scl \in Bit /\ slave.sda \in Bit /\ sda' = d
  BY DevicesAre DEF LineTyped, Pins
<1>2. CASE slave.scl = 0
  BY <1>2, PinsQuiet DEF Bit
<1>3. CASE slave.scl = 1
  <2> DEFINE level == sda' * slave.sda
  <2>1. level \in Bit
    BY <1>1 DEF Bit
  <2>2. slave' = AfterRise(slave, level)
    BY <1>1, <1>3, PinsRaise
  <2> HIDE DEF level
  <2>3. LineTyped /\ slave \in Devices
    BY DEF LineTyped
  <2> DEFINE t == slave'
  <2>4. t = AfterRise(slave, level)
    BY <2>2
  <2> HIDE DEF t
  <2>5. /\ t \in Devices
        /\ t.mode = slave.mode /\ t.sda = slave.sda /\ t.scl = slave.scl
        /\ t.ptr = slave.ptr /\ t.regs = slave.regs
        /\ slave.mode # "off" /\ slave.slot < Bits =>
              /\ t.slot = slave.slot + 1
              /\ slave.mode # "give" => t.shift = ((2 * slave.shift) + level) % 2^Bits
        /\ slave.mode # "off" /\ slave.slot = Bits =>
              t.slot = Bits + 1 /\ t.ack = level /\ t.shift = slave.shift
    BY <2>1, <2>3, <2>4, AfterRiseIs
  <2> QED
    BY <1>3, <2>5 DEF t, level, Rose
<1> QED
  BY <1>1, <1>2, <1>3 DEF Bit

\* A device that lets go of the clock lets it rise, or the master still
\* holds it low.
LEMMA ReleaseIs ==
    ASSUME LineTyped, Release
    PROVE  /\ slave.scl = 0
           /\ \/ scl = 0 /\ slave' \in Devices /\ Alike(slave, slave') /\ slave'.scl = 1
              \/ scl = 1 /\ Rose
<1> DEFINE s == [slave EXCEPT !.scl = 1]
           level == Sda(sda, s)
<1>1. s \in Devices /\ Alike(slave, s) /\ s.scl = 1
  BY DevicesAre, Zenon DEF LineTyped, Alike
<1>2. slave.scl = 0 /\ sda' = sda /\ slave' = IF scl = 1 THEN AfterRise(s, level) ELSE s
  BY DEF Release
<1> HIDE DEF s
<1>3. level = sda' * slave.sda /\ level \in Bit
  <2>1. slave.sda \in Bit
    BY DevicesAre DEF LineTyped
  <2> QED
    BY <1>1, <1>2, <2>1 DEF LineTyped, Sda, Alike, Bit
<1> HIDE DEF level
<1>4. CASE scl = 1
  <2> DEFINE t == slave'
  <2>1. t = AfterRise(s, level)
    BY <1>2, <1>4
  <2> HIDE DEF t
  <2>2. /\ t \in Devices
        /\ t.mode = s.mode /\ t.sda = s.sda /\ t.scl = s.scl
        /\ t.ptr = s.ptr /\ t.regs = s.regs
        /\ s.mode # "off" /\ s.slot < Bits =>
              /\ t.slot = s.slot + 1
              /\ s.mode # "give" => t.shift = ((2 * s.shift) + level) % 2^Bits
        /\ s.mode # "off" /\ s.slot = Bits =>
              t.slot = Bits + 1 /\ t.ack = level /\ t.shift = s.shift
    BY <1>1, <1>3, <2>1, AfterRiseIs
  <2> QED
    BY <1>1, <1>2, <1>3, <1>4, <2>2 DEF t, Rose, Alike
<1>5. CASE scl # 1
  BY <1>1, <1>2, <1>5 DEF LineTyped, Bit
<1> QED
  BY <1>2, <1>4, <1>5

\* A clock that falls, as the device sees it.
Fell == /\ slave' \in Devices
        /\ (slave.mode = "off" \/ slave.slot = 0 \/ (slave.mode # "give" /\ slave.slot < Bits)) =>
              Alike(slave, slave')
        /\ slave.mode = "give" /\ 0 < slave.slot /\ slave.slot < Bits =>
              /\ slave'.mode = "give" /\ slave'.slot = slave.slot
              /\ slave'.sda = BitOf(slave.regs[slave.ptr], slave.slot + 1)
              /\ slave'.ptr = slave.ptr /\ slave'.regs = slave.regs
        /\ slave.mode = "give" /\ slave.slot = Bits =>
              /\ slave'.mode = "give" /\ slave'.slot = Bits /\ slave'.sda = 1
              /\ slave'.ptr = slave.ptr /\ slave'.regs = slave.regs
        /\ slave.mode = "give" /\ slave.slot > Bits /\ slave.ack = 0 =>
              /\ slave'.mode = "give" /\ slave'.slot = 0
              /\ slave'.sda = BitOf(slave'.regs[slave'.ptr], 1)
              /\ slave'.ptr = NextReg(slave.ptr) /\ slave'.regs = slave.regs
        /\ slave.mode = "give" /\ slave.slot > Bits /\ slave.ack # 0 =>
              slave'.mode = "off" /\ slave'.ptr = slave.ptr /\ slave'.regs = slave.regs
        /\ slave.mode \notin {"off", "give"} /\ slave.slot = Bits =>
              \/ slave'.mode = "off" /\ slave'.ptr = slave.ptr /\ slave'.regs = slave.regs
              \/ /\ slave'.mode = slave.mode /\ slave'.slot = Bits /\ slave'.sda = 0
                 /\ slave'.shift = slave.shift
                 /\ slave'.ptr = slave.ptr /\ slave'.regs = slave.regs
        /\ slave.mode = "addr" /\ slave.slot > Bits /\ slave.shift % 2 = 1 =>
              /\ slave'.mode = "give" /\ slave'.slot = 0
              /\ slave'.sda = BitOf(slave'.regs[slave'.ptr], 1)
              /\ slave'.ptr = slave.ptr /\ slave'.regs = slave.regs
        /\ slave.mode = "addr" /\ slave.slot > Bits /\ slave.shift % 2 # 1 =>
              /\ slave'.mode = "ptr" /\ slave'.slot = 0 /\ slave'.shift = 0 /\ slave'.sda = 1
              /\ slave'.ptr = slave.ptr /\ slave'.regs = slave.regs
        /\ slave.mode = "ptr" /\ slave.slot > Bits =>
              /\ slave'.mode = "data" /\ slave'.slot = 0 /\ slave'.shift = 0 /\ slave'.sda = 1
              /\ slave'.ptr = slave.shift /\ slave'.regs = slave.regs
        /\ slave.mode = "data" /\ slave.slot > Bits =>
              /\ slave'.mode = "data" /\ slave'.slot = 0 /\ slave'.shift = 0 /\ slave'.sda = 1
              /\ slave'.regs = [slave.regs EXCEPT ![slave.ptr] = slave.shift]

\* The clock the master lowers falls, and the device may hold it then.
LEMMA LowerIs ==
    ASSUME LineTyped, NEW d \in Bit, Pins(d, 0), scl = 1, slave.scl = 1
    PROVE  Fell
<1>1. PICK t \in AfterFall(slave) : slave' \in Holding(t)
  BY PinsLower
<1>2. slave \in Devices /\ slave.slot \in Nat /\ Bits \in Nat
  <2>1. slave.slot \in Slots
    BY DevicesAre DEF LineTyped
  <2> QED
    BY <2>1, DevicesAre DEF LineTyped
<1>3. t \in Devices
  BY <1>1, <1>2, AfterFallIs
<1>4. slave' \in Devices /\ Alike(t, slave')
  BY <1>1, <1>3, HoldingIs
<1>5. CASE slave.mode = "off" \/ slave.slot = 0 \/ (slave.mode # "give" /\ slave.slot < Bits)
  <2>1. t = slave
    BY <1>1, <1>2, <1>5, AfterFallIs
  <2> QED
    BY <1>2, <1>4, <1>5, <2>1, DevicesAre DEF Fell, Alike
<1>6. CASE slave.mode = "give" /\ slave.slot # 0
  BY <1>1, <1>2, <1>4, <1>6, AfterFallIs, OffIs DEF Fell, Alike
<1>7. CASE slave.mode \notin {"off", "give"} /\ slave.slot = Bits
  BY <1>1, <1>2, <1>4, <1>7, DevicesAre, AfterFallIs, OffIs DEF Fell, Alike
<1>8. CASE slave.mode \notin {"off", "give"} /\ slave.slot > Bits
  <2>1. t = Accepted(slave)
    BY <1>1, <1>2, <1>8, AfterFallIs
  <2> QED
    BY <1>2, <1>4, <1>8, <2>1, DevicesAre, AcceptedIs DEF Fell, Alike
<1> QED
  BY <1>2, <1>5, <1>6, <1>7, <1>8

-----------------------------------------------------------------------------
(***************************************************************************)
(* Master and device in step: the byte the device is at, and the slot of   *)
(* it, for each pin access of the master.  The slot moves with the clock,  *)
(* so it depends on slave.scl where the master has let the clock go and    *)
(* the device may hold it.                                                 *)
(***************************************************************************)
\* The phase in which the device is to take the byte at pos.
Phase == IF pos = 0 THEN "addr" ELSE IF pos = 1 THEN "ptr" ELSE "data"
Taking(k) == /\ slave.mode = Phase /\ slave.slot = k /\ slave.sda = 1
             /\ slave.shift = Prefix(ByteOut, k)
Acking(k) == /\ slave.mode = Phase /\ slave.slot = k /\ slave.sda = 0
             /\ slave.shift = ByteOut
Ready == /\ slave.mode = IF pos = 0 THEN "ptr" ELSE "data"
         /\ slave.slot = 0 /\ slave.sda = 1 /\ slave.shift = 0
Giving(k, i) == /\ slave.mode = "give" /\ slave.slot = k
                /\ slave.sda = BitOf(slave.regs[slave.ptr], i)
Given(k) == slave.mode = "give" /\ slave.slot = k /\ slave.sda = 1
Gone == slave.mode = "off"
Up == slave.scl = 1
Addressed == slave.mode = "addr" /\ slave.slot = 0 /\ slave.shift = 0 /\ slave.sda = 1 /\ Up

InStep ==
    /\ pc \in {"start_scl", "restart_low"} => Addressed
    /\ pc = "w_low" => Taking(bit) /\ (scl = 1 => Up)
    /\ pc \in {"w_sda", "w_high"} => Taking(bit)
    /\ pc = "w_wait" => Taking(bit + slave.scl)
    /\ pc \in {"w_high", "w_wait"} => sda = BitOf(ByteOut, bit + 1)
    /\ pc = "w_next" => Taking(bit + 1) /\ Up
    /\ pc = "w_end" => Taking(Bits) /\ Up
    /\ pc \in {"a_sda", "a_high"} => Gone \/ Acking(Bits)
    /\ pc = "a_wait" => Gone \/ Acking(Bits + slave.scl)
    /\ pc = "a_get" => Gone \/ (Acking(Bits + 1) /\ Up)
    /\ pc = "a_low" => (val = 1 /\ Gone) \/ (val = 0 /\ Acking(Bits + 1) /\ Up)
    /\ pc = "w_done" => \/ val = 1 /\ Gone
                        \/ val = 0 /\ Msg.rd = 1 /\ Giving(0, 1)
                        \/ val = 0 /\ Msg.rd = 0 /\ Ready
    /\ pc = "r_sda" => Giving(0, 1)
    /\ pc = "r_high" => Giving(bit, bit + 1)
    /\ pc = "r_wait" => Giving(bit + slave.scl, bit + 1)
    /\ pc = "r_get" => Giving(bit + 1, bit + 1) /\ Up
    /\ pc = "r_low" => Giving(bit, bit) /\ Up
    /\ pc \in {"r_done", "k_sda", "k_high"} => Given(Bits)
    /\ pc = "k_wait" => Given(Bits + slave.scl) /\ (Up => slave.ack = sda)
    /\ pc = "k_low" => Given(Bits + 1) /\ Up /\ slave.ack = sda
    /\ pc = "k_done" => IF Remaining = 0 THEN Gone ELSE Giving(0, 1)
    /\ pc \in {"restart_sda", "restart_high", "restart_wait", "restart_start",
               "stop_sda", "stop_high", "stop_wait", "stop_end"} => slave.sda = 1
    /\ pc \in {"restart_start", "stop_end"} => Up
    /\ pc = "done" => Gone

\* The clock has come up when it is no longer awaited, unless it is too late.
LEMMA StepOfAwait ==
    ASSUME Machine, InStep, ~late', NEW here, NEW next, NEW failed, Await(here, next, failed)
    PROVE  \/ InStep'
           \/ /\ pc = here /\ pc' = next /\ slave.scl = 1
              /\ UNCHANGED <<sda, scl, slave, bit, val, msgs, leg, pos>>
<1>1. slave.scl \in Bit /\ scl \in Bit
  BY DevicesAre DEF Machine, LineTyped
<1>2. /\ pc = here /\ UNCHANGED <<sda, scl, slave, bit, val, msgs, leg, pos>>
      /\ (pc' = next /\ slave.scl = 1) \/ pc' = pc
  BY <1>1 DEF Await, Scl, Bit, pinVars, byteVars, msgVars
<1>3. CASE pc' = pc
  BY <1>2, <1>3 DEF InStep, Taking, Acking, Giving, Given, Gone, Up, Ready, Phase,
                    Remaining, Msg, ByteOut, Addressed
<1> QED
  BY <1>2, <1>3

\* A rising clock takes the bit on the line.
LEMMA RoseTaking ==
    ASSUME Rose, Taking(bit), UNCHANGED <<bit, pos, ByteOut>>,
           ByteOut \in Bytes, bit \in 0..(Bits - 1), Bits \in Nat,
           sda' = BitOf(ByteOut, bit + 1)
    PROVE  Taking(bit + slave.scl)'
<1>1. slave.mode \notin {"off", "give"} /\ slave.slot < Bits /\ slave.slot = bit
  BY DEF Taking, Phase
<1>2. BitOf(ByteOut, bit + 1) \in Bit /\ slave.sda = 1
  BY PrefixIs DEF Taking
<1>3. sda' * slave.sda = BitOf(ByteOut, bit + 1)
  BY <1>2 DEF Bit
<1>4. /\ slave'.slot = bit + 1 /\ slave'.scl = 1 /\ slave'.sda = 1
      /\ slave'.mode = slave.mode
      /\ slave'.shift = ((2 * slave.shift) + BitOf(ByteOut, bit + 1)) % 2^Bits
  BY <1>1, <1>2, <1>3 DEF Rose
<1>5. slave'.shift = Prefix(ByteOut, bit + 1)
  BY <1>4, PrefixIs DEF Taking
<1> QED
  BY <1>4, <1>5 DEF Taking, Phase

\* The start condition finds the device waiting for its address.
LEMMA StepOfStart ==
    ASSUME Machine, started => InStep, started', ~late', Start
    PROVE  InStep'
<1>1. CASE Write("start_sda", "start_scl", 0, scl)
  <2>1. scl = 1 /\ Pins(0, 1) /\ ~started /\ started' /\ sda = 1
    BY <1>1 DEF Machine, Control, PinsSet, Course, Write, Goto, Starting
  <2>2. Sda(sda, slave) = 1 /\ Scl(scl, slave) = 1
    BY <2>1 DEF Pins
  <2>3. slave.sda = 1 /\ slave.scl = 1
    <3>1. slave.scl \in Bit /\ slave.sda \in Bit
      BY DevicesAre DEF Machine, LineTyped
    <3> QED
      BY <2>1, <2>2, <3>1 DEF Sda, Scl, Bit
  <2>4. slave' = Begun(slave)
    BY <2>1, <2>3, PinsStart DEF Machine
  <2>5. Addressed'
    <3> DEFINE t == slave'
    <3>1. slave \in Devices /\ t = Begun(slave)
      BY <2>4 DEF Machine, LineTyped
    <3> HIDE DEF t
    <3>2. t.scl = slave.scl /\ t.mode = "addr" /\ t.slot = 0 /\ t.shift = 0 /\ t.sda = 1
      BY <3>1, BegunIs
    <3> QED
      BY <2>3, <3>2 DEF t, Addressed, Up
  <2>6. pc' = "start_scl"
    BY <1>1 DEF Write, Goto
  <2> QED
    BY <2>5, <2>6 DEF InStep
<1>2. CASE Write("start_scl", "w_low", sda, 0)
  <2>1. scl = 1 /\ Pins(sda, 0) /\ sda \in Bit /\ LineTyped /\ started /\ pos = 0 /\ bit = 0
    BY <1>2 DEF Machine, Control, PinsSet, Course, Write, Goto, Starting, LineTyped,
         Pins
  <2>2. Addressed
    BY <1>2, <2>1 DEF InStep, Write, Goto
  <2>3. Alike(slave, slave')
    BY <2>1, <2>2, LowerIs DEF Fell, Addressed, Up
  <2>4. UNCHANGED <<bit, pos, ByteOut>>
    BY <1>2 DEF Write, byteVars, msgVars, ByteOut, Msg
  <2>5. ByteOut \in Bytes
    <3>1. pc # "idle"
      BY <1>2 DEF Write, Goto
    <3>2. leg = 1 /\ pos = 0
      BY <1>2 DEF Machine, Control, Course, Starting, Write, Goto
    <3>3. MasterTyped /\ Course /\ msgs[1].len \in {1, 2}
      BY <3>1, MsgIs DEF Machine, Control
    <3> QED
      BY <3>1, <3>2, <3>3, ByteIs
  <2>6. Taking(bit)'
    BY <2>1, <2>2, <2>3, <2>4, <2>5, PrefixIs DEF Taking, Phase, Addressed, Alike
  <2>7. pc' = "w_low" /\ scl' = 0
    BY <1>2 DEF Write, Goto, Pins
  <2> QED
    BY <2>6, <2>7 DEF InStep
<1> QED
  BY <1>1, <1>2 DEF Start

\* A bit the master writes is a bit the device takes.
LEMMA StepOfWriteByte ==
    ASSUME Machine, InStep, ~late', WriteByte
    PROVE  InStep'
<1>1. /\ LineTyped /\ sda \in Bit /\ bit \in 0..(Bits - 1) /\ Bits \in Nat
      /\ pc \in Sending /\ ByteOut \in Bytes
  <2>1. pc \in Sending
    BY DEF WriteByte, Write, Goto, Await, Sending
  <2> QED
    BY <2>1, SentIsBit, I2cAssumption
    DEF Machine, Control, LineTyped, MasterTyped, BitsCounted, I2cAssumption
<1>2. CASE Write("w_low", "w_sda", sda, 0)
  <2>1. Taking(bit) /\ (scl = 1 => Up) /\ Pins(sda, 0) /\ scl \in Bit
    BY <1>1, <1>2 DEF InStep, Write, Goto, LineTyped
  <2>2. Alike(slave, slave')
    <3>1. CASE scl = 0
      BY <1>1, <2>1, <3>1, PinsQuiet DEF Alike, Bit
    <3>2. CASE scl = 1
      <4>1. Fell
        BY <1>1, <2>1, <3>2, LowerIs DEF Up
      <4>2. slave.mode # "give" /\ slave.slot < Bits
        BY <1>1, <2>1 DEF Taking, Phase
      <4> QED
        BY <4>1, <4>2 DEF Fell
    <3> QED
      BY <2>1, <3>1, <3>2 DEF Bit
  <2>3. Taking(bit)'
    BY <1>2, <2>1, <2>2 DEF Taking, Phase, Alike, Write, byteVars, msgVars, ByteOut, Msg
  <2>4. pc' = "w_sda"
    BY <1>2 DEF Write, Goto
  <2> QED
    BY <2>3, <2>4 DEF InStep
<1>3. CASE Write("w_sda", "w_high", BitOf(ByteOut, bit + 1), scl)
  <2>1. Taking(bit) /\ Pins(BitOf(ByteOut, bit + 1), 0) /\ scl = 0
    BY <1>3 DEF InStep, Write, Goto, Machine, Control, PinsSet
  <2>2. slave' = slave
    BY <1>1, <2>1, SentIsBit, PinsQuiet, DevicesAre DEF Machine, Control
  <2>3. Taking(bit)'
    BY <1>3, <2>1, <2>2 DEF Taking, Phase, Write, byteVars, msgVars, ByteOut, Msg
  <2>4. pc' = "w_high"
    BY <1>3 DEF Write, Goto
  <2>5. (sda = BitOf(ByteOut, bit + 1))'
    BY <1>3 DEF Write, Pins, byteVars, msgVars, ByteOut, Msg
  <2> QED
    BY <2>3, <2>4, <2>5 DEF InStep
<1>4. CASE Write("w_high", "w_wait", sda, 1)
  <2>1. Taking(bit) /\ Pins(sda, 1) /\ scl = 0 /\ sda = BitOf(ByteOut, bit + 1)
    BY <1>4 DEF InStep, Write, Goto, Machine, Control, PinsSet
  <2>2. \/ slave.scl = 0 /\ slave' = slave
        \/ Rose
    BY <1>1, <2>1, RaiseIs
  <2>3. UNCHANGED <<sda, bit, pos, ByteOut>>
    BY <1>4 DEF Write, Pins, byteVars, msgVars, ByteOut, Msg
  <2>4. Taking(bit + slave.scl)'
    BY <1>1, <2>1, <2>2, <2>3, RoseTaking DEF Taking, Phase
  <2>5. pc' = "w_wait"
    BY <1>4 DEF Write, Goto
  <2>6. (sda = BitOf(ByteOut, bit + 1))'
    BY <2>1, <2>3
  <2> QED
    BY <2>4, <2>5, <2>6 DEF InStep
<1>5. CASE Await("w_wait", "w_next", "w_late")
  <2> SUFFICES ASSUME ~InStep' PROVE FALSE
    OBVIOUS
  <2>1. /\ pc = "w_wait" /\ pc' = "w_next" /\ slave.scl = 1
        /\ UNCHANGED <<slave, bit, pos, ByteOut>>
    BY <1>5, StepOfAwait DEF ByteOut, Msg
  <2>2. Taking(bit + 1) /\ Up
    BY <2>1 DEF InStep, Up
  <2>3. (Taking(bit + 1) /\ Up)'
    BY <2>1, <2>2 DEF Taking, Up, Phase
  <2> QED
    BY <2>1, <2>3 DEF InStep
<1>6. CASE pc = "w_next" /\ BitThrough /\ UNCHANGED <<pinVars, val, buf, msgVars, waited, late>>
  <2>1. Taking(bit + 1) /\ Up
    BY <1>6 DEF InStep
  <2>2. UNCHANGED <<slave, pos, ByteOut>> /\ bit' = bit + 1
    BY <1>6 DEF pinVars, msgVars, ByteOut, Msg, BitThrough
  <2>3. (Taking(bit) /\ Up)'
    BY <2>1, <2>2 DEF Taking, Up, Phase
  <2>4. pc' = "w_low" \/ (pc' = "w_end" /\ bit' = Bits)
    BY <1>1, <1>6, <2>2 DEF BitThrough
  <2> QED
    BY <2>3, <2>4 DEF InStep
<1> QED
  BY <1>2, <1>3, <1>4, <1>5, <1>6 DEF WriteByte

\* The device's lines when it is off the bus.
LEMMA GoneIsFree ==
    ASSUME Machine, Gone
    PROVE  slave.sda = 1 /\ slave.scl = 1
BY DEF Machine, OffIsFree, Gone

\* Master and device agree on the acknowledge: a device that refuses is gone.
LEMMA StepOfWaitAck ==
    ASSUME Machine, InStep, ~late', WaitAck
    PROVE  InStep'
<1>1. /\ LineTyped /\ sda \in Bit /\ Bits \in Nat /\ Bits > 0 /\ bit = Bits
      /\ pc \in Acked /\ ByteOut \in Bytes /\ 1 \in Bit
  <2>1. pc \in Acked
    BY DEF WaitAck, Write, Goto, Await, Acked
  <2>2. ByteOut \in Bytes
    BY <2>1, ByteIs DEF Machine, Control, Course, Acked
  <2> QED
    BY <2>1, <2>2, DevicesAre DEF Machine, Control, LineTyped, BitsCounted
<1>2. CASE Write("w_end", "a_sda", sda, 0)
  <2>1. Taking(Bits) /\ Up /\ Pins(sda, 0) /\ scl = 1
    BY <1>2 DEF InStep, Write, Goto, Machine, Control, PinsSet
  <2>2. Fell
    BY <1>1, <2>1, LowerIs DEF Up
  <2>3. UNCHANGED <<pos, ByteOut>>
    BY <1>2 DEF Write, msgVars, ByteOut, Msg
  <2>4. slave.mode \notin {"off", "give"} /\ slave.mode = Phase /\ slave.slot = Bits
        /\ slave.shift = ByteOut
    BY <1>1, <2>1, PrefixIs DEF Taking, Phase
  <2>5. (Gone \/ Acking(Bits))'
    BY <2>2, <2>3, <2>4 DEF Fell, Gone, Acking, Phase
  <2>6. pc' = "a_sda"
    BY <1>2 DEF Write, Goto
  <2> QED
    BY <2>5, <2>6 DEF InStep
<1>3. CASE Write("a_sda", "a_high", 1, scl)
  <2>1. (Gone \/ Acking(Bits)) /\ Pins(1, 0) /\ scl = 0
    BY <1>3 DEF InStep, Write, Goto, Machine, Control, PinsSet
  <2>2. slave' = slave
    BY <1>1, <2>1, PinsQuiet, DevicesAre
  <2>3. (Gone \/ Acking(Bits))'
    BY <1>3, <2>1, <2>2 DEF Gone, Acking, Phase, Write, msgVars, ByteOut, Msg
  <2>4. pc' = "a_high"
    BY <1>3 DEF Write, Goto
  <2> QED
    BY <2>3, <2>4 DEF InStep
<1>4. CASE Write("a_high", "a_wait", sda, 1)
  <2>1. (Gone \/ Acking(Bits)) /\ Pins(sda, 1) /\ scl = 0
    BY <1>4 DEF InStep, Write, Goto, Machine, Control, PinsSet
  <2>2. \/ slave.scl = 0 /\ slave' = slave
        \/ Rose
    BY <1>1, <2>1, RaiseIs
  <2>3. UNCHANGED <<pos, ByteOut>>
    BY <1>4 DEF Write, msgVars, ByteOut, Msg
  <2>4. (Gone \/ Acking(Bits + slave.scl))'
    BY <1>1, <2>1, <2>2, <2>3 DEF Rose, Gone, Acking, Phase
  <2>5. pc' = "a_wait"
    BY <1>4 DEF Write, Goto
  <2> QED
    BY <2>4, <2>5 DEF InStep
<1>5. CASE Await("a_wait", "a_get", "w_late")
  <2> SUFFICES ASSUME ~InStep' PROVE FALSE
    OBVIOUS
  <2>1. /\ pc = "a_wait" /\ pc' = "a_get" /\ slave.scl = 1
        /\ UNCHANGED <<slave, pos, ByteOut>>
    BY <1>5, StepOfAwait DEF ByteOut, Msg
  <2>2. Gone \/ (Acking(Bits + 1) /\ Up)
    BY <2>1 DEF InStep, Up
  <2>3. (Gone \/ (Acking(Bits + 1) /\ Up))'
    BY <2>1, <2>2 DEF Gone, Acking, Up, Phase
  <2> QED
    BY <2>1, <2>3 DEF InStep
<1>6. CASE /\ Goto("a_get", "a_low") /\ val' = Sda(sda, slave)
           /\ UNCHANGED <<pinVars, bit, buf, msgVars, waited, late>>
  <2>1. (Gone \/ (Acking(Bits + 1) /\ Up)) /\ sda = 1
    BY <1>6 DEF InStep, Goto, Machine, Control, PinsSet
  <2>2. UNCHANGED <<slave, pos, ByteOut>> /\ val' = slave.sda
    <3>1. slave.sda \in Bit
      BY <1>1, DevicesAre DEF LineTyped
    <3> QED
      BY <1>6, <2>1, <3>1 DEF pinVars, msgVars, ByteOut, Msg, Sda, Bit
  <2>3. ((val = 1 /\ Gone) \/ (val = 0 /\ Acking(Bits + 1) /\ Up))'
    BY <2>1, <2>2, GoneIsFree DEF Gone, Acking, Up, Phase
  <2>4. pc' = "a_low"
    BY <1>6 DEF Goto
  <2> QED
    BY <2>3, <2>4 DEF InStep
<1>7. CASE Write("a_low", "w_done", sda, 0)
  <2>1. /\ (val = 1 /\ Gone) \/ (val = 0 /\ Acking(Bits + 1) /\ Up)
        /\ Pins(sda, 0) /\ scl = 1
    BY <1>7 DEF InStep, Write, Goto, Machine, Control, PinsSet
  <2>2. Fell
    <3>1. slave.scl = 1
      BY <2>1, GoneIsFree DEF Up
    <3> QED
      BY <1>1, <2>1, <3>1, LowerIs
  <2>3. UNCHANGED <<val, pos, leg, msgs>> /\ pc' = "w_done"
    BY <1>7 DEF Write, Goto, byteVars, msgVars
  <2>4. CASE val = 1 /\ Gone
    BY <2>2, <2>3, <2>4 DEF Fell, Gone, Alike, InStep
  <2>5. CASE val = 0 /\ Acking(Bits + 1)
    <3>1. slave.slot > Bits /\ slave.mode = Phase /\ slave.shift = ByteOut
      BY <1>1, <2>5 DEF Acking
    <3>2. CASE pos = 0
      <4>1. /\ Msg.rd \in {0, 1} /\ slave.shift % 2 = Msg.rd
        <5>1. Msg.rd \in {0, 1}
          BY <1>1, MsgIs DEF Machine, Control, MasterTyped, Course, Msg, Acked
        <5> QED
          BY <3>1, <3>2, <5>1, I2cAssumption DEF ByteOut, I2cAssumption
      <4>2. (\/ val = 0 /\ Msg.rd = 1 /\ Giving(0, 1)
             \/ val = 0 /\ Msg.rd = 0 /\ Ready)'
        BY <2>2, <2>3, <2>5, <3>1, <3>2, <4>1 DEF Fell, Phase, Giving, Ready, Msg
      <4> QED
        BY <2>3, <4>2 DEF InStep
    <3>3. CASE pos # 0
      <4>1. Msg.rd = 0
        BY <1>1, <3>3, MsgIs DEF Machine, Control, Course, Msg, Acked
      <4>2. (val = 0 /\ Msg.rd = 0 /\ Ready)'
        BY <2>2, <2>3, <2>5, <3>1, <3>3, <4>1 DEF Fell, Phase, Ready, Msg
      <4> QED
        BY <2>3, <4>2 DEF InStep
    <3> QED
      BY <3>2, <3>3
  <2> QED
    BY <2>1, <2>4, <2>5
<1> QED
  BY <1>2, <1>3, <1>4, <1>5, <1>6, <1>7 DEF WaitAck

\* What follows a written byte finds the device in the phase for it.
LEMMA StepOfByteWritten ==
    ASSUME Machine, InStep, ~late', ByteWritten
    PROVE  InStep'
<1>1. pc = "w_done" /\ ~late
  BY DEF ByteWritten, Goto, Machine, Control, Course
<1>2. /\ scl = 0 /\ pos \in Nat
      /\ (leg = 1 /\ pos <= msgs[1].len) \/ (leg = 2 /\ Len(msgs) = 2 /\ pos = 0)
      /\ MasterTyped /\ Course
  BY <1>1 DEF Machine, Control, PinsSet, Course, Acked, MasterTyped
<1>3. UNCHANGED <<sda, scl, slave, msgs>> /\ bit' = 0 /\ val' = 0
  BY DEF ByteWritten, pinVars, Fail, NextByte, MessageEnds, msgVars
<1>4. CASE pc' = "stop_sda" \/ pc' = "restart_sda"
  <2>1. Msg.rd # 1 \/ val # 0
    BY <1>1, <1>4 DEF ByteWritten, Goto
  <2>2. slave.sda = 1
    BY <1>1, <2>1, GoneIsFree DEF InStep, Ready
  <2> QED
    BY <1>3, <1>4, <2>2 DEF InStep
<1>5. CASE Goto("w_done", "r_sda") /\ val = 0 /\ Msg.rd = 1 /\ NextByte
  <2>1. Giving(0, 1)
    BY <1>1, <1>5 DEF InStep
  <2>2. Giving(0, 1)'
    BY <1>3, <2>1 DEF Giving
  <2> QED
    BY <1>5, <2>2 DEF InStep, Goto
<1>6. CASE Goto("w_done", "w_low") /\ val = 0 /\ Msg.rd = 0 /\ pos < Msg.len /\ NextByte
  <2>1. leg = 1 /\ pos < msgs[1].len /\ leg' = 1 /\ pos' = pos + 1 /\ pc' = "w_low"
    BY <1>1, <1>2, <1>6, MsgIs DEF Msg, NextByte, Goto
  <2>2. ByteOut' \in Bytes
    <3>1. pos' = 1 \/ (pos' = 2 /\ Len(msgs) = 1)
      BY <1>1, <1>2, <2>1, MsgIs
    <3>2. ByteOut' = msgs[1].buf[pos']
      BY <1>3, <2>1, <3>1 DEF ByteOut, Msg
    <3> QED
      BY <1>1, <1>2, <3>1, <3>2, MsgIs
  <2>3. Ready
    BY <1>1, <1>6 DEF InStep
  <2>4. Taking(bit)'
    <3> DEFINE n == ByteOut'
    <3>1. n \in Bytes
      BY <2>2
    <3> HIDE DEF n
    <3>2. Prefix(n, 0) = 0
      BY <3>1, PrefixIs
    <3>3. Prefix(ByteOut', bit') = 0
      BY <1>3, <3>2 DEF n
    <3>4. slave'.mode = Phase' /\ slave'.slot = bit' /\ slave'.sda = 1 /\ slave'.shift = 0
      BY <1>2, <1>3, <2>1, <2>3 DEF Ready, Phase
    <3> QED
      BY <3>3, <3>4 DEF Taking, Prefix
  <2> QED
    BY <1>2, <1>3, <2>1, <2>4 DEF InStep
<1> QED
  BY <1>1, <1>4, <1>5, <1>6 DEF ByteWritten, Goto, MessageEnds

\* The restart finds the device waiting for its address again.
LEMMA StepOfRestart ==
    ASSUME Machine, InStep, ~late', Restart
    PROVE  InStep'
<1>1. LineTyped /\ sda \in Bit /\ scl \in Bit /\ 1 \in Bit /\ 0 \in Bit
  BY DevicesAre DEF Machine, LineTyped
<1>2. CASE Write("restart_sda", "restart_high", 1, scl)
  <2>1. slave.sda = 1 /\ Pins(1, 0) /\ scl = 0
    BY <1>2 DEF InStep, Write, Goto, Machine, Control, PinsSet
  <2>2. slave' = slave
    BY <1>1, <2>1, PinsQuiet
  <2>3. pc' = "restart_high"
    BY <1>2 DEF Write, Goto
  <2> QED
    BY <2>1, <2>2, <2>3 DEF InStep
<1>3. CASE Write("restart_high", "restart_wait", sda, 1)
  <2>1. slave.sda = 1 /\ Pins(sda, 1) /\ scl = 0
    BY <1>3 DEF InStep, Write, Goto, Machine, Control, PinsSet
  <2>2. slave'.sda = 1
    BY <1>1, <2>1, RaiseIs DEF Rose
  <2>3. pc' = "restart_wait"
    BY <1>3 DEF Write, Goto
  <2> QED
    BY <2>2, <2>3 DEF InStep
<1>4. CASE Await("restart_wait", "restart_start", "restart_start")
  <2> SUFFICES ASSUME ~InStep' PROVE FALSE
    OBVIOUS
  <2>1. /\ pc = "restart_wait" /\ pc' = "restart_start" /\ slave.scl = 1 /\ slave' = slave
    BY <1>4, StepOfAwait
  <2>2. slave.sda = 1
    BY <2>1 DEF InStep
  <2> QED
    BY <2>1, <2>2 DEF InStep, Up
<1>5. CASE Write("restart_start", "restart_low", 0, scl)
  <2>1. slave.sda = 1 /\ slave.scl = 1 /\ Pins(0, 1) /\ scl = 1 /\ sda = 1
    BY <1>5 DEF InStep, Up, Write, Goto, Machine, Control, PinsSet
  <2>2. slave' = Begun(slave)
    BY <1>1, <2>1, PinsStart
  <2>3. Addressed'
    <3> DEFINE t == slave'
    <3>1. slave \in Devices /\ t = Begun(slave)
      BY <2>2 DEF Machine, LineTyped
    <3> HIDE DEF t
    <3>2. t.scl = slave.scl /\ t.mode = "addr" /\ t.slot = 0 /\ t.shift = 0 /\ t.sda = 1
      BY <3>1, BegunIs
    <3> QED
      BY <2>1, <3>2 DEF t, Addressed, Up
  <2>4. pc' = "restart_low"
    BY <1>5 DEF Write, Goto
  <2> QED
    BY <2>3, <2>4 DEF InStep
<1>6. CASE /\ Goto("restart_low", "w_low") /\ Pins(sda, 0)
           /\ leg' = leg + 1 /\ pos' = 0
           /\ UNCHANGED <<byteVars, msgs, ret, waited, late>>
  <2>1. Addressed /\ scl = 1 /\ leg = 1 /\ Len(msgs) = 2 /\ bit = 0
    BY <1>6 DEF InStep, Goto, Machine, Control, PinsSet, Course, BitsCounted, Restarting
  <2>2. Alike(slave, slave')
    BY <1>1, <1>6, <2>1, LowerIs DEF Fell, Addressed, Up
  <2>3. leg' = 2 /\ pos' = 0 /\ bit' = 0 /\ msgs' = msgs /\ pc' = "w_low" /\ scl' = 0
    BY <1>6, <2>1 DEF byteVars, Goto, Pins
  <2>4. ByteOut' \in Bytes
    <3>1. msgs[2].rd = 1
      BY <1>6, <2>1, MsgIs DEF Machine, Control, Goto
    <3>2. ByteOut' = 2 * Address + 1
      BY <2>3, <3>1 DEF ByteOut, Msg
    <3> QED
      BY <3>2, I2cAssumption DEF I2cAssumption
  <2>5. Taking(bit)'
    <3> DEFINE n == ByteOut'
    <3>1. n \in Bytes
      BY <2>4
    <3> HIDE DEF n
    <3>2. Prefix(n, 0) = 0
      BY <3>1, PrefixIs
    <3>3. Prefix(ByteOut', bit') = 0
      BY <2>3, <3>2 DEF n
    <3>4. slave'.mode = Phase' /\ slave'.slot = bit' /\ slave'.sda = 1 /\ slave'.shift = 0
      BY <2>1, <2>2, <2>3 DEF Addressed, Alike, Phase
    <3> QED
      BY <3>3, <3>4 DEF Taking, Prefix
  <2> QED
    BY <2>3, <2>5 DEF InStep
<1> QED
  BY <1>2, <1>3, <1>4, <1>5, <1>6 DEF Restart

\* The stop condition finds the device with the line let go, and sends it off.
LEMMA StepOfStop ==
    ASSUME Machine, InStep, ~late', Stop
    PROVE  InStep'
<1>1. LineTyped /\ sda \in Bit /\ scl \in Bit /\ 1 \in Bit /\ 0 \in Bit
  BY DevicesAre DEF Machine, LineTyped
<1>2. CASE Write("stop_sda", "stop_high", 0, scl)
  <2>1. slave.sda = 1 /\ Pins(0, 0) /\ scl = 0
    BY <1>2 DEF InStep, Write, Goto, Machine, Control, PinsSet
  <2>2. slave' = slave
    BY <1>1, <2>1, PinsQuiet
  <2>3. pc' = "stop_high"
    BY <1>2 DEF Write, Goto
  <2> QED
    BY <2>1, <2>2, <2>3 DEF InStep
<1>3. CASE Write("stop_high", "stop_wait", sda, 1)
  <2>1. slave.sda = 1 /\ Pins(sda, 1) /\ scl = 0
    BY <1>3 DEF InStep, Write, Goto, Machine, Control, PinsSet
  <2>2. slave'.sda = 1
    BY <1>1, <2>1, RaiseIs DEF Rose
  <2>3. pc' = "stop_wait"
    BY <1>3 DEF Write, Goto
  <2> QED
    BY <2>2, <2>3 DEF InStep
<1>4. CASE Await("stop_wait", "stop_end", "stop_end")
  <2> SUFFICES ASSUME ~InStep' PROVE FALSE
    OBVIOUS
  <2>1. pc = "stop_wait" /\ pc' = "stop_end" /\ slave.scl = 1 /\ slave' = slave
    BY <1>4, StepOfAwait
  <2>2. slave.sda = 1
    BY <2>1 DEF InStep
  <2> QED
    BY <2>1, <2>2 DEF InStep, Up
<1>5. CASE Write("stop_end", "done", 1, scl)
  <2>1. slave.sda = 1 /\ slave.scl = 1 /\ Pins(1, 1) /\ scl = 1 /\ sda = 0
    BY <1>5 DEF InStep, Up, Write, Goto, Machine, Control, PinsSet
  <2>2. slave' = Off(slave)
    BY <1>1, <2>1, PinsStop
  <2>3. slave'.mode = "off"
    BY <1>1, <2>2, OffIs DEF LineTyped
  <2>4. pc' = "done"
    BY <1>5 DEF Write, Goto
  <2> QED
    BY <2>3, <2>4 DEF InStep, Gone
<1> QED
  BY <1>2, <1>3, <1>4, <1>5 DEF Stop

\* A bit the master reads is a bit the device gives.
LEMMA StepOfReadByte ==
    ASSUME Machine, InStep, ~late', ReadByte
    PROVE  InStep'
<1>1. LineTyped /\ sda \in Bit /\ 1 \in Bit /\ Bits \in Nat /\ bit \in 0..Bits
  BY DevicesAre DEF Machine, LineTyped, Control, MasterTyped
<1>2. CASE Write("r_sda", "r_high", 1, scl)
  <2>1. Giving(0, 1) /\ Pins(1, 0) /\ scl = 0 /\ bit = 0
    BY <1>2 DEF InStep, Write, Goto, Machine, Control, PinsSet, BitsCounted
  <2>2. slave' = slave
    BY <1>1, <2>1, PinsQuiet, DevicesAre
  <2>3. bit' = 0 /\ pc' = "r_high"
    BY <1>2, <2>1 DEF Write, Goto, byteVars
  <2>4. Giving(bit, bit + 1)'
    BY <2>1, <2>2, <2>3 DEF Giving
  <2> QED
    BY <2>3, <2>4 DEF InStep
<1>3. CASE Write("r_high", "r_wait", sda, 1)
  <2>1. Giving(bit, bit + 1) /\ Pins(sda, 1) /\ scl = 0 /\ bit < Bits
    BY <1>3 DEF InStep, Write, Goto, Machine, Control, PinsSet, BitsCounted
  <2>2. \/ slave.scl = 0 /\ slave' = slave
        \/ Rose
    BY <1>1, <2>1, RaiseIs
  <2>3. bit' = bit /\ pc' = "r_wait"
    BY <1>3 DEF Write, Goto, byteVars
  <2>4. Giving(bit + slave.scl, bit + 1)'
    BY <1>1, <2>1, <2>2, <2>3 DEF Giving, Rose
  <2> QED
    BY <2>3, <2>4 DEF InStep
<1>4. CASE Await("r_wait", "r_get", "r_late")
  <2> SUFFICES ASSUME ~InStep' PROVE FALSE
    OBVIOUS
  <2>1. /\ pc = "r_wait" /\ pc' = "r_get" /\ slave.scl = 1
        /\ UNCHANGED <<slave, bit>>
    BY <1>4, StepOfAwait
  <2>2. Giving(bit + 1, bit + 1)
    BY <2>1 DEF InStep
  <2>3. (Giving(bit + 1, bit + 1) /\ Up)'
    BY <2>1, <2>2 DEF Giving, Up
  <2> QED
    BY <2>1, <2>3 DEF InStep
<1>5. CASE GetBit
  <2>1. Giving(bit + 1, bit + 1) /\ Up
    BY <1>5 DEF InStep, GetBit, Goto
  <2>2. slave' = slave /\ bit' = bit + 1 /\ pc' = "r_low"
    BY <1>5 DEF GetBit, Goto, pinVars
  <2>3. (Giving(bit, bit) /\ Up)'
    BY <2>1, <2>2 DEF Giving, Up
  <2> QED
    BY <2>2, <2>3 DEF InStep
<1>6. CASE Write("r_low", IF bit < Bits THEN "r_high" ELSE "r_done", sda, 0)
  <2>1. Giving(bit, bit) /\ Up /\ Pins(sda, 0) /\ scl = 1 /\ bit > 0
    BY <1>6 DEF InStep, Write, Goto, Machine, Control, PinsSet, BitsCounted
  <2>2. Fell
    BY <1>1, <2>1, LowerIs DEF Up
  <2>3. bit' = bit /\ pc' = IF bit < Bits THEN "r_high" ELSE "r_done"
    BY <1>6 DEF Write, Goto, byteVars
  <2>4. CASE bit < Bits
    <3>1. Giving(bit, bit + 1)'
      BY <2>1, <2>2, <2>3, <2>4 DEF Giving, Fell
    <3> QED
      BY <2>3, <2>4, <3>1 DEF InStep
  <2>5. CASE ~(bit < Bits)
    <3>1. bit = Bits
      BY <1>1, <2>5
    <3>2. Given(Bits)'
      BY <2>1, <2>2, <3>1 DEF Giving, Given, Fell
    <3> QED
      BY <2>3, <2>5, <3>2 DEF InStep
  <2> QED
    BY <2>4, <2>5
<1> QED
  BY <1>2, <1>3, <1>4, <1>5, <1>6 DEF ReadByte

\* After the last bit the device has let go of the data line.
LEMMA StepOfByteRead ==
    ASSUME Machine, InStep, ~late', ByteRead
    PROVE  InStep'
<1>1. Given(Bits)
  BY DEF InStep, ByteRead, Goto
<1>2. slave' = slave /\ pc' = "k_sda"
  BY DEF ByteRead, Goto, pinVars
<1>3. Given(Bits)'
  BY <1>1, <1>2 DEF Given
<1> QED
  BY <1>2, <1>3 DEF InStep

\* An acknowledge keeps the device giving, its absence sends the device off.
LEMMA StepOfSendAck ==
    ASSUME Machine, InStep, ~late', SendAck
    PROVE  InStep'
<1>1. LineTyped /\ sda \in Bit /\ 0 \in Bit /\ Bits \in Nat /\ Bits > 0
  BY DevicesAre DEF Machine, LineTyped
<1>2. CASE Write("k_sda", "k_high", IF Remaining > 0 THEN 0 ELSE sda, scl)
  <2> DEFINE d == IF Remaining > 0 THEN 0 ELSE sda
  <2>1. Given(Bits) /\ Pins(d, 0) /\ scl = 0
    BY <1>2 DEF InStep, Write, Goto, Machine, Control, PinsSet
  <2>2. d \in Bit
    BY <1>1
  <2> HIDE DEF d
  <2>3. slave' = slave
    BY <1>1, <2>1, <2>2, PinsQuiet
  <2>4. Given(Bits)' /\ pc' = "k_high"
    BY <1>2, <2>1, <2>3 DEF Given, Write, Goto
  <2> QED
    BY <2>4 DEF InStep
<1>3. CASE Write("k_high", "k_wait", sda, 1)
  <2>1. Given(Bits) /\ Pins(sda, 1) /\ scl = 0
    BY <1>3 DEF InStep, Write, Goto, Machine, Control, PinsSet
  <2>2. \/ slave.scl = 0 /\ slave' = slave
        \/ Rose
    BY <1>1, <2>1, RaiseIs
  <2>3. sda' = sda /\ pc' = "k_wait"
    BY <1>3 DEF Write, Goto, Pins
  <2>4. (Given(Bits + slave.scl) /\ (Up => slave.ack = sda))'
    BY <1>1, <2>1, <2>2, <2>3 DEF Given, Up, Rose, Bit
  <2> QED
    BY <2>3, <2>4 DEF InStep
<1>4. CASE Await("k_wait", "k_low", "k_late")
  <2> SUFFICES ASSUME ~InStep' PROVE FALSE
    OBVIOUS
  <2>1. /\ pc = "k_wait" /\ pc' = "k_low" /\ slave.scl = 1
        /\ UNCHANGED <<sda, slave>>
    BY <1>4, StepOfAwait
  <2>2. Given(Bits + 1) /\ Up /\ slave.ack = sda
    BY <2>1 DEF InStep, Up
  <2>3. (Given(Bits + 1) /\ Up /\ slave.ack = sda)'
    BY <2>1, <2>2 DEF Given, Up
  <2> QED
    BY <2>1, <2>3 DEF InStep
<1>5. CASE Write("k_low", "k_done", sda, 0)
  <2>1. /\ Given(Bits + 1) /\ Up /\ slave.ack = sda /\ Pins(sda, 0) /\ scl = 1
        /\ sda = IF Remaining > 0 THEN 0 ELSE 1
    BY <1>5 DEF InStep, Write, Goto, Machine, Control, PinsSet
  <2>2. Fell
    BY <1>1, <2>1, LowerIs DEF Up
  <2>3. Remaining' = Remaining /\ pc' = "k_done"
    BY <1>5 DEF Write, Goto, msgVars, Remaining, Msg
  <2>4. Remaining \in Nat
    BY <1>5, MsgIs DEF Remaining, Msg, Write, Goto, Machine, Control, Course, AckGiving
  <2>5. slave.mode = "give" /\ slave.slot > Bits
    BY <1>1, <2>1 DEF Given
  <2>6. (IF Remaining = 0 THEN Gone ELSE Giving(0, 1))'
    <3>1. CASE Remaining = 0
      BY <2>1, <2>2, <2>3, <2>5, <3>1 DEF Fell, Gone
    <3>2. CASE Remaining # 0
      <4>1. slave.ack = 0
        BY <2>1, <2>4, <3>2
      <4> QED
        BY <2>2, <2>3, <2>5, <3>2, <4>1 DEF Fell, Giving
    <3> QED
      BY <3>1, <3>2
  <2> QED
    BY <2>3, <2>6 DEF InStep
<1> QED
  BY <1>2, <1>3, <1>4, <1>5 DEF SendAck

\* What follows a byte read finds the device giving the next one, or gone.
LEMMA StepOfBytesRead ==
    ASSUME Machine, InStep, ~late', BytesRead
    PROVE  InStep'
<1>1. pc = "k_done" /\ ~late
  BY DEF BytesRead, Goto, Machine, Control, Course
<1>2. UNCHANGED <<slave, scl>>
  BY DEF BytesRead, pinVars
<1>3. CASE Goto("k_done", "r_sda") /\ Remaining > 0 /\ NextByte
  <2>1. Giving(0, 1)
    BY <1>1, <1>3 DEF InStep
  <2>2. Giving(0, 1)'
    BY <1>2, <2>1 DEF Giving
  <2> QED
    BY <1>3, <2>2 DEF InStep, Goto
<1>4. CASE pc = "k_done" /\ Remaining = 0 /\ MessageEnds
  <2>1. slave.sda = 1
    BY <1>1, <1>4, GoneIsFree DEF InStep
  <2>2. pc' = "restart_sda" \/ pc' = "stop_sda"
    BY <1>4 DEF MessageEnds
  <2> QED
    BY <1>2, <2>1, <2>2 DEF InStep
<1> QED
  BY <1>1, <1>3, <1>4 DEF BytesRead, Goto

(***************************************************************************)
(* A device that lets go of the clock has held it back in a wait: where    *)
(* the master relies on the clock it is up.                                *)
(***************************************************************************)
LEMMA StepOfRelease ==
    ASSUME Machine, InStep, Release
    PROVE  InStep'
<1>1. LineTyped /\ slave.scl = 0 /\ ~Up /\ Bits \in Nat /\ Bits > 0
  BY ReleaseIs, DevicesAre DEF Machine, Up
<1>2. UNCHANGED <<sda, scl, bit, val, buf, msgs, leg, pos, ret, pc, ByteOut, Remaining, Msg>>
  BY DEF Release, byteVars, msgVars, ByteOut, Remaining, Msg
<1>3. ~Gone
  BY <1>1, GoneIsFree
<1>4. CASE scl = 0 /\ Alike(slave, slave') /\ slave'.scl = 1
  <2>1. pc \notin {"w_wait", "a_wait", "r_wait", "k_wait"}
    BY <1>4 DEF Machine, Control, PinsSet
  <2> QED
    BY <1>1, <1>2, <1>3, <1>4, <2>1 DEF InStep, Taking, Acking, Giving, Given, Gone,
         Ready, Phase, Up, Addressed, Alike
<1>5. CASE scl = 1 /\ Rose
  <2>1. pc \in {"w_wait", "a_wait", "r_wait", "k_wait", "restart_wait", "stop_wait"}
        \/ pc \notin Points \/ pc \in {"idle", "start_sda", "w_late", "r_late", "k_late"}
        \/ (pc \in {"stop_sda", "stop_high"})
    BY <1>1, <1>3, <1>5 DEF InStep, Addressed, Machine, Control, PinsSet, Points,
         Starting, Sending, Acked,
            Restarting, Reading, AckGiving, Stopping
  <2>2. CASE pc \in {"restart_wait", "stop_wait", "stop_sda", "stop_high"}
    BY <1>2, <1>5, <2>2 DEF InStep, Rose
  <2>3. CASE pc = "w_wait"
    <3>1. /\ Taking(bit) /\ sda = BitOf(ByteOut, bit + 1)
          /\ ByteOut \in Bytes /\ bit \in 0..(Bits - 1)
      BY <1>1, <2>3, SentIsBit DEF InStep, Taking, Machine, Control, MasterTyped,
           BitsCounted, Sending
    <3>2. Taking(bit + slave.scl)'
      BY <1>1, <1>2, <1>5, <3>1, RoseTaking
    <3> QED
      BY <1>2, <2>3, <3>1, <3>2 DEF InStep
  <2>4. CASE pc = "a_wait"
    <3>1. Acking(Bits)
      BY <1>1, <1>3, <2>4 DEF InStep, Acking
    <3>2. Acking(Bits + slave.scl)'
      BY <1>1, <1>2, <1>5, <3>1 DEF Acking, Rose, Phase
    <3> QED
      BY <1>2, <2>4, <3>2 DEF InStep
  <2>5. CASE pc = "r_wait"
    <3>1. Giving(bit, bit + 1) /\ bit \in Nat /\ bit < Bits
      BY <1>1, <2>5 DEF InStep, Giving, Machine, Control, MasterTyped, BitsCounted
    <3>2. Giving(bit + slave.scl, bit + 1)'
      BY <1>1, <1>2, <1>5, <3>1 DEF Giving, Rose
    <3> QED
      BY <1>2, <2>5, <3>2 DEF InStep
  <2>6. CASE pc = "k_wait"
    <3>1. Given(Bits)
      BY <1>1, <2>6 DEF InStep, Given
    <3>2. (Given(Bits + slave.scl) /\ (Up => slave.ack = sda))'
      BY <1>1, <1>2, <1>5, <3>1 DEF Given, Rose, Up, LineTyped, Bit
    <3> QED
      BY <1>2, <2>6, <3>2 DEF InStep
  <2>7. CASE pc \in {"idle", "start_sda", "w_late", "r_late", "k_late"}
    BY <1>2, <2>7 DEF InStep
  <2> QED
    BY <2>1, <2>2, <2>3, <2>4, <2>5, <2>6, <2>7 DEF Machine, Control, Course
<1> QED
  BY <1>4, <1>5, ReleaseIs DEF Machine

-----------------------------------------------------------------------------
(***************************************************************************)
(* The invariant of the bus.                                               *)
(***************************************************************************)
\* The parts of the machine.
LEMMA MachineKept ==
    ASSUME Machine, LineTyped', OffIsFree', Control'
    PROVE  Machine'
BY DEF Machine

\* The device stays a device when the master writes a pin,
LEMMA DeviceOfWrite ==
    ASSUME Machine, NEW here, NEW next, NEW d \in Bit, NEW c \in Bit, Write(here, next, d, c)
    PROVE  LineTyped' /\ OffIsFree'
BY PinsKeepDevice DEF Machine, Write

\* when nothing happens to it,
LEMMA DeviceOfRest ==
    ASSUME Machine, UNCHANGED <<sda, scl, slave>>
    PROVE  LineTyped' /\ OffIsFree'
BY DEF Machine, LineTyped, OffIsFree

\* while the master awaits the clock,
LEMMA DeviceOfAwait ==
    ASSUME Machine, NEW here, NEW next, NEW failed, Await(here, next, failed)
    PROVE  LineTyped' /\ OffIsFree'
BY DeviceOfRest DEF Await, pinVars

\* and so in every step.
LEMMA DeviceOfStep ==
    ASSUME Machine, Next
    PROVE  LineTyped' /\ OffIsFree'
<1>1. sda \in Bit /\ scl \in Bit /\ 0 \in Bit /\ 1 \in Bit
  BY DevicesAre DEF Machine, LineTyped
<1>2. CASE Start
  BY <1>1, <1>2, DeviceOfWrite DEF Start
<1>3. CASE WriteByte
  <2>1. CASE Write("w_sda", "w_high", BitOf(ByteOut, bit + 1), scl)
    <3>1. BitOf(ByteOut, bit + 1) \in Bit
      BY <2>1, SentIsBit DEF Machine, Control, Write, Goto, Sending
    <3> QED
      BY <1>1, <2>1, <3>1, DeviceOfWrite
  <2>2. CASE pc = "w_next" /\ BitThrough
                /\ UNCHANGED <<pinVars, val, buf, msgVars, waited, late>>
    BY <2>2, DeviceOfRest DEF pinVars
  <2> QED
    BY <1>1, <1>3, <2>1, <2>2, DeviceOfWrite, DeviceOfAwait DEF WriteByte
<1>4. CASE WaitAck
  <2>1. CASE /\ Goto("a_get", "a_low") /\ val' = Sda(sda, slave)
             /\ UNCHANGED <<pinVars, bit, buf, msgVars, waited, late>>
    BY <2>1, DeviceOfRest DEF pinVars
  <2> QED
    BY <1>1, <1>4, <2>1, DeviceOfWrite, DeviceOfAwait DEF WaitAck
<1>5. CASE Restart
  <2>1. CASE /\ Goto("restart_low", "w_low") /\ Pins(sda, 0)
             /\ leg' = leg + 1 /\ pos' = 0
             /\ UNCHANGED <<byteVars, msgs, ret, waited, late>>
    BY <1>1, <2>1, PinsKeepDevice DEF Machine
  <2> QED
    BY <1>1, <1>5, <2>1, DeviceOfWrite, DeviceOfAwait DEF Restart
<1>6. CASE Stop
  BY <1>1, <1>6, DeviceOfWrite, DeviceOfAwait DEF Stop
<1>7. CASE ReadByte
  <2>1. CASE GetBit
    BY <2>1, DeviceOfRest DEF GetBit, pinVars
  <2> QED
    BY <1>1, <1>7, <2>1, DeviceOfWrite, DeviceOfAwait DEF ReadByte
<1>8. CASE SendAck
  <2> DEFINE d == IF Remaining > 0 THEN 0 ELSE sda
  <2>1. d \in Bit
    BY <1>1
  <2>2. CASE Write("k_sda", "k_high", d, scl)
    <3> HIDE DEF d
    <3> QED
      BY <1>1, <2>1, <2>2, DeviceOfWrite
  <2> QED
    BY <1>1, <1>8, <2>2, DeviceOfWrite, DeviceOfAwait DEF SendAck
<1>9. CASE ByteWritten \/ ByteRead \/ BytesRead \/ Return
  BY <1>9, DeviceOfRest DEF ByteWritten, ByteRead, BytesRead, Return, pinVars
<1>10. CASE \E x \in Calls : Call(x)
  BY <1>10, DeviceOfRest DEF Call, pinVars
<1>11. CASE Release
  <2>1. /\ slave.scl = 0 /\ sda' = sda /\ scl' = scl
        /\ slave' \in Devices /\ slave'.mode = slave.mode
    BY <1>11, ReleaseIs DEF Machine, Release, Rose, Alike
  <2>2. slave.mode # "off"
    BY <2>1 DEF Machine, OffIsFree
  <2> QED
    BY <1>1, <2>1, <2>2 DEF LineTyped, OffIsFree
<1> QED
  BY <1>2, <1>3, <1>4, <1>5, <1>6, <1>7, <1>8, <1>9, <1>10, <1>11 DEF Next, Transfer

\* The master keeps its course in every step.
LEMMA ControlOfStep ==
    ASSUME Machine, Next
    PROVE  Control'
BY ControlOfCall, ControlOfStart, ControlOfWriteByte, ControlOfWaitAck,
     ControlOfByteWritten,
   ControlOfRestart, ControlOfStop, ControlOfReturn, ControlOfReadByte,
   ControlOfByteRead,
   ControlOfSendAck, ControlOfBytesRead, ControlOfRelease
DEF Next, Transfer, Machine

\* A missed start or a wait given up puts the two out of step.
BusInv == started /\ ~late => InStep

\* When the device has seen the start.
LEMMA StartedBefore ==
    ASSUME Machine, Next, started', ~late'
    PROVE  ~late /\ (started \/ Start) /\ ~Return
<1>1. ~late
  <2>1. ~Return
    BY DEF Return
  <2>2. CASE \E x \in Calls : Call(x)
    BY <2>2 DEF Call
  <2> QED
    BY <2>1, <2>2 DEF Next, Transfer, Start, WriteByte, WaitAck, ByteWritten,
         Restart, Stop,
       ReadByte, GetBit, ByteRead, SendAck, BytesRead, Release, Write, Await
<1>2. started \/ Start
  <2>1. CASE \E x \in Calls : Call(x)
    BY <2>1 DEF Call, pinVars
  <2> QED
    BY <2>1 DEF Next, Transfer, WriteByte, WaitAck, ByteWritten, Restart, Stop,
         Return, pinVars,
       ReadByte, GetBit, ByteRead, SendAck, BytesRead, Release, Write, Await, Pins, Goto
<1> QED
  BY <1>1, <1>2 DEF Return

\* Master and device stay in step as long as no wait has timed out.
LEMMA InStepOfStep ==
    ASSUME Machine, BusInv, Next, started', ~late'
    PROVE  InStep'
<1>1. ~late /\ (started \/ Start) /\ ~Return
  BY StartedBefore
<1>2. CASE Start
  BY <1>1, <1>2, StepOfStart DEF BusInv
<1>3. CASE \E x \in Calls : Call(x)
  BY <1>3 DEF Call, Goto, pinVars, InStep
<1>4. CASE ~Start
  BY <1>1, <1>3, <1>4, StepOfWriteByte, StepOfWaitAck, StepOfByteWritten,
       StepOfRestart, StepOfStop,
     StepOfReadByte, StepOfByteRead, StepOfSendAck, StepOfBytesRead, StepOfRelease
  DEF Next, Transfer, BusInv
<1> QED
  BY <1>2, <1>4

\* The inductive invariant is inductive.
LEMMA BusInvOfStep ==
    ASSUME Machine, BusInv, [Next]_vars
    PROVE  Machine' /\ BusInv'
<1>1. CASE Next
  <2>1. Machine'
    BY <1>1, DeviceOfStep, ControlOfStep, MachineKept
  <2> QED
    BY <1>1, <2>1, InStepOfStep DEF BusInv
<1>2. CASE UNCHANGED vars
  <2> USE <1>2 DEF vars, pinVars, byteVars, msgVars
  <2>1. Machine'
    BY DEF Machine, Control, MasterTyped, Course, BitsCounted, PinsSet, LineTyped,
         OffIsFree, Remaining, Msg
  <2>2. BusInv'
    BY DEF BusInv, InStep, Taking, Acking, Giving, Given, Gone, Up, Ready, Phase,
           Remaining, Msg, ByteOut, Addressed
  <2> QED
    BY <2>1, <2>2
<1> QED
  BY <1>1, <1>2

\* It holds when the car comes up, whatever the device was doing.
LEMMA BusInvAtInit ==
    ASSUME Init
    PROVE  Machine /\ BusInv
<1>1. LineTyped /\ OffIsFree
  <2>1. slave \in Devices
    BY DevicesAre, I2cAssumption DEF Init, I2cAssumption, Bit
  <2>2. slave.scl = 1 /\ (slave.mode = "off" => slave.sda = 1)
    BY DEF Init
  <2>3. sda \in Bit /\ scl \in Bit
    BY DEF Init, Bit
  <2> QED
    BY <2>1, <2>2, <2>3 DEF LineTyped, OffIsFree
<1>2. MasterTyped
  <2>1. 0 \in Bytes /\ 0 \in 0..Bits /\ 0 \in Bit /\ 1 \in Bit
    BY DevicesAre
  <2>2. /\ sda = 1 /\ scl = 1 /\ msgs = <<>> /\ leg = 1 /\ pos = 0 /\ ret = 0
        /\ bit = 0 /\ val = 0 /\ buf = <<>> /\ waited = 0 /\ started = FALSE /\ late = FALSE
    BY DEF Init
  <2>3. started \in BOOLEAN /\ late \in BOOLEAN
    BY <2>2, Zenon
  <2>4. leg \in 1..2 /\ pos \in Nat /\ buf \in Seq(Bytes)
    BY <2>2
  <2> QED
    BY <2>1, <2>2, <2>3, <2>4, Zenon DEF MasterTyped
<1>3. Course
  BY DEF Init, Course, Points, Starting, Sending, Acked, Restarting, Reading,
       AckGiving, Stopping
<1>4. BitsCounted /\ PinsSet /\ BusInv
  BY DEF Init, BitsCounted, PinsSet, BusInv, Starting, Sending, Acked, Restarting,
       Reading, AckGiving
<1> QED
  BY <1>1, <1>2, <1>3, <1>4 DEF Machine, Control

(***************************************************************************)
(* For any width of a byte, address, calls and number of held clocks: a    *)
(* transfer keeps its variables in their types.  In particular a byte that *)
(* is assembled from the bits read stays below 2^Bits                      *)
(* (rt_soft_i2c_readb), and the bit counters stop in time.                 *)
(***************************************************************************)
THEOREM I2cTypeCorrect == Spec => []TypeOK
<1>1. Init => Machine /\ BusInv
  BY BusInvAtInit
<1>2. (Machine /\ BusInv) /\ [Next]_vars => (Machine /\ BusInv)'
  BY BusInvOfStep
<1>3. Machine /\ BusInv => TypeOK
  <2> SUFFICES ASSUME Machine PROVE TypeOK
    OBVIOUS
  <2>1. \A i \in DOMAIN buf : buf[i] \in Bytes
    BY DEF Machine, Control, MasterTyped
  <2> QED
    BY <2>1 DEF Machine, Control, MasterTyped, LineTyped, TypeOK
<1> QED
  BY <1>1, <1>2, <1>3, PTL DEF Spec

(***************************************************************************)
(* After a transfer whose start the device saw and in which no wait for    *)
(* the clock was given up, done or failed, the device is off the bus and   *)
(* both lines are high (rt_soft_i2c_master_xfer, rt_soft_i2c_stop).        *)
(***************************************************************************)
THEOREM BusIsFree == Spec => []BusFree
<1>1. Init => Machine /\ BusInv
  BY BusInvAtInit
<1>2. (Machine /\ BusInv) /\ [Next]_vars => (Machine /\ BusInv)'
  BY BusInvOfStep
<1>3. Machine /\ BusInv => BusFree
  <2> SUFFICES ASSUME Machine, BusInv, Clean
               PROVE  slave.mode = "off" /\ Sda(sda, slave) = 1 /\ Scl(scl, slave) = 1
    BY DEF BusFree
  <2>1. Gone /\ sda = 1 /\ scl = 1
    BY DEF Clean, BusInv, InStep, Machine, Control, PinsSet
  <2>2. slave.sda = 1 /\ slave.scl = 1
    BY <2>1, GoneIsFree
  <2> QED
    BY <2>1, <2>2 DEF Gone, Sda, Scl
<1> QED
  BY <1>1, <1>2, <1>3, PTL DEF Spec

-----------------------------------------------------------------------------
(***************************************************************************)
(* What has gone through: the pointer once the register's number has been  *)
(* acknowledged, the register once its value has, and the bytes read so    *)
(* far, with the bits read of the next one.                                *)
(***************************************************************************)
\* The register asked for, those that follow it, and the first n of them read.
Reg == msgs[1].buf[1]
Place(i) == (Reg + i) % 2^Bits
Held(n) == Len(buf) = n /\ \A i \in 1..n : buf[i] = slave.regs[Place(i - 1)]

Through ==
    /\ pos = 2 /\ pc \in (Sending \cup Acked) \ {"w_done"} => slave.ptr = Reg
    /\ pos = 1 /\ pc = "w_done" /\ val = 0 => slave.ptr = Reg
    /\ pos = 2 /\ pc = "w_done" /\ val = 0 => slave.regs[Reg] = msgs[1].buf[2]
    /\ pc \in Restarting \/ (leg = 2 /\ pc \in Sending \cup Acked) => slave.ptr = Reg
    /\ pc \in Starting \cup Sending \cup Acked \cup Restarting => buf = <<>>
    /\ pc \in Reading => /\ slave.ptr = Place(pos - 1)
                         /\ val = Prefix(slave.regs[slave.ptr], bit)
                         /\ Held(pos - 1)
    /\ pc \in AckGiving => Held(pos)
    /\ pc \in AckGiving \ {"k_done"} => slave.ptr = Place(pos - 1)
    /\ pc = "k_done" /\ Remaining > 0 => slave.ptr = Place(pos)
    /\ ret = 1 => slave.regs[Reg] = msgs[1].buf[2]
    /\ ret = 2 => Held(msgs[2].len)

\* A remainder from its quotient.
LEMMA Remainder ==
    ASSUME NEW n \in Nat, NEW d \in Nat \ {0}, NEW q \in Nat, NEW r \in 0..(d - 1),
           n = d * q + r
    PROVE  n % d = r
OBVIOUS

\* The place after a place.
LEMMA NextPlace ==
    ASSUME NEW r \in Nat, NEW i \in Nat
    PROVE  NextReg((r + i) % 2^Bits) = (r + (i + 1)) % 2^Bits
<1> DEFINE n == 2^Bits
           a == r + i
<1>1. n \in Nat /\ 1 < n
  <2>1. 1 \in Bytes
    BY DevicesAre, BytesAre
  <2>2. n \in Nat
    BY PowerPositive, DevicesAre
  <2> QED
    BY <2>1, <2>2 DEF Bytes
<1>2. a \in Nat
  OBVIOUS
<1> HIDE DEF n, a
<1>3. ((a % n) + 1) % n = (a + 1) % n
  <2> DEFINE q == a \div n
             m == a % n
  <2>1. q \in Nat /\ m \in 0..(n - 1) /\ a = n * q + m
    BY <1>1, <1>2, Division
  <2> HIDE DEF q, m
  <2>2. CASE m + 1 < n
    <3>1. a + 1 = n * q + (m + 1) /\ m + 1 \in 0..(n - 1)
      BY <1>1, <2>1, <2>2
    <3>2. (a + 1) % n = m + 1
      BY <1>1, <1>2, <2>1, <3>1, Remainder
    <3>3. (m + 1) % n = m + 1
      BY <1>1, <2>1, <2>2
    <3> QED
      BY <3>2, <3>3 DEF m
  <2>3. CASE m + 1 = n
    <3> DEFINE p == n * q
    <3>1. n * (q + 1) = p + n /\ p \in Nat
      BY <1>1, <2>1
    <3>2. a + 1 = n * (q + 1) + 0
      BY <1>1, <2>1, <2>3, <3>1
    <3>3. (a + 1) % n = 0
      BY <1>1, <1>2, <2>1, <3>2, Remainder
    <3>4. (m + 1) % n = 0
      BY <1>1, <2>3
    <3> QED
      BY <3>3, <3>4 DEF m
  <2> QED
    BY <1>1, <2>1, <2>2, <2>3
<1>4. a + 1 = r + (i + 1)
  BY DEF a
<1> QED
  BY <1>3, <1>4 DEF n, a, NextReg

\* The device keeps its pointer and its registers.
Kept == slave'.ptr = slave.ptr /\ slave'.regs = slave.regs

(***************************************************************************)
(* What a step does to the pointer and the registers of the device, in a   *)
(* transfer that is not disturbed.                                         *)
(***************************************************************************)
LEMMA KeptByWrite ==
    ASSUME Machine, NEW here, NEW next, NEW d \in Bit, NEW c \in Bit, Write(here, next, d, c),
           c = 1 \/ scl = 0
    PROVE  Kept
BY PinsKeepDevice DEF Machine, Write, Kept

\* A clock that falls inside a byte changes no register.
LEMMA KeptByLowering ==
    ASSUME Machine, InStep, ~late', NEW d \in Bit, Pins(d, 0),
           pc \in {"start_scl", "w_low", "w_end", "restart_low", "r_low"}
    PROVE  Kept
<1>1. LineTyped /\ scl \in Bit /\ slave.scl \in Bit /\ Bits \in Nat /\ Bits > 0
  BY DevicesAre DEF Machine, LineTyped
<1>2. CASE scl = 0
  BY <1>1, <1>2, PinsKeepDevice, DevicesAre DEF Machine, Kept
<1>3. CASE scl = 1
  <2>1. Up
    BY <1>3 DEF InStep, Addressed
  <2>2. Fell
    BY <1>1, <1>3, <2>1, LowerIs DEF Up
  <2>3. CASE pc \in {"start_scl", "restart_low"}
    BY <2>2, <2>3 DEF InStep, Addressed, Fell, Alike, Kept
  <2>4. CASE pc = "w_low"
    <3>1. slave.mode # "give" /\ slave.slot < Bits
      BY <2>4 DEF InStep, Taking, Phase, Machine, Control, BitsCounted, Sending
    <3> QED
      BY <2>2, <3>1 DEF Fell, Alike, Kept
  <2>5. CASE pc = "w_end"
    <3>1. slave.mode \notin {"off", "give"} /\ slave.slot = Bits
      BY <2>5 DEF InStep, Taking, Phase
    <3> QED
      BY <2>2, <3>1 DEF Fell, Kept
  <2>6. CASE pc = "r_low"
    <3>1. slave.mode = "give" /\ slave.slot = bit /\ 0 < bit /\ (bit < Bits \/ bit = Bits)
      BY <1>1, <2>6 DEF InStep, Giving, Machine, Control, BitsCounted, MasterTyped
    <3> QED
      BY <1>1, <2>2, <3>1 DEF Fell, Kept
  <2> QED
    BY <2>3, <2>4, <2>5, <2>6
<1> QED
  BY <1>1, <1>2, <1>3 DEF Bit

\* A device that nothing happens to keeps its registers.
LEMMA KeptByRest ==
    ASSUME UNCHANGED slave
    PROVE  Kept
BY DEF Kept

\* So does one that lets go of the clock.
LEMMA KeptByRelease ==
    ASSUME Machine, Release
    PROVE  Kept
BY ReleaseIs DEF Machine, Rose, Alike, Kept

\* Only the fall of the clock after an acknowledge moves pointer or registers.
LEMMA KeptOfStep ==
    ASSUME Machine, InStep, ~late', Transfer, pc \notin {"a_low", "k_low"}
    PROVE  Kept
<1>1. sda \in Bit /\ scl \in Bit /\ 0 \in Bit /\ 1 \in Bit
  BY DevicesAre DEF Machine, LineTyped
<1>2. CASE Start
  BY <1>1, <1>2, KeptByWrite, KeptByLowering DEF Start, Write, Goto, Bit
<1>3. CASE WriteByte
  <2>1. CASE Write("w_low", "w_sda", sda, 0)
    BY <1>1, <2>1, KeptByLowering DEF Write, Goto
  <2>2. CASE Write("w_sda", "w_high", BitOf(ByteOut, bit + 1), scl)
    <3>1. BitOf(ByteOut, bit + 1) \in Bit
      BY <2>2, SentIsBit DEF Machine, Control, Write, Goto, Sending
    <3> QED
      BY <1>1, <2>2, <3>1, KeptByWrite DEF Bit
  <2>3. CASE Write("w_high", "w_wait", sda, 1)
    BY <1>1, <2>3, KeptByWrite
  <2>4. CASE \/ Await("w_wait", "w_next", "w_late")
             \/ (pc = "w_next" /\ BitThrough /\ UNCHANGED <<pinVars, val, buf, msgVars, waited, late>>)
    BY <2>4, KeptByRest DEF Await, pinVars
  <2> QED
    BY <1>3, <2>1, <2>2, <2>3, <2>4 DEF WriteByte
<1>4. CASE WaitAck
  <2>1. CASE Write("w_end", "a_sda", sda, 0)
    BY <1>1, <2>1, KeptByLowering DEF Write, Goto
  <2>2. CASE Write("a_sda", "a_high", 1, scl) \/ Write("a_high", "a_wait", sda, 1)
    BY <1>1, <2>2, KeptByWrite DEF Bit
  <2>3. CASE \/ Await("a_wait", "a_get", "w_late")
             \/ /\ Goto("a_get", "a_low") /\ val' = Sda(sda, slave)
                /\ UNCHANGED <<pinVars, bit, buf, msgVars, waited, late>>
    BY <2>3, KeptByRest DEF Await, pinVars
  <2>4. ~Write("a_low", "w_done", sda, 0)
    BY DEF Write, Goto
  <2> QED
    BY <1>4, <2>1, <2>2, <2>3, <2>4 DEF WaitAck
<1>5. CASE Restart
  <2>1. CASE /\ Goto("restart_low", "w_low") /\ Pins(sda, 0)
             /\ leg' = leg + 1 /\ pos' = 0
             /\ UNCHANGED <<byteVars, msgs, ret, waited, late>>
    BY <1>1, <2>1, KeptByLowering DEF Goto
  <2>2. CASE Write("restart_sda", "restart_high", 1, scl) \/ Write("restart_start", "restart_low", 0, scl)
    BY <1>1, <2>2, KeptByWrite DEF Bit
  <2>3. CASE Write("restart_high", "restart_wait", sda, 1)
    BY <1>1, <2>3, KeptByWrite
  <2>4. CASE Await("restart_wait", "restart_start", "restart_start")
    BY <2>4, KeptByRest DEF Await, pinVars
  <2> QED
    BY <1>5, <2>1, <2>2, <2>3, <2>4 DEF Restart
<1>6. CASE ReadByte
  <2>1. CASE Write("r_sda", "r_high", 1, scl)
    BY <1>1, <2>1, KeptByWrite DEF Bit
  <2>2. CASE Write("r_high", "r_wait", sda, 1)
    BY <1>1, <2>2, KeptByWrite
  <2>3. CASE Await("r_wait", "r_get", "r_late") \/ GetBit
    BY <2>3, KeptByRest DEF Await, GetBit, pinVars
  <2>4. CASE Write("r_low", IF bit < Bits THEN "r_high" ELSE "r_done", sda, 0)
    BY <1>1, <2>4, KeptByLowering DEF Write, Goto
  <2> QED
    BY <1>6, <2>1, <2>2, <2>3, <2>4 DEF ReadByte
<1>7. CASE SendAck
  <2> DEFINE d == IF Remaining > 0 THEN 0 ELSE sda
  <2>1. CASE Write("k_sda", "k_high", d, scl)
    <3>1. d \in Bit
      BY <1>1
    <3> HIDE DEF d
    <3> QED
      BY <1>1, <2>1, <3>1, KeptByWrite DEF Bit
  <2>2. CASE Write("k_high", "k_wait", sda, 1)
    BY <1>1, <2>2, KeptByWrite
  <2>3. CASE Await("k_wait", "k_low", "k_late")
    BY <2>3, KeptByRest DEF Await, pinVars
  <2>4. ~Write("k_low", "k_done", sda, 0)
    BY DEF Write, Goto
  <2> QED
    BY <1>7, <2>1, <2>2, <2>3, <2>4 DEF SendAck
<1>8. CASE Stop
  <2>1. CASE Write("stop_sda", "stop_high", 0, scl) \/ Write("stop_end", "done", 1, scl)
    BY <1>1, <2>1, KeptByWrite DEF Bit
  <2>2. CASE Write("stop_high", "stop_wait", sda, 1)
    BY <1>1, <2>2, KeptByWrite
  <2>3. CASE Await("stop_wait", "stop_end", "stop_end")
    BY <2>3, KeptByRest DEF Await, pinVars
  <2> QED
    BY <1>8, <2>1, <2>2, <2>3 DEF Stop
<1>9. CASE ByteWritten \/ ByteRead \/ BytesRead \/ Return
  BY <1>9, KeptByRest DEF ByteWritten, ByteRead, BytesRead, Return, pinVars
<1> QED
  BY <1>2, <1>3, <1>4, <1>5, <1>6, <1>7, <1>8, <1>9 DEF Transfer

\* The step after an acknowledge: the byte counts.
ByteCounts ==
    /\ pc' = "w_done" /\ val' = val
    /\ \/ val = 1 /\ Kept
       \/ val = 0 /\ pos = 0 /\ Kept
       \/ val = 0 /\ pos = 1 /\ slave'.ptr = ByteOut /\ slave'.regs = slave.regs
       \/ val = 0 /\ pos = 2 /\ slave'.regs = [slave.regs EXCEPT ![slave.ptr] = ByteOut]

\* The device takes the byte it has acknowledged.
LEMMA ByteTaken ==
    ASSUME Machine, InStep, Write("a_low", "w_done", sda, 0)
    PROVE  ByteCounts
<1>1. /\ LineTyped /\ sda \in Bit /\ scl = 1 /\ Pins(sda, 0) /\ Bits \in Nat
      /\ (val = 1 /\ Gone) \/ (val = 0 /\ Acking(Bits + 1) /\ Up)
  BY DevicesAre DEF InStep, Machine, LineTyped, Control, PinsSet, Write, Goto
<1>2. Fell
  <2>1. slave.scl = 1
    BY <1>1, GoneIsFree DEF Up
  <2> QED
    BY <1>1, <2>1, LowerIs
<1>3. pc' = "w_done" /\ val' = val
  BY DEF Write, Goto, byteVars
<1>4. CASE val = 1 /\ Gone
  BY <1>2, <1>3, <1>4 DEF Fell, Gone, Alike, ByteCounts, Kept
<1>5. CASE val = 0 /\ Acking(Bits + 1)
  <2>1. slave.slot > Bits /\ slave.mode = Phase /\ slave.shift = ByteOut
    BY <1>1, <1>5 DEF Acking
  <2>2. pos \in {0, 1, 2}
    BY MsgIs DEF Machine, Control, MasterTyped, Course, Write, Goto, Acked
  <2> QED
    BY <1>2, <1>3, <1>5, <2>1, <2>2 DEF Fell, Phase, ByteCounts, Kept
<1> QED
  BY <1>1, <1>4, <1>5

\* The step after an acknowledge of the master: the device goes on.
LEMMA NextPrepared ==
    ASSUME Machine, InStep, Write("k_low", "k_done", sda, 0)
    PROVE  /\ pc' = "k_done" /\ slave'.regs = slave.regs
           /\ Remaining > 0 => slave'.ptr = NextReg(slave.ptr)
<1>1. /\ LineTyped /\ sda \in Bit /\ scl = 1 /\ Pins(sda, 0) /\ Bits \in Nat /\ Bits > 0
      /\ Given(Bits + 1) /\ Up /\ slave.ack = sda
      /\ sda = IF Remaining > 0 THEN 0 ELSE 1
  BY DevicesAre DEF InStep, Machine, LineTyped, Control, PinsSet, Write, Goto
<1>2. Fell
  BY <1>1, LowerIs DEF Up
<1>3. slave.mode = "give" /\ slave.slot > Bits
  BY <1>1 DEF Given
<1>4. pc' = "k_done"
  BY DEF Write, Goto
<1> QED
  BY <1>1, <1>2, <1>3, <1>4 DEF Fell

\* With buffer and registers as before, what was read is still right.
LEMMA HeldKept ==
    ASSUME Kept, UNCHANGED <<msgs, buf>>
    PROVE  /\ Reg' = Reg
           /\ \A n \in Int : Place(n)' = Place(n) /\ Held(n)' = Held(n)
BY DEF Kept, Reg, Place, Held

\* The steps within a phase of a transfer that leave the data alone.
LEMMA ThroughWithin ==
    ASSUME Machine, Through, Kept, UNCHANGED <<msgs, leg, pos, buf, ret>>,
           \/ pc \in (Sending \cup Acked) \ {"w_done"} /\ pc' \in (Sending \cup Acked) \ {"w_done"}
           \/ pc \in Restarting /\ pc' \in Restarting
           \/ pc \in AckGiving \ {"k_done"} /\ pc' \in AckGiving \ {"k_done"}
           \/ pc \in Stopping /\ pc' \in Stopping
           \/ pc \in Starting /\ pc' \in Starting
           \/ ((pc \in Reading /\ pc' \in Reading) \/ pc' = pc) /\ UNCHANGED <<bit, val>>
    PROVE  Through'
<1>1. /\ Reg' = Reg /\ Remaining' = Remaining
      /\ \A n \in Int : Place(n)' = Place(n) /\ Held(n)' = Held(n)
  BY HeldKept DEF Remaining, Msg
<1>2. pos \in Int /\ pos - 1 \in Int
  BY DEF Machine, Control, MasterTyped
<1>3. ret = 2 => msgs[2].len \in Int
  <2>1. ret = 2 => Len(msgs) = 2 /\ pc # "idle"
    BY DEF Machine, Control, Course, Stopping
  <2> QED
    BY <2>1, MsgIs DEF Machine, Control
<1> QED
  BY <1>1, <1>2, <1>3 DEF Through, Kept, Starting, Sending, Acked, Restarting,
       Reading, AckGiving, Stopping, Prefix

\* The start condition begins with nothing read.
LEMMA ThroughStart ==
    ASSUME Machine, started => InStep, started => Through, started', ~late', Start
    PROVE  Through'
<1>1. sda \in Bit /\ scl = 1 /\ 0 \in Bit /\ leg = 1 /\ pos = 0 /\ buf = <<>> /\ ret = 0
  BY DevicesAre DEF Machine, LineTyped, Control, Course, PinsSet, Start, Write,
       Goto, Starting, Stopping
<1>2. UNCHANGED <<msgs, leg, pos, buf, ret>> /\ pc' \in {"start_scl", "w_low"}
  BY DEF Start, Write, Goto, byteVars, msgVars
<1> QED
  BY <1>1, <1>2 DEF Through, Starting, Sending, Acked, Restarting, Reading, AckGiving

\* A written bit leaves pointer and registers alone.
LEMMA ThroughWriteByte ==
    ASSUME Machine, InStep, Through, ~late', WriteByte
    PROVE  Through'
<1>2. Kept
  <2>1. pc \notin {"a_low", "k_low"}
    BY DEF WriteByte, Write, Await, Goto
  <2> QED
    BY <2>1, KeptOfStep DEF Transfer
<1>3. UNCHANGED <<msgs, leg, pos, buf, ret>>
  BY DEF WriteByte, Write, Await, byteVars, msgVars
<1>4. pc \in Sending /\ pc' \in Sending \cup {"w_end"}
  BY DEF WriteByte, Write, Await, Goto, BitThrough, Sending
<1> QED
  BY <1>2, <1>3, <1>4, ThroughWithin DEF Sending, Acked

\* An acknowledged byte is the pointer, or the value of the register.
LEMMA ThroughWaitAck ==
    ASSUME Machine, InStep, Through, ~late', WaitAck
    PROVE  Through'
<1>2. UNCHANGED <<msgs, leg, pos, buf, ret>> /\ pc \in Acked /\ pc # "w_done"
  BY DEF WaitAck, Write, Await, Goto, byteVars, msgVars, Acked
<1>3. CASE Write("a_low", "w_done", sda, 0)
  <2>1. ByteCounts
    BY <1>3, ByteTaken
  <2>2. /\ pos \in {0, 1, 2} /\ pc = "a_low"
        /\ pos # 0 => leg = 1 /\ Msg.buf[pos] = msgs[1].buf[pos] /\ ByteOut = msgs[1].buf[pos]
        /\ leg \in {1, 2} /\ (leg = 2 => pos = 0) /\ ret = 0
    BY <1>3, MsgIs DEF Machine, Control, MasterTyped, Course, Write, Goto, Acked,
         Stopping, ByteOut, Msg
  <2>3. /\ buf = <<>> /\ (leg = 2 => slave.ptr = Reg) /\ (pos = 2 => slave.ptr = Reg)
    BY <2>2 DEF Through, Acked
  <2>4. Reg' = Reg /\ msgs' = msgs /\ pos' = pos /\ leg' = leg /\ buf' = buf /\ ret' = 0
        /\ pc' = "w_done" /\ val' = val
    BY <1>2, <2>1, <2>2 DEF Reg, ByteCounts
  <2>5. (leg = 2 => slave'.ptr = Reg)
    BY <2>1, <2>2, <2>3 DEF ByteCounts, Kept
  <2>6. pos = 1 /\ val = 0 => slave'.ptr = Reg
    BY <2>1, <2>2 DEF ByteCounts, Reg
  <2>7. pos = 2 /\ val = 0 => slave'.regs[Reg] = msgs[1].buf[2]
    <3> SUFFICES ASSUME pos = 2, val = 0 PROVE slave'.regs[Reg] = msgs[1].buf[2]
      OBVIOUS
    <3>1. Reg \in Bytes /\ slave.regs \in [Bytes -> Bytes]
      BY <2>2, MsgIs, DevicesAre DEF Machine, Control, LineTyped, Reg
    <3>2. slave'.regs = [slave.regs EXCEPT ![Reg] = msgs[1].buf[2]]
      BY <2>1, <2>2, <2>3 DEF ByteCounts
    <3> QED
      BY <3>1, <3>2
  <2> QED
    BY <2>2, <2>3, <2>4, <2>5, <2>6, <2>7
    DEF Through, Starting, Sending, Acked, Restarting, Reading, AckGiving
<1>4. CASE ~Write("a_low", "w_done", sda, 0)
  <2>1. Kept
    <3>1. pc \notin {"a_low", "k_low"}
      BY <1>4 DEF WaitAck, Write, Await, Goto
    <3> QED
      BY <3>1, KeptOfStep DEF Transfer
  <2>2. pc' \in Acked \ {"w_done"}
    BY <1>4 DEF WaitAck, Write, Await, Goto, Acked
  <2> QED
    BY <1>2, <2>1, <2>2, ThroughWithin
<1> QED
  BY <1>3, <1>4

\* A write reported as done is in its register; a read begins where the
\* pointer stands.
LEMMA ThroughByteWritten ==
    ASSUME Machine, InStep, Through, ~late', ByteWritten
    PROVE  Through'
<1>1. pc = "w_done" /\ ret = 0 /\ buf = <<>> /\ MasterTyped /\ Course
  BY DEF ByteWritten, Goto, Machine, Control, Course, Through, Stopping, Acked
<1>2. /\ slave' = slave /\ msgs' = msgs /\ bit' = 0 /\ val' = 0 /\ buf' = <<>> /\ Reg' = Reg
  BY <1>1 DEF ByteWritten, pinVars, Fail, NextByte, MessageEnds, msgVars, Reg
<1>3. /\ (leg = 1 /\ pos <= msgs[1].len) \/ (leg = 2 /\ Len(msgs) = 2 /\ pos = 0)
      /\ pos \in Nat
  BY <1>1 DEF MasterTyped, Course, Acked
<1>4. CASE \/ Goto("w_late", "stop_sda") /\ Fail(IF pos = 0 THEN RT_EIO ELSE RT_ETIMEOUT)
           \/ Goto("w_done", "stop_sda") /\ val = 1 /\ Fail(IF pos = 0 THEN RT_EIO ELSE RT_ERROR)
  <2>1. pc' = "stop_sda" /\ ret' \in {RT_EIO, RT_ERROR, RT_ETIMEOUT}
    BY <1>1, <1>4 DEF Goto, Fail
  <2>2. ret' # 1 /\ ret' # 2
    BY <2>1, ErrorsAre
  <2> QED
    BY <2>1, <2>2 DEF Through, Starting, Sending, Acked, Restarting, Reading, AckGiving
<1>5. CASE Goto("w_done", "r_sda") /\ val = 0 /\ Msg.rd = 1 /\ NextByte
  <2>1. /\ leg = 2 /\ pos = 0 /\ pos' = 1 /\ leg' = 2 /\ ret' = 0 /\ pc' = "r_sda"
        /\ slave.ptr = Reg /\ Reg \in Bytes
    BY <1>1, <1>3, <1>5, MsgIs DEF Goto, NextByte, Msg, Through, Acked, Reg
  <2>2. Place(pos - 1)' = Reg
    <3>1. Reg + 0 = Reg /\ Reg \in Nat
      BY <2>1, BytesAre
    <3>2. (Reg + 0) % 2^Bits = Reg
      BY <2>1, <3>1, BytesAre
    <3>3. pos' - 1 = 0
      BY <2>1
    <3> QED
      BY <1>2, <3>2, <3>3 DEF Place
  <2>3. Prefix(slave.regs[slave.ptr], 0) = 0
    <3>1. slave.regs[slave.ptr] \in Bytes
      BY DevicesAre DEF Machine, LineTyped
    <3> QED
      BY <3>1, PrefixIs
  <2>4. Held(pos - 1)'
    <3>1. pos' - 1 = 0
      BY <2>1
    <3> QED
      BY <1>2, <3>1 DEF Held
  <2> QED
    BY <1>2, <2>1, <2>2, <2>3, <2>4
    DEF Through, Starting, Sending, Acked, Restarting, Reading, AckGiving, Prefix
<1>6. CASE Goto("w_done", "w_low") /\ val = 0 /\ Msg.rd = 0 /\ pos < Msg.len /\ NextByte
  <2>1. /\ leg = 1 /\ pos < msgs[1].len /\ leg' = 1 /\ pos' = pos + 1 /\ pc' = "w_low" /\ ret' = 0
    BY <1>1, <1>3, <1>6, MsgIs DEF Msg, NextByte, Goto
  <2>2. pos = 1 => slave.ptr = Reg
    BY <1>1, <1>6 DEF Through
  <2> QED
    BY <1>2, <1>3, <2>1, <2>2
    DEF Through, Starting, Sending, Acked, Restarting, Reading, AckGiving
<1>7. CASE pc = "w_done" /\ val = 0 /\ Msg.rd = 0 /\ pos = Msg.len /\ MessageEnds
  <2>1. leg = 1 /\ pos = msgs[1].len
    BY <1>1, <1>3, <1>7, MsgIs DEF Msg
  <2>2. CASE Len(msgs) = 2
    <3>1. /\ pos = 1 /\ pos' = 1 /\ leg' = 1 /\ ret' = 0 /\ pc' = "restart_sda" /\ slave.ptr = Reg
      BY <1>1, <1>7, <2>1, <2>2, MsgIs DEF MessageEnds, msgVars, Through
    <3> QED
      BY <1>2, <3>1 DEF Through, Starting, Sending, Acked, Restarting, Reading,
           AckGiving
  <2>3. CASE Len(msgs) = 1
    <3>1. /\ pos = 2 /\ ret' = 1 /\ pc' = "stop_sda" /\ slave.regs[Reg] = msgs[1].buf[2]
      BY <1>1, <1>7, <2>1, <2>3, MsgIs DEF MessageEnds, msgVars, Through
    <3> QED
      BY <1>2, <3>1 DEF Through, Starting, Sending, Acked, Restarting, Reading,
           AckGiving
  <2> QED
    BY <1>1, <2>2, <2>3, MsgIs
<1> QED
  BY <1>4, <1>5, <1>6, <1>7 DEF ByteWritten

\* The restart leaves the pointer where the first message set it.
LEMMA ThroughRestart ==
    ASSUME Machine, InStep, Through, ~late', Restart
    PROVE  Through'
<1>2. pc \in Restarting /\ leg = 1 /\ pos = 1 /\ ret = 0
  <2>1. pc \in Restarting
    BY DEF Restart, Write, Await, Goto, Restarting
  <2> QED
    BY <2>1 DEF Machine, Control, Course, Restarting, Stopping
<1>3. CASE /\ Goto("restart_low", "w_low") /\ Pins(sda, 0)
           /\ leg' = leg + 1 /\ pos' = 0
           /\ UNCHANGED <<byteVars, msgs, ret, waited, late>>
  <2>1. Kept
    BY <1>2, KeptOfStep DEF Transfer, Restarting
  <2>2. /\ leg' = 2 /\ pos' = 0 /\ pc' = "w_low" /\ buf' = buf /\ Reg' = Reg /\ ret' = 0
    BY <1>2, <1>3 DEF Goto, byteVars, Reg
  <2>3. buf = <<>> /\ slave.ptr = Reg
    BY <1>2 DEF Through
  <2> QED
    BY <2>1, <2>2, <2>3 DEF Through, Kept, Starting, Sending, Acked, Restarting,
         Reading, AckGiving
<1>4. CASE Restart /\ pc # "restart_low"
  <2>1. Kept
    BY <1>2, KeptOfStep DEF Transfer, Restarting
  <2>2. UNCHANGED <<msgs, leg, pos, buf, ret>> /\ pc' \in Restarting
    BY <1>4 DEF Restart, Write, Await, Goto, byteVars, msgVars, Restarting
  <2> QED
    BY <1>2, <2>1, <2>2, ThroughWithin
<1> QED
  BY <1>3, <1>4 DEF Restart, Write, Await, Goto

\* The stop condition leaves what was transferred.
LEMMA ThroughStop ==
    ASSUME Machine, InStep, Through, ~late', Stop
    PROVE  Through'
<1>2. Kept
  <2>1. pc \notin {"a_low", "k_low"}
    BY DEF Stop, Write, Await, Goto
  <2> QED
    BY <2>1, KeptOfStep DEF Transfer
<1>3. UNCHANGED <<msgs, leg, pos, buf, ret>> /\ pc \in Stopping /\ pc' \in Stopping
  BY DEF Stop, Write, Await, Goto, byteVars, msgVars, Stopping
<1> QED
  BY <1>2, <1>3, ThroughWithin

\* A bit read is the next bit of the register the pointer names.
LEMMA ThroughReadByte ==
    ASSUME Machine, InStep, Through, ~late', ReadByte
    PROVE  Through'
<1>2. UNCHANGED <<msgs, leg, pos, buf, ret>> /\ pc \in Reading /\ pc' \in Reading \cup {"r_late"}
  BY DEF ReadByte, GetBit, Write, Await, Goto, byteVars, msgVars, Reading
<1>3. CASE GetBit
  <2>1. pc = "r_get" /\ pc' = "r_low" /\ slave' = slave /\ bit' = bit + 1
        /\ val' = 2 * val + Sda(sda, slave)
    BY <1>3 DEF GetBit, Goto, pinVars
  <2> DEFINE n == slave.regs[slave.ptr]
  <2>2. n \in Bytes /\ slave.sda \in Bit /\ bit \in 0..(Bits - 1)
    BY <2>1, DevicesAre DEF Machine, LineTyped, Control, MasterTyped, BitsCounted
  <2>3. Sda(sda, slave) = BitOf(n, bit + 1)
    <3>1. sda = 1 /\ slave.sda = BitOf(n, bit + 1)
      BY <2>1 DEF Machine, Control, PinsSet, InStep, Giving
    <3> QED
      BY <2>2, <3>1 DEF Sda, Bit
  <2>4. val = Prefix(n, bit)
    BY <1>2 DEF Through
  <2>5. val' = Prefix(n, bit + 1)
    <3> HIDE DEF n
    <3> QED
      BY <2>1, <2>2, <2>3, <2>4, PrefixIs
  <2>6. val' = Prefix(slave'.regs[slave'.ptr], bit')
    BY <2>1, <2>5
  <2>7. Kept
    BY <2>1 DEF Kept
  <2>8. Reg' = Reg /\ pos - 1 \in Int /\ \A k \in Int : Place(k)' = Place(k) /\ Held(k)' = Held(k)
    BY <1>2, <2>7, HeldKept DEF Machine, Control, MasterTyped
  <2>9. ret' # 1 /\ ret' # 2
    BY <1>2 DEF Machine, Control, Course, Reading, Stopping
  <2> QED
    BY <1>2, <2>1, <2>6, <2>7, <2>8, <2>9
    DEF Through, Kept, Starting, Sending, Acked, Restarting, Reading, AckGiving, Prefix
<1>4. CASE ~GetBit
  <2>1. Kept
    BY <1>2, KeptOfStep DEF Transfer, Reading
  <2>2. UNCHANGED <<bit, val>> /\ pc' \in Reading
    BY <1>4 DEF ReadByte, Write, Await, Goto, byteVars, Reading
  <2> QED
    BY <1>2, <2>1, <2>2, ThroughWithin
<1> QED
  BY <1>3, <1>4

\* A byte read is that register.
LEMMA ThroughByteRead ==
    ASSUME Machine, InStep, Through, ~late', ByteRead
    PROVE  Through'
<1>1. /\ pc = "r_done" /\ pc' = "k_sda" /\ buf' = Append(buf, val)
      /\ slave' = slave /\ UNCHANGED <<msgs, leg, pos, ret>>
  BY DEF ByteRead, Goto, pinVars, msgVars
<1>2. /\ slave.ptr = Place(pos - 1) /\ val = Prefix(slave.regs[slave.ptr], bit) /\ Held(pos - 1)
      /\ bit = Bits /\ pos \in Nat \ {0} /\ buf \in Seq(Bytes)
  BY <1>1, MsgIs DEF Through, Reading, Machine, Control, MasterTyped, Course,
       BitsCounted
<1>3. val = slave.regs[Place(pos - 1)]
  <2>1. slave.regs[slave.ptr] \in Bytes
    BY DevicesAre DEF Machine, LineTyped
  <2> QED
    BY <1>2, <2>1, PrefixIs
<1>4. Held(pos)'
  <2>1. Len(buf') = pos /\ \A i \in 1..pos : buf'[i] = IF i = pos THEN val ELSE buf[i]
    BY <1>1, <1>2 DEF Held, Machine, Control, MasterTyped
  <2>2. \A i \in 1..pos : buf'[i] = slave.regs[Place(i - 1)]
    <3> SUFFICES ASSUME NEW i \in 1..pos PROVE buf'[i] = slave.regs[Place(i - 1)]
      OBVIOUS
    <3>1. CASE i = pos
      BY <1>2, <1>3, <2>1, <3>1
    <3>2. CASE i # pos
      <4>1. i \in 1..(pos - 1)
        BY <1>2, <3>2
      <4>2. buf'[i] = buf[i]
        BY <2>1, <3>2
      <4> QED
        BY <1>2, <4>1, <4>2 DEF Held
    <3> QED
      BY <3>1, <3>2
  <2> QED
    BY <1>1, <2>1, <2>2 DEF Held, Place, Reg
<1>5. slave'.ptr = Place(pos - 1)'
  BY <1>1, <1>2 DEF Place, Reg
<1>6. ret' # 1 /\ ret' # 2
  BY <1>1 DEF Machine, Control, Course, Stopping
<1> QED
  BY <1>1, <1>4, <1>5, <1>6
  DEF Through, Starting, Sending, Acked, Restarting, Reading, AckGiving

\* An acknowledge moves the pointer on by one.
LEMMA ThroughSendAck ==
    ASSUME Machine, InStep, Through, ~late', SendAck
    PROVE  Through'
<1>2. UNCHANGED <<msgs, leg, pos, buf, ret>> /\ pc \in AckGiving \ {"k_done"}
  BY DEF SendAck, Write, Await, Goto, byteVars, msgVars, AckGiving
<1>3. pos \in Nat \ {0} /\ Reg \in Nat /\ ret = 0
  <2>1. Reg \in Bytes
    BY <1>2, MsgIs DEF AckGiving, Machine, Control, Reg
  <2> QED
    BY <1>2, <2>1, MsgIs, BytesAre DEF AckGiving, Machine, Control, MasterTyped,
         Course, Stopping
<1>4. CASE Write("k_low", "k_done", sda, 0)
  <2>1. /\ pc' = "k_done" /\ slave'.regs = slave.regs
        /\ Remaining > 0 => slave'.ptr = NextReg(slave.ptr)
    BY <1>4, NextPrepared
  <2>2. slave.ptr = Place(pos - 1) /\ Held(pos)
    BY <1>2 DEF Through
  <2>3. NextReg(Place(pos - 1)) = Place(pos)
    <3>1. pos - 1 \in Nat /\ (pos - 1) + 1 = pos
      BY <1>3
    <3> QED
      BY <1>3, <3>1, NextPlace DEF Place
  <2>4. Held(pos)' /\ Place(pos)' = Place(pos) /\ Remaining' = Remaining
    BY <1>2, <2>1, <2>2 DEF Held, Place, Reg, Remaining, Msg
  <2> QED
    BY <1>2, <1>3, <2>1, <2>2, <2>3, <2>4
    DEF Through, Starting, Sending, Acked, Restarting, Reading, AckGiving
<1>5. CASE ~Write("k_low", "k_done", sda, 0)
  <2>1. pc \notin {"a_low", "k_low"} /\ pc' \in AckGiving \ {"k_done"}
    BY <1>5 DEF SendAck, Write, Await, Goto, AckGiving
  <2>2. Kept
    BY <2>1, KeptOfStep DEF Transfer
  <2> QED
    BY <1>2, <2>1, <2>2, ThroughWithin
<1> QED
  BY <1>4, <1>5

\* After the last byte the whole block has been read.
LEMMA ThroughBytesRead ==
    ASSUME Machine, InStep, Through, ~late', BytesRead
    PROVE  Through'
<1>1. /\ pc = "k_done" /\ leg = 2 /\ Len(msgs) = 2 /\ pos \in Nat /\ ret = 0
      /\ bit = 0 /\ val = 0 /\ Held(pos) /\ msgs[2].len \in Nat
  <2>1. pc = "k_done"
    BY DEF BytesRead, Goto, Machine, Control, Course
  <2> QED
    BY <2>1, MsgIs DEF Machine, Control, MasterTyped, Course, BitsCounted,
         AckGiving, Stopping, Through
<1>2. /\ slave' = slave /\ UNCHANGED <<bit, val, buf, msgs>>
      /\ Reg' = Reg /\ \A n \in Int : Place(n)' = Place(n) /\ Held(n)' = Held(n)
  <2>1. slave' = slave /\ UNCHANGED <<bit, val, buf, msgs>>
    BY DEF BytesRead, pinVars, byteVars, Fail, NextByte, MessageEnds, msgVars
  <2> QED
    BY <2>1, HeldKept DEF Kept
<1>3. CASE Goto("k_done", "r_sda") /\ Remaining > 0 /\ NextByte
  <2>1. pos' = pos + 1 /\ pos' - 1 = pos /\ leg' = 2 /\ ret' = 0 /\ pc' = "r_sda"
    BY <1>1, <1>3 DEF Goto, NextByte
  <2>2. slave.ptr = Place(pos)
    BY <1>1, <1>3 DEF Through
  <2>3. slave'.ptr = Place(pos - 1)' /\ Held(pos - 1)'
    BY <1>1, <1>2, <2>1, <2>2 DEF Place, Held
  <2>4. val' = Prefix(slave'.regs[slave'.ptr], bit')
    <3>1. slave.regs[slave.ptr] \in Bytes
      BY DevicesAre DEF Machine, LineTyped
    <3>2. Prefix(slave.regs[slave.ptr], 0) = 0
      BY <3>1, PrefixIs
    <3> QED
      BY <1>1, <1>2, <3>2
  <2> QED
    BY <2>1, <2>3, <2>4
    DEF Through, Starting, Sending, Acked, Restarting, Reading, AckGiving, Prefix
<1>4. CASE pc = "k_done" /\ Remaining = 0 /\ MessageEnds
  <2>1. pc' = "stop_sda" /\ ret' = 2 /\ pos = msgs[2].len
    BY <1>1, <1>4 DEF MessageEnds, Remaining, Msg
  <2>2. Held(msgs[2].len)'
    BY <1>1, <1>2, <2>1 DEF Held
  <2> QED
    BY <2>1, <2>2
    DEF Through, Starting, Sending, Acked, Restarting, Reading, AckGiving
<1> QED
  BY <1>1, <1>3, <1>4 DEF BytesRead, Goto

\* A device that lets go of the clock keeps its registers.
LEMMA ThroughRelease ==
    ASSUME Machine, InStep, Through, Release
    PROVE  Through'
<1>1. Kept
  BY KeptByRelease
<1>2. UNCHANGED <<msgs, leg, pos, buf, ret, bit, val, pc>>
  BY DEF Release, byteVars, msgVars
<1> QED
  BY <1>1, <1>2, ThroughWithin

DataInv == started /\ ~late => Through

\* The invariant about the data is inductive, given that of the bus.
LEMMA DataInvOfStep ==
    ASSUME Machine, BusInv, DataInv, [Next]_vars
    PROVE  DataInv'
<1>1. CASE Next
  <2> SUFFICES ASSUME started', ~late' PROVE Through'
    BY DEF DataInv
  <2>1. ~late /\ (started \/ Start) /\ ~Return
    BY <1>1, StartedBefore
  <2>2. CASE Start
    BY <2>1, <2>2, ThroughStart DEF BusInv, DataInv
  <2>3. CASE \E x \in Calls : Call(x)
    BY <2>1, <2>3 DEF Call, Goto, pinVars, Machine, Control, Course
  <2>4. CASE ~Start
    BY <1>1, <2>1, <2>3, <2>4, ThroughWriteByte, ThroughWaitAck, ThroughByteWritten,
         ThroughRestart,
       ThroughStop, ThroughReadByte, ThroughByteRead, ThroughSendAck,
       ThroughBytesRead, ThroughRelease
    DEF Next, Transfer, BusInv, DataInv
  <2> QED
    BY <2>2, <2>4
<1>2. CASE UNCHANGED vars
  <2> SUFFICES ASSUME started, ~late, Through PROVE Through'
    BY <1>2 DEF DataInv, vars, pinVars
  <2>1. Kept /\ UNCHANGED <<msgs, leg, pos, buf, ret, bit, val, pc>>
    BY <1>2 DEF vars, pinVars, byteVars, msgVars, Kept
  <2> QED
    BY <2>1, ThroughWithin
<1> QED
  BY <1>1, <1>2

-----------------------------------------------------------------------------
(***************************************************************************)
(* The refinement.                                                         *)
(***************************************************************************)
\* The state of RegisterTransfer that this one stands for.
CallNow == IF pc = "idle" THEN [op |-> "none"] ELSE Asked(msgs)
DisturbedNow == pc \notin {"idle", "start_sda"} /\ (late \/ ~started)
AnswerNow == IF pc # "done" THEN [status |-> "none", data |-> <<>>]
             ELSE IF ret > 0 THEN [status |-> "done", data |-> buf]
             ELSE [status |-> "failed", data |-> <<>>]

\* What is asked for.
LEMMA AskedIs ==
    ASSUME MasterTyped, Course, pc # "idle"
    PROVE  /\ Asked(msgs).op # "none" /\ Asked(msgs) # [op |-> "none"]
           /\ Len(msgs) = 1 => /\ Asked(msgs).op = "write" /\ Asked(msgs).reg = Reg
                               /\ Asked(msgs).data = msgs[1].buf[2]
           /\ Len(msgs) = 2 => /\ Asked(msgs).op = "read" /\ Asked(msgs).reg = Reg
                               /\ Asked(msgs).size = msgs[2].len
<1>1. Len(msgs) = 1 \/ Len(msgs) = 2
  BY MsgIs
<1>2. CASE Len(msgs) = 1
  BY <1>2 DEF Asked, Reg
<1>3. CASE Len(msgs) = 2
  BY <1>3 DEF Asked, Reg
<1> QED
  BY <1>1, <1>2, <1>3

\* The bytes read are the block that was asked for.
LEMMA HeldIsBlock ==
    ASSUME Machine, pc # "idle", Len(msgs) = 2, Held(msgs[2].len)
    PROVE  buf = RT!Block(Asked(msgs).reg, Asked(msgs).size)
<1> DEFINE n == 2^Bits
           size == msgs[2].len
<1>1. n \in Nat \ {0} /\ Reg \in 0..(n - 1) /\ size \in 1..n /\ Bytes = 0..(n - 1)
  <2>1. msgs \in Calls
    BY MsgIs DEF Machine, Control
  <2> QED
    BY <2>1, CallsAre, PowerPositive, DevicesAre DEF Reg, Bytes
<1>2. RT!Cardinality(Bytes) = n
  <2>1. 0 \in Int /\ n - 1 \in Int
    BY <1>1
  <2>2. Cardinality(0..(n - 1)) = IF 0 > n - 1 THEN 0 ELSE (n - 1) - 0 + 1
    BY <2>1, FS_Interval
  <2>3. RT!Cardinality(Bytes) = Cardinality(Bytes)
    BY DEF RT!Cardinality, Cardinality
  <2> HIDE DEF n
  <2> QED
    BY <1>1, <2>2, <2>3
<1>3. buf = [i \in 1..size |-> buf[i]]
  <2>1. buf \in Seq(Bytes) /\ Len(buf) = size
    BY DEF Machine, Control, MasterTyped, Held
  <2> QED
    BY <2>1
<1>4. ASSUME NEW i \in 1..size
      PROVE  buf[i] = slave.regs[IF Reg + i - 1 \in Bytes THEN Reg + i - 1
                                 ELSE (Reg + i - 1) - RT!Cardinality(Bytes)]
  <2> DEFINE r == Reg + i - 1
  <2>1. buf[i] = slave.regs[(Reg + (i - 1)) % n]
    BY DEF Held, Place
  <2>2. Reg + (i - 1) = r /\ r \in 0..(2 * n - 1)
    BY <1>1
  <2>3. r % n = IF r \in 0..(n - 1) THEN r ELSE r - n
    <3> HIDE DEF n, size, r
    <3>1. CASE r \in 0..(n - 1)
      <4>1. r = n * 0 + r /\ r \in Nat
        BY <1>1, <3>1
      <4> QED
        BY <1>1, <3>1, <4>1, Remainder
    <3>2. CASE r \notin 0..(n - 1)
      <4>1. r = n * 1 + (r - n) /\ r - n \in 0..(n - 1) /\ r \in Nat
        BY <1>1, <2>2, <3>2
      <4>2. r % n = r - n
        BY <1>1, <4>1, Remainder
      <4> QED
        BY <3>2, <4>2
    <3> QED
      BY <3>1, <3>2
  <2> HIDE DEF n, r
  <2>4. buf[i] = slave.regs[IF r \in Bytes THEN r ELSE r - RT!Cardinality(Bytes)]
    BY <1>1, <1>2, <2>1, <2>2, <2>3
  <2> QED
    BY <2>4 DEF r
<1>5. Asked(msgs).reg = Reg /\ Asked(msgs).size = size
  BY AskedIs DEF Machine, Control
<1> HIDE DEF size
<1>6. RT!Block(Reg, size) =
        [i \in 1..size |-> slave.regs[IF Reg + i - 1 \in Bytes THEN Reg + i - 1
                                      ELSE (Reg + i - 1) - RT!Cardinality(Bytes)]]
  BY DEF RT!Block
<1>7. buf = RT!Block(Reg, size)
  BY <1>3, <1>4, <1>6, Zenon
<1> QED
  BY <1>5, <1>7

-----------------------------------------------------------------------------

\* Who goes where: the calls, the returns, and what happens in between.
LEMMA Between ==
    ASSUME Machine, Transfer, ~Return
    PROVE  /\ pc \notin {"idle", "done"} /\ pc' \notin {"idle", "start_sda"} /\ msgs' = msgs
           /\ pc' = "done" => Write("stop_end", "done", 1, scl)
<1> USE DEF Write, Await, Goto, msgVars, byteVars
<1>1. CASE Start
  BY <1>1 DEF Start
<1>2. CASE WriteByte
  BY <1>2 DEF WriteByte, BitThrough
<1>3. CASE WaitAck
  BY <1>3 DEF WaitAck
<1>4. CASE ByteWritten
  BY <1>4 DEF ByteWritten, Fail, NextByte, MessageEnds
<1>5. CASE Restart
  BY <1>5 DEF Restart
<1>6. CASE ReadByte
  BY <1>6 DEF ReadByte, GetBit
<1>7. CASE ByteRead
  BY <1>7 DEF ByteRead
<1>8. CASE SendAck
  BY <1>8 DEF SendAck
<1>9. CASE BytesRead
  BY <1>9 DEF BytesRead, Fail, NextByte, MessageEnds
<1>10. CASE Stop
  BY <1>10 DEF Stop
<1> QED
  BY <1>1, <1>2, <1>3, <1>4, <1>5, <1>6, <1>7, <1>8, <1>9, <1>10 DEF Transfer

\* Only the last byte of a write changes a register.
LEMMA RegistersOfStep ==
    ASSUME Machine, InStep, Through, ~late', Transfer
    PROVE  \/ slave'.regs = slave.regs
           \/ /\ pc = "a_low" /\ Len(msgs) = 1
              /\ slave'.regs = [slave.regs EXCEPT ![Reg] = msgs[1].buf[2]]
<1>1. CASE pc \notin {"a_low", "k_low"}
  BY <1>1, KeptOfStep DEF Kept
<1>2. CASE pc = "k_low"
  <2>1. Write("k_low", "k_done", sda, 0)
    BY <1>2 DEF Transfer, Start, WriteByte, WaitAck, ByteWritten, Restart, ReadByte,
         GetBit, ByteRead,
                SendAck, BytesRead, Stop, Return, Write, Await, Goto
  <2> QED
    BY <2>1, NextPrepared
<1>3. CASE pc = "a_low"
  <2>1. Write("a_low", "w_done", sda, 0)
    BY <1>3 DEF Transfer, Start, WriteByte, WaitAck, ByteWritten, Restart, ReadByte,
         GetBit, ByteRead,
                SendAck, BytesRead, Stop, Return, Write, Await, Goto
  <2>2. ByteCounts
    BY <2>1, ByteTaken
  <2>3. pos = 2 => /\ slave.ptr = Reg /\ ByteOut = msgs[1].buf[2] /\ Len(msgs) = 1
    BY <1>3, MsgIs DEF Through, Machine, Control, MasterTyped, Course, Acked,
         ByteOut, Msg
  <2> QED
    BY <1>3, <2>2, <2>3 DEF ByteCounts, Kept
<1> QED
  BY <1>1, <1>2, <1>3

\* A call is disturbed by its missed start, or by a wait that is given up.
LEMMA LateOfStep ==
    ASSUME Transfer, ~Return
    PROVE  \/ late' = late
           \/ late' = TRUE /\ pc' # "done" /\ slave' = slave /\ started' = started
<1> USE DEF Write, Await, Goto, pinVars
<1>1. CASE WriteByte
  BY <1>1 DEF WriteByte
<1>2. CASE WaitAck
  BY <1>2 DEF WaitAck
<1>3. CASE Restart
  BY <1>3 DEF Restart
<1>4. CASE ReadByte
  BY <1>4 DEF ReadByte, GetBit
<1>5. CASE SendAck
  BY <1>5 DEF SendAck
<1>6. CASE Stop
  BY <1>6 DEF Stop
<1>7. CASE Start \/ ByteWritten \/ ByteRead \/ BytesRead
  BY <1>7 DEF Start, ByteWritten, ByteRead, BytesRead
<1> QED
  BY <1>1, <1>2, <1>3, <1>4, <1>5, <1>6, <1>7 DEF Transfer

\* Only the start condition can be missed.
LEMMA StartedOfStep ==
    ASSUME Transfer, ~Return, pc # "start_sda"
    PROVE  started' <=> started
<1> USE DEF Write, Await, pinVars
<1>0. \A d, c : Pins(d, c) => (started' <=> started)
  <2> SUFFICES ASSUME NEW d, NEW c, Pins(d, c) PROVE started' <=> started
    OBVIOUS
  <2>1. started' = (started \/ (pc = "start_sda" /\ Sda(sda, slave) = 1
                               /\ Scl(scl, slave) = 1))
    BY DEF Pins
  <2> QED
    BY <2>1
<1>1. CASE WriteByte
  BY <1>0, <1>1 DEF WriteByte
<1>2. CASE WaitAck
  BY <1>0, <1>2 DEF WaitAck
<1>3. CASE Restart
  BY <1>0, <1>3 DEF Restart
<1>4. CASE ReadByte
  BY <1>0, <1>4 DEF ReadByte, GetBit
<1>5. CASE SendAck
  BY <1>0, <1>5 DEF SendAck
<1>6. CASE Stop
  BY <1>0, <1>6 DEF Stop
<1>7. CASE Start \/ ByteWritten \/ ByteRead \/ BytesRead
  BY <1>0, <1>7 DEF Start, ByteWritten, ByteRead, BytesRead
<1> QED
  BY <1>1, <1>2, <1>3, <1>4, <1>5, <1>6, <1>7 DEF Transfer

\* What RegisterTransfer sees, named.
LEMMA RTSteps ==
    ASSUME \/ UNCHANGED <<slave.regs, CallNow, DisturbedNow, AnswerNow>>
           \/ /\ CallNow = [op |-> "none"] /\ CallNow' \in {Asked(x) : x \in Calls}
              /\ UNCHANGED <<slave.regs, DisturbedNow, AnswerNow>>
           \/ /\ CallNow # [op |-> "none"] /\ AnswerNow = [status |-> "none", data |-> <<>>]
              /\ CallNow' = CallNow
              /\ \/ DisturbedNow' = TRUE /\ UNCHANGED <<slave.regs, AnswerNow>>
                 \/ /\ UNCHANGED <<DisturbedNow, AnswerNow>>
                    /\ \/ /\ CallNow.op = "write"
                          /\ slave'.regs = [slave.regs EXCEPT ![CallNow.reg] = CallNow.data]
                       \/ DisturbedNow /\ slave'.regs \in [Bytes -> Bytes]
                 \/ /\ UNCHANGED <<slave.regs, DisturbedNow>>
                    /\ \/ AnswerNow' = [status |-> "failed", data |-> <<>>]
                       \/ /\ AnswerNow' \in [status : {"done"}, data : Seq(Bytes)]
                          /\ \/ DisturbedNow
                             \/ CallNow.op = "write" /\ slave.regs[CallNow.reg] = CallNow.data
                             \/ /\ CallNow.op = "read"
                                /\ AnswerNow'.data = RT!Block(CallNow.reg, CallNow.size)
           \/ /\ AnswerNow # [status |-> "none", data |-> <<>>]
              /\ CallNow' = [op |-> "none"] /\ DisturbedNow' = FALSE
              /\ AnswerNow' = [status |-> "none", data |-> <<>>]
              /\ slave'.regs = slave.regs
    PROVE  [RT!Next]_RT!vars
BY DEF RT!Next, RT!vars, RT!Begin, RT!Disturb, RT!Take, RT!Fail, RT!Succeed, RT!Return,
       RT!Pending, RT!NoCall, RT!NoAnswer, CallNow, DisturbedNow, AnswerNow

\* Before a call returns.
NoAnswer == [status |-> "none", data |-> <<>>]

\* Every step inside a transfer is a step of RegisterTransfer, or none.
LEMMA TransferRefines ==
    ASSUME Machine, BusInv, DataInv, LineTyped', Transfer, ~Return
    PROVE  [RT!Next]_RT!vars
<1>1. /\ pc \notin {"idle", "done"} /\ pc' \notin {"idle", "start_sda"} /\ msgs' = msgs
      /\ pc' = "done" => Write("stop_end", "done", 1, scl)
  BY Between
<1>2. /\ CallNow # [op |-> "none"] /\ CallNow' = CallNow /\ CallNow = Asked(msgs)
      /\ AnswerNow = NoAnswer
  BY <1>1, AskedIs DEF CallNow, AnswerNow, NoAnswer, Machine, Control
<1>3. slave'.regs \in [Bytes -> Bytes]
  BY DevicesAre DEF LineTyped
<1>4. CASE pc' = "done"
  <2>1. pc = "stop_end" /\ UNCHANGED <<late, buf, ret>>
    BY <1>1, <1>4 DEF Write, Goto, byteVars, msgVars
  <2>2. slave'.regs = slave.regs
    <3>1. scl \in Bit /\ 1 \in Bit
      BY DevicesAre DEF Machine, LineTyped
    <3>2. Kept
      BY <1>1, <1>4, <3>1, KeptByWrite DEF Bit
    <3> QED
      BY <3>2 DEF Kept
  <2>3. DisturbedNow' = DisturbedNow
    <3>1. started' <=> started
      BY <2>1, StartedOfStep
    <3> QED
      BY <1>4, <2>1, <3>1 DEF DisturbedNow
  <2>4. CASE ~(ret > 0)
    <3>1. AnswerNow' = [status |-> "failed", data |-> <<>>]
      BY <1>4, <2>1, <2>4 DEF AnswerNow
    <3> QED
      BY <1>2, <2>2, <2>3, <3>1, RTSteps DEF NoAnswer
  <2>5. CASE ret > 0
    <3>1. AnswerNow' = [status |-> "done", data |-> buf]
      BY <1>4, <2>1, <2>5 DEF AnswerNow
    <3>2. AnswerNow' \in [status : {"done"}, data : Seq(Bytes)] /\ AnswerNow'.data = buf
      BY <3>1 DEF Machine, Control, MasterTyped
    <3>3. \/ DisturbedNow
          \/ CallNow.op = "write" /\ slave.regs[CallNow.reg] = CallNow.data
          \/ CallNow.op = "read" /\ AnswerNow'.data = RT!Block(CallNow.reg, CallNow.size)
      <4> SUFFICES ASSUME ~DisturbedNow
                   PROVE  \/ CallNow.op = "write" /\ slave.regs[CallNow.reg] = CallNow.data
                          \/ /\ CallNow.op = "read"
                             /\ AnswerNow'.data = RT!Block(CallNow.reg, CallNow.size)
        OBVIOUS
      <4>1. Through /\ ret = Len(msgs) /\ Len(msgs) \in {1, 2}
        BY <1>1, <2>1, <2>5, MsgIs DEF DisturbedNow, DataInv, Machine, Control, Course
      <4>2. CASE Len(msgs) = 1
        BY <1>1, <1>2, <4>1, <4>2, AskedIs DEF Through, Machine, Control
      <4>3. CASE Len(msgs) = 2
        <5>1. Held(msgs[2].len)
          BY <4>1, <4>3 DEF Through
        <5> QED
          BY <1>1, <1>2, <3>2, <4>3, <5>1, AskedIs, HeldIsBlock DEF Machine, Control
      <4> QED
        BY <4>1, <4>2, <4>3
    <3> QED
      BY <1>2, <2>2, <2>3, <3>2, <3>3, RTSteps DEF NoAnswer
  <2> QED
    BY <2>4, <2>5
<1>5. CASE pc = "start_sda"
  <2>1. Write("start_sda", "start_scl", 0, scl)
    BY <1>5 DEF Transfer, Start, WriteByte, WaitAck, ByteWritten, Restart, ReadByte,
         GetBit, ByteRead,
                SendAck, BytesRead, Stop, Return, Write, Await, Goto
  <2>2. slave'.regs = slave.regs
    <3>1. scl \in Bit /\ 0 \in Bit
      BY DevicesAre DEF Machine, LineTyped
    <3>2. Kept
      BY <2>1, <3>1, KeptByWrite DEF Bit
    <3> QED
      BY <3>2 DEF Kept
  <2>3. AnswerNow' = NoAnswer
    BY <2>1 DEF AnswerNow, NoAnswer, Write, Goto
  <2>4. DisturbedNow = FALSE /\ DisturbedNow' \in BOOLEAN
    BY <1>5 DEF DisturbedNow
  <2>5. CASE DisturbedNow' = TRUE
    BY <1>2, <2>2, <2>3, <2>5, RTSteps DEF NoAnswer
  <2>6. CASE DisturbedNow' = FALSE
    BY <1>2, <2>2, <2>3, <2>4, <2>6, RTSteps DEF NoAnswer
  <2> QED
    BY <2>4, <2>5, <2>6
<1>6. CASE pc' # "done" /\ pc # "start_sda"
  <2>1. AnswerNow' = NoAnswer
    BY <1>6 DEF AnswerNow, NoAnswer
  <2>2. started' <=> started
    BY <1>6, StartedOfStep
  <2>3. CASE late' = TRUE /\ slave' = slave
    <3>1. DisturbedNow' = TRUE
      BY <1>1, <2>3 DEF DisturbedNow
    <3> QED
      BY <1>2, <2>1, <2>3, <3>1, RTSteps DEF NoAnswer
  <2>4. CASE late' = late
    <3>1. DisturbedNow' = DisturbedNow
      BY <1>1, <1>6, <2>2, <2>4 DEF DisturbedNow
    <3>2. CASE slave'.regs = slave.regs
      BY <1>2, <2>1, <3>1, <3>2, RTSteps DEF NoAnswer
    <3>3. CASE DisturbedNow
      BY <1>2, <1>3, <2>1, <3>1, <3>3, RTSteps DEF NoAnswer
    <3>4. CASE ~DisturbedNow /\ slave'.regs # slave.regs
      <4>1. InStep /\ Through /\ ~late'
        BY <1>1, <1>6, <2>4, <3>4 DEF DisturbedNow, BusInv, DataInv
      <4>2. Len(msgs) = 1 /\ slave'.regs = [slave.regs EXCEPT ![Reg] = msgs[1].buf[2]]
        BY <3>4, <4>1, RegistersOfStep
      <4>3. CallNow.op = "write" /\ CallNow.reg = Reg /\ CallNow.data = msgs[1].buf[2]
        BY <1>1, <1>2, <4>2, AskedIs DEF Machine, Control
      <4>4. slave'.regs = [slave.regs EXCEPT ![CallNow.reg] = CallNow.data]
        BY <4>2, <4>3
      <4> QED
        BY <1>2, <2>1, <3>1, <4>3, <4>4, RTSteps DEF NoAnswer
    <3> QED
      BY <3>2, <3>3, <3>4
  <2> QED
    BY <2>3, <2>4, LateOfStep
<1> QED
  BY <1>4, <1>5, <1>6

\* So is every step.
LEMMA StepRefines ==
    ASSUME Machine, BusInv, DataInv, Machine', [Next]_vars
    PROVE  [RT!Next]_RT!vars
<1>1. CASE \E x \in Calls : Call(x)
  <2>1. PICK x \in Calls : Call(x)
    BY <1>1
  <2>2. /\ CallNow = [op |-> "none"] /\ CallNow' = Asked(x)
        /\ UNCHANGED <<slave.regs, AnswerNow>>
    BY <2>1 DEF Call, Goto, pinVars, CallNow, AnswerNow, Asked
  <2>3. DisturbedNow' = DisturbedNow
    BY <2>1 DEF Call, Goto, DisturbedNow
  <2> QED
    BY <2>2, <2>3, RTSteps
<1>2. CASE Return
  <2>1. /\ AnswerNow # [status |-> "none", data |-> <<>>]
        /\ CallNow' = [op |-> "none"] /\ slave'.regs = slave.regs
        /\ AnswerNow' = [status |-> "none", data |-> <<>>]
    BY <1>2 DEF Return, Goto, CallNow, AnswerNow
  <2>2. DisturbedNow' = FALSE
    BY <1>2 DEF Return, Goto, DisturbedNow
  <2> QED
    BY <2>1, <2>2, RTSteps
<1>3. CASE Transfer /\ ~Return
  BY <1>3, TransferRefines DEF Machine
<1>4. CASE Release \/ UNCHANGED vars
  <2>1. UNCHANGED <<pc, msgs, ret, buf, started, late>>
    BY <1>4 DEF Release, vars, pinVars, byteVars, msgVars
  <2>2. slave'.regs = slave.regs
    BY <1>4, KeptByRelease DEF vars, pinVars, Kept
  <2>3. UNCHANGED <<CallNow, DisturbedNow, AnswerNow>>
    BY <2>1 DEF CallNow, DisturbedNow, AnswerNow, Asked
  <2> QED
    BY <2>2, <2>3, RTSteps
<1> QED
  BY <1>1, <1>2, <1>3, <1>4 DEF Next

(***************************************************************************)
(* The bus master implements RegisterTransfer: an undisturbed write that   *)
(* is reported as done is in its register, an undisturbed read returns the *)
(* registers asked for in their order, and no undisturbed call changes any *)
(* other register (rt_soft_i2c_master_xfer, rt_mpu6050_write_reg,          *)
(* rt_mpu6050_read_reg).                                                   *)
(***************************************************************************)
THEOREM TransferImplemented == Spec => ImplementsTransfer
<1>1. Init => Machine /\ BusInv /\ DataInv
  BY BusInvAtInit DEF Init, DataInv
<1>2. (Machine /\ BusInv /\ DataInv) /\ [Next]_vars => (Machine /\ BusInv /\ DataInv)'
  BY BusInvOfStep, DataInvOfStep
<1>3. Init => RT!Init
  <2> SUFFICES ASSUME Init PROVE RT!Init
    OBVIOUS
  <2>1. slave.regs \in [Bytes -> Bytes]
    BY BusInvAtInit, DevicesAre DEF Machine, LineTyped
  <2>2. pc = "idle"
    BY DEF Init
  <2> QED
    BY <2>1, <2>2 DEF RT!Init, RT!NoCall, RT!NoAnswer
<1>4. (Machine /\ BusInv /\ DataInv) /\ (Machine /\ BusInv /\ DataInv)' /\ [Next]_vars => [RT!Next]_RT!vars
  BY StepRefines
<1> QED
  BY <1>1, <1>2, <1>3, <1>4, PTL DEF Spec, ImplementsTransfer, RT!Spec

=============================================================================
