-------------------------- MODULE RemotePage_proof --------------------------
(***************************************************************************)
(* The mini program's page, for any cars in range and any number of        *)
(* presses, taps and switches: types, discovery started once, and commands *)
(* that go to the car the page names.                                      *)
(***************************************************************************)
EXTENDS RemotePage, TLAPS

\* The steps by the variables they can change: what the rest leaves alone.
DiscoveryStep == \/ OpenSucceeds \/ OpenFails \/ DiscoverySucceeds \/ DiscoveryFails
                 \/ openBluetoothAdapter
ConnectionStep(c) == \/ Tap(c) \/ Connects(c) \/ ConnectFails(c)
                     \/ GetsServices(c) \/ GetsCharacteristics(c) \/ GetFails(c)
PhoneStep == SwitchOn \/ SwitchOff \/ \E c \in Cars : Found(c) \/ Breaks(c)

LEMMA NextByKind ==
    Next <=> DiscoveryStep \/ PhoneStep \/ \E c \in Cars : ConnectionStep(c)
BY Zenon DEF Next, Callback, DiscoveryStep, PhoneStep, ConnectionStep

LEMMA DiscoveryStepFrame ==
    ASSUME DiscoveryStep
    PROVE  UNCHANGED <<on, reported, links, callVars, deviceId, _deviceId>>
BY DEF DiscoveryStep, OpenSucceeds, OpenFails, DiscoverySucceeds, DiscoveryFails,
       openBluetoothAdapter, phoneVars, callVars, linkVars

LEMMA ConnectionStepFrame ==
    ASSUME NEW c \in Cars, ConnectionStep(c)
    PROVE  UNCHANGED <<scanVars, devices, on, scanning, reported, presses, switches>>
BY DEF ConnectionStep, Tap, Connects, ConnectFails, GetsServices,
       GetsCharacteristics, GetFails, Answer, phoneVars, bounds

LEMMA PhoneStepFrame ==
    ASSUME PhoneStep
    PROVE  /\ UNCHANGED <<scanVars, callVars, linkVars, presses, taps>>
           /\ links' \subseteq links
BY DEF PhoneStep, SwitchOn, SwitchOff, Found, Breaks, bounds

-----------------------------------------------------------------------------
(***************************************************************************)
(* Discovery.  Before the flag is set nothing is started or registered;    *)
(* afterwards the one start either becomes the one listener or is lost.    *)
(***************************************************************************)
DiscoveryInv ==
    /\ starts \in Nat /\ finders \in Nat
    /\ ~_discoveryStarted => starts + finders = 0
    /\ DiscoveryOnce

LEMMA NextKeepsDiscovery == DiscoveryInv /\ [Next]_vars => DiscoveryInv'
<1> SUFFICES ASSUME DiscoveryInv, [Next]_vars PROVE DiscoveryInv'
  OBVIOUS
<1> USE DEF DiscoveryInv, DiscoveryOnce
<1>1. ASSUME UNCHANGED <<starts, finders, _discoveryStarted>> PROVE DiscoveryInv'
  BY <1>1
<1>2. CASE OpenSucceeds
  BY <1>2 DEF OpenSucceeds, startBluetoothDevicesDiscovery
<1>3. CASE OpenFails \/ openBluetoothAdapter
  BY <1>1, <1>3 DEF OpenFails, openBluetoothAdapter
<1>4. CASE DiscoverySucceeds
  BY <1>4 DEF DiscoverySucceeds
<1>5. CASE DiscoveryFails
  BY <1>5 DEF DiscoveryFails
<1>6. CASE PhoneStep
  BY <1>1, <1>6, PhoneStepFrame DEF scanVars
<1>7. ASSUME NEW c \in Cars, ConnectionStep(c) PROVE DiscoveryInv'
  BY <1>1, <1>7, ConnectionStepFrame DEF scanVars
<1>8. CASE UNCHANGED vars
  BY <1>1, <1>8 DEF vars, scanVars
<1> QED
  BY <1>2, <1>3, <1>4, <1>5, <1>6, <1>7, <1>8, NextByKind DEF DiscoveryStep

(***************************************************************************)
(* Discovery is started once and its listener registered once, whatever    *)
(* the order of presses and answers.                                       *)
(***************************************************************************)
THEOREM DiscoveryOnceCorrect == Spec => []DiscoveryOnce
<1>1. Init => DiscoveryInv
  BY DEF Init, DiscoveryInv, DiscoveryOnce
<1>2. DiscoveryInv => DiscoveryOnce
  BY DEF DiscoveryInv
<1> QED
  BY <1>1, <1>2, NextKeepsDiscovery, PTL DEF Spec

-----------------------------------------------------------------------------
(***************************************************************************)
(* Connection.  Without a race all calls under way are of one car, and     *)
(* once it is connected it is the one the page names; until the target is  *)
(* that car, and unless the link breaks, there is a call that will see to  *)
(* it.                                                                     *)
(***************************************************************************)
SteerInv ==
    ~raced =>
      /\ \A p, q \in pending : p.car = q.car
      /\ \A p \in pending : p.call # "connect" => p.car = deviceId
      /\ deviceId \in links /\ deviceId # _deviceId =>
           \E p \in pending : p.call # "connect"

LEMMA AnswerChanges ==
    ASSUME NEW call, NEW c, NEW next, Answer(call, c, next)
    PROVE  /\ Ask(call, c) \in pending
           /\ Ask(call, c).call = call /\ Ask(call, c).car = c
           /\ pending' = (pending \ {Ask(call, c)}) \cup next
           /\ UNCHANGED raced
BY DEF Answer, Ask

LEMMA NextKeepsSteer == SteerInv /\ [Next]_vars => SteerInv'
<1> SUFFICES ASSUME SteerInv, [Next]_vars PROVE SteerInv'
  OBVIOUS
<1> USE DEF SteerInv
<1>1. ASSUME UNCHANGED <<pending, raced, deviceId, _deviceId>>,
             links' \subseteq links
      PROVE  SteerInv'
  BY <1>1
<1>2. ASSUME NEW c \in Cars, ConnectionStep(c) PROVE SteerInv'
  <2>1. CASE Tap(c)
    <3>1. Ask("connect", c).call = "connect" /\ Ask("connect", c).car = c
      BY DEF Ask
    <3>2. UNCHANGED <<links, deviceId, _deviceId>>
          /\ pending' = pending \cup {Ask("connect", c)}
          /\ (~raced' => ~raced /\ \A p \in pending : p.car = c)
      BY <2>1 DEF Tap, phoneVars, linkVars
    <3> HIDE DEF Ask
    <3> QED
      BY <3>1, <3>2
  <2>2. CASE Connects(c)
    <3>1. Answer("connect", c, {Ask("services", c)}) /\ deviceId' = c
      BY <2>2 DEF Connects
    <3>2. Ask("services", c).call = "services" /\ Ask("services", c).car = c
      BY DEF Ask
    <3> QED
      BY <3>1, <3>2, AnswerChanges
  <2>3. CASE ConnectFails(c)
    <3>1. Answer("connect", c, {}) /\ UNCHANGED <<links, deviceId, _deviceId>>
      BY <2>3 DEF ConnectFails, linkVars
    <3> QED
      BY <3>1, AnswerChanges
  <2>4. CASE GetsServices(c)
    <3>1. Answer("services", c, {Ask("characteristics", c)})
          /\ UNCHANGED <<links, deviceId, _deviceId>>
      BY <2>4 DEF GetsServices, linkVars
    <3>2. /\ Ask("characteristics", c).call = "characteristics"
          /\ Ask("characteristics", c).car = c
      BY DEF Ask
    <3> QED
      BY <3>1, <3>2, AnswerChanges
  <2>5. CASE GetsCharacteristics(c)
    <3>1. Answer("characteristics", c, {}) /\ _deviceId' = c
          /\ UNCHANGED <<links, deviceId>>
      BY <2>5 DEF GetsCharacteristics
    <3> QED
      BY <3>1, AnswerChanges
  <2>6. CASE GetFails(c)
    <3>1. /\ \/ Answer("services", c, {}) \/ Answer("characteristics", c, {})
          /\ c \notin links /\ UNCHANGED <<links, deviceId, _deviceId>>
      BY <2>6 DEF GetFails, linkVars
    <3> QED
      BY <3>1, AnswerChanges
  <2> QED
    BY <1>2, <2>1, <2>2, <2>3, <2>4, <2>5, <2>6 DEF ConnectionStep
<1>3. CASE DiscoveryStep
  BY <1>1, <1>3, DiscoveryStepFrame DEF callVars
<1>4. CASE PhoneStep
  BY <1>1, <1>4, PhoneStepFrame DEF callVars, linkVars
<1>5. CASE UNCHANGED vars
  BY <1>1, <1>5 DEF vars, phoneVars, callVars, linkVars
<1> QED
  BY <1>2, <1>3, <1>4, <1>5, NextByKind

(***************************************************************************)
(* Commands go to the car the page names, once nothing is under way, after *)
(* any history of connections in which no two raced.                       *)
(***************************************************************************)
THEOREM SteersTheNamedCorrect == Spec => []SteersTheNamed
<1>1. Init => SteerInv
  BY DEF Init, SteerInv
<1>2. SteerInv => SteersTheNamed
  BY DEF SteerInv, SteersTheNamed
<1> QED
  BY <1>1, <1>2, NextKeepsSteer, PTL DEF Spec

-----------------------------------------------------------------------------
(***************************************************************************)
(* Types.  Every open asked for belongs to a press of the scan button.     *)
(***************************************************************************)
Flags == /\ on \in BOOLEAN /\ scanning \in BOOLEAN
         /\ stateListener \in BOOLEAN /\ _discoveryStarted \in BOOLEAN
         /\ connected \in BOOLEAN /\ canWrite \in BOOLEAN /\ raced \in BOOLEAN
ScanTyped == /\ opens \in 0..presses /\ starts \in Nat /\ finders \in Nat
             /\ presses \in 0..MaxPresses
             /\ taps \in 0..MaxTaps /\ switches \in 0..MaxSwitches
CarsTyped == /\ links \subseteq Cars /\ reported \subseteq Cars
             /\ devices \subseteq Cars /\ pending \subseteq Calls
             /\ deviceId \in Cars \cup {NoCar} /\ _deviceId \in Cars \cup {NoCar}

LEMMA TypesTogether == Flags /\ ScanTyped /\ CarsTyped => TypeOK
<1>1. Flags => {connected, canWrite, raced} \subseteq BOOLEAN
  BY Zenon DEF Flags
<1>2. ScanTyped => opens \in 0..MaxPresses
  BY PageAssumption DEF PageAssumption, ScanTyped
<1> QED
  BY <1>1, <1>2, Zenon DEF TypeOK, Flags, ScanTyped, CarsTyped

LEMMA NextKeepsFlags == Flags /\ [Next]_vars => Flags'
<1> SUFFICES ASSUME Flags, [Next]_vars PROVE Flags'
  OBVIOUS
<1> USE DEF Flags, phoneVars, scanVars, callVars, linkVars
<1>1. CASE DiscoveryStep
  BY <1>1, Zenon DEF DiscoveryStep, OpenSucceeds, OpenFails, DiscoverySucceeds,
     DiscoveryFails, openBluetoothAdapter, startBluetoothDevicesDiscovery
<1>2. CASE PhoneStep
  BY <1>2, Zenon DEF PhoneStep, SwitchOn, SwitchOff, Found, Breaks
<1>3. ASSUME NEW c \in Cars, ConnectionStep(c) PROVE Flags'
  BY <1>3, Zenon DEF ConnectionStep, Tap, Connects, ConnectFails, GetsServices,
     GetsCharacteristics, GetFails, Answer
<1>4. CASE UNCHANGED vars
  BY <1>4, Zenon DEF vars
<1> HIDE DEF Flags
<1> QED
  BY <1>1, <1>2, <1>3, <1>4, NextByKind

LEMMA NextKeepsScan == ScanTyped /\ [Next]_vars => ScanTyped'
<1> SUFFICES ASSUME ScanTyped, [Next]_vars PROVE ScanTyped'
  OBVIOUS
<1> USE PageAssumption DEF PageAssumption, ScanTyped, scanVars, bounds
<1>1. CASE DiscoveryStep
  BY <1>1 DEF DiscoveryStep, OpenSucceeds, OpenFails, DiscoverySucceeds,
     DiscoveryFails, openBluetoothAdapter, startBluetoothDevicesDiscovery
<1>2. CASE PhoneStep
  BY <1>2 DEF PhoneStep, SwitchOn, SwitchOff, Found, Breaks
<1>3. ASSUME NEW c \in Cars, ConnectionStep(c) PROVE ScanTyped'
  BY <1>3 DEF ConnectionStep, Tap, Connects, ConnectFails, GetsServices,
     GetsCharacteristics, GetFails, Answer
<1>4. CASE UNCHANGED vars
  BY <1>4 DEF vars
<1> QED
  BY <1>1, <1>2, <1>3, <1>4, NextByKind

LEMMA NextKeepsCars == CarsTyped /\ [Next]_vars => CarsTyped'
<1> SUFFICES ASSUME CarsTyped, [Next]_vars PROVE CarsTyped'
  OBVIOUS
<1>1. \A c \in Cars, call \in {"connect", "services", "characteristics"} :
        Ask(call, c) \in Calls
  BY DEF Ask, Calls
<1> USE DEF CarsTyped, phoneVars, callVars, linkVars
<1>2. CASE DiscoveryStep
  BY <1>2 DEF DiscoveryStep, OpenSucceeds, OpenFails, DiscoverySucceeds,
     DiscoveryFails, openBluetoothAdapter
<1>3. CASE PhoneStep
  BY <1>3 DEF PhoneStep, SwitchOn, SwitchOff, Found, Breaks
<1>4. ASSUME NEW c \in Cars, ConnectionStep(c) PROVE CarsTyped'
  BY <1>1, <1>4 DEF ConnectionStep, Tap, Connects, ConnectFails, GetsServices,
     GetsCharacteristics, GetFails, Answer
<1>5. CASE UNCHANGED vars
  BY <1>5 DEF vars
<1> QED
  BY <1>2, <1>3, <1>4, <1>5, NextByKind

(***************************************************************************)
(* Every variable keeps its type; only cars in range are listed, connected *)
(* and steered, and there are no more opens than presses of the button.    *)
(***************************************************************************)
THEOREM TypeCorrect == Spec => []TypeOK
<1>1. Init => Flags
  BY Zenon DEF Init, Flags
<1>2. Init => ScanTyped /\ CarsTyped
  BY PageAssumption DEF PageAssumption, Init, ScanTyped, CarsTyped
<1>3. Flags /\ ScanTyped /\ CarsTyped /\ [Next]_vars
        => (Flags /\ ScanTyped /\ CarsTyped)'
  BY NextKeepsFlags, NextKeepsScan, NextKeepsCars
<1> QED
  BY <1>1, <1>2, <1>3, TypesTogether, PTL DEF Spec
=============================================================================
