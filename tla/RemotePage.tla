----------------------------- MODULE RemotePage -----------------------------
(***************************************************************************)
(* The page of the phone's mini program up to the moment it can steer a    *)
(* car: Bluetooth is opened, cars are discovered, the tapped one is        *)
(* connected, and its writable characteristic becomes the target of the    *)
(* commands (balance_car.js).  Every step is a call to the phone that      *)
(* answers in a callback, later, in any order with other calls' answers;   *)
(* meanwhile buttons are pressed, Bluetooth is switched off and on, and    *)
(* links break.  What a command does then is BleLink.                      *)
(*                                                                         *)
(* closeBLEConnection and, since ble_connected is never set,               *)
(* stopBluetoothDevicesDiscovery cannot be reached from the page.          *)
(***************************************************************************)
EXTENDS Integers, FiniteSets

CONSTANTS
    Cars,          \* the cars in range
    NoCar,
    MaxPresses,    \* bound: presses of the scan button
    MaxTaps,       \* bound: taps on a listed car
    MaxSwitches    \* bound: how often Bluetooth is switched

ASSUME PageAssumption ==
    /\ NoCar \notin Cars
    /\ {MaxPresses, MaxTaps, MaxSwitches} \subseteq Nat

VARIABLES
    \* the phone
    on,                 \* is Bluetooth switched on?
    scanning,           \* is it discovering devices?
    reported,           \* the cars reported since it began to
    links,              \* the cars it is connected to
    \* calls not yet answered
    opens,              \* wx.openBluetoothAdapter
    starts,             \* wx.startBluetoothDevicesDiscovery
    pending,            \* the calls of a connection under way, by car
    \* listeners
    finders,            \* wx.onBluetoothDeviceFound
    stateListener,      \* wx.onBluetoothAdapterStateChange
    \* the page
    _discoveryStarted,
    devices,
    connected,
    deviceId,           \* data.deviceId, the car connected last
    canWrite,
    _deviceId,          \* with _serviceId and _characteristicId: the target
    raced,              \* history: a car was tapped while another connected
    \* bounds
    presses, taps, switches

phoneVars == <<on, scanning, reported, links>>
scanVars == <<opens, starts, finders, stateListener, _discoveryStarted>>
linkVars == <<connected, deviceId, canWrite, _deviceId>>
callVars == <<pending, raced>>
bounds == <<presses, taps, switches>>
vars == <<phoneVars, scanVars, devices, callVars, linkVars, bounds>>

Calls == [call : {"connect", "services", "characteristics"}, car : Cars]

TypeOK ==
    /\ on \in BOOLEAN /\ scanning \in BOOLEAN /\ links \subseteq Cars
    /\ reported \subseteq Cars
    /\ opens \in 0..MaxPresses /\ starts \in Nat /\ finders \in Nat
    /\ stateListener \in BOOLEAN /\ _discoveryStarted \in BOOLEAN
    /\ devices \subseteq Cars /\ pending \subseteq Calls
    /\ {connected, canWrite, raced} \subseteq BOOLEAN
    /\ deviceId \in Cars \cup {NoCar} /\ _deviceId \in Cars \cup {NoCar}
    /\ presses \in 0..MaxPresses /\ taps \in 0..MaxTaps /\ switches \in 0..MaxSwitches

-----------------------------------------------------------------------------

Init ==
    /\ on \in BOOLEAN /\ scanning = FALSE /\ reported = {} /\ links = {}
    /\ opens = 0 /\ starts = 0 /\ finders = 0
    /\ stateListener = FALSE /\ _discoveryStarted = FALSE
    /\ devices = {} /\ pending = {}
    /\ connected = FALSE /\ deviceId = NoCar /\ canWrite = FALSE /\ _deviceId = NoCar
    /\ raced = FALSE
    /\ presses = 0 /\ taps = 0 /\ switches = 0

(***************************************************************************)
(* Discovery.                                                              *)
(***************************************************************************)
\* The scan button: openBluetoothAdapter.
openBluetoothAdapter ==
    /\ presses < MaxPresses /\ presses' = presses + 1
    /\ devices' = {} /\ connected' = FALSE /\ canWrite' = FALSE
    /\ opens' = opens + 1
    /\ UNCHANGED <<phoneVars, starts, finders, stateListener, _discoveryStarted,
                   callVars, deviceId, _deviceId, taps, switches>>

\* Mistaken variant of startBluetoothDevicesDiscovery: the flag is left to the
\* callback.
startBluetoothDevicesDiscovery_FlagLate ==
    /\ starts' = IF _discoveryStarted THEN starts ELSE starts + 1
    /\ UNCHANGED _discoveryStarted

\* It starts once, and the flag is set before the phone has answered.
startBluetoothDevicesDiscovery ==
    /\ starts' = IF _discoveryStarted THEN starts ELSE starts + 1
    /\ _discoveryStarted' = TRUE

\* Bluetooth is on: the success callback.
OpenSucceeds ==
    /\ opens > 0 /\ on
    /\ opens' = opens - 1
    /\ startBluetoothDevicesDiscovery
    /\ UNCHANGED <<phoneVars, finders, stateListener, devices, callVars, linkVars, bounds>>

\* Bluetooth is off: error 10001, and the page listens for its being switched on.
OpenFails ==
    /\ opens > 0 /\ ~on
    /\ opens' = opens - 1
    /\ stateListener' = TRUE
    /\ UNCHANGED <<phoneVars, starts, finders, _discoveryStarted, devices, callVars,
                   linkVars, bounds>>

DiscoverySucceeds ==
    /\ starts > 0 /\ on
    /\ starts' = starts - 1
    /\ scanning' = TRUE
    /\ finders' = finders + 1
    /\ UNCHANGED <<on, reported, links, opens, stateListener, _discoveryStarted,
                   devices, callVars, linkVars, bounds>>

\* There is no callback for the failure.
DiscoveryFails ==
    /\ starts > 0 /\ ~on
    /\ starts' = starts - 1
    /\ UNCHANGED <<phoneVars, opens, finders, stateListener, _discoveryStarted,
                   devices, callVars, linkVars, bounds>>

\* Mistaken variant of allowDuplicatesKey: a device is reported once.
allowDuplicatesKey_Off == FALSE

allowDuplicatesKey == TRUE

\* Mistaken variant of Found: a device that gives no name is listed, too.
Found_Nameless(c) ==
    /\ scanning /\ finders > 0
    /\ reported' = reported \cup {c}
    /\ devices' = devices \cup {NoCar}
    /\ UNCHANGED <<on, scanning, links, scanVars, callVars, linkVars, bounds>>

\* Devices without a name are left out, and every car has one.
Found(c) ==
    /\ scanning /\ finders > 0
    /\ c \notin devices
    /\ c \notin reported \/ allowDuplicatesKey
    /\ reported' = reported \cup {c}
    /\ devices' = devices \cup {c}
    /\ UNCHANGED <<on, scanning, links, scanVars, callVars, linkVars, bounds>>

(***************************************************************************)
(* Connection: each callback makes the next call.                          *)
(***************************************************************************)
Ask(call, c) == [call |-> call, car |-> c]

\* A tap on a listed car: bindcreateBLEConnection.
Tap(c) ==
    /\ c \in devices
    /\ taps < MaxTaps /\ taps' = taps + 1
    /\ pending' = pending \cup {Ask("connect", c)}
    /\ raced' = (raced \/ \E p \in pending : p.car # c)
    /\ UNCHANGED <<phoneVars, scanVars, devices, linkVars, presses, switches>>

\* The answer to one call, and the call that follows it.
Answer(call, c, next) ==
    /\ Ask(call, c) \in pending
    /\ pending' = (pending \ {Ask(call, c)}) \cup next
    /\ UNCHANGED <<scanVars, devices, bounds, on, scanning, reported, raced>>

Connects(c) ==
    /\ on
    /\ Answer("connect", c, {Ask("services", c)})
    /\ links' = links \cup {c}
    /\ connected' = TRUE /\ deviceId' = c
    /\ UNCHANGED <<canWrite, _deviceId>>

ConnectFails(c) ==
    /\ Answer("connect", c, {})
    /\ UNCHANGED <<links, linkVars>>

\* The car has the service the page looks for.
GetsServices(c) ==
    /\ c \in links
    /\ Answer("services", c, {Ask("characteristics", c)})
    /\ UNCHANGED <<links, linkVars>>

\* Mistaken variant of GetsCharacteristics: the first target is kept.
GetsCharacteristics_FirstOnly(c) ==
    /\ c \in links
    /\ Answer("characteristics", c, {})
    /\ canWrite' = TRUE /\ _deviceId' = IF canWrite THEN _deviceId ELSE c
    /\ UNCHANGED <<links, connected, deviceId>>

GetsCharacteristics(c) ==
    /\ c \in links
    /\ Answer("characteristics", c, {})
    /\ canWrite' = TRUE /\ _deviceId' = c
    /\ UNCHANGED <<links, connected, deviceId>>

\* The car is out of reach: nothing follows.
GetFails(c) ==
    /\ c \notin links
    /\ Answer("services", c, {}) \/ Answer("characteristics", c, {})
    /\ UNCHANGED <<links, linkVars>>

(***************************************************************************)
(* The phone.  The listener for Bluetooth being switched on is a plain     *)
(* function without the page's "this": it throws on its first statement.   *)
(***************************************************************************)
SwitchOn ==
    /\ ~on /\ on' = TRUE
    /\ switches < MaxSwitches /\ switches' = switches + 1
    /\ UNCHANGED <<scanning, reported, links, scanVars, devices, callVars, linkVars,
                   presses, taps>>

SwitchOff ==
    /\ on /\ on' = FALSE
    /\ switches < MaxSwitches /\ switches' = switches + 1
    /\ scanning' = FALSE /\ reported' = {} /\ links' = {}
    /\ UNCHANGED <<scanVars, devices, callVars, linkVars, presses, taps>>

\* The page listens for no such event.
Breaks(c) ==
    /\ c \in links /\ links' = links \ {c}
    /\ UNCHANGED <<on, scanning, reported, scanVars, devices, callVars, linkVars, bounds>>

Callback ==
    \/ OpenSucceeds \/ OpenFails
    \/ DiscoverySucceeds \/ DiscoveryFails
    \/ \E c \in Cars :
         \/ Connects(c) \/ ConnectFails(c)
         \/ GetsServices(c) \/ GetsCharacteristics(c) \/ GetFails(c)

Next ==
    \/ Callback
    \/ \E c \in Cars : Found(c) \/ Tap(c) \/ Breaks(c)
    \/ openBluetoothAdapter
    \/ SwitchOn \/ SwitchOff

\* The phone answers every call and goes on reporting each car in range.
Spec == Init /\ [][Next]_vars /\ WF_vars(Callback) /\ \A c \in Cars : WF_vars(Found(c))

-----------------------------------------------------------------------------

(***************************************************************************)
(* Discovery is started once and its listener registered once, however     *)
(* often the scan button is pressed and whenever the answers come: the     *)
(* flag is set before the phone answers (startBluetoothDevicesDiscovery).  *)
(***************************************************************************)
DiscoveryOnce == starts + finders <= 1

(***************************************************************************)
(* Once Bluetooth stays on, every press of the scan button is followed by  *)
(* a full list of the cars in range: when Bluetooth was off at an earlier  *)
(* press (the listener for its being switched on does nothing), and when   *)
(* discovery is already running and the list was just emptied, since the   *)
(* cars are reported over and over.  Only a discovery that Bluetooth being *)
(* switched off has ended is never begun again (openBluetoothAdapter,      *)
(* startBluetoothDevicesDiscovery, allowDuplicatesKey).                    *)
(***************************************************************************)
DiscoveryLost == _discoveryStarted /\ starts = 0 /\ ~scanning
ScanFinds == [](opens > 0 /\ ~DiscoveryLost /\ []on => <>(devices = Cars))

(***************************************************************************)
(* Unless another car was tapped while one connected, the commands go to   *)
(* the car the page names, when nothing is under way and that car's link   *)
(* is up: after any number of cars connected one after the other, and of   *)
(* connections that broke off at any call (bindcreateBLEConnection,        *)
(* getBLEDeviceCharacteristics, writeBLECharacteristicValue).              *)
(***************************************************************************)
SteersTheNamed ==
    ~raced /\ pending = {} /\ deviceId \in links => _deviceId = deviceId

(***************************************************************************)
(* A car that connects and stays connected becomes the target of the       *)
(* commands, also when another car was the target before or connects at    *)
(* the same time: three callbacks each make the next call, the last stores *)
(* the car's characteristic (bindcreateBLEConnection,                      *)
(* getBLEDeviceServices, getBLEDeviceCharacteristics).                     *)
(***************************************************************************)
TargetObtained ==
    \A c \in Cars :
      Ask("services", c) \in pending ~> _deviceId = c \/ c \notin links

(***************************************************************************)
(* "Already discovering devices..." (balance_car.js:112) is logged only    *)
(* while the phone discovers devices or is about to.                       *)
(***************************************************************************)
AlreadyDiscovering ==
    opens > 0 /\ on /\ _discoveryStarted => starts > 0 \/ scanning
=============================================================================
