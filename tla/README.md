# A verification development for Balance_Car

TLA+ models of the balance car of this repository: the firmware of the car
(`src/software`), the WeChat mini program that steers it (`src/bc_mp`) and the
PC tool (`src/bc_upper`). TLC checks the models on small instances; TLAPS proves
the properties that matter most for every value of the constants.

`PROJECT.json` says, definition by definition, which lines of the source a
definition stands for, lists the runs, and gives for every property a *mistaken
variant* of a piece of the model (a plausible bug in that code) that the
property catches. Those variants stand in the modules, named `X_Mistake` and
never used, right before the definition `X` they would replace.

## 1. The system

### 1.1 Components

| component | state | operations | model |
|---|---|---|---|
| Command receiver `dev_ble.c`, `ble_ctrl.c`, `drv_uart.c` | 20-byte buffer, offset, callback, `turn_parm.direction`; registers of the UART | receive interrupt (one byte), register callback, callback | `BleReceiver`, `BleFraming` against `CommandFraming`; the interrupt itself in `BleSerial` |
| Bluetooth link | bytes on their way | a remote writes a 12-byte packet; bytes arrive, are lost, garbled, invented | `BleLink` |
| Mini program page `balance_car.js` | adapter, discovery flag, device list, connection, target | buttons and the callbacks of the phone's calls | `RemotePage` |
| PC tool `bc_upper.cpp` | serial port, last packet sent and received, three charts | open and close, 15 buttons, receive handler | its packets in `BleLink` |
| Wheel encoders `drv_pulse_encoder.c`, `dev_encoder.c` | timer, update flag, wrap count | edges, update interrupt, read and clear of counter and wraps | `WheelEncoder` |
| Control loop `controler.c` | speed, turn, angle parameters | one cycle every 5 ms: speed, angle, three laws, output | `MotorDrive`, `WheelEncoder`, `Mpu6050` |
| Motors and PWM `dev_motor.c`, `drv_pwm.c`, `drv_clk.c` | bridge pins, compare and reload registers | `rt_*_motor_set_pwm`, `rt_drv_pwm_set` | `MotorDrive` |
| Parameter flash `drv_flash.c` with the HAL | one page of flash | read, erase, program and compare | `ParamFlash` |
| Parameter menu `show_menu.c`, `dev_key.c` | page, line, key, the record being edited, screen | poll keys, act on a key, leave | `ParamMenu`, which implements `ParamFlash` |
| OLED `dev_oled.c` | the screen | text and digits | what the menu sees of it, in `ParamMenu` |
| Software I2C `drv_soft_i2c.c` | two pins | start, restart, stop, byte out and in, transfer | `SoftI2c` against `RegisterTransfer` |
| Motion sensor `dev_mpu6050.c` | sensor registers, cached ranges, last sample | initialisation, two block reads | `Mpu6050` |
| Telemetry `sds.c` | none | ten bytes with a CRC, sent by polling | when and how it is sent, in `BleSerial` |
| Start-up, threads `main.c`, `controler.c`, `ble_ctrl.c` | how far the start has come, which threads are ready | interrupt enabled, menu, then ctrl, ble, callback and show start | `BleSerial` |
| RT-Thread, HAL | ready list, tick; registers | choice of the thread, delay, time slice; polling send; half-word programming | what the car depends on, in `BleSerial` and `ParamFlash` |
| Pin interrupts `drv_gpio.c` | table of handlers, enable mask | attach, detach, enable, dispatch | not modelled; nobody calls it |
| Buzzer, voltage, ADC | none | one pin, one conversion | not modelled; nobody calls it |
| CMSIS, hardware and build files | | | not modelled |

### 1.2 How they interact

- **Remote to car.** A button of the page, or of the PC tool, writes one packet:
  head `0xbc`, type, channel, a reserved byte, four bytes of data, three reserved
  bytes, tail `0x0a`. Nothing is acknowledged, numbered, summed or repeated. The
  UART interrupt hands each byte to `rt_ble_uart_recv`; a complete packet goes
  to `ble_recv_data`, which leaves a direction in `turn_parm.direction`.
- **Control thread.** The thread of highest priority (5; `ble` and `show` have
  6, the main thread 10) runs a cycle: read the encoders, read the sensor,
  compute balance, speed and turn, drive the motors, sleep. It shares
  `turn_parm.direction` with the UART interrupt and the wrap counts with the
  timer interrupts, without any lock.
- **Menu.** Until the menu is left nothing else runs: the main thread pages
  through the record read from flash, and on leaving saves it, computes the
  gains for the control thread and starts the threads. Bytes received meanwhile
  meet no callback.
- **Sensor.** The control thread reads the sensor over the software I2C bus,
  of which it is the only user then.
- **Telemetry.** The `ble` thread writes ten-byte frames of another format to the
  UART the commands come in on, byte by byte, polling with a time limit. The
  time-out of the HAL also disables the *receive* interrupt of that UART. `ctrl`
  preempts `ble` at any instruction, and `show`, of the same priority, at the end
  of a time slice. The car sends nothing that the PC tool's receive handler
  would accept.

### 1.3 What is hard, and what makes each part correct

- *Receiver and link*: there is no checksum; recovery after any loss or noise
  rests on the head, the tail and one reset of the offset. Short packets are
  judged by bytes of earlier ones. Correct: each well-formed line is executed
  once, when its tail arrives; a fault costs the packet it hits and at most the
  next one; noise does not bring back an old turn.
- *UART*: status and data register are read apart, a flash write stops the core
  while bytes come in, sends are preempted at any instruction and time out.
  Correct: while the interrupt is enabled no byte is lost; nothing disables it
  but a send that took two ticks because `ble` lost the processor in one of two
  places; until then frames stay whole; control goes on.
- *Encoder*: two reads, two clears and a handler interleave freely, and the
  handler judges the direction of a wrap late. Correct: what passes the
  plausibility test is the way made; errors do not pile up or outlive a stop.
- *Control and motors*: an interrupt may change the direction between two tests;
  subtraction and sign meet unsigned pulses; pins and PWM are set one by one.
  Correct: no command is invented or missed; no compare value exceeds the
  period; both wheels pull the same way; left and right turn the car apart.
- *Flash*: erase and write are not atomic, errors of the erase are ignored,
  half-words may not take. Correct: what was reported saved is there; anything
  else is a beginning of the new record and a rest of one kind.
- *Menu*: three switches must agree, key timing is arbitrary. Correct: the screen
  tells the truth about what the keys will change; the menu can be left; the car
  drives with what it saved.
- *I2C and sensor*: refusals, a held clock, a reset in the middle of a transfer,
  failures at any of seven register accesses. Correct: success is only reported
  when it happened, the bus is free afterwards, a transfer always returns, and
  samples are never torn.
- *Page*: each callback makes the next call, and answers come in any order,
  interleaved with buttons, broken links and Bluetooth being switched off.
  Correct: discovery starts once, a scan shows the cars, each car that connects
  becomes the one that is steered.

The hazards, each at its line, are the `hazards` of `PROJECT.json`.

## 2. The modules

The modules are independent except where shown:

    CommandFraming <- BleFraming -> BleReceiver <- BleLink
    ParamFlash <- ParamMenu            RegisterTransfer <- SoftI2c
    BleSerial   WheelEncoder   MotorDrive   Mpu6050   RemotePage

Three abstract specifications say what a part promises, and the detailed module
is shown to implement them: `CommandFraming` (by `BleFraming`), `ParamFlash` (by
`ParamMenu`) and `RegisterTransfer` (by `SoftI2c`).

`X_proof` holds the theorems about `X` (`BleReceiver_proof` those about `BleFraming`
and `BleLink` too, `ParamMenu_proof` those about `ParamFlash`), `MCX` with its `.cfg` an instance for TLC.

**CommandFraming** says what the receiver promises: the line received so far as
a sequence of bytes, and on its tail the command in it, if it is well formed.

**BleReceiver** is `rt_ble_uart_recv` and `ble_recv_data`, one interrupt being
one step. Of the buffer only the header bytes are state: the others are looked
at once, as the byte just stored. A foreign first byte makes the receiver drop
the byte after it too; a tail or a full buffer completes a packet; the callback
reads type and channel whatever the packet's size. **BleFraming** adds the line
as a history variable and `ImplementsFraming`, the refinement.

**BleSerial** is the UART between its hardware and the threads. The hardware is
the data registers and the flags `RXNE`, `ORE`, `TXE`, `TC`; `ByteIn` is the line in,
`Load` (from the data register into the shifter) and `ByteOut` the line out. The interrupt handler takes two steps, `ReadStatus` and `ReadData`, between
which a byte may come in. The main thread walks through the start (`EnableInterrupt`,
`FlashBusy`/`FlashDone` for leaving the menu, `StartCtrl`, `StartBle`,
`RegisterCallback`, `StartShow`). `HAL_UART_Transmit` for one byte is `Begin` (reads
tickstart), `ReadTXE`, `Write`, `ReadTC` and, in both waits, `ReadClock`; each of them
may be preempted, and `elapsed` counts the ticks since tickstart. `Return` is the
loop of `sds_output_data` and `ble_thread_entry` around it. `Tick` is SysTick: delays
end, time slices may, and `Running` is the thread the scheduler then picks. Its
guards say how fast line and processor are against the tick: `late`, `due` and
`away` remember what they need. What the handler does with the
byte is `BleReceiver`'s business; here it is only remembered (`heard`).

**BleLink** feeds the receiver with the packets of the two remotes, one action
for each kind of button (`PhonePress`, `PcSet`, `PcPress`), through a link that
loses, garbles and invents bytes, and registers the callback at any moment
(`RegisterMidway`). Its history variables say which packets started after a tail
and arrived unhurt (`trusted`), and of which turns a byte, wherever it stood, has
been on the line since the last trusted stop arrived (`pressed`).

**WheelEncoder** has one action per edge of the wheel, per statement of the
interrupt handler (`Isr`) and per statement of the control thread that reads or
clears (`Thread`). The two reads of `rt_pulse_encoder_get_count` come in either
order: the compiler is free to choose. The timer's `CNT`, direction bit and flags
are the hardware's, modelled from the reference use in the driver.

**MotorDrive** has one action per statement of `ctrl_turn_pid`, `ctrl_set_speed`
and the two motor drivers, down to the ticks `rt_drv_pwm_set` writes. The
balance and speed laws are floating-point functions of the sensors; their sum
enters as an arbitrary demand, the turn law as an arbitrary rate.

**ParamFlash** follows a save through `rt_flash_erase`, `rt_flash_write` and the
HAL's two half-words per word. `Refuse` is any error of the HAL, a half-word that
keeps its bits without an error is a worn cell, `PowerCut` may come anywhere.

**ParamMenu** is `show_menu_process`: the waiting loop, the loop that runs while
a key is held, and what each key does. `Finger` moves the keys at any time, since
the code samples them around delays. The screen is three lines, each with its
star and the parameter shown; a drawn number is not terminated, so what follows
it in memory may smudge the next line (`Overrun`). The save is `ParamFlash`'s own
(`SaveStep`); that the keys, the start and a power cut do to the record what
`ParamFlash` allows, and no more, is the property `FlashSpec`.

**SoftI2c** is the bus master pin by pin, one action per level it sets or reads,
against a device of its own that counts clocks, may refuse any byte and may hold
the clock low. It starts in every state a reset in the middle of a transfer can
leave the device in. **RegisterTransfer** is what its callers rely on: a call is
answered, done means that the register was written or the bytes are those of the
registers, failed leaves a write open, and nothing else is touched. A call is
*disturbed*, and nothing is promised of it, when the device missed the start or a
wait for the clock ran out.

**Mpu6050** takes a transfer as one step, which `RegisterTransfer` and `Returns`
justify: it happens and is reported, or fails, with or without having reached
the register. Initialisation goes register by register, a reading axis by axis.

**RemotePage** has one action per button and per callback; calls not yet
answered are counted or kept as a set, so that answers come in any order. The
history variable `raced` says whether two connections were ever under way at
once.

## 3. The runs

| run | question | instance | states |
|---|---|---|---|
| `ble_framing` | Is each well-formed line executed exactly once, when its tail arrives, on *every* byte stream? (`ImplementsFraming`, `BufferHoldsLine`) | six byte values, buffer of 7 | seconds |
| `ble_link` | Does one fault cost at most its packet and the next (`TrustedPacketObeyed`)? Can it bring back a stopped turn (`NoTurnResurrected`)? | three phone buttons, two direction and one parameter button of the PC tool, four noise bytes, buffer of 20 | 5.7 million, 90 s |
| `wheel_encoder` | `KeptReadingExact`, `NoCarryOver`, `StoppedWheelSeen` | timer of 0..6, limit 2, three edges a period | seconds |
| `motor_drive` | `TurnTermJustified`, `DutyInRange`, `ModestTurnInRange`, `WheelsPullTogether`, `CommandReachesWheels` | three demands, five turn rates, four directions | seconds |
| `motor_turns` | Do left and right turn the car to opposite sides? *No* | same | |
| `param_menu` | `DisplayTruth`, `DrivesAsSaved`, `Durable`, `PrefixThenRest`, `FlashSpec`, `HoldingEntryLeaves` | the 14 real fields, six chords of keys, one edit, one power cut, any half-word refused or worn | 1.8 million, 3 minutes |
| `soft_i2c` | `ImplementsTransfer`, `BusFree`, `Returns` | bytes of two bits, a write and reads of one and two bytes, two clock holds | 270 000 |
| `mpu6050` | `Configured`, `SampleWhole`, `FreshAgain` | three register contents at boot, two samples | 114 000 |
| `remote_page` | `DiscoveryOnce`, `SteersTheNamed`, `ScanFinds`, `TargetObtained` | two cars, three presses, two taps, two switches | 71 000 |
| `page_already` | Does the page tell the truth when it says it is already discovering? *No* | same | |
| `ble_serial` | `UpToDate`, `DeafOnlyIfRobbed`, `FramesWhole`, `KeepsBalancing`, `FreezeEnds` | two byte values, frames of two bytes, a byte time of four steps | 121 000 |
| `ble_deaf` | Is every byte that comes in taken while the car drives? *No* | same | |

Why the bounds are enough:

- *Buffer of 7*: past the header the receiver treats all positions alike and
  compares the offset with the end only; 7 leaves four such positions. The byte
  values are one of each kind it tells apart: head, tail, steering type, two
  channels, zero. The proofs cover every set of bytes and every size.
- *Noise* in `ble_link` includes head, tail, steering type and zero, but not the
  channels of the turns: no receiver without a checksum can tell a forged turn
  from a real one. For the same reason `pressed` counts every byte with the value of
  a turn, in a channel, a payload or noise: after a slip by a few bytes it may
  stand where the channel should. The proof has no bound on the noise.
- *Payloads* in `ble_link`: the phone sends zeros; the PC tool repeats, with every
  direction packet, the number last typed and three reserved bytes nobody ever
  set. The instance has the tail byte in either place, and once a tail *followed by
  a whole packet*: a head behind a tail byte begins a packet within the packet, and
  then even an unhurt direction packet is not obeyed (the number 0x2bc0a, typed as
  a parameter, does it to every later direction packet of the PC tool). That is
  what `Nested` takes out of `TrustedPacketObeyed`, and all it takes out.
- *Timer of 0..6* with three edges a period keeps the assumption the car relies
  on, that a wheel makes fewer edges between two clears than would wrap the
  timer back into the plausible range (65534 counts against a few dozen edges);
  within it every wrap, in both directions and at any moment, occurs. The
  proofs have the assumption as `MaxPulses + Limit < Reload`.
- *MotorDrive*: demands lie on both sides of zero and beyond the clamp, rates on
  both sides of the dead zone. TLC's integers are 32-bit signed, so the unsigned
  word is 2^16 instead of 2^32: a negative value becomes a huge one either way.
- *ParamMenu*: parameters are 16 bits wide and one starts at 32767, so that
  adding wraps. Two edits would only repeat one on a second field; a behaviour in
  which a key asks for a second one goes no further than that key.
- *BleSerial*: a byte is told from the one before it by two values, a last byte of
  a frame from the others by two bytes. `ByteTime` is the number of processor
  steps after which the next byte may come: the handler takes two, so with four
  a byte can fall between its reads after a stall, and otherwise not, as at
  115200 baud, where a byte takes thousands of instructions. `elapsed` stops
  counting past the time-out, where more ticks make no difference. A byte takes
  less than a tenth of a tick, so one written is out before the second tick after
  it, `ble` finishes a call in a tick that it has to itself, and reads flag and
  clock one right after the other; within that, ticks come between any two steps.
- *SoftI2c*: nothing in the code depends on a byte having eight bits; two give an
  address, a direction bit and four registers.

A save in `param_menu` differs from the record it replaces in at most the one field
edited; the proofs (`CarDurable`, `CarPrefix`) have no bound on edits, saves or
cuts.

`CHECK_DEADLOCK FALSE` stands in the runs of `RemotePage`, where all presses,
taps and switches may be used up. Everywhere else a deadlock would be an error.

### Fairness

- The control thread has the highest priority and the interrupts that preempt it
  return: weak fairness of its steps (`MotorDrive`, `WheelEncoder`, `Mpu6050`).
  Weak fairness of the interrupt handler in `WheelEncoder`: the interrupt is
  enabled and a wheel that stopped causes no more of them.
- During the menu only the main thread runs: weak fairness of it, none of the
  fingers, the power or the flash. `HoldingEntryLeaves` assumes in its own
  statement that the key stays down.
- In `BleSerial` the handler gets on (weak) and the transmitter does (weak). The
  running thread and the tick that wakes `ctrl` are taken away by interrupts of
  the UART again and again, hence strong fairness: the handler is far shorter
  than a byte time. `KeepsBalancing` must therefore exclude by itself an
  interrupt that comes back for ever. Nobody has to leave the menu: neither
  `FlashBusy` nor `StartCtrl` is fair. The bytes that `FreezeEnds` needs are in
  its own statement.
- The thread that transfers on I2C gets on; nothing makes the device release the
  clock. `Returns` is owed to `SCL_H` giving up.
- The phone answers every call, and with `allowDuplicatesKey` goes on reporting
  the cars in range; a call for the services or characteristics of a car whose
  link is up succeeds, and so does the start of the discovery while Bluetooth is
  on. Nothing makes anybody press a button or keep Bluetooth on.

## 4. What the runs found

1. **Left and right turn the car the same way** (`motor_turns`).
   `ctrl_set_speed` adds |turn| to the left motor and subtracts it from the right
   one for either sign of the turn (`controler.c:131-140`), so the page's two
   opposite commands (`balance_car.js:303` and `:317`) drive the same wheel harder.
2. **A car that goes deaf** (`ble_deaf`). `rt_uart_send` sends each byte with a time
   limit of one tick and ignores the result (`drv_uart.c:79`). The HAL compares the
   clock after it has found the byte not yet out; when `ble` loses the processor
   between the two for two ticks, the byte is long out but the time is over. Or `ble`
   loses it between reading tickstart and writing the byte
   (`stm32f1xx_hal_uart.c:1047`, `:1077`): then the time is over when the byte has just
   begun to go out. Either time-out clears `RXNEIE`, the *receive* interrupt
   (`:2701`). Only start-up enables it: from then on the car drives, sends its curves
   and obeys no command. Without that clearing the property holds, so nothing
   else can make the car deaf; `DeafOnlyIfRobbed` (proved) says that it takes one of
   those two preemptions. After the second kind the next call may find the data
   register occupied; that it then waits is what keeps the bytes apart, and if
   that wait times out, too, a byte of the frame is left out (`FramesWhole`). A
   telling near miss: enabling the interrupt again with each send would be worse, as an
   overrun from the deaf time would keep the interrupt pending for ever and
   freeze all threads (the mistaken variant `Begin_Reenables`).
3. **A scan that never scans again** (`page_already`). The flag set when discovery
   is first asked for is never cleared on a path the page can take: after
   Bluetooth was off and on again the page logs that it is already discovering.

Met while modelling, and part of the models without a run of their own:

- `rt_uart_isr` reads the data register only if `RXNE` was set, and never clears an
  overrun by itself. A byte that comes in between its two reads while another is
  already lost, as after the flash stalled the core, leaves `ORE` pending with nothing to read: the
  interrupt comes back at once until the next byte sets `RXNE`. No thread runs
  meanwhile; `FreezeEnds` says the next bytes end it, `UpToDate` and `KeepsBalancing`
  that it does not happen to the driving car.
- A turn larger than the output makes the right motor's pulse negative and, as an
  unsigned number, huge (`controler.c:134`; `drv_pwm.h:12` documents
  `pulse<=period`). The PWM driver clamps it, so the wheel that should slow down
  runs at full duty. A turn within the dead zone never does this
  (`ModestTurnInRange`, proved), and the registers stay in range
  (`DutyInRange`, proved).
- A read on I2C whose restart the device misses, because it held the clock
  through the time-out, hands it the address byte as data: a read then changes a
  register.

- The page's listener for Bluetooth being switched on is a plain function whose
  `this` is not the page: it throws and starts nothing (`balance_car.js:352-366`).
  `closeBLEConnection` and `stopBluetoothDevicesDiscovery` are unreachable.
- When two connections race the page may name one car and steer the other;
  `SteersTheNamed` says that it takes a race.
- Up, down, stop and all parameter packets have no effect on the driving; the
  PC tool's left-up button has the channel of the car's stop.
- A cut or failed save leaves a torn record, and the car then runs with -1 where
  the flash is erased. The save is not atomic; `PrefixThenRest` says exactly
  what can be left.
- While ENTRY is read after another key was registered the menu's inner loop
  spins without counting (`show_menu.c:82`); that is why `HoldingEntryLeaves` starts
  from the waiting loop. On the logo ADD already edits the angle.
- Restart and stop on I2C do not ask whether the clock came up, and nobody clocks
  out a device that was interrupted: `ImplementsTransfer` and `BusFree` are about
  transfers whose start the device saw and in which no wait ran out.
- A sensor whose initialisation failed stays asleep, and everybody goes on.

## 5. The proofs

| theorem | for every | says |
|---|---|---|
| `BleReceiver_proof!TypeCorrect`, `BufferCorrect` | set of bytes, buffer size | the offset stays in the buffer; buffer and line agree |
| `BleReceiver_proof!Refinement` | same | the receiver implements `CommandFraming` |
| `BleReceiver_proof!LinkTypeCorrect`, `ObeyedCorrect`, `NoTurnResurrectedCorrect` | buttons, numbers, memory of the PC tool, noise, buffer of at least a packet | an unhurt steering packet is obeyed after any fault; no fault brings back a turn |
| `WheelEncoder_proof!TypeCorrect`, `KeptReadingCorrect`, `NoCarryOverCorrect` | reload value, limit, edges within `EncoderAssumption` | a kept reading is exact up to one edge; errors do not pile up |
| `MotorDrive_proof!TypeCorrect`, `DutyCorrect`, `ModestTurnCorrect` | demands, rates, directions, word size | compare within period; a modest turn never wraps |
| `MotorDrive_proof!TurnTermCorrect`, `PullTogetherCorrect` | same | the turn added is one commanded in this cycle; both wheels pull the same way |
| `ParamMenu_proof!TypeCorrect`, `DurableCorrect`, `PrefixCorrect` | record size, half-word values | durability; the shape of a torn record |
| `ParamMenu_proof!Refinement`, `CarDurable`, `CarPrefix` | initial record, keys pressed, edits, cuts | the car with its menu implements `ParamFlash`, and inherits the two |
| `ParamMenu_proof!MenuTypeCorrect`, `DrivesAsSavedCorrect`, `DisplayCorrect` | same | the car drives with what it saved; the screen tells what the keys change |
| `BleSerial_proof!TypeCorrect`, `DeafCorrect`, `FramesWholeCorrect`, `UpToDateCorrect` | byte values, byte time, frame length | what disables the interrupt; no byte sent is written over another, and none is left out before that; no byte is lost while it is enabled |
| `SoftI2c_proof!I2cTypeCorrect`, `BusIsFree` | width of a byte, address, contents, held clocks | no byte outgrows its bits; after an undisturbed transfer the bus is free |
| `SoftI2c_proof!TransferImplemented` | same, and register writes and reads of any length up to the register file | the pins implement `RegisterTransfer` |
| `Mpu6050_proof!TypeCorrect`, `SampleWholeCorrect`, `ConfiguredCorrect` | contents at boot, samples, identities | no torn sample; success means set up |
| `RemotePage_proof!TypeCorrect`, `DiscoveryOnceCorrect`, `SteersTheNamedCorrect` | cars, presses, taps, switches | discovery starts once; without a race the car steered is the one named |

Each is proved the same way: an inductive invariant `Inv`, a lemma that `Init`
establishes it, one lemma per group of actions that keeps it, and a temporal
step. What the invariants add to the properties, and why:

- *Framing*: `BufferHoldsLine` is about lines that can still become commands; that
  a well-formed line stays so only if its beginnings were (`WellFormedPrefix`),
  and that a tail brings offset and line back into step (`TailAligns`), is what
  makes it inductive. The refinement maps the abstract line to the history
  variable and shows that each interrupt is a step of the specification.
- *Link*: `Progress` follows a trusted steering packet byte by byte. Either all of
  it so far lies in the buffer (`Held`), or a tail byte in its payload has
  completed it early (`Obeyed`): then it has been obeyed already, and the receiver
  drops the rest two bytes at a time without ever meeting a head, its own tail
  included. `Aligned` starts the next packet at offset 0. `TurnsSeen` says of the
  third byte of the *buffer* what `NoTurnResurrected` says of the direction: that
  byte outlives its packet, and a short packet may still be judged by it.
- *Encoder*: `TimerHoldsWay` relates counter, wraps and way; `ReadHoldsWay` says the
  same of a counter that has been read, while the wheel moves on. The arithmetic
  heart is `WrapsOutweigh`: as the edges of one period are fewer than the timer's
  range less the limit, any wrap counted wrongly moves the reading out of the
  plausible range. No bound on how the reads, the clears and the handler
  interleave is needed. `CarryInv` adds what holds while the timer has not
  wrapped: no wrap is counted, waiting or being judged, so none can be carried over.
- *Motors*: `OutInRange` (the output after clamp and dead zone), `PulseIsAsked` (each
  pulse is the one the statement computes) and `RegistersFit` (the compare registers fit
  the reload register that goes with them) make `DutyInRange` inductive between the
  updates of the two motors, which share a timer. `TurnInv` looks back over the
  cycle from the second test of the direction: it is reached only if the
  direction was another at the first. `BridgeInv` says pin by pin what has been
  written since the cycle began.
- *Flash*: `Untouched`, `Reached`, `Compared` and `Rest` follow the programming word by
  word: what lies before the word in progress equals the new record, what lies
  behind it is all erased or all old. The comparison after each word carries
  `Compared` forward; `SavedHolds` is `Durable` while a save is under way.
- *Menu*: `EditsRecord` says that what is edited is a record and that page and line
  stay where the tables of the fields are defined; with it each key is an `Edit`
  or leaves the flash part alone, wrapping past 32767 included
  (`ChangedStaysRecord`), and the properties of `ParamFlash` follow by transitivity.
  `ScreenInv` says line by line that what is shown is what ADD would change there;
  that SUB would change the same is a fact about the two tables
  (`SwitchesAgree`), and a number drawn without its end strikes at most the place of
  the star on the next line, where there is none (`OverrunHits`). `DriveInv` carries the gains from the last key to the end of
  the save, and `KeysInv` bounds the counter that lets the car go.
- *UART*: `OverIsRobbed` says that once the time of a call is over `ble` has been
  robbed, unless the byte is out and TC about to be read. For a tick to keep it one
  has to know what an earlier tick of the call did: until the first one `ble` has
  the processor (`AtOnce`), and one that came before the writing either left it the
  processor until the next or took it (`Accounted`). `WaitsWhenDeaf` carries over
  from call to call that only a time-out leaves a byte in the data register.
  `ReceiveInv` says where the last byte is: in the data register, fresh, or handed
  over. It is inductive because a handler takes fewer steps than a byte, and needs
  what the start has done, since a byte that came in before is nobody's.
- *I2C*: four layers. The *device*: what it makes of a rising or falling clock and
  of data that changes under a high one (`RaiseIs`, `LowerIs`, `PinsStart`,
  `PinsStop`). `Control` says of the master alone which message and byte it can be
  at, how many bits are through, what its pins and its result are, whatever the
  device does; with `OffIsFree` (a device off the bus pulls nothing) it gives the
  types. `InStep` ties the pin access the master is at to the byte and the slot the
  device is at. It can only hold once the device has seen the start and until a
  wait is given up, so it stands under `started /\ ~late`, as the property does;
  and where the clock is let go but may be held, the slot depends on whether it
  has come up. The device's shift register is the beginning of the byte sent
  (`Prefix`, with the few facts on powers of two it needs, from counting subsets).
  `BusFree` follows. `Through` adds the data: after the first byte the pointer is the register
  asked for, after the second the register holds the value, and bytes read are
  the registers from there on. With it each pin access is a step of
  `RegisterTransfer` or none; a missed start, or a wait given up, maps to `Disturb`.
- *Sensor*: `SampleInv` compares each axis read with the block the sensor latched.
  `ConfigInv` says, per step of the initialisation and as long as no error has been
  added up, what every register and every cached range holds; that two of the seven
  accesses change the same register is why it speaks of their composition.
- *Page*: `DiscoveryInv` counts calls under way and listeners together; `SteerInv` says
  that without a race all calls under way belong to the car last tapped, and that
  a connected car that is not yet the target has such a call.

The type invariants of framing, encoder and flash are not repeated by a run of
their own; `LinkTypeOK` has the receiver's at the real buffer size.
That of the menu needs more than types: that page and line select a field, and
that a gain computed from 16-bit parameters is a quotient that fits
(`QuotientFits`).

Assumptions are the named `ASSUME`s of the modules, which TLC evaluates on the
instances. Left to TLC:

- the liveness properties (`StoppedWheelSeen`, `CommandReachesWheels`,
  `HoldingEntryLeaves`, `Returns`, `FreshAgain`, `ScanFinds`, `TargetObtained`,
  `KeepsBalancing`, `FreezeEnds`), since the prover does not handle fairness and
  `ENABLED`.

Every invariant, action property and refinement that a passing run checks is
a theorem, but for these.

## 6. Plan

Done, in this order: receiver with its abstract specification and proofs, link,
encoder with proofs, motors with proofs, flash with proofs, menu, I2C, sensor,
page; then the UART with threads and start-up and its proofs, the proof that the
menu implements the flash, and the abstract transfer that I2C implements; then
the proofs of every other invariant that a run checks, and that the pins of the
I2C bus implement its transfers. To come: an abstract transfer under the sensor
(`Mpu6050` takes register accesses that succeed or fail as given; that they are
those of `RegisterTransfer` is by construction of the model, not by refinement).

## 7. Not modelled

- *Vendored code.* Nearly all of the repository's C lines are RT-Thread, the
  STM32 HAL and CMSIS, of which the car uses a few functions. Those that decide
  about its behaviour are modelled (section 2); register definitions, drivers of
  peripherals the car does not have, IPC, heap and shell are not, so the map
  covers a small share of all lines and most of the lines of the car's own control.
- *Nobody calls it*: the pin interrupts of `drv_gpio.c`, buzzer, voltage and ADC,
  `rt_drv_pwm_get`, and the bus options no caller sets (10-bit addresses,
  `IGNORE_NACK`, `NO_START`, retries).
- *Floating point*: the PID laws and the complementary filter enter as arbitrary
  values. The integral of the speed error has no limit in the code
  (`controler.c:83`), and there is no bound to state.
- *Pure output*: glyphs, commands and bitmaps of the OLED, the numbers the show
  thread draws, charts and log of the remotes; scaling and CRC of the telemetry,
  which nothing in the repository reads. The PC tool's receive handler waits for
  packets the car never sends.
- *Straight-line set-up*: clocks, pins, timers, the other UARTs.
