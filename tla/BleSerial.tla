----------------------------- MODULE BleSerial -----------------------------
(***************************************************************************)
(* The serial port to the Bluetooth module between its hardware and the    *)
(* threads of the car: the receive interrupt of drv_uart.c, the telemetry  *)
(* that the ble thread sends through the same port by polling it with a    *)
(* time limit, and the scheduler, which lets ctrl preempt ble and lets ble *)
(* and show take turns.                                                    *)
(*                                                                         *)
(* The last byte handed to rt_ble_uart_recv stands for what the receiver   *)
(* (BleReceiver) makes of the bytes.                                       *)
(***************************************************************************)
EXTENDS Integers

CONSTANTS
    Bytes,       \* the byte values on the line
    NoByte,      \* none of them
    ByteTime,    \* a byte takes longer than this many steps of the processor
    Frame        \* bytes of one telemetry frame, 10

\* The interrupt handler takes two steps, and is not all a byte time.
ASSUME SerialAssumption == /\ NoByte \notin Bytes
                           /\ ByteTime \in Nat /\ ByteTime > 2
                           /\ Frame \in Nat /\ Frame > 0

Timeout == 1     \* of HAL_UART_Transmit in rt_uart_send, in ticks

VARIABLES
    stage,       \* how far the main thread is with starting the car
    DR,          \* the received byte in the data register
    RXNE,        \* it has not been read yet
    ORE,         \* another one came in meanwhile and is lost
    RXNEIE,      \* the receive interrupt is enabled
    TXE,         \* the data register has room for a byte to be sent
    shifting,    \* a byte is on its way out
    isr,         \* the statement the interrupt handler has reached
    sawORE,      \* the status register it read had ORE set
    quiet,       \* processor steps since the last byte came in
    stalled,     \* the flash is being erased or programmed
    awake,       \* the threads that are ready
    head,        \* which of ble and show heads the list of their priority
    ble,         \* where the ble thread is in HAL_UART_Transmit
    left,        \* bytes of the frame that are still to be sent
    elapsed,     \* ticks since the call's tickstart, as far as they matter
    heard,       \* the last byte handed to rt_ble_uart_recv
    \* time
    late,        \* has a tick come since the last byte was written?
    due,         \* has ble been in its call and run ever since the last tick?
    delayed,     \* has it lost the processor in this call before writing?
    away,        \* has it lost the processor since it read the flag?
    \* history
    latest,      \* the last byte that came in while the car drove
    robbed       \* has a call lasted two ticks because ble lost the processor
                 \* before writing, or between reading a flag and the clock?

lineVars == <<DR, RXNE, ORE, RXNEIE, quiet, stalled>>
isrVars == <<isr, sawORE, heard>>
sendVars == <<TXE, shifting, ble, left, elapsed, late, due, delayed, away>>
schedVars == <<awake, head>>
historyVars == <<latest, robbed>>
vars == <<stage, lineVars, isrVars, sendVars, schedVars, historyVars>>

\* Main starts ctrl, then ble, registers the callback, and starts show.
Stages == {"reset", "menu", "ctrl", "ble", "callback", "driving"}
Threads == {"ctrl", "ble", "show"}
Peers == {"ble", "show"}   \* both of priority 6; ctrl has 5, main has 10

\* A call of HAL_UART_Transmit has read tickstart and waits until it may write,
\* testing TXE and the clock in turn; it writes; it waits for TC alike.
Unwritten == {"TXE", "TXE_clock", "write"}
Written == {"TC", "TC_clock"}
Clocks == {"TXE_clock", "TC_clock"}

Started == CASE stage \in {"reset", "menu"} -> {}
             [] stage = "ctrl" -> {"ctrl"}
             [] stage \in {"ble", "callback"} -> {"ctrl", "ble"}
             [] stage = "driving" -> Threads

TypeOK ==
    /\ stage \in Stages
    /\ DR \in Bytes \cup {NoByte} /\ heard \in Bytes \cup {NoByte}
    /\ latest \in Bytes \cup {NoByte}
    /\ {RXNE, ORE, RXNEIE, sawORE, stalled, robbed} \subseteq BOOLEAN
    /\ {TXE, shifting, late, due, delayed, away} \subseteq BOOLEAN
    /\ isr \in {"out", "data"}
    /\ quiet \in 0..ByteTime
    /\ awake \subseteq Started
    /\ head \in Peers
    /\ ble \in {"begin"} \cup Unwritten \cup Written
    /\ left \in 1..Frame
    /\ elapsed \in 0..(Timeout + 1)

\* The thread that has the processor when no interrupt has.
Running == IF "ctrl" \in awake THEN "ctrl"
           ELSE IF awake # {} THEN head
           ELSE "main"

\* Nothing that was written is still to go out.
TC == TXE /\ ~shifting

\* RXNEIE enables the interrupt for ORE as well.
Pending == RXNEIE /\ (RXNE \/ ORE)

Init ==
    /\ stage = "reset"
    /\ DR = NoByte /\ RXNE = FALSE /\ ORE = FALSE /\ RXNEIE = FALSE
    /\ TXE = TRUE /\ shifting = FALSE
    /\ isr = "out" /\ sawORE = FALSE
    /\ quiet = ByteTime /\ stalled = FALSE
    /\ awake = {} /\ head = "ble"
    /\ ble = "begin" /\ left = Frame /\ elapsed = 0
    /\ late = TRUE /\ due = FALSE /\ delayed = FALSE /\ away = FALSE
    /\ heard = NoByte /\ latest = NoByte /\ robbed = FALSE

-----------------------------------------------------------------------------

\* The processor has taken a step.
Counted == quiet' = IF quiet < ByteTime THEN quiet + 1 ELSE ByteTime

(***************************************************************************)
(* The hardware.  When a byte comes in and the last one has not been read, *)
(* the new one is lost.                                                    *)
(***************************************************************************)
ByteIn(b) ==
    /\ stalled \/ quiet = ByteTime
    /\ IF RXNE THEN ORE' = TRUE /\ UNCHANGED <<DR, RXNE>>
               ELSE DR' = b /\ RXNE' = TRUE /\ UNCHANGED ORE
    /\ quiet' = 0
    /\ latest' = IF stage = "driving" THEN b ELSE latest
    /\ UNCHANGED <<stage, RXNEIE, stalled, isrVars, sendVars, schedVars, robbed>>

\* A byte written follows as soon as the one before it is out.
Load ==
    /\ ~TXE /\ ~shifting
    /\ TXE' = TRUE /\ shifting' = TRUE
    /\ UNCHANGED <<stage, lineVars, isrVars, ble, left, elapsed, late, due,
                   delayed, away, schedVars, historyVars>>

ByteOut ==
    /\ shifting
    /\ shifting' = FALSE
    /\ UNCHANGED <<stage, lineVars, isrVars, TXE, ble, left, elapsed, late, due,
                   delayed, away, schedVars, historyVars>>

(***************************************************************************)
(* rt_uart_isr.  It reads the status register, and only if that says RXNE  *)
(* the data register, which clears RXNE, and with it an ORE that was set   *)
(* when the status was read.  Otherwise it returns, still pending if ORE   *)
(* is set.                                                                 *)
(***************************************************************************)
ReadStatus ==
    /\ isr = "out" /\ Pending /\ ~stalled
    /\ IF RXNE THEN isr' = "data" /\ sawORE' = ORE ELSE UNCHANGED <<isr, sawORE>>
    /\ Counted
    /\ UNCHANGED <<stage, DR, RXNE, ORE, RXNEIE, stalled, heard, sendVars,
                   schedVars, historyVars>>

\* Mistaken variant of ReadData: an overrun is not cleared.
ReadData_KeepsOverrun ==
    /\ isr = "data"
    /\ RXNE' = FALSE
    /\ heard' = DR
    /\ isr' = "out" /\ sawORE' = FALSE
    /\ Counted
    /\ UNCHANGED <<stage, DR, ORE, RXNEIE, stalled, sendVars, schedVars, historyVars>>

ReadData ==
    /\ isr = "data"
    /\ RXNE' = FALSE
    /\ ORE' = (ORE /\ ~sawORE)
    /\ heard' = DR
    /\ isr' = "out" /\ sawORE' = FALSE
    /\ Counted
    /\ UNCHANGED <<stage, DR, RXNEIE, stalled, sendVars, schedVars, historyVars>>

-----------------------------------------------------------------------------

\* The processor executes thread t.
Runs(t) == isr = "out" /\ ~Pending /\ ~stalled /\ Running = t

(***************************************************************************)
(* The main thread.  rt_ble_dev_init enables the interrupt long before the *)
(* menu is left; leaving it writes the flash, and meanwhile the core,      *)
(* which runs from flash, does not run at all.                             *)
(***************************************************************************)
EnableInterrupt ==
    /\ Runs("main") /\ stage = "reset"
    /\ stage' = "menu" /\ RXNEIE' = TRUE
    /\ Counted
    /\ UNCHANGED <<DR, RXNE, ORE, stalled, isrVars, sendVars, schedVars, historyVars>>

FlashBusy ==
    /\ Runs("main") /\ stage = "menu"
    /\ stalled' = TRUE
    /\ UNCHANGED <<stage, DR, RXNE, ORE, RXNEIE, quiet, isrVars, sendVars,
                   schedVars, historyVars>>

FlashDone ==
    /\ stalled
    /\ stalled' = FALSE
    /\ quiet' \in 0..ByteTime
    /\ UNCHANGED <<stage, DR, RXNE, ORE, RXNEIE, isrVars, sendVars, schedVars,
                   historyVars>>

\* controler_init and ble_ctrl_init, from one start of a thread to the next.
Starts(here, next, t) ==
    /\ Runs("main") /\ stage = here
    /\ stage' = next
    /\ awake' = awake \cup t
    /\ head' = IF t \cap Peers = {} THEN head ELSE CHOOSE p \in Peers : p \in t
    /\ Counted
    /\ UNCHANGED <<DR, RXNE, ORE, RXNEIE, stalled, isrVars, sendVars, historyVars>>

StartCtrl == Starts("menu", "ctrl", {"ctrl"})
StartBle == Starts("ctrl", "ble", {"ble"})
RegisterCallback == Starts("ble", "callback", {})
StartShow == Starts("callback", "driving", {"show"})

-----------------------------------------------------------------------------

\* rt_thread_delay in the running thread: the next of its priority follows.
Sleep(t) ==
    /\ awake' = awake \ {t}
    /\ head' = IF t \in Peers /\ awake \cap Peers # {t}
               THEN CHOOSE p \in Peers : p # t ELSE head

\* A cycle of the control loop; ticks before it are time that it takes.
CtrlCycle ==
    /\ Runs("ctrl") /\ Sleep("ctrl")
    /\ Counted
    /\ UNCHANGED <<stage, DR, RXNE, ORE, RXNEIE, stalled, isrVars, sendVars,
                   historyVars>>

ShowRound ==
    /\ Runs("show") /\ Sleep("show")
    /\ Counted
    /\ UNCHANGED <<stage, DR, RXNE, ORE, RXNEIE, stalled, isrVars, sendVars,
                   historyVars>>

(***************************************************************************)
(* The ble thread: HAL_UART_Transmit, one byte a call.  Any of its steps   *)
(* may be preempted, and the time runs from tickstart.                     *)
(***************************************************************************)
BleStep == Runs("ble") /\ away' = FALSE /\ Counted
           /\ UNCHANGED <<stage, DR, RXNE, ORE, stalled, isrVars, historyVars>>

\* Only where it is in the call changes.
Goes(next) ==
    /\ ble' = next
    /\ UNCHANGED <<TXE, shifting, left, elapsed, late, due, delayed, schedVars>>

\* Mistaken variant of Begin: each call enables the interrupt again.
Begin_Reenables ==
    /\ BleStep /\ ble = "begin"
    /\ Goes("TXE")
    /\ RXNEIE' = TRUE

\* tickstart = HAL_GetTick(): elapsed is 0, as between the calls.
Begin ==
    /\ BleStep /\ ble = "begin"
    /\ Goes("TXE")
    /\ UNCHANGED RXNEIE

\* Mistaken variant of ReadTXE: the byte is written at once.
ReadTXE_NoWait ==
    /\ BleStep /\ ble = "TXE"
    /\ Goes("write")
    /\ UNCHANGED RXNEIE

\* UART_WaitOnFlagUntilTimeout: is there room?
ReadTXE ==
    /\ BleStep /\ ble = "TXE"
    /\ Goes(IF TXE THEN "write" ELSE "TXE_clock")
    /\ UNCHANGED RXNEIE

\* The byte is written. If the one before is still going out, and a tick has
\* come since that was written, both are out before the next tick.
Write ==
    /\ BleStep /\ ble = "write"
    /\ TXE' = FALSE
    /\ late' = (late /\ shifting)
    /\ ble' = "TC"
    /\ UNCHANGED <<RXNEIE, shifting, left, elapsed, due, delayed, schedVars>>

\* Mistaken variant of Return: the last byte is not noticed.
Return_OneMore ==
    /\ ble' = "begin" /\ elapsed' = 0 /\ due' = FALSE /\ delayed' = FALSE
    /\ IF left > 0 THEN left' = left - 1 /\ UNCHANGED schedVars
                   ELSE left' = Frame /\ Sleep("ble")
    /\ UNCHANGED <<TXE, shifting, late>>

\* The call returns, with HAL_OK or HAL_TIMEOUT, which nobody looks at.
Return ==
    /\ ble' = "begin" /\ elapsed' = 0 /\ due' = FALSE /\ delayed' = FALSE
    /\ IF left > 1 THEN left' = left - 1 /\ UNCHANGED schedVars
                   ELSE left' = Frame /\ Sleep("ble")
    /\ UNCHANGED <<TXE, shifting, late>>

\* UART_WaitOnFlagUntilTimeout again: is the byte out?
ReadTC ==
    /\ BleStep /\ ble = "TC"
    /\ IF TC THEN Return ELSE Goes("TC_clock")
    /\ UNCHANGED RXNEIE

\* Mistaken variant of ReadClock: a tick is enough.
ReadClock_Hasty ==
    /\ BleStep /\ ble \in Clocks
    /\ IF elapsed >= Timeout
         THEN RXNEIE' = FALSE /\ Return
         ELSE Goes(IF ble = "TC_clock" THEN "TC" ELSE "TXE") /\ UNCHANGED RXNEIE

\* If not, is the time over?  Then the receive interrupt is disabled, too; a
\* byte that was not written yet is left out.
ReadClock ==
    /\ BleStep /\ ble \in Clocks
    /\ IF elapsed > Timeout
         THEN RXNEIE' = FALSE /\ Return
         ELSE Goes(IF ble = "TC_clock" THEN "TC" ELSE "TXE") /\ UNCHANGED RXNEIE

BleThread == Begin \/ ReadTXE \/ Write \/ ReadTC \/ ReadClock

-----------------------------------------------------------------------------

(***************************************************************************)
(* SysTick: rt_tick_increase.  Delays of one tick end (ble and show), the  *)
(* one of ctrl may, and the time slice of ble or show may be used up.  The *)
(* guards late, due and away are the speeds of line and processor:         *)
(* - what was written is out before the second tick, as a byte takes less  *)
(*   than a tenth of one;                                                  *)
(* - ble gets through a call in less than a tick that it has to itself;    *)
(* - when it finds a flag not set after a tick, the next tick is far: it   *)
(*   reads the clock before it, unless it loses the processor.             *)
(***************************************************************************)
NewHead(woken) ==
    LET before == awake \cap Peers
        after == (awake \cup woken) \cap Peers
    IN  IF before = {} THEN (IF after = {} THEN {head} ELSE after)
        ELSE IF Running = head THEN after ELSE {head}

Tick(ctrlWakes) ==
    /\ isr = "out" /\ ~stalled /\ stage \notin {"reset", "menu"}
    /\ late => TC
    /\ ~due
    /\ ble \in Clocks /\ late => away
    /\ LET woken == (Started \cap Peers) \cup {t \in {"ctrl"} : ctrlWakes}
       IN  awake' = awake \cup woken /\ head' \in NewHead(woken)
    /\ elapsed' = IF ble = "begin" \/ elapsed > Timeout THEN elapsed ELSE elapsed + 1
    /\ late' = TRUE
    /\ due' = (ble # "begin" /\ Running' = "ble")
    /\ LET loses == Running = "ble" /\ Running' # "ble"
       IN  /\ delayed' = (delayed \/ (loses /\ ble \in Unwritten))
           /\ away' = (away \/ (loses /\ ble \in Clocks))
    /\ robbed' = (robbed \/ (elapsed' > Timeout /\ (delayed' \/ away')))
    /\ UNCHANGED <<stage, lineVars, isrVars, TXE, shifting, ble, left, latest>>

Interrupt == ReadStatus \/ ReadData
MainStarts == StartBle \/ RegisterCallback \/ StartShow
Step == \/ EnableInterrupt \/ FlashDone \/ MainStarts
        \/ CtrlCycle \/ ShowRound \/ BleThread

Next ==
    \/ \E b \in Bytes : ByteIn(b)
    \/ Load \/ ByteOut
    \/ Interrupt
    \/ FlashBusy \/ StartCtrl \/ Step
    \/ \E ctrlWakes \in BOOLEAN : Tick(ctrlWakes)

(***************************************************************************)
(* The interrupt handler and the thread that has the processor get on, a   *)
(* byte is sent some time, and the delay of ctrl ends: interrupts of the   *)
(* UART only postpone the tick.  Nobody has to leave the menu.             *)
(***************************************************************************)
Fairness ==
    /\ WF_vars(Interrupt) /\ SF_vars(Step) /\ WF_vars(Load \/ ByteOut)
    /\ SF_vars("ctrl" \notin awake /\ Tick(TRUE))

Spec == Init /\ [][Next]_vars /\ Fairness

-----------------------------------------------------------------------------

(***************************************************************************)
(* Whenever a thread runs on the driving car and the receive interrupt is  *)
(* still enabled, the last byte that came in has been handed over: while   *)
(* the car drives no byte is lost, though the interrupt was enabled in the *)
(* middle of the traffic and the flash stopped the core (rt_uart_isr).     *)
(***************************************************************************)
UpToDate ==
    RXNEIE /\ latest # NoByte /\ isr = "out" /\ ~Pending => heard = latest

(***************************************************************************)
(* The receive interrupt is disabled only by a call that ble lost the      *)
(* processor in and that lasted two ticks for that: before it wrote the    *)
(* byte, or between reading a flag and the clock.  To lose it in the wait  *)
(* for TC before reading the flag, for however long, does no harm          *)
(* (UART_WaitOnFlagUntilTimeout, called by rt_uart_send).                  *)
(***************************************************************************)
DeafOnlyIfRobbed == stage # "reset" /\ ~RXNEIE => robbed

(***************************************************************************)
(* Frames stay whole though nobody looks at the result of                  *)
(* HAL_UART_Transmit.  After a call that timed out its byte may just have  *)
(* been written; the next one is not written over it.  And a call has to   *)
(* wait for room, where alone a byte of the frame may be left out, only    *)
(* after such a time-out: while the car hears commands all that it sends   *)
(* goes out (rt_uart_send, sds_output_data).                               *)
(***************************************************************************)
FramesWhole ==
    /\ ble = "write" => TXE
    /\ ble = "TXE_clock" => ~RXNEIE

(***************************************************************************)
(* The control loop runs cycle after cycle, whatever comes in and however  *)
(* the sends time out: no interrupt comes back for ever.                   *)
(***************************************************************************)
KeepsBalancing == /\ stage = "driving" ~> "ctrl" \in awake
                  /\ stage = "driving" ~> "ctrl" \notin awake

(***************************************************************************)
(* A byte that comes in between the two reads of the handler, with another *)
(* already lost, leaves an interrupt pending that nothing serves, and all  *)
(* threads stand still; the bytes that follow set them free again.  As     *)
(* long as bytes keep coming the threads get the processor again and again *)
(* (rt_uart_isr, which never clears ORE by itself).                        *)
(***************************************************************************)
FreezeEnds ==
    []<><<\E b \in Bytes : ByteIn(b)>>_vars
      => []<>(isr = "out" /\ ~Pending /\ ~stalled)

(***************************************************************************)
(* Every byte the remote controls send is taken while the car drives: they *)
(* steer it (README.md, "direction control of the car").                   *)
(***************************************************************************)
EveryByteTaken == (RXNE /\ stage = "driving") ~> ~RXNE
=============================================================================
