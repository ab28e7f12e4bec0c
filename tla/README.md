# A verification of Robot-Components

TLA+ models of the C libraries under `Implementation/Source` (a cooperative
scheduler, the nRF8001 Bluetooth stack, encoders, distance sensors, a bootloader
setup) and of sketches that use them, checked with TLC on small instances, and
proofs about them checked with TLAPS. The target is an AVR: one core, interrupts,
8-bit registers, `int` of 16 bits, no operating system. Paths below are relative to `src/Implementation`.

## 1. The system

Every library is a set of C functions over file-scope variables or a structure
the caller passes. Two things run: the **main context** and **interrupt
routines**, which run at any point where interrupts are enabled and are not
interrupted themselves. Main code calls libraries; libraries call the hardware
abstraction layer, a submodule whose sources are not in the repository.

| Component | State | Operations | Who else touches it | Modelled in |
|---|---|---|---|---|
| Scheduler, `scheduler.c` | task table (period, function, isActive, countdown), number of tasks, millisecond flag and count | init, start, stop, createTask, destroyTask, enableTask, disableTask, loop | the timer interrupt; task functions, which may call every operation while the loop walks the table | `Scheduler`, `SchedulerStatic`, `SchedulerDynamic` |
| ACI queue, `aci_queue.c` | ring of packets, 8-bit head and tail | init, enqueue, dequeue, peek, is_full, is_empty, and `_from_isr` variants | one side is main code, the other the interrupt routine | `Fifo`, `AciQueue` |
| ACI transport, `hal_aci_tl.c` | two queues, REQN line, attachment of the interrupt, interface kind | send, event_get, event_peek, q_flush, the routine `m_aci_isr` or the polling `m_aci_event_check` | the radio, which pulls RDYN and exchanges a packet each way in one transfer | `AciTransport`, `AciPolling` |
| ACI setup, `aci_setup.c` | offset into the setup messages, guard counter | do_aci_setup | the transport and the radio move on while it waits | `AciSetup` |
| ACI library, `lib_aci.c` | pipes open, data credits, timing parameters | commands to the radio, event_get | events on their way describe a past state of the radio | `LibAci`, `HeartRate` |
| Heart rate sketch, `ble_heart_rate_template_with_battery_service` | a ring of samples for each of two services, credits | the main loop; the timer interrupt | the interrupt fills the rings the main loop empties | `HeartRate` |
| Keyboard with two bonds, `ble_HID_keyboard_2_bonds_template` | EEPROM header and bond data, counts and offsets in RAM | restart, store a bond, restore a bond, advertise, clear | power losses; the radio, which refuses and answers late | `Bonds` |
| Bootloader setup, `bootloader_setup.c` | EEPROM cells, CRC, `boot_key` in RAM that survives a reset | data_store, jump, jump_check | resets, the watchdog, worn cells, the RDYN line of the radio | `Bootloader` |
| Encoders, `encoder.c` | a 32-bit counter and the last pin levels of each | init, start, stop, getCounter, resetCounter, the routine `encoder_increment` | four pins share one routine; main code reads bytes while it runs | `Encoder` |
| Distance sensor, `vl53l0x.c` | address, timeout fields, a millisecond count | init, start, stop, setAddress, setMode, single and continuous ranging, timeoutOccurred | the sensor answers when it likes; the timer interrupt counts; several sensors share a bus and a default address | `RangeTimeout`, `DistanceSensors`, `TimingBudget` |
| Surface sensor, `surface_sensor.c` | two thresholds in bytes | thresholds, calibration, isWhite, isBlack | - | see 6 |
| Motor, PID, debug output, button | pins; none; none; none | - | - | see 6 and 7 |
| ACI encoder/decoder `acilib.c`, HAL, examples, doxygen, `Debug/` | - | - | - | not modelled, see 7 |

How they interact: the application calls `scheduler_loop` for ever, which calls
task functions; `lib_aci` sends and receives through `hal_aci_tl`, which owns
two `aci_queue`s shared with its interrupt routine; `do_aci_setup` uses both
layers; the timer interrupt feeds the scheduler and the distance sensor.

What is hard in them, and what makes each correct:

- **Scheduler.** The table changes under the loop that walks it; a slot keeps
  its `isActive` bit when tasks move; countdowns wrap; a tick may come while a
  pass runs. Correct: no null call, every walk ends, exact periods, only enabled
  functions run, each task is counted once per walk.
- **Queue and transport.** Every step of main code may be interrupted; the
  indices wrap; the routine must never find the queue full. Correct, until a
  packet is overwritten at the wrap (5, entry 1): FIFO, no packet lost or
  repeated, no command forgotten.
- **Setup and library.** Answers come late, after timeouts and retries; events
  describe a link that is gone; the radio restarts after a hardware error.
  Correct: success means configured, the picture of the pipes catches up, a
  client that counts its credits conserves them.
- **Bootloader.** A reset between any two EEPROM writes; a jump that waits for the
  radio. Correct: data that looks valid is one whole image, one jump per request.
- **Encoders.** Two encoders share one routine and one comparison, and each pin is
  read by itself. Correct: slow wheels are counted exactly, each for its own
  encoder, and fast ones never ahead of what they turned.
- **Distance sensors.** Waits that need not end, a clock that wraps and is torn,
  sensors that all come up at one address and may fail to start. Correct: waits
  end neither early nor late, one sensor answers, readings are new, each sensor
  keeps its own mode.
- **Sketches.** Samples pass from an interrupt to the main loop without a lock;
  bonds are written a cell at a time and read back after a power loss. Correct:
  the rings are queues, a bond declared valid is whole and is offered again.

`PROJECT.json` lists each such hazard at its line with the properties that would
catch it going wrong.

## 2. The modules and how they correspond to the code

A variable of a module is a variable or field of the code, or the external world
(the radio, the sensors, the wheels), or a history variable its comment declares.
An action is a function, or a part of one that is not interruptible: where
interrupts are enabled inside a function, it is split, and `pc` says where main
code is. `Fault...` operators beside a definition are what a plausible bug would
make of it; they are used in no behaviour and serve to check that the properties
can fail. `map` in `PROJECT.json` gives the source lines of every definition.

- **`Scheduler`**: the table operations are one step each, since the interrupt
  does not touch the table; `LoopStep` is one turn of the loop, `TaskReturn` the
  reload after the call. While `pc = "task"` the function called may do any
  operation in `TaskOps`. `milliseconds` and countdowns are modulo `Wrap` (2^16).
  Filling the table beyond its size is undefined in the code (`scheduler.c:70`)
  and excluded by a guard.
- **`SchedulerStatic`**, **`SchedulerDynamic`** restrict the client and add
  history variables: one that sets up its tasks before the timer starts, as
  `scheduler_example.c` does, and one that changes the table as it runs and keeps
  two rules: a function is registered once; a task is destroyed only while it and
  those after it are disabled. A task that destroys itself below an enabled one is
  outside these rules: the walk skips the one that moves into its slot, and nothing
  is claimed of it.
- **`Fifo`** is the abstract queue; **`AciQueue`** the ring with its two 8-bit
  indices, the calls of main code in the pieces between which the routine can
  run. `IsFifo` is the refinement: `INSTANCE Fifo WITH queue <- Contents`, until
  `overrun`: a packet that waits has been overwritten.
- **`AciTransport`**: the interrupt-driven interface over two queues, each a
  sequence and the head of its ring. With the head near the wrap a full queue is
  not found full (`Full`), and an enqueue overwrites what waits (`Put`), as
  `txOverrun` and `rxOverrun` record. `Isr` is `m_aci_isr` in one step; `Send...`
  and `Get...` the steps of main code.
  **`AciPolling`** adds the polled interface, where main code does the transfer
  itself, and `EitherSpec`, which begins with either.
- **`AciSetup`**: `FillSend`, `FillDone` for `aci_setup_fill`; `Loop...` for the
  branches of `do_aci_setup`; the transport is its two queues.
- **`LibAci`**: the library's actions in the hands of the uart sketch, with the
  radio's link, pipes and data packets as the world they describe. The client is
  the sketch's `loop()` as it runs: it sends a typed line without testing pipes or
  credits and counts none (`uart_tx`, which would, is never called). `RadioFails` is
  a hardware error, after which both sketches advertise again with pipes and credits
  as they were; one at start-up changes nothing and is `Init`. `SendOther` stands for
  the commands that keep no state. **`HeartRate`** extends it with the other client,
  which counts, and halts when the radio refuses a command: `Sample` is the
  interrupt; `SendFromBuffer`, `Erase` and `Advance` the pieces of
  `send_data_from_..._buffer` between which it may come; `EitherSpec` runs either
  sketch. Its rings are refinements of `Fifo`.
- **`Bonds`**: the events of `aci_loop` one action each, `bond_data_restore` and
  `bond_data_read_store` in the pieces between which the radio answers, and
  `bond_data_store` a cell at a time, with `Boot` at any time. A message is three
  cells, of which one is its data; cells are bytes modulo `Byte`, as the offsets
  stored in them are.
- **`Bootloader`**: one step per EEPROM byte, those of the CRC included, any of
  which may be worn; `Interrupted` at any time. The image that is written has lost
  what the code loses of the caller's data (5, entries 8 and 9). A jump is the wait
  for the ready line, which the radio moves as it likes, then the key and the
  watchdog.
- **`Encoder`**: the routine a pin at a time (left pins, then right pins, the two of
  an encoder in either order); reads and resets in bytes. `Init` is both encoders
  initialized, then started, with any levels of the pins if the wheels are fast;
  the application of slow wheels initializes and resets while the pins are low.
- **`RangeTimeout`**: the clock byte by byte; the waits of `vl53l0x_start` and
  `vl53l0x_readRangeSingle`. The application sets a timeout before `vl53l0x_init`,
  which clears it, or after, or never. **`DistanceSensors`**: starting, addressing, setting
  modes and polling three sensors, starts that fail included. It extends
  **`TimingBudget`**, the arithmetic of timing budgets and the two-byte coding of
  timeouts as operators, with the code's own numbers.

`MC...` modules extend these for TLC. `...Proof` modules hold the proofs.

## 3. What the runs check

Each run has the properties of its `.cfg`; all pass. Definitions that say without
a condition what a header or comment promises, and that the code does not satisfy,
stand beside them and are in no `.cfg` (5).

| Run | What it shows | Bounds, and why they are enough |
|---|---|---|
| `scheduler` | `NoNullCall`, `EnabledTaskRuns` for any client, also one whose tasks change the table during the walk | 2 functions, 2 slots, periods 1 and 2, counters modulo 3: tables fill, slots are reused with old bits, countdowns wrap while disabled |
| `scheduler_static` | `TicksAccounted`, `ExactPeriod` | 3 slots, periods 0 to 2, modulo 4, 6 ticks: each slot runs repeatedly, and period 0 wraps |
| `scheduler_dynamic` | `OnlyWantedRun`, `CountsOnce`, for the client with the two rules | 3 functions and slots: a task can destroy one above, create one, and leave one between |
| `aci_queue` | `IsFifo`, `OverrunAtWrap` for both queues | the real sizes, 4 slots and 8-bit indices, so that both wraps happen; two packets tell order apart |
| `aci_transport` | `NeverSpins`, `EventsInOrder`, `CommandsInOrder`, `CommandRequested`; polled: `CommandsGetOut`, `EventsGetIn` | queues of 2 and a wrap of 4, so that a head at half of its range is near the wrap; 5 commands and 5 events, which can overrun either queue after it was filled and emptied; flushes at any time |
| `aci_setup` | `OfferedInOrder`, `SuccessConfigured`, `OthersReachApp`, `CallReturns`, `SetupSucceeds` | 4 messages through a queue of 2, a guard of 1 round, 2 calls, 1 new reset, 3 other events: late answers reach the retry |
| `lib_aci` | `PictureCurrent` with either sketch, `CreditsAccounted`, `SamplesFifo` with the one that counts | 2 pipes, 2 credits, 2 commands and 3 events under way, 2 links, a hardware error: events of an old link meet a new one. Rings of 2 and of 1 slots fill and wrap; the bound `RingsOrLinks` of `MCHeartRate` leaves out a second link, an error or a second event together with more than single samples of the heart rate |
| `encoder` | `EdgesCounted`, `NeverOvercounts` | bytes of 1 bit, two of them: a count carries at 2 and wraps at 4, which the 4 edges of a slow wheel reach; 3 edges of a fast one fall between all the readings of the routine |
| `bootloader` | `ValidMeansWhole`, `OneJumpPerRequest`, `TrueMeansStored`, `JumpArrives` | configurations that differ in pins and timeout, and one with a third pipe and a timeout above a byte; 3 calls, 2 jumps, cells of data and of the CRC that may wear out |
| `range_timeout` | `NotEarly`, `NotLate`, `ReadingReported`, `WaitEnds` | bytes of base 3 (16 bits are 9, 32 are 81), timeout 4 or none, one interrupt per round of a loop: the count wraps and is torn. Fewer interrupts in a round than half a byte's worth are assumed (`PaceAssumption`), as a transfer takes less than 128 ms; with half or more, TLC finds `NotLate` violated |
| `distance_sensors` | `AloneAtAddress`, `BudgetMet`, `ReadingsAreNew`, `EachIsRead` | the robot's three sensors, 2 measurements each, 2 stops or failed starts, the slowest mode and the fastest. `SweepAssumption` evaluates the coding for a budget per macro period from 20 ms to 2.1 s, as far as 32-bit arithmetic of TLC goes: each is met, as 4 proves for all, and a larger one never shortens a measurement |
| `bonds` | `ValidBondWhole`, `BondsKept`, `RestoredAsStored`, `EachBondOffered` | 2 messages a bond, 2 bonds, 2 power losses, 1 failure of the radio: power is lost in the middle of either bond, and again after the restart |

`TypeOK` of a module says what its variables range over and is the first part of
the invariants of its proofs (4), which is where it is established.
`CHECK_DEADLOCK FALSE` stands only in `AciSetup.cfg` and `LibAci.cfg`, whose
bounds on calls, events and links let a behaviour end.

Every property has a `Fault` operator in `PROJECT.json` under which TLC finds it
violated in the same run.

### Fairness

- `Scheduler`: `WF(Tick)`, since a running timer interrupts, and `WF(Loop)`, since
  main code calls `scheduler_loop` for ever and task functions return (the
  scheduler is cooperative). `EnabledTaskRuns` needs both; nothing is assumed of
  the client, which may destroy tasks for a while but not for ever: each removal
  hands countdowns on to other tasks.
- `AciPolling`: the polled application polls for ever, the radio answers REQN, a
  call that was begun goes on. Of the interrupt-driven interface only safety is
  stated (see 5, second entry).
- `AciSetup`: `WF(Setup)`: the code of `do_aci_setup` runs on. Of the radio
  nothing is assumed for `CallReturns`; `SetupSucceeds` is about a *prompt* radio,
  chosen in `Init`, that answers within the guard.
- `Bootloader`: a call that finds the ready line low goes on, the watchdog bites and
  start-up code runs `jump_check`. Nothing is assumed of the ready line: `JumpArrives`
  admits one that is high.
- `RangeTimeout`: the loop goes round and the timer ticks. The sensor may never
  answer. `WaitEnds` is about waits that have a timeout.
- `DistanceSensors`: the application polls for ever, and stops a sensor that did
  not start.
- `Bonds`: the sketch runs, the radio answers, links end; strong fairness of the
  end of advertising says that a peer does not come in time every time, for a
  sketch whose advertising is always answered never gets to its other bond.
- `LibAci`, `HeartRate`: none; their properties are safety.

## 4. What is proved

All theorems hold for every value of the constants that satisfies the named
`ASSUME`s (sizes and widths are positive, periods fit the counter, the null
pointer is no task function; two of them bound what the environment does, and are
named below where they are needed); nothing else is assumed.

- **`SchedulerProof`**, for any table size and counter width: `TypeCorrect` and
  `NeverNull`, for any client. The inductive invariant is `TypeOK /\ NoNullCall`
  with the fact that a task function is being called only from a slot of the table
  (`pc = "task" => i \in Slots`), needed because `TaskReturn` writes slot `i`
  after the function may have destroyed every task.

  For the client that sets up its tasks first, `AccountsForTicks`, `KeepsSchedule`
  and `RunsEveryInterval` (`ExactPeriod`). The periods do not follow by themselves;
  the inductive invariant `OnSchedule` says of every active slot that passes since
  the last run and passes to go make the interval, a slot the walk has counted
  being one ahead of the others. A step that calls a function has no passes to go,
  hence exactly `Interval` since the last call.

  For the client that changes the table by the two rules of 2, `BitsAlwaysMatch`,
  `OnlyWanted` (`OnlyWantedRun`) and `WalksCountOnce` (`CountsOnce`). The inductive invariant
  `BitsMatch` says that functions are registered once, that the bits of used slots
  are what the client wants and that unused slots have a clear bit for the next
  `createTask`. For walks, `WalkOK` says that a function wanted since the walk
  began has been counted exactly if its slot is below `i`, or is `i` and its task
  is running.
- **`AciTransportProof`**: `TypeCorrect`, `RoutineNeverSpins` (`NeverSpins`),
  `CommandsRequested` (`CommandRequested`), `EventsKeepOrder` (`EventsInOrder`) and
  `CommandsKeepOrder` (`CommandsInOrder`), for every queue size, any number of
  commands and events, flushes included, and for either interface, interrupt-driven
  or polled. `OverwritesAtWrap` (`CoveredAtWrap`): a packet that waits is overwritten
  only with the head within a queue's size of the wrap. All but `CommandsRequested`
  are of the time until one is overwritten in the queue they speak of; a queue
  does not outgrow its size before. The invariant `RoomKept` relates `wasFull` and `pc` to the attachment
  of the interrupt: from the test to the attachment a queue that was full keeps the
  interrupt detached, and there is room when it is attached. `Requested` extends the
  requests to the steps of `hal_aci_tl_event_get` up to the dequeue, where it may
  return without looking again. For the orders: what has left a queue, then what is
  in it, is increasing and is all the numbers given out but those flushed, a set
  of which is kept (`InOrderAppend`, `InOrderDrop`).

  Of the ring each of the transport's queues is kept in (`AciQueue`): `QueueIsFifo`,
  the refinement `IsFifo`, and `OverwrittenAtWrap` (`OverrunAtWrap`), for every queue
  size that divides the range of the indices, with producers that enqueue whenever
  the code's own test lets them. The arithmetic is in lemmas: the wrap of an index keeps its
  slot (`WrapKeepsSlot`, where the division is needed), and two indices less than
  `QueueSize` apart have two slots (`SlotsApart`). The inductive invariant `Held`
  says what main code knows in the middle of a call although the routine runs: room
  for the packet it is about to write, or a packet at the head that is still the one
  it read. One lemma for each end (`Appended`, `Taken`) then maps the step that
  advances an index to `Put` or `Take`.
- **`AciLibraryProof`**, for any number of messages, pipes, credits, links and
  events. Of the setup: `SetupTypeCorrect`, `OffersInOrder` (`OfferedInOrder`),
  `SuccessIsConfigured` (`SuccessConfigured`) and `PassesOthers` (`OthersReachApp`),
  with an invariant that says that the response a call handles is still at the head
  of its queue (`Held`) and that a COMPLETE, wherever it is on its way, came when
  the radio had all the messages (`AllTaken`).

  Of the library under either sketch, and a radio that restarts after hardware
  errors: `TypeCorrect`, `PictureCatchesUp` (`PictureCurrent`); and, with the sketch
  that counts, until the first hardware error, `CreditsConserved`
  (`CreditsAccounted`). Neither holds by itself, because
  events of an old link are handled in a new one. `CommandsOK` says that nothing
  of an old link follows a connect command, `EventsOK` that between links the
  disconnected event is still to come or only errors of pipes are. Then
  `PictureOK`: the last event under way that shows pipes shows the radio's, and if
  none does the picture is the radio's already, or `stale`; and `CreditsOK`: in a link either
  its connected event is still to be handled, and nothing was sent, or the credits
  of the library, those on their way back and the packets on theirs are all there are.

  Of the heart rate client's rings, of any size: `SamplesInTurn`, the refinement
  `SamplesFifo` of `Fifo`. The two sides share no index, so the invariant `Rings`
  finds for each ring a number of full slots that follow one another from the first
  and end where the interrupt inserts (`Used`); while the loop is between looking at
  a sample and erasing it, that sample is still first (`Taking`).
- **`BootloaderProof`**: `TypesHold`, `FittingCrcMeansWhole` (`ValidMeansWhole`),
  `EntersOncePerRequest` (`OneJumpPerRequest`) and `TrueIsStored`
  (`TrueMeansStored`), for any configurations, any worn cells and resets at any
  time. `KeyCounted` counts a call that waits and a key that is set as a jump to
  come. For TRUE, the last call that had something to write must have returned TRUE
  itself (`settled`) and the cells of the CRC must not be worn; `CallInv` then says at
  every step of a call what the cells hold already (`Progress`) and what the CRC
  stands for (`Sound`), whatever data cells are worn. What is stored is the *image*
  of the caller's data (5, entries 8 and 9). `BlankAssumption`: the CRC cells as they
  were erased are not the CRC of any contents; and a CRC is ideal (7).
- **`EncoderProof`**: `TypesHold`, `EdgesOnlyMissed` (`NeverOvercounts`) and
  `SlowEdgesCounted` (`EdgesCounted`), for any width of a byte, and the first for any
  levels when the encoders are initialized. `Ahead` strengthens it: a counter and the
  pins at which the levels differ from those the routine remembers, which it might
  still count, do not exceed the edges; an edge adds one to either side. Until the
  routine has run once, nothing is counted, and what the levels at the start can add
  is one edge of an encoder (`Early`), never of both together, since it takes an edge
  to call the routine. While it runs, a pin counts against what was read of it and
  from there on. `Counting` strengthens the second: a slow wheel leaves at most one
  change waiting, at one pin, which is then the only difference the routine sees
  (`OneChange`), and the wrap of a counter is the wrap of the count (`ModStep`).
- **`RangeTimeoutProof`**: `TypeCorrect`, `EarlyIsExcused` (`NotEarly`) and `NeverLate`
  (`NotLate`), for any base of a byte, any timeout and any number of interrupts in a round that `PaceAssumption` allows:
  fewer than half a byte's worth. `Timely` says that without an excuse (a torn copy,
  a wrap of 16 bits) a check sees the time that has passed. For lateness, `Prompt`
  says what a tear can do: a reading of the count is torn at most once, since two
  carries are a byte's worth of ticks apart, and is then ahead by the place that
  was carried into. A start that holds the low 16 bits of the count is exact, or
  torn in its low byte, which only makes the wait shorter; with any other the first
  check gives up, or the second if the first is torn by the wrap of the count.
- **`DistanceSensorsProof`**, for any number of sensors: `EachAlone`
  (`AloneAtAddress`), `EachBudgetMet` (`BudgetMet`) and `EachReadingNew`
  (`ReadingsAreNew`). `Turns` relates the order of the starts to the sensors in use:
  only the last may keep the address all come up at, so while another is started it
  is not in use (`NobodyAtDefault`). A budget is met because the two-byte coding of
  a timeout cuts off less than a 127th of it, for any budget whose timeout fits its
  16 bits (`FitsField`, which `SensorsAssumption` asks of the modes used: budgets up
  to 2.5 s). For readings, `Measured`: a sensor with a measurement that was not
  cleared has a later one than the driver returned, but for the one just read.
- **`BondsProof`**, for any number of messages in a bond, any size of the command
  queue, any number of bonds made, power losses and failures of the radio:
  `TypeCorrect`, `StoredWhole` (`ValidBondWhole`) and `StoredKept` (`BondsKept`).
  That a valid header has a whole bond behind it needs three arguments, one for each
  group of parts of the invariant `Inv`.

  *The messages are one bond's.* A bond is read with a command for each message, and
  nothing in the sketch relates an answer to its command. `ReadOK` says that either
  the read is lost already (`Foul`: the next event is one that ends it, or will be),
  or command, answer and radio agree on one peer and on which of its messages is
  next (`Asked`, `Answered`, `Took`). That no link begins meanwhile follows from what
  may still be in the queues: `LinkOK` and `StandOK` say which commands and events
  there are while a link lasts and after it.

  *No write covers another.* While a bond is read, the offset is where its messages
  so far end (`CountOK`, `Written` within a message); the second bond begins behind
  the first (`End0`), and the first nowhere near the header (`Clear4`). This is where
  an offset must fit the byte it is kept in (5, entry 19).

  *A restart counts right.* After a loss of power only the header is left. `Whole`
  and the offsets stored with it (`BondsOK`) must hold after every single write;
  `BootOK` is about the restart, until `Recount` has run. All this is claimed until a
  clearing is begun and not ended (`Uncut`).

**Only model-checked:** liveness (`EnabledTaskRuns`, `CommandsGetOut`,
`EventsGetIn`, `CallReturns`, `SetupSucceeds`, `JumpArrives`, `WaitEnds`,
`EachIsRead`, `EachBondOffered`), which rests on fairness and `ENABLED`, out of the
prover's reach; that a larger timing budget never shortens a measurement
(`SweepAssumption`); `ReadingReported`; and `RestoredAsStored`, which needs an invariant about the
messages of a restore, as `ReadOK` is about those of a read (6).

## 5. Where the code and its documentation disagree

The properties are stated with the condition under which the code satisfies them;
these are the conditions that were found, each with what its documentation says.
Where a definition is named that "does not hold", it states the documentation's
words in the module of the component and is in no `.cfg`; added to that of the
component's run, TLC finds it violated by the behaviour described.

1. `aci_queue.c:148, 160`: the test for a full queue is an `int` comparison of
   `tail` with `head + ACI_QUEUE_SIZE`; for `head` in 252..255 it never holds, and
   an enqueue into a full queue overwrites the oldest packet ("A FIFO queue is
   maintained", `aci_queue.h:46`): `AlwaysFifo` does not hold. In the transport the
   packet is lost, the queue counts too many, and the routine may then spin for want
   of room. `IsFifo` and the properties of `AciTransport` are of the time until then,
   and it happens nowhere else (`OverrunAtWrap`, `CoveredAtWrap`).
2. `hal_aci_tl.c:307`: `was_full` is read before the dequeue. If the routine fills
   the queue and detaches its interrupt in between, nobody attaches it again until
   a later call sees the queue full ("until we have room", line 115):
   `DetachedOnlyWhenFull` does not hold. Only safety is stated for the
   interrupt-driven interface.
3. `lib_aci.c:587`: a pipe status event handled after `lib_aci_disconnect` restores
   the pipes that line 334 clears so that "the application can't attempt sending".
   `PictureCurrent` speaks of the time when no event is under way.
4. `lib_aci.h:368-370` says that `lib_aci_send_data` "memorizes credit use, and checks
   that enough credits are available"; `lib_aci.c:395-419` does neither. It is left to
   clients, and the uart sketch (`ble_uart_project_template.ino:514`) does not:
   without `at # Uart`, `CreditsAccounted` does not hold. Nor does the library do
   anything about a hardware error, and both sketches advertise again and leave the
   pipes: `AvailableIsOpen` ("True if the pipe is available", `lib_aci.h:161`) does
   not hold until the radio shows pipes again or reports the end of a link or of
   advertising.
5. `encoder.c:117`: a reset clears `lastState`; with a pin high, the next edge of
   the *other* encoder is missed (`encoder.h:80`: "for the specified encoder").
   `encoder.c:94`: so does `encoder_init`; with a pin of each high, an edge of one
   wheel is counted for the other, which has not turned ("number of impulses generated
   by the encoder", `encoder.h:37`): `OwnImpulses` does not hold. `EdgesCounted` is for
   pins that are low at both; `NeverOvercounts` says how far a counter can be ahead.
6. `encoder.c:111`: the 32-bit counter is copied with interrupts enabled; a carry in
   between returns a value it never had ("value of the counter", `encoder.h:76`):
   `GetHeld` does not hold.
7. `bootloader_setup.c:113`: the stored CRC alone decides that nothing is to be
   written; after a reset in the middle of a write, or a write that a worn cell
   refused, a later call returns TRUE although the data is not there
   (`bootloader_setup.h:18`): `TrueMeansWritten` does not hold. Line 157 compares the
   EEPROM with itself, so with worn cells of the CRC the call that failed may return
   TRUE. `TrueMeansStored` asks that the last call that wrote returned TRUE and that
   these cells take their writes.
8. `bootloader_setup.c:84, 86`: a cast to a byte before the shift loses the upper
   byte of timeout and interval, which are to be stored (`bootloader_setup.c:64-66`).
   Modelled as it is: `DataStored` does not hold.
9. `bootloader_setup.c:91, 98, 128`: `sizeof(pipes)` is the size of a pointer, not
   `n_pipes`, and pipes after the second are lost. Modelled as it is: the same.
10. `vl53l0x.c:114, 119`: `timeoutStart` keeps 16 bits of a 32-bit count and the
    difference is 32-bit: after 65.5 s every wait is given up at its first check,
    and so may be one whose reading of the count is torn. `NotEarly` excludes both.
11. `vl53l0x.c:568`: `vl53l0x_init` clears `i2cTimeout`, which `vl53l0x_example.c:29-35`
    sets before it: a wait for a silent sensor then never ends, and `ChosenWaitEnds`
    ("I2C request timeout in milliseconds", `vl53l0x.h:53`) does not hold. `WaitEnds`
    is about waits that still have a timeout.
12. `vl53l0x.c:249, 368`: a timeout in `vl53l0x_start` does not set `timedOut`
    ("Indicates whether an I2C timeout occurred", `vl53l0x.h:56`): `TimeoutIndicated`
    does not hold. `ReadingReported` is about single readings, whatever is called
    before the application asks.
13. `vl53l0x.c:748`: `vl53l0x_stop` resets the sensor, which returns to the default
    address, but the structure keeps the old one: started again, it is talked to
    where nobody answers (`vl53l0x.h:12`). The run restarts the sensor that has the
    default address.
14. `vl53l0x.c:734`: "Set default timing budget" passes 30 where microseconds are
    taken and less than 20000 is refused; the result is ignored. Modelled as it is.
15. `surface_sensor.c:105`: a calibration reading that is a new maximum is never
    compared with the minimum; `surface_sensor.c:89`: a threshold of 176 or more
    wraps. Not modelled.
16. `vl53l0x_example.c:203-216` does not look at what `vl53l0x_start` returns
    ("@return Whether the initialization sequence was completed successfuly",
    `vl53l0x.h:84`): a sensor that failed to start stays at the default
    address, where the next one comes up. `DistanceSensors`' application stops it.

In the sketch with two bonds (`.ino` is `ble_HID_keyboard_2_bonds_template.ino`):

17. `.ino:289-323`: after a refusal in the middle of a restore no further message is
    sent and the loop waits for ever, unless this was the last message. `Stopped`
    in `EachBondOffered` admits it.
18. `.ino:649-658`: with both places taken and pin 2 high neither bonding nor
    advertising is started, and nothing more happens. Admitted by `Stopped`.
19. `.ino:383-385`: the number of messages and the offset of the next bond are two
    writes. Power lost between leaves the offset 0xFF, from which the second bond is
    then written; its end no longer fits the byte kept of it (`.ino:631`). Restoring
    still works. The same byte limits reads that fail: each leaves the offset where
    it stopped (`.ino:397`), so with enough of them the first bond is still stored
    where its offset fits, but the offset of the second, behind it, is cut: the second
    bond is looked for where it is not, or after a restart written where it does not
    belong (TLC finds `ValidBondWhole` violated with two failures when only the first
    offset must fit). `Fits` asks for room for both;
    `tidy` excludes an offset that does not.
20. `.ino:385`: after the second bond the offset of a third is written to cell 5, the
    opcode of the first bond's first message. `.ino:278` puts it right ("Fix this bug
    that is changing this byte"), and `WriteMessage` does.
21. `.ino:837-840`: clearing that is cut short leaves the second bond valid and
    uncounted. `tidy` excludes it.
22. `.ino:295-301`: any event other than a response ends a restore as failed and is
    dropped, a hardware error or a start included; a late response of another
    command is taken for the answer (`.ino:302-321`). `RestoredAsStored` shows that a
    restore reported as complete is one all the same, unless the radio has failed
    since.

In the heart rate sketch:

23. `heart_rate.h:45-46`: "If non 0, data will be inserted in FIFO buffer and sent
    whenever data credit is available"; `battery.h:46-49` likewise. With the sizes as
    shipped, 0, the interrupt routine sends (`.ino:170, 197`), decrements the
    credits main code is adding to and encodes into the message main code may be
    encoding. `HeartRate` is the sketch with its buffers.
24. `heart_rate.cpp:102-103`, `battery.cpp:91-92`: a sample is erased whether it
    could be sent or not, as when the first service took the last credit or the
    pipe is closed. `SamplesFifo` is about taking samples, not about sending them.
25. `battery.cpp:185-186`: the level is remembered as reported also when the command
    queue was full. Modelled as it is.

And again in the bootloader setup:

26. `bootloader_setup.c:46-47`: the wait for the ready line has no limit ("Returns only
    if the jump wasn't possible", `bootloader_setup.h:30`): while the line is high the
    call neither jumps nor returns, and `JumpOrReturn` does not hold. `JumpArrives`
    admits a line that is high while the call waits, and a reset that comes first.

## 6. The plan

Written in this order, the most important behaviour first: `Scheduler` with its
two clients, the queue, the transport, setup, library, encoders, bootloader,
distance sensors, the heart rate client, the bonds. What is left:

1. A proof of `RestoredAsStored` of `Bonds`: what was sent back to the radio, next
   to `BondsOK`, which says what is stored.
2. Compositions: `AciTransport` over two `AciQueue`s instead of two sequences with
   their heads, which `QueueIsFifo` justifies for each queue alone; `AciSetup` and
   `LibAci` over `AciTransport`.
3. `lib_aci_board_init` of the v1.1 shield: a second producer of the receive queue
   in main code, and a started event it makes up itself.
4. Two motors that share an enable pin and a timer (`motor.c`), and the
   calibration of the surface sensor with its thresholds in bytes.
5. A liveness property of the interrupt-driven interface that says after which
   calls an interrupt left detached (5, entry 2) is attached again.

## 7. Not modelled, and what is assumed

- `acilib.c` writes and reads packet fields at fixed offsets: no state, no
  decision. The HAL is not in the repository. `Debug/` and `Documentation/` are
  generated.
- `Example/nRF8001/libraries` is a vendored Arduino library. Three of its sketches
  are modelled, as clients (1). The others repeat the same `aci_loop` over other
  services, each with a `services.h` and `services_lock.h` generated by Nordic's
  tool, and the library is there twice more, as C++ that differs from `Source/` in
  the names of the Arduino calls. These are most of the lines of the repository.
  Modelling them again would repeat `LibAci` and `AciTransport` with other names,
  so `map` covers a small part of all lines; under `Source/` it covers all of the
  scheduler, the queue, the setup, the bootloader setup and the encoders that
  changes state, and of the others what 2 says.
- Of `lib_aci.c`, commands that are encoded and sent without keeping anything
  (sleep, test, bond, echo, keys, advertising pipes and so on) are not actions:
  they only take room in the command queue, which `AciTransport` has full at any
  time.
- `pid.c` is one formula over a structure passed by value; `button.c` three calls
  of the HAL; `debug.c` formats numbers; `motor.c` writes pins.
- Registers of the distance sensor are kept where a property is about them
  (address, interrupt, timeout of the final step). Which page of registers a
  failed start leaves selected (`vl53l0x.c:249`) is not: the shutdown that has to
  follow resets it.
- Packets, readings and configurations are numbers or model values; debug
  printing, SPI bits, tuning registers and unit conversions to floating point are
  left out.
- A CRC is ideal: it tells any two contents apart, as does each of its two bytes.
- The interrupt routine of the encoders is a step for each pin because pins may
  change between its readings; every other routine is one step.
- The command queues of `AciSetup`, `LibAci` and `Bonds` refuse what is too much for
  them: they are away from the wrap of the indices (5, entry 1).
- The receive queue has one producer, the transmit queue one consumer, as in
  every use but `lib_aci_board_init` (`lib_aci.c:141`).
- The radio and the sensors are modelled from how the code uses them and marked
  external in `map`.
