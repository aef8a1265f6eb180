# Verification of the serial driver and its neighbours

TLA+ models of the Windows 2003 NT drivers in `src/`, model-checked with TLC
and, where a result should hold for every value of the parameters, proved with
TLAPS. The work starts with the serial port driver (`src/serial/serial`), the
most intricate of the drivers in portable C: one request is reachable from five
directions at once, and the driver has no lock that covers them. The second
subject is the watchdog library (`src/watchdog`).

## Inventory

`src/` holds some 7,700 files of many unrelated drivers. Those whose logic is
their own, and not a device's register map, are these.

### The serial driver

| part | state | operations | who interacts with it |
|---|---|---|---|
| read path (`read.c`, `utils.c`) | `CurrentReadIrp`, `ReadQueue`, the reference mask and cancel routine in each request, two timers, `CountOnLastRead`, `DpcCount` | `SerialRead`, `SerialStartOrQueue`, `SerialStartRead`, `SerialGetNextIrp`, `SerialTryToCompleteCurrent`, three DPCs, two cancel routines, kill | the ISR, timer expiry, `IoCancelIrp`, purge, error DPC |
| typeahead buffer (`read.c`, `isr.c`, `purge.c`) | the ring, its four pointers, `CharsInInterruptBuffer`, `NumberNeededForRead` | store, mark an overrun, two copies, switch to the user buffer, grab, purge, resize | the ISR at device level against one reader |
| write path (`write.c`, `immediat.c`, `flush.c`) | `CurrentWriteIrp`, `WriteQueue`, `TotalCharsQueued`, immediate character, XOFF counter, `EmptiedTransmit` | the same protocol as reads, and give-to-ISR / grab-from-ISR for three slots | the transmit half of the ISR, the receive half (XOFF counter) |
| wait mask (`waitmask.c`) | `IsrWaitMask`, `HistoryMask`, `IrpMaskLocation`, `CurrentWaitIrp`, `MaskQueue` | set mask, wait | events the ISR, the modem lines and finished writes record |
| flow control (`modmflow.c`) | `RXHolding`, `TXHolding`, `SendXonChar`, `SendXoffChar`, `CountOfTryingToLowerRTS` | set and clear RTS and DTR, XON/XOFF, change of settings; the polling that lowers RTS | ring fill level, modem lines, write path, close |
| stall gate and PnP (`utils.c`, `pnp.c`, `initunlo.c`) | `DevicePNPAccept`, `PNPState`, `PendingIRPCnt` and its event, `StalledIrpQueue` | prologue, filter, epilogue, stall, unstall, kill stalled; stop, remove, surprise removal and their queries | every dispatch routine against the PnP manager's thread |
| open, close, power, ioctl, WMI | `DeviceIsOpened`, power state | open, close, cleanup, set power, control codes | the gate and the queues |

What makes the parts correct:

* the read path starts one request at a time in the order of arrival, completes
  each once, never touches a completed one, misses no cancellation, ends every
  read that is cancelled, timed out or filled, and reports honestly how a read
  ended;
* the typeahead buffer hands out characters in line order, none twice, and the
  ISR stores only inside the buffer it was given;
* the write path has the same obligations in three slots; the count of
  characters queued is the sum over the queue; a transmitter that may send does
  not sleep on a write;
* no event between two waits is lost, and a wait is told everything since the
  last one;
* flow control holds the other side exactly while the buffer is too full, and
  RTS is up while a toggled line sends and comes down afterwards;
* the gate counts each request in the driver exactly once, so that remove
  neither passes a request nor waits for ever, and restarts every request it
  stalled.

What is hard: the reference mask is dropped by whoever comes last; timers that
have fired cannot be cancelled; `IoCancelIrp` races everything; dispatch,
cancel and DPC code all run the start loop; locks are given up in the middle of
loops; the ISR is kept out only by `KeSynchronizeExecution`; ring arithmetic
wraps; purge and resize cut into a read between its copies; a write's last
character is still in the shift register when the write is over.

### The watchdog library

| part | state | operations | who interacts with it |
|---|---|---|---|
| object (`object.c`) | `ReferenceCount`, `LastEvent`, `LastQueuedThread` | initialise, reference, `WdCompleteEvent`, destroy | both kinds of watch, the client |
| standard watch (`watchdog.c`) | `StartCount`, `SuspendCount`, `DueTime`, last run time, timer | start, stop, suspend, resume, reset, free; the timer's DPC | the owner, the timer, the thread's run time |
| deferred watch (`dwd.c`) | `State`, `Trigger`, four counts | the same, entering and leaving sections; the periodic timer's DPC | the owner, the watched threads, the timer |
| client (`gdisup.c`) | `g_lWdpDisplayHandlerState` | the client's DPC and its worker | the events of both |

Correct means: an object and its threads are referenced by whoever will still
use them and by nobody else; nothing is left running when Free returns; a
timeout is raised only about a thread that has really run that long, a thread
that is stuck is reported, and so is its recovery.

### Other drivers

* **classpnp** (`src/storage/classpnp`): transfer packets, retries, remove lock,
  power. **partmgr**: partition arrival and removal against the volume manager.
* **scsiport, storport**: queues with freeze and busy counts.
* **kbdclass, mouclass**: input rings with pending reads; **parport2**: port
  allocation; **serenum**: a filter that detects serial devices.
* ramdisk, beep, null, wmilib: mostly sequential; ks, sac, net miniports, smart
  card readers, APM, video and WDM devices: frameworks or device code.

PROJECT.json lists each with its status, and the hazards at their lines.

## Modules

| module | what it is |
|---|---|
| `IrpQueue` | abstract: what a queue of requests promises its callers |
| `SerialRead`, `MCSerialRead`, `SerialReadProofs` | the read path, one step per lock section, interrupt, timer expiry or DPC; its instances for TLC; its theorems |
| `CharQueue` | abstract: what a typeahead buffer promises its readers |
| `SerialRing`, `MCSerialRing`, `SerialRingProofs` | the ring, the user buffer and what moves characters between them |
| `SerialWrite`, `MCSerialWrite`, `SerialWriteProofs` | the write path: writes, flushes, XOFF counters, immediate characters and the transmitter |
| `SerialWait`, `MCSerialWait`, `SerialWaitProofs`, `QueueLemmas` | the wait mask; lemmas about queues without repetitions |
| `SerialFlow`, `MCSerialFlow`, `SerialFlowProofs` | handshaking and holding in both directions, RTS toggling, close |
| `SerialPnp`, `MCSerialPnp`, `SerialPnpProofs` | the gate all requests pass, against the PnP requests that shut it |
| `WatchdogObject` | what both watchdogs have in common: object, references, events, client |
| `Watch`, `DeferredWatch` | the standard and the deferred watch over such an object |
| `Watchdog`, `MCWatchdog`, `WatchdogProofs` | their composition, with the properties of both; instances; theorems |

`SerialRead`, `SerialWrite` and `SerialWait` each implement `IrpQueue`: they are
three users of the same start loop and reference protocol. The seams between
the modules of the serial driver are: `SerialPnp` ends where a request is
accepted, and the others begin there; `SerialRead` shows that one reader at a
time is in the buffer, and `SerialRing` has one; `SerialWrite` has the reasons
to hold transmission change at will, and `SerialFlow` says which they are;
`SerialFlow` has the buffer fill and empty at will, and `SerialWrite` an XON or
XOFF prodded at will, whose sending both have; `SerialWait` has events at
will, and `SerialWrite` when a write empties the transmitter.

### SerialRead

The fields of the device extension and of the requests are variables, named as
in the code where the name was short enough. A *context* is a thread or a
processor with a place `pc` in the code; a processor runs at most one DPC
(`job`). `lock` is the cancel spin lock where it is held across steps.

* Granularity. What runs under the cancel spin lock is one step, because nobody
  who could see the middle can run: other lock holders are excluded, and ISR
  steps in between commute with it. There is one exception: when the interval
  timer finds that nothing was read, the ISR may still store characters before
  `SerialGrabReadFromIsr` runs. `IntervalExpired` takes the lock,
  `IntervalKill` gives it back.
* `SerialStartRead` is a loop that completes its read with no lock held. One
  iteration is `StartCopy` (first copy under the control lock), then one of
  `FinishAtOnce`, `FinishCancelled`, `FinishAtSwitch`, `SwitchToUser`, or
  `ResizeBuffer` for an `IOCTL_SERIAL_SET_QUEUE_SIZE`; then `GetNextIrp` or
  `GetNoIrp`, which complete the request and dequeue another. Completing
  happens just outside the lock in the code; the request is in nobody's reach
  then (that is `NoUseAfterCompletion` and `RefsMatchHolders`), so the two are
  merged.
* `TryToCompleteCurrent` is `SerialTryToCompleteCurrent` with the rundown of
  references; the three DPCs, the cancel routine and the kill routine call it.
* The kernel: `Expire` fires a set timer, `Deliver` runs a queued DPC,
  `CancelQueuedIrp`, `CancelCurrentIrp`, `FlagCancel` are the three outcomes of
  `IoCancelIrp`. DPC objects are queued at most once.
* Data: characters are counted only, timeouts are `zero`, `some` or `max`, since
  the code distinguishes no more. Interval time is abstract: a DPC that finds
  no characters may find the interval elapsed (`IntervalExpired`) or not
  (`IntervalRearm`).
* `RefuseAtDispatch` stands for the gate and for all early returns of
  `SerialRead`.

### SerialRing

Offsets replace pointers, `base` says which buffer `CurrentCharSlot` and
`LastCharSlot` point into. The ISR's `PutCharInUserBuffer`, `PutCharInRing` and
`MarkOverrun` interleave with every step of the reader; the control lock is
`place # "idle"`. `skewed` is a history variable. It becomes true when a read is
cancelled between its first copy and the accounting (see Findings), and false
when the ring is next empty: from then on count and pointers agree again.

### SerialWrite

A request sits in the queue or in one of three *slots*: the current write, an
XOFF counter whose character was sent and that now counts received characters,
and an immediate character. The slots run the same protocol, so `slot[s]` holds
the request, what the ISR still owes it (`WriteLength`, `CountSinceXoff`,
`TransmitImmediate`), its timer, and whether its completion and timeout DPC are
queued. The steps of the start loop are one per lock section: `PreemptXoff`
(a new write ends the counter), `FinishCancelled` or `GiveWrite`, then `Account`
and `AccountXoff` (the characters leave `TotalCharsQueued`), `GetNextIrp` and
`ProcessEmptyTransmit`; `GiveImmediate` and `GetNextImmediate` are those of
`SerialStartImmediate`. The transmitter is `ThrInterrupt` (the UART takes
`FifoSize` characters, or an XON or XOFF) and `Drain`; every other interrupt,
`XonReceived` and `OtherInterrupt`, ends with the look at the line status that
restarts a transmission nothing holds (`LeaveIsr`, `isr.c:1259`).

* Characters are counted. `held` is `TXHolding`, and `flowChar` is `SendXonChar` or
  `SendXoffChar`; receiving is `CountSinceXoff`, which matters only to an XOFF
  counter.
* Holds come and go at will, each in the way of the code. `Release` has what
  `SerialPretendXon`, `SerialTurnOffBreak` and `SerialHandleModemUpdate` do: they
  wake the UART when the last hold goes. `DropAutoTransmit` is the application
  that takes `SERIAL_AUTO_TRANSMIT` away (`modmflow.c:691`): the hold goes without
  a look at the writes, and an XON is prodded. `ProdXonXoff` wakes the UART only if
  neither character is to be sent already (`modmflow.c:1168`).
* `HoldingEmpty` and the THR interrupt are kept apart (`uart`), because the
  driver may find the register empty while no interrupt is due.
* The reference the driver takes to end a counter itself
  (`SERIAL_REF_XOFF_REF`) comes and goes within one lock section.
* Two history variables: `announced`, no request was transmitted since TXEMPTY
  was reported, and `stranded`, `DropAutoTransmit` dropped the last hold over
  waiting work without waking the UART, and nothing has woken it since.

### SerialWait

Mask and wait requests pass through `MaskQueue` one at a time. A wait leaves the
queue without being completed and becomes the current wait; `told` is what was
written to its buffer. `CheckWait` and `GiveWait` are two steps, because the
test for another wait is made without a lock: that the ASSERT after it holds all
the same is a property. Events are the steps `Event`, and for the transmitter
`Transmit` and `EndWrite`, with the flag `EmptiedTransmit`. `FinishOldWait` is
one routine at device level with the new mask. Reading the mask and the reset of
the mask in `SerialOpen` are left out.

### SerialFlow

`thr` and `shift` are the two registers of the UART: full, empty with an
interrupt due, or idle. `HoldingEmpty` follows from them. What the ISR, the
modem lines, the application and the three DPCs of RTS toggling do are one step
each, and `SerialClose` is `BeginClose`, `DrainClose` as often as it takes,
`EndClose`.

* One line stands for those that work alike: RTS handshaking for DTR, CTS for
  DSR and DCD, a write's character for an immediate one.
* `Expire` waits while an earlier expiry's DPC is queued: the timer runs for a
  character's time, and DPCs run long before.
* The two limits of the buffer are parameters with
  `XonLimit + XoffLimit < BufferSize`, as the driver sets them.
* Left out: `SERIAL_FLAGS_BROKENHW`, limits changed on the fly, resizing.

### SerialPnp

A request is at a place (`place`) on its way through `SerialIRPPrologue`,
`SerialFilterIrps`, its dispatch routine and `SerialIRPEpilogue`; the one PnP
request in progress is `op`, at `pc`. `SerialRead` and its neighbours begin
where this module has a request *accepted* and *pending*.

* Granularity. `Prologue`, `Filter`, `Stall` are three steps because the count
  is interlocked, the filter holds the flags lock, and the stall queue is under
  the cancel spin lock, with nothing held in between. `Epilogue` and `Signal` are
  two because `KeSetEvent` comes after the interlocked decrement. A create holds
  `OpenMutex` from before its prologue until it is open, stalled or turned away
  (`OpenMutexFree`). `Stop` merges setting STOPPED with clearing STOPPING:
  a filter in between stalls, as before.
* `KillPendingIrps` is `SerialKillPendingIrps` at the moment it finds its queues
  empty. A read that is queued after its own round but before that moment is a
  read that in the model is carried out after the kill.
* `PendingIRPEvent` is a synchronization event: the wait that it ends resets it,
  and a set event nobody waits for stays set.
* The I/O manager (`Submit`) sends reads and closes only on an open file and the
  close last; the PnP manager (`MaySend`) sends one request at a time in the
  order it documents, and no remove while a file is open or a request is on its
  way to the dispatch routine. These are assumptions about code outside `src/`.
* The device is started and closed at the beginning. `Open` may fail for any
  reason. POWER_DOWN is never set, because the code that set it is commented out
  in `power.c`, so the power routes of the filter are left out. Left out too are
  SERIAL_FLAGS_BROKENHW, the reopening of a port after sleep and wait-wake
  requests.

### Watchdog

`WatchdogObject` has the state of both kinds of watch, the events on their way
(`event`: queued in the client's DPC, with the worker, ending), and the steps of
the client and of the kernel. `Watch` and `DeferredWatch` add the fields of their
kind and one action per call and outcome of the timer's DPC; `Watchdog` runs
whichever kind was allocated.

* Granularity. Calls of the owner hold the object's spin lock and are one step;
  `WdStartDeferredWatch` sets its timer after it has released the lock
  (`dwd.c:315`, `323`), which the step includes, because the owner calls one thing
  after the other. Entering and leaving a section, suspending and resuming a
  deferred watch and `WdCompleteEvent` take no lock but for a thread that is new
  to the watch. The standard watch's DPC is one step. That of the deferred watch
  keeps the owner's calls out (`LockFree`) but not the threads, so each of its looks at
  the counts is a step (`dpcAt`): `FirstLook` or `SecondLook` (suspended? recovered?
  still inside?), then `LookInside` and `Snapshot`, or `LookForProgress` and
  `LookAtTime`, which raises the timeout. `slipped`, a history variable, remembers
  that the thread entered or left after it was seen to make no progress.
  The client's DPC is not targeted at a processor, so when the
  callback queues it, it runs later on the same processor.
* Queueing the client's DPC takes references first and drops them if it was in
  the queue already (`QueueClientDpc`). The client is the one of `gdisup.c`: the
  DPC hands the event to a worker if none is busy, else completes it.
* Time. `ran` is the run time of the thread since the driver last read it, and
  `spent`, a history variable, that since the section or the measurement began;
  both stop at `Period`. The driver's run time is kernel time plus user time; 32-bit
  rollover is left out, and only whole periods are told apart.
* `confused` remembers that the counts of a deferred watch were reset while its
  thread was in a section, `leaked` the references a stop left behind. A NULL
  thread in the timer's DPC ends the model (`crashed`).
* The owner calls one thing after the other, frees once, and starts a deferred
  watch while no thread is in a section. What the client's worker logs, the
  bugcheck and attached contexts are left out.

## Runs

| run | instance | states | shows |
|---|---|---|---|
| `read_threads` | 2 reads of up to 2 characters, 2 threads, 2 processors, ring of 1, 8 timeout settings, symmetry | 0.77 M | `OneStarter`, `RefsMatchHolders`, `NoUseAfterCompletion`, `CancelNotMissed`, `IntervalMarkCurrent`, `HonestOutcome` |
| `read_queue` | 2 reads and a resize, 1 thread, 1 processor, error aborts | 1.7 M | `ImplementsIrpQueue`, `DpcCountExact` |
| `read_live` | 2 reads, 1 thread, 1 processor, settings that wait | 40 k | `ReadsEnd` under `FairSpec` |
| `ring` | ring of 2 growing to 3, reads of up to 3, two characters | 0.26 M | `RingInSync`, `StoresInBounds`, `ImplementsCharQueue` |
| `ring_count` | the same | | the finding: `CountExact` is violated |
| `write` | a write of up to 2 characters, an XOFF counter and an immediate character, two reasons to hold, XON and XOFF prodded, with and without timer | 0.87 M | references, completion, `CharCountExact`, `TransmitNeverStalls`, `HonestCount`, `CounterYields`, `EmptyNotMissed` |
| `write_live` | a write, an XOFF counter, a flush and an immediate character, as many at once as `FewAtOnce` lets in | 41 k | `ImplementsIrpQueue`, `WriteCompletes`, `AbortCompletes` under `FairSpec` |
| `wait` | 2 masks and 2 waits, two events, one of them TXEMPTY | 0.36 M | `StartMaskAsserts`, `NoEventLost`, `ImplementsIrpQueue`, `RequestsEnd` |
| `flow` | 5 settings that are changed at will, buffer of 3, limits of 1 | 0.13 M | `AttemptsExact`, `RtsUpWhileSending`, `HoldsMatchBuffer`, `CloseCompletes` |
| `gate_all` | 2 creates and another request, every PnP request in every legal order | 0.60 M | `StallQueueExact`, `QueriedPortStaysClosed` |
| `gate_remove` | a create, a close, a read, another; queries, cancels and removes | 18 k | `PendingCountExact`, `RemoveDrains`, and `RemoveCompletes` under `FairSpec` |
| `watchdog` | either kind of watch, a thread, 2 events, a period of 1, nested starts and suspensions | 0.44 M | `ReferencesExact`, `FreedIsQuiet`, `TimeoutEarned`, `StuckReported`, `RecoveryRaised` |

Why the bounds are enough.

* Two reads are the current one and a queued one; a third adds order within the
  queue. Two threads and two processors let dispatch, a cancel, and two
  different timer DPCs overlap. Length 2 separates "has some" from "has all".
* Two slots are the smallest ring with a wrap, three the smallest growth, and
  three characters fill a ring and wait for more.
* A write, a counter and an immediate character fill the three slots at once,
  and the counter must wait in the queue while the write is in its slot.
  Without a FIFO every character is an interrupt, which gives the most steps. The
  constraint `FewProds` has an XON or XOFF to be sent only until the third request
  comes (without it there are 2.1 M states, and nothing is violated either). A
  flush is only in `write_live`, where it meets the other two in the queue. There
  the constraint `FewAtOnce` keeps the environment in bounds: the immediate
  character comes with the write only, XON and XOFF are prodded while one request
  has come, and with three nothing holds the transmitter. What it cuts off are
  dispatch, `FlagCancel`, `Hold` and the prods, none of which has fairness, so no
  fair behaviour within it is cut short.
* Two masks and two waits: a wait that is replaced, one that is refused because
  of another, and events before, between and after. One thread runs
  `SerialStartMask` at a time (`StartMaskAsserts`), and the theorems hold for any
  number.
* A buffer of 3 with limits of 1 has a level below, between and above the
  limits. The five settings contain every mode of RTS and every flag both ways.
* At the gate two creates compete for the port and for `OpenMutex`, and each
  request is sent once. PnP requests are not bounded: queries and cancels, stops
  and starts may alternate for ever.
* Two events let one be queued while the client works on another, which is the
  most the code allows but for those that are ending. A period of 1 separates
  "has run" from "has not"; two starts, one suspension and two entries are the
  least that nest. One thread: what a change of threads does is left to the
  theorems, which hold for any number.

Deadlock is checked in the read, ring and wait runs: somebody can always send a
character, or record an event. It is not where the system may stop: a device
whose requests are through and that was removed (`gate_*`), a port whose
requests are all through and that has nothing to send (`write`, `write_live`), a
port that was closed (`flow`), a watchdog whose DPC has crashed (`watchdog`).

The type invariants of all these modules are theorems, so the runs do not check
them.

Each property is paired with a mutant of a definition in PROJECT.json, a
plausible slip in the code the property notices.

### Fairness

* `SerialRead`: a context that has begun continues (`WF` of `Work`), because
  spin locks are held briefly and the kernel schedules every thread; a set timer
  expires (`WF` of `Expire`); a queued DPC runs (`SF` of `Dispatch`), strong
  because a processor alternates between busy and idle, and justified because
  DPC queues are FIFO. Nobody is obliged to send characters, to submit or to
  cancel.
* `SerialWrite`: the same, and the UART sends what it was given (`WF` of
  `ThrInterrupt` and `Drain`). Flow control may hold for ever: `WriteCompletes` is
  conditional on its letting go for good, with no XON or XOFF left to be sent,
  `AbortCompletes` is not.
* `SerialWait`: the thread in `SerialStartMask` goes on, the completion DPC runs,
  a write whose characters are sent ends. No event has to happen.
* `SerialFlow`: the registers of the UART empty, the DPCs run, the timer expires,
  and a close goes on. THR interrupts need no fairness, since the hardware
  drains without them.
* `SerialPnp`: the thread of each request and that of the PnP request go on when
  they can (`WF` of `Serve` and `ServePnp`). Nobody has to send anything, to
  cancel, or to end a pending read.
* `Watchdog`: a set timer expires, a queued DPC runs, the client deals with its
  events, and a thread that does not leave its section runs. The owner calls
  nothing.

### Findings

`ring_count`: `SerialStartRead` may find the read cancelled after its first copy
(`read.c:498`). It then completes it without `SerialUpdateInterruptBuffer`, so
`CharsInInterruptBuffer` keeps counting characters `FirstReadableChar` has
passed, contrary to its description in `serial.h:922`. Later reads are handed
old slots. `StoresInBounds` still holds: the damage is confined to the ring, and
`RingInSync` shows that it lasts until the ring is next empty.

### Known deviations

Places where the code does not keep a promise of its comments or ASSERTs, or
where it does something a reader would not expect. Where a property is named it
is in the module, under the heading "promise"; it is violated when the
configuration named checks it instead of its own properties.

The gate (`SerialPnp`, `MCGateAll.cfg` with `PnpOps` replaced):

* `StoppedPortIsQuiet` (`StopOps`): a stop clears STOPPING (`pnp.c:1006`), and
  STOPPED alone does not stall requests (`utils.c:1030`), so they are let into
  the device that is stopped.
* `RemoveCompletes` (`StopRemoveOps`, under `FairSpec` and without symmetry): a stalled request that is
  killed leaves its queue but is never completed (`utils.c:944`), and a remove
  waits for it for ever.
* `PlaceholderKept` (`SurpriseOps`): the placeholder that a surprise removal puts
  back into the count is taken out again by `SerialIoCallDriver` (`pnp.c:1226`).
* A stop waits for the requests that it stalls, because they are counted; a
  cancelled stop does not restart them; a restarted create is completed without
  an epilogue (`openclos.c:122`), any other restarted request passes the prologue
  twice; a request let in during a stop leaves `PendingIRPEvent` set, which ends
  the wait of a later remove at once; a surprise removal waits for reads queued
  after the kill, which nobody ends (`pnp.c:1207`).
* `SerialInsertQueueDpc` sets the event of the pending requests when the last
  DPC reference is dropped (`utils.c:1234`).

The write path (`SerialWrite`):

* `FlushNotLost`, an INVARIANT of `MCWriteLive.cfg`: a flush behind an XOFF
  counter is taken from the queue with success and never completed
  (`write.c:671`). `ImplementsIrpQueue` counts what leaves the queue.
* `LastProdWakes`, an INVARIANT of `MCWrite.cfg`: XOFF holds a write, an XON or XOFF
  that the receive side prods finds a line that is held or an XOFF that may not
  go out, and its interrupt leaves the UART idle. Then the application takes
  `SERIAL_AUTO_TRANSMIT` away: the hold is dropped and an XON prodded, but since a
  character is to be sent already nobody is woken (`modmflow.c:1168`, which assumes
  that "the last prod has set things up appropriately"). The write waits with an
  idle UART until some other interrupt comes. `TransmitNeverStalls`
  excepts this (`stranded`), and so does `WriteCompletes`, because the XON is still
  to be sent.
* A request that is already cancelled when it comes to the queue or to the ISR
  stays counted in `TotalCharsQueued` for good; `CharCountExact` allows for it.
* The ASSERT of `write.c:525` that there is no XOFF counter when one becomes the
  current one fails with two counters. The second one, taken from the queue,
  ends the first, whose timer has expired but whose DPC is still to come: it
  keeps the timer's reference, so `CurrentXoffIrp` still names it when the
  second's character is sent and overwrites it. `CounterSlotFree` of the module
  states the ASSERT; with two `XoffCounters` in `MCWrite.cfg` it is violated, and
  then `RefsMatchHolders` is. XOFF does not hold an
  immediate character (`isr.c:1002`), but if a write is stalled by it
  `immediat.c:475` does not wake the transmitter, and the character waits too.

The wait mask (`SerialWait`):

* `EmptyReported`, a PROPERTY of `MCWait.cfg`: handing a wait to the ISR clears
  `EmptiedTransmit` (`waitmask.c:474`), so a write that ends then is not reported
  to a wait for TXEMPTY.
* A wait is refused while the DPC of an earlier, answered one has not run
  (`waitmask.c:175`).

Flow control (`SerialFlow`, read off the actions):

* RTS is lowered after a write only if a waiter for TXEMPTY exists
  (`write.c:799`, the attempt is inside that condition).
* An XON or XOFF held back by CTS or a break waits for the next write or
  immediate character, not for the line (`modmflow.c:1475`).
* A close writes its XON without raising RTS in toggle mode, and forgets an
  XON that was to be sent.
* A change of the limits alone does not look at the buffer; in
  `SerialSetupNewHandFlow` one test for a toggled RTS can never hold.

The watchdogs (`Watchdog`, `MCWatchdog.cfg` with `SPECIFICATION Spec`):

* `CallbackHasThread`: a stop does not take back a timer's DPC that is queued.
  The callback then queries a NULL thread; after a suspension it counts the time
  of a suspended watch and sets its timer again (ASSERT, `watchdog.c:687`).
* `NothingLeaked`: a stop after a timeout takes the event from the queue without
  `WdCompleteEvent` (`dwd.c:378`), and its references stay.
* `LeavesWhatItEntered`: a reset inside a section forgets the entry
  (`dwd.c:536`); the thread is not seen any more, and the ASSERT of its exit
  fails (`dwd.c:648`).
* `StillStuck`: "We've been stuck long enough" (`dwd.c:893`) may be said of a thread
  that has left its section, or has entered it again, since the DPC looked at the
  counts (`dwd.c:802`). `TimeoutEarned` excepts it (`slipped`).
* `EventsFindTheDpcFree`: the DPC that "should never" be in the queue is there
  after a reset (`dwd.c:1016`). The client then gets the timeout's DPC with the
  event of the recovery.
* The client drops a recovery that finds its worker busy. Read, and not modelled:
  when a run time rolls over the last value is subtracted twice, and the sum
  behind `WdFullTime` is one of 32 bits; `WdStartWatch` leaves the last event as
  it was.

## Proofs

TLAPS proves these for every value of the constants that meets the assumptions
named beside their declarations (sets that do not overlap, sizes that are
numbers).

`SerialReadProofs`, for any sets of requests, threads and processors, any
read lengths, buffer sizes and timeouts:

* `Inductive`: `IInv` is an invariant. The properties are not inductive on their
  own. `RefsMatchHolders` needs that each source is armed, queued or being
  handled at most once (`SourceInv`), that a starter has the read to itself
  (`StarterInv`), and that DPCs run where they should (`ContextInv`);
  `NoUseAfterCompletion` needs that a request is queued exactly when its cancel
  routine is `SerialCancelQueued` (`QueueInv`); the counts need what a read has
  and what it needs to make up its length (`LengthInv`). Each conjunct has a
  lemma `...Step` with one case per action; the five callers of
  `TryToCompleteCurrent` are treated once, in the lemmas `Ending...`.
* `TypeCorrect`, `OneStarterAlways`, `ReferencesExact`, `CompletedIsGone`,
  `CancelNeverMissed`, `CopyCounted`, `IntervalMarkAlwaysCurrent` follow.
* `Refinement`: every step is a step of `IrpQueue` or a stutter.
* `DpcCountAlwaysExact`: the count is a sum of three cardinalities. A step is one
  of seven kinds (`CountStep`): nothing that is counted changes, timers are set or
  cancelled, one expires, a DPC is queued, dispatched, or returns. Each kind adds
  or removes the same number of elements as it adds to or takes from the count.
* `OutcomeAlwaysHonest`: the status of a read is written long before it is
  completed, by whoever ended it. `OutcomeInv` keeps the reason until then: a read
  whose DPC is queued by the ISR is full, and the marks an ending leaves in
  `CountOnLastRead` tell the truth about the read and its cancellation.

`SerialRingProofs` proves `RingInductive`, `RingTypeCorrect`,
`StoresAlwaysInBounds` and `CountInSync` for all sizes and characters, with
cancelled reads and all: the invariant lets count and pointers differ while
`skewed`, and bounds both. `OrderKept` is the refinement of `CharQueue`. What is in
the ring is listed entry by entry (`Nth`, counted from `FirstReadableChar` round
the end of the buffer), and each step is compared with the abstract one entry by
entry. That a character that is stored comes last needs `CountInSync`: the free
slot the ISR writes to is the one behind the last that is counted. Steps that
leave the count skewed are the exception the property itself makes.

`SerialWaitProofs` proves for any requests, threads and events `TypeCorrect`,
`AssertsHold` (the ASSERTs of `SerialStartMask`, one of which checks a test made
without a lock), `ReferencesExact`, `CompletedIsGone`, `CancelNeverMissed`,
`WaitAlwaysHears`, `EventsNeverLost` and `Refinement`. The invariant says that
one thread has the current request, that the location, the DPC and the
references of the current wait go together, and that a wait the ISR knows means
an empty history. `QueueLemmas` has what the queue operations do to sequences
without repetitions.

`SerialWriteProofs` proves for any writes, flushes, XOFF counters and immediate
characters, any number of contexts and any lengths:

* `Inductive`: `IInv`, which has, besides the properties, who may have a slot in
  hand (`WriterInv`, `InterposerInv`), that whoever is in a slot and in nobody's
  hand has a reference of each party that can reach it (`HeldInv`), which kind of
  request a slot takes (`KindInv`), where a request is (`QueueInv`, `RequestInv`),
  how much of the write is still owed (`SentInv`), and how the UART and the
  flags go together (`UartInv`, `EmptyInv`). `TransmitAlwaysMoves` holds whatever
  holds and prods come, with the exception of `stranded`. The four routines that end a request
  are one step in the proof (`Ending`), and most steps keep most slots
  (`SlotKept`).
* `CharCountAlwaysExact` has `TotalCharsQueued` as the cardinality of a set: a
  request on the books contributes one pair `<<request, n>>` for each of its
  characters. A step changes the weight of one request at most, and the lemmas
  `CountRaised` and `CountLowered` count the pairs that come and go.
* `TypeCorrect`, `OneStarterAlways`, `ReferencesExact`, `CompletedIsGone`,
  `CancelNeverMissed`, `TransmitAlwaysMoves`, `CountAlwaysHonest`,
  `CounterAlwaysYields`, `EmptyNeverMissed` and `Refinement` follow.

These have the hypothesis `[]CounterSlotFree`, the ASSERT of `write.c:525`: without
it `RefsMatchHolders` is false, and the rest rests on that (see Known deviations). `OneCounterIsFree` proves the
hypothesis for one XOFF counter and any number of everything else, so that
`SafeWithOneCounter` and `RefinementWithOneCounter` have no hypothesis about the
behaviour. A real driver may be sent two counters; then the theorems speak of
the behaviours in which the ASSERT holds.

`SerialPnpProofs` proves for any finite set of requests:

* whatever PnP requests are sent, `Inductive`, `TypeCorrect`,
  `StallQueueAlwaysExact` and `QueriedPortAlwaysClosed`. The port stays closed
  because the flag of the query is set as long as the query is granted, nobody has
  it open, and no create is past the gate (`ClosedInv`).
* if `PnpOps` has no stop, start or surprise removal (`CountingOps`, of which the
  instance of `gate_remove` is one), `CountingInductive`, `PendingCountAlwaysExact`
  and `RemoveAlwaysDrains`. The assumption is needed: a stop lets requests past
  the gate, a start passes those it restarts through the prologue twice, and
  after a surprise removal the placeholder is lost (see Known deviations). The
  invariant (`CountInv`) adds to the count that nobody comes in once a remove has
  closed the gate, and that the event is set, once, by the last to leave while the
  remove waits.

`SerialFlowProofs` proves for any settings and sizes `FlowInductive`,
`FlowTypeCorrect`, `AttemptsAlwaysExact`, `RtsAlwaysUpWhileSending` and
`HoldsAlwaysMatchBuffer`; the last needs the limits to be apart, which is the
assumption of the module.

`WatchdogProofs` proves for any threads, events, periods and bounds `Inductive`,
`TypeCorrect`, `ReferencesAlwaysExact`, `FreedAlwaysQuiet` and `TimeoutsEarned`.
References are exact because the client's DPC is in the queue at most once, with
the thread a stop will find in `LastQueuedThread` (`QueueInv`); what a step does
to them is one of a few things (unchanged, an event queued, completed, removed,
handed on, the owner's reference given up), each with a lemma. Free is quiet because its stop
has disarmed the timer (`StartedInv`). A timeout is earned because the time
taken off the due time, or measured since the snapshot, is never more than the
time spent (`MeasuredInv`), and because the counts tell that the thread is inside
(`CountsInv`). That a thread which moves after the DPC's look has `slipped`, and
any other is as the DPC saw it, is `LookInv`.

The theorems cover every safety invariant, every safety action property and
every refinement that a run checks. What stays with TLC is liveness (`ReadsEnd`,
`WriteCompletes`, `AbortCompletes`, `RequestsEnd`, `CloseCompletes`,
`RemoveCompletes`, `StuckReported`, `RecoveryRaised`): it rests on fairness and
ENABLED, which the prover does not handle.

## Not modelled

* At the gate: adding and first starting a device, resources, power states, WMI,
  and the drain of DPCs in close.
* In the read path: power of the device while reading, performance counters, the
  pooled buffer of a resize, and the wording of errors. In the ring: null
  stripping and the escape insertion of `LSRMST`, the 80 % event.
* In the write path: the power-down of a port while writing, statistics, and
  `SERIAL_IOC` codes that only report. In flow control: see its section.
* Watchdogs: see their section.
* The other drivers of the inventory. The coverage of the whole repository is
  small and will stay so: most of it is vendor and device code, where what can go
  wrong is a register written in the wrong order, and says nothing without a
  model of the device.

## Plan

1. *Done*: `IrpQueue`, `SerialRead`; `CharQueue`, `SerialRing`; `SerialWait`;
   `SerialFlow`; the watchdogs; with proofs.
2. *Done*: `SerialPnp`; proved for any PnP requests where the code keeps its
   promise, and for a port that is only queried and removed where it does not.
3. *Done*: `SerialWrite`; proved as far as the ASSERT of `write.c:525` holds.
4. *Done*: `DpcCountExact`, `HonestOutcome`, the refinement of `CharQueue`.
5. Composition of `SerialRing` and `SerialFlow` over one fill level; the drain of
   DPCs in close.
6. classpnp's remove lock and transfer packets, storport's queue, the input rings
   of kbdclass.
