# Verification of rotanimb01

rotanimb01 is the firmware of a hardware-in-the-loop bench (STM32G4): it
pretends to be the four SPI sensors of an autopilot board, the *device under
test* (DUT), and feeds them from a simulated flight.  This directory models the
firmware in TLA+, checks the models with TLC and proves the central results with
TLAPS.  Paths below are relative to the repository.

## 1. Inventory

Priorities (`src/main.c:395`): group 0 holds SPI3 and the chip select EXTIs,
group 1 the PWM captures and the CAN vectors, group 2 the tick, USB and serial
DMA; the main loop is thread level.  Handlers of one group never preempt each
other.

| Component | State | Operations | Interacts through | Hard behaviour | Correct when |
|---|---|---|---|---|---|
| SPI slave engine (`src/nlib/spislave.{c,h}`) | active device, phase, command, addresses; register files; EXTI, NVIC, SPI FIFOs, TX DMA | RXNE handler, CS handler, resolve, commit, apply | group-0 interrupts, masked sections, frame hooks | edges at any instruction, back-to-back frames, DMA prefetch, overlapping selects | frames delivered once and whole, bursts exact and untorn, lines resolved |
| BMI088 emulation (`src/sensors.c`) | two FIFOs, mirrored length, status, pins, reset requests | hooks, commits, `sensors_poll`, soft reset | engine hooks against thread | drain against append, rounding, full FIFO, reset in steps | no sample lost silently or delivered twice |
| BMP388, RM3100 emulation (`src/sensors.c`) | mode, pending single shots, STATUS, pins | the same | the same | unlocked read-modify-write preempted by hooks | single shots answered, once; data announced |
| Desync watchdog, resync (`src/main.c:938`, `src/sensors.c:432`) | windows, rate, last resync | 100 ms check, resync | counters of the engine, re-initialisation | resync under a live master, leftover flags | a real desync is cured, a glitch is not |
| Host command mailboxes (`src/main.c:72`, `:513`) | ten boxes with sequence numbers | `cmd_store`, `cmd_snapshot`, `cmd_decode` | CAN interrupt against thread | torn copy, overwritten command, age of a command | what is decoded was sent, the newest is decoded |
| Sampler and main loop (`src/main.c:720`) | ticks, accumulators | tick, catch-up | calls every commit | overload | rates as configured |
| GPS feeder, DroneCAN (`src/main.c:200`, `src/dronecan.c`, `src/nlib/canmsgq.h`) | queue, transfer ids, snapshot ring | enqueue, pump, TX event | CAN interrupt against thread | full queue, lost event, bus-off, lag | transfers whole, in order, not stalled |
| FDCAN driver (`src/nlib/fdcan.c`) | buffers, event FIFO | tx, events, rx | CAN interrupts | bus-off, overrun | each buffer reported once |
| PWM capture (`src/nlib/pwm.c`), controls (`src/controls.c`) | edges, count, widths; failsafe | capture, read, step | capture interrupt against thread | sequence check, wrap, ageing | width and count of one pulse |
| USB device (`src/nlib/usb.c`) | control endpoint, bulk pipes | interrupt, send, receive | USB interrupt against thread | aborted control transfers, reset | protocol followed |
| FIFO, serial, console (`src/nlib/fifo.h`, `serial.h`) | head, tail, bursts | put, get, reset, DMA bursts | DMA and interrupts against thread | reset under a reader, end of a chain of bursts | bytes in order, none held back |
| Pseudo-CAN (`src/nlib/fmtcan.c`) | none | put, get | byte FIFOs | partial lines | resynchronises |
| Fault recorder (`src/nlib/fault.c`) | record in RAM kept over reset | capture, report | reset | second fault, power loss, a cut capture | one crash per report, reported once |
| SPI master queue (`src/nlib/spi.c`) | ring with three cursors | enqueue, completion interrupt, wait | DMA interrupt against thread | lost wakeup, lost start | exchanged once, in order |
| Flight models (`physics/`, `fdm/`), `bmp390inv/`, CORDIC, tprintf | reals | step | main loop | numerics | golden vectors |
| Board, clock, pins, `device.h` | configuration | | | | |
| Bench session and bridge (`tools/bench/session.go`, `serbridge.go`, `mavlink.go`) | call and attempt; serial handle; buffer | set, get, retry; reopen; decode | TCP, a device that comes and goes | late answers, lost requests, false starts | what a call says of the DUT is true, no frame is lost to another |
| `selftest/`, `rb01tool/`, the rest of `tools/`, `dut/` | host programs and patches | | serial, CAN, sockets | | |

`PROJECT.json` lists each component with its status and every hazard at its line.

## 2. Modules

| Module | Models |
|---|---|
| `RegisterPort` | abstract promise of the engine: files that change only in whole samples, writes and frame ends, and never under a burst; a resync cuts it |
| `SpiSlave`, `SpiSlaveProperties` | the engine, its hardware, the bus master and the resync; its properties and the mapping to `RegisterPort` |
| `ImuFifo` | BMI088: FIFOs, data-ready, suspend, soft reset, the sampler |
| `Conversions` | BMP388 and RM3100: conversions, data-ready, soft reset |
| `Watchdog` | the desync watchdog of the main loop, for which a resync is an event |
| `Mailbox` | abstract promise of a command box: the newest frame, taken whole and once |
| `Commands` | mailboxes, snapshot, order of decoding, position |
| `Pipe` | abstract promise of the feeder's transmit path: in order, once, refused only when full |
| `CanFeed` | message queue, pump, both interrupts and the FDCAN controller |
| `TruthFeed` | timers of the truth reports and Fix2, snapshot ring, lag |
| `PwmIn`, `Controls` | the capture interrupt and its snapshot; the two readers with their ageing and failsafe |
| `UsbDevice`, `HostLink` | the USB device against host and macrocell; on it the host's command lines, the byte FIFO and the parser |
| `ReportLink` | the other way: report lines, the byte FIFO, `usb_send`, the bulk IN pipe, the host tool's parser |
| `SerialRx`, `SerialTx` | the two ways of the console port: rings, DMA bursts, timeouts, chains |
| `FaultRecorder` | a crash, its capture, the reset, its report |
| `Sampler` | the sampler's catch-up over ticks: dividers, accumulators, single shots |
| `DroneCan` | the feeder's messages as bits, bytes and frames |
| `SpiMaster` | the transaction queue of the SPI master that the self test uses |
| `BenchLink` | the bench's parameter calls, its serial bridge, the autopilot |
| `Mavlink` | the bench's decoder of the autopilot's stream |
| `Sensors` | the chips side by side: `ImuFifo`, and `Conversions` beside it |
| `Ages` | the bounds of a capture channel, which `PwmIn`, `Controls` and `MainLoop` share |
| `MainLoop` | what the loop does: `TruthFeed`, and `Sampler`, `DroneCan` and `Controls` beside it |
| `Services` | what shares only the processor: `Watchdog`, and beside it `SerialRx`, `SerialTx`, `FaultRecorder`, `ReportLink`, `SpiMaster`, `BenchLink`, `Mavlink` |
| `MC*` | instances for TLC (section 4) |
| `*Proofs` | theorems (section 5) |

What composes what: `SpiSlave` is the bus under `ImuFifo` and `Conversions`,
which take from it, through `RegisterPort`, that the end of a frame and a locked
update are single steps.  `HostLink` extends `UsbDevice` and delivers what
`Commands` stores; `Controls` extends `PwmIn`; `TruthFeed` decides when
`CanFeed` has a transfer to send; `Watchdog` decides when `SpiSlave` resyncs.
A module per concern rather than one of everything: their interleavings meet only
in the main loop, which runs the parts one after the other.  `Sensors`, `MainLoop`
and `Services` put modules together that share nothing but the processor: a behaviour
follows one of them, named by `chips` or `subject`, and the others rest
in an initial state.  They declare the constants of all of them with their
assumptions, and name the properties of the instances, so that runs and theorems
speak of the same definitions.

Left in the plan, in order: what a resync resets in `ImuFifo` and `Conversions`
(`sensors.c:432-456` resets files and engine only, the pending conversion, the reset
requests and the armed pins survive it), the commands and acknowledges of the bench
session, the feeder and display of `rb01tool`, an abstract byte stream that `SerialRx`,
`SerialTx` and `ReportLink` implement.

## 3. The models and the code

### SpiSlave

The fields of `struct SPISlave` and `SPIDev` keep their names; `mem[d]` is a
device's `reg[]` followed by its `stream[]`.  Around them are what the code races
against: asserted selects (`low`), `EXTI.PR1` (`pr`), pending NVIC vectors, both
SPI FIFOs, `RXNEIE` and the TX DMA's source and count.  One action is one access
to state another party sees.  The RXNE handler is `SpiEnter`, `SpiTake` per byte
(one disjunct per branch) and `SpiExit`, the boundary check after the drain.
`spislave_resolve` is `ResolveRead` (pin read), then either `ResolveFast` or
`ResolvePend` (pending read) and `ResolveAct` (clear, then close, keep or open),
so an edge can fall between any two.  `spidev_commit` and `spidev_apply` are
`IrqLock`, `CommitCheck`, one `CommitCopy` per cell, `IrqUnlock`.  The master
falls, rises and clocks; the DMA fetches whenever the TX FIFO has room, so a
burst's prefetch is real.  `ClearOnRead` is the table of registers a device's
frame hook clears when `frame_reads` holds.

Abstracted: `isr` lets no group-0 handler preempt another, as the priorities
do; the NVIC latches a vector on the rise of its EXTI line, so an edge on a line
still pending adds none.  A vector left pending for a served edge finds nothing
to do, as the header says.  The counters `writes` and `overlap`, which nothing
reads for control, are left out, and so is `hw_nss`, which the sensor bus does
not use.

What the master is assumed to do is a constant set, `Assume`:
- `prompt`: a byte-time is longer than a handler, so no byte is clocked over an
  unserved edge, command or first DMA fetch (`spislave.h:15-33`);
- `oneSelect`: at most one select is asserted (`spislave.h:161` calls others
  ill-behaved).

Nothing is assumed of when the selects move: an edge may fall into any state of
the handlers, so also between the pin read of `spislave_resolve` and its EXTI clear.
There the edge is cleared unseen if its line is still pending, for then the NVIC has
no vector for it (`Overlooked`).  The history variable `lost` says that the last
edge was one of these, until the selects move again, and the properties are stated
against it: `LinesResolved` says that no other edge goes unresolved.

`sensors_bus_resync` is `ResyncBegin` (the vectors disabled, the SPI reset, files
and engine re-initialised, which the disabled vectors make one step) and
`ResyncEnd` (pending vectors cleared, the vectors enabled).  It may come at any
moment of a frame; when it falls into a byte the engine is out of step with the
master until the select rises (`skew`).  `heal` is whether the frame on the bus
is cut, that is, whether the engine missed its beginning, through a resync or an
overlooked edge, or follows one that was.  Because only the end of a frame scrubs the
SPI, a cut frame may cost the one after it, too, and no more.

### ImuFifo

`fifo[d]` holds the numbers of the samples whose frames lie in the buffer up to
the fill mark; `count` is what FIFO_LENGTH / FIFO_STATUS announce, `mirror` the
copy in `accel_fifo.len`.  A frame on the bus is `Begin` (select and stores) and
`End` (deselect and hook, whose length overcounts by up to `Prefetch` = 5 bytes:
the 4-byte TX FIFO and the byte in the shifter).  A commit is `Commit`, `Apply`
or `Refused`, `Drdy`; the locked update is one step, which `SpiSlave` and its
refinement justify.  The soft reset has two steps with interrupts on: registers
(`ResetRegs`), fill mark (`ResetFill`).  Pins are relative to the configured
polarity, time is left out: a release comes some time after the pin was raised.
`Release` and `Drdy` are one step each.  `got`, `lost` and `made` are history.
The sampler looks at the rate in `Due`, makes the sample in `Sample`, where the
gyro's bias walk divides by the rate once more, and commits; `bias` is whether the
walk is still finite.

`Assume`: `waits` (a device is left alone until its soft reset is over, as both
drivers' delays do), `whole` (drains read whole announced frames,
`spislave.h:102-105`), `mapped` (a data-ready pin once mapped stays mapped).

### Conversions

The mode and enables of PWR_CTRL, STATUS, INT_STATUS, EVENT, the pending single
shots and the pins, by name.  Each unlocked read-modify-write of `baro_commit`
is a load and a store (`BaroStatusLoad` / `BaroStatusStore`, `BaroPwrLoad` /
`BaroSleep`), between which hooks run.  `baro_reset` is one step.  Output data
rates are reduced to whether a sample is due.  `asked`, `nconv`, `unread`, `owed`
are history.  `Kept`: the DUT leaves PWR_CTRL and CMD alone until the
conversion or reset it asked for is over, as a driver that waits for data-ready
or the conversion time does.

### Commands

`data`, `len`, `seq` are the fields of `struct CmdBox`; a byte is represented by
the number of the frame that brought it, so that a copy is whole when its bytes
agree.  `cmd_snapshot` is `ReadSeq`, one `CopyByte` per byte, `Recheck` and
`LenCheck`, which also decodes the copy; `last` is `cmd_decode`'s static sequence
numbers and `Slot` the order of its calls.  `cmd_store` is one step (`Receive`):
in the CAN build it runs in the receive interrupt, above the thread, between any
two of these; in the USB build the main loop runs it, only while it drains the
lines (`pc = "drain"`).  `where` is the frame that placed the aircraft: FDM_POS
puts it where it says, FDM_INIT trims, which may fail, and a trim that succeeds
moves it to the origin (`fdm/fdm.c:399`).

Assumed: a CAN host sends whole frames (`src/canmsg.h:48`), for a short one
between the sequence check and the length check could pass a torn copy; and the
compiler keeps the order of the source, although only `len` and `seq` are
volatile.  Left out: the reception time `rx_us`
and what the other eight messages set, which no property is about.

### Watchdog

One step is a round of the loop, `dt` long.  A clock reading is kept as its
unsigned difference from now, which is all the code uses it for: `status` and
`since` are `now - t_status` and `now - t_resync`.  The refused writes of a window
are none, a few (up to 8) or many, as the code tells them apart; a round looks
(`Look`) and then is one of `Bad`, `Few`, `Quiet`.  `rested` (how long ago the
last resync really was), `sick` and `noisy` are history.

### CanFeed

`gps_enqueue` is one step per frame and part of it (`TakeCell`, `Push`,
`DropFrame`), then `Kick`; IT0 is `It0Drain`, `It0Pump`, `It0Flag`, `It0Clear`, each
with its exit, IT1 the same; the queue's indices count modulo `Width`.  The
controller sends what is in the buffers oldest first (the identifiers of one
feeder; the order of equal priorities is the hardware's FIFO order), and may
disturb, lose or receive a frame at any time.  The NVIC latches a line that rises
and one still high at the return.  `InHandler`: IT0 takes a few microseconds
and a frame more than a hundred, so at most one ends while it runs.  Bus-off is
not reached twice within one IT0, for rejoining takes 129 idle sequences.

### TruthFeed

The same clock as `Watchdog`.  `ring[s]` is the unsigned age of a slot's stamp,
`age[s]` its real age; a round takes the host's switches (`Command`), feeds Fix2
(`FeedFix`, before the round's own snapshot, as in the code) and publishes truth
(`Publish`).  `wait` and `calm` are history.

### Sampler

The loop of `main.c` that consumes timer ticks: `Tick` (the step of one model or the
other, by its divider), `Consider` per sensor (accumulator, threshold, sample,
`Commit`) and the rest of the round.  A commit may be refused, for the bus may have
the device selected; the sampler ignores that, and the single shot it was
for stays pending until its accumulator is full again (`sensors.c:704-711`,
`:731-734`), so `age` counts from the request or the last refusal.  Work takes time: a unit of `part` is a quarter of a
tick, and the costs are far above the measured ones (a step of the six degrees of
freedom takes 17.7 us of a tick of 100 us, `doc/fdm-DESIGN.md:166`; here it takes
two ticks and a half), so that the loop really falls behind.  The bus changes
the rate or asks for a single shot at any moment.  One sensor is enough, for the
accumulators do not touch each other.  The lag and the ticks caught up with at a
time saturate at `MaxLag` and `MaxHeld`; `CatchesUp` says the first is not reached.
`Fastest` is the highest rate of the sensors, and `LoadAssumption` says that the costs
leave time to spare: a tick brings less work than it has time for (`Load`, `Whole`),
and the work that can have come together at one moment (`Backlog`) is done within the
bounds.

### DroneCan

`copy_bits`, `enc`, the layouts of the three messages at their true widths, and the
cutting of `dronecan_broadcast` with its toggle, start and end bits for each of the
32 transfer identifiers.  A value's bit is the pair of its field and its position, so
that one behaviour stands for every value and a bit misplaced is seen as itself.
The transfer's checksum is a symbol.  The golden frames of the repository pin
some values; `Understood` is what a receiver reads, bit by bit.

### SerialRx, SerialTx

The console port's rings, the DMA channel with its place and remainder, the
USART's FIFO and flags.  Handlers preempt the main loop between any two accesses
and not each other.  `SerialRx` has `fifo_read` as one copy per contiguous part and
the store of the cursor; a full ring is dropped whole, and the
model notes what was lost in `lost`.  `SerialTx` has the kick of the chain, its continuation at transmission
complete, and the characters the console puts one by one.

Assumed of reception: a byte takes 87 us and the timeout sixteen byte times,
against handlers of a few microseconds (`Apart`), and the ring does not overflow
between the reader's look at its cursors and its pop (`Steady`); section 6 says what
happens without the latter.

### FaultRecorder

A capture is written in pieces, at the level of the thread, of a UsageFault or
of a HardFault; a crash may come while a record waits, while it is printed, and
during a capture of a lower level (a fault at the highest is a lockup).  The reset
button and losses of power come at any step.  A record's field holds the number
of the crash that wrote it, so that one mixed of two crashes is seen.  The record
is what survives: a reset leaves it, after a loss of power it is invalid.

### ReportLink

A line is three pieces and a packet four, which stand for lines of about thirty
bytes and packets of 64: either cuts the other anywhere.  `usb_send` is its loads
and its XOR of the endpoint register, between which the interrupt may change the
endpoint.  A request of the host is one step here; `HostLink` takes it apart.
An acknowledge may be lost, and the packet is then sent again with the same
toggle.  The host's parser, `rb01tool`, is the one without a checksum; it reads a packet
piece by piece (`ReadAll`, a recursive function, so that it can be proved about).

Assumed: at most one change of the endpoint per `usb_send` (`Apart`: it takes less
than a microsecond), and a host that leaves a pipe with a packet in it alone
(`Healthy`); section 6 says what happens without the latter.

### SpiMaster

The cursors `head`, `curr`, `tail` modulo `Width`, the slots and the two DMA channels.
`spiq_enq_head` counts, then looks whether the queue is idle, two steps with the
completion interrupt in between; a wait is masked from its look to the wakeup.
`Brisk`: the transaction just counted does not also end between the count and the
look; section 6 says what happens without it.  No other interrupt is taken
to wake the thread, so a missed wakeup would show as `NoneStuck` violated.

### BenchLink

A session's `SetParam` and `GetParam` with their attempts, the bridge's two goroutines and its
device, and the autopilot, outside the repository, which answers in order.  The
client's goroutine reads a request, then writes it under the mutex, which is held
while the device is reopened; a handle goes bad when its device is closed or
unplugged, and two seconds without a byte also reopen it.  Requests and answers
are lost where a handle goes bad.

Assumed: nothing of an earlier client is on the way when a session connects, and
a call that failed is repeated with the same value or the program ends, as the
bench programs do; section 6 says what happens without it.

### Mavlink

`Parser` is fed pieces of any size, and `Next` is called until it returns nil; each
way round its loop is an action.  Twelve bytes around a payload become five, each
field one byte, and a byte remembers its frame and place, so that a checksum holds
for the bytes of one frame from first to last and fails for all else (true but for
a collision).  Payloads may look like the beginning of a frame; one gap
may cut any bytes out of the stream.

### PwmIn, Controls

Edges are numbered, a time stamp is the number of its edge, so that a width or a
period is the pair of edges it was taken between and a wrong one is visible.  The
handler reads SR once, clears and counts an overcapture, takes the capture and
reads the pin's level, three steps between which the pin changes; `pwmin_get` is
one load per step.  A pulse may be shorter than its rising edge's service, the gap
to the next is not.  `Controls` is one round: the model's step, if it is on, then
the report.  `target` says whether the channel follows a pulse, trim or the hold
of a channel never seen.

### UsbDevice, HostLink

`EPR[0]` and `EPR[1]` (its OUT half) with their flags, states and toggle; `DADDR`;
`ISTR_RESET`.  The handler loads ISTR (`IrqLoad`), stores it back by
read-modify-write (`IrqStore`), which can lose a reset flagged in between, and
serves what it loaded (`ServeReset`, `ServeControl`, `ServeBulk`).  Requests are
kept by the way they are answered.  The host, outside the repository, believes
what completed transfers told it (`Believe`) and asks what a host asks of a
device in that state (`Sensible`); a packet with the wrong toggle is acknowledged
and dropped by the macrocell.  `Prompt`: the handler has run since the last
acknowledge when the next SETUP comes; section 6 says what happens without it.
`HandleOther` is the branch for the flags that then meet, which a prompt handler
never sees.

`HostLink` cuts the lines of `rb01tool` into a beginning and a rest, each packet
holding one piece or two of the stream, whatever the lines' bounds.  `buf2fifo`
drops a packet for which there is no room; `can_fifo_get` takes up to the first
end of line, accepts what is one whole line with its checksum (a checksum over the
pieces of two lines is taken to fail) and drops a flood without an end.

## 4. Runs

| Run | Question | Result |
|---|---|---|
| `spislave_core` | Does a master that keeps all promises get every frame decoded, answered and accounted once, while commits mask interrupts and selects move at any instruction? | yes, but for the frame that an overlooked edge cuts and the one after: `TypeOK`, `LinesResolved`, `BurstExact`, `NoFrameLost`, `StrayFree`, `FrameDelivered` |
| `spislave_any` | With overlapping selects and bytes at any moment: is a burst ever torn, is a select ever starved? | no, but for an overlooked edge: `PortSafe` (refinement of `RegisterPort`), `LinesServed` |
| `spislave_resync` | Does the engine recover from a resync in the middle of a byte or a frame? | yes, all but the frame cut and the one after are delivered: `FrameDelivered` |
| `spislave_zero` | Are the counters of the desync watchdog zero on a healthy bus? | `HardZero` violated, finding 2 |
| `sensors` | Is each sample of the BMI088 delivered once, in order, or known to be lost; does data-ready stay a pulse?  Is a forced conversion run once, and is a sample not yet read announced? | yes: `FramesAccounted`, `NoSilentGap`, `PulseEnds`; `ForcedOnce`, `UnreadAnnounced` |
| `imu_suspend` | Does the gyro's bias walk stay finite when the DUT suspends the gyro? | `BiasFinite` violated, finding 1 |
| `conversions` | Is a single shot answered, under the fairness below? | yes: `Answered` (`ForcedAnswered`, `PollAnswered`) |
| `services` | Is a lasting fault cured in bounded time, and does a resync never come twice within the rest time or after a quiet window, whatever the clock? | yes: `Cured`, `Sparing` (`RestObserved`, `PersistentOnly`) |
| | Do bytes pass the console port in order, none twice, none lost uncounted or held back, either way? | yes: `BytesServed` |
| | Is a post-mortem of one crash, printed once, and every captured crash reported? | yes: `PostMortem` |
| | Is a line the host accepts one that was reported, and does every line arrive unless it, or the one before, went with a closed port, a reset or a request? | yes: `ReportsGenuine`, `ReportsArrive` |
| | Is each transaction exchanged once, in order, with its own device, and does no wait last for ever? | yes: `SpiServed` |
| | Does the autopilot hold what a successful call reported? | yes: `BenchHeard` (`Verified`) |
| | Does every frame that came whole leave the decoder, once and in order? | yes, but for those that an unknown identifier takes with it after a gap: `BenchHeard` (`FramesFound`) |
| `commands` | Is what is decoded a whole frame, the newest, decoded once and in the end; does an air start followed by its position end there? | yes: `MailKept` (refinement of `Mailbox`), `NewestDecoded`, `AirStartPlaced` |
| `can_feed` | Do queued frames leave in order, once, and in the end, and do both interrupts come to rest, through lost arbitrations, errors and bus-off? | yes: `InOrder` (refinement of `Pipe`), `Settles` (`Drains`, `RxDrains`, `ComesToRest`); `Drains` names the one case in which frames wait for the next transfer |
| `main_loop` | Do reports come on time however late they are enabled, and is a Fix2 as old as the lag says?  Is every sensor sampled at its rate, a single shot tried in time and again when refused, and does the sampler catch up?  Does a receiver read the values that were sent? | yes: `OnTime`, `FixLagged`; `RatesKept`, `CatchesUp`; `Understood` |
| | Are snapshots of a capture channel whole, and does it go into failsafe when and only when it is silent? | yes: `SnapshotWhole`, `SilentFallsBack`, `FailsafeOnlySilent` |
| `host_link` | Do control transfers end, do host and device agree at rest, and what does a dropped packet cost? | yes; its own lines and the one after: `TransferEnds`, `Agreed`, `NoSilentLoss`, `FramesGenuine` |

Bounds.  `spislave_core`: two devices (one with a dummy byte and a clear-on-read
register, one with a drain port that may be entered early), two registers each, FIFOs of
two bytes, two frames of up to three bytes (command, dummy or data, one more
than the file), a sample for either.  Two devices and two frames give every
pair: same device twice, switch, bounce; addresses wrap at two registers.
`spislave_any` has FIFOs of one byte, one-byte frames and no stream; the case it
adds, overlap, needs two selects only.  `spislave_resync` has the same devices,
one resync at any point and frames before and after it, no commits.  `spislave_zero` needs
few selects: one that is served, one overlooked, a byte in its frame.
`sensors`: capacity two frames, three
samples, five frames of the DUT: enough for full, overrun, clear, drain and
reset in one behaviour, at the code's frame sizes (7 and 6) and prefetch.
For the other chips, in `sensors` and `conversions`, four frames of the DUT, enough for request,
read, configuration and a second request.  `commands`: the two
messages that interact, two bytes (enough to tear), two attempts (one that fails
and a last one), five frames, so that a box is stored to more often than the
thread attempts to copy it.
`sensors`, `services` and `main_loop` put parts together that share the processor and nothing
else: a behaviour follows one of them while the others rest in an initial state,
so the states are the sum of the parts' and not their product.  The watchdog and
the truth timetable run for ever on clocks of 64 and 32 units, which wrap again and again; the proportions are the code's where they matter (the rest
time is several windows, a Fix2 two truth periods; one lag is within the ring's
reach and one beyond).  `can_feed`: a queue of two cells whose indices wrap twice,
two buffers, transfers of three, one and one frames of which the first alone overfills both, two
mishaps, so that an error follows a lost arbitration.  The capture channel of
`main_loop`: five edges, two whole pulses; its clock wraps after six rounds, which a
silent channel outlasts.  `host_link`: a bus reset in the middle of anything, four
requests (address, configuration and two more), three lines of two pieces through
a FIFO of three.
The other parts of `services`: rings of eight and four bytes with nine and thirteen
bytes through them, DMA bursts shorter than the ring; three crashes among three
resets, which is a crash while an older record waits or is printed, and one more;
five lines through a FIFO of seven pieces, with four events among requests,
resets and lost acknowledges; ten transactions through a queue of four whose
cursors wrap at eight; three calls of two attempts with two mishaps of the
device, enough for a late answer to a call that failed; three frames of a stream with
one gap, with false starts that reach into the next frame.  The sampler runs for ever
with rates that divide the tick rate, that do not, and none.

Fairness.  Interrupts that are pending and not masked are taken and handlers run
to their end; entry is strongly fair where the thread masks interrupts again and
again for bounded straight-line code, or where two handlers share a priority.  In
`Conversions` the main loop goes round
for ever (weak fairness of the commit, strong of the poll and the sampler, which
share one program counter), the master ends its frames, and a commit is not
refused for ever: the sampler runs at its rate independently of the DUT's
polling, so a commit attempted again and again finds the device deselected.  In
`Commands` the main loop goes round for ever; the frames are bounded, so that the
storm in which every attempt fails ends, which is what `NewestDecoded` needs.  In
`CanFeed` the bus works off the buffers (weak fairness of `Sent`); nothing is
promised of errors or received frames.  In `HostLink` the interrupt is
served and the host goes on with a transfer it began, as USB hosts do by their
timeouts; the main loop, the data and the resets are not promised.

Deadlock is checked except where the system may really stop: `sensors` and
`conversions` when the DUT's frames are used up and no rate is configured, the
masters of `spislave_any` and `spislave_resync` when they are done, `HostLink` when the
host is, and `services` when its bytes, crashes, lines, transactions or calls are used
up.  The parts added to `services` and `main_loop` need no fairness: their properties are
safety, and those that say that something is not held back (`RxDelivered`, `TxRests`,
`CapturedReported`, `NoneStuck`) say it of the states in which nothing more can move it.

## 5. Proofs

`SpiSlaveProofs`, for all sizes, masters and samples that satisfy the
assumptions of `SpiSlave` (positive sizes; a drain port's prefix shorter than its
buffer and not below register 0):

- `InvariantHolds`: `Spec => []IInv`, where `IInv` is `TypeOK`, `ThreadInv`
  (interrupts are masked exactly during a commit, no handler runs then, and the
  device copied to is not the active one) and `BurstInv` (the DMA streams the
  active device exactly in its read phase, with RXNE muted; a write phase has an
  active device; the fast path starts idle with a select).  `TypeOK` alone is not
  inductive: a step of the copy needs a device to copy to, and the fast path a
  device to select.  That a burst stays within its device's memory is the part
  of `TypeOK` that rests on `SourceInMemory`, the bound of what a read command
  may start.
- `TypeCorrect`: `Spec => []TypeOK`.
- `PortRefined`: `Spec => PortSafe`.  The mapping shows a file as it will be when
  the running copy is done (`Settled`), so that a commit is one abstract step,
  taken at the check; the copy's steps stutter because no burst of that device
  can start while interrupts are masked.  A resync is the
  abstract `Reset`.  No assumption on the master is used.
- `LinesFollowed`, `FramesKept`, `BurstsExact`, `FramesDelivered`, `NoStray`:
  `Spec` keeps `LinesResolved`, `NoFrameLost`, `BurstExact`, `FrameDelivered` and
  `StrayFree`, for a master that keeps both promises (`Promises \subseteq Assume`),
  with edges and resyncs at any moment.  `LinesInv` says that the served device
  is the selected one, or a vector is pending or a handler on its way that will
  look at the lines again, or the last edge was overlooked; what it needs of the
  handler is which pins it has read and which lines have moved since (`ReadInv`,
  `FollowInv`, `MissInv`, and `EdgeRead` for an edge in the window).  `FrameInv` relates
  FIFOs, DMA and file to the bytes clocked since the select fell: nothing consumed yet,
  a burst whose queued slots are the bytes clocked plus those in the FIFO, or a write
  whose last byte for each register has landed.  Neither holds of a frame that
  is cut, until its end has been seen (`heal`).

`SensorsProofs`, for every capacity, frame size, prefetch below it, number of samples
and frames and any set of promises; `Prefix[Gyro] = 0`, for only the accel's FIFO
has its length in front of it:

- `TypeCorrect`: `Spec => []TypeOK`, in which no FIFO outgrows its buffer.
- `GapsReported`: `Spec => []NoSilentGap`; at the fill mark's own reset the samples of
  the gyro are consecutive only until the next commit.
- `PulsesEnd`: `Spec => []PulseEnds`, if the DUT waits for its resets and leaves pins
  mapped: a pin asserted is armed and mapped, so that `sensors_poll` finds it.
- `FramesKept`: `Spec => []FramesAccounted`, if it waits and drains whole frames:
  taken, in the FIFO or lost, each frame once (`Booked`).  It rests on what the
  registers say: a count announced is not above what the FIFO holds, the accel's mirror is
  its count, and a drain under way takes a beginning of it (`InStep`).
- `ForcedRunsOnce`: `C!Spec => []ForcedOnce`; `Stage` lists how far a forced conversion
  may be in each place of the commit, between whose load and store hooks run.
- `SamplesAnnounced`: `C!Spec => []UnreadAnnounced`, if the bytes by which a read's length
  overcounts reach no data the read left alone (`ReadsWhole`); finding 3 is what
  happens otherwise.

`CommandsProofs`, for any set of messages in any order that names each of them,
any command size, attempts and number of frames:

- `InvariantHolds`: `IInv` adds to `TypeOK` that a box of full length holds one
  frame and no sequence number is taken before it was given (`BoxInv`), and that
  the bytes copied are the box's as long as its sequence number stands and one
  frame's once it has passed the second look (`CopyInv`).  Without the latter
  nothing ties the copy to the box.
- `TypeCorrect`: `Spec => []TypeOK`, the bound on attempts included.
- `SnapshotIsMailbox`: `Spec => MailKept`.  The frame counts as taken at the second
  look, `Recheck`, when the length is whole: over CAN a frame stored after it is
  whole too, over USB none is stored there, so `LenCheck` takes what was copied.
- `AirStart`: `Spec => []AirStartPlaced`, for any order of messages that has the trim
  before the position.  `Swept`: a box the round has passed holds nothing the
  host sent before the last drain; `Placed`: a position that came after its trim is
  decoded after it or still in its box.

`ServicesProofs`, the watchdog for every clock, period, rest time, persistence and length of a
round that satisfy the assumption (a round is no longer than a window, the clock
holds the rest time and a window):

- `WatchdogCures`: `Spec => [](TypeOK /\ Cured)`.  The invariant bounds `sick` by the
  time since the last resync: while a fault lasts, each window past `Persist` without
  a resync adds a period to `since`, which stays within the rest time; the count can
  start anew at most once, when the clock wraps.
- `WatchdogSparing`: `Spec => []Sparing`: `since` never exceeds
  `rested`, and `windows` never exceeds `noisy`.
- `CrashesReported`: `F!Spec => []PostMortem`, for any number of crashes, resets and
  losses of power.  The record is valid only while its crash is not reported; while
  a capture is under way, its parts behind the writer are of the crash being
  captured.
- `QueueServed`: `M!Spec => []SpiServed`, for every queue size that divides the range of
  the cursors.  With `c` transactions over, the three cursors are the collected, the
  ended and the enqueued ones modulo that range; the next one is on the bus
  exactly when the driver is busy, and between count and look the thread
  cannot have lost sight of it.
- `BytesKept`: `R!Spec /\ T!Spec => []BytesServed`, for a receive ring of at least four
  bytes and a transmit ring of any size, reads and lines of any length.  `RxInv`: the bytes
  copied, the stretch of cells from behind those copied to where the DMA writes, ring
  and burst together, and the USART's are in order, and with those dropped they are
  all that came.  A burst is in one piece of free room (`BurstFits`), so a
  byte moved overwrites none of the stretch (`CellWrite`, `StreamMove`).  `TxRing`: the
  cells from tail to head count on from the bytes the USART has, and what the burst
  has moved is between.  The model's `Apart` and `Steady` are used: without `Steady`
  finding 21 happens.
- `GenuineKept` and `ArriveKept`: `L!Spec => []ReportsGenuine` and
  `L!Spec => []ReportsArrive`, for packets of any length, any FIFO and any number of
  lines, requests, resets and lost acknowledges.  What is on its way is the host's unfinished
  line, the packet it has not read and the FIFO.  `Told` says that these pieces, one
  after the other, are in order and unbroken except where a line is lost
  (`Unbroken`), that a line reported is accepted, on its way, or lost itself or by the
  one before it (`Accounted`), and that those accepted come before all on their way
  (`Accepted`).  `Pipe` relates the two ends: their toggles agree except while a packet
  read is not acknowledged, nothing is filled into a packet in flight, and a store that
  would undo a reset (`Doomed`) stalls the endpoint rather than sends.  A packet's reading is
  shown to exist, and to keep `Told`, by the least piece at which it would not
  (`ReadingsExist`, `PacketRead`).
- `BenchTrue`: `B!Spec /\ D!Spec => []BenchHeard`.  `BenchInv`, for any values and
  attempts: what is on its way to the autopilot and back either has the value it holds or
  turns, in order, to the one being set, so that the answer with which a call returns
  is not followed by a request that undoes it.  Values are positive numbers, for 0 stands
  for no value; bytes and identifiers are natural numbers (`ServicesAssumption`).  `DecoderInv`, for any stream, payloads,
  pieces and gaps: the bytes not yet looked at are in the order sent and come
  after the frames delivered (`Placed`), a frame that came whole is delivered, `eaten`, or
  all in the buffer (`Waiting`), and as long as nothing was cut out the buffer holds
  frames from their first byte on (`Honest`).

`MainLoopProofs`, for every clock that outlasts a period and a round, ring, period and set of
lags that a clock and a period can tell:

- `TruthOnTime`: `Spec => [](TypeOK /\ OnTime)`; `wait.truth` never exceeds what the
  timer's unsigned difference will show at the next round.
- `FeedBehind`: `Spec => []FixNotEarly`; a slot's unsigned age never exceeds its real
  one, whatever eras the ring holds.
- `FeedLags`: `Spec => []FixLagged`, which adds that a Fix2 is not late either.  While
  the feed has been on for less than the clock's range, the stamps are true
  (`StampTrue`); the ring fills from its newest end with snapshots a period apart, to a round
  (`Spaced`, `Dense`), none missing since the last command, so that among those within
  reach there is one just as old as the lag (`Feeding`).
- `SampledAtRate`: `S!Spec => []RatesKept`, for every base and every set of rates up to
  it.  `Row`: an accumulator is the remainder with which its row of samples began,
  plus a rate for each tick, minus a base for each sample.  A sensor's samples are
  thereby within one of what its ticks are worth; `ShotRow` does the same for the
  single shots, from the request or the last refused commit on.
- `LoopCatchesUp`: `S!Spec => []CatchesUp`, for every work load that leaves time to spare
  (`LoadAssumption`).  `Weight` adds the time passed and not accounted for to what the
  dividers and accumulators hold of the next steps' work; `LoadInv` says that it
  stays within the backlog, less what each tick of a catch-up had to spare.
- `MessageUnderstood`: `W!Spec => []Understood`, for every value of the fields.  `Written`
  says that the buffer holds the fields begun, each bit in its place, and nothing behind
  them; `BitsAdded` adds the piece that `copy_bits` takes in a round, which lies in one byte
  of both sides (`PieceFits`), from an image whose last byte was moved up (`ImageBit`).
  Nothing is used of the layouts but that a field has 1 to 64 bits.  `FramesAre` puts
  the frames together again, whose bytes are the payload's in order.

`CanFeedProofs`, for every queue size that divides the range of its indices, number of buffers and
sequence of transfers:

- `QueueKept`: `Spec => [](TypeOK /\ FramesOK)`.  `FramesOK` says that the indices lie
  in the queue and that every cell between them holds a frame; the lemmas before it
  are the arithmetic of indices taken modulo the queue's size.
- `FeedInOrder`: `Spec => InOrder`, the refinement of `Pipe`: transmit buffers followed
  by what is queued are its contents.  A push writes the cell behind those queued,
  which is none of them (`ModApart`), and a pump moves frames from the queue's head to
  the last buffer, which changes nothing of the concatenation.

`HostLinkProofs`, for every stream of lines, FIFO, flood limit and number of requests
and bus resets, and the packets `AllPackets` that may be cut from the stream
(`PacketAssumption`):

- `LinkGenuine`: `Spec => [](TypeOK /\ FramesGenuine)`.  A frame is a number, so nothing
  in it says that it was not glued together; the invariant therefore orders the
  pieces by the place they are at: those in the packet buffer after those in the
  FIFO, both after the lines accepted (`Onward`, `Behind`).  `Served` and `Asked` say
  that the handler serves as a packet only what is one, and are needed for `TypeOK`.
- `HostAgreed`: `Spec => []Agreed`, for a handler that has run by the next SETUP
  (`Prompt`).  `Protocol` follows a control transfer: at each stage the device is even
  with the host, one request ahead of it, or due to catch up when the acknowledge
  is served, or else it is cut off, by a bus reset not yet served or for good.
- `NothingSilent`: `Spec => []NoSilentLoss`, `Prompt` again: host and device agree on the toggle
  whenever a packet of data is sent, so that none is taken for a repetition, and
  every gap in the stream is one `lost` names.

`ControlsProofs`, for every number of edges, `Hold < Trim`, and every clock that holds
`Trim + 1`, of `Controls` as `MainLoop` instantiates it (`P`):

- `SnapshotOfOneMoment`: `P!Spec => [](P!TypeOK /\ SnapshotWhole)`.
  `Measured` says how far the interrupt may be behind the pin while no error is
  counted (two edges, and only when a pulse was too short), which makes every width
  and period one between neighbours; `Gathered` carries that into a snapshot under
  way.
- `SilenceCaught`: `P!Spec => []SilentFallsBack`.  `Aging` bounds the rounds of silence by
  the age, until trim is reached.
- `FailsafeJustified`: `P!Spec => FailsafeOnlySilent`, from `Standing`: while the counter
  stands where `controls_step` last saw it, the report saw nothing new for as long
  as the age says, or the age has wrapped.

Model-checked only is liveness (`LinesServed`, `Answered`, `NewestDecoded`, `Settles`,
`TransferEnds`), which is beyond the prover.  Every other property of the runs that
hold is the subject of a theorem.

## 6. Where code and documentation part

Findings 1 and 2 are in `PROJECT.json` with their runs; the others were met while
modelling and shown by a run that is no longer kept, or by hand where it says so.

1. `src/main.c:469`: the gyro's rate is tested in the main loop and computed again
   for a division; a suspend in between makes the bias infinite, and nothing but a reboot
   sets it again.
2. `src/nlib/spislave.c:128`, `:135` and `:142`: pins are read before the EXTI bits are
   cleared; an edge between is lost and the next command is stray (`sensors.c:404`
   calls the counters' healthy state "a HARD ZERO").  That is the whole of it: every
   other edge is followed (`LinesFollowed`), and the frame cut and the one after are
   all it can cost (`FramesKept`, `FramesDelivered`, `NoStray`).
3. `src/nlib/spislave.c:87`: prefetched bytes count as read, so a burst that ends
   below a clear-on-read register clears it (`doc/REGMAPS.md:66`).
4. `src/sensors.c:297`: the accel reset leaves the mirrored FIFO length.
5. `src/sensors.c:711`: normal mode selected during a forced conversion is lost.
6. `tools/bench/drive.go:228`: `airstart` with a position sends the position first;
   the trim that follows in a later round of the main loop moves the aircraft
   back to the origin (`fdm/fdm.c:399`).
7. `src/main.c:209` says "the next tx-complete irq re-pumps": a frame that loses
   arbitration, not retransmitted (`fdcan.c:147`), leaves its buffer without one.
   The queue then waits for the next transfer (`LeftBehind`).
8. `src/nlib/canmsgq.h:34`: a full queue refuses single frames, and the rest of the
   transfer is queued when there is room again: a truncated transfer is sent.
9. `src/main.c:842`, "a channel with no completed period for 100 ms reads 0": the
   age wraps every 71.6 minutes, and for 100 ms the dead channel's last width is sent.
   The failsafe code of a channel shows 1 instead of 2 for 500 ms likewise, its
   target stays at trim.
10. `src/nlib/pwm.c:55-58`: that the period survives an edge missed does not hold
    for a rising edge: the period then spans two pulses, counted in `errs`.
11. `src/main.c:242`, "or NULL before the fdm has produced lag_us of history": after
    the model was switched off and on, a slot of the former flight is returned.  A
    lag beyond the ring's reach (8 slots of 50 ms; the setting goes to 2.55 s)
    stops Fix2 without a word.
12. `README.md:256`, "persisting for 500 ms": a window with 1 to 8 refused writes
    neither counts nor resets the count, so the five need not be consecutive.
13. `src/main.c:978`: a command received after the round read the clock looks an
    hour old in that round's STATUS (by hand).
14. `src/nlib/usb.c:130` stores ISTR by read-modify-write although the comment at
    `:132` says to avoid it: a bus reset can be lost, and the host must reset again.
15. `src/nlib/usb.c:567`: a SETUP received while the last acknowledge's CTR_TX is not
    yet served matches no case; no flag is cleared, and the interrupt storms (by
    hand; needs USB's priority to be starved for a packet's time).
16. `src/nlib/usb.c:421`: CLEAR_FEATURE of the OUT endpoint leaves it at NAK, and
    nothing but a new configuration makes it VALID again.
17. `src/nlib/usb.c:134`: a bus reset does not empty `usb_rx`: half a line of the old
    session takes the first line of the new one with it.
18. `src/sensors.c:474` and `:483`: the data-ready pulse can be shorter than stated, and
    two commits in one catch-up of the sampler give one pulse (by hand).
19. `src/nlib/fault.c:117`: an assert leaves `lr` of the record before, which is printed
    as its own (`fault.h:5`, "the causal PC/LR").
20. `src/nlib/fault.c:49`: a capture over a valid record that is cut by the reset button
    leaves it valid, with parts of two crashes (`fault.h:31`).
21. `src/nlib/serial.h:57`: the receive handler empties a full ring by resetting both
    cursors, `tail` among them, which belongs to the reader (`fifo.h:15`, `:29`); between
    the reader's look and its pop, stale bytes are read again.
22. `src/nlib/usb.c:418`: CLEAR_FEATURE with a packet waiting discards the packet;
    the line it began is spliced to a later one, and the format has no checksum
    (`src/main.c:111`).
23. `src/nlib/usb.c:198`: `usb_send` sets the endpoint's state by an XOR with what it loaded
    (`usbfs.h:57`), which is wrong when the interrupt changed it meanwhile: the
    endpoint may become active in DEFAULT, where "only endpoint 0 is configured"
    (`usb.h:52`), and a halt in the race leaves it disabled.
24. `src/sensors.c:538` and `:554`: "serve the single-shot on the next sampler tick": its
    accumulator is fed 1 kHz, so it waits for up to ten ticks, and as long again after each
    refused commit, which `sensors.h:55` asks to retry on the next tick.
25. `src/nlib/spi.c:58`: if the running transaction and the one just counted both end
    between `head++` and the look, the queue is found idle and `elem[curr]`, which was
    never enqueued, is started (`spi.h`: "Starts the SPI immediately if it was idle, else
    the ISR chains to it").  The self test's `spiq_xmit` cannot meet it.
26. `tools/bench/session.go:206`: after a failed `SetParam` and one of another value, with
    losses in between, a stale answer is taken and a value reported that the
    autopilot does not hold.
27. `tools/bench/serbridge.go:31`, "the client just sees a data gap": requests of a caller
    that has given up are held while the device is reopened and written
    afterwards (by hand).
28. `tools/bench/session.go:262`: arming and forced disarming share a command number, so
    that a late acknowledge of one passes for the other (by hand).
29. `tools/bench/missions.go`: on a dead TCP connection the receive returns at once, and the
    loops that wait for simulated time never end; a reboot of the autopilot
    freezes that time, of which the maximum is kept (by hand).
30. `tools/bench/mavlink.go:121`, "assume framing is honest": after a gap a false start
    with an unknown identifier is skipped by the length it claims, and whole frames of
    known identifiers with it; `FramesFound` counts them as `eaten`.

## 7. Not modelled

Sample values, physics, the flight model, the barometer's inverse, the control
mapping's arithmetic, CORDIC and all text formatting: reals and pure functions,
covered by golden tests in the repository.  Real arithmetic is out of TLC's
reach, and in fixed point a model would be the program again.
Generated register definitions and clock set-up: no behaviour; they are by far
the largest part of the code by lines.
The self test's sequence of reads, the fields of MAVLink's messages, commands and missions of
the bench, the PX4 adapters and the DUT patches: straight scripts around a
queue, a serial line or a socket, outside the firmware; the queue, the session
and the decoder are modelled.
Of the components modelled in part, `PROJECT.json` names what is left out.
