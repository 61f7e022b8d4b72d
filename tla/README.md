# ATAT rover: TLA+ models, model checking and proofs

ATAT is a two-wheeled rover for an ESP8266 (NodeMCU) that drives an inward
spiral over a 6 by 6 field of tiles. The sketch
`src/Arduino/main_algo/main_algo.ino` is the program; it uses three project
libraries under `src/Arduino/libraries` (`motor_control`, `sensors`,
`telemetry`) and the drivers and network libraries the repository carries
beside them. This directory holds TLA+ modules translated from that source, TLC
configurations, and TLAPS proofs.

Run `tlc -config X.cfg M` for a model-checking run and `tlapm M.tla` for a
proof module. `PROJECT.json` lists the runs, the source lines of every
definition, the hazards of the code and the results.

## 1. Inventory of the system

| part | state | operations | interacts with |
|---|---|---|---|
| **Motor driver**, `motor_control/drive.{h,cpp}` | mode, speed, rpm, two duty indexes, two direction pins | `accelerate`, `deccelerate` (blocking ramps), `turn_right`, `turn_left`, `estop`, `cruise` (two overloads), `get_params` | called by the loop only |
| **Navigation loop**, `main_algo.ino` `loop`, `autoCorrect`, `delayWithCorrection` | `orientation`, `prevOrientation`, four `changeOrientation*` counters, `currentPosition`, `track[6][6]`, `pit`, `pit2`, the two arrays of the pass | one pass of `loop()` | reads the sensors, commands the driver |
| **Timed turn**, the four `millis()` waits of `loop` | a float with the start time | busy wait | the clock, the processor's watchdog |
| **Pass memory**, the heads and the epilogue of `loop` | two pointers, the heap | `new[]`, `delete[]` | the heap, which ends in a restart |
| **setup() and sensing**, `main_algo.ino`, `sensors/sensors.{h,cpp}` | the range sensors' addresses and XSHUT lines, the motion sensor's calibration | `setup`, `setupTOFs`, `calibrateICM`, `readTOFs`, `readICM` | I2C, pins, the motion sensor's driver |
| **Motion sensor driver**, `Adafruit_ICM20X` over `Adafruit_BusIO` | selected register bank (in the chip), ranges, last sample | begin, reset, bank select, auxiliary I2C, rates and ranges | I2C |
| **MPU6050 driver**, `MPU6050`, `I2Cdev` | one buffer of 14 bytes; all else is in the chip | settings, measurements, FIFO packet, DMP memory, calibration | I2C |
| **nanopb**, `telemetry/pb_*.c` | a stream with a limit | encode, decode, three framings | callbacks, buffers |
| **Telemetry**, `telemetry/Telemetry.{h,cpp}` | server address, the event | uploads | nanopb, WiFiClient; its calls in the loop are commented out at this commit |
| **TCP client**, `WiFiClient`, `ClientContext` | pcb, receive chain, send progress, waiting flags, reference count | connect, read, write, wait, close, abort, copy | lwIP callbacks |
| **TCP server**, `WiFiServer`, `ArduinoWiFiServer` | listening pcb, list of unclaimed contexts, monitored clients | begin, accept, available, close | lwIP callbacks, the clients' contexts |
| **UDP**, `WiFiUDP`, `UdpContext` | chain of received packets with helper buffers, packet being written, reference count | begin, parse, read, write, send, stop | lwIP callback |
| **Radio**, `ESP8266WiFi{Generic,STA,STA-WPS,AP}` | mode, persistence, sleep, configuration in RAM and flash, event handlers, what shutdown saved | begin, disconnect, softAP, mode, sleep, SmartConfig, WPS, shutdown, resume | the vendor's SDK, which may refuse |
| **Scan and multi**, `ESP8266WiFiScan`, `ESP8266WiFiMulti` | scan flags and results, list of networks | scan, `addAP`, `run` | SDK callback, radio |
| **Host lookup**, `hostByName` | one flag for all lookups | resolve with timeout | lwIP callback |
| **WiFi shield library**, `lib_dependencies` `WiFi*.cpp`, `utility/*_drv.cpp` | two tables of sockets, one socket number per object | clients, one server, UDP, joins, scans | SPI exchange with the shield |
| **TLS, unused sensors, test sketches**, Zephyr sample, Python plots | - | see section 5 | - |

What is hard in this code, and what makes each part correct:

* *Motor driver.* A few methods share five fields, and each method sets only
  some of them. Correct means that the fields agree with the pins whatever
  the order of the calls and that an index on a pin is in 0..255.
* *Navigation loop.* Four hand-written copies of one branch, which differ in
  when they move `orientation`, in the thresholds and in how they walk over the
  map; a float that jumps by a quarter; array elements that may be stale or
  unset; globals that a restart resets while the rover stays where it is.
  Correct means that counters, heading and map stay consistent for ever, that the
  position is the one the route was planned with, and that the rover stands still
  when it books a leg.
* *Timed turn.* A wrapping 32-bit clock compared in floats: a turn must have
  the length asked for.
* *Pass memory.* A pass must give back what it takes.
* *setup().* Two sensors share an address until one is moved, over restarts that
  keep the sensors powered; a chip whose registers lie in four banks, where the
  bank is whatever the last access selected; resets that are waited for without
  a limit.
* *MPU6050.* Read-modify-write over a bus that fails, while the chip samples, fills
  its FIFO and clears reset bits by itself; a buffer shared by all getters.
* *nanopb, telemetry.* Submessages are encoded twice and must come out the
  same, buffers may end at any byte, a connection may break at any byte.
* *TCP and UDP.* Partial writes, acknowledgements, errors, timeouts and packets
  in any order, while a call sleeps; contexts shared by count among objects that
  are returned, copied, replaced and destroyed.
* *Radio.* What goes to flash and what does not, when any request may be refused
  and power may fail in between; scans and lookups that answer late.
* *Shield.* Replies may be lost or cut; two tables that are the library's guess at
  what the shield does.

Nothing in the sketch runs concurrently with `loop()` as far as its own state
goes (it installs no interrupt handler). The interleavings that exist are those
with the environment: sensors, clock, chips, restarts, and the callbacks of lwIP
and the SDK, which come when the sketch yields.

## 2. Modules

| module | what it is |
|---|---|
| `Drive` | the motor driver |
| `Spiral` | abstract specification of the route, with the corners the map diagrams draw |
| `Navigator` | the navigation loop; EXTENDS `Drive`, whose actions are its motor commands, and implements `Spiral` but for a slip of one row number |
| `TurnTimer` | the timed wait of a turn, tick by tick: what the one step `EndWait` of `Navigator` takes |
| `Rover` | composes these: three sketches, main_algo, a motor test and a timed turn; holds the values of TLC's instance |
| `LoopMemory` | the two arrays of a pass |
| `IcmBus` | the motion sensor's driver and chip, transaction by transaction |
| `Boot` | `setup()` with both range sensors; EXTENDS `IcmBus` |
| `I2Cdev`, `MpuMap` | bit and byte access; the register map of the MPU6050 |
| `MpuSettings`, `MpuMeasure`, `MpuFifo`, `MpuMemory`, `MpuCalibrate` | the five families of the MPU6050 driver's functions |
| `Mpu6050` | composes them: one object, one call at a time |
| `PbWire`, `PbEncode`, `PbDecode` | nanopb as functions over byte sequences |
| `Telemetry` | the event descriptor, what each upload fills in, and the sender with its connection |
| `Exchange` | EXTENDS `Telemetry` with a reader at the other end; `MCExchange` is its TLC instance |
| `ClientContext` | a TCP client and its context against the lwIP callbacks |
| `WiFiServer` | a server, its backlog and the contexts its clients share |
| `PbufChain` | where the buffers of a received chain end |
| `UdpContext` | UDP sockets and the packets behind them |
| `Connections` | composes these three, and holds the values of TLC's instance |
| `WiFiGeneric`, `WiFiSTA`, `WiFiAP` | the radio's functions, each giving the set of its outcomes |
| `WiFiStation` | a sketch that makes those calls, with events, shutdown and restarts |
| `WiFiMulti` | scans, and `run()` of ESP8266WiFiMulti |
| `SpiDrv`, `ShieldDrv` | the byte exchange with the shield, and its commands |
| `Shield` | a sketch on the shield: clients, a server, a UDP socket |
| `Wireless` | composes `WiFiStation`, `WiFiMulti` and `Shield`, and holds the values of TLC's instance |
| `HostLookup` | `hostByName` one name after another |
| `NavigatorProofs` (with those of `Drive`), `TimerProofs`, `BootProofs`, `MpuProofs`, `TelemetryProofs`, `ContextProofs`, `ServerProofs`, `WirelessProofs` | theorems |

**Drive.** `mode`, `speed`, `rpm` are `_mode`, `_current_speed`, `_current_rpm`;
`pwm` is the index last written to each PWM pin, `dir` the spin last written to
each direction pin. Speeds are integers in thousandths of m/s. `(255-i)/255` is
kept as a division of integers, and `turn_*` store an index as a speed
(`1000*i` here), both as in the code. The ramps block: `Accelerate` or
`Deccelerate` enters the loop, `RampUp` or `RampDown` is one iteration,
`AccelerateDone` or `DeccelerateDone` leaves. Every other method is one action.

**Navigator.** `pc` is the point of `loop()`. A pass is
`ReadSensors`, then `SkipPit` (the gyro condition fails) or `Dispatch` (the
branch of `orientation`, with its second reading); then `DriveOn` and `EnterLeg`
(open road) or `BeginTurn`, `SpinRight`, `EndWait`, `Halt`, `Mark` (a wall). The
four branches are one set of actions with the heading as a parameter; where the
branches differ (`TurnDistance`, `LegCell`, `LegLength`, `Stops`, `Corner`,
`NextOrientation`, `LegBlock`) the operator has a case per branch.
`changeOrientation` counts quarters, since the LEFT counter takes the value
2.25; `Lap` is the `(int)` of the code. `delayWithCorrection` returns at once
(its loop condition is false when it is entered), so it leaves no trace.
`autoCorrect` compares a float with the double -0.2, which is never equal, so a
lost left reading counts as near. `readTOFs` writes -2 over the FRONT reading
when the LEFT one is far, and leaves the left element alone. `compass` is the way
the rover really points, `origin` the way it pointed at the last restart; both
belong to the world, not to the program. `Reset` may happen between any two steps; in
the timed turn it leaves the rover at any heading.

**Spiral** promises that each leg is followed by a quarter turn to the right,
that the legs of each heading are counted, and that after a leg the rover is on the
corner marked x in the diagram main_algo.ino draws beside the branch (lines 256-262,
322-328, 384-390, 473-479), one tile further inside each lap. The refinement
mapping is `LegHeading` (which undoes the early `orientation = UP` of the LEFT
branch), `Lap` of each counter, and `currentPosition` with `Slip` rows taken off;
every other step of the loop is a stutter. `Slip` is where the code leaves the plan:
the branch DOWN stores the row `5-(changeOrientationDown-1)` (line 482), two below the
drawn one, LEFT keeps it, and UP stores a row of its own. That `currentPosition` *is* the
drawn corner is `OnThePlan`, which the run `nav_plan` refutes; what the wrong row does to
the walks over the map is `StrayStores`: the legs LEFT and UP store in the words behind
`track`, those of `track[6][1]` to `track[6][5]` and no others.

**TurnTimer** keeps the code's arithmetic for a clock of `W` bits and a float
mantissa of `M` bits, round to nearest even; powers of two are a function
(`Pow2`), so that the proofs can speak of them. Both the start of a turn and the
time read last are rounded, each by at most half a spacing, and a comparison of
rounded times may therefore come out a whole spacing early or late:
`TurnLengthHolds` says just that. The soft watchdog resets a
processor whose `loop()` does not return. **LoopMemory** has one action per
statement that allocates or deletes.

**Boot and IcmBus.** `at` is the statement of `setup()` reached. A method of the
driver is a sequence `todo` of bus transactions, and one step takes one of them:
the chip (`ChipStep`) acts between two, any may fail, and a restart may come
before each. `bank` and `cells` are the chip's; the driver keeps no copy of the
bank. A method that returns early skips to a `Join`. Once `setup()` has returned
the sketch calls any method (`CallMethod`); of methods that differ in a register
alone there is one.

**Mpu6050.** The functions block and the object keeps only its buffer, so a
behaviour stays with one family. In each, a step is a transaction and the chip
moves in between: it clears reset bits, replaces the sample, puts packets into
the FIFO (and drops the oldest bytes), moves its memory window. `MpuMap` gives every
setting its field once, as getter and setter name the same constants. A failed read leaves
what the code leaves: an uninitialised byte in `writeBit`, old contents in the
getters. A block of DMP memory that is to be verified gets a buffer from `malloc` or not; without one
it is written unverified and reported as written, as in the code. `MpuCalibrate` keeps of the controller's error only the bounds the code
compares it with.

**nanopb and Exchange.** The encoder and decoder are operators over sequences
of bytes with the stream as a record (`ok`, `written`, `left`), named like the C
functions. Numbers are groups of seven bits and bytes rather than integers of 64
bits, so nothing overflows TLC's. A callback field holds what its function writes
on each of the two passes. The C functions call each other down into submessages;
`Encoder[n]` is `pb_encode` for messages nested fewer than `n` deep, with `Encoder[n - 1]` for what is inside,
and a loop over fields or elements is `InTurn`, each step from the stream the last one left.
`Structs` are the structs there are, each paired with its descriptor. The decoder meets
input of any depth and stays recursive. `Telemetry` encodes messages into a buffer
of some size, hands over what was written, and the connection breaks at some byte; `Exchange`
adds a reader, who decodes with the same descriptor or with an older one.

**Connections.** Three sketches, each from its own start. In `ClientContext` the
thread (`at`) is between calls, or asleep in the `esp_delay` of `connect` or of a
write, or in the `esp_yield` of `wait_until_acked` (`purpose` says on whose
behalf: a synchronous write, `flush`, `stop`, or the `connect` that stops its
predecessor first). The lwIP callbacks run only then, so each stretch between two
sleeps is one action and each callback is one; `_poll` is part of `Tick`, as
lwIP's timer drives it. `tcp`, `unacked` and `uncredited` are lwIP's side of the
connection; `unacked` holds a mark per byte, copied or lent. `WiFiServer` has contexts with
their counts (`ctx`), the object that holds each (`holding`), the chain
`unclaimed`, and the walk of `available()` and `close()` over the monitored clients, which lwIP can
interrupt where a call yields. A context made by `Newcomer` holds one place of the
backlog until it is accepted. In `UdpContext` a packet and its bytes are named by
a number, so that a wrong cut of the chain shows: `BytesOf` finds the bytes
through the buffers the chain really has, whatever packet they belong to.

**Wireless.** Three sketches again. A function of the radio takes the radio's
record and gives the set of its outcomes, `back` and the radio after it, since
the SDK may refuse any request. `WiFiStation` calls them in any order, with SDK
events and restarts in between; `shutdown` and `resumeFromShutdown` keep their
state in `saved`. `WiFiMulti` is `run()` with its three waits. `Shield` is a call as
a sequence of exchanges, whose outcomes `ShieldDrv` computes from what `SpiDrv`
can read when bytes are lost or cut. `bereft` is a history of the clients whose entry of
the table another object cleared: a server takes the socket of a client (`getSocket` does not look at
`_state`), the client that `available()` returns has it too, and its `stop` frees the entry, so that the next
`connect` shares that socket. The code does this and the model has it; `ClientsApart`
says that two clients never share a socket in any other way.

### Assumptions about what is not in the repository

* A timed turn of the tuned length turns the rover by one quarter; a restart
  in the middle of it leaves the rover at any heading, as it may have spun until the
  watchdog bit.
* `rangingTest` returns a distance or "no echo" (RangeStatus 4), in any order. A
  range sensor forgets its address exactly when XSHUT takes its power.
* `track[6]`, which the LEFT and UP legs of the second lap touch because of
  the row stored by the DOWN branch, lies behind the array: reading it gives
  something that looks like a mark or does not, and storing a 1 there changes no
  global that is read again, or changes `prevOrientation`.
* lwIP calls a context back only while the thread sleeps or between calls; it
  drops a connection only through the error callback or at the context's own
  request; a peer accepts at most once and sends nothing after its close. A pcb
  that is freed gives back its place in the backlog.
* The chips behave as their data sheets say: a reset bit is cleared when the
  reset is done, a write to `I2C_SLV4_CTRL` starts a transaction and
  its end sets a bit that reading clears, a sample is replaced as a whole.
* A request the SDK refuses changes nothing; what is in flash survives a restart.
* The shield obeys a command it has received whole, and its reply is read whole,
  cut, or not at all.
* A restart sets every global to its initial value and leaves the direction
  pins in any state.

## 3. What the runs check

| run | module, cfg | distinct states | result |
|---|---|---|---|
| `rover` | `Rover`, `MCRover.cfg` | 123,132 | `SpiralOrder`: the lap counters go round with the heading; `HeadingBelief`: the believed heading is off by that of the last restart; `MotorsMatchPhase`; `StrayStores`, `LegMarksItsOwnLine`: which cells a leg marks, on the map and behind it; `ImplementsSpiral`; `SpeedMatchesLeftWheel`: outside ramps and turns the object remembers what the left wheel was told; `TurnLengthHolds`: a turn waits its time, up to a whole spacing of the floats at the clock early or late; `BittenOnlyAtTheWrap`: the watchdog bites only in a turn that reaches over the wrap |
| `nav_front` | `Rover`, `MCRoverFront.cfg` | - | **violated** `FrontRowIsFrontSensor`: a far left wall hides a wall ahead |
| `nav_plan` | `Rover`, `MCRoverPlan.cfg` | - | **violated** `OnThePlan`: after a leg downwards the row is two too low, off the map |
| `ramp_start` | `Rover`, `MCRoverRamp.cfg` | - | **violated** `RampStartsAtCurrentSpeed`: after a turn a ramp starts from an index taken for a speed |
| `memory_leak` | `LoopMemory`, `MCMemoryLeak.cfg` | - | **violated**: a pass leaks both arrays |
| `boot` | `Boot`, `MCBoot.cfg` | 220,993 | `MeantRegister`: each access hits the bank it is meant for; `BegunIsConfigured`; `OneListener`: each range sensor is addressed alone; `BeginReturns`: on a bus that does not fail `begin_I2C` does not wait for ever for a reset |
| `icm_read` | `Boot`, `MCBootRead.cfg` | - | **violated**: a read on the auxiliary bus returns the byte of an earlier one that timed out |
| `mpu` | `Mpu6050`, `MCMpu.cfg` | 623,039 | `SettingsStick`, `WordsInPlace`, `LatestWholePacket`, `BlockIsThere`, `BitZeroKept`; `PacketCallReturns`; `CalibrationEnds` for a robot at rest |
| `exchange` | `MCExchange` | 166,442 | `MessagesArrive`, `NothingInvented`, `BufferHeld` |
| `context` | `Connections`, `MCContext.cfg` | 371,749 | client: `PcbIsLive`, `LossWakesCaller`, `WindowAccounted`, `LentOnlyAfterGivingUp`, `BytesOnlyWhileOpen`, every call returns; server: `ContextsCounted`, `RoundRobin`; UDP: `PacketsApart` |
| `wireless` | `Wireless`, `MCWireless.cfg` | 472,328 | radio: `ShutdownSparesFlash`, `ResumeRestores`; multi: `TriesEveryEntry`, `RunReturns`; shield: `WrittenWasSent`, `ClientsApart`, calls return |
| `dns_late` | `HostLookup`, `MCLookup.cfg` | - | **violated**: a late answer is stored as the address of another host |

The six violated properties are statements of the repository's own comments
and tests; `PROJECT.json` quotes them under `findings`.

Bounds, and why they are enough:

* `MCSpeeds`: one speed below zero, zero, one above and one equal
  to the maximum, the named speeds that give different indexes. The ramps run
  over all 256 indexes.
* `MCRanges` {100, 150, 1200, 1400}: on both sides of every comparison of the
  code at some lap: too near, kept, open road (which becomes "wall" when the
  turning distance has grown past it), and beyond the 1300 of `readTOFs`; "no
  echo" is always possible. `MCGarbage` is what an unset array element may hold: one
  value that passes for a lost reading and one that passes for a wall.
* `MaxLaps` = 4: three laps fill the map, the fourth shows what the loop does
  past it. A heading that has this many legs meets no further wall; it is the only
  guard that is not in the code.
* `W` = 8, `M` = 5: turns begin at every clock value with four spacings of
  floats (1, 2, 4 and 8), a turn of 12 (a multiple of
  all but the last, so that a turn of the exact length happens) and a watchdog of 40. The code has 32, 24, 840 to 855 and some 3000.
* `HeapBlocks` = 6: one pass is enough to see the leak.
* `boot`: `Checks` = 2 and `Resets` = 2 for the code's 100 and 5, so that a wait
  may end at its first look, its last, or not; `MaxFaults` = 1 failed transaction or
  restart, at every step of a behaviour; `MaxCalls` = 2 methods after `setup()`, as what one leaves
  behind (a bank, a busy slave) matters to the next.
* `mpu`: packets of 3 bytes in a FIFO of 10, read 2 at a time, given up above 7:
  every count from empty to overflown, with packets cut at each end. Banks of 3 bytes, chunks of
  2 and blocks up to 5 cross a bank's border at any place. Two loops of 5 rounds
  reach both ends of a calibration. `MaxMissed` = 1: a block that is compared survives the
  loss of any one transaction, and nothing is claimed of two. `Gap` = 4 is the only bound on the
  sensor: it puts in a packet in no less than four transactions.
* `exchange`: one message or two; buffers that fit, that end within a
  submessage and within a string; every field type the descriptors of the
  repository and nanopb's static fields have; a cut at every byte; a reader with all fields or some.
  `MaxNesting` = 1, the depth of a `TelemetryEvent`.
* `context`: `SndBuf` = 2, `Wnd` = 2, `Sizes` {1, 3}: a write that fits and one that
  must wait for acknowledgements at least once; received data in one or two
  chained buffers, read whole, in part, or across their border; `Timeout` = 2
  and `FlushWait` = 1 ticks, so that a timeout may fall before or after each other event (41,727 states).
  Two monitored slots, two objects of the sketch and two contexts: every slot
  taken and one waiting, a context held twice, a backlog full or absent (210,402 states).
  Two sockets, three packets of one or two buffers and a depth of two: a packet
  that is refused, one chained behind one being read, a context shared and left (119,620 states).
* `wireless`: two networks of which one is never in the air, one with two access
  points, a list of two entries, one refusal by the SDK; two clients and
  two sockets, two tries per loop, four calls of the sketch: enough for a server to take a client's
  socket and for its client to clear the entry, so that `bereft` clients occur. That such
  a client then shares its socket takes a fifth call (with five, the shield alone has 1,590,821
  states, and the property holds); the theorem covers any number. One request of `shutdown` or
  `resumeFromShutdown` a behaviour (`MaxRequests`): a persistent radio with its station on is reached only by
  the theorems.
* `dns_late`: two hosts, one place on the stack (what two calls from one line
  have), two lookups.

Fairness. Nothing live is claimed of a pass of `loop()`, as its one wait need not end at the
clock's wrap (`TurnTimer`), and `Navigator` assumes no fairness; `Drive` assumes it of its two ramp loops and their
exits, not of any call. `Boot` assumes that a driver method runs on and that the chip completes a
reset it was told to make, for which the driver waits without a limit; not that slave 4 ever finishes, for
which it counts, and not that the watchdog bites. `BeginReturns` speaks of `begin_I2C` alone: `setup()` stays in
`while(1) delay(10)` (sensors.cpp:137) when the sensor did not begin, in the code and in the model. `Mpu6050` assumes
that a blocking call goes on and that time passes; `CalibrationEnds` further assumes, in
the property, a robot that comes to rest. `ClientContext` assumes that time
passes and that a thread whose wait is over goes on, and nothing of the network.
`Wireless` assumes that the waits of `run()` end at their timeouts and that the
shield's driver goes on, that is, that the shield becomes ready again: with the ready
line down for ever the code waits for ever. Nothing is assumed anywhere of
sensors, walls, peers or restarts.

Other facts of the code that the modules keep:

* `WiFiUDP::operator=` counts the new context and never gives the old one back;
  `WiFiUDP::available` says in a comment that it returns zero before
  `parsePacket`, which is not so when a packet is half read.
* An object `WiFiClient` assigned to itself while it is the only holder would
  delete the context it goes on to use; no caller does, and the module has no such step.
* `stopAllExcept` compares objects, not contexts, for TCP clients.
* `hasMaxPendingClients`, a question without effect and left out, dereferences a
  null pointer before `begin`.
* The condition `if (client)` of `available()` looks at the context twice, so that
  unread data may go with a client that is replaced in between.
* The shield library's `stop` of a client that never connected writes behind its table.

## 4. What is proved

All theorems hold for every value of the constants that satisfies the module's
assumption: `SpeedsAssumption` (speeds are integers), `NavAssumption` (distances are
naturals, unset values integers, `MaxLaps` a natural), `TimerAssumption` (the clock
is wider than the mantissa, and the watchdog outlasts a turn by more than the
rounding but not the clock: 855 + 256 < 3000 < 2^32), `BootAssumption` and
`IcmAssumption` (bounds are naturals), the assumptions of the five MPU6050 modules
(sizes are positive; `FifoAssumption`: the FIFO holds two packets and is given up
only when it holds one, which `dmpPacketSize` and 1024 bytes meet),
`ContextAssumption` (buffer sizes and write lengths are positive), `UdpAssumption`
(a packet has at least one buffer), `ServerAssumption` (finitely many objects and
contexts, the sketch's objects are not slots), `ShieldAssumption` (fewer sockets
than the number that means none, names apart), `StructsAssumption` (a struct holds in each
field what its descriptor says, and structs are nested at most `MaxNesting` deep, a natural: C gives both) and
`SenderAssumption` (buffer sizes are naturals, the framings are those of `pb_encode_ex`). Nothing else is assumed.

* `NavigatorProofs`, the driver: `DriveTypeOK` is inductive by itself; its one hard fact is
  that `ConvertSpeedToI` stays in 0..255 (lemma
  `IndexInRange`). `SpeedMatchesLeftWheel` and `RpmTracksLeftWheel` need the facts that an index converts
  to the maximum or to zero and back. Each action of the driver has a type lemma
  of its own, which the navigation proofs use.
* `NavigatorProofs`, the loop: `SpiralOrder` is not inductive. The inductive invariant
  `SpiralInv` adds `NavTypeOK`, `BranchIsOrientation` (before a turn `branch` is the
  `orientation`, so that the leg booked is the leg driven) and `CornerIsStored`, a closed form of what
  the code stores in `currentPosition`, wrong row included. Taking `Slip` off that form gives the drawn
  corner (`CornerIsPlanned`), for any number of laps. With it every
  step but `Mark` and `Reset` leaves the mapped variables alone, `Mark` is
  `Spiral!Turn` and `Reset` is `Spiral!Restart`: this is `NavImplementsSpiral`.
  `HeadingBelief` follows with the same invariant. `TurnsOnlyAtWalls` needs
  `ReadingHonest`: a front reading that is not negative is what the front sensor
  measured. `MotorsMatchPhase` is inductive with the types.
  `StrayStores`, `LegMarksItsOwnLine` and `StartTileKept` use `CornerIsStored` and
  `SpiralOrder` for the row and column a leg starts from: only then is the
  walk known to end before the corner it books, and column 5 of row 5 to be
  out of reach of the legs that do not test for it.
* `BootProofs`: `OneListener` with `LoxInv`, what the statements of `setupTOFs` have
  established when each is reached. A sensor is without power exactly while its
  line is down, so the power cycle forgets what an earlier `setup()` did.
  `MeantRegister` with `BusInv`, about the transactions a call has left: an access
  is *bound* if the last selection before it, within the call, is of its
  bank, and *loose* if there is none. Each method but one is shown to bind its accesses, over
  every way it can return early; `begin_I2C` is the exception, as the reset in
  its middle throws the chip back to bank 0. So `BusInv` says as well that a reset is pending only between the
  beginning of `begin_I2C` and the end of its wait, where loose accesses are to bank 0, or
  after a restart until the next one, and that nothing else writes the reset bit.
  `BegunIsConfigured` with `ConfInv`, which rests on `BusInv`: a write that lands elsewhere would
  bring nothing. From the end of its reset on `begin_I2C` *owes* five results (awake, I2C master on,
  slave 0 aimed and feeding, each range the one remembered), and each is there or the step that
  brings it is still to come (`Owed`). The steps a failed auxiliary transaction jumps over, or
  another try for the magnetometer puts in, are shown to be none of those (`AnsweredJump`,
  `AgainPiece`); a write of bits keeps the neighbours it has read (`GroupKept`, `RangeKept`);
  and what every other method writes is `Plain`. TLC checked `ConfInv` on the `boot` instance.
* `ContextProofs`: `LinkInv` joins `PcbIsLive` and `LossWakesCaller` with
  `FlagsWhereAwaited` (each flag is raised only where the thread sleeps on it,
  and a connection is half open only inside `connect`): without it a callback
  between calls could find a flag of an earlier call. `SendInv` follows borrowed
  bytes through the send queue; its crux is that a flush which saw `SndBuf` free
  bytes before its yield still has an empty queue after it, since only
  acknowledgements come in between. `BytesOnlyWhileOpen` needs both: a write is
  never tried while the connection is half open.
  `WindowAccounted` with `WindowInv`: the read offset lies in the first buffer, and what the chain
  holds is what has not been acknowledged. Its lemmas say how the ends of
  the buffers move when a buffer is appended and when those read are dropped
  (`EndsGrow`, `EndsShift`); that a read ends within a first buffer that exists is by well-foundedness.
  `PacketsApart` with `UdpInv`, about neighbours in a chain: behind a helper starts the
  packet it is for, a piece is followed by the piece that continues it or, when
  the packet is complete, by a helper or by nothing. From this the first packet's buffers
  are known to hold its bytes in order (`HeadByte`), its size is that of the packet
  (`FirstPacket`), and what is behind a helper is such a chain again (`BehindHelper`),
  as is what arrives behind one (`Chained`).
* `ServerProofs`: `ContextsCounted` with `CountInv`: the count of each context is the
  number of its holders, the queue names each waiting context once, and the
  places of the backlog held back are those of waiting contexts. The
  assignment through a temporary (`FromTemporary`) is followed once, for every
  order of the three holders (`TemporaryMoves`). `RoundRobin` with `TurnInv`: what
  a client has been passed over plus its distance from the index is less than the
  number of slots, and no two slots hold one context. It is here that a slot whose
  client is replaced has to start from zero.
* `WirelessProofs`: `ClientsApart` with `HeldApart`: a socket held by a client that is not bereft is marked in
  the table, but for the one a `stop` under way has cleared, and then no other
  call runs. That the lowest free socket exists is by well-foundedness. `WrittenWasSent`: the
  library says a length only after a reply it has read whole, and the shield has sent by then.
  `TriesEveryEntry` with `MultiInv`: an entry `run()` has passed over in its first loop, or
  reached in its second, is one it has tried, and it takes that list up again after each wait.
  `ResumeRestores` with `StationInv`: while the radio is down what is saved is that of the
  radio shut down, whose network is still the one in force or, after a restart, the one in
  flash, with which `resumeFromShutdown` compares. `ShutdownSparesFlash` from a lemma per
  function of the radio: without persistence none writes flash, and `shutdown` has it
  off before it calls any, also while it undoes a half-way failure.
* `MpuProofs`: `BitZeroKept`: nothing is written until all three registers have been read, so what
  was read is what the call began with; from then on every write puts it back.
  `LatestWholePacket` with `FifoInv`: the FIFO always holds the last bytes of the stream of
  packets, however it overflows and is read (`HoldsStream`), and between the
  count of one packet and its fetch at most one more comes.
  `WordsInPlace` with `MeasureInv`: what is left of a getter is the end of its plan, and each
  byte taken from the buffer was put there by the transaction before.
  `SettingsStick` with `CopyHolds`: between the read and the write of a setter its copy of
  the register holds every other setting that was asked for, since fields of one register do not overlap.
  A setting is no longer claimed once its setter is called again, the chip is reset as a whole, or
  the read of another setter of its register fails: of that register the code then writes back a byte
  it never read, and the model says so rather than the property.
  `BlockIsThere` (of blocks that were compared, or when nothing was lost) with `MemoryInv`: the block so far is written and the rest untouched, or a
  chunk went *astray* because one transaction was lost; then the read back of that chunk aims at the right place
  and finds it different. A block's bytes are told apart by a history of fresh numbers.
* `TelemetryProofs`: `BufferHeld`. Each function of the encoder is shown to be a call with a *cost*
  that does not depend on the stream it is given (`Call`): a number of bytes, `Never` when it
  refuses the message whatever the room, or `Unknown` when a callback wrote another number of bytes on
  its second pass. A call adds exactly its cost to what was counted if there is room, fails if there is not,
  and in either case never writes behind the limit. Costs add up over the fields of a struct and the elements of an array
  (`InTurn`), and over a submessage, whose cost is found out by a sizing stream first: that the
  two passes agree is what the code checks at its end (`SubmessageCost`). The depth of nesting is no
  induction the prover has; it is a least counterexample among the levels of `Encoder` instead. From this
  `NeverBehindTheBuffer` (whatever the callbacks do), `AnnouncedSizeHolds` (if they are
  steady, `pb_get_encoded_size` is the size it takes) and, with the invariant `LastCall`, `BufferHeld`.
  `EveryEventFits` adds up the fields of a `TelemetryEvent`: 17 + 17 + 17 + 12 for the groups of floats, 24 for the
  location, 13 + 13 + 11 + 2 for the rest, 126 of the 128 bytes `_uploadEvent` has; one more
  enumerator would no longer fit. The theorems speak of
  `TelemetrySpec`, whose steps are the `Sending` steps of `ExchangeSpec`: the reader leaves its
  variables alone, and the decoder's recursion cannot be reached from a module with a theorem.
* `TimerProofs`: the laws of powers of two, that the spacing of floats is a power of
  two that grows with the number, and that rounding is off by at most half a
  spacing; then `TimerInv`: before the wrap the clock is ahead of the beginning by the
  time gone by and the condition was false a tick ago; after it the time asked for
  lies beyond any reading, so that only the watchdog is left.

`DirectionAgreesWithMode`, `RpmTracksLeftWheel`, `TurnsOnlyAtWalls`, `StartTileKept`,
`IdleIsClean` and the type invariants are proved without a run of their own.

Only model-checked: all liveness, which the prover does not handle; `MessagesArrive`
and `NothingInvented`, which are about the decoder, a recursion over whatever bytes
arrive, and the inverse of the encoder on them.

## 5. Not modelled

* TLS (`WiFiClientSecureBearSSL.cpp` and the files around it): glue to the BearSSL library,
  which is not in the repository. What the glue keeps is the library's state machine,
  of which there is no source to translate.
* `ESP8266WiFiGratuitous.cpp`: one timer and one call, without state that is read again.
* `ArduinoWiFiServer`'s `write` and `flush` to all clients, which are a
  loop over the client's own; `write_P`, stream writes and keep-alive of
  `ClientContext`; `sendTimeout` and the receive handler of `UdpContext`, which
  nothing in the repository calls.
* Power, rates, channels and host names of the radio: set and read back.
* SPI access and the ICM20649 in `Adafruit_ICM20X`, and the scaling of readings.
* nanopb's pointer fields (not compiled in), extensions and defaults of proto2.
  `lib_dependencies/Nanopb` is a second copy of `telemetry/pb_*`.
* `HCSR04`, `Adafruit_Sensor`, `Adafruit_SPIDevice`: no state, or no device on that bus.
* The test sketches, `pipetest`, the Zephyr sample and the Python plots: straight-line
  exercises of one call, a template and offline plotting.

`uploadMainData` lacks the semicolon of its `return`, so that `Telemetry.cpp` does not
compile as it is; it is modelled with it, and with `icm_values[4..6]` of an
array of six as it is read. That two telemetry events follow each other on one
connection without a length before them is in `Exchange` as the framing "plain"
with two messages; that they stay apart rests on a `delay` in the code, which has
no counterpart in a model without time, and no property covers it.
