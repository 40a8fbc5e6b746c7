# A verification of the HM-LD1 dToF SDK

The repository is a C++17 library that opens an HM-LD1 depth camera over one of
three links (UVC video, a serial line, UDP) and hands the caller numbered
frames with depth, point cloud, calibration and timestamps. This directory holds
TLA+ modules of it, TLC configurations that check them, and proofs that TLAPS
checks. `PROJECT.json` maps every definition to the lines it stands for and
lists the runs, the mutants (each a plausible bug that makes one property
fail), the hazards and the theorems.

Paths below are relative to the repository's `src/` directory.

## 1. Inventory

| Component | Source | State it keeps | Operations |
| --- | --- | --- | --- |
| Camera | `camera.cpp`, `internal/uvc_profile_utils.hpp` | open source, latest info and calibration, capabilities, frame number | `Open` with a calibration bootstrap, `Poll`, `Close`, getters |
| Packet sources | `transport/packet_source_{uvc,serial,udp}.cpp` | their device, clock, queues, counters | `Open`, `Poll`, `Close` |
| Timestamp normalizers | `internal/timestamp_normalizer.cpp` | previous raw time, logical time, host anchor, last output | `Reset`, `Normalize` |
| UVC timestamps | `internal/uvc_timestamp.cpp` | a millisecond normalizer and the last output | `NormalizeUvcTimestamp` |
| Frame parser | `protocol/frame_parser.cpp` | receive buffer, locked checksum profile, counters | `Append`, `TryPop`, `Reset` |
| UVC device | `transport/uvc_device.cpp` | descriptor, mapped buffers | `Open`, `ReadFrame`, `Close` |
| Serial port | `transport/serial_port.cpp` | descriptor | `Open`, `ReadSome`, `Close` |
| UDP set-up | `transport/udp_network_{probe,configure}.cpp`, `transport/udp_socket.cpp` | interface address, netmask and flags (in the kernel), a socket | inspect, probe, configure, open |
| Payload parsers | `protocol/{serial,udp,uvc}_protocol.cpp` | an offset | bytes to an event |
| Frame geometry | `internal/frame_event.cpp` | none | mirroring, undistortion, point cloud from depth and back |
| Format helpers, factory, build | `udp_network_utils.hpp`, `udp_network_format.cpp`, `packet_source_factory.hpp`, CMake | none | - |

**How they interact.** One thread of the caller drives everything. `Camera::Open`
closes the old session, may open UVC sources in other profiles to learn a
calibration, closes each again, and opens the requested source. `Camera::Poll`
calls the source's `Poll` until it yields a measurement, absorbs info updates on
the way, turns each event into the public orientation and completes the frame.
A source reads its device, parses, stamps the event with its normalizer and
returns it. The library starts no thread. Concurrency comes from outside: the
camera and its clock, the video driver that fills buffers, a kernel that cuts
the serial stream at any byte, datagrams that are lost, repeated or overtaken, a
system clock that is set, another process that reconfigures the network.

**What is hard.**

- *Time.* A device sends a 32-bit counter of milliseconds, or the phase within
  a PPS second, or seconds and nanoseconds since an unknown origin, or since the
  epoch. Nothing says which. The code guesses from thresholds, with the host's
  `system_clock` as a second witness.
- *Framing.* The serial parser must find frames between noise and damaged
  headers with an unknown checksum, at every cut of the reads.
- *Pairing.* A `120x90` UVC capture arrives as two payloads, either of which may
  be lost.
- *Sessions.* `Open` has many places to fail after the old session is gone, and
  calibration reaches a frame on four paths, each to be mirrored once.
- *Resources.* Four driver buffers, a receive buffer without a limit, a probe
  with a time budget.
- *Lengths and indices.* A payload declares a length that may differ from what
  was received; the parsers state a layout twice, as a sum of constants and as
  the moves of an offset. Loops mirror the grids in place, and a calibration
  must be mirrored along with them.
- *Shared configuration.* The interface of the UDP link belongs to the host:
  the kernel resets the netmask when the address is set, and other processes
  change either at any time.

**What makes each component correct.**

| Component | Properties |
| --- | --- |
| Camera | `FrameTellsLatest`, `OrientedOnce`, `SequenceCountsMeasurements`, `BootstrapKeepsPromise`, `ClosedIsBlank`, `OneSourceOpen`, refinement of `CameraSession`, `OpenReturns` |
| Serial clock | `StrictlyIncreasing`, `LayersAgree`, and for a device that behaves `ExactTracking`, `OutputNearTrackedTime` |
| UDP clock | `TimestampsIncrease`, `ModeFixed`, `OneClockPerSession`, `EpochPassedOn`, `DriftBounded` |
| Serial source | refinement of `FrameStream`, `PromisedFramesDelivered`, `EveryByteAccounted`, `BufferBounded`, `NoStaleBytes` |
| UVC source | `EmittedTimesIncrease`, `NoPointCloudLost`, `ReadyQueueDrained`, `PairsCaptures` |
| UVC device | `NothingLeaks`, `BuffersConserved`, and with the stream above it, refinement of `UvcSource` |
| UDP set-up | `ProbeWithinTimeout`, `OpenReturns`, `OwnConfigurationComplete`, `CameraOnOwnNetwork`, `LeavesForeignAddressAlone` |
| Payloads and geometry | `ReadsWithinPayload`, `FrameIsReflection`, `DerivedCloudIsReflection` |

The hazards behind these properties are in `PROJECT.json`, each at its line.

## 2. Modules

| Module | What it is |
| --- | --- |
| `HostAnchoring` | host time elapsed, the test for a jump of the device clock, the choice of the next output; shared by both relative normalizers |
| `RelativeMilliseconds` | `RelativeMillisecondNormalizer` as operators on a record |
| `RelativeSeconds` | `RelativeSecondNormalizer` as operators on a record |
| `SerialClock` | `SerialTimestampNormalizer`: state machine over arbitrary samples |
| `SerialClockTracking` | the same composed with a device: roll-overs, late and overdue frames, a lost PPS signal, a reboot |
| `UdpClock` | `UdpPacketSource::NormalizeTimestamp` over arbitrary datagrams and several sessions |
| `UdpClockTracking` | the same composed with a device that behaves, relative mode |
| `Checksums` | `ComputeCrc8`, bit by bit, with the check values of the published catalogues as an assumption that TLC evaluates |
| `FrameFormat` | the frame layout, the checksum test and its lock |
| `FrameStream` | abstract: the frames that a sequence of bytes contains, delivered in order |
| `SerialSource` | port, parser and `Poll` as one state machine; refines `FrameStream` |
| `UvcStream` | the camera's captures and `UvcPacketSource` with its clock, its pending cloud and its ready queue; no transport |
| `UvcSource` | abstract: `UvcStream` over a queue of payloads, in order, each once, some lost |
| `UvcDevice` | `UvcDevice` against a driver that fills buffers |
| `UvcSession` | `UvcStream` over `UvcDevice`; refines `UvcSource` |
| `Ipv4Prefix` | prefix lengths and netmasks over words of four bytes |
| `UdpOpen` | opening a UDP source against a kernel, a link and other processes |
| `PayloadLayout` | the lengths and the fields of all payloads of the three protocols |
| `Undistortion` | calibrations, their mirror image, `UndistortPixelToRay` |
| `FrameData` | the data of one frame: the parsers, the mirror loops, the completion of the missing grid |
| `CameraSession` | abstract: what a caller may rely on over several sessions |
| `Camera` | `Camera::Impl` with the bootstrap; refines `CameraSession` |
| `SerialClockProofs`, `UdpClockProofs` | theorems about each clock and, with the device, about its tracking module |
| `CameraProofs`, `SerialSourceProofs`, `UdpOpenProofs`, `FrameDataProofs` | theorems about the module of that name |
| `UvcSessionProofs` | theorems about `UvcDevice`, about `UvcSession` and about its refinement of `UvcSource` |
| `MillisecondsProofs` | lemmas about `RelativeMilliseconds` that the serial and the UVC clock share |
| `MCCamera`, `MCSerialSource`, `MCUdpClock`, `MCUdpOpen`, `MCUvcSession`, `MCFrameData` | values of constants that a `.cfg` cannot write |

### Correspondence with the code

**Normalizers.** An object of the code is a record whose fields are its members;
a method is an operator that takes the record and returns the new one, one
operator per branch (`FirstSample`, `ForwardStep`, `BackwardStep`, `Restart`,
`SmallStepBack`, `Advance`). The value that the method returns is always the new
`lastOutputUs`. `restartAnchorUs_` is never read and `hasHostObservation_` equals
`initialized_`, so neither is a field. Arithmetic is exact where 64 bits cannot
be exceeded within the life of a device. The 32-bit counter has its width:
`MaxRawMs` is its largest value, and `CounterWrapDeltaMs` is the unsigned
subtraction.

**SerialClock.** `Sample` is one call of `Normalize` (both layers, with the
clamp); `MeaningChanges` is the decision to reset the inner layer. `Reset` is
`Open` or `Close` of the source. `SerialClockTracking` adds the device: it goes
on (`NextFrame`), repeats a frame or lets one be overtaken (`LateFrame`), lets
one be overtaken across a PPS edge (`OverdueFrame`), loses or finds the signal
(`SwitchMode`), or boots (`Reboot`). `leapMs` and `overdueMs` are history: what
the code's guesses have cost so far.

**UdpClock.** `Datagram` is one accepted datagram: the choice of the mode by the
first one, both conversions, the clamp. `checkedUs` and `nowUs` are two readings
of the host clock because the code reads it twice.

**SerialSource.** `Open` is `open`, `tcsetattr` and `tcflush`, each a step; until
the speed is set, the line is heard as noise, and a failure after any step is a
`Close`: the port is closed and the Camera drops the source, its parser with it
(`Camera::Close`). On Windows the calls have other names and the same order. Each pass of
the loop of `TryPop` is a step, named for its branch: `DiscardNoise`,
`SkipToSync`, `RejectLength`, `AwaitRest`, `RejectCrc`, `PopFrame`. `ReadBytes`
hands over any part of what the driver holds up to the read buffer, so every cut
of the stream occurs; `ReadNothing` is a timeout or a failed read. The checksum
is the parameter `Crc`, which the instance takes from `Checksums`.

**UvcStream and UvcSession.** Each payload carries its capture and perhaps a raw
time; which types of payload there are depends on the profile.
`HandleParsedFrame` has the alternatives `PassOn`, `HoldPointCloud`, `Combine`
and `DepthAlone`. In the composition a `Poll` is `Dequeue`, `Copy` and then
`PollHandles` (the buffer is given back, and the payload handled unless it does
not parse) or `PollFails`; the camera sends (`CameraSends`) between any two of
these steps.

**UvcDevice.** `fd` and `buffers` are what the object remembers (`fd_`, the
`start`s of `buffers_`), `opened` and `mapped` what the process really has, and
nothing but a system call of the code changes the latter. `Open` is one step per
call and per turn of a loop: `Configure` (twice), `RequestBuffers`, `MapBuffer`
and `AllMapped`, `QueueBuffer` and `AllQueued`, `StartStream`. `OpenFails` may
come at any of these stages and after any turn, and goes to the first step of
`Close`, as the `Close()` on each early return does. `Close` is `StopStream`,
whose result the code ignores, `UnmapBuffer` for each element of `buffers_` that
is not null, `CloseDescriptor`, `ClearFields`. In `UvcSession` the source counts
as open from `open(2)` to the beginning of a `Close`.

**UdpOpen.** Each system call is a step, `CallFails` may happen at each, and
`Reconfigure` (another process) between any two. Addresses are words of four
bytes. A frame of the link is a record of what the probe asks of it: whether it
is as long as its headers say, its kind, whether it goes to the port, its two
addresses. Setting an address makes the kernel choose the netmask of some class,
which is what the order of the ioctls in the code is about. `SIOCGIFFLAGS` and
`SIOCSIFFLAGS` are two steps, but of the flags only `IFF_UP` is kept.

**FrameData.** A value is the offset that it was read from, so two grids are
equal exactly if they show the same samples in the same places. A grid has rows
and columns; the columns of the histogram are groups of bins that move together.
The parsers check lengths (`Check`), read field by field (`ReadField`) and take
the tail; `Swap` is one turn of a mirror loop. A valid calibration is mirrored
and kept (`Learn`), and `Complete` derives the grid that is missing. The floats
of `Undistortion` are the integers modulo a prime: its formulas hold in any field,
so their algebra is kept and their rounding is not.

**Camera.** `call` is the place of the one thread within `Open` or `Poll`. The
packet sources are abstracted to the events they may yield: per stream,
`SourceEvents` says which fields an event carries. Orientation is a flag that
mirroring flips; a calibration is an identity with an orientation, and
`Usable`, `Unusable` and `Invalid` say whether it passes
`HasCalibrationNumbers` and whether the geometry can use it. `frame` is the
FrameSet of the session's latest `Poll`; `received` and `openedAt` are history.

## 3. Runs

| Run | Configuration | Result |
| --- | --- | --- |
| `camera` | `MCCamera.cfg` | passes, 490 000 states |
| `camera_no_cloud` | `MCCameraNoCloud.cfg` | violation, see section 6 |
| `serial_clock` | `SerialClock.cfg` | passes, 267 000 states |
| `serial_clock_tracking` | `SerialClockTracking.cfg` | passes, 393 000 states |
| `udp_clock` | `MCUdpClock.cfg` | passes, 47 000 states |
| `udp_clock_tracking` | `UdpClockTracking.cfg` | passes, 97 000 states |
| `serial_source` | `MCSerialSource.cfg` | passes, 205 000 states |
| `uvc_session` | `MCUvcSession.cfg` | passes, 330 000 states |
| `uvc_mispairing` | `UvcMispairing.cfg` | violation, see section 6 |
| `udp_open` | `MCUdpOpen.cfg` | passes, 81 000 states |
| `udp_probe_timeout` | `UdpProbeTimeout.cfg` | violation, see section 6 |
| `frame_data` | `FrameData.cfg` | passes, 7 600 states |

### Bounds, and why they are enough

*Clocks.* The constants of the code are scaled and keep their order: a phase
boundary inside a PPS second, a threshold between the two zones, a floor that no
phase reaches, a wrap zone at the end of the counter. The `ASSUME`s name the
inequalities between them that the code's real values satisfy and that the proofs
use. `SampleTimes` of `SerialClock` has a value on each side of every threshold
that the code compares with, so every branch is taken from every other one.
`HostTimes` has a time before and one after, so the host clock goes both ways.
`OutputLimit` ends a run of samples; it leaves room for a dozen or so, and the
normalizer keeps only one predecessor.

*Tracking.* The device of `SerialClockTracking` sends frames at every distance
from 1 ms up to `LongestGapMs`, the longest that the thresholds can bridge, and
reaches its roll-over in either mode within `DeviceTimeLimit` and the switches
between modes. `LeapLimitMs` has room for two frames that are late across a PPS
edge, or for a reboot. In `UdpClockTracking` the gaps and delays are chosen so
that the remainders of the division differ, fall on both sides of a second, and
add up.

*Serial stream.* Bytes are below 8, a frame has at most 8 bytes and a read at
most 5, so frames are cut at every place and a read may hold the end of one and
the start of the next. The noise before the speed is set is a sync byte alone or
a whole header, which would swallow the first frame. A transmission is any
three pieces out of intact frames (one with the sync bytes inside its payload,
one of an unknown type), intact frames whose checksum fits both profiles, frames
of the other profile, a damaged frame, a torn frame, a header with a bad length
and a lone sync byte. Two profiles are enough, because the code asks only whether
an earlier one fits. The device's profile is the second, and any piece may come
first, so the session settles the device's profile, or the other one because of
an intact frame that fits both, of a frame of that profile, or of neither for a
while. In this small protocol as in the real one, bytes within a rejected frame
may pass for a frame by chance; the pieces are such that none do.

*UVC.* Three profiles: two payloads per capture with a time, one that may have a time,
one without.
The first raw time is just before a PPS roll-over or just before the wrap of the
scaled counter, so both happen within a session. Three captures over two buffers
let the driver be empty, full, or ahead by a capture, and reach every order of
the two payloads' losses around a waiting cloud. `VIDIOC_REQBUFS` grants one
buffer or both, so `Open` fails with none, some and all of them mapped.
`uvc_mispairing` runs on the
abstract source, with one capture more.

*UDP set-up.* Bytes have two bits, so an address has eight. The camera and its
target agree in three bytes, in two, in one, in none, or in all, and either may
be zero; around each pair the link carries frames of all kinds, torn and whole,
to the port and not. The probe's budget of five ticks is not a multiple of the
two ticks of a poll, as `min(remaining, 250)` allows for.

*Frame data.* Grids of three rows and five columns: one column stays in its
place. The lengths of each layout are those around what it asks for and around
its tail, received and declared. The calibrations include one without a focal
length, one without distortion, one with all coefficients, and some that have no
ray for some pixel; 101 is the number of the field, far above the width. Two
payloads in a row may be of different layouts, so a calibration of one is used
for the depth of the next.

*Camera.* One request per stream, with and without bootstrap; bootstraps with
one and with two candidates; three events in all, which is the least number that
brings a calibration, hides it with a worse one, and then delivers a frame (or
does so across a failed attempt, or a second session). An attempt has two ticks
of time.

### Deadlock

All runs are checked for deadlock except the two tracking runs
(`CHECK_DEADLOCK FALSE`), whose device comes to the end of what it may send.

### Fairness

- `Camera!FairSpec`: the thread in `Open` goes on (`OpenStep`), and the steady
  clock advances (`Tick`). Every poll of a UVC source returns after at most its
  own timeout. Nothing is assumed about the device: it may send nothing, or
  fail, for ever. `Poll` gets no fairness, because its loop may go on as long as
  the device sends info updates; that is a hazard and not a property.
- `SerialSource!FairSpec`: the caller keeps polling, a `Poll` goes on to its end
  (weak fairness), and bytes that have been sent arrive in the end although
  single reads time out (strong fairness of `ReadBytes`). Without the last one
  a link may stay silent for ever and nothing can be delivered.
- `UdpOpen!FairSpec`: the thread in `Open` goes on; `poll` always returns.
  The link may carry foreign frames without end.

## 4. What the checks show

- **Camera.** Whatever the device sends, in whatever stream and at whatever step
  `Open` fails, a frame shows the newest valid calibration and the newest value of
  each info field, all in one orientation and numbered without gaps. Nothing of
  a session survives it. The Camera implements `CameraSession`: a calibration
  once known is only ever replaced by a valid one, and frames count from 1.
- **Serial clock.** Timestamps strictly increase for any raw times and host
  times. With a device, no roll-over of either kind loses or adds a millisecond,
  and no step of the host clock reaches the time line. The heuristics have a
  price that the run states exactly: a frame that is late across a PPS edge
  makes the time line leap by one second, and a reboot from the upper half of
  the counter by what was left of it. Nothing else leaps, and the frame after a
  leap is again measured from the right predecessor.
- **UDP clock.** Timestamps strictly increase and the mode holds for the session.
  An epoch clock is passed on as it is, and a datagram that does not advance it
  gets a microsecond more than the one before. So one datagram far ahead holds
  all later ones there, which the code allows. A relative one drifts by less than
  a microsecond per datagram.
- **Serial source.** The delivered frames are a function of the byte stream, not
  of how the reads cut it, and of the bytes since `Open` only: nothing that the
  port heard at another speed reaches the parser. Every sent frame that fits
  the session's checksum profile arrives and no other frame does; every byte is
  counted once, and the buffer stays below one frame plus one read. In `auto` the
  session's profile is the first that fits the first frame that fits any
  (`frame_parser.cpp:180-185`), and not necessarily the device's: an intact first
  frame that also fits a profile that is tried earlier locks that one, and then
  the device's intact frames are rejected for the rest of the session, but for
  those that fit both. The run contains these sessions, and
  `PromisedFramesDelivered` promises no more in them. One byte of checksum cannot
  tell a receiver which profile was meant, and no doc says that `auto` finds the
  right one.
- **UVC.** The driver, its buffers and `ReadFrame` implement the abstract
  source: payloads in order, each at most once, none overwritten before its
  copy. Wherever `Open` fails, and whether or not `VIDIOC_STREAMOFF` works, the
  loop of `Close` unmaps all that the process has mapped and the descriptor is
  closed, although `Close` sees only the object's fields, which a failed `Open`
  has half filled. Buffers leave circulation only when `VIDIOC_QBUF` fails,
  which the code allows: after as many failures as buffers the stream is silent.
  Above it, times increase in the order of delivery although a cloud is stamped
  before it is delivered; a cloud without a depth grid is delivered late and not
  lost; pairs are right as long as nothing is lost.
- **UDP set-up.** The probe never exceeds its budget and always ends. The
  interface is changed only by consent and never over an address found at the
  inspection, and a configuration that ends is complete. An address that another
  process sets after the inspection is overwritten: the code does not look
  again. The camera is then in the host's network exactly if it shares the first
  byte with its target: the inference goes no further.
- **Frame data.** No parser reads behind what was received or declared. In a
  FrameSet an index means the same sample in every grid, each grid is the mirror
  image of the sensor's, and a cloud that is derived after mirroring is the
  mirror image of the cloud before it. The grids of one FrameSet
  come from one payload here; pairing is `UvcStream`'s.

## 5. Proofs

Each theorem holds for every value of the constants that satisfies the `ASSUME`s
of its module and of the modules that it extends. Bounds of the models
(`OutputLimit`, `SurplusLimit`, `EventLimit`, `CaptureLimit`) are constants like
any other, so the theorems hold for behaviours of every length; the sets of raw
times, host times, requests and calibrations are arbitrary.

| Module | Theorem | Statement |
| --- | --- | --- |
| `SerialClockProofs` | `TypeCorrect` | `Spec => []TypeOK` |
| | `LayersAlwaysAgree` | `Spec => []LayersAgree` |
| | `OutputsIncrease` | `Spec => StrictlyIncreasing` |
| | `TimeLineFollowsDevice` | `TrackingSpec => []ExactTracking` |
| | `OutputStaysNearDevice` | `TrackingSpec => []OutputNearTrackedTime` |
| `UdpClockProofs` | `TypeCorrect` | `Spec => []TypeOK` |
| | `OutputsIncrease` | `Spec => TimestampsIncrease` |
| | `ModeIsFixed` | `Spec => ModeFixed` |
| | `ClocksApart` | `Spec => []OneClockPerSession` |
| | `EpochIsPassedOn` | `Spec => []EpochPassedOn` |
| | `DriftIsBounded` | `TrackingSpec => []DriftBounded` |
| `CameraProofs` | `CameraImplementsSession` | `Spec => ImplementsSession` |
| | `PromiseKept` | `Spec => []BootstrapKeepsPromise` |
| | `FramesArePublic` | `Spec => []OrientedOnce` |
| | `ClosedStaysBlank` | `Spec => []ClosedIsBlank` |
| | `SourcesTakeTurns` | `Spec => []OneSourceOpen` |
| | `FramesTellLatest` | `Spec => []FrameTellsLatest` |
| | `SequenceCounts` | `Spec => []SequenceCountsMeasurements` |
| | `CameraTyped` | `Spec => []TypeOK` |
| `SerialSourceProofs` | `SourceDeliversTheStream` | `Spec => DeliversTheStream` |
| | `BytesAccounted` | `Spec => []EveryByteAccounted` |
| | `BufferStaysBounded` | `Spec => []BufferBounded` |
| | `NoStaleBytesEver` | `Spec => []NoStaleBytes` |
| | `SerialSourceTyped` | `Spec => []TypeOK` |
| `UvcSessionProofs` | `SourceIsImplemented` | `Spec => ImplementsSource` |
| | `TimesIncrease` | `Spec => []EmittedTimesIncrease` |
| | `PointCloudsReachTheCaller` | `Spec => []NoPointCloudLost` |
| | `CapturesArePaired` | `Spec => []PairsCaptures` |
| | `ReadyQueueIsDrained` | `Spec => []ReadyQueueDrained` |
| | `DeviceLeaksNothing`, `SessionLeaksNothing` | `[]NothingLeaks` under `DeviceSpec` and under `Spec` |
| | `DeviceConservesBuffers`, `SessionConservesBuffers` | `[]BuffersConserved` under both |
| `UdpOpenProofs` | `ProbeKeepsItsBudget` | `Spec => []ProbeWithinTimeout` |
| | `ConfigurationIsComplete` | `Spec => []OwnConfigurationComplete` |
| | `CameraIsOnOwnNetwork` | `Spec => []CameraOnOwnNetwork` |
| | `ForeignAddressIsLeftAlone` | `Spec => LeavesForeignAddressAlone` |
| `FrameDataProofs` | `ParsersStayInside` | `Spec => []ReadsWithinPayload` |
| | `FramesAreReflections` | `Spec => []FrameIsReflection` |
| | `DerivedCloudsAreReflections` | `Spec => []DerivedCloudIsReflection` |

**Serial clock.** `StrictlyIncreasing` is not inductive. It compares two outputs
of the outer layer, whose clamp works only when there is an output to compare
with: its test is `lastOutputUs_ != 0`, not `initialized_`. So the proof needs
that an initialized clock has a positive output. That comes from the inner layer,
which is `Settled` once it has seen a sample: its output is positive and has
reached the anchor plus the logical milliseconds. Host times must be positive
for this, as an anchor of 0 means "none" to the code. And it must survive the
steps in which the outer layer resets the inner one. `IInv` is `TypeOK`,
`LayersAgree` and "an initialized clock is `Settled`". Lemmas describe what each
branch of `Normalize` returns, `NormalizeResult` joins them along the branches
of the code (that each delta is a natural number follows from the branch's
condition), and the step lemmas use nothing but `NormalizeResult`.

*With the device.* `ExactTracking` equates the time line with the device's clock
plus the prices, so each step needs to know how far the normalizer's predecessor
is from the newest frame. `TrackInv` adds that it is the newest frame itself, or
one that is overdue across a PPS edge (`OverdueIsAcrossEdge`: only then is
`overdueMs` not 0, and the raw time is then less than it), and that before the first
frame nothing has been touched. Each move of the device is then one branch of
`Normalize`: a forward step, a repeated or a late frame, a roll-over of either
kind, a change of the meaning. Two inequalities keep a neighbouring branch from
being taken: what is left of the second above the upper boundary reaches no
further than the lower zone, and a frame that is late by that much still lies above
the threshold of a roll-over (`PpsWrapThresholdMs < 2 * PpsUpperMs - PpsPeriodMs`,
500 < 800 in the code).

**UDP clock.** The argument has the same shape. The division of nanoseconds by
1000 may be negative, so `DeltaUs` is only an integer, and the branch for
`deltaUs < 0` is what makes it natural where it is added. `IInv` adds to the
checked properties that a session without a trusted clock has no epoch time to
compare with; without it the datagram that settles the mode could be behind one
of an earlier session.

*With the device.* Every datagram rounds a difference of nanoseconds, so
`DriftBounded` grows by at most a microsecond each, provided that what is
rounded is a difference of two device times. `UdpTrackInv` says which: the
predecessor's seconds and nanoseconds are those of an accepted datagram, which
is behind the newest one by at most a second, the longest delay (`NearNewest`).
Then neither the test for a jump nor the one for a wrap takes a datagram of a
device that behaves for anything else; for the first, a second must not pass for
a jump (`UsPerSec <= LargeRelativeJumpUs`, both of the code's constants).

**Camera.** The promise of a calibration is made in `Open` and kept in `Poll`, so
`IInv` carries what it rests on through every step in between: `Control` (which
sources are open where in a call, and that no frame is shown while `Open` runs)
and `Caches` (both caches hold a valid calibration in public orientation or none;
an `Open` that needs a bootstrap and has reached its last step holds one; a
session that promises one holds one). `DeliverableAreEvents` shows that
every event of every stream is in sensor orientation, `CalibrationAfterResult`
that merging a mirrored event keeps `Known`, and from those each step keeps
`IInv` and maps to a step of `CameraSession` or to none (`StepRefines`).

*The newest.* `FrameTellsLatest` and `SequenceCountsMeasurements` speak of the
whole list of received events. `HistoryInv` relates every cache to that list,
where it is: the one of the call while `Open` runs, the one of the session
afterwards (`Remembers`), with the newest valid calibration and the newest value
of every field stated by quantifiers over positions, so that an event at the end
changes them in a way that is easily stated. `Counts` does the same for
the measurements since `openedAt`, and says of the caller's frame that it is the
session's present. The absorption of an info update inside `Poll` keeps both.

**Serial source.** `EveryByteAccounted` is an equation between lengths; each
pass of `TryPop` moves bytes from one side to the other, and with `TypeOK`, which
knows when the buffer is long enough for what is taken, it is inductive.
`BufferBounded` carries its own strengthening: the port is read only when `TryPop`
has come to its end, and then less than a frame is left (`TryPopKeepsBound`),
because a header cannot ask for more than `MaxLength`. That no stale
byte is parsed rests on `NothingBeforeOpen`: until the port is open, nothing has
arrived and no `Poll` runs.

*The refinement.* `FrameStream` decodes the whole sequence of bytes at once with
a recursive function `Decoding`; the parser sees a prefix of it, and a part of
that is gone from its buffer. `StreamInv` relates them: the buffer stands in what
arrived, from `Position` on (`StandsIn`), and however the stream goes on,
decoding it gives what was delivered, followed by what the decoder finds from
`Position` with the present lock (`Kept`). The quantifier over continuations is
what makes it inductive: an arrival only restricts it. A parser that
discards bytes must show that no frame can begin there however the stream goes
on, by the sync bytes, the length or the checksum; it awaits the rest when that is
not yet known. `FramesBehind` and `DecodesFrom` describe the decoder by the first
position that holds a frame. That the recursive function exists and yields
sequences of frames is an induction over positions from the end of the stream,
carried out with a least counterexample.

**UVC.** `DeviceInv` contains what `BuffersConserved` says of a stream that runs
(`Apart`: no buffer in two places; `NoneMissing`: the places add up) and what
`Open` has done before (`OpenInOrder`: for each step, what is queued).
`NothingLeaks` is not inductive. It speaks of the end of a `Close` and rests on
what every step before it has kept: `Remembered` says that the object's fields
cover what the process has open and mapped, at every step of an `Open`, of a
stream and of a `Close`, a mapping in the element of its own number. `GivenBack`
follows the loop of `munmap`: what is still mapped is not yet passed by
(`UnmapBufferKeepsInv`), so nothing is mapped at its end, and only then are the
fields cleared. `HoldsFrames` says that what lies in a filled buffer is a frame:
the driver does not write to a buffer that waits to be copied. `SessionInv` adds
that nothing has happened above a stream that does not run, that the ready queue
is empty between calls and that a cloud waits only in the one profile that holds
clouds back.

*The refinement.* The queue of `UvcSource` is what is on the way: the payload in
`ReadFrame`'s hands and the contents of the filled buffers in the driver's order.
Every step of a session is one of five of that queue (`LinkStep`: nothing,
begins, ends, a payload is sent, the first is taken), and each of them with what
`Poll` does is a step of `UvcSource`. The three properties of the stream use the
same split, without the device. `TimesInv`: a cloud that waits has been stamped
after all that was delivered and before all that will be. `CloudsInv`: the
clouds that were parsed are those told, and then the one that waits. `PairsInv`:
as long as nothing is lost, what is on the way and unsent is a chain of complete
captures, and a waiting cloud waits for the head of it.

**Frame data.** *Lengths.* `ParseInv` gives the offset as a function of the layout
and the index of the next field (`Starts`), and `LayoutsAreConsistent` compares
that table, for each of the nine layouts, with the sum of constants that was
checked: the code has the two apart, and the proof is for all sizes of
the grids.

*Mirrors.* `TurnInv` says of each grid what the loops have made of it
(`Progress`): turned, not yet, or turned up to a row, of which the first and the
last `x` columns are exchanged. The swap in the middle of an odd row is the case
that needs `DepthWidth \div 2`.

*Derived clouds.* `CloudInv` says that the Camera's calibration is the mirror image
of the one the device sent. What remains is algebra modulo `Prime`, in terms of
being the same and being opposite: an iteration of the undistortion with the
mirrored calibration from the mirrored guess gives the mirror image
(`MirroredCorrection`), where the sign of `p2` is needed; so does the first guess,
where the shift of `cx` is (`MirroredPixel`); the guesses follow by a least
counterexample. A pixel is without a ray exactly if its image is. The assumption
on `Prime` is that it is one, stated as the existence of reciprocals.

**UDP set-up.** That a finished configuration is complete depends on every step
before it, and on what earlier calls of `Open` have left. `IInv` says how far
the configuration is at each ioctl unless somebody interferes (`HalfConfigured`),
that an interface of the library's own has an address, so that no later `Open`
comes to probe over it (`OwnHasAddress`), and that whoever gets as far as the
ioctls has the caller's consent and has found no address, or has seen it taken
away (`Consent`). `Budget` is the sum of what was spent and what is left.

*The network.* `CameraOnOwnNetwork` joins `HalfConfigured`, by which the interface
has the target's address and the inferred netmask, with the arithmetic of
prefixes: a mask built from a length shows that length again, two words agree
under it exactly if they agree in that many leading bits, and the inferred length
is the number of common bits, or the width of a byte if that is more. Both need
that quotients by powers of two nest. The powers are a recursive function
(`PowerOfTwo`), about which everything is proved by a least counterexample.

**Inductions.** The provers here cannot instantiate the library's induction
theorems, which take an operator. Induction is still possible for a given
statement: the set of numbers for which it fails, if it is not empty, has a least
member (`LeastMember`, from well-foundedness), which is refuted. All inductions
over recursive functions above are of this form.

**Only model-checked.** Liveness (`Camera!OpenReturns`, `UdpOpen!OpenReturns`,
`PromisedFramesDelivered`) is out of the prover's reach and stays with TLC. So do
the three runs that show a violation, and the check values of `Checksums`. Every
other property of every passing run is a theorem above.

## 6. Findings

1. `uvc_mispairing`. `packet_source_uvc.cpp:118` joins a depth grid to whatever
   point cloud waits. After a loss of one depth grid and of the next cloud, the
   FrameSet holds the cloud of one capture and the depth of a later one.
   README.md:236 says that equal indices refer to the same sample.
2. `camera_no_cloud`. `pointCloudAlwaysAvailable` (`hm_ld1_sdk.hpp:198`) is true
   for a depth-only stream opened without bootstrap, whose frames have no point
   cloud until a calibration arrives, which may be never.
3. `udp_probe_timeout`. `udp_network_probe.cpp:77-82` pays for a whole wait also
   when a frame cut it short, so a few frames of no interest end the probe with
   "Timed out" long before `autoConfigTimeoutMs`.

Related, without a run of its own: README.md:230 promises a derived point cloud
for depth with a "valid calibration". A calibration with finite numbers whose
distortion has no finite ray for some pixel (`Unusable` in `Camera`) passes the
validity test and yields no cloud; `Poll` ignores the result of the derivation.

## 7. Not modelled

- Rounding, the clamp of a depth to 16 bits, infinities and NaN: the numbers of
  `Undistortion` are those of a finite field.
- Strings and small header fields of a payload: one read without contents. So is
  the difference between the bins of a histogram group.
- What termios is set to, names of ports and speeds, addresses as text, texts of
  errors and summaries, getters, the factory, build files.
- Flags of the interface other than `IFF_UP`. They are read and written back in
  two steps, so a change of another process in between is undone; the kernel
  decides which of them matter. It also decides whether a broadcast or multicast
  address, which the probe would accept as a target, can be set.
- `EINTR`: the UVC device retries, which is invisible here; in the serial and
  UDP sources it is one more failed read.
- A driver that returns a buffer index it never granted (`uvc_device.cpp:231`).
- An end of `Poll` in the Camera, and the notice of an unplugged serial device:
  the code promises neither, so there is no property to check.
- Two threads in one Camera: the class has no lock and no promise of thread safety.

## 8. Plan

Done: the modules of section 2, and a theorem for every safety property, action
property and refinement that a passing run checks.

Next:

1. `UvcStream`: which losses make a wrong pair possible. `PairsCaptures` excludes
   all of them and `uvc_mispairing` shows one sequence that does; what lies in
   between is not stated.
2. `FrameData` over `UvcStream`: the grids of a combined frame come from two
   payloads; both halves are proved, their composition is not stated.

Open in the models: the Camera over the state machines of the sources instead of
the events that they may yield. The interfaces agree (an event with its fields),
but the product has no question that `Camera` leaves open: it accepts every order of
events.
