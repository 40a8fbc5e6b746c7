------------------------------- MODULE Camera -------------------------------
(***************************************************************************)
(* The public object: Camera::Open with the bootstrap of the calibration,  *)
(* Camera::Poll with its loop over source events, and Camera::Close        *)
(* (camera.cpp).  The packet sources appear as the events that a session   *)
(* of each transport can deliver (serial_protocol.cpp, udp_protocol.cpp,   *)
(* uvc_protocol.cpp, packet_source_uvc.cpp); how they come about is the    *)
(* business of SerialSource, UdpClock and UvcSource.                       *)
(*                                                                         *)
(* A Camera is used by one thread, so a call runs to its end before the    *)
(* next; the steps of a call interleave with the device and the clock.     *)
(***************************************************************************)
EXTENDS Naturals, Sequences, FiniteSets

CONSTANTS Requests,          \* the configurations that Open may be called with
          Usable, Unusable, Invalid, \* calibrations a device may send
          InfoValues,        \* values of a field of DeviceInfo
          BootstrapTicks,    \* bootstrapTimeoutMs, in ticks of the steady clock
          EventLimit         \* bound of the model: events between Open and Close

Transports == {"Serial", "Udp", "Uvc"}
Profiles == {"Depth40x30", "Mixed120x90", "PointCloud160x120", "Raw480x360"}

\* A CameraConfig; profiles are resolved (Auto is Mixed120x90).
Configs == [transport : Transports, profile : Profiles,
            bootstrap : BOOLEAN, preferred : Profiles]

ASSUME CameraAssumption ==
    /\ Requests \subseteq Configs
    /\ Usable \cap Unusable = {} /\ (Usable \cup Unusable) \cap Invalid = {}
    /\ 0 \notin Usable \cup Unusable \cup Invalid
    /\ InfoValues \subseteq Nat \ {0}
    /\ BootstrapTicks \in Nat \ {0}
    /\ EventLimit \in Nat

(***************************************************************************)
(* Data: what a frame carries, and in which orientation                    *)
(***************************************************************************)

\* The sensor sees the scene mirrored; FrameSet has the public orientation.
\* "skewed" is a cloud derived from a grid and a calibration that disagree.
Orientations == {"sensor", "public"}
Grids == Orientations \cup {"none", "skewed"}

Mirrored(grid) == CASE grid = "sensor" -> "public"
                    [] grid = "public" -> "sensor"
                    [] OTHER -> grid

\* HasCalibrationNumbers looks at fx and fy only: an unusable calibration is
\* valid, and yet the ray of some pixel is not finite.
Calibrations == [id : Usable \cup Unusable \cup Invalid, orientation : Orientations]
NoCalibration == [id |-> 0, orientation |-> "sensor"]
OptionalCalibrations == Calibrations \cup {NoCalibration}

IsValid(c) == c.id \in Usable \cup Unusable

\* DeviceInfo: of its fields, one that every info packet carries and one that
\* changes with time; 0 is an absent value.
Fields == {"version", "temperature"}
Infos == [Fields -> InfoValues \cup {0}]
NoInfo == [f \in Fields |-> 0]

\* The infos that carry exactly the fields F.
InfosWith(F) == {i \in Infos : \A f \in Fields : i[f] # 0 <=> f \in F}

Events == [type : {"None", "InfoUpdate", "Measurement"}, info : Infos,
           calibrationUpdate : OptionalCalibrations, calibration : OptionalCalibrations,
           depth : Grids, cloud : Grids]

NoEvent == [type |-> "None", info |-> NoInfo, calibrationUpdate |-> NoCalibration,
            calibration |-> NoCalibration, depth |-> "none", cloud |-> "none"]

Sent == {c \in Calibrations : c.orientation = "sensor"}

InfoUpdates(infos, calibrations) ==
    [type : {"InfoUpdate"}, info : infos, calibrationUpdate : calibrations,
     calibration : {NoCalibration}, depth : {"none"}, cloud : {"none"}]

MeasurementsOf(depth, cloud, infos, calibrations) ==
    [type : {"Measurement"}, info : infos, calibrationUpdate : {NoCalibration},
     calibration : calibrations, depth : {depth}, cloud : {cloud}]

\* What the device sends in a stream of profile p.
UvcEvents(p) ==
    CASE p = "Depth40x30" ->
            MeasurementsOf("sensor", "none", {NoInfo}, {NoCalibration})
      [] p = "PointCloud160x120" ->
            MeasurementsOf("none", "sensor", {NoInfo} \cup InfosWith(Fields), {NoCalibration})
      [] p = "Raw480x360" ->
            MeasurementsOf("sensor", "none", InfosWith(Fields), Sent)
      [] p = "Mixed120x90" ->
            InfoUpdates(InfosWith({"version"}), Sent)
            \cup MeasurementsOf("none", "sensor", InfosWith({"temperature"}), {NoCalibration})
            \cup MeasurementsOf("sensor", "none", InfosWith({"temperature"}), Sent)
            \cup MeasurementsOf("sensor", "sensor", InfosWith({"temperature"}), Sent)

SourceEvents(config) ==
    CASE config.transport = "Serial" ->
            InfoUpdates(InfosWith(Fields), {NoCalibration})
            \cup MeasurementsOf("sensor", "none", InfosWith({"version"}), Sent)
      [] config.transport = "Udp" ->
            MeasurementsOf("sensor", "none", InfosWith({"version"}), Sent)
      [] config.transport = "Uvc" -> UvcEvents(config.profile)

(***************************************************************************)
(* State                                                                   *)
(***************************************************************************)

VARIABLES
    call,              \* where the call in progress is, "idle" between calls
    request,           \* the argument of the latest Open
    candidates,        \* BootstrapUvcCalibration: profiles still to be tried
    attemptOpen,       \* the bootstrap source is open
    ticksLeft,         \* time left to the deadline of the bootstrap attempt
    cachedInfo, cachedCalibration, \* locals of Open
    lastError,         \* BootstrapUvcCalibration's lastError, "" when empty
    packetSource,      \* impl_->packetSource is set
    latestDeviceInfo, latestCalibration, capabilities, nextSequence, \* of impl_
    frame,             \* history: the FrameSet of the session's latest Poll, see NoFrame
    result,            \* what the latest call returned, and its error text
    received,          \* history: the device's events since the latest Open
    openedAt           \* history: how many of them came before the source opened

openVars    == <<request, candidates, attemptOpen, ticksLeft, cachedInfo, cachedCalibration,
                 lastError>>
implVars    == <<packetSource, latestDeviceInfo, latestCalibration, capabilities, nextSequence>>
historyVars == <<received, openedAt>>
cameraVars  == <<call, openVars, implVars, frame, result, historyVars>>

CallStates == {"idle", "choosing", "bootstrapping", "opening", "polling"}

\* The default StreamCapabilities, and the two that depend on a session.
NoCapabilities == [calibrationAlwaysAvailableAfterOpen |-> FALSE,
                   canBootstrapCalibration |-> FALSE,
                   pointCloudAlwaysAvailable |-> TRUE]

\* A FrameSet; sequence is 0 exactly in an empty one.
Frames == [sequence : 0 .. EventLimit, calibration : OptionalCalibrations, info : Infos,
           depth : Grids, cloud : Grids]
NoFrame == [sequence |-> 0, calibration |-> NoCalibration, info |-> NoInfo,
            depth |-> "none", cloud |-> "none"]

Errors == {"", "open failed", "poll failed", "timed out", "not open"}

TypeOK ==
    /\ call \in CallStates
    /\ request \in Configs
    /\ candidates \in Seq(Profiles)
    /\ attemptOpen \in BOOLEAN
    /\ ticksLeft \in 0 .. BootstrapTicks
    /\ cachedInfo \in Infos /\ latestDeviceInfo \in Infos
    /\ cachedCalibration \in OptionalCalibrations /\ latestCalibration \in OptionalCalibrations
    /\ lastError \in Errors
    /\ packetSource \in BOOLEAN
    /\ DOMAIN capabilities = DOMAIN NoCapabilities
    /\ nextSequence \in 0 .. EventLimit
    /\ frame \in Frames
    /\ result \in [ok : BOOLEAN, error : Errors]
    /\ received \in Seq(Events)
    /\ openedAt \in 0 .. EventLimit

Init ==
    /\ call = "idle"
    /\ request \in Requests
    /\ candidates = <<>>
    /\ attemptOpen = FALSE
    /\ ticksLeft = 0
    /\ cachedInfo = NoInfo /\ cachedCalibration = NoCalibration
    /\ lastError = ""
    /\ packetSource = FALSE
    /\ latestDeviceInfo = NoInfo /\ latestCalibration = NoCalibration
    /\ capabilities = NoCapabilities
    /\ nextSequence = 0
    /\ frame = NoFrame
    /\ result = [ok |-> TRUE, error |-> ""]
    /\ received = <<>>
    /\ openedAt = 0

Return(ok, error) == call' = "idle" /\ result' = [ok |-> ok, error |-> error]

(***************************************************************************)
(* The helpers of camera.cpp                                               *)
(***************************************************************************)

MergeInfoIfPresent(update, cached) ==
    [f \in Fields |-> IF update[f] # 0 THEN update[f] ELSE cached[f]]

\* A mutant: whatever the device sends replaces what is cached.
MergeAnyCalibration(update, cached) ==
    IF update = NoCalibration THEN cached ELSE update

MergeCalibrationIfPresent(update, cached) ==
    IF IsValid(update) THEN update ELSE cached

MirroredCalibration(c) ==
    IF c = NoCalibration THEN c ELSE [c EXCEPT !.orientation = Mirrored(@)]

NormalizeEventOrientation(event) ==
    [event EXCEPT !.calibrationUpdate = MirroredCalibration(@),
                  !.calibration = MirroredCalibration(@),
                  !.depth = Mirrored(@), !.cloud = Mirrored(@)]

\* The calibration that is cached after an event in public orientation.
CalibrationAfter(event, cached) ==
    LET updated == MergeCalibrationIfPresent(event.calibrationUpdate, cached)
    IN IF event.type = "Measurement"
       THEN MergeCalibrationIfPresent(event.calibration, updated) ELSE updated

NeedsBootstrap(config) ==
    /\ config.transport = "Uvc"
    /\ config.bootstrap
    /\ config.profile \in {"Depth40x30", "PointCloud160x120"}

BootstrapCandidates(preferred) ==
    (IF preferred \in {"Depth40x30", "PointCloud160x120"} THEN <<>> ELSE <<preferred>>)
    \o (IF preferred = "Mixed120x90" THEN <<>> ELSE <<"Mixed120x90">>)
    \o (IF preferred = "Raw480x360" THEN <<>> ELSE <<"Raw480x360">>)

\* A mutant: the promise is made by the configuration.
PromiseByProfile(config, hasBootstrappedCalibration) ==
    [NoCapabilities EXCEPT
        !.calibrationAlwaysAvailableAfterOpen = config.profile = "Depth40x30",
        !.canBootstrapCalibration =
            config.transport = "Uvc" /\ config.profile \in {"Depth40x30", "PointCloud160x120"}]

BuildCapabilities(config, hasBootstrappedCalibration) ==
    [NoCapabilities EXCEPT
        !.calibrationAlwaysAvailableAfterOpen = hasBootstrappedCalibration,
        !.canBootstrapCalibration =
            config.transport = "Uvc" /\ config.profile \in {"Depth40x30", "PointCloud160x120"}]

\* The grid has at least one measured sample: a grid of marker values alone
\* needs no rays, and gives a cloud for every valid calibration.
BuildPointCloudFromDepth(depth, c) ==
    IF c.id \notin Usable THEN "none"
    ELSE IF depth = c.orientation THEN depth ELSE "skewed"

(***************************************************************************)
(* Open and Close                                                          *)
(***************************************************************************)

\* A mutant: the calibration outlives its session.
CloseKeepingCalibration ==
    /\ packetSource' = FALSE
    /\ latestDeviceInfo' = NoInfo
    /\ capabilities' = NoCapabilities
    /\ nextSequence' = 0
    /\ UNCHANGED latestCalibration

CloseSession ==
    /\ packetSource' = FALSE
    /\ latestDeviceInfo' = NoInfo
    /\ latestCalibration' = NoCalibration
    /\ capabilities' = NoCapabilities
    /\ nextSequence' = 0

\* A mutant: Open on an open Camera leaves the session alone for now.
OpenWithoutClose ==
    /\ call = "idle"
    /\ request' \in Requests
    /\ call' = IF NeedsBootstrap(request') THEN "choosing" ELSE "opening"
    /\ candidates' = BootstrapCandidates(request'.preferred)
    /\ cachedInfo' = NoInfo /\ cachedCalibration' = NoCalibration
    /\ lastError' = ""
    /\ frame' = NoFrame
    /\ received' = <<>> /\ openedAt' = 0
    /\ UNCHANGED <<attemptOpen, ticksLeft, result, implVars>>

OpenCalled ==
    /\ call = "idle"
    /\ CloseSession
    /\ request' \in Requests
    /\ call' = IF NeedsBootstrap(request') THEN "choosing" ELSE "opening"
    /\ candidates' = BootstrapCandidates(request'.preferred)
    /\ cachedInfo' = NoInfo /\ cachedCalibration' = NoCalibration
    /\ lastError' = ""
    /\ frame' = NoFrame
    /\ received' = <<>> /\ openedAt' = 0
    /\ UNCHANGED <<attemptOpen, ticksLeft, result>>

\* The next candidate's source opens, or the attempt is over (95-97).
StartAttempt ==
    /\ call = "choosing"
    /\ candidates # <<>>
    /\ \/ /\ call' = "bootstrapping"
          /\ attemptOpen' = TRUE
          /\ ticksLeft' = BootstrapTicks
          /\ UNCHANGED <<candidates, lastError>>
       \/ /\ lastError' = "open failed"
          /\ candidates' = Tail(candidates)
          /\ UNCHANGED <<call, attemptOpen, ticksLeft>>
    /\ UNCHANGED <<request, cachedInfo, cachedCalibration, implVars, frame, result, historyVars>>

\* The attempt ends: its source is closed, and the next candidate is due.
EndAttempt(error) ==
    /\ attemptOpen' = FALSE
    /\ ticksLeft' = 0
    /\ lastError' = error
    /\ candidates' = Tail(candidates)
    /\ call' = "choosing"

AttemptPollFails ==
    /\ call = "bootstrapping" /\ ticksLeft > 0
    /\ EndAttempt("poll failed")
    /\ UNCHANGED <<request, cachedInfo, cachedCalibration, implVars, frame, result, historyVars>>

\* A poll clears the error text, so a deadline leaves none (119-120).
AttemptTimesOut ==
    /\ call = "bootstrapping" /\ ticksLeft = 0
    /\ EndAttempt("")
    /\ UNCHANGED <<request, cachedInfo, cachedCalibration, implVars, frame, result, historyVars>>

Record(event) ==
    received' = IF event = NoEvent THEN received ELSE Append(received, event)

\* What the stream in progress may deliver now; the bound of the model.
Deliverable(config) ==
    {NoEvent} \cup (IF Len(received) < EventLimit THEN SourceEvents(config) ELSE {})

\* A mutant: events seen during the bootstrap keep the sensor's orientation.
AttemptPollsUnturned ==
    /\ call = "bootstrapping" /\ ticksLeft > 0
    /\ \E event \in Deliverable([request EXCEPT !.profile = Head(candidates)]) :
        LET calibration == CalibrationAfter(event, cachedCalibration)
        IN /\ Record(event)
           /\ cachedInfo' = MergeInfoIfPresent(event.info, cachedInfo)
           /\ cachedCalibration' = calibration
           /\ IF IsValid(calibration)
              THEN attemptOpen' = FALSE /\ ticksLeft' = 0 /\ call' = "opening"
              ELSE UNCHANGED <<attemptOpen, ticksLeft, call>>
    /\ UNCHANGED <<request, candidates, lastError, implVars, frame, result, openedAt>>

\* A mutant: each poll of the bootstrap is granted the whole timeout.
AttemptPollsAgain ==
    /\ call = "bootstrapping" /\ ticksLeft > 0
    /\ \E event \in Deliverable([request EXCEPT !.profile = Head(candidates)]) :
        LET public == NormalizeEventOrientation(event)
            calibration == CalibrationAfter(public, cachedCalibration)
        IN /\ Record(event)
           /\ cachedInfo' = MergeInfoIfPresent(public.info, cachedInfo)
           /\ cachedCalibration' = calibration
           /\ IF IsValid(calibration)
              THEN attemptOpen' = FALSE /\ ticksLeft' = 0 /\ call' = "opening"
              ELSE ticksLeft' = BootstrapTicks /\ UNCHANGED <<attemptOpen, call>>
    /\ UNCHANGED <<request, candidates, lastError, implVars, frame, result, openedAt>>

\* One turn of the bootstrap loop.  The first valid calibration ends it (102-116).
AttemptPolls ==
    /\ call = "bootstrapping" /\ ticksLeft > 0
    /\ \E event \in Deliverable([request EXCEPT !.profile = Head(candidates)]) :
        LET public == NormalizeEventOrientation(event)
            calibration == CalibrationAfter(public, cachedCalibration)
        IN /\ Record(event)
           /\ cachedInfo' = MergeInfoIfPresent(public.info, cachedInfo)
           /\ cachedCalibration' = calibration
           /\ IF IsValid(calibration)
              THEN attemptOpen' = FALSE /\ ticksLeft' = 0 /\ call' = "opening"
              ELSE UNCHANGED <<attemptOpen, ticksLeft, call>>
    /\ UNCHANGED <<request, candidates, lastError, implVars, frame, result, openedAt>>

\* A mutant: the deadline is compared for equality, and may be missed.
TickPastDeadline ==
    /\ call = "bootstrapping"
    /\ ticksLeft' = ticksLeft - 1
    /\ UNCHANGED <<call, request, candidates, attemptOpen, cachedInfo, cachedCalibration,
                   lastError, implVars, frame, result, historyVars>>

\* The steady clock.
Tick ==
    /\ call = "bootstrapping" /\ ticksLeft > 0
    /\ ticksLeft' = ticksLeft - 1
    /\ UNCHANGED <<call, request, candidates, attemptOpen, cachedInfo, cachedCalibration,
                   lastError, implVars, frame, result, historyVars>>

BootstrapFails ==
    /\ call = "choosing"
    /\ candidates = <<>>
    /\ Return(FALSE, IF lastError # "" THEN lastError ELSE "timed out")
    /\ UNCHANGED <<openVars, implVars, frame, historyVars>>

SourceOpenFails ==
    /\ call = "opening"
    /\ Return(FALSE, "open failed")
    /\ UNCHANGED <<openVars, implVars, frame, historyVars>>

\* Open commits what it has gathered (208-215).
Commit ==
    /\ call = "opening"
    /\ packetSource' = TRUE
    /\ latestDeviceInfo' = cachedInfo
    /\ latestCalibration' = cachedCalibration
    /\ capabilities' = BuildCapabilities(request, NeedsBootstrap(request) /\ IsValid(cachedCalibration))
    /\ nextSequence' = 0
    /\ openedAt' = Len(received)
    /\ Return(TRUE, "")
    /\ UNCHANGED <<openVars, frame, received>>

Close ==
    /\ call = "idle"
    /\ CloseSession
    /\ frame' = NoFrame
    /\ result' = [ok |-> TRUE, error |-> ""]
    /\ UNCHANGED <<call, openVars, historyVars>>

(***************************************************************************)
(* Poll                                                                    *)
(***************************************************************************)

PollCalled ==
    /\ call = "idle"
    /\ frame' = NoFrame
    /\ IF packetSource
       THEN call' = "polling" /\ UNCHANGED result
       ELSE Return(FALSE, "not open")
    /\ UNCHANGED <<openVars, implVars, historyVars>>

PollFails ==
    /\ call = "polling"
    /\ Return(FALSE, "poll failed")
    /\ UNCHANGED <<openVars, implVars, frame, historyVars>>

PollFindsNothing ==
    /\ call = "polling"
    /\ Return(TRUE, "")
    /\ UNCHANGED <<openVars, implVars, frame, historyVars>>

MergeIntoCache(event) ==
    /\ latestDeviceInfo' = MergeInfoIfPresent(event.info, latestDeviceInfo)
    /\ latestCalibration' = CalibrationAfter(event, latestCalibration)

\* A mutant: an absorbed info update takes a frame number.
CountInfo ==
    /\ call = "polling"
    /\ \E event \in Deliverable(request) :
        /\ event.type = "InfoUpdate"
        /\ MergeIntoCache(NormalizeEventOrientation(event))
        /\ Record(event)
    /\ nextSequence' = nextSequence + 1
    /\ UNCHANGED <<call, openVars, packetSource, capabilities, frame, result, openedAt>>

\* An info update is absorbed, and the loop goes on (241-245).
AbsorbInfo ==
    /\ call = "polling"
    /\ \E event \in Deliverable(request) :
        /\ event.type = "InfoUpdate"
        /\ MergeIntoCache(NormalizeEventOrientation(event))
        /\ Record(event)
    /\ UNCHANGED <<call, openVars, packetSource, capabilities, nextSequence, frame, result, openedAt>>

\* The FrameSet of a measurement, completed from what the session knows (249-271).
FrameOf(public) ==
    LET depth == IF public.depth = "none" THEN public.cloud ELSE public.depth
        cloud == IF public.cloud = "none"
                 THEN BuildPointCloudFromDepth(depth, latestCalibration') ELSE public.cloud
    IN [sequence |-> nextSequence', calibration |-> latestCalibration',
        info |-> latestDeviceInfo', depth |-> depth, cloud |-> cloud]

DeliverFrame ==
    /\ call = "polling"
    /\ \E event \in Deliverable(request) :
        LET public == NormalizeEventOrientation(event)
        IN /\ event.type = "Measurement"
           /\ MergeIntoCache(public)
           /\ Record(event)
           /\ nextSequence' = nextSequence + 1
           /\ frame' = FrameOf(public)
    /\ Return(TRUE, "")
    /\ UNCHANGED <<openVars, packetSource, capabilities, openedAt>>

OpenStep == StartAttempt \/ AttemptPollFails \/ AttemptTimesOut \/ AttemptPolls
            \/ BootstrapFails \/ SourceOpenFails \/ Commit
PollStep == PollFails \/ PollFindsNothing \/ AbsorbInfo \/ DeliverFrame

Next == OpenCalled \/ OpenStep \/ Tick \/ Close \/ PollCalled \/ PollStep

Spec == Init /\ [][Next]_cameraVars

\* The caller's thread gets on with the call it is in, and time passes.
FairSpec == Spec /\ WF_cameraVars(OpenStep) /\ WF_cameraVars(Tick)

(***************************************************************************)
(* Properties                                                              *)
(***************************************************************************)

Delivered == frame.sequence # 0

\* What one of the device's events says.
SaysCalibration(event) == IsValid(event.calibrationUpdate) \/ IsValid(event.calibration)
CalibrationSaid(event) ==
    IF IsValid(event.calibration) THEN event.calibration ELSE event.calibrationUpdate
SaysField(f, event) == event.info[f] # 0

\* The calibration and the info are the newest that the events tell, and absent
\* if they tell none.  It reads the history alone.
Tells(events, calibration, info) ==
    /\ \A i \in DOMAIN events :
           /\ SaysCalibration(events[i])
           /\ \A j \in DOMAIN events : j > i => ~SaysCalibration(events[j])
           => calibration = MirroredCalibration(CalibrationSaid(events[i]))
    /\ (\A i \in DOMAIN events : ~SaysCalibration(events[i])) => calibration = NoCalibration
    /\ \A f \in Fields :
           /\ \A i \in DOMAIN events :
                  /\ SaysField(f, events[i])
                  /\ \A j \in DOMAIN events : j > i => ~SaysField(f, events[j])
                  => info[f] = events[i].info[f]
           /\ (\A i \in DOMAIN events : ~SaysField(f, events[i])) => info[f] = 0

\* A frame carries the device's newest valid calibration and the newest value of
\* every info field, from the bootstrap on: an invalid calibration or a partial
\* info never hides an older good one, and nothing of an earlier session of the
\* same Camera is left in it.
FrameTellsLatest == Delivered => Tells(received, frame.calibration, frame.info)

\* Depth, point cloud and calibration of a frame are all in the public
\* orientation, so turned exactly once, also when the calibration is from the
\* bootstrap and when one of the grids is derived from the other.
OrientedOnce ==
    Delivered =>
        /\ frame.depth = "public"
        /\ frame.cloud \in {"public", "none"}
        /\ frame.calibration # NoCalibration => frame.calibration.orientation = "public"

\* Frame numbers count the measurements that the session's source delivered:
\* each makes one frame, info updates make none, and a bootstrap leaves no gap.
SequenceCountsMeasurements ==
    Delivered =>
        frame.sequence = Cardinality({i \in openedAt + 1 .. Len(received) :
                                         received[i].type = "Measurement"})

\* A session that promises calibrationAlwaysAvailableAfterOpen keeps the promise
\* in every frame, and a session whose request asked for the bootstrap promises it.
BootstrapKeepsPromise ==
    /\ capabilities.calibrationAlwaysAvailableAfterOpen /\ Delivered => IsValid(frame.calibration)
    /\ packetSource /\ NeedsBootstrap(request) => capabilities.calibrationAlwaysAvailableAfterOpen

\* Without a session nothing is cached: an Open that fails, at whatever step,
\* shows nothing of what its bootstrap learnt and nothing of the session before.
ClosedIsBlank ==
    ~packetSource =>
        /\ latestDeviceInfo = NoInfo
        /\ latestCalibration = NoCalibration
        /\ capabilities = NoCapabilities
        /\ nextSequence = 0

\* The device is opened by one source at a time: a bootstrap source is closed
\* before the next source opens, and the old session's before either.
OneSourceOpen ==
    /\ attemptOpen => call = "bootstrapping"
    /\ call \in {"choosing", "bootstrapping", "opening"} => ~packetSource

Session == INSTANCE CameraSession WITH
    Calibrations  <- {c \in Calibrations : IsValid(c) /\ c.orientation = "public"},
    isOpen        <- packetSource,
    calibration   <- latestCalibration,
    frames        <- nextSequence

\* The Camera implements CameraSession.
ImplementsSession == Session!Spec

\* An Open returns, whatever the device sends or does not send.
OpenReturns == call \in {"choosing", "bootstrapping", "opening"} ~> call = "idle"

\* hm_ld1_sdk.hpp:198: "bool pointCloudAlwaysAvailable = true;"
PointCloudAlwaysAvailable ==
    Delivered /\ capabilities.pointCloudAlwaysAvailable => frame.cloud # "none"
=============================================================================
