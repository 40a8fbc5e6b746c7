---------------------------- MODULE CameraProofs ----------------------------
(***************************************************************************)
(* Proofs about Camera for every set of requests, of calibrations and of   *)
(* info values: a closed Camera is blank, sources are open one at a time,  *)
(* the promise of a bootstrap is kept, the Camera implements CameraSession, *)
(* and a frame carries its number and the newest that the device told.     *)
(***************************************************************************)
EXTENDS Camera, FiniteSetTheorems, TLAPS

(***************************************************************************)
(* Calibrations on their way from an event into the cache                  *)
(***************************************************************************)

\* What a session may know: a valid calibration in public orientation.
PublicCalibrations == {c \in Calibrations : IsValid(c) /\ c.orientation = "public"}
Known == PublicCalibrations \cup {NoCalibration}

\* What a source may hand over, before and after the event is mirrored.
FromDevice == Sent \cup {NoCalibration}
InPublic == {c \in Calibrations : c.orientation = "public"} \cup {NoCalibration}

\* No calibration is not a calibration.
LEMMA NoCalibrationIsInvalid == ~IsValid(NoCalibration)
  BY CameraAssumption DEF IsValid, NoCalibration

\* The grids of a measurement: a depth grid, a point cloud, or both.
Measured(depth, cloud) ==
    /\ depth \in {"sensor", "none"} /\ cloud \in {"sensor", "none"}
    /\ depth = "sensor" \/ cloud = "sensor"

\* An event as a source hands it over: everything is as the sensor sees it.
DeviceEvents == {e \in Events : /\ e.calibrationUpdate \in FromDevice
                                /\ e.calibration \in FromDevice
                                /\ e.type # "Measurement" => e.calibration = NoCalibration
                                /\ e.type = "Measurement" => Measured(e.depth, e.cloud)}

\* The streams are built from these infos and calibrations.
LEMMA StreamData ==
    /\ NoInfo \in Infos
    /\ \A F : InfosWith(F) \in SUBSET Infos
    /\ Sent \in SUBSET FromDevice /\ {NoCalibration} \in SUBSET FromDevice
    /\ FromDevice \subseteq OptionalCalibrations
  BY DEF NoInfo, Infos, InfosWith, FromDevice, Sent, OptionalCalibrations

\* An info update is an event of a device.
LEMMA InfoUpdatesAreEvents ==
    ASSUME NEW infos \in SUBSET Infos, NEW cs \in SUBSET FromDevice
    PROVE  InfoUpdates(infos, cs) \subseteq DeviceEvents
  BY StreamData DEF InfoUpdates, DeviceEvents, Events, Grids, FromDevice

\* A measurement is an event of a device.
LEMMA MeasurementsAreEvents ==
    ASSUME NEW depth, NEW cloud, Measured(depth, cloud),
           NEW infos \in SUBSET Infos, NEW cs \in SUBSET FromDevice
    PROVE  MeasurementsOf(depth, cloud, infos, cs) \subseteq DeviceEvents
  BY StreamData DEF MeasurementsOf, DeviceEvents, Events, FromDevice, Measured, Grids, Orientations

\* Whatever stream a source delivers, its events are as the sensor sees the scene.
LEMMA DeliverableAreEvents ==
    ASSUME NEW config \in Configs
    PROVE  Deliverable(config) \subseteq DeviceEvents
  <1>1. NoEvent \in DeviceEvents
    BY StreamData DEF NoEvent, DeviceEvents, Events, Grids, FromDevice
  <1>2. /\ Measured("sensor", "none")
        /\ Measured("none", "sensor")
        /\ Measured("sensor", "sensor")
    BY DEF Measured
  <1>3. ASSUME NEW p \in Profiles
        PROVE  UvcEvents(p) \subseteq DeviceEvents
    <2>1. CASE p = "Depth40x30"
      BY <1>2, <2>1, StreamData, MeasurementsAreEvents DEF UvcEvents
    <2>2. CASE p = "PointCloud160x120"
      <3>1. {NoInfo} \cup InfosWith(Fields) \in SUBSET Infos
        BY StreamData
      <3> QED BY <1>2, <2>2, <3>1, StreamData, MeasurementsAreEvents DEF UvcEvents
    <2>3. CASE p = "Raw480x360"
      BY <1>2, <2>3, StreamData, MeasurementsAreEvents DEF UvcEvents
    <2>4. CASE p = "Mixed120x90"
      BY <1>2, <2>4, StreamData, MeasurementsAreEvents, InfoUpdatesAreEvents DEF UvcEvents
    <2> QED BY <2>1, <2>2, <2>3, <2>4 DEF Profiles
  <1>4. SourceEvents(config) \subseteq DeviceEvents
    <2>1. config.transport \in Transports /\ config.profile \in Profiles
      BY DEF Configs
    <2>2. CASE config.transport = "Serial"
      BY <1>2, <2>2, StreamData, MeasurementsAreEvents, InfoUpdatesAreEvents DEF SourceEvents
    <2>3. CASE config.transport = "Udp"
      BY <1>2, <2>3, StreamData, MeasurementsAreEvents DEF SourceEvents
    <2>4. CASE config.transport = "Uvc"
      BY <1>3, <2>1, <2>4 DEF SourceEvents
    <2> QED BY <2>1, <2>2, <2>3, <2>4 DEF Transports
  <1> QED BY <1>1, <1>4 DEF Deliverable

\* Mirroring brings a calibration of the device into public orientation.
LEMMA MirroredIsPublic ==
    ASSUME NEW c \in FromDevice
    PROVE  MirroredCalibration(c) \in InPublic
  BY DEF FromDevice, Sent, Calibrations, Orientations, MirroredCalibration, Mirrored, InPublic

\* The cache takes over valid public calibrations and keeps them.
LEMMA CalibrationAfterResult ==
    ASSUME NEW config \in Configs, NEW event \in Deliverable(config), NEW cached \in Known
    PROVE  LET after == CalibrationAfter(NormalizeEventOrientation(event), cached)
           IN /\ after \in Known
              /\ after \in PublicCalibrations \cup {cached}
              /\ IsValid(cached) => IsValid(after)
  <1> DEFINE public == NormalizeEventOrientation(event)
  <1>1. event \in DeviceEvents
    BY DeliverableAreEvents
  <1>2. public.calibrationUpdate \in InPublic /\ public.calibration \in InPublic
    BY <1>1, MirroredIsPublic DEF NormalizeEventOrientation, DeviceEvents, Events
  <1> HIDE DEF public
  <1>3. ASSUME NEW update \in InPublic, NEW old \in Known
        PROVE  LET merged == MergeCalibrationIfPresent(update, old)
               IN /\ merged \in PublicCalibrations \cup {old}
                  /\ merged \in Known
                  /\ IsValid(old) => IsValid(merged)
    BY NoCalibrationIsInvalid DEF MergeCalibrationIfPresent, InPublic, PublicCalibrations, Known
  <1> QED BY <1>2, <1>3 DEF CalibrationAfter, public

(***************************************************************************)
(* The call in progress                                                    *)
(***************************************************************************)

Opening == call \in {"choosing", "bootstrapping", "opening"}

\* The control of the one thread.  A source of the bootstrap or of the session
\* is open exactly where the code has one, and a call to Open shows no frame.
Control ==
    /\ call \in CallStates
    /\ request \in Configs
    /\ candidates \in Seq(Profiles)
    /\ call = "bootstrapping" => candidates # <<>>
    /\ attemptOpen => call = "bootstrapping"
    /\ packetSource \in BOOLEAN
    /\ Opening => ~packetSource /\ frame.sequence = 0
    /\ call = "polling" => packetSource

\* What the two caches hold, and whether it is what the session promises.
Caches ==
    /\ cachedCalibration \in Known
    /\ latestCalibration \in Known
    /\ call = "opening" /\ NeedsBootstrap(request) => IsValid(cachedCalibration)
    /\ capabilities.calibrationAlwaysAvailableAfterOpen => IsValid(latestCalibration)

\* The inductive invariant.  A promise is made by Open and kept by Poll, so what
\* it rests on has to be carried through all the steps in between.
IInv ==
    /\ Control
    /\ Caches
    /\ ClosedIsBlank
    /\ OneSourceOpen
    /\ BootstrapKeepsPromise
    /\ OrientedOnce

\* The candidates of a bootstrap are profiles.
LEMMA CandidatesAreProfiles ==
    ASSUME NEW preferred \in Profiles
    PROVE  BootstrapCandidates(preferred) \in Seq(Profiles)
  <1>1. ASSUME NEW p \in Profiles
        PROVE  <<>> \in Seq(Profiles) /\ <<p>> \in Seq(Profiles)
    OBVIOUS
  <1>2. "Mixed120x90" \in Profiles /\ "Raw480x360" \in Profiles
    BY DEF Profiles
  <1>3. ASSUME NEW s \in Seq(Profiles), NEW t \in Seq(Profiles)
        PROVE  s \o t \in Seq(Profiles)
    OBVIOUS
  <1> DEFINE first == IF preferred \in {"Depth40x30", "PointCloud160x120"} THEN <<>>
                      ELSE <<preferred>>
             second == IF preferred = "Mixed120x90" THEN <<>> ELSE <<"Mixed120x90">>
             third == IF preferred = "Raw480x360" THEN <<>> ELSE <<"Raw480x360">>
  <1>4. first \in Seq(Profiles) /\ second \in Seq(Profiles) /\ third \in Seq(Profiles)
    BY <1>1, <1>2
  <1>5. BootstrapCandidates(preferred) = (first \o second) \o third
    BY DEF BootstrapCandidates
  <1> HIDE DEF first, second, third
  <1> QED BY <1>3, <1>4, <1>5

\* The configuration of a bootstrap attempt is one.
LEMMA AttemptConfig ==
    ASSUME Control, call = "bootstrapping"
    PROVE  [request EXCEPT !.profile = Head(candidates)] \in Configs
  <1>1. Head(candidates) \in Profiles
    BY DEF Control
  <1> QED BY <1>1 DEF Control, Configs

\* A frame that is kept or cleared is oriented as before.
LEMMA FrameKept ==
    ASSUME OrientedOnce, frame' = frame \/ frame' = NoFrame
    PROVE  OrientedOnce'
  BY DEF OrientedOnce, Delivered, NoFrame

\* A Camera that was never opened satisfies the invariant.
LEMMA InitIInv == Init => IInv
  <1> SUFFICES ASSUME Init PROVE IInv
    OBVIOUS
  <1>1. Control
    <2>1. request \in Configs
      BY CameraAssumption DEF Init
    <2>2. candidates \in Seq(Profiles)
      <3>1. candidates = <<>>
        BY DEF Init
      <3> QED BY <3>1
    <2> QED BY <2>1, <2>2 DEF Init, Control, CallStates, Opening
  <1>2. Caches
    BY DEF Init, Caches, Known, NoCapabilities
  <1>3. ClosedIsBlank /\ OneSourceOpen /\ BootstrapKeepsPromise /\ OrientedOnce
    BY DEF Init, ClosedIsBlank, OneSourceOpen, BootstrapKeepsPromise, OrientedOnce, NoFrame,
           NoCapabilities, Delivered
  <1> QED BY <1>1, <1>2, <1>3 DEF IInv

\* Open closes the session before it does anything else.
LEMMA OpenCalledStep == ASSUME IInv, OpenCalled PROVE IInv'
  <1>1. request' \in Configs /\ request'.preferred \in Profiles
    BY CameraAssumption DEF OpenCalled, Configs
  <1>2. candidates' \in Seq(Profiles)
    BY <1>1, CandidatesAreProfiles DEF OpenCalled
  <1>3. /\ call' = (IF NeedsBootstrap(request') THEN "choosing" ELSE "opening")
        /\ attemptOpen' = attemptOpen /\ frame' = NoFrame /\ ~packetSource'
        /\ packetSource' = FALSE
        /\ cachedCalibration' = NoCalibration /\ latestCalibration' = NoCalibration
        /\ capabilities' = NoCapabilities /\ latestDeviceInfo' = NoInfo /\ nextSequence' = 0
    BY DEF OpenCalled, CloseSession
  <1>4. ~attemptOpen
    BY DEF OpenCalled, IInv, Control
  <1>5. frame'.sequence = 0
    BY <1>3 DEF NoFrame
  <1>6. Control'
    BY <1>1, <1>2, <1>3, <1>4, <1>5 DEF Control, CallStates, Opening
  <1>7. Caches'
    BY <1>3 DEF Caches, Known, NoCapabilities, NeedsBootstrap
  <1>8. ClosedIsBlank' /\ OneSourceOpen'
    BY <1>3, <1>4 DEF ClosedIsBlank, OneSourceOpen
  <1>9. BootstrapKeepsPromise'
    BY <1>3 DEF BootstrapKeepsPromise, NoCapabilities
  <1> QED BY <1>3, <1>6, <1>7, <1>8, <1>9, FrameKept DEF IInv

\* A step of the bootstrap touches neither the session nor its frame.
SessionUntouched == UNCHANGED <<request, implVars, frame>>

\* The session's part of the invariant survives such a step.
LEMMA UntouchedSession ==
    ASSUME IInv, SessionUntouched, Opening, Opening', attemptOpen' => call' = "bootstrapping"
    PROVE  /\ ClosedIsBlank' /\ OneSourceOpen' /\ BootstrapKeepsPromise' /\ OrientedOnce'
           /\ ~packetSource' /\ packetSource' \in BOOLEAN /\ frame'.sequence = 0
           /\ request' \in Configs
           /\ latestCalibration' \in Known
           /\ capabilities'.calibrationAlwaysAvailableAfterOpen => IsValid(latestCalibration')
  <1>1. /\ ClosedIsBlank /\ Control /\ Caches /\ OrientedOnce
        /\ ~packetSource /\ frame.sequence = 0
    BY DEF IInv, Control
  <1>2. /\ request' = request /\ packetSource' = packetSource /\ frame' = frame
        /\ latestDeviceInfo' = latestDeviceInfo /\ latestCalibration' = latestCalibration
        /\ capabilities' = capabilities /\ nextSequence' = nextSequence
    BY DEF SessionUntouched, implVars
  <1>3. ClosedIsBlank'
    BY <1>1, <1>2 DEF ClosedIsBlank
  <1>4. OneSourceOpen'
    BY <1>1, <1>2 DEF OneSourceOpen
  <1>5. BootstrapKeepsPromise'
    BY <1>1, <1>2 DEF BootstrapKeepsPromise, Delivered
  <1> QED BY <1>1, <1>2, <1>3, <1>4, <1>5, FrameKept DEF Control, Caches

\* The next candidate is tried or skipped.
LEMMA StartAttemptStep == ASSUME IInv, StartAttempt PROVE IInv'
  <1>1. SessionUntouched /\ cachedCalibration' = cachedCalibration
    BY DEF StartAttempt, SessionUntouched
  <1>2. /\ candidates' \in Seq(Profiles)
        /\ call' \in {"choosing", "bootstrapping"}
        /\ call' = "bootstrapping" => candidates' # <<>>
        /\ attemptOpen' => call' = "bootstrapping"
    <2>1. candidates \in Seq(Profiles) /\ candidates # <<>>
      BY DEF StartAttempt, IInv, Control
    <2>2. Tail(candidates) \in Seq(Profiles)
      BY <2>1
    <2>3. ~attemptOpen
      BY DEF StartAttempt, IInv, Control
    <2>4. \/ call' = "bootstrapping" /\ candidates' = candidates
          \/ call' = "choosing" /\ attemptOpen' = attemptOpen /\ candidates' = Tail(candidates)
      BY DEF StartAttempt
    <2> QED BY <2>1, <2>2, <2>3, <2>4
  <1>3. Opening /\ Opening'
    BY <1>2 DEF StartAttempt, Opening
  <1>4. Control' /\ Caches'
    BY <1>1, <1>2, <1>3, UntouchedSession DEF Control, CallStates, Caches, IInv
  <1> QED BY <1>1, <1>2, <1>3, <1>4, UntouchedSession DEF IInv

\* An attempt fails or runs out of time.
LEMMA EndAttemptStep ==
    ASSUME IInv, AttemptPollFails \/ AttemptTimesOut
    PROVE  IInv'
  <1>1. SessionUntouched /\ cachedCalibration' = cachedCalibration
    BY DEF AttemptPollFails, AttemptTimesOut, SessionUntouched
  <1>2. call = "bootstrapping" /\ candidates \in Seq(Profiles) /\ candidates # <<>>
    BY DEF AttemptPollFails, AttemptTimesOut, IInv, Control
  <1>3. call' = "choosing" /\ attemptOpen' = FALSE /\ candidates' = Tail(candidates)
    BY DEF AttemptPollFails, AttemptTimesOut, EndAttempt
  <1>4. candidates' \in Seq(Profiles)
    BY <1>2, <1>3
  <1>5. Opening /\ Opening'
    BY <1>2, <1>3 DEF Opening
  <1>6. Control' /\ Caches'
    BY <1>1, <1>3, <1>4, <1>5, UntouchedSession DEF Control, CallStates, Caches, IInv
  <1> QED BY <1>1, <1>3, <1>5, <1>6, UntouchedSession DEF IInv

\* A poll of the bootstrap: the first valid calibration ends it.
LEMMA AttemptPollsStep == ASSUME IInv, AttemptPolls PROVE IInv'
  <1>1. SessionUntouched /\ candidates' = candidates /\ call = "bootstrapping"
    BY DEF AttemptPolls, SessionUntouched
  <1>2. PICK event \in Deliverable([request EXCEPT !.profile = Head(candidates)]) :
           /\ cachedCalibration' =
                  CalibrationAfter(NormalizeEventOrientation(event), cachedCalibration)
           /\ IF IsValid(cachedCalibration')
              THEN attemptOpen' = FALSE /\ call' = "opening"
              ELSE UNCHANGED <<attemptOpen, call>>
    BY DEF AttemptPolls
  <1>3. cachedCalibration' \in Known
    BY <1>1, <1>2, AttemptConfig, CalibrationAfterResult DEF IInv, Caches
  <1>4. /\ call' \in {"bootstrapping", "opening"}
        /\ call' = "opening" => IsValid(cachedCalibration')
        /\ attemptOpen' => call' = "bootstrapping"
    BY <1>1, <1>2
  <1>5. Opening /\ Opening'
    BY <1>1, <1>4 DEF Opening
  <1>6. Control'
    BY <1>1, <1>4, <1>5, UntouchedSession DEF Control, CallStates, IInv
  <1>7. Caches'
    BY <1>1, <1>3, <1>4, <1>5, UntouchedSession DEF Caches
  <1> QED BY <1>1, <1>4, <1>5, <1>6, <1>7, UntouchedSession DEF IInv

\* An Open that fails returns, and leaves what its beginning has left.
LEMMA FailedOpenStep ==
    ASSUME IInv, BootstrapFails \/ SourceOpenFails
    PROVE  IInv'
  <1>1. /\ call \in {"choosing", "opening"} /\ call' = "idle"
        /\ UNCHANGED <<openVars, implVars, frame>>
    BY DEF BootstrapFails, SourceOpenFails, Return
  <1>2. Control' /\ Caches'
    BY <1>1 DEF IInv, Control, Caches, CallStates, Opening, openVars, implVars
  <1>3. ClosedIsBlank' /\ OneSourceOpen' /\ BootstrapKeepsPromise'
    BY <1>1 DEF IInv, Control, ClosedIsBlank, OneSourceOpen, BootstrapKeepsPromise, Delivered,
                Opening, openVars, implVars
  <1> QED BY <1>1, <1>2, <1>3, FrameKept DEF IInv

\* Time that passes changes nothing that the invariant is about.
LEMMA TickStep == ASSUME IInv, Tick PROVE IInv'
  <1>1. UNCHANGED <<call, request, candidates, attemptOpen, cachedCalibration, implVars, frame>>
    BY DEF Tick
  <1> QED BY <1>1 DEF IInv, Control, Caches, Opening, ClosedIsBlank, OneSourceOpen,
                      BootstrapKeepsPromise, OrientedOnce, Delivered, implVars

\* A session starts with what the bootstrap has learnt, and promises no more.
LEMMA CommitStep ==
    ASSUME IInv, Commit
    PROVE  /\ IInv'
           /\ ~packetSource /\ packetSource' = TRUE /\ nextSequence' = 0
           /\ latestCalibration' \in Known
  <1>1. /\ call = "opening" /\ call' = "idle" /\ packetSource' = TRUE
        /\ latestCalibration' = cachedCalibration /\ nextSequence' = 0
        /\ UNCHANGED <<openVars, frame>>
    BY DEF Commit, Return
  <1>2. ~packetSource /\ frame.sequence = 0 /\ ~attemptOpen /\ request \in Configs
    BY <1>1 DEF IInv, Control, Opening
  <1>3. capabilities'.calibrationAlwaysAvailableAfterOpen
            = (NeedsBootstrap(request) /\ IsValid(cachedCalibration))
    BY DEF Commit, BuildCapabilities, NoCapabilities
  <1>4. NeedsBootstrap(request) => IsValid(cachedCalibration)
    BY <1>1 DEF IInv, Caches
  <1>5. Control'
    BY <1>1, <1>2 DEF IInv, Control, CallStates, Opening, openVars
  <1>6. Caches'
    BY <1>1, <1>3 DEF IInv, Caches, openVars
  <1>7. ClosedIsBlank' /\ OneSourceOpen'
    BY <1>1, <1>2 DEF ClosedIsBlank, OneSourceOpen, openVars
  <1>8. BootstrapKeepsPromise'
    BY <1>1, <1>2, <1>3, <1>4 DEF BootstrapKeepsPromise, Delivered, openVars
  <1> QED BY <1>1, <1>2, <1>5, <1>6, <1>7, <1>8, FrameKept DEF IInv, Caches

\* Close leaves a blank Camera.
LEMMA CloseStep == ASSUME IInv, Close PROVE IInv'
  <1>1. /\ call = "idle" /\ call' = "idle" /\ UNCHANGED openVars
        /\ frame' = NoFrame /\ packetSource' = FALSE
        /\ latestDeviceInfo' = NoInfo /\ latestCalibration' = NoCalibration
        /\ capabilities' = NoCapabilities /\ nextSequence' = 0
    BY DEF Close, CloseSession
  <1>2. frame'.sequence = 0
    BY <1>1 DEF NoFrame
  <1>3. Control'
    BY <1>1, <1>2 DEF IInv, Control, CallStates, Opening, openVars
  <1>4. Caches'
    BY <1>1 DEF IInv, Caches, Known, NoCapabilities, openVars
  <1>5. ClosedIsBlank' /\ OneSourceOpen'
    BY <1>1, <1>3 DEF Control, ClosedIsBlank, OneSourceOpen
  <1>6. BootstrapKeepsPromise'
    BY <1>1 DEF BootstrapKeepsPromise, NoCapabilities
  <1> QED BY <1>1, <1>3, <1>4, <1>5, <1>6, FrameKept DEF IInv

\* The beginning of a Poll clears the caller's frame.
LEMMA PollCalledStep == ASSUME IInv, PollCalled PROVE IInv'
  <1>1. /\ call = "idle" /\ call' \in {"idle", "polling"}
        /\ call' = "polling" => packetSource
        /\ frame' = NoFrame /\ UNCHANGED <<openVars, implVars>>
    BY DEF PollCalled, Return
  <1>2. frame'.sequence = 0
    BY <1>1 DEF NoFrame
  <1>3. Control'
    BY <1>1, <1>2 DEF IInv, Control, CallStates, Opening, openVars, implVars
  <1>4. Caches'
    BY <1>1 DEF IInv, Caches, openVars, implVars
  <1>5. ClosedIsBlank' /\ OneSourceOpen'
    BY <1>1, <1>3 DEF IInv, Control, ClosedIsBlank, OneSourceOpen, openVars, implVars
  <1>6. BootstrapKeepsPromise'
    BY <1>1, <1>2 DEF IInv, BootstrapKeepsPromise, Delivered, openVars, implVars
  <1> QED BY <1>1, <1>3, <1>4, <1>5, <1>6, FrameKept DEF IInv

\* A Poll that ends without a frame.
LEMMA EmptyPollStep ==
    ASSUME IInv, PollFails \/ PollFindsNothing
    PROVE  IInv'
  <1>1. /\ call = "polling" /\ call' = "idle" /\ UNCHANGED <<openVars, implVars, frame>>
    BY DEF PollFails, PollFindsNothing, Return
  <1>2. Control' /\ Caches'
    BY <1>1 DEF IInv, Control, Caches, CallStates, Opening, openVars, implVars
  <1>3. ClosedIsBlank' /\ OneSourceOpen' /\ BootstrapKeepsPromise'
    BY <1>1 DEF IInv, Control, ClosedIsBlank, OneSourceOpen, BootstrapKeepsPromise, Delivered,
                openVars, implVars
  <1> QED BY <1>1, <1>2, <1>3, FrameKept DEF IInv

\* What a source event does to the calibration of an open session.
LearnsCalibration ==
    /\ latestCalibration' \in Known
    /\ latestCalibration' \in PublicCalibrations \cup {latestCalibration}
    /\ IsValid(latestCalibration) => IsValid(latestCalibration')

\* Every event that is merged into the cache does just that.
LEMMA MergeResult ==
    ASSUME IInv, NEW event \in Deliverable(request),
           MergeIntoCache(NormalizeEventOrientation(event))
    PROVE  LearnsCalibration
  BY CalibrationAfterResult DEF IInv, Control, Caches, MergeIntoCache, LearnsCalibration

\* An info update is absorbed.
LEMMA AbsorbInfoStep ==
    ASSUME IInv, AbsorbInfo
    PROVE  IInv' /\ LearnsCalibration
  <1>1. /\ call = "polling"
        /\ UNCHANGED <<call, openVars, packetSource, capabilities, nextSequence, frame>>
    BY DEF AbsorbInfo
  <1>2. LearnsCalibration
    BY MergeResult DEF AbsorbInfo
  <1>3. packetSource = TRUE
    BY <1>1 DEF IInv, Control
  <1>4. Control'
    BY <1>1 DEF IInv, Control, Opening, openVars
  <1>5. Caches'
    BY <1>1, <1>2 DEF IInv, Caches, LearnsCalibration, openVars
  <1>6. ClosedIsBlank' /\ OneSourceOpen' /\ BootstrapKeepsPromise'
    BY <1>1, <1>3 DEF IInv, ClosedIsBlank, OneSourceOpen, BootstrapKeepsPromise, Delivered, openVars
  <1> QED BY <1>1, <1>2, <1>4, <1>5, <1>6, FrameKept DEF IInv

\* A frame is in public orientation throughout.
FrameOriented(public) ==
    /\ FrameOf(public).depth = "public"
    /\ FrameOf(public).cloud \in {"public", "none"}
    /\ FrameOf(public).calibration # NoCalibration
           => FrameOf(public).calibration.orientation = "public"

\* A mirrored measurement makes such a frame: a grid that it lacks is derived from
\* the other one and a calibration that have both been mirrored.
LEMMA FrameIsOriented ==
    ASSUME NEW event \in DeviceEvents, event.type = "Measurement", latestCalibration' \in Known
    PROVE  FrameOriented(NormalizeEventOrientation(event))
  <1> DEFINE public == NormalizeEventOrientation(event)
             depth == IF public.depth = "none" THEN public.cloud ELSE public.depth
             cloud == IF public.cloud = "none"
                      THEN BuildPointCloudFromDepth(depth, latestCalibration')
                      ELSE public.cloud
  <1>1. public.depth = Mirrored(event.depth) /\ public.cloud = Mirrored(event.cloud)
    BY DEF NormalizeEventOrientation, DeviceEvents, Events
  <1>2. Measured(event.depth, event.cloud)
    BY DEF DeviceEvents
  <1> HIDE DEF public
  <1>3. depth = "public" /\ public.cloud \in {"public", "none"}
    BY <1>1, <1>2 DEF Measured, Mirrored
  <1>4. latestCalibration' = NoCalibration \/ latestCalibration'.orientation = "public"
    BY DEF Known, PublicCalibrations
  <1> HIDE DEF depth
  <1>5. BuildPointCloudFromDepth(depth, latestCalibration') \in {"public", "none"}
    <2>1. CASE latestCalibration'.id \in Usable
      <3>1. latestCalibration'.orientation = "public"
        BY <1>4, <2>1, CameraAssumption DEF NoCalibration
      <3> QED BY <1>3, <2>1, <3>1 DEF BuildPointCloudFromDepth
    <2>2. CASE latestCalibration'.id \notin Usable
      BY <2>2 DEF BuildPointCloudFromDepth
    <2> QED BY <2>1, <2>2
  <1>6. /\ FrameOf(public).depth = depth
        /\ FrameOf(public).cloud = cloud
        /\ FrameOf(public).calibration = latestCalibration'
    BY DEF FrameOf, depth
  <1> QED BY <1>3, <1>4, <1>5, <1>6 DEF FrameOriented, public

\* A measurement becomes a frame, with the calibration that is cached then.
LEMMA DeliverFrameStep ==
    ASSUME IInv, DeliverFrame
    PROVE  IInv' /\ LearnsCalibration /\ nextSequence' = nextSequence + 1
  <1>1. /\ call = "polling" /\ call' = "idle"
        /\ UNCHANGED <<openVars, packetSource, capabilities>>
        /\ nextSequence' = nextSequence + 1
        /\ frame'.calibration = latestCalibration'
    <2>1. PICK event \in Deliverable(request) :
             /\ nextSequence' = nextSequence + 1
             /\ frame' = FrameOf(NormalizeEventOrientation(event))
      BY DEF DeliverFrame
    <2>2. ASSUME NEW public PROVE FrameOf(public).calibration = latestCalibration'
      BY DEF FrameOf
    <2>3. frame'.calibration = latestCalibration'
      BY <2>1, <2>2
    <2> QED BY <2>1, <2>3 DEF DeliverFrame, Return
  <1>2. LearnsCalibration
    BY MergeResult DEF DeliverFrame
  <1>3. packetSource = TRUE
    BY <1>1 DEF IInv, Control
  <1>4. Control'
    BY <1>1, <1>3 DEF IInv, Control, CallStates, Opening, openVars
  <1>5. Caches'
    BY <1>1, <1>2 DEF IInv, Caches, LearnsCalibration, openVars
  <1>6. ClosedIsBlank' /\ OneSourceOpen'
    BY <1>1, <1>3 DEF IInv, Control, ClosedIsBlank, OneSourceOpen, openVars
  <1>7. BootstrapKeepsPromise'
    BY <1>1, <1>5 DEF IInv, Caches, BootstrapKeepsPromise, openVars
  <1>8. OrientedOnce'
    <2>1. PICK event \in Deliverable(request) :
             /\ event.type = "Measurement"
             /\ frame' = FrameOf(NormalizeEventOrientation(event))
      BY DEF DeliverFrame
    <2>2. event \in DeviceEvents
      BY DeliverableAreEvents DEF IInv, Control
    <2>3. latestCalibration' \in Known
      BY <1>2 DEF LearnsCalibration
    <2>4. FrameOriented(NormalizeEventOrientation(event))
      BY <2>1, <2>2, <2>3, FrameIsOriented
    <2> QED BY <2>1, <2>4 DEF OrientedOnce, FrameOriented
  <1> QED BY <1>1, <1>2, <1>4, <1>5, <1>6, <1>7, <1>8 DEF IInv

(***************************************************************************)
(* Theorems                                                                *)
(***************************************************************************)

\* Every step keeps the invariant.
LEMMA NextStep == ASSUME IInv, [Next]_cameraVars PROVE IInv'
  <1>1. CASE UNCHANGED cameraVars
    BY <1>1 DEF IInv, Control, Caches, Opening, ClosedIsBlank, OneSourceOpen,
                BootstrapKeepsPromise, OrientedOnce, Delivered, cameraVars, openVars, implVars
  <1>2. CASE OpenStep
    BY <1>2, StartAttemptStep, EndAttemptStep, AttemptPollsStep, FailedOpenStep, CommitStep
       DEF OpenStep
  <1>3. CASE PollStep
    BY <1>3, EmptyPollStep, AbsorbInfoStep, DeliverFrameStep DEF PollStep
  <1>4. CASE OpenCalled \/ Tick \/ Close \/ PollCalled
    BY <1>4, OpenCalledStep, TickStep, CloseStep, PollCalledStep
  <1> QED BY <1>1, <1>2, <1>3, <1>4 DEF Next

\* The invariant holds in every reachable state.
THEOREM IInvAlways == Spec => []IInv
  <1>1. IInv /\ [Next]_cameraVars => IInv'
    BY NextStep
  <1> QED BY <1>1, InitIInv, PTL DEF Spec

\* A Camera without a session shows nothing of an earlier one, nor of an Open
\* that failed.
THEOREM ClosedStaysBlank == Spec => []ClosedIsBlank
  <1>1. IInv => ClosedIsBlank
    BY DEF IInv
  <1> QED BY <1>1, IInvAlways, PTL

\* The sources of the bootstrap and of the session are never open together.
THEOREM SourcesTakeTurns == Spec => []OneSourceOpen
  <1>1. IInv => OneSourceOpen
    BY DEF IInv
  <1> QED BY <1>1, IInvAlways, PTL

\* A session that promises a calibration has one in each of its frames.
THEOREM PromiseKept == Spec => []BootstrapKeepsPromise
  <1>1. IInv => BootstrapKeepsPromise
    BY DEF IInv
  <1> QED BY <1>1, IInvAlways, PTL

\* Each calibration and each grid of a frame was turned exactly once.
THEOREM FramesArePublic == Spec => []OrientedOnce
  <1>1. IInv => OrientedOnce
    BY DEF IInv
  <1> QED BY <1>1, IInvAlways, PTL

\* What the session shows after a step that does not end or start it.
LEMMA SessionStutters ==
    ASSUME UNCHANGED <<packetSource, latestCalibration, nextSequence>>
    PROVE  [Session!Next]_(Session!sessionVars)
  BY DEF Session!sessionVars

\* A step that closes the session is one of the abstract session, or nothing if
\* there was none.
LEMMA ClosingRefines ==
    ASSUME IInv, CloseSession
    PROVE  [Session!Next]_(Session!sessionVars)
  <1>1. /\ packetSource' = FALSE /\ latestCalibration' = NoCalibration /\ nextSequence' = 0
        /\ packetSource \in BOOLEAN
    BY DEF CloseSession, IInv, Control
  <1>2. CASE packetSource
    BY <1>1, <1>2 DEF Session!Next, Session!Finish, Session!Blank
  <1>3. CASE ~packetSource
    <2>1. latestCalibration = NoCalibration /\ nextSequence = 0 /\ packetSource = FALSE
      BY <1>1, <1>3 DEF IInv, ClosedIsBlank
    <2> QED BY <1>1, <2>1 DEF Session!sessionVars
  <1> QED BY <1>2, <1>3

\* Every step of the Camera is a step of the abstract session or none.
LEMMA StepRefines ==
    ASSUME IInv, [Next]_cameraVars
    PROVE  [Session!Next]_(Session!sessionVars)
  <1>1. CASE UNCHANGED cameraVars
    BY <1>1, SessionStutters DEF cameraVars, implVars
  <1>2. CASE OpenCalled \/ Close
    BY <1>2, ClosingRefines DEF OpenCalled, Close
  <1>3. CASE Tick \/ PollCalled
    BY <1>3, SessionStutters DEF Tick, PollCalled, implVars
  <1>4. CASE OpenStep /\ ~Commit
    BY <1>4, SessionStutters
       DEF OpenStep, StartAttempt, AttemptPollFails, AttemptTimesOut, AttemptPolls,
           BootstrapFails, SourceOpenFails, implVars
  <1>5. CASE Commit
    BY <1>5, CommitStep DEF Session!Next, Session!Start, Known, PublicCalibrations
  <1>6. CASE PollFails \/ PollFindsNothing
    BY <1>6, SessionStutters DEF PollFails, PollFindsNothing, implVars
  <1>7. CASE AbsorbInfo
    <2>1. packetSource /\ packetSource' = packetSource /\ nextSequence' = nextSequence
      BY <1>7 DEF AbsorbInfo, IInv, Control
    <2>2. latestCalibration' \in PublicCalibrations \cup {latestCalibration}
      BY <1>7, AbsorbInfoStep DEF LearnsCalibration
    <2> QED BY <2>1, <2>2
            DEF Session!Next, Session!Learn, Session!sessionVars, PublicCalibrations
  <1>8. CASE DeliverFrame
    <2>1. packetSource /\ packetSource' = packetSource
      BY <1>8 DEF DeliverFrame, IInv, Control
    <2> QED BY <1>8, <2>1, DeliverFrameStep
            DEF Session!Next, Session!Deliver, LearnsCalibration, PublicCalibrations
  <1> QED BY <1>1, <1>2, <1>3, <1>4, <1>5, <1>6, <1>7, <1>8 DEF Next, PollStep

\* The Camera implements CameraSession: a caller sees sessions that start blank
\* or with a bootstrapped calibration, learn calibrations, never lose one, and
\* number their frames from 1.
THEOREM CameraImplementsSession == Spec => ImplementsSession
  <1>1. Init => Session!Init
    BY DEF Init, Session!Init, Session!Blank
  <1>2. IInv /\ [Next]_cameraVars => [Session!Next]_(Session!sessionVars)
    BY StepRefines
  <1> QED BY <1>1, <1>2, IInvAlways, PTL DEF Spec, ImplementsSession, Session!Spec

(***************************************************************************)
(* What the events tell, and what the caches remember of it                *)
(***************************************************************************)

\* Mirroring a calibration leaves it as valid as it was.
LEMMA MirroredIsAsValid ==
    ASSUME NEW c \in FromDevice
    PROVE  IsValid(MirroredCalibration(c)) <=> IsValid(c)
  BY DEF FromDevice, Sent, Calibrations, MirroredCalibration, IsValid

\* Mirroring an event changes neither its kind nor its info.
LEMMA NormalizedEvent ==
    ASSUME NEW event \in DeviceEvents
    PROVE  LET public == NormalizeEventOrientation(event)
           IN /\ public.type = event.type /\ public.info = event.info
              /\ public.calibrationUpdate = MirroredCalibration(event.calibrationUpdate)
              /\ public.calibration = MirroredCalibration(event.calibration)
  BY DEF NormalizeEventOrientation, DeviceEvents, Events

\* The cache takes over the calibration that an event says, turned, and else stays.
LEMMA CalibrationLearnt ==
    ASSUME NEW event \in DeviceEvents, NEW cached
    PROVE  CalibrationAfter(NormalizeEventOrientation(event), cached)
             = IF SaysCalibration(event) THEN MirroredCalibration(CalibrationSaid(event))
               ELSE cached
  <1> DEFINE public == NormalizeEventOrientation(event)
  <1>1. /\ event.calibrationUpdate \in FromDevice /\ event.calibration \in FromDevice
        /\ event.type # "Measurement" => event.calibration = NoCalibration
    BY DEF DeviceEvents
  <1>2. /\ public.type = event.type
        /\ public.calibrationUpdate = MirroredCalibration(event.calibrationUpdate)
        /\ public.calibration = MirroredCalibration(event.calibration)
    BY NormalizedEvent
  <1>3. /\ IsValid(public.calibrationUpdate) <=> IsValid(event.calibrationUpdate)
        /\ IsValid(public.calibration) <=> IsValid(event.calibration)
    BY <1>1, <1>2, MirroredIsAsValid
  <1> HIDE DEF public
  <1>4. CalibrationAfter(public, cached)
          = IF public.type = "Measurement" /\ IsValid(public.calibration)
            THEN public.calibration
            ELSE IF IsValid(public.calibrationUpdate) THEN public.calibrationUpdate ELSE cached
    BY DEF CalibrationAfter, MergeCalibrationIfPresent
  <1>5. ASSUME event.type # "Measurement" PROVE ~IsValid(event.calibration)
    BY <1>1, <1>5, NoCalibrationIsInvalid
  <1>6. CASE IsValid(event.calibration)
    BY <1>2, <1>3, <1>4, <1>5, <1>6 DEF SaysCalibration, CalibrationSaid, public
  <1>7. CASE ~IsValid(event.calibration)
    BY <1>2, <1>3, <1>4, <1>7 DEF SaysCalibration, CalibrationSaid, public
  <1> QED BY <1>6, <1>7

\* What a sequence of events becomes by one more.
LEMMA OneMoreEvent ==
    ASSUME NEW events \in Seq(Events), NEW event \in Events
    PROVE  LET more == Append(events, event)
           IN /\ more \in Seq(Events)
              /\ Len(events) \in Nat /\ Len(more) = Len(events) + 1
              /\ DOMAIN events = 1 .. Len(events) /\ DOMAIN more = 1 .. Len(events) + 1
              /\ \A i \in 1 .. Len(events) : more[i] = events[i]
              /\ more[Len(events) + 1] = event
  OBVIOUS

\* A cache that remembers the newest of the events does so after one more.
LEMMA TellsMore ==
    ASSUME NEW events \in Seq(Events), NEW event \in DeviceEvents,
           NEW calibration, NEW info \in Infos, Tells(events, calibration, info)
    PROVE  Tells(Append(events, event),
                 CalibrationAfter(NormalizeEventOrientation(event), calibration),
                 MergeInfoIfPresent(event.info, info))
  <1> DEFINE n == Len(events)
             more == Append(events, event)
             learnt == CalibrationAfter(NormalizeEventOrientation(event), calibration)
             merged == MergeInfoIfPresent(event.info, info)
  <1>1. event \in Events
    BY DEF DeviceEvents
  <1>2. /\ n \in Nat /\ DOMAIN events = 1 .. n /\ DOMAIN more = 1 .. n + 1
        /\ \A i \in 1 .. n : more[i] = events[i]
        /\ more[n + 1] = event
    BY <1>1, OneMoreEvent
  <1>3. learnt = IF SaysCalibration(event) THEN MirroredCalibration(CalibrationSaid(event))
                 ELSE calibration
    BY CalibrationLearnt
  <1>4. \A f \in Fields : merged[f] = IF SaysField(f, event) THEN event.info[f] ELSE info[f]
    BY DEF MergeInfoIfPresent, SaysField
  <1> HIDE DEF n, more, learnt, merged
  <1>5. \A i \in 1 .. n + 1 : i = n + 1 \/ (i \in 1 .. n /\ n + 1 > i)
    BY <1>2
  <1>6. n + 1 \in 1 .. n + 1 /\ \A i \in 1 .. n : i \in 1 .. n + 1
    BY <1>2
  <1>7. /\ \A i \in 1 .. n + 1 :
               /\ SaysCalibration(more[i])
               /\ \A j \in 1 .. n + 1 : j > i => ~SaysCalibration(more[j])
               => learnt = MirroredCalibration(CalibrationSaid(more[i]))
        /\ (\A i \in 1 .. n + 1 : ~SaysCalibration(more[i])) => learnt = NoCalibration
    <2>1. /\ \A i \in 1 .. n :
                 /\ SaysCalibration(events[i])
                 /\ \A j \in 1 .. n : j > i => ~SaysCalibration(events[j])
                 => calibration = MirroredCalibration(CalibrationSaid(events[i]))
          /\ (\A i \in 1 .. n : ~SaysCalibration(events[i])) => calibration = NoCalibration
      BY <1>2 DEF Tells
    <2>2. CASE SaysCalibration(event)
      <3>1. learnt = MirroredCalibration(CalibrationSaid(event))
        BY <1>3, <2>2
      <3> QED BY <1>2, <1>5, <1>6, <2>2, <3>1, Zenon
    <2>3. CASE ~SaysCalibration(event)
      <3>1. learnt = calibration
        BY <1>3, <2>3
      <3> QED BY <1>2, <1>5, <1>6, <2>1, <2>3, <3>1, Zenon
    <2> QED BY <2>2, <2>3
  <1>8. ASSUME NEW f \in Fields
        PROVE  /\ \A i \in 1 .. n + 1 :
                      /\ SaysField(f, more[i])
                      /\ \A j \in 1 .. n + 1 : j > i => ~SaysField(f, more[j])
                      => merged[f] = more[i].info[f]
               /\ (\A i \in 1 .. n + 1 : ~SaysField(f, more[i])) => merged[f] = 0
    <2>1. /\ \A i \in 1 .. n :
                 /\ SaysField(f, events[i])
                 /\ \A j \in 1 .. n : j > i => ~SaysField(f, events[j])
                 => info[f] = events[i].info[f]
          /\ (\A i \in 1 .. n : ~SaysField(f, events[i])) => info[f] = 0
      BY <1>2 DEF Tells
    <2>2. CASE SaysField(f, event)
      <3>1. merged[f] = event.info[f]
        BY <1>4, <2>2
      <3> QED BY <1>2, <1>5, <1>6, <2>2, <3>1, Zenon
    <2>3. CASE ~SaysField(f, event)
      <3>1. merged[f] = info[f]
        BY <1>4, <2>3
      <3> QED BY <1>2, <1>5, <1>6, <2>1, <2>3, <3>1, Zenon
    <2> QED BY <2>2, <2>3
  <1>9. Tells(more, learnt, merged)
    BY <1>2, <1>7, <1>8 DEF Tells
  <1> QED BY <1>9 DEF more, learnt, merged

\* An absent event, which the history does not record, leaves the caches alone.
LEMMA NothingLearnt ==
    ASSUME NEW cached, NEW info \in Infos
    PROVE  /\ CalibrationAfter(NormalizeEventOrientation(NoEvent), cached) = cached
           /\ MergeInfoIfPresent(NoEvent.info, info) = info
  <1>1. NoEvent \in DeviceEvents
    BY StreamData DEF NoEvent, DeviceEvents, Events, Grids, FromDevice
  <1>2. ~SaysCalibration(NoEvent)
    BY NoCalibrationIsInvalid DEF SaysCalibration, NoEvent
  <1>3. MergeInfoIfPresent(NoEvent.info, info) = info
    BY DEF MergeInfoIfPresent, NoEvent, NoInfo, Infos
  <1> QED BY <1>1, <1>2, <1>3, CalibrationLearnt

(***************************************************************************)
(* Types, numbers and the newest that was told                             *)
(***************************************************************************)

\* The types of what Control and Caches do not type.
Data ==
    /\ attemptOpen \in BOOLEAN
    /\ ticksLeft \in 0 .. BootstrapTicks
    /\ cachedInfo \in Infos /\ latestDeviceInfo \in Infos
    /\ lastError \in Errors
    /\ DOMAIN capabilities = DOMAIN NoCapabilities
    /\ frame.depth \in Grids /\ frame.cloud \in Grids
    /\ result \in [ok : BOOLEAN, error : Errors]
    /\ received \in Seq(Events)

\* A frame is a record of its five fields.
FrameRecord ==
    frame = [sequence |-> frame.sequence, calibration |-> frame.calibration,
             info |-> frame.info, depth |-> frame.depth, cloud |-> frame.cloud]

\* The measurements among the events after the first k.
MeasurementsAfter(events, k) ==
    {i \in k + 1 .. Len(events) : events[i].type = "Measurement"}

\* The number of the session is the number of its measurements; the caller's frame,
\* where there is one, is of the session's present.
Counts ==
    /\ Len(received) <= EventLimit
    /\ openedAt \in Nat /\ openedAt <= Len(received)
    /\ nextSequence \in Nat /\ nextSequence <= Len(received)
    /\ packetSource => nextSequence = Cardinality(MeasurementsAfter(received, openedAt))
    /\ Delivered \/ frame = NoFrame
    /\ Delivered => /\ packetSource /\ call = "idle"
                    /\ frame.sequence = nextSequence
                    /\ frame.calibration = latestCalibration
                    /\ frame.info = latestDeviceInfo

\* The cache of the call to Open, and then the one of the session, is the newest
\* that the events tell.  Before the first Open and after a Close neither is.
Remembers ==
    /\ Opening => Tells(received, cachedCalibration, cachedInfo)
    /\ packetSource => Tells(received, latestCalibration, latestDeviceInfo)

\* The inductive invariant.  A frame shows what the caches hold when it is made,
\* and they hold it since the Open that the history began with.
HistoryInv == IInv /\ Data /\ FrameRecord /\ Counts /\ Remembers

\* What a frame may show is what its types allow.
LEMMA TypedByInvariant == HistoryInv => TypeOK
  <1> SUFFICES ASSUME HistoryInv PROVE TypeOK
    OBVIOUS
  <1>1. /\ call \in CallStates /\ request \in Configs /\ candidates \in Seq(Profiles)
        /\ packetSource \in BOOLEAN
    BY DEF HistoryInv, IInv, Control
  <1>2. cachedCalibration \in OptionalCalibrations /\ latestCalibration \in OptionalCalibrations
    BY DEF HistoryInv, IInv, Caches, Known, PublicCalibrations, OptionalCalibrations
  <1>3. Data
    BY DEF HistoryInv
  <1>4. EventLimit \in Nat /\ Len(received) \in Nat
    BY <1>3, CameraAssumption DEF Data
  <1>5. nextSequence \in 0 .. EventLimit /\ openedAt \in 0 .. EventLimit
    BY <1>4 DEF HistoryInv, Counts
  <1>6. frame \in Frames
    <2>1. CASE Delivered
      <3>1. /\ frame.sequence \in 0 .. EventLimit
            /\ frame.calibration \in OptionalCalibrations
            /\ frame.info \in Infos
        BY <1>2, <1>3, <1>5, <2>1 DEF HistoryInv, Counts, Data
      <3>2. frame.depth \in Grids /\ frame.cloud \in Grids
        BY <1>3 DEF Data
      <3> QED BY <3>1, <3>2 DEF HistoryInv, FrameRecord, Frames
    <2>2. CASE ~Delivered
      <3>1. frame = NoFrame
        BY <2>2 DEF HistoryInv, Counts
      <3>2. 0 \in 0 .. EventLimit
        BY <1>4
      <3> QED BY <3>1, <3>2, StreamData DEF NoFrame, Frames, OptionalCalibrations, Grids
    <2> QED BY <2>1, <2>2
  <1> QED BY <1>1, <1>2, <1>3, <1>5, <1>6 DEF TypeOK, Data

\* Before the first event nothing is told and nothing counted.
LEMMA NoEventsYet ==
    /\ <<>> \in Seq(Events) /\ Len(<<>>) = 0
    /\ Tells(<<>>, NoCalibration, NoInfo)
    /\ NoFrame.sequence = 0
  <1>1. <<>> \in Seq(Events) /\ Len(<<>>) = 0 /\ DOMAIN <<>> = {}
    OBVIOUS
  <1>2. \A f \in Fields : NoInfo[f] = 0
    BY DEF NoInfo
  <1> QED BY <1>1, <1>2 DEF Tells, NoFrame

\* A session that opens has counted nothing.
LEMMA NothingCounted ==
    ASSUME NEW events \in Seq(Events)
    PROVE  Cardinality(MeasurementsAfter(events, Len(events))) = 0
  <1>1. MeasurementsAfter(events, Len(events)) = {}
    BY DEF MeasurementsAfter
  <1> QED BY <1>1, FS_EmptySet

\* One event more counts if it is a measurement.
LEMMA OneMoreCounted ==
    ASSUME NEW events \in Seq(Events), NEW event \in Events,
           NEW k \in Nat, k <= Len(events)
    PROVE  Cardinality(MeasurementsAfter(Append(events, event), k))
             = Cardinality(MeasurementsAfter(events, k))
               + (IF event.type = "Measurement" THEN 1 ELSE 0)
  <1> DEFINE n == Len(events)
             more == Append(events, event)
             before == MeasurementsAfter(events, k)
             after == MeasurementsAfter(more, k)
  <1>1. /\ n \in Nat /\ Len(more) = n + 1 /\ more[n + 1] = event
        /\ \A i \in 1 .. n : more[i] = events[i]
    BY OneMoreEvent
  <1>2. IsFiniteSet(before) /\ Cardinality(before) \in Nat
    <2>1. before \subseteq k + 1 .. n
      BY DEF MeasurementsAfter
    <2>2. IsFiniteSet(k + 1 .. n)
      BY <1>1, FS_Interval
    <2> QED BY <2>1, <2>2, FS_Subset, FS_CardinalityType
  <1>3. n + 1 \notin before
    BY <1>1 DEF MeasurementsAfter
  <1>4. \A i \in k + 1 .. n : i \in 1 .. n
    BY <1>1
  <1>5. \A i : i \in k + 1 .. n + 1 <=> (i = n + 1 \/ i \in k + 1 .. n)
    BY <1>1
  <1>6. after = {i \in k + 1 .. n + 1 : more[i].type = "Measurement"}
    BY <1>1 DEF MeasurementsAfter
  <1>7. before = {i \in k + 1 .. n : events[i].type = "Measurement"}
    BY DEF MeasurementsAfter
  <1> HIDE DEF n, more, before, after
  <1>8. CASE event.type = "Measurement"
    <2>1. after = before \cup {n + 1}
      BY <1>1, <1>4, <1>5, <1>6, <1>7, <1>8
    <2>2. Cardinality(after) = Cardinality(before) + 1
      BY <1>2, <1>3, <2>1, FS_AddElement
    <2> QED BY <1>8, <2>2 DEF before, after, more
  <1>9. CASE event.type # "Measurement"
    <2>1. after = before
      BY <1>1, <1>4, <1>5, <1>6, <1>7, <1>9
    <2>2. Cardinality(after) = Cardinality(before) + 0
      BY <1>2, <2>1
    <2> QED BY <1>9, <2>2 DEF before, after, more
  <1> QED BY <1>8, <1>9

\* The error texts of a call.
LEMMA ErrorTexts ==
    /\ "" \in Errors /\ "open failed" \in Errors /\ "poll failed" \in Errors
    /\ "timed out" \in Errors /\ "not open" \in Errors
  BY Zenon DEF Errors

\* What a call returns is a result.
LEMMA ReturnTyped ==
    ASSUME NEW ok \in BOOLEAN, NEW error \in Errors, Return(ok, error)
    PROVE  result' \in [ok : BOOLEAN, error : Errors]
  BY DEF Return

\* A Camera that was never opened satisfies the invariant.
LEMMA InitHistory == Init => HistoryInv
  <1> SUFFICES ASSUME Init PROVE HistoryInv
    OBVIOUS
  <1>1. /\ attemptOpen = FALSE /\ ticksLeft = 0 /\ cachedInfo = NoInfo
        /\ latestDeviceInfo = NoInfo /\ capabilities = NoCapabilities
        /\ frame = NoFrame /\ received = <<>>
        /\ openedAt = 0 /\ nextSequence = 0 /\ packetSource = FALSE /\ call = "idle"
    BY DEF Init
  <1>2. BootstrapTicks \in Nat /\ EventLimit \in Nat
    BY CameraAssumption
  <1>3. ticksLeft \in 0 .. BootstrapTicks /\ lastError \in Errors
        /\ result \in [ok : BOOLEAN, error : Errors]
    <2>1. lastError = "" /\ result = [ok |-> TRUE, error |-> ""]
      BY DEF Init
    <2>2. result \in [ok : BOOLEAN, error : Errors]
      BY <2>1, ErrorTexts, Zenon
    <2>3. ticksLeft \in 0 .. BootstrapTicks
      BY <1>1, <1>2
    <2> QED BY <2>1, <2>2, <2>3, ErrorTexts, Zenon
  <1>4. received \in Seq(Events) /\ Len(received) = 0
    BY <1>1, NoEventsYet
  <1>5. Data
    BY <1>1, <1>3, <1>4, StreamData DEF Data, NoFrame, Grids
  <1>6. FrameRecord
    BY <1>1 DEF FrameRecord, NoFrame
  <1>7. ~Delivered
    BY <1>1 DEF Delivered, NoFrame
  <1>8. Counts
    BY <1>1, <1>2, <1>4, <1>7 DEF Counts
  <1>9. Remembers
    BY <1>1 DEF Remembers, Opening
  <1> QED BY <1>5, <1>6, <1>8, <1>9, InitIInv DEF HistoryInv

\* A step that hears of no event, and leaves the caches and the session as they are.
Quiet ==
    /\ UNCHANGED <<cachedInfo, cachedCalibration, packetSource, latestDeviceInfo,
                   latestCalibration, nextSequence, received, openedAt>>
    /\ frame' = NoFrame \/ (frame' = frame /\ (call # "idle" \/ call' = call))
    /\ Opening' => Opening

\* Such a step leaves the counts and what is remembered as they are.
LEMMA QuietKeeps ==
    ASSUME HistoryInv, Quiet
    PROVE  Counts' /\ Remembers' /\ FrameRecord' /\ frame'.depth \in Grids /\ frame'.cloud \in Grids
  <1>1. /\ cachedInfo' = cachedInfo /\ cachedCalibration' = cachedCalibration
        /\ packetSource' = packetSource /\ latestDeviceInfo' = latestDeviceInfo
        /\ latestCalibration' = latestCalibration /\ nextSequence' = nextSequence
        /\ received' = received /\ openedAt' = openedAt
    BY DEF Quiet
  <1>2. Remembers'
    BY <1>1 DEF HistoryInv, Remembers, Quiet
  <1>3. CASE frame' = NoFrame
    <2>1. ~Delivered'
      BY <1>3 DEF Delivered, NoFrame
    <2>2. Counts'
      BY <1>1, <1>3, <2>1 DEF HistoryInv, Counts
    <2> QED BY <1>2, <1>3, <2>2 DEF FrameRecord, NoFrame, Grids
  <1>4. CASE frame' = frame /\ (call # "idle" \/ call' = call)
    <2>1. Delivered' <=> Delivered
      BY <1>4 DEF Delivered
    <2>2. Delivered => call' = "idle"
      BY <1>4 DEF HistoryInv, Counts
    <2>3. Counts'
      BY <1>1, <1>4, <2>1, <2>2 DEF HistoryInv, Counts
    <2> QED BY <1>2, <1>4, <2>3 DEF HistoryInv, FrameRecord, Data
  <1> QED BY <1>3, <1>4 DEF Quiet

\* The steps of Open that hear of no event.
LEMMA OpenQuietly ==
    ASSUME HistoryInv,
           StartAttempt \/ AttemptPollFails \/ AttemptTimesOut \/ BootstrapFails \/ SourceOpenFails
    PROVE  Counts' /\ Remembers' /\ FrameRecord' /\ Data'
  <1>1. BootstrapTicks \in Nat
    BY CameraAssumption
  <1>2. Data
    BY DEF HistoryInv
  <1>3. CASE StartAttempt
    <2>1. Quiet
      BY <1>3 DEF StartAttempt, Quiet, Opening, implVars, historyVars
    <2>2. /\ attemptOpen' \in BOOLEAN /\ lastError' \in Errors
          /\ ticksLeft' = BootstrapTicks \/ ticksLeft' = ticksLeft
          /\ UNCHANGED <<capabilities, result>>
      BY <1>2, <1>3 DEF StartAttempt, Data, Errors, implVars
    <2>3. ticksLeft' \in 0 .. BootstrapTicks
      BY <1>1, <1>2, <2>2 DEF Data
    <2> QED BY <1>2, <2>1, <2>2, <2>3, QuietKeeps DEF Data, Quiet
  <1>4. CASE AttemptPollFails \/ AttemptTimesOut
    <2>1. Quiet
      BY <1>4 DEF AttemptPollFails, AttemptTimesOut, EndAttempt, Quiet, Opening, implVars, historyVars
    <2>2. /\ attemptOpen' \in BOOLEAN /\ lastError' \in Errors
          /\ ticksLeft' = 0
          /\ UNCHANGED <<capabilities, result>>
      BY <1>4 DEF AttemptPollFails, AttemptTimesOut, EndAttempt, Errors, implVars
    <2>3. ticksLeft' \in 0 .. BootstrapTicks
      BY <1>1, <2>2
    <2> QED BY <1>2, <2>1, <2>2, <2>3, QuietKeeps DEF Data, Quiet
  <1>5. CASE BootstrapFails \/ SourceOpenFails
    <2>1. Quiet
      BY <1>5 DEF BootstrapFails, SourceOpenFails, Return, Quiet, Opening, openVars, implVars, historyVars
    <2>2. result' \in [ok : BOOLEAN, error : Errors]
      <3>1. CASE BootstrapFails
        <4> DEFINE error == IF lastError # "" THEN lastError ELSE "timed out"
        <4>1. error \in Errors
          BY <1>2, ErrorTexts, Zenon DEF Data
        <4>2. Return(FALSE, error)
          BY <3>1, Zenon DEF BootstrapFails
        <4> HIDE DEF error
        <4> QED BY <4>1, <4>2, ReturnTyped
      <3>2. CASE SourceOpenFails
        BY <3>2, ErrorTexts, ReturnTyped, Zenon DEF SourceOpenFails
      <3> QED BY <1>5, <3>1, <3>2
    <2>3. UNCHANGED <<attemptOpen, ticksLeft, lastError, capabilities>>
      BY <1>5 DEF BootstrapFails, SourceOpenFails, openVars, implVars
    <2> QED BY <1>2, <2>1, <2>2, <2>3, QuietKeeps DEF Data, Quiet
  <1> QED BY <1>3, <1>4, <1>5

\* The steady clock, and a Poll up to its source and back without a measurement.
LEMMA PollQuietly ==
    ASSUME HistoryInv, Tick \/ PollCalled \/ PollFails \/ PollFindsNothing
    PROVE  Counts' /\ Remembers' /\ FrameRecord' /\ Data'
  <1>1. BootstrapTicks \in Nat
    BY CameraAssumption
  <1>2. Data
    BY DEF HistoryInv
  <1>3. CASE Tick
    <2>1. Quiet
      BY <1>3 DEF Tick, Quiet, Opening, implVars, historyVars
    <2>2. /\ ticksLeft > 0 /\ ticksLeft' = ticksLeft - 1
          /\ UNCHANGED <<attemptOpen, lastError, capabilities, result>>
      BY <1>3 DEF Tick, implVars
    <2>3. ticksLeft' \in 0 .. BootstrapTicks
      BY <1>1, <1>2, <2>2 DEF Data
    <2> QED BY <1>2, <2>1, <2>2, <2>3, QuietKeeps DEF Data, Quiet
  <1>4. CASE PollCalled
    <2>1. Quiet
      BY <1>4 DEF PollCalled, Return, Quiet, Opening, openVars, implVars, historyVars
    <2>2. result' \in [ok : BOOLEAN, error : Errors]
      <3>1. result' = result \/ Return(FALSE, "not open")
        BY <1>4 DEF PollCalled
      <3> QED BY <1>2, <3>1, ErrorTexts, ReturnTyped, Zenon DEF Data
    <2>3. UNCHANGED <<attemptOpen, ticksLeft, lastError, capabilities>>
      BY <1>4 DEF PollCalled, openVars, implVars
    <2> QED BY <1>2, <2>1, <2>2, <2>3, QuietKeeps DEF Data, Quiet
  <1>5. CASE PollFails \/ PollFindsNothing
    <2>1. Quiet
      BY <1>5 DEF PollFails, PollFindsNothing, Return, Quiet, Opening, openVars, implVars, historyVars
    <2>2. result' \in [ok : BOOLEAN, error : Errors]
      <3>1. Return(FALSE, "poll failed") \/ Return(TRUE, "")
        BY <1>5, Zenon DEF PollFails, PollFindsNothing
      <3> QED BY <3>1, ErrorTexts, ReturnTyped, Zenon
    <2>3. UNCHANGED <<attemptOpen, ticksLeft, lastError, capabilities>>
      BY <1>5 DEF PollFails, PollFindsNothing, openVars, implVars
    <2> QED BY <1>2, <2>1, <2>2, <2>3, QuietKeeps DEF Data, Quiet
  <1> QED BY <1>3, <1>4, <1>5

\* Open begins a new history.
LEMMA OpenBegins ==
    ASSUME HistoryInv, OpenCalled
    PROVE  Counts' /\ Remembers' /\ FrameRecord' /\ Data'
  <1>1. EventLimit \in Nat
    BY CameraAssumption
  <1>2. /\ packetSource' = FALSE /\ latestDeviceInfo' = NoInfo
        /\ capabilities' = NoCapabilities /\ nextSequence' = 0
        /\ cachedInfo' = NoInfo /\ cachedCalibration' = NoCalibration
        /\ frame' = NoFrame /\ received' = <<>> /\ openedAt' = 0
        /\ UNCHANGED <<attemptOpen, ticksLeft, result>>
    BY DEF OpenCalled, CloseSession
  <1>3. lastError' \in Errors
    BY ErrorTexts, Zenon DEF OpenCalled
  <1>4. Data'
    BY <1>2, <1>3, StreamData, NoEventsYet DEF HistoryInv, Data, NoFrame, Grids
  <1>5. ~Delivered'
    BY <1>2, NoEventsYet DEF Delivered
  <1>6. Len(received') = 0
    BY <1>2, NoEventsYet
  <1>7. Counts'
    BY <1>1, <1>2, <1>5, <1>6 DEF Counts
  <1>8. Remembers'
    BY <1>2, NoEventsYet DEF Remembers
  <1>9. FrameRecord'
    BY <1>2 DEF FrameRecord, NoFrame
  <1> QED BY <1>4, <1>7, <1>8, <1>9

\* Close forgets the session and its frame, not the history.
LEMMA CloseForgets ==
    ASSUME HistoryInv, Close
    PROVE  Counts' /\ Remembers' /\ FrameRecord' /\ Data'
  <1>1. /\ call' = call /\ call = "idle"
        /\ packetSource' = FALSE /\ latestDeviceInfo' = NoInfo
        /\ capabilities' = NoCapabilities /\ nextSequence' = 0
        /\ frame' = NoFrame
        /\ UNCHANGED <<attemptOpen, ticksLeft, lastError, cachedInfo, received, openedAt>>
    BY DEF Close, CloseSession, openVars, historyVars
  <1>2. result' \in [ok : BOOLEAN, error : Errors]
    <2>1. result' = [ok |-> TRUE, error |-> ""]
      BY Zenon DEF Close
    <2> QED BY <2>1, ErrorTexts, Zenon
  <1>3. Data'
    BY <1>1, <1>2, StreamData DEF HistoryInv, Data, NoFrame, Grids
  <1>4. ~Delivered'
    BY <1>1, NoEventsYet DEF Delivered
  <1>5. Len(received) \in Nat
    BY DEF HistoryInv, Data
  <1>6. Counts'
    BY <1>1, <1>4, <1>5 DEF HistoryInv, Counts
  <1>7. Remembers'
    BY <1>1 DEF Remembers, Opening
  <1>8. FrameRecord'
    BY <1>1 DEF FrameRecord, NoFrame
  <1> QED BY <1>3, <1>6, <1>7, <1>8

\* The session starts to count, with what Open remembers.
LEMMA CommitTakesOver ==
    ASSUME HistoryInv, Commit
    PROVE  Counts' /\ Remembers' /\ FrameRecord' /\ Data'
  <1>1. /\ call = "opening" /\ call' = "idle"
        /\ latestDeviceInfo' = cachedInfo /\ latestCalibration' = cachedCalibration
        /\ nextSequence' = 0 /\ openedAt' = Len(received)
        /\ UNCHANGED <<attemptOpen, ticksLeft, lastError, cachedInfo, frame, received>>
    BY DEF Commit, Return, openVars
  <1>2. Data /\ FrameRecord /\ Counts /\ Remembers
    BY DEF HistoryInv
  <1>3. ~Delivered /\ frame = NoFrame
    BY <1>1, <1>2 DEF Counts
  <1>4. result' \in [ok : BOOLEAN, error : Errors]
    <2>1. Return(TRUE, "")
      BY DEF Commit
    <2> QED BY <2>1, ErrorTexts, ReturnTyped, Zenon
  <1>5. DOMAIN capabilities' = DOMAIN NoCapabilities
    BY DEF Commit, BuildCapabilities, NoCapabilities
  <1>6. Data'
    BY <1>1, <1>2, <1>4, <1>5 DEF Data
  <1>7. ~Delivered' /\ frame' = NoFrame
    BY <1>1, <1>3 DEF Delivered
  <1>8. Len(received) \in Nat /\ Len(received) <= EventLimit
    BY <1>2 DEF Data, Counts
  <1>9. Cardinality(MeasurementsAfter(received', openedAt')) = 0
    BY <1>1, <1>2, NothingCounted DEF Data
  <1>10. Counts'
    BY <1>1, <1>7, <1>8, <1>9 DEF Counts
  <1>11. Opening
    BY <1>1 DEF Opening
  <1>12. Remembers'
    BY <1>1, <1>2, <1>11 DEF Remembers, Opening
  <1> QED BY <1>1, <1>2, <1>6, <1>10, <1>12 DEF FrameRecord

\* An event that a stream delivers leaves room for it in the history.
LEMMA RecordedEvent ==
    ASSUME HistoryInv, NEW config \in Configs, NEW event \in Deliverable(config), Record(event)
    PROVE  /\ event \in DeviceEvents /\ event \in Events /\ event.info \in Infos
           /\ event = NoEvent => received' = received
           /\ event # NoEvent => /\ received' = Append(received, event)
                                 /\ Len(received) < EventLimit
  <1>1. event \in DeviceEvents
    BY DeliverableAreEvents
  <1>2. event = NoEvent \/ Len(received) < EventLimit
    BY DEF Deliverable
  <1> QED BY <1>1, <1>2 DEF Record, DeviceEvents, Events

\* Two infos merged are one.
LEMMA MergedInfo ==
    ASSUME NEW update \in Infos, NEW cached \in Infos
    PROVE  MergeInfoIfPresent(update, cached) \in Infos
  BY DEF MergeInfoIfPresent, Infos

\* A cache that remembers what was told still does when it merges the next event.
LEMMA MergeRemembers ==
    ASSUME HistoryInv, NEW config \in Configs, NEW event \in Deliverable(config), Record(event),
           NEW calibration, NEW info \in Infos, Tells(received, calibration, info)
    PROVE  LET public == NormalizeEventOrientation(event)
               merged == MergeInfoIfPresent(public.info, info)
           IN /\ merged \in Infos
              /\ Tells(received', CalibrationAfter(public, calibration), merged)
  <1> DEFINE public == NormalizeEventOrientation(event)
  <1>1. /\ event \in DeviceEvents /\ event.info \in Infos
        /\ event = NoEvent => received' = received
        /\ event # NoEvent => received' = Append(received, event)
    BY RecordedEvent
  <1>2. public.info = event.info
    BY <1>1, NormalizedEvent
  <1>3. received \in Seq(Events)
    BY DEF HistoryInv, Data
  <1> HIDE DEF public
  <1>4. MergeInfoIfPresent(public.info, info) \in Infos
    BY <1>1, <1>2, MergedInfo
  <1>5. Tells(received', CalibrationAfter(public, calibration),
              MergeInfoIfPresent(public.info, info))
    <2>1. CASE event = NoEvent
      <3>1. /\ CalibrationAfter(public, calibration) = calibration
            /\ MergeInfoIfPresent(public.info, info) = info
        BY <1>2, <2>1, NothingLearnt DEF public
      <3> QED BY <1>1, <2>1, <3>1
    <2>2. CASE event # NoEvent
      <3>1. Tells(Append(received, event), CalibrationAfter(public, calibration),
                  MergeInfoIfPresent(event.info, info))
        BY <1>1, <1>3, TellsMore DEF public
      <3> QED BY <1>1, <1>2, <2>2, <3>1
    <2> QED BY <2>1, <2>2
  <1> QED BY <1>4, <1>5 DEF public

\* A poll of the bootstrap remembers what it hears.
LEMMA AttemptRemembers ==
    ASSUME HistoryInv, AttemptPolls
    PROVE  Counts' /\ Remembers' /\ FrameRecord' /\ Data'
  <1> DEFINE config == [request EXCEPT !.profile = Head(candidates)]
  <1>1. call = "bootstrapping"
    BY DEF AttemptPolls
  <1>2. config \in Configs
    BY <1>1, AttemptConfig DEF HistoryInv, IInv
  <1> HIDE DEF config
  <1>3. PICK event \in Deliverable(config) :
           /\ Record(event)
           /\ cachedInfo' = MergeInfoIfPresent(NormalizeEventOrientation(event).info, cachedInfo)
           /\ cachedCalibration' =
                  CalibrationAfter(NormalizeEventOrientation(event), cachedCalibration)
           /\ \/ attemptOpen' = FALSE /\ ticksLeft' = 0 /\ call' = "opening"
              \/ UNCHANGED <<attemptOpen, ticksLeft, call>>
    BY DEF AttemptPolls, config
  <1>4. UNCHANGED <<lastError, packetSource, latestDeviceInfo, capabilities, nextSequence,
                    frame, result, openedAt>>
    BY DEF AttemptPolls, implVars
  <1>5. Data /\ FrameRecord /\ Counts /\ Remembers /\ Control
    BY DEF HistoryInv, IInv
  <1>6. Opening /\ ~packetSource /\ call # "idle"
    BY <1>1, <1>5 DEF Opening, Control
  <1>7. Tells(received, cachedCalibration, cachedInfo) /\ cachedInfo \in Infos
    BY <1>5, <1>6 DEF Remembers, Data
  <1>8. cachedInfo' \in Infos /\ Tells(received', cachedCalibration', cachedInfo')
    BY <1>2, <1>3, <1>7, MergeRemembers
  <1>9. /\ event \in Events
        /\ event = NoEvent => received' = received
        /\ event # NoEvent => received' = Append(received, event) /\ Len(received) < EventLimit
    BY <1>2, <1>3, RecordedEvent
  <1>10. /\ received' \in Seq(Events) /\ Len(received') <= EventLimit
         /\ Len(received) \in Nat /\ Len(received') \in Nat /\ Len(received') >= Len(received)
    <2>1. received \in Seq(Events) /\ Len(received) <= EventLimit /\ Len(received) \in Nat
      BY <1>5 DEF Data, Counts
    <2>2. EventLimit \in Nat
      BY CameraAssumption
    <2>3. CASE event = NoEvent
      BY <1>9, <2>1, <2>3
    <2>4. CASE event # NoEvent
      <3>1. received' \in Seq(Events) /\ Len(received') = Len(received) + 1
        BY <1>9, <2>1, <2>4, OneMoreEvent
      <3>2. Len(received) + 1 <= EventLimit
        BY <1>9, <2>1, <2>2, <2>4
      <3> QED BY <2>1, <3>1, <3>2
    <2> QED BY <2>3, <2>4
  <1>11. ~Delivered /\ frame = NoFrame
    BY <1>5, <1>6 DEF Counts
  <1>12. ticksLeft' \in 0 .. BootstrapTicks /\ attemptOpen' \in BOOLEAN
    <2>1. 0 \in 0 .. BootstrapTicks
      BY CameraAssumption
    <2> QED BY <1>3, <1>5, <2>1 DEF Data
  <1>13. Data'
    BY <1>4, <1>5, <1>8, <1>10, <1>12 DEF Data
  <1>14. ~Delivered' /\ frame' = NoFrame
    BY <1>4, <1>11 DEF Delivered
  <1>15. Counts'
    <2>1. openedAt' = openedAt /\ nextSequence' = nextSequence /\ ~packetSource'
      BY <1>4, <1>6
    <2>2. /\ openedAt \in Nat /\ openedAt <= Len(received)
          /\ nextSequence \in Nat /\ nextSequence <= Len(received)
      BY <1>5 DEF Counts
    <2>3. openedAt <= Len(received') /\ nextSequence <= Len(received')
      BY <1>10, <2>2
    <2> QED BY <1>10, <1>14, <2>1, <2>2, <2>3 DEF Counts
  <1>16. Remembers'
    BY <1>4, <1>6, <1>8 DEF Remembers
  <1> QED BY <1>4, <1>5, <1>13, <1>15, <1>16 DEF FrameRecord

\* An event that is merged during a Poll is remembered, and counted if it is a
\* measurement.
LEMMA PollRemembers ==
    ASSUME HistoryInv, call = "polling", NEW event \in Deliverable(request),
           event.type # "None",
           MergeIntoCache(NormalizeEventOrientation(event)), Record(event),
           packetSource' = packetSource, openedAt' = openedAt
    PROVE  /\ latestDeviceInfo' \in Infos
           /\ received' \in Seq(Events)
           /\ Len(received) \in Nat /\ Len(received') = Len(received) + 1
           /\ Len(received') <= EventLimit
           /\ packetSource
           /\ Tells(received', latestCalibration', latestDeviceInfo')
           /\ Cardinality(MeasurementsAfter(received', openedAt'))
                = nextSequence + (IF event.type = "Measurement" THEN 1 ELSE 0)
  <1>1. Data /\ Counts /\ Remembers /\ request \in Configs /\ packetSource
    BY DEF HistoryInv, IInv, Control
  <1>2. event # NoEvent
    BY DEF NoEvent
  <1>3. event \in Events /\ received' = Append(received, event) /\ Len(received) < EventLimit
    BY <1>1, <1>2, RecordedEvent
  <1>4. Tells(received, latestCalibration, latestDeviceInfo) /\ latestDeviceInfo \in Infos
    BY <1>1 DEF Remembers, Data
  <1>5. latestDeviceInfo' \in Infos /\ Tells(received', latestCalibration', latestDeviceInfo')
    BY <1>1, <1>4, MergeRemembers DEF MergeIntoCache
  <1>6. received \in Seq(Events) /\ Len(received) \in Nat
    BY <1>1 DEF Data
  <1>7. received' \in Seq(Events) /\ Len(received') = Len(received) + 1
    BY <1>3, <1>6, OneMoreEvent
  <1>8. Len(received) + 1 <= EventLimit
    <2>1. EventLimit \in Nat
      BY CameraAssumption
    <2> QED BY <1>3, <1>6, <2>1
  <1>9. /\ openedAt \in Nat /\ openedAt <= Len(received)
        /\ nextSequence = Cardinality(MeasurementsAfter(received, openedAt))
    BY <1>1 DEF Counts
  <1>10. Cardinality(MeasurementsAfter(Append(received, event), openedAt))
           = nextSequence + (IF event.type = "Measurement" THEN 1 ELSE 0)
    BY <1>3, <1>6, <1>9, OneMoreCounted
  <1> QED BY <1>1, <1>3, <1>5, <1>6, <1>7, <1>8, <1>10

\* An info update is remembered and not counted.
LEMMA AbsorbRemembers ==
    ASSUME HistoryInv, AbsorbInfo
    PROVE  Counts' /\ Remembers' /\ FrameRecord' /\ Data'
  <1>1. /\ call = "polling"
        /\ UNCHANGED <<call, attemptOpen, ticksLeft, cachedInfo, lastError, packetSource,
                       capabilities, nextSequence, frame, result, openedAt>>
    BY DEF AbsorbInfo, openVars
  <1>2. PICK event \in Deliverable(request) :
           /\ event.type = "InfoUpdate"
           /\ MergeIntoCache(NormalizeEventOrientation(event))
           /\ Record(event)
    BY DEF AbsorbInfo
  <1>3. Data /\ FrameRecord /\ Counts
    BY DEF HistoryInv
  <1>4. event.type # "None" /\ event.type # "Measurement"
    BY <1>2
  <1>5. /\ latestDeviceInfo' \in Infos /\ received' \in Seq(Events)
        /\ Len(received) \in Nat /\ Len(received') = Len(received) + 1
        /\ Len(received') <= EventLimit
        /\ packetSource
        /\ Tells(received', latestCalibration', latestDeviceInfo')
        /\ Cardinality(MeasurementsAfter(received', openedAt'))
             = nextSequence + (IF event.type = "Measurement" THEN 1 ELSE 0)
    BY <1>1, <1>2, <1>4, PollRemembers
  <1>6. ~Delivered /\ frame = NoFrame
    BY <1>1, <1>3 DEF Counts
  <1>7. Data'
    BY <1>1, <1>3, <1>5 DEF Data
  <1>8. ~Delivered' /\ frame' = NoFrame
    BY <1>1, <1>6 DEF Delivered
  <1>9. Counts'
    <2>1. /\ openedAt \in Nat /\ openedAt <= Len(received)
          /\ nextSequence \in Nat /\ nextSequence <= Len(received)
      BY <1>3 DEF Counts
    <2>2. openedAt <= Len(received') /\ nextSequence <= Len(received')
      BY <1>5, <2>1
    <2>3. nextSequence + 0 = nextSequence
      BY <2>1
    <2>4. Cardinality(MeasurementsAfter(received', openedAt')) = nextSequence
      BY <1>4, <1>5, <2>3
    <2>5. openedAt' = openedAt /\ nextSequence' = nextSequence
      BY <1>1
    <2> QED BY <1>5, <1>8, <2>1, <2>2, <2>4, <2>5 DEF Counts
  <1>10. Remembers'
    BY <1>1, <1>5 DEF Remembers, Opening
  <1> QED BY <1>1, <1>3, <1>7, <1>9, <1>10 DEF FrameRecord

\* A frame of a measurement is made of what the session then holds.
LEMMA FrameMade ==
    ASSUME NEW event \in DeviceEvents
    PROVE  LET made == FrameOf(NormalizeEventOrientation(event))
           IN /\ made.sequence = nextSequence' /\ made.calibration = latestCalibration'
              /\ made.info = latestDeviceInfo'
              /\ made.depth \in Grids /\ made.cloud \in Grids
              /\ made = [sequence |-> made.sequence, calibration |-> made.calibration,
                         info |-> made.info, depth |-> made.depth, cloud |-> made.cloud]
  <1> DEFINE public == NormalizeEventOrientation(event)
             depth == IF public.depth = "none" THEN public.cloud ELSE public.depth
             cloud == IF public.cloud = "none"
                      THEN BuildPointCloudFromDepth(depth, latestCalibration')
                      ELSE public.cloud
  <1>1. public.depth \in Grids /\ public.cloud \in Grids
    BY DEF NormalizeEventOrientation, DeviceEvents, Events, Grids, Orientations, Mirrored
  <1> HIDE DEF public
  <1>2. depth \in Grids
    BY <1>1
  <1> HIDE DEF depth
  <1>3. cloud \in Grids
    BY <1>1, <1>2 DEF BuildPointCloudFromDepth, Grids
  <1> HIDE DEF cloud
  <1>4. FrameOf(public) = [sequence |-> nextSequence', calibration |-> latestCalibration',
                           info |-> latestDeviceInfo', depth |-> depth, cloud |-> cloud]
    BY DEF FrameOf, depth, cloud
  <1> QED BY <1>2, <1>3, <1>4 DEF public

\* A measurement is remembered, counted, and shown with what the session then holds.
LEMMA DeliverRemembers ==
    ASSUME HistoryInv, DeliverFrame
    PROVE  Counts' /\ Remembers' /\ FrameRecord' /\ Data'
  <1>1. /\ call = "polling" /\ call' = "idle" /\ nextSequence' = nextSequence + 1
        /\ UNCHANGED <<attemptOpen, ticksLeft, cachedInfo, lastError, packetSource,
                       capabilities, openedAt>>
    BY DEF DeliverFrame, Return, openVars
  <1>2. PICK event \in Deliverable(request) :
           /\ event.type = "Measurement"
           /\ MergeIntoCache(NormalizeEventOrientation(event))
           /\ Record(event)
           /\ frame' = FrameOf(NormalizeEventOrientation(event))
    BY DEF DeliverFrame
  <1>3. Data /\ Counts /\ request \in Configs
    BY DEF HistoryInv, IInv, Control
  <1>4. event.type # "None"
    BY <1>2
  <1>5. /\ latestDeviceInfo' \in Infos /\ received' \in Seq(Events)
        /\ Len(received) \in Nat /\ Len(received') = Len(received) + 1
        /\ Len(received') <= EventLimit
        /\ packetSource
        /\ Tells(received', latestCalibration', latestDeviceInfo')
        /\ Cardinality(MeasurementsAfter(received', openedAt'))
             = nextSequence + (IF event.type = "Measurement" THEN 1 ELSE 0)
    BY <1>1, <1>2, <1>4, PollRemembers
  <1>6. event \in DeviceEvents
    BY <1>3, DeliverableAreEvents
  <1>7. /\ frame'.sequence = nextSequence' /\ frame'.calibration = latestCalibration'
        /\ frame'.info = latestDeviceInfo'
        /\ frame'.depth \in Grids /\ frame'.cloud \in Grids
        /\ FrameRecord'
    BY <1>2, <1>6, FrameMade DEF FrameRecord
  <1>8. result' \in [ok : BOOLEAN, error : Errors]
    <2>1. Return(TRUE, "")
      BY DEF DeliverFrame
    <2> QED BY <2>1, ErrorTexts, ReturnTyped, Zenon
  <1>9. Data'
    BY <1>1, <1>3, <1>5, <1>7, <1>8 DEF Data
  <1>10. Counts'
    <2>1. /\ openedAt \in Nat /\ openedAt <= Len(received)
          /\ nextSequence \in Nat /\ nextSequence <= Len(received)
      BY <1>3 DEF Counts
    <2>2. /\ openedAt <= Len(received') /\ nextSequence + 1 <= Len(received')
          /\ nextSequence + 1 \in Nat /\ nextSequence + 1 # 0
      BY <1>5, <2>1
    <2>3. Cardinality(MeasurementsAfter(received', openedAt')) = nextSequence'
      BY <1>1, <1>2, <1>5
    <2>4. Delivered'
      BY <1>1, <1>7, <2>2 DEF Delivered
    <2>5. openedAt' = openedAt /\ nextSequence' = nextSequence + 1 /\ packetSource'
      BY <1>1, <1>5
    <2> QED BY <1>1, <1>5, <1>7, <2>1, <2>2, <2>3, <2>4, <2>5, Zenon DEF Counts
  <1>11. Remembers'
    BY <1>1, <1>5 DEF Remembers, Opening
  <1> QED BY <1>7, <1>9, <1>10, <1>11

\* Every step keeps the invariant.
LEMMA HistoryStep == ASSUME HistoryInv, [Next]_cameraVars PROVE HistoryInv'
  <1>1. IInv'
    BY NextStep DEF HistoryInv
  <1>2. CASE UNCHANGED cameraVars
    <2>1. Quiet
      BY <1>2 DEF Quiet, Opening, cameraVars, openVars, implVars, historyVars
    <2>2. UNCHANGED <<attemptOpen, ticksLeft, lastError, capabilities, frame, result>>
      BY <1>2 DEF cameraVars, openVars, implVars
    <2>3. Data'
      BY <2>1, <2>2 DEF HistoryInv, Data, Quiet
    <2> QED BY <1>1, <2>1, <2>3, QuietKeeps DEF HistoryInv
  <1>3. CASE OpenStep
    BY <1>1, <1>3, OpenQuietly, AttemptRemembers, CommitTakesOver DEF OpenStep, HistoryInv
  <1>4. CASE OpenCalled \/ Tick \/ Close \/ PollCalled
    BY <1>1, <1>4, OpenBegins, PollQuietly, CloseForgets DEF HistoryInv
  <1>5. CASE PollStep
    BY <1>1, <1>5, PollQuietly, AbsorbRemembers, DeliverRemembers DEF PollStep, HistoryInv
  <1> QED BY <1>2, <1>3, <1>4, <1>5 DEF Next

\* The invariant of the history holds in every reachable state.
THEOREM HistoryInvAlways == Spec => []HistoryInv
  <1>1. HistoryInv /\ [Next]_cameraVars => HistoryInv'
    BY HistoryStep
  <1> QED BY <1>1, InitHistory, PTL DEF Spec

\* The state of the Camera and of the call in progress has its types; among them,
\* that the number of a frame and of the events stays within its bound.
THEOREM CameraTyped == Spec => []TypeOK
  <1> QED BY TypedByInvariant, HistoryInvAlways, PTL

\* A frame carries the newest calibration and the newest info fields that the device
\* told since Open, also those that only the bootstrap heard.
THEOREM FramesTellLatest == Spec => []FrameTellsLatest
  <1>1. HistoryInv => FrameTellsLatest
    BY DEF HistoryInv, Counts, Remembers, FrameTellsLatest
  <1> QED BY <1>1, HistoryInvAlways, PTL

\* The number of a frame is the number of measurements of its session.
THEOREM SequenceCounts == Spec => []SequenceCountsMeasurements
  <1>1. HistoryInv => SequenceCountsMeasurements
    BY DEF HistoryInv, Counts, MeasurementsAfter, SequenceCountsMeasurements
  <1> QED BY <1>1, HistoryInvAlways, PTL
=============================================================================
