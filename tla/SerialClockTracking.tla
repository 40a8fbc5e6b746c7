------------------------ MODULE SerialClockTracking ------------------------
(***************************************************************************)
(* The serial clock behind a device that behaves: its time only advances,  *)
(* a frame repeats or precedes the newest one by little, and frames are    *)
(* not further apart than the heuristics of the normalizers can bridge.    *)
(* The host clock is unconstrained.                                        *)
(*                                                                         *)
(* The device either counts modulo 2^32 or, with a PPS signal, restarts at *)
(* every second.  It may lose or acquire the signal while it runs.         *)
(*                                                                         *)
(* Two things it does make the time line leap, because they look like the  *)
(* passing of time: a frame that is late across a PPS edge, and a reboot   *)
(* of a counter in its upper half.  leapMs is the damage, to the           *)
(* millisecond.                                                            *)
(***************************************************************************)
EXTENDS SerialClock

CONSTANTS DeviceTimeLimit,  \* bound of the model: device time that passes
          RepeatLimit,      \* bound of the model: repeated or reordered frames
          LeapLimitMs       \* bound of the model: no leap beyond this one

ASSUME TrackingAssumption ==
    /\ DeviceTimeLimit \in Nat
    /\ RepeatLimit \in Nat /\ LeapLimitMs \in Nat
    /\ PpsPeriodMs - PpsUpperMs <= PpsLowerMs + 1
    /\ PpsWrapThresholdMs < 2 * PpsUpperMs - PpsPeriodMs
    /\ CounterFloorMs - PpsPeriodMs <= MaxRawMs + 1 - WrapFloorMs
    /\ CounterFloorMs * UsPerMs <= LargeRelativeJumpUs

VARIABLES
    deviceMode,   \* "pps" or "counter"
    deviceRawMs,  \* raw time of the newest frame the device has sent
    newestMs,     \* device time of that frame
    originMs,     \* device time of the frame the time line started with
    originUs,     \* host time at which that frame was read
    floorUs,      \* last output before it, 0 if it was the first one
    repeats,      \* frames since then that brought no newer device time
    leapMs,       \* how far the time line has leapt ahead of the device since then
    overdueMs     \* how late the latest frame was across a PPS edge, 0 if it was not

deviceVars == <<deviceMode, deviceRawMs, newestMs, originMs, originUs, floorUs, repeats,
                leapMs, overdueMs>>
trackingVars == <<relative, initialized, previousRawMs, lastOutputUs, deviceMode,
                  deviceRawMs, newestMs, originMs, originUs, floorUs, repeats,
                  leapMs, overdueMs>>

DeviceModes == {"pps", "counter"}

PeriodMs == IF deviceMode = "pps" THEN PpsPeriodMs ELSE MaxRawMs + 1

\* The longest distance of two frames that the code is able to bridge: with a
\* PPS signal both ends must lie in the two boundary zones of the roll-over,
\* without one a wrapped counter must not look like a device that restarted
\* and an increment not like the loss of the signal.
LongestGapMs ==
    IF deviceMode = "pps" THEN PpsPeriodMs - PpsUpperMs ELSE CounterFloorMs - PpsPeriodMs

TrackingInit ==
    /\ Init
    /\ \E mode \in DeviceModes, rawMs \in SampleTimes :
           /\ mode = "pps" => rawMs < PpsPeriodMs
           /\ deviceMode = mode
           /\ deviceRawMs = rawMs
    /\ newestMs = 0 /\ originMs = 0 /\ originUs = 0 /\ floorUs = 0 /\ repeats = 0
    /\ leapMs = 0 /\ overdueMs = 0

\* The first frame of the session.
FirstFrame(nowUs) ==
    /\ ~initialized
    /\ Sample(deviceRawMs, nowUs)
    /\ originUs' = nowUs
    /\ UNCHANGED <<deviceMode, deviceRawMs, newestMs, originMs, floorUs, repeats,
                   leapMs, overdueMs>>

\* The device goes on by gapMs, and its frame is read.
DeviceGoesOn(gapMs, nowUs) ==
    /\ initialized
    /\ gapMs <= LongestGapMs
    /\ newestMs + gapMs <= DeviceTimeLimit
    /\ newestMs' = newestMs + gapMs
    /\ deviceRawMs' = IF deviceRawMs + gapMs < PeriodMs
                      THEN deviceRawMs + gapMs
                      ELSE deviceRawMs + gapMs - PeriodMs
    /\ Sample(deviceRawMs', nowUs)
    /\ overdueMs' = 0
    /\ UNCHANGED deviceMode

NextFrame(gapMs, nowUs) ==
    /\ DeviceGoesOn(gapMs, nowUs)
    /\ overdueMs # 0 => deviceRawMs' <= PpsLowerMs
    /\ UNCHANGED <<originMs, originUs, floorUs, repeats, leapMs>>

\* After a frame that was late across an edge the device is past the lower
\* boundary zone already, so the time line starts again.
RestartAfterOverdue(gapMs, nowUs) ==
    /\ DeviceGoesOn(gapMs, nowUs)
    /\ overdueMs # 0
    /\ deviceRawMs' > PpsLowerMs
    /\ originMs' = newestMs'
    /\ originUs' = ValueAfter(relative.lastOutputUs, nowUs)
    /\ floorUs' = lastOutputUs
    /\ repeats' = 0 /\ leapMs' = 0

\* The newest frame again, or one from before it that was overtaken.
LateFrame(behindMs, nowUs) ==
    /\ initialized
    /\ overdueMs = 0
    /\ repeats < RepeatLimit
    /\ behindMs <= PpsWrapThresholdMs
    /\ behindMs <= deviceRawMs
    /\ Sample(deviceRawMs - behindMs, nowUs)
    /\ repeats' = repeats + 1
    /\ UNCHANGED <<deviceMode, deviceRawMs, newestMs, originMs, originUs, floorUs,
                   leapMs, overdueMs>>

\* A frame from before the latest PPS edge was overtaken by one from after it.
OverdueFrame(behindMs, nowUs) ==
    LET lateMs == deviceRawMs + PpsPeriodMs - behindMs
    IN /\ initialized
       /\ deviceMode = "pps"
       /\ overdueMs = 0
       /\ repeats < RepeatLimit
       /\ leapMs + PpsPeriodMs <= LeapLimitMs
       /\ behindMs > deviceRawMs /\ behindMs <= LongestGapMs
       /\ Sample(lateMs, nowUs)
       /\ overdueMs' = behindMs
       /\ leapMs' = leapMs + PpsPeriodMs
       /\ repeats' = repeats + 1
       /\ UNCHANGED <<deviceMode, deviceRawMs, newestMs, originMs, originUs, floorUs>>

\* A device whose counter was in its upper half boots, and its first frame is
\* later than a PPS phase could be.
Reboot(rawMs, nowUs) ==
    LET wrapMs == MaxRawMs + 1 - (deviceRawMs - rawMs)
    IN /\ initialized
       /\ deviceMode = "counter"
       /\ rawMs > PpsPeriodMs
       /\ deviceRawMs - rawMs > MaxRawMs \div 2
       /\ repeats < RepeatLimit
       /\ leapMs + wrapMs <= LeapLimitMs
       /\ Sample(rawMs, nowUs)
       /\ deviceRawMs' = rawMs
       /\ leapMs' = leapMs + wrapMs
       /\ repeats' = repeats + 1
       /\ UNCHANGED <<deviceMode, newestMs, originMs, originUs, floorUs, overdueMs>>

\* The signal is lost or acquired, and the raw times tell.  The new time line
\* starts at the host time of this frame.
SwitchMode(rawMs, nowUs) ==
    /\ initialized
    /\ overdueMs = 0
    /\ deviceMode = "pps"     => rawMs > CounterFloorMs
    /\ deviceMode = "counter" => /\ rawMs < PpsPeriodMs
                                 /\ deviceRawMs > PpsPeriodMs
                                 /\ deviceRawMs < WrapFloorMs
                                 /\ deviceRawMs - rawMs > PpsWrapThresholdMs
    /\ Sample(rawMs, nowUs)
    /\ deviceMode' = IF deviceMode = "pps" THEN "counter" ELSE "pps"
    /\ deviceRawMs' = rawMs
    /\ originMs' = newestMs
    /\ originUs' = nowUs
    /\ floorUs' = lastOutputUs
    /\ repeats' = 0 /\ leapMs' = 0
    /\ UNCHANGED <<newestMs, overdueMs>>

TrackingNext ==
    \E nowUs \in HostTimes :
        \/ FirstFrame(nowUs)
        \/ \E gapMs \in 1 .. LongestGapMs :
              NextFrame(gapMs, nowUs) \/ RestartAfterOverdue(gapMs, nowUs)
        \/ \E behindMs \in 0 .. PpsWrapThresholdMs : LateFrame(behindMs, nowUs)
        \/ \E behindMs \in 1 .. LongestGapMs : OverdueFrame(behindMs, nowUs)
        \/ \E rawMs \in SampleTimes : SwitchMode(rawMs, nowUs) \/ Reboot(rawMs, nowUs)

TrackingSpec == TrackingInit /\ [][TrackingNext]_trackingVars

(***************************************************************************)
(* Properties                                                              *)
(***************************************************************************)

\* The device time since the origin, and the leaps.
TrackedMs == newestMs - originMs + leapMs - overdueMs

\* README.md:222: timestamps "are anchored to the host receive time of the
\* first valid frame and advanced by device millisecond deltas".  No roll-over
\* loses or adds a millisecond, and no step of the host clock reaches the time
\* line, however long the session.  A frame that is late across a PPS edge
\* costs one second, and a reboot what was left of the counter; nothing else
\* of the device's doing makes the time line leap, and no leap leaves it with a
\* predecessor that the next frame is measured from wrongly.
ExactTracking ==
    initialized =>
        /\ relative.logicalMs = TrackedMs
        /\ relative.hostAnchorUs = originUs
        /\ relative.previousRawMs =
               IF overdueMs = 0 THEN deviceRawMs ELSE deviceRawMs + PpsPeriodMs - overdueMs

\* What keeps outputs apart costs at most a microsecond a frame: the output is
\* at the tracked time, or ahead of it by the repeated frames and by what the
\* previous time line had already promised.
OutputNearTrackedTime ==
    initialized =>
        LET trackedUs == originUs + TrackedMs * UsPerMs
            promisedUs == floorUs + (newestMs - originMs) + 1
        IN /\ trackedUs <= lastOutputUs
           /\ \/ lastOutputUs <= trackedUs + repeats
              \/ lastOutputUs <= promisedUs + repeats
=============================================================================
