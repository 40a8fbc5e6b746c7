------------------------- MODULE SerialClockProofs -------------------------
(***************************************************************************)
(* Proofs about SerialClock and SerialClockTracking for every value of     *)
(* their constants: the invariants of the two layers, the strict increase  *)
(* of the outputs, and that the time line follows the device exactly.      *)
(***************************************************************************)
EXTENDS SerialClockTracking, MillisecondsProofs

USE DEF RawMs

(***************************************************************************)
(* The two layers                                                          *)
(***************************************************************************)

\* The inductive invariant: the type, the agreement of the layers, and an
\* output once there is one.  The last part is needed because the clamps take
\* an output of 0 for "none yet".
IInv ==
    /\ TypeOK
    /\ LayersAgree
    /\ initialized => Settled(relative)

\* The state after construction and after a Reset satisfies the invariant.
LEMMA InitIInv == Init => IInv
  <1> SUFFICES ASSUME Init PROVE IInv
    OBVIOUS
  <1>1. /\ relative = NormalizerAfterReset(0)
        /\ initialized = FALSE
        /\ previousRawMs = 0
        /\ lastOutputUs = 0
    BY DEF Init
  <1>2. relative \in Normalizers /\ relative.initialized = FALSE
    BY <1>1, ResetResult DEF NormalizerAfterReset
  <1>3. previousRawMs \in RawMs /\ lastOutputUs \in Nat /\ initialized \in BOOLEAN
    BY <1>1, ZeroIsRaw
  <1>4. TypeOK
    BY <1>2, <1>3 DEF TypeOK
  <1> QED BY <1>1, <1>2, <1>4 DEF IInv, LayersAgree

\* What one frame does to the two layers.
LEMMA SampleStep ==
    ASSUME IInv, NEW rawMs \in RawMs, NEW nowUs \in Nat \ {0}, Sample(rawMs, nowUs)
    PROVE  /\ IInv'
           /\ initialized => lastOutputUs' > lastOutputUs
  <1> DEFINE n == IF MeaningChanges(rawMs) THEN NormalizerAfterReset(nowUs) ELSE relative
  <1>1. /\ n \in Normalizers
        /\ n.initialized => Settled(n)
    BY ResetResult DEF IInv, TypeOK, LayersAgree
  <1>2. relative' = Normalize(n, rawMs, nowUs)
    BY DEF Sample
  <1> HIDE DEF n
  <1>3. Settled(relative')
    BY <1>1, <1>2, NormalizeResult
  <1>4. /\ relative' \in Normalizers
        /\ relative'.initialized
        /\ relative'.lastOutputUs \in Nat \ {0}
        /\ relative'.previousRawMs \in RawMs
        /\ relative'.lastOutputUs >= CandidateUs(relative')
    BY <1>3 DEF Normalizers, Settled
  <1>5. /\ initialized' = TRUE
        /\ previousRawMs' = relative'.previousRawMs
        /\ lastOutputUs' = OutputUs(relative'.lastOutputUs)
    BY DEF Sample
  <1>6. lastOutputUs \in Nat /\ (initialized => lastOutputUs > 0)
    BY DEF IInv, TypeOK, LayersAgree, Settled, Normalizers
  <1>7. /\ lastOutputUs' \in Nat
        /\ lastOutputUs' >= relative'.lastOutputUs
        /\ initialized => lastOutputUs' > lastOutputUs
    BY <1>4, <1>5, <1>6 DEF OutputUs
  <1>8. TypeOK'
    BY <1>4, <1>5, <1>7 DEF TypeOK
  <1>9. LayersAgree'
    <2>1. relative'.initialized \in BOOLEAN
      BY <1>4 DEF Normalizers
    <2>2. relative'.initialized = TRUE
      BY <1>4, <2>1
    <2> QED BY <2>2, <1>4, <1>5, <1>7 DEF LayersAgree
  <1> QED BY <1>3, <1>7, <1>8, <1>9 DEF IInv

\* A step of the specification keeps the invariant, and if the session goes
\* on it moves the output forward.
LEMMA NextStep ==
    ASSUME IInv, [Next]_clockVars
    PROVE  /\ IInv'
           /\ \/ UNCHANGED clockVars
              \/ initialized /\ initialized' => lastOutputUs' > lastOutputUs
  <1>1. ASSUME NEW rawMs \in SampleTimes, NEW nowUs \in HostTimes, Sample(rawMs, nowUs)
        PROVE  IInv' /\ (initialized /\ initialized' => lastOutputUs' > lastOutputUs)
    BY <1>1, SampleStep, SerialClockAssumption
  <1>2. ASSUME Reset
        PROVE  IInv' /\ ~initialized'
    <2>1. Init'
      BY <1>2 DEF Reset, Init
    <2>2. Init' => IInv'
      BY InitIInv, PTL
    <2> QED BY <2>1, <2>2 DEF Init
  <1>3. ASSUME UNCHANGED clockVars
        PROVE  IInv'
    BY <1>3 DEF IInv, TypeOK, LayersAgree, Settled, clockVars, CandidateUs
  <1> QED BY <1>1, <1>2, <1>3 DEF Next

\* The invariant holds in every reachable state.
THEOREM IInvAlways == Spec => []IInv
  <1>1. IInv /\ [Next]_clockVars => IInv'
    BY NextStep
  <1> QED BY <1>1, InitIInv, PTL DEF Spec

\* Every state of the serial clock has its type, whatever the sizes of the
\* counters, the boundaries of the heuristics and the host times.
THEOREM TypeCorrect == Spec => []TypeOK
  <1>1. IInv => TypeOK
    BY DEF IInv
  <1> QED BY <1>1, IInvAlways, PTL

\* The two layers of the serial clock never disagree about the predecessor.
THEOREM LayersAlwaysAgree == Spec => []LayersAgree
  <1>1. IInv => LayersAgree
    BY DEF IInv
  <1> QED BY <1>1, IInvAlways, PTL

\* The time of a serial frame is later than that of the frame before it.
THEOREM OutputsIncrease == Spec => StrictlyIncreasing
  <1>1. IInv /\ [Next]_clockVars
          => [initialized /\ initialized' => lastOutputUs' > lastOutputUs]_clockVars
    BY NextStep
  <1> QED BY <1>1, IInvAlways, PTL DEF Spec, StrictlyIncreasing

(***************************************************************************)
(* The device that behaves                                                 *)
(***************************************************************************)

\* A frame that was late across an edge came from before that edge, and only
\* a device with a PPS signal has edges.
OverdueIsAcrossEdge ==
    overdueMs # 0 =>
        /\ deviceMode = "pps"
        /\ deviceRawMs < overdueMs
        /\ overdueMs <= PpsPeriodMs - PpsUpperMs

\* Before the first frame nothing has happened.
Untouched ==
    ~initialized =>
        /\ relative = NormalizerAfterReset(0) /\ lastOutputUs = 0
        /\ newestMs = 0 /\ originMs = 0 /\ leapMs = 0 /\ overdueMs = 0

\* The inductive invariant of tracking.  ExactTracking is not inductive alone:
\* what a frame is taken for depends on where the device is in its period, on
\* whether the latest frame was overdue, and on the anchor that Reset left.
TrackInv ==
    /\ IInv
    /\ deviceMode \in DeviceModes /\ deviceRawMs \in RawMs
    /\ newestMs \in Nat /\ originMs \in Nat /\ originUs \in Nat /\ floorUs \in Nat
    /\ repeats \in Nat /\ leapMs \in Nat /\ overdueMs \in Nat
    /\ deviceMode = "pps" => deviceRawMs < PpsPeriodMs
    /\ OverdueIsAcrossEdge
    /\ Untouched
    /\ originMs <= newestMs
    /\ ExactTracking
    /\ OutputNearTrackedTime

(***************************************************************************)
(* How a sample is classified                                              *)
(***************************************************************************)

\* What the arguments need of the constants.
LEMMA TrackingConstants ==
    /\ UsPerMs \in Nat \ {0} /\ MaxRawMs \in Nat
    /\ PpsPeriodMs \in Nat /\ PpsWrapThresholdMs \in Nat
    /\ PpsUpperMs \in Nat /\ PpsLowerMs \in Nat
    /\ CounterFloorMs \in Nat /\ WrapFloorMs \in Nat
    /\ PpsLowerMs < PpsWrapThresholdMs /\ PpsWrapThresholdMs < PpsUpperMs
    /\ PpsUpperMs < PpsPeriodMs /\ 2 * PpsPeriodMs < MaxRawMs
    /\ PpsWrapThresholdMs < PpsUpperMs - PpsLowerMs
    /\ PpsPeriodMs < CounterFloorMs /\ CounterFloorMs < WrapFloorMs
    /\ WrapFloorMs <= MaxRawMs
    /\ PpsPeriodMs - PpsUpperMs <= PpsLowerMs + 1
    /\ PpsWrapThresholdMs < 2 * PpsUpperMs - PpsPeriodMs
    /\ CounterFloorMs - PpsPeriodMs <= MaxRawMs + 1 - WrapFloorMs
    /\ LargeRelativeJumpUs \in Nat /\ HostJumpSlackUs \in Nat
    /\ SampleTimes \subseteq RawMs /\ HostTimes \subseteq Nat \ {0}
  BY RelativeMillisecondsAssumption, SerialClockAssumption, TrackingAssumption,
     HostAnchoringAssumption

\* A step that the code bridges is never taken for a jump of the device clock.
LEMMA NoJump ==
    ASSUME NEW deltaMs \in Nat, deltaMs <= CounterFloorMs, NEW elapsedUs
    PROVE  ~HostElapsedIsMuchSmaller(deltaMs * UsPerMs, elapsedUs)
  <1>1. \A a, b \in Nat, u \in Nat : a * u <= (a + b) * u
    OBVIOUS
  <1>2. PICK b \in Nat : CounterFloorMs = deltaMs + b
    <2>1. CounterFloorMs - deltaMs \in Nat /\ CounterFloorMs = deltaMs + (CounterFloorMs - deltaMs)
      BY TrackingConstants
    <2> QED BY <2>1
  <1>3. deltaMs * UsPerMs <= CounterFloorMs * UsPerMs
    BY <1>1, <1>2, TrackingConstants
  <1>4. CounterFloorMs * UsPerMs <= LargeRelativeJumpUs
    BY TrackingAssumption
  <1>5. deltaMs * UsPerMs \in Nat /\ CounterFloorMs * UsPerMs \in Nat
    BY TrackingConstants
  <1>6. deltaMs * UsPerMs <= LargeRelativeJumpUs
    BY <1>3, <1>4, <1>5, TrackingConstants
  <1> QED BY <1>5, <1>6, TrackingConstants DEF HostElapsedIsMuchSmaller

\* The cases of Normalize that a device which behaves can meet.
LEMMA ForwardAdvances ==
    ASSUME NEW n \in Normalizers, n.initialized, NEW rawMs \in RawMs, NEW nowUs,
           n.previousRawMs <= rawMs, rawMs - n.previousRawMs <= CounterFloorMs
    PROVE  Normalize(n, rawMs, nowUs) = Advance(n, rawMs - n.previousRawMs, rawMs, nowUs)
  <1>1. n.previousRawMs \in Nat /\ rawMs \in Nat
    BY TrackingConstants DEF Normalizers
  <1>2. rawMs - n.previousRawMs \in Nat
    BY <1>1
  <1>3. ~HostElapsedIsMuchSmaller((rawMs - n.previousRawMs) * UsPerMs, HostElapsedUs(n, nowUs))
    BY <1>2, NoJump
  <1>4. Normalize(n, rawMs, nowUs) = ForwardStep(n, rawMs, nowUs)
    BY <1>1 DEF Normalize
  <1> QED BY <1>3, <1>4, Zenon DEF ForwardStep

\* A difference of more than half of the counter is a wrap of the counter.
LEMMA WrapAdvances ==
    ASSUME NEW n \in Normalizers, n.initialized, NEW rawMs \in RawMs, NEW nowUs,
           n.previousRawMs - rawMs > MaxRawMs \div 2
    PROVE  Normalize(n, rawMs, nowUs) =
             Advance(n, (MaxRawMs - n.previousRawMs) + rawMs + 1, rawMs, nowUs)
  <1>1. n.previousRawMs \in Nat /\ rawMs \in Nat /\ MaxRawMs \div 2 \in Nat
    BY TrackingConstants DEF Normalizers
  <1>2. ~(rawMs >= n.previousRawMs)
    BY <1>1
  <1>3. Normalize(n, rawMs, nowUs) = BackwardStep(n, rawMs, nowUs)
    BY <1>2, Zenon DEF Normalize
  <1> QED BY <1>3, Zenon DEF BackwardStep, IsCounterWrap, CounterWrapDeltaMs

\* What is less is not.
LEMMA NoCounterWrap ==
    ASSUME NEW n \in Normalizers, NEW rawMs \in RawMs,
           n.previousRawMs - rawMs <= PpsPeriodMs
    PROVE  ~IsCounterWrap(n, rawMs)
  <1>1. n.previousRawMs \in Nat /\ rawMs \in Nat
    BY TrackingConstants DEF Normalizers
  <1> QED BY <1>1, TrackingConstants DEF IsCounterWrap

\* A fall from the upper to the lower boundary zone is a PPS edge.
LEMMA RolloverAdvances ==
    ASSUME NEW n \in Normalizers, n.initialized, NEW rawMs \in RawMs, NEW nowUs,
           n.previousRawMs >= PpsUpperMs, n.previousRawMs <= PpsPeriodMs, rawMs <= PpsLowerMs
    PROVE  Normalize(n, rawMs, nowUs) =
             Advance(n, (PpsPeriodMs - n.previousRawMs) + rawMs, rawMs, nowUs)
  <1>1. n.previousRawMs \in Nat /\ rawMs \in Nat
    BY TrackingConstants DEF Normalizers
  <1>2. ~(rawMs >= n.previousRawMs) /\ n.previousRawMs - rawMs > PpsWrapThresholdMs
        /\ n.previousRawMs - rawMs <= PpsPeriodMs
    BY <1>1, TrackingConstants
  <1>3. ~IsCounterWrap(n, rawMs)
    BY <1>2, NoCounterWrap
  <1>4. IsPpsRollover(n, rawMs)
    BY <1>2 DEF IsPpsRollover
  <1>5. Normalize(n, rawMs, nowUs) = BackwardStep(n, rawMs, nowUs)
    BY <1>2, Zenon DEF Normalize
  <1> QED BY <1>3, <1>4, <1>5, Zenon DEF BackwardStep, PpsRolloverDeltaMs

\* A small step back is a frame that was overtaken.
LEMMA SmallStepsBack ==
    ASSUME NEW n \in Normalizers, n.initialized, NEW rawMs \in RawMs, NEW nowUs,
           rawMs < n.previousRawMs, n.previousRawMs - rawMs <= PpsWrapThresholdMs
    PROVE  Normalize(n, rawMs, nowUs) = SmallStepBack(n)
  <1>1. n.previousRawMs \in Nat /\ rawMs \in Nat
    BY TrackingConstants DEF Normalizers
  <1>2. ~(rawMs >= n.previousRawMs) /\ n.previousRawMs - rawMs <= PpsPeriodMs
        /\ ~(n.previousRawMs - rawMs > PpsWrapThresholdMs)
    BY <1>1, TrackingConstants
  <1>3. ~IsCounterWrap(n, rawMs)
    BY <1>2, NoCounterWrap
  <1>4. ~IsPpsRollover(n, rawMs) /\ IsSmallStepBack(n, rawMs)
    BY <1>2 DEF IsPpsRollover, IsSmallStepBack
  <1>5. Normalize(n, rawMs, nowUs) = BackwardStep(n, rawMs, nowUs)
    BY <1>2, Zenon DEF Normalize
  <1> QED BY <1>3, <1>4, <1>5, Zenon DEF BackwardStep

\* Any other step back within a second is a device that restarted.
LEMMA LargerStepRestarts ==
    ASSUME NEW n \in Normalizers, n.initialized, NEW rawMs \in RawMs, NEW nowUs,
           n.previousRawMs - rawMs > PpsWrapThresholdMs,
           n.previousRawMs - rawMs <= PpsPeriodMs, rawMs > PpsLowerMs
    PROVE  Normalize(n, rawMs, nowUs) = Restart(n, rawMs, nowUs)
  <1>1. n.previousRawMs \in Nat /\ rawMs \in Nat
    BY TrackingConstants DEF Normalizers
  <1>2. ~(rawMs >= n.previousRawMs) /\ ~(n.previousRawMs - rawMs <= PpsWrapThresholdMs)
        /\ ~(rawMs <= PpsLowerMs)
    BY <1>1, TrackingConstants
  <1>3. ~IsCounterWrap(n, rawMs)
    BY NoCounterWrap
  <1>4. ~IsPpsRollover(n, rawMs) /\ ~IsSmallStepBack(n, rawMs)
    BY <1>2 DEF IsPpsRollover, IsSmallStepBack
  <1>5. Normalize(n, rawMs, nowUs) = BackwardStep(n, rawMs, nowUs)
    BY <1>2, Zenon DEF Normalize
  <1> QED BY <1>3, <1>4, <1>5, Zenon DEF BackwardStep

(***************************************************************************)
(* What the two properties become                                          *)
(***************************************************************************)

\* Milliseconds are microseconds, and not fewer.
LEMMA Products ==
    ASSUME NEW t \in Nat, NEW d \in Nat, NEW u \in Nat \ {0}
    PROVE  /\ t * u \in Nat /\ (t + d) * u \in Nat
           /\ t * u + d <= (t + d) * u
  <1>1. t * u \in Nat /\ d * u \in Nat /\ (t + d) * u \in Nat
    OBVIOUS
  <1>2. (t + d) * u = t * u + d * u
    OBVIOUS
  <1>3. d <= d * u
    OBVIOUS
  <1> QED BY <1>1, <1>2, <1>3

\* The fields of a normalizer that has advanced.
LEMMA AdvanceFields ==
    ASSUME NEW n \in Normalizers, NEW deltaMs \in Nat, NEW rawMs \in RawMs, NEW nowUs,
           NEW m, m = Advance(n, deltaMs, rawMs, nowUs)
    PROVE  /\ m.hostAnchorUs = n.hostAnchorUs
           /\ m.logicalMs = n.logicalMs + deltaMs
           /\ m.previousRawMs = rawMs
           /\ m.lastOutputUs = ValueAfter(n.lastOutputUs,
                                          n.hostAnchorUs + (n.logicalMs + deltaMs) * UsPerMs)
  BY DEF Advance, Normalizers, CandidateUs

\* The raw time that the next frame is compared with.
PredecessorMs ==
    IF overdueMs = 0 THEN deviceRawMs ELSE deviceRawMs + PpsPeriodMs - overdueMs

\* The state of a session that has an output.
LEMMA TrackedState ==
    ASSUME TrackInv, initialized
    PROVE  /\ relative \in Normalizers /\ relative.initialized
           /\ relative.previousRawMs = previousRawMs
           /\ relative.hostAnchorUs = originUs
           /\ relative.logicalMs = TrackedMs /\ TrackedMs \in Nat
           /\ relative.lastOutputUs \in Nat /\ lastOutputUs \in Nat
           /\ relative.lastOutputUs <= lastOutputUs
           /\ originUs + TrackedMs * UsPerMs <= relative.lastOutputUs
           /\ originUs + TrackedMs * UsPerMs \in Nat
           /\ previousRawMs = PredecessorMs
  <1>1. /\ relative \in Normalizers /\ lastOutputUs \in Nat
        /\ relative.initialized /\ relative.previousRawMs = previousRawMs
        /\ relative.lastOutputUs <= lastOutputUs
        /\ relative.lastOutputUs >= CandidateUs(relative)
    BY DEF TrackInv, IInv, TypeOK, LayersAgree, Normalizers
  <1>2. /\ relative.hostAnchorUs = originUs /\ relative.logicalMs = TrackedMs
        /\ relative.previousRawMs = PredecessorMs
    BY DEF TrackInv, ExactTracking, PredecessorMs
  <1>3. relative.logicalMs \in Nat /\ relative.lastOutputUs \in Nat /\ originUs \in Nat
    BY <1>1 DEF Normalizers, TrackInv
  <1>4. CandidateUs(relative) = originUs + TrackedMs * UsPerMs
    BY <1>2 DEF CandidateUs
  <1>5. originUs + TrackedMs * UsPerMs \in Nat
    BY <1>2, <1>3, TrackingConstants
  <1> QED BY <1>1, <1>2, <1>3, <1>4, <1>5

\* The output of a sample is what the inner clock says, or one more than before.
LEMMA OutputOfSample ==
    ASSUME TrackInv, NEW rawMs \in RawMs, NEW nowUs \in Nat \ {0}, Sample(rawMs, nowUs)
    PROVE  /\ IInv' /\ initialized' = TRUE
           /\ lastOutputUs' \in Nat
           /\ relative'.lastOutputUs <= lastOutputUs'
           /\ relative'.lastOutputUs \in Nat
           /\ relative'.hostAnchorUs + relative'.logicalMs * UsPerMs <= lastOutputUs'
           /\ \/ lastOutputUs' = relative'.lastOutputUs
              \/ initialized /\ lastOutputUs' = lastOutputUs + 1
  <1>1. IInv'
    BY SampleStep DEF TrackInv
  <1>2. /\ initialized' = TRUE /\ lastOutputUs' = OutputUs(relative'.lastOutputUs)
    BY DEF Sample
  <1>3. /\ relative' \in Normalizers /\ lastOutputUs' \in Nat
        /\ lastOutputUs' >= relative'.lastOutputUs
        /\ relative'.lastOutputUs >= CandidateUs(relative')
    BY <1>1, <1>2 DEF IInv, TypeOK, LayersAgree, CandidateUs, Normalizers
  <1>4. /\ relative'.hostAnchorUs + relative'.logicalMs * UsPerMs \in Nat
        /\ relative'.lastOutputUs \in Nat
        /\ CandidateUs(relative') = relative'.hostAnchorUs + relative'.logicalMs * UsPerMs
    <2>1. relative'.hostAnchorUs \in Nat /\ relative'.logicalMs \in Nat
          /\ relative'.lastOutputUs \in Nat
      BY <1>3 DEF Normalizers
    <2> QED BY <2>1, TrackingConstants DEF CandidateUs
  <1>5. ~initialized => lastOutputUs = 0
    BY DEF TrackInv, Untouched
  <1>6. \/ lastOutputUs' = relative'.lastOutputUs
        \/ initialized /\ lastOutputUs' = lastOutputUs + 1
    BY <1>2, <1>5 DEF OutputUs
  <1> QED BY <1>1, <1>2, <1>3, <1>4, <1>6

\* The device, the leap and the lateness have moved by this many milliseconds,
\* with a newer device time or with a repeat.
FollowsDevice(deltaMs) ==
    /\ UNCHANGED <<originMs, originUs, floorUs>>
    /\ newestMs' \in Nat /\ repeats' \in Nat /\ leapMs' \in Nat /\ overdueMs' \in Nat
    /\ newestMs' + leapMs' - overdueMs' = newestMs + leapMs - overdueMs + deltaMs
    /\ newestMs' + repeats' > newestMs + repeats
    /\ deltaMs + repeats' > repeats

\* The distance from the origin moves with the newest frame, the leaps and the lateness.
LEMMA SameOrigin ==
    \A a, l, v, o \in Int : a - o + l - v = (a + l - v) - o /\ a + l - v \in Int
  OBVIOUS

\* What is added on one side of a difference is added to the difference.
LEMMA Moved == \A x, o, d \in Int : (x + d) - o = (x - o) + d
  OBVIOUS

\* An output that moved on by a microsecond keeps within a bound that did.
LEMMA BoundMovesOn ==
    \A out, next, bound, bound2 \in Int :
        out <= bound /\ next <= out + 1 /\ bound < bound2 => next <= bound2
  OBVIOUS

\* The bound by the tracked time moves on by the milliseconds or the repeat.
LEMMA TrackedBound ==
    \A t, t2, d, r, r2 \in Int : t + d <= t2 /\ d + r2 > r => t + r < t2 + r2
  OBVIOUS

\* The bound by the promise moves on by the newer device time or the repeat.
LEMMA PromisedBound ==
    \A f, a, a2, o, r, r2 \in Int :
        a2 + r2 > a + r => f + (a - o) + 1 + r < f + (a2 - o) + 1 + r2
  OBVIOUS

\* A sample that advances the time line by as much as the device, the leap and
\* the lateness have moved keeps both properties, if it came with a newer device
\* time or is counted as a repeat.
LEMMA AdvanceTracks ==
    ASSUME TrackInv, initialized,
           NEW rawMs \in RawMs, NEW nowUs \in Nat \ {0}, Sample(rawMs, nowUs),
           NEW deltaMs \in Nat, relative' = Advance(relative, deltaMs, rawMs, nowUs),
           FollowsDevice(deltaMs), rawMs = PredecessorMs'
    PROVE  ExactTracking' /\ OutputNearTrackedTime'
  <1>0. /\ originMs' = originMs /\ originUs' = originUs /\ floorUs' = floorUs
        /\ newestMs' \in Nat /\ repeats' \in Nat /\ leapMs' \in Nat /\ overdueMs' \in Nat
        /\ newestMs' + leapMs' - overdueMs' = newestMs + leapMs - overdueMs + deltaMs
        /\ newestMs' + repeats' > newestMs + repeats
        /\ deltaMs + repeats' > repeats
    BY DEF FollowsDevice
  <1>1. /\ newestMs \in Nat /\ originMs \in Nat /\ originUs \in Nat /\ floorUs \in Nat
        /\ repeats \in Nat /\ leapMs \in Nat /\ overdueMs \in Nat
    BY DEF TrackInv
  <1>2. /\ relative \in Normalizers /\ TrackedMs \in Nat
        /\ relative.hostAnchorUs = originUs /\ relative.logicalMs = TrackedMs
        /\ relative.lastOutputUs \in Nat /\ lastOutputUs \in Nat
        /\ relative.lastOutputUs <= lastOutputUs
    BY TrackedState
  <1>3. /\ relative'.hostAnchorUs = originUs
        /\ relative'.logicalMs = TrackedMs + deltaMs
        /\ relative'.previousRawMs = rawMs
        /\ relative'.lastOutputUs =
              ValueAfter(relative.lastOutputUs, originUs + (TrackedMs + deltaMs) * UsPerMs)
    BY <1>2, AdvanceFields
  <1>4. TrackedMs' = TrackedMs + deltaMs
    <2>1. TrackedMs' = newestMs' - originMs' + leapMs' - overdueMs'
      BY DEF TrackedMs
    <2>2. newestMs' - originMs + leapMs' - overdueMs' = (newestMs' + leapMs' - overdueMs') - originMs
      <3>1. newestMs' \in Int /\ leapMs' \in Int /\ overdueMs' \in Int /\ originMs \in Int
        BY <1>0, <1>1
      <3> QED BY <3>1, SameOrigin
    <2>3. /\ newestMs - originMs + leapMs - overdueMs = (newestMs + leapMs - overdueMs) - originMs
          /\ newestMs + leapMs - overdueMs \in Int
      BY <1>1, SameOrigin
    <2>4. (newestMs + leapMs - overdueMs + deltaMs) - originMs
             = ((newestMs + leapMs - overdueMs) - originMs) + deltaMs
      <3>1. originMs \in Int /\ deltaMs \in Int
        BY <1>1
      <3> QED BY <2>3, <3>1, Moved, Zenon
    <2>5. TrackedMs = newestMs - originMs + leapMs - overdueMs
      BY DEF TrackedMs
    <2> HIDE DEF TrackedMs
    <2> QED BY <1>0, <2>1, <2>2, <2>3, <2>4, <2>5, Zenon
  <1>5. ExactTracking'
    BY <1>0, <1>3, <1>4 DEF ExactTracking, PredecessorMs
  <1>6. /\ lastOutputUs' \in Nat /\ originUs + (TrackedMs + deltaMs) * UsPerMs <= lastOutputUs'
        /\ \/ lastOutputUs' = relative'.lastOutputUs
           \/ lastOutputUs' = lastOutputUs + 1
    BY <1>3, OutputOfSample
  <1> DEFINE trackedUs == originUs + TrackedMs * UsPerMs
             nextUs == originUs + (TrackedMs + deltaMs) * UsPerMs
             promisedUs == floorUs + (newestMs - originMs) + 1
  <1>7. trackedUs \in Nat /\ nextUs \in Nat /\ trackedUs + deltaMs <= nextUs
    <2>1. TrackedMs * UsPerMs \in Nat /\ (TrackedMs + deltaMs) * UsPerMs \in Nat
          /\ TrackedMs * UsPerMs + deltaMs <= (TrackedMs + deltaMs) * UsPerMs
      BY <1>2, TrackingConstants, Products
    <2> QED BY <1>1, <2>1
  <1>8. lastOutputUs <= trackedUs + repeats \/ lastOutputUs <= promisedUs + repeats
    BY DEF TrackInv, OutputNearTrackedTime
  <1>9. /\ relative'.lastOutputUs = nextUs \/ relative'.lastOutputUs = relative.lastOutputUs + 1
        /\ nextUs <= lastOutputUs'
    BY <1>3, <1>6 DEF ValueAfter
  <1> HIDE DEF trackedUs, nextUs
  <1>10. lastOutputUs' <= lastOutputUs + 1 \/ lastOutputUs' = nextUs
    BY <1>2, <1>6, <1>9
  <1>11. \/ lastOutputUs' <= nextUs + repeats'
         \/ lastOutputUs' <= floorUs + (newestMs' - originMs) + 1 + repeats'
    <2>1. CASE lastOutputUs' = nextUs
      <3>1. \A x, r \in Nat : x <= x + r
        OBVIOUS
      <3> QED BY <1>0, <1>7, <2>1, <3>1
    <2>2. CASE lastOutputUs' <= lastOutputUs + 1 /\ lastOutputUs <= trackedUs + repeats
      <3>1. trackedUs + repeats < nextUs + repeats'
        <4>1. /\ trackedUs \in Int /\ nextUs \in Int /\ deltaMs \in Int
              /\ repeats \in Int /\ repeats' \in Int
          BY <1>0, <1>1, <1>7
        <4> QED BY <4>1, <1>0, <1>7, TrackedBound, Zenon
      <3>2. trackedUs + repeats \in Int /\ nextUs + repeats' \in Int
        BY <1>0, <1>1, <1>7
      <3> QED BY <1>2, <1>6, <2>2, <3>1, <3>2, BoundMovesOn
    <2>3. CASE lastOutputUs' <= lastOutputUs + 1 /\ lastOutputUs <= promisedUs + repeats
      <3>1. promisedUs + repeats < floorUs + (newestMs' - originMs) + 1 + repeats'
        <4>1. /\ floorUs \in Int /\ newestMs \in Int /\ newestMs' \in Int
              /\ originMs \in Int /\ repeats \in Int /\ repeats' \in Int
          BY <1>0, <1>1
        <4> QED BY <4>1, <1>0, PromisedBound, Zenon
      <3>2. promisedUs + repeats \in Int
            /\ floorUs + (newestMs' - originMs) + 1 + repeats' \in Int
        BY <1>0, <1>1
      <3> HIDE DEF promisedUs
      <3> QED BY <1>2, <1>6, <2>3, <3>1, <3>2, BoundMovesOn
    <2> QED BY <1>8, <1>10, <2>1, <2>2, <2>3
  <1>12. OutputNearTrackedTime'
    <2>1. originUs' + TrackedMs' * UsPerMs = nextUs
      BY <1>0, <1>4 DEF nextUs
    <2> QED BY <1>0, <1>9, <1>11, <2>1 DEF OutputNearTrackedTime
  <1> QED BY <1>5, <1>12

\* A repeated or overtaken frame costs a microsecond and moves nothing.
LEMMA StepBackTracks ==
    ASSUME TrackInv, initialized,
           NEW rawMs \in RawMs, NEW nowUs \in Nat \ {0}, Sample(rawMs, nowUs),
           relative' = SmallStepBack(relative), repeats' = repeats + 1,
           UNCHANGED <<deviceRawMs, newestMs, originMs, originUs, floorUs, leapMs, overdueMs>>
    PROVE  ExactTracking' /\ OutputNearTrackedTime'
  <1>1. /\ relative \in Normalizers
        /\ relative.hostAnchorUs = originUs /\ relative.logicalMs = TrackedMs
        /\ relative.previousRawMs = PredecessorMs
        /\ relative.lastOutputUs \in Nat /\ lastOutputUs \in Nat
        /\ relative.lastOutputUs <= lastOutputUs
        /\ originUs + TrackedMs * UsPerMs \in Nat
    BY TrackedState
  <1>2. /\ relative'.hostAnchorUs = originUs /\ relative'.logicalMs = TrackedMs
        /\ relative'.previousRawMs = PredecessorMs
        /\ relative'.lastOutputUs = relative.lastOutputUs + 1
    BY <1>1 DEF SmallStepBack, Normalizers
  <1>3. TrackedMs' = TrackedMs /\ PredecessorMs' = PredecessorMs
    BY DEF TrackedMs, PredecessorMs
  <1>4. ExactTracking'
    BY <1>2, <1>3 DEF ExactTracking, PredecessorMs
  <1>5. /\ lastOutputUs' \in Nat
        /\ originUs + TrackedMs * UsPerMs <= lastOutputUs'
        /\ lastOutputUs' = relative'.lastOutputUs \/ lastOutputUs' = lastOutputUs + 1
    BY <1>2, OutputOfSample
  <1>6. lastOutputUs' <= lastOutputUs + 1
    BY <1>1, <1>2, <1>5
  <1> DEFINE trackedUs == originUs + TrackedMs * UsPerMs
             promisedUs == floorUs + (newestMs - originMs) + 1
  <1>7. lastOutputUs <= trackedUs + repeats \/ lastOutputUs <= promisedUs + repeats
    BY DEF TrackInv, OutputNearTrackedTime
  <1>8. trackedUs \in Int /\ promisedUs \in Int /\ repeats \in Int
    BY <1>1 DEF TrackInv
  <1>9. \A out, next, bound, r \in Int :
            next <= out + 1 /\ out <= bound + r => next <= bound + (r + 1)
    OBVIOUS
  <1>10. lastOutputUs' \in Int /\ lastOutputUs \in Int
    BY <1>1, <1>5
  <1> HIDE DEF trackedUs, promisedUs
  <1>11. lastOutputUs' <= trackedUs + repeats' \/ lastOutputUs' <= promisedUs + repeats'
    BY <1>6, <1>7, <1>8, <1>9, <1>10, Zenon
  <1>12. OutputNearTrackedTime'
    <2>1. originUs' + TrackedMs' * UsPerMs = trackedUs
      BY <1>3 DEF trackedUs
    <2>2. floorUs' + (newestMs' - originMs') + 1 = promisedUs
      BY DEF promisedUs
    <2>3. trackedUs <= lastOutputUs'
      BY <1>5 DEF trackedUs
    <2> QED BY <1>11, <2>1, <2>2, <2>3, Zenon DEF OutputNearTrackedTime
  <1> QED BY <1>4, <1>12

\* A time line that starts at this sample has tracked nothing yet.
LEMMA AnchorTracks ==
    ASSUME TrackInv,
           NEW rawMs \in RawMs, NEW nowUs \in Nat \ {0}, Sample(rawMs, nowUs),
           NEW anchorUs \in Nat \ {0}, relative' = AnchoredAt(anchorUs, rawMs, nowUs),
           newestMs' \in Nat, originMs' = newestMs', originUs' = anchorUs,
           leapMs' = 0, overdueMs' = 0, repeats' \in Nat,
           deviceRawMs' = rawMs, initialized => floorUs' = lastOutputUs
    PROVE  ExactTracking' /\ OutputNearTrackedTime'
  <1>1. /\ relative'.hostAnchorUs = anchorUs /\ relative'.logicalMs = 0
        /\ relative'.previousRawMs = rawMs /\ relative'.lastOutputUs = anchorUs
    BY DEF AnchoredAt
  <1>2. \A a \in Int : a - a + 0 - 0 = 0 /\ a - a = 0
    OBVIOUS
  <1>3. TrackedMs' = 0 /\ newestMs' - originMs' = 0
    <2>1. newestMs' \in Int
      OBVIOUS
    <2>2. TrackedMs' = newestMs' - newestMs' + 0 - 0 /\ newestMs' - originMs' = newestMs' - newestMs'
      BY Zenon DEF TrackedMs
    <2> QED BY <1>2, <2>1, <2>2, Zenon
  <1>4. ExactTracking'
    BY <1>1, <1>3 DEF ExactTracking
  <1>5. /\ lastOutputUs' \in Nat /\ anchorUs <= lastOutputUs'
        /\ lastOutputUs' = anchorUs \/ (initialized /\ lastOutputUs' = lastOutputUs + 1)
    BY <1>1, OutputOfSample
  <1>6. originUs' + TrackedMs' * UsPerMs = anchorUs
    <2>1. \A a, u \in Nat : a + 0 * u = a
      OBVIOUS
    <2> QED BY <1>3, <2>1, TrackingConstants
  <1>7. \/ lastOutputUs' <= anchorUs + repeats'
        \/ lastOutputUs' <= floorUs' + 0 + 1 + repeats'
    <2>1. \A out, r \in Nat : out <= out + r /\ out + 1 <= out + 0 + 1 + r
      OBVIOUS
    <2>2. lastOutputUs \in Nat
      BY DEF TrackInv, IInv, TypeOK
    <2>3. CASE lastOutputUs' = anchorUs
      BY <1>5, <2>1, <2>3
    <2>4. CASE initialized /\ lastOutputUs' = lastOutputUs + 1
      <3>1. floorUs' = lastOutputUs
        BY <2>4
      <3> QED BY <2>1, <2>2, <2>4, <3>1, Zenon
    <2> QED BY <1>5, <2>3, <2>4
  <1>8. OutputNearTrackedTime'
    BY <1>3, <1>5, <1>6, <1>7 DEF OutputNearTrackedTime
  <1> QED BY <1>4, <1>8

(***************************************************************************)
(* When the meaning of the raw times changes                               *)
(***************************************************************************)

\* Two PPS phases.
LEMMA SecondsKeepMeaning ==
    ASSUME TrackInv, NEW rawMs \in RawMs,
           previousRawMs <= PpsPeriodMs, rawMs <= PpsPeriodMs
    PROVE  ~MeaningChanges(rawMs)
  <1>1. previousRawMs \in Nat /\ rawMs \in Nat
    BY TrackingConstants DEF TrackInv, IInv, TypeOK
  <1> QED BY <1>1, TrackingConstants DEF MeaningChanges, PpsToCounter, CounterToPpsOrRestart

\* A small increment.
LEMMA IncrementsKeepMeaning ==
    ASSUME TrackInv, NEW rawMs \in RawMs,
           previousRawMs <= rawMs, rawMs - previousRawMs <= CounterFloorMs - PpsPeriodMs
    PROVE  ~MeaningChanges(rawMs)
  <1>1. previousRawMs \in Nat /\ rawMs \in Nat
    BY TrackingConstants DEF TrackInv, IInv, TypeOK
  <1> QED BY <1>1, TrackingConstants DEF MeaningChanges, PpsToCounter, CounterToPpsOrRestart

\* Any frame after one close to the wrap of the counter.
LEMMA WrapsKeepMeaning ==
    ASSUME TrackInv, NEW rawMs \in RawMs, previousRawMs >= WrapFloorMs
    PROVE  ~MeaningChanges(rawMs)
  <1>1. previousRawMs \in Nat /\ rawMs \in Nat
    BY TrackingConstants DEF TrackInv, IInv, TypeOK
  <1> QED BY <1>1, TrackingConstants
          DEF MeaningChanges, PpsToCounter, CounterToPpsOrRestart, Is32BitWrap

\* Two counters.
LEMMA CountersKeepMeaning ==
    ASSUME TrackInv, NEW rawMs \in RawMs, previousRawMs > PpsPeriodMs, rawMs > PpsPeriodMs
    PROVE  ~MeaningChanges(rawMs)
  <1>1. previousRawMs \in Nat /\ rawMs \in Nat
    BY TrackingConstants DEF TrackInv, IInv, TypeOK
  <1> QED BY <1>1, TrackingConstants DEF MeaningChanges, PpsToCounter, CounterToPpsOrRestart

\* A reordered frame.
LEMMA ReordersKeepMeaning ==
    ASSUME NEW rawMs, SmallBackwardReorder(rawMs)
    PROVE  ~MeaningChanges(rawMs)
  BY DEF MeaningChanges

\* A sample whose meaning has not changed goes to the inner normalizer as it is.
LEMMA PlainSample ==
    ASSUME NEW rawMs, NEW nowUs, Sample(rawMs, nowUs), ~MeaningChanges(rawMs)
    PROVE  relative' = Normalize(relative, rawMs, nowUs)
  BY DEF Sample

(***************************************************************************)
(* The steps of the device                                                 *)
(***************************************************************************)

\* The parts of the invariant that say nothing about the time line.
DeviceTyped ==
    /\ deviceMode \in DeviceModes /\ deviceRawMs \in RawMs
    /\ newestMs \in Nat /\ originMs \in Nat /\ originUs \in Nat /\ floorUs \in Nat
    /\ repeats \in Nat /\ leapMs \in Nat /\ overdueMs \in Nat
    /\ deviceMode = "pps" => deviceRawMs < PpsPeriodMs
    /\ OverdueIsAcrossEdge
    /\ originMs <= newestMs

\* What a step that reads a frame has to show.
LEMMA TrackedAfterSample ==
    ASSUME TrackInv, NEW rawMs \in RawMs, NEW nowUs \in Nat \ {0}, Sample(rawMs, nowUs),
           DeviceTyped', ExactTracking' /\ OutputNearTrackedTime'
    PROVE  TrackInv'
  <1>1. IInv' /\ initialized' = TRUE
    BY OutputOfSample
  <1> QED BY <1>1, Zenon DEF TrackInv, DeviceTyped, Untouched

\* The first frame anchors the time line at its own host time.
LEMMA FirstFrameTracks ==
    ASSUME TrackInv, NEW nowUs \in Nat \ {0}, FirstFrame(nowUs)
    PROVE  TrackInv'
  <1>1. /\ ~initialized /\ Sample(deviceRawMs, nowUs) /\ originUs' = nowUs
        /\ UNCHANGED <<deviceMode, deviceRawMs, newestMs, originMs, floorUs, repeats,
                       leapMs, overdueMs>>
    BY DEF FirstFrame
  <1>2. /\ relative = NormalizerAfterReset(0)
        /\ newestMs = 0 /\ originMs = 0 /\ leapMs = 0 /\ overdueMs = 0
    BY <1>1 DEF TrackInv, Untouched
  <1>3. deviceRawMs \in RawMs /\ repeats \in Nat
    BY DEF TrackInv
  <1>4. relative' = Normalize(relative, deviceRawMs, nowUs)
    BY <1>1, PlainSample DEF MeaningChanges
  <1>5. ~relative.initialized /\ relative.hostAnchorUs = 0
    BY <1>2 DEF NormalizerAfterReset
  <1>6. relative' = AnchoredAt(nowUs, deviceRawMs, nowUs)
    BY <1>4, <1>5, Zenon DEF Normalize, FirstSample
  <1>7. ExactTracking' /\ OutputNearTrackedTime'
    BY <1>1, <1>2, <1>3, <1>6, AnchorTracks
  <1>8. DeviceTyped'
    <2>1. DeviceTyped
      BY DEF TrackInv, DeviceTyped
    <2> QED BY <1>1, <2>1 DEF DeviceTyped, OverdueIsAcrossEdge
  <1> QED BY <1>1, <1>3, <1>7, <1>8, TrackedAfterSample

\* A frame again, or one that was overtaken by little.
LEMMA LateFrameTracks ==
    ASSUME TrackInv, NEW behindMs \in Nat, NEW nowUs \in Nat \ {0}, LateFrame(behindMs, nowUs)
    PROVE  TrackInv'
  <1> DEFINE rawMs == deviceRawMs - behindMs
  <1>1. /\ initialized /\ overdueMs = 0
        /\ behindMs <= PpsWrapThresholdMs /\ behindMs <= deviceRawMs
        /\ Sample(rawMs, nowUs) /\ repeats' = repeats + 1
        /\ UNCHANGED <<deviceMode, deviceRawMs, newestMs, originMs, originUs, floorUs,
                       leapMs, overdueMs>>
    BY DEF LateFrame
  <1>2. deviceRawMs \in Nat /\ deviceRawMs <= MaxRawMs
    BY TrackingConstants DEF TrackInv
  <1>3. rawMs \in RawMs /\ rawMs = deviceRawMs - behindMs /\ rawMs \in Nat
    BY <1>1, <1>2, TrackingConstants
  <1>4. /\ relative \in Normalizers /\ relative.initialized
        /\ relative.previousRawMs = deviceRawMs /\ previousRawMs = deviceRawMs
    BY <1>1, TrackedState DEF PredecessorMs
  <1> HIDE DEF rawMs
  <1>5. ASSUME behindMs = 0
        PROVE  ExactTracking' /\ OutputNearTrackedTime'
    <2>1. rawMs = deviceRawMs
      BY <1>2, <1>3, <1>5
    <2>2. deviceRawMs - deviceRawMs = 0 /\ deviceRawMs <= deviceRawMs
          /\ 0 <= CounterFloorMs - PpsPeriodMs /\ 0 <= CounterFloorMs
      BY <1>2, TrackingConstants
    <2>3. ~MeaningChanges(rawMs)
      BY <1>3, <1>4, <2>1, <2>2, IncrementsKeepMeaning
    <2>4. relative' = Normalize(relative, rawMs, nowUs)
      BY <1>1, <2>3, PlainSample
    <2>5. relative' = Advance(relative, 0, rawMs, nowUs)
      BY <1>3, <1>4, <2>1, <2>2, <2>4, ForwardAdvances
    <2>6. FollowsDevice(0)
      <3>1. newestMs \in Nat /\ leapMs \in Nat /\ overdueMs \in Nat /\ repeats \in Nat
        BY DEF TrackInv
      <3> QED BY <1>1, <3>1 DEF FollowsDevice
    <2>7. rawMs = PredecessorMs'
      BY <1>1, <2>1 DEF PredecessorMs
    <2> QED BY <1>1, <1>3, <2>5, <2>6, <2>7, AdvanceTracks
  <1>6. ASSUME behindMs # 0
        PROVE  ExactTracking' /\ OutputNearTrackedTime'
    <2>1. rawMs < deviceRawMs /\ deviceRawMs - rawMs <= PpsWrapThresholdMs
      BY <1>1, <1>2, <1>3, <1>6
    <2>2. ~MeaningChanges(rawMs)
      BY <1>4, <2>1, ReordersKeepMeaning DEF SmallBackwardReorder
    <2>3. relative' = Normalize(relative, rawMs, nowUs)
      BY <1>1, <2>2, PlainSample
    <2>4. relative' = SmallStepBack(relative)
      BY <1>3, <1>4, <2>1, <2>3, SmallStepsBack
    <2> QED BY <1>1, <1>3, <2>4, StepBackTracks
  <1>7. DeviceTyped'
    <2>1. DeviceTyped
      BY DEF TrackInv, DeviceTyped
    <2> QED BY <1>1, <2>1 DEF DeviceTyped, OverdueIsAcrossEdge
  <1> QED BY <1>1, <1>3, <1>5, <1>6, <1>7, TrackedAfterSample

\* Where the device is, in numbers.
LEMMA DeviceNumbers ==
    ASSUME TrackInv
    PROVE  /\ deviceRawMs \in Nat /\ deviceRawMs <= MaxRawMs
           /\ newestMs \in Nat /\ originMs \in Nat /\ originUs \in Nat /\ floorUs \in Nat
           /\ repeats \in Nat /\ leapMs \in Nat /\ overdueMs \in Nat
           /\ originMs <= newestMs /\ deviceMode \in DeviceModes
           /\ deviceMode = "pps" => deviceRawMs < PpsPeriodMs
           /\ overdueMs # 0 => /\ deviceMode = "pps" /\ deviceRawMs < overdueMs
                               /\ overdueMs <= PpsPeriodMs - PpsUpperMs
           /\ DeviceTyped
  BY TrackingConstants DEF TrackInv, DeviceTyped, OverdueIsAcrossEdge

\* A frame from before the latest edge looks like most of a second.
LEMMA OverdueFrameTracks ==
    ASSUME TrackInv, NEW behindMs \in Nat, NEW nowUs \in Nat \ {0},
           OverdueFrame(behindMs, nowUs)
    PROVE  TrackInv'
  <1> DEFINE rawMs == deviceRawMs + PpsPeriodMs - behindMs
             deltaMs == PpsPeriodMs - behindMs
  <1>1. /\ initialized /\ overdueMs = 0 /\ deviceMode = "pps"
        /\ behindMs > deviceRawMs /\ behindMs <= LongestGapMs
        /\ Sample(rawMs, nowUs)
        /\ overdueMs' = behindMs /\ leapMs' = leapMs + PpsPeriodMs /\ repeats' = repeats + 1
        /\ UNCHANGED <<deviceMode, deviceRawMs, newestMs, originMs, originUs, floorUs>>
    BY DEF OverdueFrame
  <1>2. behindMs <= PpsPeriodMs - PpsUpperMs
    BY <1>1 DEF LongestGapMs
  <1>3. /\ rawMs \in Nat /\ rawMs < PpsPeriodMs /\ rawMs \in RawMs
        /\ deltaMs \in Nat /\ deltaMs <= CounterFloorMs
        /\ deviceRawMs <= rawMs /\ rawMs - deviceRawMs = deltaMs
        /\ deviceRawMs <= PpsPeriodMs
    BY <1>1, <1>2, DeviceNumbers, TrackingConstants
  <1>4. /\ relative \in Normalizers /\ relative.initialized
        /\ relative.previousRawMs = deviceRawMs /\ previousRawMs = deviceRawMs
    BY <1>1, TrackedState DEF PredecessorMs
  <1>5. FollowsDevice(deltaMs)
    <2>1. \A a, l, p, b \in Int : a + (l + p) - b = a + l - 0 + (p - b)
      OBVIOUS
    <2>2. newestMs \in Int /\ leapMs \in Int /\ PpsPeriodMs \in Int /\ behindMs \in Int
      BY DeviceNumbers, TrackingConstants
    <2>3. newestMs + (leapMs + PpsPeriodMs) - behindMs = newestMs + leapMs - 0 + deltaMs
      BY <2>1, <2>2
    <2>4. leapMs + PpsPeriodMs \in Nat /\ newestMs + (repeats + 1) > newestMs + repeats
          /\ deltaMs + (repeats + 1) > repeats /\ repeats + 1 \in Nat
      BY <1>3, DeviceNumbers, TrackingConstants
    <2> HIDE DEF deltaMs
    <2> QED BY <1>1, <2>3, <2>4, DeviceNumbers DEF FollowsDevice
  <1>6. behindMs # 0
    BY <1>1, DeviceNumbers
  <1>7. rawMs = PredecessorMs'
    BY <1>1, <1>6 DEF PredecessorMs
  <1>8. DeviceTyped'
    <2>1. leapMs + PpsPeriodMs \in Nat /\ repeats + 1 \in Nat
      BY DeviceNumbers, TrackingConstants
    <2> QED BY <1>1, <1>2, <2>1, DeviceNumbers DEF DeviceTyped, OverdueIsAcrossEdge
  <1> HIDE DEF rawMs, deltaMs
  <1>9. ~MeaningChanges(rawMs)
    <2>1. rawMs <= PpsPeriodMs
      BY <1>3, TrackingConstants
    <2> QED BY <1>3, <1>4, <2>1, SecondsKeepMeaning
  <1>10. relative' = Normalize(relative, rawMs, nowUs)
    BY <1>1, <1>9, PlainSample
  <1>11. relative' = Advance(relative, deltaMs, rawMs, nowUs)
    BY <1>3, <1>4, <1>10, ForwardAdvances
  <1>12. ExactTracking' /\ OutputNearTrackedTime'
    BY <1>1, <1>3, <1>5, <1>7, <1>11, AdvanceTracks
  <1> QED BY <1>1, <1>3, <1>8, <1>12, TrackedAfterSample

\* A reboot from the upper half looks like a wrap of the counter.
LEMMA RebootTracks ==
    ASSUME TrackInv, NEW rawMs \in RawMs, NEW nowUs \in Nat \ {0}, Reboot(rawMs, nowUs)
    PROVE  TrackInv'
  <1> DEFINE wrapMs == MaxRawMs + 1 - (deviceRawMs - rawMs)
  <1>1. /\ initialized /\ deviceMode = "counter"
        /\ rawMs > PpsPeriodMs /\ deviceRawMs - rawMs > MaxRawMs \div 2
        /\ Sample(rawMs, nowUs)
        /\ deviceRawMs' = rawMs /\ leapMs' = leapMs + wrapMs /\ repeats' = repeats + 1
        /\ UNCHANGED <<deviceMode, newestMs, originMs, originUs, floorUs, overdueMs>>
    BY DEF Reboot
  <1>2. overdueMs = 0
    BY <1>1, DeviceNumbers
  <1>3. rawMs \in Nat /\ rawMs <= MaxRawMs
    BY TrackingConstants
  <1>4. /\ relative \in Normalizers /\ relative.initialized
        /\ relative.previousRawMs = deviceRawMs /\ previousRawMs = deviceRawMs
    BY <1>1, <1>2, TrackedState DEF PredecessorMs
  <1>5. deviceRawMs > PpsPeriodMs
    <2>1. \A d, r, m, p \in Nat : d - r > m \div 2 /\ 2 * p < m => d > p
      OBVIOUS
    <2> QED BY <1>1, <1>3, <2>1, DeviceNumbers, TrackingConstants
  <1>6. wrapMs \in Nat /\ (MaxRawMs - deviceRawMs) + rawMs + 1 = wrapMs
    BY <1>3, DeviceNumbers, TrackingConstants
  <1>7. FollowsDevice(wrapMs)
    <2>1. \A a, l, w \in Int : a + (l + w) - 0 = a + l - 0 + w
      OBVIOUS
    <2>2. newestMs \in Int /\ leapMs \in Int /\ wrapMs \in Int
      BY <1>6, DeviceNumbers
    <2>3. newestMs + (leapMs + wrapMs) - 0 = newestMs + leapMs - 0 + wrapMs
      BY <2>1, <2>2
    <2>4. leapMs + wrapMs \in Nat /\ newestMs + (repeats + 1) > newestMs + repeats
          /\ wrapMs + (repeats + 1) > repeats /\ repeats + 1 \in Nat
      BY <1>6, DeviceNumbers
    <2> HIDE DEF wrapMs
    <2> QED BY <1>1, <1>2, <2>3, <2>4, DeviceNumbers DEF FollowsDevice
  <1>8. rawMs = PredecessorMs'
    BY <1>1, <1>2 DEF PredecessorMs
  <1>9. DeviceTyped'
    <2>1. leapMs + wrapMs \in Nat /\ repeats + 1 \in Nat
      BY <1>6, DeviceNumbers
    <2> HIDE DEF wrapMs
    <2> QED BY <1>1, <1>2, <2>1, DeviceNumbers DEF DeviceTyped, OverdueIsAcrossEdge
  <1> HIDE DEF wrapMs
  <1>10. relative' = Normalize(relative, rawMs, nowUs)
    BY <1>1, <1>4, <1>5, CountersKeepMeaning, PlainSample
  <1>11. relative' = Advance(relative, wrapMs, rawMs, nowUs)
    BY <1>1, <1>4, <1>6, <1>10, WrapAdvances
  <1>12. ExactTracking' /\ OutputNearTrackedTime'
    BY <1>1, <1>6, <1>7, <1>8, <1>11, AdvanceTracks
  <1> QED BY <1>1, <1>9, <1>12, TrackedAfterSample

\* A change of the signal starts a new time line at the host time of its frame.
LEMMA SwitchModeTracks ==
    ASSUME TrackInv, NEW rawMs \in RawMs, NEW nowUs \in Nat \ {0}, SwitchMode(rawMs, nowUs)
    PROVE  TrackInv'
  <1>1. /\ initialized /\ overdueMs = 0
        /\ deviceMode = "pps"     => rawMs > CounterFloorMs
        /\ deviceMode = "counter" => /\ rawMs < PpsPeriodMs
                                     /\ deviceRawMs > PpsPeriodMs
                                     /\ deviceRawMs < WrapFloorMs
                                     /\ deviceRawMs - rawMs > PpsWrapThresholdMs
        /\ Sample(rawMs, nowUs)
        /\ deviceMode' = IF deviceMode = "pps" THEN "counter" ELSE "pps"
        /\ deviceRawMs' = rawMs /\ originMs' = newestMs /\ originUs' = nowUs
        /\ floorUs' = lastOutputUs /\ repeats' = 0 /\ leapMs' = 0
        /\ UNCHANGED <<newestMs, overdueMs>>
    BY DEF SwitchMode
  <1>2. rawMs \in Nat /\ rawMs <= MaxRawMs /\ lastOutputUs \in Nat
    BY TrackingConstants DEF TrackInv, IInv, TypeOK
  <1>3. previousRawMs = deviceRawMs
    BY <1>1, TrackedState DEF PredecessorMs
  <1>4. MeaningChanges(rawMs)
    <2>1. CASE deviceMode = "pps"
      <3>1. deviceRawMs <= PpsPeriodMs /\ rawMs > CounterFloorMs /\ ~(rawMs < deviceRawMs)
        BY <1>1, <1>2, <2>1, DeviceNumbers, TrackingConstants
      <3> QED BY <1>1, <1>3, <3>1 DEF MeaningChanges, PpsToCounter, SmallBackwardReorder
    <2>2. CASE deviceMode = "counter"
      <3>1. /\ deviceRawMs > PpsPeriodMs /\ ~(deviceRawMs >= WrapFloorMs) /\ rawMs <= PpsPeriodMs
            /\ ~(deviceRawMs - rawMs <= PpsWrapThresholdMs)
        BY <1>1, <1>2, <2>2, DeviceNumbers, TrackingConstants
      <3> QED BY <1>1, <1>3, <3>1
              DEF MeaningChanges, CounterToPpsOrRestart, Is32BitWrap, SmallBackwardReorder
    <2> QED BY <2>1, <2>2, DeviceNumbers DEF DeviceModes
  <1>5. relative' = Normalize(NormalizerAfterReset(nowUs), rawMs, nowUs)
    BY <1>1, <1>4 DEF Sample
  <1>6. relative' = AnchoredAt(nowUs, rawMs, nowUs)
    <2>1. /\ ~NormalizerAfterReset(nowUs).initialized
          /\ NormalizerAfterReset(nowUs).hostAnchorUs = nowUs
      BY DEF NormalizerAfterReset
    <2> QED BY <1>5, <2>1, Zenon DEF Normalize, FirstSample
  <1>7. ExactTracking' /\ OutputNearTrackedTime'
    BY <1>1, <1>6, DeviceNumbers, AnchorTracks
  <1>8. DeviceTyped'
    BY <1>1, <1>2, DeviceNumbers, TrackingConstants
       DEF DeviceTyped, DeviceModes, OverdueIsAcrossEdge
  <1> QED BY <1>1, <1>7, <1>8, TrackedAfterSample

\* A newer frame, in numbers: no gap reaches beyond the next edge or wrap.
LEMMA DeviceAdvances ==
    ASSUME TrackInv, NEW gapMs \in Nat \ {0}, NEW nowUs \in Nat \ {0},
           DeviceGoesOn(gapMs, nowUs), NEW rawMs, rawMs = deviceRawMs'
    PROVE  /\ initialized /\ gapMs <= LongestGapMs /\ Sample(rawMs, nowUs)
           /\ newestMs' = newestMs + gapMs /\ newestMs' \in Nat /\ newestMs < newestMs'
           /\ overdueMs' = 0 /\ deviceMode' = deviceMode
           /\ rawMs \in Nat /\ rawMs \in RawMs
           /\ deviceMode = "pps" => rawMs < PpsPeriodMs /\ gapMs <= PpsPeriodMs - PpsUpperMs
           /\ deviceMode # "pps" => gapMs <= CounterFloorMs - PpsPeriodMs
           /\ rawMs = IF deviceRawMs + gapMs < PeriodMs THEN deviceRawMs + gapMs
                                                        ELSE deviceRawMs + gapMs - PeriodMs
  <1>1. /\ initialized /\ gapMs <= LongestGapMs /\ Sample(rawMs, nowUs)
        /\ newestMs' = newestMs + gapMs /\ overdueMs' = 0 /\ deviceMode' = deviceMode
        /\ rawMs = IF deviceRawMs + gapMs < PeriodMs THEN deviceRawMs + gapMs
                                                     ELSE deviceRawMs + gapMs - PeriodMs
    BY DEF DeviceGoesOn
  <1>2. newestMs + gapMs \in Nat /\ newestMs < newestMs + gapMs
    BY DeviceNumbers
  <1>3. /\ deviceMode = "pps" => gapMs <= PpsPeriodMs - PpsUpperMs
        /\ deviceMode # "pps" => gapMs <= CounterFloorMs - PpsPeriodMs
    BY <1>1 DEF LongestGapMs
  <1>4. /\ deviceMode = "pps" => rawMs \in Nat /\ rawMs < PpsPeriodMs
        /\ deviceMode # "pps" => rawMs \in Nat /\ rawMs <= MaxRawMs
    <2>1. CASE deviceMode = "pps"
      <3>1. PeriodMs = PpsPeriodMs
        BY <2>1 DEF PeriodMs
      <3> QED BY <1>1, <1>3, <2>1, <3>1, DeviceNumbers, TrackingConstants
    <2>2. CASE deviceMode # "pps"
      <3>1. PeriodMs = MaxRawMs + 1
        BY <2>2 DEF PeriodMs
      <3> QED BY <1>1, <1>3, <2>2, <3>1, DeviceNumbers, TrackingConstants
    <2> QED BY <2>1, <2>2
  <1>5. rawMs \in Nat /\ rawMs \in RawMs
    BY <1>4, TrackingConstants
  <1> QED BY <1>1, <1>2, <1>3, <1>4, <1>5

\* The type of what a newer frame leaves.
LEMMA DeviceAdvancesTyped ==
    ASSUME TrackInv, NEW gapMs \in Nat \ {0}, NEW nowUs \in Nat \ {0},
           DeviceGoesOn(gapMs, nowUs),
           originMs' \in Nat, originMs' <= newestMs', originUs' \in Nat, floorUs' \in Nat,
           repeats' \in Nat, leapMs' \in Nat
    PROVE  DeviceTyped'
  <1>1. PICK rawMs : rawMs = deviceRawMs'
    OBVIOUS
  <1>2. /\ newestMs' \in Nat /\ overdueMs' = 0 /\ deviceMode' = deviceMode
        /\ rawMs \in RawMs /\ (deviceMode = "pps" => rawMs < PpsPeriodMs)
    BY <1>1, DeviceAdvances
  <1>3. deviceMode \in DeviceModes /\ 0 \in Nat
    BY DeviceNumbers
  <1> QED BY <1>1, <1>2, <1>3, Zenon DEF DeviceTyped, OverdueIsAcrossEdge

\* The device, the leap and the lateness move by the gap and what was overdue.
LEMMA GapIsFollowed ==
    ASSUME TrackInv, NEW gapMs \in Nat \ {0},
           newestMs' = newestMs + gapMs, newestMs' \in Nat, newestMs < newestMs', overdueMs' = 0,
           UNCHANGED <<originMs, originUs, floorUs, repeats, leapMs>>
    PROVE  FollowsDevice(overdueMs + gapMs) /\ overdueMs + gapMs \in Nat
  <1>1. /\ newestMs \in Nat /\ repeats \in Nat /\ leapMs \in Nat /\ overdueMs \in Nat
    BY DeviceNumbers
  <1>2. \A a, l, v, g \in Nat : (a + g) + l - 0 = a + l - v + (v + g)
    OBVIOUS
  <1>3. (newestMs + gapMs) + leapMs - 0 = newestMs + leapMs - overdueMs + (overdueMs + gapMs)
    BY <1>1, <1>2
  <1>4. /\ (newestMs + gapMs) + repeats > newestMs + repeats
        /\ (overdueMs + gapMs) + repeats > repeats /\ overdueMs + gapMs \in Nat
    BY <1>1
  <1>5. \A d : d = overdueMs + gapMs => FollowsDevice(d)
    BY <1>1, <1>3, <1>4, Zenon DEF FollowsDevice
  <1> QED BY <1>4, <1>5

\* A newer frame advances the time line, across an edge or a wrap too.
LEMMA NextFrameTracks ==
    ASSUME TrackInv, NEW gapMs \in Nat \ {0}, NEW nowUs \in Nat \ {0},
           NextFrame(gapMs, nowUs)
    PROVE  TrackInv'
  <1>1. PICK rawMs : rawMs = deviceRawMs'
    OBVIOUS
  <1>2. /\ DeviceGoesOn(gapMs, nowUs) /\ (overdueMs # 0 => rawMs <= PpsLowerMs)
        /\ UNCHANGED <<originMs, originUs, floorUs, repeats, leapMs>>
    BY <1>1 DEF NextFrame
  <1>3. /\ initialized /\ Sample(rawMs, nowUs)
        /\ newestMs' = newestMs + gapMs /\ newestMs' \in Nat /\ newestMs < newestMs'
        /\ overdueMs' = 0 /\ deviceMode' = deviceMode /\ rawMs \in Nat /\ rawMs \in RawMs
        /\ deviceMode = "pps" => rawMs < PpsPeriodMs /\ gapMs <= PpsPeriodMs - PpsUpperMs
        /\ deviceMode # "pps" => gapMs <= CounterFloorMs - PpsPeriodMs
        /\ rawMs = IF deviceRawMs + gapMs < PeriodMs THEN deviceRawMs + gapMs
                                                     ELSE deviceRawMs + gapMs - PeriodMs
    BY <1>1, <1>2, DeviceAdvances
  <1>4. /\ relative \in Normalizers /\ relative.initialized
        /\ relative.previousRawMs = PredecessorMs /\ previousRawMs = PredecessorMs
    BY <1>3, TrackedState
  <1> DEFINE deltaMs == overdueMs + gapMs
  <1>5. FollowsDevice(deltaMs) /\ deltaMs \in Nat
    BY <1>2, <1>3, GapIsFollowed
  <1>6. rawMs = PredecessorMs'
    BY <1>1, <1>3 DEF PredecessorMs
  <1>7. ASSUME overdueMs # 0
        PROVE  relative' = Advance(relative, deltaMs, rawMs, nowUs)
    <2>1. /\ deviceMode = "pps" /\ deviceRawMs < overdueMs
          /\ overdueMs <= PpsPeriodMs - PpsUpperMs /\ deviceRawMs < PpsPeriodMs
      BY <1>7, DeviceNumbers
    <2>2. PredecessorMs = deviceRawMs + PpsPeriodMs - overdueMs /\ PeriodMs = PpsPeriodMs
      BY <1>7, <2>1 DEF PredecessorMs, PeriodMs
    <2>3. /\ PredecessorMs >= PpsUpperMs /\ PredecessorMs <= PpsPeriodMs
          /\ rawMs <= PpsPeriodMs /\ rawMs <= PpsLowerMs
      BY <1>2, <1>3, <1>7, <2>1, <2>2, DeviceNumbers, TrackingConstants
    <2>4. rawMs = deviceRawMs + gapMs
      BY <1>3, <2>1, <2>2, DeviceNumbers, TrackingConstants
    <2>5. (PpsPeriodMs - PredecessorMs) + rawMs = deltaMs
      BY <2>2, <2>4, DeviceNumbers, TrackingConstants
    <2>6. relative' = Normalize(relative, rawMs, nowUs)
      BY <1>3, <1>4, <2>3, SecondsKeepMeaning, PlainSample
    <2> HIDE DEF deltaMs
    <2> QED BY <1>3, <1>4, <2>3, <2>5, <2>6, RolloverAdvances
  <1>8. ASSUME overdueMs = 0, deviceRawMs + gapMs < PeriodMs
        PROVE  relative' = Advance(relative, deltaMs, rawMs, nowUs)
    <2>1. PredecessorMs = deviceRawMs
      BY <1>8 DEF PredecessorMs
    <2>2. rawMs = deviceRawMs + gapMs
      BY <1>3, <1>8
    <2>3. /\ deviceRawMs <= rawMs /\ rawMs - deviceRawMs = deltaMs
          /\ rawMs - deviceRawMs <= CounterFloorMs
          /\ deviceMode # "pps" => rawMs - deviceRawMs <= CounterFloorMs - PpsPeriodMs
          /\ deviceMode = "pps" => deviceRawMs <= PpsPeriodMs /\ rawMs <= PpsPeriodMs
      BY <1>3, <1>8, <2>2, DeviceNumbers, TrackingConstants
    <2>4. ~MeaningChanges(rawMs)
      BY <1>3, <1>4, <2>1, <2>3, SecondsKeepMeaning, IncrementsKeepMeaning
    <2>5. relative' = Normalize(relative, rawMs, nowUs)
      BY <1>3, <2>4, PlainSample
    <2> HIDE DEF deltaMs
    <2> QED BY <1>3, <1>4, <2>1, <2>3, <2>5, ForwardAdvances
  <1>9. ASSUME overdueMs = 0, ~(deviceRawMs + gapMs < PeriodMs)
        PROVE  relative' = Advance(relative, deltaMs, rawMs, nowUs)
    <2>1. PredecessorMs = deviceRawMs
      BY <1>9 DEF PredecessorMs
    <2>2. rawMs = deviceRawMs + gapMs - PeriodMs
      BY <1>3, <1>9
    <2>3. CASE deviceMode = "pps"
      <3>1. PeriodMs = PpsPeriodMs
        BY <2>3 DEF PeriodMs
      <3>2. /\ deviceRawMs >= PpsUpperMs /\ deviceRawMs <= PpsPeriodMs
            /\ rawMs <= PpsLowerMs /\ rawMs <= PpsPeriodMs
            /\ (PpsPeriodMs - deviceRawMs) + rawMs = deltaMs
        BY <1>3, <1>9, <2>2, <2>3, <3>1, DeviceNumbers, TrackingConstants
      <3>3. relative' = Normalize(relative, rawMs, nowUs)
        BY <1>3, <1>4, <2>1, <3>2, SecondsKeepMeaning, PlainSample
      <3> HIDE DEF deltaMs
      <3> QED BY <1>3, <1>4, <2>1, <3>2, <3>3, RolloverAdvances
    <2>4. CASE deviceMode # "pps"
      <3>1. PeriodMs = MaxRawMs + 1
        BY <2>4 DEF PeriodMs
      <3>2. /\ deviceRawMs >= WrapFloorMs
            /\ (MaxRawMs - deviceRawMs) + rawMs + 1 = deltaMs
        BY <1>3, <1>9, <2>2, <2>4, <3>1, DeviceNumbers, TrackingConstants
      <3>3. deviceRawMs - rawMs > MaxRawMs \div 2
        <4>1. deviceRawMs - rawMs = MaxRawMs + 1 - gapMs
          BY <1>3, <2>2, <3>1, DeviceNumbers, TrackingConstants
        <4>2. \A m, g, c, p, w \in Nat :
                  g <= c - p /\ c - p <= m + 1 - w /\ c < w => m + 1 - g > m \div 2
          OBVIOUS
        <4> QED BY <1>3, <2>4, <4>1, <4>2, TrackingConstants
      <3>4. relative' = Normalize(relative, rawMs, nowUs)
        BY <1>3, <1>4, <2>1, <3>2, WrapsKeepMeaning, PlainSample
      <3> HIDE DEF deltaMs
      <3> QED BY <1>3, <1>4, <2>1, <3>2, <3>3, <3>4, WrapAdvances
    <2> QED BY <2>3, <2>4
  <1>10. relative' = Advance(relative, deltaMs, rawMs, nowUs)
    BY <1>7, <1>8, <1>9
  <1> HIDE DEF deltaMs
  <1>11. ExactTracking' /\ OutputNearTrackedTime'
    BY <1>3, <1>5, <1>6, <1>10, AdvanceTracks
  <1>12. DeviceTyped'
    <2>1. originMs <= newestMs'
      BY <1>3, DeviceNumbers
    <2> QED BY <1>2, <2>1, DeviceNumbers, DeviceAdvancesTyped
  <1> QED BY <1>3, <1>11, <1>12, TrackedAfterSample

\* After an overdue frame and past the lower zone, the time line starts again.
LEMMA RestartTracks ==
    ASSUME TrackInv, NEW gapMs \in Nat \ {0}, NEW nowUs \in Nat \ {0},
           RestartAfterOverdue(gapMs, nowUs)
    PROVE  TrackInv'
  <1>1. PICK rawMs : rawMs = deviceRawMs'
    OBVIOUS
  <1> DEFINE anchorUs == ValueAfter(relative.lastOutputUs, nowUs)
  <1>2. /\ DeviceGoesOn(gapMs, nowUs) /\ overdueMs # 0 /\ rawMs > PpsLowerMs
        /\ originMs' = newestMs' /\ originUs' = anchorUs
        /\ floorUs' = lastOutputUs /\ repeats' = 0 /\ leapMs' = 0
    BY <1>1 DEF RestartAfterOverdue
  <1>3. /\ initialized /\ Sample(rawMs, nowUs)
        /\ newestMs' \in Nat /\ overdueMs' = 0
        /\ rawMs \in Nat /\ rawMs \in RawMs
        /\ deviceMode = "pps" => rawMs < PpsPeriodMs /\ gapMs <= PpsPeriodMs - PpsUpperMs
        /\ rawMs = IF deviceRawMs + gapMs < PeriodMs THEN deviceRawMs + gapMs
                                                     ELSE deviceRawMs + gapMs - PeriodMs
    BY <1>1, <1>2, DeviceAdvances
  <1>4. /\ relative \in Normalizers /\ relative.initialized
        /\ relative.previousRawMs = PredecessorMs /\ previousRawMs = PredecessorMs
        /\ relative.lastOutputUs \in Nat /\ lastOutputUs \in Nat
    BY <1>3, TrackedState
  <1>5. /\ deviceMode = "pps" /\ deviceRawMs < overdueMs
        /\ overdueMs <= PpsPeriodMs - PpsUpperMs /\ deviceRawMs < PpsPeriodMs
    BY <1>2, DeviceNumbers
  <1>6. PredecessorMs = deviceRawMs + PpsPeriodMs - overdueMs /\ PeriodMs = PpsPeriodMs
    BY <1>2, <1>5 DEF PredecessorMs, PeriodMs
  <1>7. rawMs = deviceRawMs + gapMs
    BY <1>3, <1>5, <1>6, DeviceNumbers, TrackingConstants
  <1>8. /\ PredecessorMs <= PpsPeriodMs /\ rawMs <= PpsPeriodMs
        /\ PredecessorMs - rawMs > PpsWrapThresholdMs
        /\ PredecessorMs - rawMs <= PpsPeriodMs
    BY <1>3, <1>5, <1>6, <1>7, DeviceNumbers, TrackingConstants
  <1>9. relative' = Normalize(relative, rawMs, nowUs)
    BY <1>3, <1>4, <1>8, SecondsKeepMeaning, PlainSample
  <1>10. relative' = Restart(relative, rawMs, nowUs)
    BY <1>2, <1>3, <1>4, <1>8, <1>9, LargerStepRestarts
  <1>11. relative' = AnchoredAt(anchorUs, rawMs, nowUs)
    BY <1>10 DEF Restart
  <1>12. anchorUs \in Nat \ {0}
    BY <1>4, ValueAfterIsLater
  <1> HIDE DEF anchorUs
  <1>13. ExactTracking' /\ OutputNearTrackedTime'
    BY <1>1, <1>2, <1>3, <1>11, <1>12, AnchorTracks
  <1>14. DeviceTyped'
    <2>1. \A a \in Nat : a <= a
      OBVIOUS
    <2> QED BY <1>2, <1>3, <1>4, <1>12, <2>1, DeviceAdvancesTyped
  <1> QED BY <1>3, <1>13, <1>14, TrackedAfterSample

\* The first state is tracked: it promises nothing.
LEMMA TrackingInitially == TrackingInit => TrackInv
  <1> SUFFICES ASSUME TrackingInit PROVE TrackInv
    OBVIOUS
  <1>1. Init /\ IInv
    BY InitIInv DEF TrackingInit
  <1>2. DeviceTyped
    BY TrackingConstants DEF TrackingInit, DeviceTyped, OverdueIsAcrossEdge, DeviceModes
  <1>3. Untouched /\ ~initialized
    BY <1>1 DEF TrackingInit, Init, Untouched
  <1> QED BY <1>1, <1>2, <1>3 DEF TrackInv, DeviceTyped, ExactTracking, OutputNearTrackedTime

\* Every step of the device keeps the invariant of tracking.
LEMMA TrackingStep == TrackInv /\ [TrackingNext]_trackingVars => TrackInv'
  <1> SUFFICES ASSUME TrackInv, [TrackingNext]_trackingVars PROVE TrackInv'
    OBVIOUS
  <1>1. ASSUME NEW nowUs \in HostTimes, FirstFrame(nowUs) PROVE TrackInv'
    BY <1>1, TrackingConstants, FirstFrameTracks
  <1>2. ASSUME NEW nowUs \in HostTimes, NEW gapMs \in 1 .. LongestGapMs, NextFrame(gapMs, nowUs)
        PROVE  TrackInv'
    <2>1. gapMs \in Nat \ {0} /\ nowUs \in Nat \ {0}
      BY TrackingConstants
    <2> QED BY <1>2, <2>1, NextFrameTracks
  <1>3. ASSUME NEW nowUs \in HostTimes, NEW gapMs \in 1 .. LongestGapMs,
               RestartAfterOverdue(gapMs, nowUs)
        PROVE  TrackInv'
    <2>1. gapMs \in Nat \ {0} /\ nowUs \in Nat \ {0}
      BY TrackingConstants
    <2> QED BY <1>3, <2>1, RestartTracks
  <1>4. ASSUME NEW nowUs \in HostTimes, NEW behindMs \in 0 .. PpsWrapThresholdMs,
               LateFrame(behindMs, nowUs)
        PROVE  TrackInv'
    <2>1. behindMs \in Nat /\ nowUs \in Nat \ {0}
      BY TrackingConstants
    <2> QED BY <1>4, <2>1, LateFrameTracks
  <1>5. ASSUME NEW nowUs \in HostTimes, NEW behindMs \in 1 .. LongestGapMs,
               OverdueFrame(behindMs, nowUs)
        PROVE  TrackInv'
    <2>1. behindMs \in Nat /\ nowUs \in Nat \ {0}
      BY TrackingConstants
    <2> QED BY <1>5, <2>1, OverdueFrameTracks
  <1>6. ASSUME NEW nowUs \in HostTimes, NEW rawMs \in SampleTimes,
               SwitchMode(rawMs, nowUs) \/ Reboot(rawMs, nowUs)
        PROVE  TrackInv'
    <2>1. rawMs \in RawMs /\ nowUs \in Nat \ {0}
      BY TrackingConstants
    <2> QED BY <1>6, <2>1, SwitchModeTracks, RebootTracks
  <1>7. ASSUME UNCHANGED trackingVars PROVE TrackInv'
    BY <1>7 DEF trackingVars, TrackInv, IInv, TypeOK, LayersAgree, Settled, CandidateUs,
                OverdueIsAcrossEdge, Untouched, ExactTracking, OutputNearTrackedTime, TrackedMs
  <1> QED BY <1>1, <1>2, <1>3, <1>4, <1>5, <1>6, <1>7 DEF TrackingNext

\* The invariant of tracking holds in every reachable state.
THEOREM TrackInvAlways == TrackingSpec => []TrackInv
  BY TrackingInitially, TrackingStep, PTL DEF TrackingSpec

\* The time line is, to the millisecond, the time that has passed on the
\* device since its origin and the leaps that a late frame or a reboot cost:
\* no PPS edge, wrap of the counter or step of the host clock loses or adds
\* one, for every size of the counter, every boundary and every session.
THEOREM TimeLineFollowsDevice == TrackingSpec => []ExactTracking
  <1>1. TrackInv => ExactTracking
    BY DEF TrackInv
  <1> QED BY <1>1, TrackInvAlways, PTL

\* The output never lags the tracked time, and leads it by no more than a
\* microsecond per repeated frame and what the previous time line promised.
THEOREM OutputStaysNearDevice == TrackingSpec => []OutputNearTrackedTime
  <1>1. TrackInv => OutputNearTrackedTime
    BY DEF TrackInv
  <1> QED BY <1>1, TrackInvAlways, PTL
=============================================================================
