---------------------------- MODULE SerialClock ----------------------------
(***************************************************************************)
(* SerialTimestampNormalizer (timestamp_normalizer.cpp 235-273) as the     *)
(* serial packet source drives it (packet_source_serial.cpp 31, 61, 124):  *)
(* one Normalize per data frame with the host time read at that moment,    *)
(* and a Reset when the source is opened or closed.                        *)
(*                                                                         *)
(* The serial device sends either a free running 32-bit counter or, with a *)
(* PPS signal, the milliseconds since the last edge; it may change from    *)
(* one to the other, and nothing in a frame says which it is.              *)
(***************************************************************************)
EXTENDS RelativeMilliseconds

CONSTANTS CounterFloorMs,   \* 1500: more than any PPS phase
          WrapFloorMs,      \* 0xfffff000: close to the 32-bit wrap
          SampleTimes,      \* raw times a frame may carry
          HostTimes,        \* host times at which a frame may be read
          OutputLimit       \* bound of the model: no sample beyond this output

ASSUME SerialClockAssumption ==
    /\ CounterFloorMs \in Nat /\ PpsPeriodMs < CounterFloorMs
    /\ WrapFloorMs \in RawMs /\ CounterFloorMs < WrapFloorMs
    /\ SampleTimes \subseteq RawMs
    /\ HostTimes \subseteq Nat \ {0}
    /\ OutputLimit \in Nat

VARIABLES relative,       \* relativeNormalizer_
          initialized,    \* initialized_
          previousRawMs,  \* previousRawMilliseconds_
          lastOutputUs    \* lastOutputUs_

clockVars == <<relative, initialized, previousRawMs, lastOutputUs>>

TypeOK ==
    /\ relative \in Normalizers
    /\ initialized \in BOOLEAN
    /\ previousRawMs \in RawMs
    /\ lastOutputUs \in Nat

Init ==
    /\ relative = NormalizerAfterReset(0)
    /\ initialized = FALSE
    /\ previousRawMs = 0
    /\ lastOutputUs = 0

SmallBackwardReorder(rawMs) ==
    /\ rawMs < previousRawMs
    /\ previousRawMs - rawMs <= PpsWrapThresholdMs

PpsToCounter(rawMs) ==
    /\ previousRawMs <= PpsPeriodMs
    /\ rawMs > CounterFloorMs

Is32BitWrap(rawMs) ==
    /\ previousRawMs >= WrapFloorMs
    /\ rawMs <= PpsPeriodMs

CounterToPpsOrRestart(rawMs) ==
    /\ previousRawMs > PpsPeriodMs
    /\ ~Is32BitWrap(rawMs)
    /\ rawMs <= PpsPeriodMs

\* A mutant: the guard against reordered frames is missing.
EagerMeaningChanges(rawMs) ==
    /\ initialized
    /\ PpsToCounter(rawMs) \/ CounterToPpsOrRestart(rawMs)

\* The frame's time means something else than its predecessor's did.
MeaningChanges(rawMs) ==
    /\ initialized
    /\ ~SmallBackwardReorder(rawMs)
    /\ PpsToCounter(rawMs) \/ CounterToPpsOrRestart(rawMs)

\* A mutant: the outer clamp is missing, so a reset of the inner normalizer
\* shows through when the host clock has stepped back.
UnclampedOutputUs(valueUs) == valueUs

OutputUs(valueUs) ==
    IF lastOutputUs # 0 /\ valueUs <= lastOutputUs THEN lastOutputUs + 1 ELSE valueUs

\* A mutant: the outer normalizer remembers the frame that it was given.
SampleRememberingFrame(rawMs, nowUs) ==
    /\ lastOutputUs < OutputLimit
    /\ relative' = Normalize(IF MeaningChanges(rawMs) THEN NormalizerAfterReset(nowUs)
                                                      ELSE relative,
                             rawMs, nowUs)
    /\ initialized' = TRUE
    /\ previousRawMs' = rawMs
    /\ lastOutputUs' = OutputUs(relative'.lastOutputUs)

Sample(rawMs, nowUs) ==
    /\ lastOutputUs < OutputLimit
    /\ relative' = Normalize(IF MeaningChanges(rawMs) THEN NormalizerAfterReset(nowUs)
                                                      ELSE relative,
                             rawMs, nowUs)
    /\ initialized' = TRUE
    /\ previousRawMs' = relative'.previousRawMs
    /\ lastOutputUs' = OutputUs(relative'.lastOutputUs)

Reset ==
    /\ relative' = NormalizerAfterReset(0)
    /\ initialized' = FALSE
    /\ previousRawMs' = 0
    /\ lastOutputUs' = 0

Next ==
    \/ \E rawMs \in SampleTimes, nowUs \in HostTimes : Sample(rawMs, nowUs)
    \/ Reset

Spec == Init /\ [][Next]_clockVars

(***************************************************************************)
(* Properties                                                              *)
(***************************************************************************)

\* Within a session the time of a frame is later than that of the frame
\* before it, whatever the device counter and the host clock do: reordered
\* frames, both kinds of roll-over, counter restarts, changes between PPS
\* phase and counter, and a host clock that is set back.  The restarts of the
\* inner normalizer clear its own last output, so the outer clamp (266-268)
\* and the inner one (81, 108, 124) have to cooperate.
StrictlyIncreasing ==
    [][initialized /\ initialized' => lastOutputUs' > lastOutputUs]_clockVars

\* The outer object reports at least what the inner one does, and compares
\* the next frame with the very sample that the inner one continues from
\* (270); an outer predecessor of its own would classify a frame after a
\* reordered one by the wrong distance.
LayersAgree ==
    /\ initialized = relative.initialized
    /\ initialized => /\ previousRawMs = relative.previousRawMs
                      /\ lastOutputUs >= relative.lastOutputUs
                      /\ relative.lastOutputUs >= CandidateUs(relative)
=============================================================================
