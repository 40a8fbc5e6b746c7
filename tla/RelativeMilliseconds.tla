------------------------ MODULE RelativeMilliseconds ------------------------
(***************************************************************************)
(* RelativeMillisecondNormalizer (timestamp_normalizer.cpp 37-130): turns  *)
(* a 32-bit millisecond counter of a device, or a millisecond phase that a *)
(* PPS edge resets once per second, into microseconds of host time.        *)
(*                                                                         *)
(* The object is a record and every method an operator on records.  Its    *)
(* return value is always the new lastOutputUs.  restartAnchorUs_ is never *)
(* read and hasHostObservation_ is true exactly when initialized_ is, so   *)
(* neither is a field.                                                     *)
(***************************************************************************)
EXTENDS HostAnchoring

CONSTANTS UsPerMs,             \* kMicrosecondsPerMillisecond
          PpsPeriodMs,         \* kPpsPeriodMilliseconds
          PpsWrapThresholdMs,  \* kPpsWrapThresholdMilliseconds
          PpsUpperMs,          \* kPpsUpperBoundaryMilliseconds
          PpsLowerMs,          \* kPpsLowerBoundaryMilliseconds
          MaxRawMs             \* numeric_limits<uint32_t>::max()

ASSUME RelativeMillisecondsAssumption ==
    /\ UsPerMs \in Nat \ {0}
    /\ PpsPeriodMs \in Nat /\ PpsWrapThresholdMs \in Nat
    /\ PpsUpperMs \in Nat /\ PpsLowerMs \in Nat
    /\ MaxRawMs \in Nat
    /\ PpsLowerMs < PpsWrapThresholdMs
    /\ PpsWrapThresholdMs < PpsUpperMs
    /\ PpsUpperMs < PpsPeriodMs
    /\ PpsWrapThresholdMs < PpsUpperMs - PpsLowerMs
    /\ 2 * PpsPeriodMs < MaxRawMs

RawMs == 0 .. MaxRawMs

Normalizers == [hostAnchorUs : Nat, initialized : BOOLEAN, previousRawMs : RawMs,
                logicalMs : Nat, lastOutputUs : Nat, lastHostUs : Nat]

\* Reset(hostAnchorUs); the default argument 0 means "anchor to the first sample".
NormalizerAfterReset(anchorUs) ==
    [hostAnchorUs |-> anchorUs, initialized |-> FALSE, previousRawMs |-> 0,
     logicalMs |-> 0, lastOutputUs |-> 0, lastHostUs |-> 0]

\* The time line (re)starts at anchorUs with this sample.
AnchoredAt(anchorUs, rawMs, nowUs) ==
    [hostAnchorUs |-> anchorUs, initialized |-> TRUE, previousRawMs |-> rawMs,
     logicalMs |-> 0, lastOutputUs |-> anchorUs, lastHostUs |-> nowUs]

FirstSample(n, rawMs, nowUs) ==
    AnchoredAt(IF n.hostAnchorUs # 0 THEN n.hostAnchorUs ELSE nowUs, rawMs, nowUs)

Restart(n, rawMs, nowUs) ==
    AnchoredAt(ValueAfter(n.lastOutputUs, nowUs), rawMs, nowUs)

\* A reordered or duplicated frame: the predecessor is kept.
SmallStepBack(n) == [n EXCEPT !.lastOutputUs = @ + 1]

CandidateUs(n) == n.hostAnchorUs + n.logicalMs * UsPerMs

Advance(n, deltaMs, rawMs, nowUs) ==
    LET advanced == [n EXCEPT !.logicalMs = @ + deltaMs,
                              !.previousRawMs = rawMs,
                              !.lastHostUs = nowUs]
    IN [advanced EXCEPT !.lastOutputUs = ValueAfter(@, CandidateUs(advanced))]

IsCounterWrap(n, rawMs) == n.previousRawMs - rawMs > MaxRawMs \div 2

IsPpsRollover(n, rawMs) ==
    /\ n.previousRawMs >= PpsUpperMs
    /\ n.previousRawMs <= PpsPeriodMs
    /\ rawMs <= PpsLowerMs
    /\ n.previousRawMs - rawMs > PpsWrapThresholdMs

IsSmallStepBack(n, rawMs) == n.previousRawMs - rawMs <= PpsWrapThresholdMs

\* A mutant: one millisecond is lost at every 32-bit wrap.
ShortCounterWrapDeltaMs(n, rawMs) == (MaxRawMs - n.previousRawMs) + rawMs

\* A mutant: the difference of two wide integers does not wrap.
SignedCounterWrapDeltaMs(n, rawMs) == rawMs - n.previousRawMs

CounterWrapDeltaMs(n, rawMs) == (MaxRawMs - n.previousRawMs) + rawMs + 1

PpsRolloverDeltaMs(n, rawMs) == (PpsPeriodMs - n.previousRawMs) + rawMs

ForwardStep(n, rawMs, nowUs) ==
    LET deltaMs == rawMs - n.previousRawMs
    IN IF HostElapsedIsMuchSmaller(deltaMs * UsPerMs, HostElapsedUs(n, nowUs))
       THEN Restart(n, rawMs, nowUs)
       ELSE Advance(n, deltaMs, rawMs, nowUs)

BackwardStep(n, rawMs, nowUs) ==
    IF IsCounterWrap(n, rawMs)
    THEN Advance(n, CounterWrapDeltaMs(n, rawMs), rawMs, nowUs)
    ELSE IF IsPpsRollover(n, rawMs)
    THEN Advance(n, PpsRolloverDeltaMs(n, rawMs), rawMs, nowUs)
    ELSE IF IsSmallStepBack(n, rawMs)
    THEN SmallStepBack(n)
    ELSE Restart(n, rawMs, nowUs)

Normalize(n, rawMs, nowUs) ==
    IF ~n.initialized
    THEN FirstSample(n, rawMs, nowUs)
    ELSE IF rawMs >= n.previousRawMs
    THEN ForwardStep(n, rawMs, nowUs)
    ELSE BackwardStep(n, rawMs, nowUs)
=============================================================================
