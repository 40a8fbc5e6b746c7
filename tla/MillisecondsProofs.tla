------------------------- MODULE MillisecondsProofs -------------------------
(***************************************************************************)
(* Lemmas about RelativeMilliseconds, for every size of the counter and    *)
(* every boundary: what one Normalize of the object returns.  The serial   *)
(* clock and the clock of the UVC session rest on them.                    *)
(***************************************************************************)
EXTENDS RelativeMilliseconds, TLAPS

USE DEF RawMs

(***************************************************************************)
(* One call of the inner normalizer                                        *)
(***************************************************************************)

\* What a normalizer that has seen a sample looks like: it has an output,
\* and that output has reached the anchor plus the logical milliseconds.
Settled(m) ==
    /\ m \in Normalizers
    /\ m.initialized
    /\ m.lastOutputUs > 0
    /\ m.lastOutputUs >= CandidateUs(m)

\* Anchoring at a host time yields a settled normalizer that reports it.
LEMMA AnchoredAtResult ==
    ASSUME NEW anchorUs \in Nat \ {0}, NEW rawMs \in RawMs, NEW nowUs \in Nat
    PROVE  /\ Settled(AnchoredAt(anchorUs, rawMs, nowUs))
           /\ AnchoredAt(anchorUs, rawMs, nowUs).lastOutputUs = anchorUs
  BY RelativeMillisecondsAssumption DEF AnchoredAt, Normalizers, CandidateUs, Settled

\* ValueAfter is later than the last value and has reached the wanted one.
LEMMA ValueAfterIsLater ==
    ASSUME NEW lastUs \in Nat, NEW valueUs \in Nat
    PROVE  /\ ValueAfter(lastUs, valueUs) \in Nat \ {0}
           /\ ValueAfter(lastUs, valueUs) > lastUs
           /\ ValueAfter(lastUs, valueUs) >= valueUs
  BY DEF ValueAfter

\* Restarting moves the output forward.
LEMMA RestartResult ==
    ASSUME NEW n \in Normalizers, NEW rawMs \in RawMs, NEW nowUs \in Nat
    PROVE  /\ Settled(Restart(n, rawMs, nowUs))
           /\ Restart(n, rawMs, nowUs).lastOutputUs > n.lastOutputUs
  <1>1. n.lastOutputUs \in Nat
    BY DEF Normalizers
  <1>2. /\ ValueAfter(n.lastOutputUs, nowUs) \in Nat \ {0}
        /\ ValueAfter(n.lastOutputUs, nowUs) > n.lastOutputUs
    BY <1>1, ValueAfterIsLater
  <1> QED BY <1>2, AnchoredAtResult DEF Restart

\* Advancing by a natural number of milliseconds moves the output forward and
\* takes it at least to the candidate.
LEMMA AdvanceResult ==
    ASSUME NEW n \in Normalizers, n.initialized,
           NEW deltaMs \in Nat, NEW rawMs \in RawMs, NEW nowUs \in Nat
    PROVE  /\ Settled(Advance(n, deltaMs, rawMs, nowUs))
           /\ Advance(n, deltaMs, rawMs, nowUs).lastOutputUs > n.lastOutputUs
  <1> DEFINE advanced == [n EXCEPT !.logicalMs = @ + deltaMs,
                                   !.previousRawMs = rawMs,
                                   !.lastHostUs = nowUs]
             out == ValueAfter(advanced.lastOutputUs, CandidateUs(advanced))
             m == [advanced EXCEPT !.lastOutputUs = out]
  <1>1. n.logicalMs + deltaMs \in Nat
    BY DEF Normalizers
  <1>2. /\ advanced \in Normalizers
        /\ advanced.lastOutputUs = n.lastOutputUs
        /\ advanced.initialized
    BY <1>1 DEF Normalizers
  <1> HIDE DEF advanced
  <1>3. CandidateUs(advanced) \in Nat /\ advanced.lastOutputUs \in Nat
    BY <1>2, RelativeMillisecondsAssumption DEF CandidateUs, Normalizers
  <1>4. /\ out \in Nat \ {0}
        /\ out > n.lastOutputUs
        /\ out >= CandidateUs(advanced)
    BY <1>2, <1>3, ValueAfterIsLater
  <1> HIDE DEF out
  <1>5. /\ m \in Normalizers
        /\ m.initialized
        /\ m.lastOutputUs = out
        /\ m.hostAnchorUs = advanced.hostAnchorUs
        /\ m.logicalMs = advanced.logicalMs
    BY <1>2, <1>4 DEF Normalizers
  <1>6. CandidateUs(m) = CandidateUs(advanced)
    BY <1>5 DEF CandidateUs
  <1>7. Advance(n, deltaMs, rawMs, nowUs) = m
    BY DEF Advance, advanced, out
  <1> HIDE DEF m
  <1> QED BY <1>4, <1>5, <1>6, <1>7 DEF Settled

\* A small step back adds a microsecond to the output and nothing else.
LEMMA SmallStepBackResult ==
    ASSUME NEW n, Settled(n)
    PROVE  /\ Settled(SmallStepBack(n))
           /\ SmallStepBack(n).lastOutputUs > n.lastOutputUs
  <1> DEFINE m == SmallStepBack(n)
  <1>1. /\ m \in Normalizers
        /\ m.initialized
        /\ m.lastOutputUs = n.lastOutputUs + 1
        /\ CandidateUs(m) = CandidateUs(n)
    BY DEF SmallStepBack, Normalizers, CandidateUs, Settled
  <1>2. CandidateUs(n) \in Nat /\ n.lastOutputUs \in Nat
    BY RelativeMillisecondsAssumption DEF CandidateUs, Normalizers, Settled
  <1> HIDE DEF m
  <1>3. Settled(m) /\ m.lastOutputUs > n.lastOutputUs
    BY <1>1, <1>2 DEF Settled
  <1> QED BY <1>3 DEF m

\* One call returns a settled normalizer, with a later output than the one
\* before if there was one.
LEMMA NormalizeResult ==
    ASSUME NEW n \in Normalizers, NEW rawMs \in RawMs, NEW nowUs \in Nat \ {0},
           n.initialized => Settled(n)
    PROVE  /\ Settled(Normalize(n, rawMs, nowUs))
           /\ n.initialized => Normalize(n, rawMs, nowUs).lastOutputUs > n.lastOutputUs
  <1>1. CASE ~n.initialized
    <2> DEFINE anchorUs == IF n.hostAnchorUs # 0 THEN n.hostAnchorUs ELSE nowUs
    <2>1. Normalize(n, rawMs, nowUs) = AnchoredAt(anchorUs, rawMs, nowUs)
      BY <1>1 DEF Normalize, FirstSample
    <2>2. anchorUs \in Nat \ {0}
      BY DEF Normalizers
    <2> HIDE DEF anchorUs
    <2> QED BY <1>1, <2>1, <2>2, AnchoredAtResult
  <1>2. CASE n.initialized /\ rawMs >= n.previousRawMs
    <2> DEFINE deltaMs == rawMs - n.previousRawMs
    <2>1. deltaMs \in Nat
      BY <1>2 DEF Normalizers
    <2>2. \/ Normalize(n, rawMs, nowUs) = Restart(n, rawMs, nowUs)
          \/ Normalize(n, rawMs, nowUs) = Advance(n, deltaMs, rawMs, nowUs)
      BY <1>2 DEF Normalize, ForwardStep
    <2> HIDE DEF deltaMs
    <2> QED BY <1>2, <2>1, <2>2, RestartResult, AdvanceResult
  <1>3. CASE n.initialized /\ ~(rawMs >= n.previousRawMs)
    <2>1. CounterWrapDeltaMs(n, rawMs) \in Nat
      BY RelativeMillisecondsAssumption DEF CounterWrapDeltaMs, Normalizers
    <2>2. IsPpsRollover(n, rawMs) => PpsRolloverDeltaMs(n, rawMs) \in Nat
      BY RelativeMillisecondsAssumption DEF IsPpsRollover, PpsRolloverDeltaMs, Normalizers
    <2>3. Normalize(n, rawMs, nowUs) = BackwardStep(n, rawMs, nowUs)
      BY <1>3 DEF Normalize
    <2>4. CASE IsCounterWrap(n, rawMs)
      BY <1>3, <2>1, <2>3, <2>4, AdvanceResult DEF BackwardStep
    <2>5. CASE ~IsCounterWrap(n, rawMs) /\ IsPpsRollover(n, rawMs)
      BY <1>3, <2>2, <2>3, <2>5, AdvanceResult DEF BackwardStep
    <2>6. CASE /\ ~IsCounterWrap(n, rawMs) /\ ~IsPpsRollover(n, rawMs)
               /\ IsSmallStepBack(n, rawMs)
      BY <1>3, <2>3, <2>6, SmallStepBackResult DEF BackwardStep
    <2>7. CASE /\ ~IsCounterWrap(n, rawMs) /\ ~IsPpsRollover(n, rawMs)
               /\ ~IsSmallStepBack(n, rawMs)
      BY <2>3, <2>7, RestartResult DEF BackwardStep
    <2> QED BY <2>4, <2>5, <2>6, <2>7
  <1> QED BY <1>1, <1>2, <1>3, Zenon

\* The counters can hold 0.
LEMMA ZeroIsRaw == 0 \in RawMs
  BY RelativeMillisecondsAssumption

\* A normalizer that was just reset is well formed and has no output.
LEMMA ResetResult ==
    ASSUME NEW anchorUs \in Nat
    PROVE  /\ NormalizerAfterReset(anchorUs) \in Normalizers
           /\ ~NormalizerAfterReset(anchorUs).initialized
  BY RelativeMillisecondsAssumption DEF NormalizerAfterReset, Normalizers
=============================================================================
