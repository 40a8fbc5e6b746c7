--------------------------- MODULE UdpClockProofs ---------------------------
(***************************************************************************)
(* Proofs about UdpClock and UdpClockTracking for every value of their     *)
(* constants: what one Normalize of the relative normalizer returns, and   *)
(* from it that a session keeps one mode, that its timestamps increase,    *)
(* that a trusted clock is passed on, and that the relative clock drifts   *)
(* from the device by less than a microsecond a datagram.                  *)
(***************************************************************************)
EXTENDS UdpClockTracking, TLAPS

(***************************************************************************)
(* One call of the relative normalizer                                     *)
(***************************************************************************)

\* A normalizer that has seen a sample has an output.
Settled(m) ==
    /\ m \in Normalizers
    /\ m.initialized
    /\ m.lastOutputUs > 0

\* A datagram brings a time of the device's clock, and is read at a host time.
\* The numbers of the two clocks are integers.
LEMMA Conversions ==
    ASSUME NEW sec \in RawSec, NEW ns \in RawNs
    PROVE  /\ EpochUs(sec, ns) \in Nat
           /\ IsEpoch(sec) => EpochUs(sec, ns) > 0
  <1>1. sec \in Nat /\ ns \in Nat /\ NsPerUs \in Nat \ {0} /\ UsPerSec \in Nat \ {0}
    BY RelativeSecondsAssumption DEF RawSec, RawNs, NsPerSec
  <1>2. ns \div NsPerUs \in Nat
    BY <1>1
  <1>3. sec * UsPerSec \in Nat
    BY <1>1
  <1>4. IsEpoch(sec) => sec > 0
    BY <1>1, UdpClockAssumption DEF IsEpoch, RawSec
  <1>5. sec > 0 => sec * UsPerSec > 0
    BY <1>1
  <1> QED BY <1>2, <1>3, <1>4, <1>5 DEF EpochUs

\* The distance of two samples is an integer.
LEMMA DeltaUsType ==
    ASSUME NEW n \in Normalizers, NEW sec \in RawSec, NEW ns \in RawNs
    PROVE  DeltaUs(n, sec, ns) \in Int
  <1>1. n.previousRawSec \in RawSec /\ n.previousRawNs \in RawNs
    BY DEF Normalizers
  <1>2. /\ sec \in Int /\ n.previousRawSec \in Int /\ MaxRawSec \in Int
        /\ ns \in Int /\ n.previousRawNs \in Int
        /\ UsPerSec \in Int
        /\ NsPerUs \in Nat \ {0}
    BY <1>1, RelativeSecondsAssumption DEF RawSec, RawNs, NsPerSec
  <1>3. DeltaSec(n, sec) \in Int
    BY <1>2 DEF DeltaSec
  <1>4. TruncatedUs(ns - n.previousRawNs) \in Int
    <2>1. ASSUME NEW d \in Int PROVE TruncatedUs(d) \in Int
      BY <2>1, <1>2 DEF TruncatedUs
    <2> QED BY <2>1, <1>2
  <1>5. DeltaSec(n, sec) * UsPerSec \in Int
    BY <1>2, <1>3
  <1> QED BY <1>4, <1>5 DEF DeltaUs

\* Anchoring at a host time yields a settled normalizer that reports it.
LEMMA AnchoredAtResult ==
    ASSUME NEW anchorUs \in Nat \ {0}, NEW sec \in RawSec, NEW ns \in RawNs, NEW nowUs \in Nat
    PROVE  /\ Settled(AnchoredAt(anchorUs, sec, ns, nowUs))
           /\ AnchoredAt(anchorUs, sec, ns, nowUs).lastOutputUs = anchorUs
  BY DEF AnchoredAt, Normalizers, Settled

\* ValueAfter is later than the last value.
LEMMA ValueAfterIsLater ==
    ASSUME NEW lastUs \in Nat, NEW valueUs \in Nat
    PROVE  /\ ValueAfter(lastUs, valueUs) \in Nat \ {0}
           /\ ValueAfter(lastUs, valueUs) > lastUs
  BY DEF ValueAfter

\* Restarting moves the output forward.
LEMMA RestartResult ==
    ASSUME NEW n \in Normalizers, NEW sec \in RawSec, NEW ns \in RawNs, NEW nowUs \in Nat
    PROVE  /\ Settled(Restart(n, sec, ns, nowUs))
           /\ Restart(n, sec, ns, nowUs).lastOutputUs > n.lastOutputUs
  <1>1. n.lastOutputUs \in Nat
    BY DEF Normalizers
  <1>2. /\ ValueAfter(n.lastOutputUs, nowUs) \in Nat \ {0}
        /\ ValueAfter(n.lastOutputUs, nowUs) > n.lastOutputUs
    BY <1>1, ValueAfterIsLater
  <1> QED BY <1>2, AnchoredAtResult DEF Restart

\* A step back adds a microsecond and keeps the predecessor.
LEMMA StepBackResult ==
    ASSUME NEW n \in Normalizers, n.initialized
    PROVE  /\ Settled(StepBack(n))
           /\ StepBack(n).lastOutputUs > n.lastOutputUs
  <1>1. n.lastOutputUs \in Nat
    BY DEF Normalizers
  <1>2. /\ StepBack(n) \in Normalizers
        /\ StepBack(n).initialized
        /\ StepBack(n).lastOutputUs = n.lastOutputUs + 1
    BY <1>1 DEF StepBack, Normalizers
  <1> QED BY <1>1, <1>2 DEF Settled

\* Advancing by a distance that is not negative moves the output forward.
LEMMA AdvanceResult ==
    ASSUME NEW n \in Normalizers, n.initialized, NEW deltaUs \in Nat,
           NEW sec \in RawSec, NEW ns \in RawNs, NEW nowUs \in Nat
    PROVE  /\ Settled(Advance(n, deltaUs, sec, ns, nowUs))
           /\ Advance(n, deltaUs, sec, ns, nowUs).lastOutputUs > n.lastOutputUs
  <1> DEFINE advanced == [n EXCEPT !.logicalUs = @ + deltaUs,
                                   !.previousRawSec = sec,
                                   !.previousRawNs = ns,
                                   !.lastHostUs = nowUs]
             out == ValueAfter(advanced.lastOutputUs, CandidateUs(advanced))
             m == [advanced EXCEPT !.lastOutputUs = out]
  <1>1. n.logicalUs + deltaUs \in Nat
    BY DEF Normalizers
  <1>2. /\ advanced \in Normalizers
        /\ advanced.initialized
        /\ advanced.lastOutputUs = n.lastOutputUs
    BY <1>1 DEF Normalizers
  <1> HIDE DEF advanced
  <1>3. CandidateUs(advanced) \in Nat /\ n.lastOutputUs \in Nat
    BY <1>2 DEF CandidateUs, Normalizers
  <1>4. out \in Nat \ {0} /\ out > n.lastOutputUs
    BY <1>2, <1>3, ValueAfterIsLater
  <1> HIDE DEF out
  <1>5. m \in Normalizers /\ m.initialized /\ m.lastOutputUs = out
    BY <1>2, <1>4 DEF Normalizers
  <1>6. Advance(n, deltaUs, sec, ns, nowUs) = m
    BY DEF Advance, advanced, out
  <1> HIDE DEF m
  <1> QED BY <1>4, <1>5, <1>6 DEF Settled

\* One call returns a settled normalizer, with a later output than the one
\* before if there was one.
LEMMA NormalizeResult ==
    ASSUME NEW n \in Normalizers, NEW sec \in RawSec, NEW ns \in RawNs,
           NEW nowUs \in Nat \ {0}
    PROVE  /\ Settled(Normalize(n, sec, ns, nowUs))
           /\ n.initialized => Normalize(n, sec, ns, nowUs).lastOutputUs > n.lastOutputUs
  <1>1. CASE ~n.initialized
    <2>1. n.hostAnchorUs \in Nat
      BY DEF Normalizers
    <2>2. (IF n.hostAnchorUs # 0 THEN n.hostAnchorUs ELSE nowUs) \in Nat \ {0}
      BY <2>1
    <2>3. Settled(FirstSample(n, sec, ns, nowUs))
      BY <2>2, AnchoredAtResult DEF FirstSample
    <2> QED BY <1>1, <2>3 DEF Normalize
  <1>2. CASE n.initialized
    <2>1. ASSUME n.initialized
          PROVE  /\ Settled(StepForward(n, sec, ns, nowUs))
                 /\ StepForward(n, sec, ns, nowUs).lastOutputUs > n.lastOutputUs
      <3> DEFINE deltaUs == DeltaUs(n, sec, ns)
      <3>1. deltaUs \in Int
        BY DeltaUsType
      <3> HIDE DEF deltaUs
      <3>2. CASE deltaUs < 0
        BY <1>2, <3>2, StepBackResult DEF StepForward, deltaUs
      <3>3. CASE /\ ~(deltaUs < 0)
                 /\ HostElapsedIsMuchSmaller(deltaUs, HostElapsedUs(n, nowUs))
        BY <3>3, RestartResult DEF StepForward, deltaUs
      <3>4. CASE /\ ~(deltaUs < 0)
                 /\ ~HostElapsedIsMuchSmaller(deltaUs, HostElapsedUs(n, nowUs))
        <4>1. deltaUs \in Nat
          BY <3>1, <3>4
        <4>2. StepForward(n, sec, ns, nowUs) = Advance(n, deltaUs, sec, ns, nowUs)
          BY <3>4 DEF StepForward, deltaUs
        <4> QED BY <1>2, <4>1, <4>2, AdvanceResult
      <3> QED BY <3>2, <3>3, <3>4
    <2>2. CASE sec >= n.previousRawSec \/ IsSecondsWrap(n, sec)
      BY <1>2, <2>1, <2>2 DEF Normalize
    <2>3. CASE /\ ~(sec >= n.previousRawSec \/ IsSecondsWrap(n, sec))
               /\ BackwardSec(n, sec) <= 1
      BY <1>2, <2>3, StepBackResult DEF Normalize
    <2>4. CASE /\ ~(sec >= n.previousRawSec \/ IsSecondsWrap(n, sec))
               /\ ~(BackwardSec(n, sec) <= 1)
      BY <1>2, <2>4, RestartResult DEF Normalize
    <2> QED BY <2>2, <2>3, <2>4
  <1> QED BY <1>1, <1>2, Zenon

(***************************************************************************)
(* The session                                                             *)
(***************************************************************************)

\* The inductive invariant: the two modes keep clocks of their own, a trusted
\* clock has been passed on, and a session that trusts no clock has no epoch
\* time to compare with.  The last part is needed by the datagram that settles
\* the mode.
IInv ==
    /\ TypeOK
    /\ OneClockPerSession
    /\ EpochPassedOn
    /\ mode # "Epoch" => newestEpochUs = 0 /\ surplus = 0

\* A normalizer that was just reset is well formed and has no output.
LEMMA ResetResult ==
    /\ NormalizerAfterReset(0) \in Normalizers
    /\ ~NormalizerAfterReset(0).initialized
  <1>1. 0 \in RawSec
    BY RelativeSecondsAssumption DEF RawSec
  <1>2. 0 \in RawNs
    <2>1. NsPerUs * UsPerSec > 0 /\ NsPerUs * UsPerSec \in Nat
      BY RelativeSecondsAssumption
    <2> QED BY <2>1 DEF RawNs, NsPerSec
  <1> QED BY <1>1, <1>2 DEF NormalizerAfterReset, Normalizers

\* The state after construction and after a Reset satisfies the invariant.
LEMMA InitIInv == Init => IInv
  <1> SUFFICES ASSUME Init PROVE IInv
    OBVIOUS
  <1>1. /\ mode = "Unknown" /\ relative = NormalizerAfterReset(0)
        /\ lastTimestampUs = 0 /\ newestEpochUs = 0 /\ surplus = 0
    BY DEF Init
  <1>2. TypeOK
    BY <1>1, ResetResult DEF TypeOK, Modes
  <1>3. OneClockPerSession
    BY <1>1, ResetResult DEF OneClockPerSession
  <1> QED BY <1>1, <1>2, <1>3 DEF IInv, EpochPassedOn

\* What the clamp adds to a value.
LEMMA ClampedUsResult ==
    ASSUME lastTimestampUs \in Nat, NEW valueUs \in Nat \ {0}
    PROVE  /\ ClampedUs(valueUs) \in Nat \ {0}
           /\ ClampedUs(valueUs) > lastTimestampUs
           /\ ClampedUs(valueUs) >= valueUs
           /\ ClampedUs(valueUs) = valueUs \/ ClampedUs(valueUs) = lastTimestampUs + 1
  BY DEF ClampedUs

\* A datagram of a relative session runs the relative clock.
LEMMA RelativeDatagram ==
    ASSUME IInv, NEW sec \in RawSec, NEW ns \in RawNs,
           NEW checkedUs \in Nat, NEW nowUs \in Nat \ {0},
           Datagram(sec, ns, checkedUs, nowUs), mode' = "Relative"
    PROVE  IInv' /\ lastTimestampUs' > lastTimestampUs
  <1>1. /\ relative' = Normalize(relative, sec, ns, nowUs)
        /\ lastTimestampUs' = ClampedUs(relative'.lastOutputUs)
        /\ newestEpochUs' = newestEpochUs /\ surplus' = surplus
    BY Zenon DEF Datagram
  <1>2. mode # "Epoch"
    BY DEF Datagram, SettledMode
  <1>3. Settled(relative')
    BY <1>1, NormalizeResult DEF IInv, TypeOK
  <1>4. relative' \in Normalizers /\ relative'.lastOutputUs \in Nat \ {0}
    BY <1>3 DEF Settled, Normalizers
  <1>5. /\ lastTimestampUs' \in Nat \ {0}
        /\ lastTimestampUs' > lastTimestampUs
        /\ lastTimestampUs' >= relative'.lastOutputUs
    BY <1>1, <1>4, ClampedUsResult DEF IInv, TypeOK
  <1>6. relative'.initialized
    BY <1>3 DEF Settled
  <1>7. newestEpochUs' = 0 /\ surplus' = 0
    BY <1>1, <1>2 DEF IInv
  <1>8. TypeOK'
    BY <1>4, <1>5, <1>7 DEF TypeOK, Modes
  <1>9. OneClockPerSession'
    BY <1>5, <1>6 DEF OneClockPerSession
  <1> QED BY <1>5, <1>7, <1>8, <1>9 DEF IInv, EpochPassedOn

\* A datagram of a session that trusts the device's clock passes it on.
LEMMA EpochDatagram ==
    ASSUME IInv, NEW sec \in RawSec, NEW ns \in RawNs,
           NEW checkedUs \in Nat, NEW nowUs \in Nat \ {0},
           Datagram(sec, ns, checkedUs, nowUs), mode' # "Relative"
    PROVE  IInv' /\ lastTimestampUs' > lastTimestampUs /\ mode' = "Epoch"
  <1>1. /\ mode' = "Epoch"
        /\ mode = "Epoch" \/ (mode = "Unknown" /\ IsEpoch(sec))
    BY DEF Datagram, SettledMode, IInv, TypeOK, Modes
  <1>2. /\ relative' = relative
        /\ lastTimestampUs' =
               ClampedUs(IF IsEpoch(sec) THEN EpochUs(sec, ns)
                         ELSE IF lastTimestampUs = 0 THEN nowUs
                         ELSE lastTimestampUs + 1)
    BY DEF Datagram
  <1>3. /\ mode \in Modes /\ relative \in Normalizers
        /\ lastTimestampUs \in Nat /\ newestEpochUs \in Nat /\ surplus \in Nat
    BY DEF IInv, TypeOK
  <1>4. /\ mode = "Unknown" => lastTimestampUs = 0 /\ newestEpochUs = 0 /\ surplus = 0
        /\ mode = "Epoch" => /\ lastTimestampUs # 0
                             /\ newestEpochUs <= lastTimestampUs
                             /\ lastTimestampUs <= newestEpochUs + surplus
        /\ ~relative.initialized
    BY <1>1 DEF IInv, OneClockPerSession, EpochPassedOn
  <1>5. /\ newestEpochUs' \in Nat /\ surplus' \in Nat
        /\ lastTimestampUs' \in Nat \ {0} /\ lastTimestampUs' > lastTimestampUs
        /\ newestEpochUs' <= lastTimestampUs'
        /\ lastTimestampUs' <= newestEpochUs' + surplus'
    <2>1. CASE IsEpoch(sec)
      <3> DEFINE valueUs == EpochUs(sec, ns)
      <3>1. valueUs \in Nat \ {0}
        BY <2>1, Conversions
      <3>2. lastTimestampUs' = ClampedUs(valueUs)
        BY <1>2, <2>1
      <3>3. /\ newestEpochUs' = IF valueUs > newestEpochUs THEN valueUs ELSE newestEpochUs
            /\ surplus' = IF valueUs > newestEpochUs THEN surplus ELSE surplus + 1
        BY <1>1, <2>1 DEF Datagram
      <3> HIDE DEF valueUs
      <3> QED BY <1>1, <1>3, <1>4, <3>1, <3>2, <3>3 DEF ClampedUs
    <2>2. CASE ~IsEpoch(sec)
      <3>1. mode = "Epoch" /\ lastTimestampUs # 0
        BY <1>1, <1>4, <2>2
      <3>2. lastTimestampUs' = ClampedUs(lastTimestampUs + 1)
        BY <1>2, <2>2, <3>1
      <3>3. newestEpochUs' = newestEpochUs /\ surplus' = surplus + 1
        BY <1>1, <2>2 DEF Datagram
      <3> QED BY <1>3, <1>4, <3>1, <3>2, <3>3 DEF ClampedUs
    <2> QED BY <2>1, <2>2
  <1>6. TypeOK'
    BY <1>1, <1>2, <1>3, <1>5 DEF TypeOK, Modes
  <1>7. OneClockPerSession'
    BY <1>1, <1>2, <1>4, <1>5 DEF OneClockPerSession
  <1> QED BY <1>1, <1>5, <1>6, <1>7 DEF IInv, EpochPassedOn

\* A session goes on when neither the step before nor this one leaves it blank.
SessionGoesOn == lastTimestampUs # 0 /\ lastTimestampUs' # 0

\* A step of the specification keeps the invariant, and if the session goes on
\* it moves the timestamp forward and keeps the mode.
LEMMA NextStep ==
    ASSUME IInv, [Next]_udpClockVars
    PROVE  /\ IInv'
           /\ \/ UNCHANGED udpClockVars
              \/ SessionGoesOn => lastTimestampUs' > lastTimestampUs /\ mode' = mode
  <1>1. ASSUME NEW field \in Fields, NEW checkedUs \in HostTimes, NEW nowUs \in HostTimes,
               Datagram(field[1], field[2], checkedUs, nowUs)
        PROVE  IInv' /\ (SessionGoesOn => lastTimestampUs' > lastTimestampUs /\ mode' = mode)
    <2>1. /\ field[1] \in RawSec /\ field[2] \in RawNs
          /\ checkedUs \in Nat /\ nowUs \in Nat \ {0}
      BY UdpClockAssumption
    <2>2. IInv' /\ lastTimestampUs' > lastTimestampUs
      BY <1>1, <2>1, RelativeDatagram, EpochDatagram
    <2>3. lastTimestampUs # 0 => mode' = mode
      BY <1>1 DEF Datagram, SettledMode, IInv, OneClockPerSession
    <2> QED BY <2>2, <2>3 DEF SessionGoesOn
  <1>2. ASSUME Reset
        PROVE  IInv' /\ ~SessionGoesOn
    <2>1. Init'
      BY <1>2 DEF Reset, Init
    <2>2. Init' => IInv'
      BY InitIInv, PTL
    <2> QED BY <1>2, <2>1, <2>2 DEF Reset, SessionGoesOn
  <1>3. ASSUME UNCHANGED udpClockVars
        PROVE  IInv'
    BY <1>3 DEF IInv, TypeOK, OneClockPerSession, EpochPassedOn, udpClockVars
  <1> QED BY <1>1, <1>2, <1>3 DEF Next

\* The invariant holds in every reachable state.
THEOREM IInvAlways == Spec => []IInv
  <1>1. IInv /\ [Next]_udpClockVars => IInv'
    BY NextStep
  <1> QED BY <1>1, InitIInv, PTL DEF Spec

\* The values of the UDP clock have their types, whatever the host times are.
THEOREM TypeCorrect == Spec => []TypeOK
  <1>1. IInv => TypeOK
    BY DEF IInv
  <1> QED BY <1>1, IInvAlways, PTL

\* The relative clock runs in relative sessions only, and never ahead of the
\* timestamps.
THEOREM ClocksApart == Spec => []OneClockPerSession
  <1>1. IInv => OneClockPerSession
    BY DEF IInv
  <1> QED BY <1>1, IInvAlways, PTL

\* A trusted clock is passed on to the microsecond.
THEOREM EpochIsPassedOn == Spec => []EpochPassedOn
  <1>1. IInv => EpochPassedOn
    BY DEF IInv
  <1> QED BY <1>1, IInvAlways, PTL

\* Within a session the timestamp of a datagram is later than the one before.
THEOREM OutputsIncrease == Spec => TimestampsIncrease
  <1>1. IInv /\ [Next]_udpClockVars
          => [lastTimestampUs # 0 /\ lastTimestampUs' # 0
                => lastTimestampUs' > lastTimestampUs]_udpClockVars
    BY NextStep DEF SessionGoesOn
  <1> QED BY <1>1, IInvAlways, PTL DEF Spec, TimestampsIncrease

\* The first datagram settles the mode of the session.
THEOREM ModeIsFixed == Spec => ModeFixed
  <1>1. IInv /\ [Next]_udpClockVars
          => [lastTimestampUs # 0 /\ lastTimestampUs' # 0 => mode' = mode]_udpClockVars
    BY NextStep DEF SessionGoesOn
  <1> QED BY <1>1, IInvAlways, PTL DEF Spec, ModeFixed

(***************************************************************************)
(* The drift of the relative clock                                         *)
(***************************************************************************)

\* Division with remainder.
LEMMA DivMod ==
    \A t \in Nat, d \in Nat \ {0} :
        /\ t \div d \in Nat /\ t % d \in Nat /\ t % d < d
        /\ t = d * (t \div d) + (t % d)
  OBVIOUS

\* The sizes of the units.
LEMMA Units ==
    /\ NsPerUs \in Nat \ {0} /\ UsPerSec \in Nat \ {0} /\ NsPerSec \in Nat \ {0}
    /\ NsPerSec = NsPerUs * UsPerSec
    /\ MaxRawSec \in Nat /\ 4 < MaxRawSec
    /\ LargeRelativeJumpUs \in Nat /\ HostJumpSlackUs \in Nat
    /\ UsPerSec <= LargeRelativeJumpUs
  <1>1. \A a, b \in Nat \ {0} : a * b \in Nat \ {0}
    OBVIOUS
  <1> QED BY <1>1, RelativeSecondsAssumption, HostAnchoringAssumption, UdpTrackingAssumption
          DEF NsPerSec

\* What is cut off when nanoseconds become microseconds is less than one.
LEMMA Truncation ==
    ASSUME NEW d \in Int
    PROVE  /\ TruncatedUs(d) \in Int
           /\ TruncatedUs(d) * NsPerUs - d <= NsPerUs - 1
           /\ d - TruncatedUs(d) * NsPerUs <= NsPerUs - 1
  <1>1. CASE d >= 0
    <2>1. d \in Nat /\ TruncatedUs(d) = d \div NsPerUs
      BY <1>1 DEF TruncatedUs
    <2> DEFINE q == d \div NsPerUs
               r == d % NsPerUs
    <2>2. q \in Nat /\ r \in Nat /\ r < NsPerUs /\ d = NsPerUs * q + r
      BY <2>1, DivMod, Units
    <2> HIDE DEF q, r
    <2>3. \A a, b \in Int : a * b = b * a
      OBVIOUS
    <2>4. q * NsPerUs \in Int /\ q * NsPerUs = NsPerUs * q
      BY <2>2, <2>3, Units
    <2>5. TruncatedUs(d) = q
      BY <2>1 DEF q
    <2> QED BY <2>2, <2>4, <2>5, Units
  <1>2. CASE ~(d >= 0)
    <2>1. -d \in Nat /\ TruncatedUs(d) = -((-d) \div NsPerUs)
      BY <1>2 DEF TruncatedUs
    <2> DEFINE q == (-d) \div NsPerUs
               r == (-d) % NsPerUs
    <2>2. q \in Nat /\ r \in Nat /\ r < NsPerUs /\ -d = NsPerUs * q + r
      BY <2>1, DivMod, Units
    <2>3. TruncatedUs(d) = -q
      BY <2>1
    <2> HIDE DEF q, r
    <2>4. \A a, b \in Int : (-a) * b = -(b * a)
      OBVIOUS
    <2>5. NsPerUs * q \in Int /\ (-q) * NsPerUs = -(NsPerUs * q)
      BY <2>2, <2>4, Units
    <2> QED BY <2>2, <2>3, <2>5, Units
  <1> QED BY <1>1, <1>2

\* The fields of device time t.
SplitAs(n, t) == n.previousRawSec = t \div NsPerSec /\ n.previousRawNs = t % NsPerSec

\* The fields of a device time that has not reached the end of the counter.
LEMMA FieldsOfTime ==
    ASSUME NEW t \in Nat, t < NsPerSec * MaxRawSec
    PROVE  /\ t \div NsPerSec \in RawSec /\ t % NsPerSec \in RawNs
           /\ t \div NsPerSec \in Nat /\ t % NsPerSec \in Nat /\ t % NsPerSec < NsPerSec
           /\ t = NsPerSec * (t \div NsPerSec) + (t % NsPerSec)
  <1> DEFINE sec == t \div NsPerSec
             ns == t % NsPerSec
  <1>1. sec \in Nat /\ ns \in Nat /\ ns < NsPerSec /\ t = NsPerSec * sec + ns
    BY DivMod, Units
  <1> HIDE DEF sec, ns
  <1>2. sec <= MaxRawSec
    <2>1. \A d \in Nat \ {0}, s, m, r \in Nat : d * s + r < d * m => s <= m
      <3> SUFFICES ASSUME NEW d \in Nat \ {0}, NEW s \in Nat, NEW m \in Nat, NEW r \in Nat,
                          s > m
                   PROVE  ~(d * s + r < d * m)
        OBVIOUS
      <3>1. PICK k \in Nat : s = m + k
        <4>1. s - m \in Nat /\ s = m + (s - m)
          OBVIOUS
        <4> QED BY <4>1
      <3>2. d * s = d * m + d * k /\ d * m \in Nat /\ d * k \in Nat
        BY <3>1
      <3> QED BY <3>2
    <2> QED BY <1>1, <2>1, Units
  <1>3. sec \in RawSec /\ ns \in RawNs
    BY <1>1, <1>2, Units DEF RawSec, RawNs
  <1> QED BY <1>1, <1>3 DEF sec, ns

\* The distance that the normalizer computes for two device times is off by
\* what one truncation cuts, and exact enough not to look like a step back or
\* like a jump when it is neither.
LEMMA DistanceOfTimes ==
    ASSUME NEW n \in Normalizers, NEW a \in Nat, NEW t \in Nat, SplitAs(n, a),
           a < NsPerSec * MaxRawSec, t < NsPerSec * MaxRawSec,
           t \div NsPerSec >= n.previousRawSec,
           NEW d, d = DeltaUs(n, t \div NsPerSec, t % NsPerSec)
    PROVE  /\ d \in Int
           /\ d * NsPerUs - (t - a) <= NsPerUs - 1
           /\ (t - a) - d * NsPerUs <= NsPerUs - 1
  <1> DEFINE sec == t \div NsPerSec
             ns == t % NsPerSec
             asec == a \div NsPerSec
             ans == a % NsPerSec
             cut == TruncatedUs(ns - ans)
  <1>1. /\ sec \in Nat /\ ns \in Nat /\ t = NsPerSec * sec + ns
        /\ asec \in Nat /\ ans \in Nat /\ a = NsPerSec * asec + ans
    BY FieldsOfTime
  <1>2. d = (sec - asec) * UsPerSec + cut
    BY DEF DeltaUs, DeltaSec, SplitAs
  <1>3. /\ cut \in Int
        /\ cut * NsPerUs - (ns - ans) <= NsPerUs - 1
        /\ (ns - ans) - cut * NsPerUs <= NsPerUs - 1
    BY <1>1, Truncation
  <1> HIDE DEF sec, ns, asec, ans, cut
  <1>4. /\ NsPerSec * sec \in Int /\ NsPerSec * asec \in Int /\ cut * NsPerUs \in Int
        /\ (sec - asec) * UsPerSec \in Int
    BY <1>1, <1>3, Units
  <1>5. d * NsPerUs = NsPerSec * sec - NsPerSec * asec + cut * NsPerUs
    <2>1. \A s, b, u, v, c \in Int : ((s - b) * u + c) * v = (v * u) * s - (v * u) * b + c * v
      OBVIOUS
    <2> QED BY <1>1, <1>2, <1>3, <2>1, Units
  <1> QED BY <1>1, <1>2, <1>3, <1>4, <1>5, Units

\* The fields tell device times apart.
LEMMA FieldsIdentify ==
    ASSUME NEW a \in Nat, NEW t \in Nat,
           a \div NsPerSec = t \div NsPerSec, a % NsPerSec = t % NsPerSec
    PROVE  a = t
  <1>1. a = NsPerSec * (a \div NsPerSec) + (a % NsPerSec)
    BY DivMod, Units
  <1>2. t = NsPerSec * (t \div NsPerSec) + (t % NsPerSec)
    BY DivMod, Units
  <1> QED BY <1>1, <1>2, Zenon

\* A distance that is off by less than a microsecond has the sign of the
\* interval, and is no longer than a jump if the interval is not.
LEMMA DistanceBounds ==
    ASSUME NEW d \in Int, NEW gap \in Int,
           d * NsPerUs - gap <= NsPerUs - 1, gap - d * NsPerUs <= NsPerUs - 1
    PROVE  /\ gap >= 0 => d >= 0
           /\ gap <= LargeRelativeJumpUs * NsPerUs => d <= LargeRelativeJumpUs
  <1>1. \A u \in Nat \ {0}, x, y \in Int : x > y => x * u >= y * u + u
    <2> SUFFICES ASSUME NEW u \in Nat \ {0}, NEW x \in Int, NEW y \in Int, x > y
                 PROVE  x * u >= y * u + u
      OBVIOUS
    <2>1. PICK k \in Nat : x = y + 1 + k
      <3>1. x - y - 1 \in Nat /\ x = y + 1 + (x - y - 1)
        OBVIOUS
      <3> QED BY <3>1
    <2>2. x * u = y * u + u + k * u /\ k * u \in Nat /\ y * u \in Int
      BY <2>1
    <2> QED BY <2>2
  <1>2. d * NsPerUs \in Int /\ LargeRelativeJumpUs * NsPerUs \in Int /\ NsPerUs \in Int
    BY Units
  <1>3. ASSUME gap >= 0 PROVE d >= 0
    <2> SUFFICES ASSUME ~(d >= 0) PROVE FALSE
      OBVIOUS
    <2>1. 0 * NsPerUs >= d * NsPerUs + NsPerUs
      BY <1>1, Units
    <2>2. 0 * NsPerUs = 0
      BY Units
    <2> QED BY <1>2, <1>3, <2>1, <2>2
  <1>4. ASSUME gap <= LargeRelativeJumpUs * NsPerUs PROVE d <= LargeRelativeJumpUs
    <2> SUFFICES ASSUME ~(d <= LargeRelativeJumpUs) PROVE FALSE
      OBVIOUS
    <2>1. d * NsPerUs >= LargeRelativeJumpUs * NsPerUs + NsPerUs
      BY <1>1, Units
    <2> QED BY <1>2, <1>4, <2>1
  <1> QED BY <1>3, <1>4

\* The fields of a normalizer that has advanced.
LEMMA AdvanceFields ==
    ASSUME NEW n \in Normalizers, NEW deltaUs \in Nat, NEW sec, NEW ns, NEW nowUs,
           NEW m, m = Advance(n, deltaUs, sec, ns, nowUs)
    PROVE  /\ m.hostAnchorUs = n.hostAnchorUs
           /\ m.logicalUs = n.logicalUs + deltaUs
           /\ m.previousRawSec = sec /\ m.previousRawNs = ns
  BY DEF Advance, Normalizers

\* The fields of a normalizer that has stepped back.
LEMMA StepBackFields ==
    ASSUME NEW n \in Normalizers, NEW m, m = StepBack(n)
    PROVE  /\ m.hostAnchorUs = n.hostAnchorUs /\ m.logicalUs = n.logicalUs
           /\ m.previousRawSec = n.previousRawSec /\ m.previousRawNs = n.previousRawNs
  BY DEF StepBack, Normalizers

\* A datagram of device time t, after one of device time a, either moves the
\* normalizer on to t, by the distance that it computes, or changes nothing but
\* the output; it moves on if t is not before a.
LEMMA NormalizeTracks ==
    ASSUME NEW n \in Normalizers, n.initialized, NEW a \in Nat, NEW t \in Nat, SplitAs(n, a),
           a < NsPerSec * MaxRawSec, t < NsPerSec * MaxRawSec,
           t - a <= LargeRelativeJumpUs * NsPerUs, a - t <= NsPerSec,
           NEW nowUs,
           NEW m, m = Normalize(n, t \div NsPerSec, t % NsPerSec, nowUs)
    PROVE  /\ m.hostAnchorUs = n.hostAnchorUs
           /\ \/ /\ ~(t >= a)
                 /\ m.logicalUs = n.logicalUs /\ SplitAs(m, a)
              \/ \E d \in Nat : /\ m.logicalUs = n.logicalUs + d /\ SplitAs(m, t)
                                /\ d * NsPerUs - (t - a) <= NsPerUs - 1
                                /\ (t - a) - d * NsPerUs <= NsPerUs - 1
  <1> DEFINE sec == t \div NsPerSec
             ns == t % NsPerSec
             d == DeltaUs(n, sec, ns)
  <1>1. /\ sec \in Nat /\ ns \in Nat /\ ns < NsPerSec /\ t = NsPerSec * sec + ns
        /\ sec <= MaxRawSec /\ sec \in RawSec /\ ns \in RawNs
    <2>1. sec \in RawSec /\ ns \in RawNs
      BY FieldsOfTime
    <2>2. sec \in Nat /\ ns \in Nat /\ ns < NsPerSec /\ t = NsPerSec * sec + ns
      BY FieldsOfTime
    <2> HIDE DEF sec, ns
    <2>3. sec <= MaxRawSec
      BY <2>1, Units DEF RawSec
    <2> QED BY <2>1, <2>2, <2>3
  <1>2. /\ n.previousRawSec = a \div NsPerSec
        /\ n.previousRawSec \in Nat /\ n.previousRawNs \in Nat /\ n.previousRawNs < NsPerSec
        /\ a = NsPerSec * n.previousRawSec + n.previousRawNs
    BY FieldsOfTime DEF SplitAs
  <1>3. ~n.initialized = FALSE
    OBVIOUS
  <1>4. CASE sec >= n.previousRawSec
    <2>1. /\ d \in Int
          /\ d * NsPerUs - (t - a) <= NsPerUs - 1
          /\ (t - a) - d * NsPerUs <= NsPerUs - 1
      BY <1>4, DistanceOfTimes
    <2>2. (t - a >= 0 => d >= 0) /\ d <= LargeRelativeJumpUs
      <3>1. t - a \in Int
        OBVIOUS
      <3> HIDE DEF d
      <3> QED BY <2>1, <3>1, DistanceBounds
    <2>3. m = StepForward(n, sec, ns, nowUs)
      BY <1>3, <1>4, Zenon DEF Normalize
    <2>4. ~HostElapsedIsMuchSmaller(d, HostElapsedUs(n, nowUs))
      <3> HIDE DEF d
      <3> QED BY <2>1, <2>2, Units DEF HostElapsedIsMuchSmaller
    <2>5. CASE d < 0
      <3>1. m = StepBack(n)
        BY <2>3, <2>5, Zenon DEF StepForward
      <3>2. ~(t >= a)
        <4> HIDE DEF d
        <4> QED BY <2>1, <2>2, <2>5
      <3> QED BY <3>1, <3>2, StepBackFields DEF SplitAs
    <2>6. CASE ~(d < 0)
      <3>1. m = Advance(n, d, sec, ns, nowUs)
        BY <2>3, <2>4, <2>6, Zenon DEF StepForward
      <3> HIDE DEF d
      <3>2. d \in Nat
        BY <2>1, <2>6
      <3>3. /\ m.hostAnchorUs = n.hostAnchorUs /\ m.logicalUs = n.logicalUs + d
            /\ SplitAs(m, t)
        BY <3>1, <3>2, AdvanceFields DEF SplitAs
      <3> QED BY <2>1, <3>2, <3>3
    <2> QED BY <2>5, <2>6
  <1>5. CASE ~(sec >= n.previousRawSec)
    <2> HIDE DEF d
    <2>1. n.previousRawSec - sec <= 1 /\ t < a
      <3> DEFINE asec == n.previousRawSec
                 ans == n.previousRawNs
      <3>1. /\ asec \in Nat /\ ans \in Nat /\ ans < NsPerSec /\ a = NsPerSec * asec + ans
            /\ ~(sec >= asec)
        BY <1>2, <1>5
      <3> HIDE DEF sec, ns, asec, ans
      <3>2. PICK k \in Nat : asec = sec + 1 + k
        <4>1. asec - sec - 1 \in Nat /\ asec = sec + 1 + (asec - sec - 1)
          BY <1>1, <3>1
        <4> QED BY <4>1
      <3>3. NsPerSec * asec = NsPerSec * sec + NsPerSec + NsPerSec * k
            /\ NsPerSec * sec \in Nat /\ NsPerSec * k \in Nat
        BY <1>1, <3>2, Units
      <3>4. k >= 1 => NsPerSec * k >= NsPerSec
        BY Units
      <3>5. t < a
        BY <1>1, <3>1, <3>3, Units
      <3>6. k = 0
        BY <1>1, <3>1, <3>3, <3>4, Units
      <3>7. asec - sec <= 1
        BY <1>1, <3>2, <3>6
      <3> QED BY <3>5, <3>7 DEF asec
    <2>2. ~IsSecondsWrap(n, sec) /\ BackwardSec(n, sec) <= 1
      <3>1. 1 <= MaxRawSec \div 2
        BY Units
      <3> QED BY <1>1, <1>2, <2>1, <3>1, Units DEF IsSecondsWrap, BackwardSec
    <2>3. m = StepBack(n)
      BY <1>3, <1>5, <2>2, Zenon DEF Normalize
    <2>4. ~(t >= a)
      BY <2>1
    <2> QED BY <2>3, <2>4, StepBackFields DEF SplitAs
  <1> QED BY <1>4, <1>5

\* The drift grows by one truncation at the most.
LEMMA DriftGrows ==
    ASSUME NEW l \in Int, NEW d \in Int, NEW a \in Int, NEW t \in Int, NEW o \in Int,
           NEW k \in Nat,
           l * NsPerUs - (a - o) <= k * (NsPerUs - 1),
           -(l * NsPerUs - (a - o)) <= k * (NsPerUs - 1),
           d * NsPerUs - (t - a) <= NsPerUs - 1,
           (t - a) - d * NsPerUs <= NsPerUs - 1
    PROVE  /\ (l + d) * NsPerUs - (t - o) <= (k + 1) * (NsPerUs - 1)
           /\ -((l + d) * NsPerUs - (t - o)) <= (k + 1) * (NsPerUs - 1)
  <1>1. /\ (l + d) * NsPerUs = l * NsPerUs + d * NsPerUs
        /\ (k + 1) * (NsPerUs - 1) = k * (NsPerUs - 1) + (NsPerUs - 1)
        /\ l * NsPerUs \in Int /\ d * NsPerUs \in Int /\ k * (NsPerUs - 1) \in Int
        /\ NsPerUs \in Int
    BY Units
  <1> QED BY <1>1

\* A datagram that moves nothing leaves more room for the drift.
LEMMA DriftKept ==
    ASSUME NEW drift \in Int, NEW k \in Nat,
           drift <= k * (NsPerUs - 1), -drift <= k * (NsPerUs - 1)
    PROVE  drift <= (k + 1) * (NsPerUs - 1) /\ -drift <= (k + 1) * (NsPerUs - 1)
  <1>1. /\ (k + 1) * (NsPerUs - 1) = k * (NsPerUs - 1) + (NsPerUs - 1)
        /\ k * (NsPerUs - 1) \in Int /\ NsPerUs - 1 \in Nat
    BY Units
  <1> QED BY <1>1

\* The normalizer continues from a datagram of the last second.
NearNewest ==
    mode = "Relative" =>
        /\ SplitAs(relative, acceptedNs)
        /\ acceptedNs <= newestNs
        /\ newestNs <= acceptedNs + NsPerSec

\* The inductive invariant of tracking.  DriftBounded is not inductive alone:
\* what a datagram adds depends on which device time the normalizer has as its
\* predecessor, and that one must not fall further behind the newest than a
\* late datagram can, or the next would look like a jump.
UdpTrackInv ==
    /\ IInv
    /\ newestNs \in Nat /\ newestNs < NsPerSec * MaxRawSec
    /\ acceptedNs \in Nat /\ originNs \in Nat /\ originUs \in Nat /\ accepted \in Nat
    /\ mode # "Epoch"
    /\ mode = "Unknown" => relative = NormalizerAfterReset(0) /\ accepted = 0
    /\ NearNewest
    /\ DriftBounded

\* The first state is tracked: nothing has been accepted.
LEMMA TrackingInitially == TrackingInit => UdpTrackInv
  <1> SUFFICES ASSUME TrackingInit PROVE UdpTrackInv
    OBVIOUS
  <1>1. /\ Init /\ IInv /\ newestNs \in DelaysNs
        /\ acceptedNs = 0 /\ originNs = 0 /\ originUs = 0 /\ accepted = 0
    BY InitIInv DEF TrackingInit
  <1>2. mode = "Unknown" /\ relative = NormalizerAfterReset(0)
    BY <1>1 DEF Init
  <1>3. newestNs \in Nat /\ newestNs < NsPerSec * MaxRawSec
    <2>1. newestNs \in 0 .. NsPerSec
      BY <1>1, UdpTrackingAssumption
    <2>2. \A s \in Nat \ {0}, m \in Nat : 4 < m => s < s * m
      OBVIOUS
    <2>3. NsPerSec < NsPerSec * MaxRawSec /\ NsPerSec * MaxRawSec \in Nat
      BY <2>2, Units
    <2> QED BY <2>1, <2>3, Units
  <1> QED BY <1>1, <1>2, <1>3 DEF UdpTrackInv, NearNewest, DriftBounded

\* The first datagram is the origin of the relative clock.
LEMMA FirstDatagramTracks ==
    ASSUME UdpTrackInv, NEW nowUs \in Nat \ {0}, FirstDatagram(nowUs)
    PROVE  UdpTrackInv'
  <1> DEFINE sec == newestNs \div NsPerSec
             ns == newestNs % NsPerSec
  <1>1. /\ mode = "Unknown" /\ Datagram(sec, ns, nowUs, nowUs) /\ mode' = "Relative"
        /\ acceptedNs' = newestNs /\ originNs' = newestNs /\ originUs' = nowUs
        /\ newestNs' = newestNs /\ accepted' = accepted
    BY DEF FirstDatagram, Arrives
  <1>2. /\ newestNs \in Nat /\ newestNs < NsPerSec * MaxRawSec
        /\ relative = NormalizerAfterReset(0) /\ accepted = 0
    BY <1>1 DEF UdpTrackInv
  <1>3. sec \in RawSec /\ ns \in RawNs
    BY <1>2, FieldsOfTime
  <1> HIDE DEF sec, ns
  <1>4. IInv'
    BY <1>1, <1>3, RelativeDatagram DEF UdpTrackInv
  <1>5. relative' = Normalize(relative, sec, ns, nowUs)
    BY <1>1, Zenon DEF Datagram
  <1>6. ~relative.initialized /\ relative.hostAnchorUs = 0
    BY <1>2 DEF NormalizerAfterReset
  <1>7. relative' = AnchoredAt(nowUs, sec, ns, nowUs)
    BY <1>5, <1>6, Zenon DEF Normalize, FirstSample
  <1>8. /\ relative'.previousRawSec = sec /\ relative'.previousRawNs = ns
        /\ relative'.logicalUs = 0 /\ relative'.hostAnchorUs = nowUs
    BY <1>7 DEF AnchoredAt
  <1>9. NearNewest'
    <2>1. newestNs <= newestNs /\ newestNs <= newestNs + NsPerSec
      BY <1>2, Units
    <2>2. SplitAs(relative', newestNs)
      BY <1>8 DEF SplitAs, sec, ns
    <2> QED BY <1>1, <2>1, <2>2 DEF NearNewest, SplitAs
  <1>10. DriftBounded'
    <2>1. \A u, x \in Int : 0 * u - (x - x) = 0 /\ 0 * (u - 1) = 0
      OBVIOUS
    <2>2. relative'.logicalUs * NsPerUs - (acceptedNs' - originNs') = 0
      <3>1. NsPerUs \in Int /\ newestNs \in Int
        BY <1>2, Units
      <3> QED BY <1>1, <1>8, <2>1, <3>1, Zenon
    <2>3. accepted' * (NsPerUs - 1) = 0
      <3>1. NsPerUs \in Int
        BY Units
      <3> QED BY <1>1, <1>2, <2>1, <3>1, Zenon
    <2>4. relative'.hostAnchorUs = originUs'
      BY <1>1, <1>8
    <2>5. -0 <= 0 /\ 0 <= 0
      OBVIOUS
    <2> QED BY <2>2, <2>3, <2>4, <2>5, Zenon DEF DriftBounded
  <1> QED BY <1>1, <1>2, <1>4, <1>9, <1>10 DEF UdpTrackInv

\* Any later datagram of device time t, from the last second of the device or
\* newer than what the normalizer continues from.
LEMMA ArrivalTracks ==
    ASSUME UdpTrackInv, mode = "Relative", NEW nowUs \in Nat \ {0},
           NEW t \in Nat, t < NsPerSec * MaxRawSec, Arrives(t, nowUs), Accepts(t),
           t - acceptedNs <= LargeRelativeJumpUs * NsPerUs, acceptedNs - t <= NsPerSec,
           UNCHANGED <<originNs, originUs>>
    PROVE  /\ IInv' /\ DriftBounded' /\ accepted' \in Nat /\ mode' = "Relative"
           /\ acceptedNs' = t \/ (acceptedNs' = acceptedNs /\ ~(t >= acceptedNs))
           /\ SplitAs(relative, acceptedNs)'
  <1> DEFINE sec == t \div NsPerSec
             ns == t % NsPerSec
  <1>1. /\ Datagram(sec, ns, nowUs, nowUs) /\ mode' = "Relative"
        /\ acceptedNs' = IF <<relative'.previousRawSec, relative'.previousRawNs>> = <<sec, ns>>
                         THEN t ELSE acceptedNs
        /\ accepted' = accepted + 1
    BY DEF Arrives, Accepts
  <1>2. /\ acceptedNs \in Nat /\ originNs \in Nat /\ accepted \in Nat
        /\ newestNs \in Nat /\ newestNs < NsPerSec * MaxRawSec
        /\ acceptedNs <= newestNs /\ SplitAs(relative, acceptedNs)
    BY DEF UdpTrackInv, NearNewest
  <1>3. acceptedNs < NsPerSec * MaxRawSec
    <2>1. NsPerSec * MaxRawSec \in Nat
      BY Units
    <2> QED BY <1>2, <2>1
  <1>4. relative \in Normalizers /\ relative.initialized
    BY DEF UdpTrackInv, IInv, TypeOK, OneClockPerSession
  <1>5. sec \in RawSec /\ ns \in RawNs
    BY FieldsOfTime
  <1>6. IInv'
    <2> HIDE DEF sec, ns
    <2> QED BY <1>1, <1>5, RelativeDatagram DEF UdpTrackInv
  <1>7. relative' = Normalize(relative, sec, ns, nowUs)
    BY <1>1, Zenon DEF Datagram
  <1>8. /\ relative'.hostAnchorUs = relative.hostAnchorUs
        /\ \/ /\ ~(t >= acceptedNs)
              /\ relative'.logicalUs = relative.logicalUs /\ SplitAs(relative', acceptedNs)
           \/ \E d \in Nat : /\ relative'.logicalUs = relative.logicalUs + d
                             /\ SplitAs(relative', t)
                             /\ d * NsPerUs - (t - acceptedNs) <= NsPerUs - 1
                             /\ (t - acceptedNs) - d * NsPerUs <= NsPerUs - 1
    BY <1>2, <1>3, <1>4, <1>7, NormalizeTracks
  <1> DEFINE driftNs == relative.logicalUs * NsPerUs - (acceptedNs - originNs)
  <1>9. /\ relative.hostAnchorUs = originUs
        /\ driftNs <= accepted * (NsPerUs - 1) /\ -driftNs <= accepted * (NsPerUs - 1)
    BY DEF UdpTrackInv, DriftBounded
  <1>10. relative.logicalUs \in Nat
    BY <1>4 DEF Normalizers
  <1>11. driftNs \in Int
    BY <1>2, <1>10, Units
  <1>12. CASE /\ ~(t >= acceptedNs)
              /\ relative'.logicalUs = relative.logicalUs /\ SplitAs(relative', acceptedNs)
    <2>1. acceptedNs' = acceptedNs
      <3>1. ASSUME <<relative'.previousRawSec, relative'.previousRawNs>> = <<sec, ns>>
            PROVE  t = acceptedNs
        BY <1>2, <1>12, <3>1, FieldsIdentify DEF SplitAs
      <3> QED BY <1>1, <3>1, Zenon
    <2>2. driftNs <= (accepted + 1) * (NsPerUs - 1) /\ -driftNs <= (accepted + 1) * (NsPerUs - 1)
      <3> HIDE DEF driftNs
      <3> QED BY <1>2, <1>9, <1>11, DriftKept
    <2>3. relative'.logicalUs * NsPerUs - (acceptedNs' - originNs') = driftNs
      BY <1>12, <2>1
    <2>4. relative'.hostAnchorUs = originUs'
      BY <1>8, <1>9
    <2> HIDE DEF driftNs
    <2>5. DriftBounded'
      BY <1>1, <2>2, <2>3, <2>4 DEF DriftBounded
    <2>6. SplitAs(relative, acceptedNs)'
      BY <1>12, <2>1 DEF SplitAs
    <2>7. accepted' \in Nat
      BY <1>1, <1>2
    <2> QED BY <1>1, <1>6, <1>12, <2>1, <2>5, <2>6, <2>7
  <1>13. ASSUME NEW d \in Nat,
                relative'.logicalUs = relative.logicalUs + d, SplitAs(relative', t),
                d * NsPerUs - (t - acceptedNs) <= NsPerUs - 1,
                (t - acceptedNs) - d * NsPerUs <= NsPerUs - 1
         PROVE  DriftBounded' /\ acceptedNs' = t /\ SplitAs(relative, acceptedNs)'
    <2>1. acceptedNs' = t
      BY <1>1, <1>13 DEF SplitAs
    <2>2. /\ (relative.logicalUs + d) * NsPerUs - (t - originNs) <= (accepted + 1) * (NsPerUs - 1)
          /\ -((relative.logicalUs + d) * NsPerUs - (t - originNs))
                <= (accepted + 1) * (NsPerUs - 1)
      <3>1. /\ relative.logicalUs \in Int /\ d \in Int /\ acceptedNs \in Int /\ t \in Int
            /\ originNs \in Int /\ accepted \in Nat
        BY <1>2, <1>10
      <3> QED BY <1>9, <1>13, <3>1, DriftGrows, Zenon
    <2>3. relative'.logicalUs * NsPerUs - (acceptedNs' - originNs')
             = (relative.logicalUs + d) * NsPerUs - (t - originNs)
      BY <1>13, <2>1
    <2>4. relative'.hostAnchorUs = originUs'
      BY <1>8, <1>9
    <2>5. DriftBounded'
      BY <1>1, <2>2, <2>3, <2>4 DEF DriftBounded
    <2>6. SplitAs(relative, acceptedNs)'
      BY <1>13, <2>1 DEF SplitAs
    <2> QED BY <2>1, <2>5, <2>6
  <1>14. accepted' \in Nat
    BY <1>1, <1>2
  <1> QED BY <1>1, <1>6, <1>8, <1>12, <1>13, <1>14

\* A new datagram is within the longest gap, and is always taken.
LEMMA NewDatagramTracks ==
    ASSUME UdpTrackInv, NEW gapNs \in Nat, NEW nowUs \in Nat \ {0}, NewDatagram(gapNs, nowUs)
    PROVE  UdpTrackInv'
  <1>1. PICK t : t = newestNs + gapNs
    OBVIOUS
  <1>2. /\ mode = "Relative" /\ newestNs' = t /\ t <= DeviceLimitNs
        /\ t - acceptedNs <= LargeRelativeJumpUs * NsPerUs
        /\ Arrives(t, nowUs) /\ Accepts(t)
        /\ originNs' = originNs /\ originUs' = originUs
    BY <1>1, Zenon DEF NewDatagram
  <1>3. /\ newestNs \in Nat /\ acceptedNs \in Nat /\ acceptedNs <= newestNs
        /\ originNs \in Nat /\ originUs \in Nat
    BY <1>2 DEF UdpTrackInv, NearNewest
  <1>4. /\ t \in Nat /\ t >= acceptedNs /\ acceptedNs - t <= NsPerSec
        /\ t <= t /\ t <= t + NsPerSec
    BY <1>1, <1>3, Units
  <1>5. t < NsPerSec * MaxRawSec
    <2>1. NsPerSec * MaxRawSec \in Nat
      BY Units
    <2> QED BY <1>2, <1>4, <2>1, UdpTrackingAssumption
  <1>6. /\ IInv' /\ DriftBounded' /\ accepted' \in Nat /\ mode' = "Relative"
        /\ acceptedNs' = t /\ SplitAs(relative, acceptedNs)'
    BY <1>2, <1>4, <1>5, ArrivalTracks
  <1>7. NearNewest'
    BY <1>2, <1>4, <1>6, Zenon DEF NearNewest
  <1> QED BY <1>2, <1>3, <1>4, <1>5, <1>6, <1>7 DEF UdpTrackInv

\* A late datagram is from the last second of the device.
LEMMA LateDatagramTracks ==
    ASSUME UdpTrackInv, NEW delayNs \in 0 .. NsPerSec, NEW nowUs \in Nat \ {0},
           LateDatagram(delayNs, nowUs)
    PROVE  UdpTrackInv'
  <1>1. PICK t : t = newestNs - delayNs
    OBVIOUS
  <1>2. /\ mode = "Relative" /\ delayNs <= newestNs
        /\ Arrives(t, nowUs) /\ Accepts(t)
        /\ newestNs' = newestNs /\ originNs' = originNs /\ originUs' = originUs
    BY <1>1, Zenon DEF LateDatagram
  <1>3. /\ newestNs \in Nat /\ acceptedNs \in Nat /\ acceptedNs <= newestNs
        /\ newestNs <= acceptedNs + NsPerSec /\ newestNs < NsPerSec * MaxRawSec
        /\ originNs \in Nat /\ originUs \in Nat
    BY <1>2 DEF UdpTrackInv, NearNewest
  <1>4. delayNs \in Nat /\ delayNs <= NsPerSec
    BY Units
  <1>5. /\ t \in Nat /\ t <= newestNs /\ newestNs <= t + NsPerSec
        /\ acceptedNs - t <= NsPerSec /\ t - acceptedNs <= NsPerSec
    BY <1>1, <1>2, <1>3, <1>4, Units
  <1>6. t - acceptedNs <= LargeRelativeJumpUs * NsPerUs
    <2>1. \A u, l \in Nat, n \in Nat : u <= l => n * u <= l * n
      <3> SUFFICES ASSUME NEW u \in Nat, NEW l \in Nat, NEW n \in Nat, u <= l
                   PROVE  n * u <= l * n
        OBVIOUS
      <3>1. PICK k \in Nat : l = u + k
        <4>1. l - u \in Nat /\ l = u + (l - u)
          OBVIOUS
        <4> QED BY <4>1
      <3>2. l * n = n * u + k * n /\ k * n \in Nat /\ n * u \in Nat
        BY <3>1
      <3> QED BY <3>2
    <2>2. NsPerSec <= LargeRelativeJumpUs * NsPerUs
          /\ LargeRelativeJumpUs * NsPerUs \in Nat
      BY <2>1, Units
    <2> QED BY <1>3, <1>5, <2>2, Units
  <1>7. t < NsPerSec * MaxRawSec
    <2>1. NsPerSec * MaxRawSec \in Nat
      BY Units
    <2> QED BY <1>3, <1>5, <2>1
  <1>8. /\ IInv' /\ DriftBounded' /\ accepted' \in Nat /\ mode' = "Relative"
        /\ acceptedNs' = t \/ acceptedNs' = acceptedNs
        /\ SplitAs(relative, acceptedNs)'
    BY <1>2, <1>5, <1>6, <1>7, ArrivalTracks
  <1>9. NearNewest'
    BY <1>2, <1>3, <1>5, <1>8, Zenon DEF NearNewest
  <1>10. acceptedNs' \in Nat
    BY <1>3, <1>5, <1>8
  <1> QED BY <1>2, <1>3, <1>8, <1>9, <1>10 DEF UdpTrackInv

\* Every step keeps the invariant of tracking.
LEMMA TrackingStep == UdpTrackInv /\ [TrackingNext]_trackingVars => UdpTrackInv'
  <1> SUFFICES ASSUME UdpTrackInv, [TrackingNext]_trackingVars PROVE UdpTrackInv'
    OBVIOUS
  <1>1. HostTimes \subseteq Nat \ {0}
    BY UdpClockAssumption
  <1>2. ASSUME NEW nowUs \in HostTimes, FirstDatagram(nowUs) PROVE UdpTrackInv'
    BY <1>1, <1>2, FirstDatagramTracks
  <1>3. ASSUME NEW nowUs \in HostTimes, NEW gapNs \in GapsNs, NewDatagram(gapNs, nowUs)
        PROVE  UdpTrackInv'
    <2>1. gapNs \in Nat
      <3>1. GapsNs \subseteq 0 .. LargeRelativeJumpUs * NsPerUs
        BY UdpTrackingAssumption
      <3> QED BY <3>1
    <2>2. nowUs \in Nat \ {0}
      BY <1>1
    <2> QED BY <1>3, <2>1, <2>2, NewDatagramTracks
  <1>4. ASSUME NEW nowUs \in HostTimes, NEW delayNs \in DelaysNs, LateDatagram(delayNs, nowUs)
        PROVE  UdpTrackInv'
    <2>1. delayNs \in 0 .. NsPerSec /\ nowUs \in Nat \ {0}
      BY <1>1, UdpTrackingAssumption
    <2> QED BY <1>4, <2>1, LateDatagramTracks
  <1>5. ASSUME UNCHANGED trackingVars PROVE UdpTrackInv'
    BY <1>5 DEF trackingVars, UdpTrackInv, IInv, TypeOK, OneClockPerSession, EpochPassedOn,
                NearNewest, SplitAs, DriftBounded
  <1> QED BY <1>2, <1>3, <1>4, <1>5 DEF TrackingNext

\* The relative clock drifts from the device's by less than a microsecond a
\* datagram, in either direction, and is separated from it by nothing else, for
\* every unit, every length of a session and every loss, repetition and
\* reordering within a second, whatever the host clock does.
THEOREM DriftIsBounded == TrackingSpec => []DriftBounded
  <1>1. UdpTrackInv => DriftBounded
    BY DEF UdpTrackInv
  <1> QED BY <1>1, TrackingInitially, TrackingStep, PTL DEF TrackingSpec
=============================================================================
