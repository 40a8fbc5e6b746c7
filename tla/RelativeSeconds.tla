-------------------------- MODULE RelativeSeconds --------------------------
(***************************************************************************)
(* RelativeSecondNormalizer (timestamp_normalizer.cpp 132-233): turns the  *)
(* seconds and nanoseconds of a UDP datagram into microseconds of host     *)
(* time.  As in RelativeMilliseconds the object is a record and the return *)
(* value of Normalize is the new lastOutputUs.                             *)
(***************************************************************************)
EXTENDS HostAnchoring

CONSTANTS NsPerUs,   \* 1000
          UsPerSec,  \* kMicrosecondsPerSecond
          MaxRawSec  \* numeric_limits<uint32_t>::max()

ASSUME RelativeSecondsAssumption ==
    /\ NsPerUs \in Nat \ {0}
    /\ UsPerSec \in Nat \ {0}
    /\ MaxRawSec \in Nat /\ 4 < MaxRawSec

NsPerSec == NsPerUs * UsPerSec

RawSec == 0 .. MaxRawSec
RawNs  == 0 .. NsPerSec - 1   \* udp_protocol.cpp:58 rejects any other

Normalizers == [hostAnchorUs : Nat, initialized : BOOLEAN, previousRawSec : RawSec,
                previousRawNs : RawNs, logicalUs : Nat, lastOutputUs : Nat,
                lastHostUs : Nat]

NormalizerAfterReset(anchorUs) ==
    [hostAnchorUs |-> anchorUs, initialized |-> FALSE, previousRawSec |-> 0,
     previousRawNs |-> 0, logicalUs |-> 0, lastOutputUs |-> 0, lastHostUs |-> 0]

AnchoredAt(anchorUs, sec, ns, nowUs) ==
    [hostAnchorUs |-> anchorUs, initialized |-> TRUE, previousRawSec |-> sec,
     previousRawNs |-> ns, logicalUs |-> 0, lastOutputUs |-> anchorUs,
     lastHostUs |-> nowUs]

FirstSample(n, sec, ns, nowUs) ==
    AnchoredAt(IF n.hostAnchorUs # 0 THEN n.hostAnchorUs ELSE nowUs, sec, ns, nowUs)

Restart(n, sec, ns, nowUs) ==
    AnchoredAt(ValueAfter(n.lastOutputUs, nowUs), sec, ns, nowUs)

\* Out of order: the predecessor is kept.
StepBack(n) == [n EXCEPT !.lastOutputUs = @ + 1]

CandidateUs(n) == n.hostAnchorUs + n.logicalUs

Advance(n, deltaUs, sec, ns, nowUs) ==
    LET advanced == [n EXCEPT !.logicalUs = @ + deltaUs,
                              !.previousRawSec = sec,
                              !.previousRawNs = ns,
                              !.lastHostUs = nowUs]
    IN [advanced EXCEPT !.lastOutputUs = ValueAfter(@, CandidateUs(advanced))]

BackwardSec(n, sec) == n.previousRawSec - sec

IsSecondsWrap(n, sec) == BackwardSec(n, sec) > MaxRawSec \div 2

DeltaSec(n, sec) ==
    IF sec >= n.previousRawSec
    THEN sec - n.previousRawSec
    ELSE (MaxRawSec - n.previousRawSec) + sec + 1

\* A mutant: the sign of the difference is lost.
NanosecondsAsUs(deltaNs) == (IF deltaNs >= 0 THEN deltaNs ELSE -deltaNs) \div NsPerUs

\* Division of C++: towards zero, so a fraction of a microsecond is lost in
\* either direction, and it is not carried over to the next datagram.
TruncatedUs(deltaNs) ==
    IF deltaNs >= 0 THEN deltaNs \div NsPerUs ELSE -((-deltaNs) \div NsPerUs)

DeltaUs(n, sec, ns) ==
    DeltaSec(n, sec) * UsPerSec + TruncatedUs(ns - n.previousRawNs)

\* A mutant: a time before the predecessor's within one second is no step back.
StepForwardSigned(n, sec, ns, nowUs) ==
    IF HostElapsedIsMuchSmaller(DeltaUs(n, sec, ns), HostElapsedUs(n, nowUs))
    THEN Restart(n, sec, ns, nowUs)
    ELSE Advance(n, DeltaUs(n, sec, ns), sec, ns, nowUs)

StepForward(n, sec, ns, nowUs) ==
    LET deltaUs == DeltaUs(n, sec, ns)
    IN IF deltaUs < 0
       THEN StepBack(n)
       ELSE IF HostElapsedIsMuchSmaller(deltaUs, HostElapsedUs(n, nowUs))
       THEN Restart(n, sec, ns, nowUs)
       ELSE Advance(n, deltaUs, sec, ns, nowUs)

Normalize(n, sec, ns, nowUs) ==
    IF ~n.initialized
    THEN FirstSample(n, sec, ns, nowUs)
    ELSE IF sec >= n.previousRawSec \/ IsSecondsWrap(n, sec)
    THEN StepForward(n, sec, ns, nowUs)
    ELSE IF BackwardSec(n, sec) <= 1
    THEN StepBack(n)
    ELSE Restart(n, sec, ns, nowUs)
=============================================================================
