------------------------------ MODULE UdpClock ------------------------------
(***************************************************************************)
(* The timestamps of a UDP session: UdpPacketSource::NormalizeTimestamp    *)
(* (packet_source_udp.cpp 144-178), with the fields that Open and Close    *)
(* reset.  The first datagram of a session settles whether the device      *)
(* clock is trusted as it is ("Epoch") or only its increments are          *)
(* ("Relative").  Datagrams may be lost, repeated and reordered, so any    *)
(* sequence of fields is possible.                                         *)
(***************************************************************************)
EXTENDS RelativeSeconds

CONSTANTS EpochLowerSec, EpochUpperSec,  \* kEpochLowerBoundSeconds, kEpochUpperBoundSeconds
          MaxTrustedSkewUs,  \* kMaxTrustedEpochSkewUs
          Fields,            \* pairs <<seconds, nanoseconds>> of datagrams
          HostTimes,         \* host times at which a datagram may be read
          OutputLimit,       \* bound of the model: no datagram beyond this output
          SurplusLimit       \* bound of the model: datagrams that bring nothing new

ASSUME UdpClockAssumption ==
    /\ EpochLowerSec \in RawSec \ {0} /\ EpochUpperSec \in RawSec
    /\ MaxTrustedSkewUs \in Nat
    /\ Fields \subseteq RawSec \X RawNs
    /\ HostTimes \subseteq Nat \ {0}
    /\ OutputLimit \in Nat
    /\ SurplusLimit \in Nat

VARIABLES mode,             \* timestampMode_
          relative,         \* relativeTimestampNormalizer_
          lastTimestampUs,  \* lastTimestampUs_
          newestEpochUs,    \* history: the latest epoch time of the session
          surplus           \* history: datagrams since then that did not advance it

udpClockVars == <<mode, relative, lastTimestampUs, newestEpochUs, surplus>>

Modes == {"Unknown", "Epoch", "Relative"}

TypeOK ==
    /\ mode \in Modes
    /\ relative \in Normalizers
    /\ lastTimestampUs \in Nat
    /\ newestEpochUs \in Nat
    /\ surplus \in Nat

Init ==
    /\ mode = "Unknown"
    /\ relative = NormalizerAfterReset(0)
    /\ lastTimestampUs = 0
    /\ newestEpochUs = 0
    /\ surplus = 0

\* EpochSecondsNanosecondsToUs has a value.
IsEpoch(sec) == sec >= EpochLowerSec /\ sec <= EpochUpperSec

EpochUs(sec, ns) == sec * UsPerSec + ns \div NsPerUs

IsNearHostEpoch(valueUs, nowUs) ==
    /\ valueUs >= nowUs => valueUs - nowUs <= MaxTrustedSkewUs
    /\ valueUs <  nowUs => nowUs - valueUs <= MaxTrustedSkewUs

\* A mutant: every datagram chooses anew.
ModeByEachDatagram(sec, ns, nowUs) ==
    IF IsEpoch(sec) /\ IsNearHostEpoch(EpochUs(sec, ns), nowUs) THEN "Epoch" ELSE "Relative"

SettledMode(sec, ns, nowUs) ==
    IF mode # "Unknown" THEN mode
    ELSE IF IsEpoch(sec) /\ IsNearHostEpoch(EpochUs(sec, ns), nowUs) THEN "Epoch"
    ELSE "Relative"

\* A mutant: times that do not advance go through.
UnclampedUs(valueUs) == valueUs

ClampedUs(valueUs) ==
    IF lastTimestampUs # 0 /\ valueUs <= lastTimestampUs THEN lastTimestampUs + 1 ELSE valueUs

\* The host clock is read once to judge the epoch (checkedUs) and again for
\* the relative normalizer (nowUs).
Datagram(sec, ns, checkedUs, nowUs) ==
    /\ lastTimestampUs < OutputLimit
    /\ mode' = SettledMode(sec, ns, checkedUs)
    /\ IF mode' = "Relative"
       THEN /\ relative' = Normalize(relative, sec, ns, nowUs)
            /\ lastTimestampUs' = ClampedUs(relative'.lastOutputUs)
       ELSE /\ UNCHANGED relative
            /\ lastTimestampUs' =
                   ClampedUs(IF IsEpoch(sec) THEN EpochUs(sec, ns)
                             ELSE IF lastTimestampUs = 0 THEN nowUs
                             ELSE lastTimestampUs + 1)
    /\ LET advances == mode' = "Epoch" /\ IsEpoch(sec) /\ EpochUs(sec, ns) > newestEpochUs
       IN /\ newestEpochUs' = IF advances THEN EpochUs(sec, ns) ELSE newestEpochUs
          /\ surplus' = IF mode' = "Epoch" /\ ~advances THEN surplus + 1 ELSE surplus
          /\ surplus' <= SurplusLimit

\* A mutant: the mode of the last session stays.
ResetKeepingMode ==
    /\ relative' = NormalizerAfterReset(0)
    /\ lastTimestampUs' = 0
    /\ newestEpochUs' = 0
    /\ surplus' = 0
    /\ UNCHANGED mode

\* Open and Close.
Reset ==
    /\ mode' = "Unknown"
    /\ relative' = NormalizerAfterReset(0)
    /\ lastTimestampUs' = 0
    /\ newestEpochUs' = 0
    /\ surplus' = 0

Next ==
    \/ \E field \in Fields, checkedUs, nowUs \in HostTimes :
           Datagram(field[1], field[2], checkedUs, nowUs)
    \/ Reset

Spec == Init /\ [][Next]_udpClockVars

(***************************************************************************)
(* Properties                                                              *)
(***************************************************************************)

\* README.md:223: "accepted timestamps that do not advance the selected
\* session timeline are advanced monotonically": in a session every timestamp
\* is later than the one before, with lost, repeated and reordered datagrams,
\* device restarts and steps of the host clock, in either mode.
TimestampsIncrease ==
    [][lastTimestampUs # 0 /\ lastTimestampUs' # 0
           => lastTimestampUs' > lastTimestampUs]_udpClockVars

\* README.md:223: "That timestamp mode remains fixed for the open session",
\* although every datagram is examined anew and a device may acquire or lose
\* its clock, or the host its own, in the middle of a session.
ModeFixed ==
    [][lastTimestampUs # 0 /\ lastTimestampUs' # 0 => mode' = mode]_udpClockVars

\* The two modes keep clocks of their own; the relative one runs in a relative
\* session only, and there the output never falls behind it.
OneClockPerSession ==
    /\ mode = "Unknown" <=> lastTimestampUs = 0
    /\ relative.initialized <=> mode = "Relative"
    /\ mode = "Relative" => lastTimestampUs >= relative.lastOutputUs

\* A trusted clock is passed on as it is: the timestamp is the latest epoch
\* time that any datagram of the session brought, plus at most a microsecond
\* for every datagram that did not advance it.
EpochPassedOn ==
    mode = "Epoch" => /\ newestEpochUs <= lastTimestampUs
                      /\ lastTimestampUs <= newestEpochUs + surplus
=============================================================================
