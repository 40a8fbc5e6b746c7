-------------------------- MODULE UdpClockTracking --------------------------
(***************************************************************************)
(* A relative UDP session with a device whose clock only advances.  Its    *)
(* datagrams may be lost, repeated or overtaken by newer ones, within a    *)
(* second and within the longest gap that the code bridges.  The host      *)
(* clock is unconstrained.                                                 *)
(***************************************************************************)
EXTENDS UdpClock

CONSTANTS GapsNs,         \* device time between new datagrams
          DelaysNs,       \* how far a late datagram is behind the newest
          DeviceLimitNs,  \* bound of the model: device time that passes
          AcceptedLimit   \* bound of the model: datagrams

ASSUME UdpTrackingAssumption ==
    /\ GapsNs \subseteq 0 .. LargeRelativeJumpUs * NsPerUs
    /\ DelaysNs \subseteq 0 .. NsPerSec
    /\ UsPerSec <= LargeRelativeJumpUs
    /\ DeviceLimitNs \in Nat /\ DeviceLimitNs < NsPerSec * MaxRawSec
    /\ AcceptedLimit \in Nat

VARIABLES newestNs,    \* device time of the newest datagram
          acceptedNs,  \* device time of the normalizer's predecessor
          originNs,    \* device time of the first datagram
          originUs,    \* host time at which it was read
          accepted     \* datagrams after it

trackingVars == <<mode, relative, lastTimestampUs, newestEpochUs, surplus,
                  newestNs, acceptedNs, originNs, originUs, accepted>>

TrackingInit ==
    /\ Init
    /\ newestNs \in DelaysNs
    /\ acceptedNs = 0 /\ originNs = 0 /\ originUs = 0 /\ accepted = 0

\* The fields of device time t reach the session.
Arrives(t, nowUs) ==
    /\ Datagram(t \div NsPerSec, t % NsPerSec, nowUs, nowUs)
    /\ mode' = "Relative"

FirstDatagram(nowUs) ==
    /\ mode = "Unknown"
    /\ Arrives(newestNs, nowUs)
    /\ acceptedNs' = newestNs /\ originNs' = newestNs /\ originUs' = nowUs
    /\ UNCHANGED <<newestNs, accepted>>

\* The normalizer takes t as its predecessor unless it steps back.
Accepts(t) ==
    /\ acceptedNs' = IF <<relative'.previousRawSec, relative'.previousRawNs>>
                            = <<t \div NsPerSec, t % NsPerSec>>
                     THEN t ELSE acceptedNs
    /\ accepted' = accepted + 1

NewDatagram(gapNs, nowUs) ==
    /\ mode = "Relative" /\ accepted < AcceptedLimit
    /\ newestNs + gapNs <= DeviceLimitNs
    /\ newestNs' = newestNs + gapNs
    /\ newestNs' - acceptedNs <= LargeRelativeJumpUs * NsPerUs
    /\ Arrives(newestNs', nowUs)
    /\ Accepts(newestNs')
    /\ UNCHANGED <<originNs, originUs>>

LateDatagram(delayNs, nowUs) ==
    /\ mode = "Relative" /\ accepted < AcceptedLimit
    /\ delayNs <= newestNs
    /\ Arrives(newestNs - delayNs, nowUs)
    /\ Accepts(newestNs - delayNs)
    /\ UNCHANGED <<newestNs, originNs, originUs>>

TrackingNext ==
    \E nowUs \in HostTimes :
        \/ FirstDatagram(nowUs)
        \/ \E gapNs \in GapsNs : NewDatagram(gapNs, nowUs)
        \/ \E delayNs \in DelaysNs : LateDatagram(delayNs, nowUs)

TrackingSpec == TrackingInit /\ [][TrackingNext]_trackingVars

\* The division that turns nanoseconds into microseconds drops a remainder with
\* every datagram and does not carry it over, so the time line drifts from the
\* device clock.  The drift stays below one microsecond a datagram, in both
\* directions and across seconds, and nothing else separates the two.
DriftBounded ==
    mode = "Relative" =>
        LET driftNs == relative.logicalUs * NsPerUs - (acceptedNs - originNs)
        IN /\ relative.hostAnchorUs = originUs
           /\ driftNs <= accepted * (NsPerUs - 1)
           /\ -driftNs <= accepted * (NsPerUs - 1)
=============================================================================
