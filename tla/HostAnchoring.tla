--------------------------- MODULE HostAnchoring ---------------------------
(***************************************************************************)
(* What the two relative normalizers of timestamp_normalizer.cpp share:    *)
(* the host time that elapsed since the last accepted sample, the test for *)
(* a device clock that jumped ahead of the host, and the choice of the     *)
(* next output.  A normalizer n is a record; the fields used here are      *)
(*   lastOutputUs  the last value handed to the caller                     *)
(*   lastHostUs    the host time of the last accepted sample               *)
(* The host clock is std::chrono::system_clock: it may step backwards.     *)
(***************************************************************************)
EXTENDS Integers

CONSTANTS LargeRelativeJumpUs,  \* kLargeRelativeJumpUs, 5 s
          HostJumpSlackUs       \* kHostJumpSlackUs, 0.5 s

ASSUME HostAnchoringAssumption ==
    /\ LargeRelativeJumpUs \in Nat
    /\ HostJumpSlackUs \in Nat

\* Zero when the host clock has stepped back behind the last observation.
HostElapsedUs(n, nowUs) ==
    IF nowUs >= n.lastHostUs THEN nowUs - n.lastHostUs ELSE 0

HostElapsedIsMuchSmaller(rawDeltaUs, hostElapsedUs) ==
    /\ rawDeltaUs > LargeRelativeJumpUs
    /\ hostElapsedUs + HostJumpSlackUs < rawDeltaUs \div 4

\* A value never at or behind the last one: value > last ? value : last + 1.
ValueAfter(lastUs, valueUs) ==
    IF valueUs > lastUs THEN valueUs ELSE lastUs + 1
=============================================================================
