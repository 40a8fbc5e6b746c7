---------------------------- MODULE FrameFormat ----------------------------
(***************************************************************************)
(* The frames of the serial protocol and what makes one acceptable         *)
(* (frame_parser.cpp):                                                     *)
(*                                                                         *)
(*   sync0 sync1 lenLo lenHi msgId data... crc                             *)
(*                                                                         *)
(* where the 16-bit length counts msgId, data and crc, and the checksum    *)
(* covers msgId and data.  Bytes are numbers below ByteBase, so a small    *)
(* base makes a small protocol of the same shape.                          *)
(***************************************************************************)
EXTENDS Integers, Sequences, FiniteSetsExt

CONSTANTS ByteBase,      \* 256
          Sync0, Sync1,  \* kDeviceSync
          MaxLength,     \* 16 * 1024
          Profiles,      \* the indices of kCrcProfiles
          CrcMode,       \* "none", "auto", or "named"
          NamedProfile,  \* the profile of crcMode when CrcMode is "named"
          Crc(_, _)      \* ComputeCrc8 of a byte sequence under a profile

ASSUME FrameFormatAssumption ==
    /\ ByteBase \in Nat \ {0}
    /\ Sync0 \in 0 .. ByteBase - 1
    /\ Sync1 \in 0 .. ByteBase - 1
    /\ Sync0 # Sync1
    /\ MaxLength \in Nat /\ 2 <= MaxLength
    /\ Profiles \subseteq Nat \ {0} /\ IsFiniteSet(Profiles)
    /\ CrcMode \in {"none", "auto", "named"}
    /\ NamedProfile \in Profiles

Byte == 0 .. ByteBase - 1

SyncSize   == 2
HeaderSize == 4   \* sync and length
LeastSize  == 6   \* no frame is shorter, and none is looked at before

Unlocked == 0     \* lockedProfileIndex_ == -1
Locks == Profiles \cup {Unlocked}

\* std::search: where the sync pair stands in s.
SyncPositions(s) == {k \in 1 .. Len(s) - 1 : s[k] = Sync0 /\ s[k + 1] = Sync1}

\* The fields of a frame that starts at position k of s.
LengthAt(s, k)  == s[k + 2] + ByteBase * s[k + 3]
TotalSizeAt(s, k) == HeaderSize + LengthAt(s, k)
CrcInputAt(s, k)  == SubSeq(s, k + HeaderSize, k + TotalSizeAt(s, k) - 2)
CrcAt(s, k)       == s[k + TotalSizeAt(s, k) - 1]
FrameAt(s, k) ==
    [msgId   |-> s[k + HeaderSize],
     msgData |-> SubSeq(s, k + HeaderSize + 1, k + TotalSizeAt(s, k) - 2)]

Frames == [msgId : Byte, msgData : Seq(Byte)]

\* A mutant: no upper limit on the length.
AnyLengthAllowed(length) == length >= 2

LengthAllowed(length) == length >= 2 /\ length <= MaxLength

\* FrameParser::ValidateCrc.  Without a lock "auto" tries every profile in
\* order; the first that matches is used from then on.
ProfilesTried(lock) ==
    IF CrcMode = "named" THEN {NamedProfile}
    ELSE IF lock # Unlocked THEN {lock}
    ELSE Profiles

MatchingProfiles(lock, crcInput, received) ==
    {p \in ProfilesTried(lock) : Crc(p, crcInput) = received}

CrcValid(lock, crcInput, received) ==
    CrcMode = "none" \/ MatchingProfiles(lock, crcInput, received) # {}

\* A mutant: every frame is tried with all profiles again.
NeverLocked(lock, crcInput, received) == lock

LockAfter(lock, crcInput, received) ==
    IF CrcMode = "auto" /\ MatchingProfiles(lock, crcInput, received) # {}
    THEN Min(MatchingProfiles(lock, crcInput, received))
    ELSE lock
=============================================================================
