---------------------------- MODULE FrameStream ----------------------------
(***************************************************************************)
(* What the serial receiver promises, without a buffer: the frames that    *)
(* are delivered are a function of the bytes that arrived, and not of how  *)
(* the reads cut them into pieces.                                         *)
(***************************************************************************)
EXTENDS FrameFormat

VARIABLES arrived,    \* all bytes that have arrived
          delivered   \* all frames that were delivered

\* The frame that starts at k is complete.
CompleteAt(s, k) == k + TotalSizeAt(s, k) - 1 <= Len(s)

\* Nothing can follow before position k is decided: a frame may start there,
\* and is either acceptable or not yet complete.
HoldsAt(s, lock, k) ==
    /\ k \in SyncPositions(s)
    /\ k + LeastSize - 1 <= Len(s)
    /\ LengthAllowed(LengthAt(s, k))
    /\ CompleteAt(s, k) => CrcValid(lock, CrcInputAt(s, k), CrcAt(s, k))

\* The frames from position k on, when the checksum profile is lock, given those
\* from every later position on.
DecodedFrom(s, lock, k, later) ==
    LET holding == {j \in k .. Len(s) : HoldsAt(s, lock, j)}
        first == Min(holding)
    IN IF holding = {} \/ ~CompleteAt(s, first)
       THEN <<>>
       ELSE <<FrameAt(s, first)>>
            \o later[first + TotalSizeAt(s, first)]
                    [LockAfter(lock, CrcInputAt(s, first), CrcAt(s, first))]

\* The same for every position, the one behind the end included, and every lock.
Decoding(s) ==
    LET decoding[k \in 1 .. Len(s) + 1] ==
            [lock \in Locks |-> DecodedFrom(s, lock, k, decoding)]
    IN decoding

Decode(s) == Decoding(s)[1][Unlocked]

Init == arrived = <<>> /\ delivered = <<>>

Arrive ==
    /\ arrived' \in Seq(Byte)
    /\ Len(arrived') > Len(arrived)
    /\ SubSeq(arrived', 1, Len(arrived)) = arrived
    /\ UNCHANGED delivered

Deliver ==
    /\ Len(delivered) < Len(Decode(arrived))
    /\ delivered' = SubSeq(Decode(arrived), 1, Len(delivered) + 1)
    /\ UNCHANGED arrived

\* The stream ends, and another one may begin.
Restart == Init'

Next == Arrive \/ Deliver \/ Restart

Spec == Init /\ [][Next]_<<arrived, delivered>>
=============================================================================
