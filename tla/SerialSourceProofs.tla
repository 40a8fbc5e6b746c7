------------------------- MODULE SerialSourceProofs -------------------------
(***************************************************************************)
(* Proofs about SerialSource for every protocol of the shape (any width of *)
(* a byte, any limit on the length, any checksum), every size of a read,   *)
(* every noise and every transmission: the types, the account of the       *)
(* bytes, the bound of the buffer, the clean start of a session, and that  *)
(* the source delivers the frames of the stream (FrameStream).             *)
(***************************************************************************)
EXTENDS SerialSource, SequenceTheorems, WellFoundedInduction, TLAPS

(***************************************************************************)
(* Lemmas about numbers and sequences                                      *)
(***************************************************************************)

\* A set of naturals that is not empty has a least member.
LEMMA LeastMember ==
    ASSUME NEW S, S \subseteq Nat, S # {}
    PROVE  \E k \in S : \A j \in S : k <= j
<1> DEFINE R == {pair \in Nat \X Nat : pair[1] < pair[2]}
<1>1. IsWellFoundedOn(R, Nat)
  BY NatLessThanWellFounded DEF OpToRel
<1> HIDE DEF R
<1>2. PICK k \in S : \A j \in S : <<j, k>> \notin R
  BY <1>1, WFMin
<1>3. ASSUME NEW j \in S PROVE k <= j
  <2>1. k \in Nat /\ j \in Nat
    OBVIOUS
  <2>2. j < k => <<j, k>> \in R
    BY <2>1 DEF R
  <2> QED
    BY <2>1, <2>2, <1>2
<1> QED
  BY <1>3

\* So Min yields one, in FirstSync (std::search), in LockAfter (the loop over the
\* profiles) and in what the decoder of FrameStream looks for.
LEMMA MinIsLeast ==
    ASSUME NEW S, S \subseteq Nat, S # {}
    PROVE  Min(S) \in S /\ \A j \in S : Min(S) <= j
<1>1. \E k \in S : \A j \in S : k <= j
  BY LeastMember
<1> QED
  BY <1>1 DEF Min

\* The lesser of two numbers, as read() and its buffer take it.
LEMMA MinOfTwo ==
    ASSUME NEW a \in Nat, NEW b \in Nat
    PROVE  Min({a, b}) \in Nat /\ Min({a, b}) <= a /\ Min({a, b}) <= b
<1>1. {a, b} \subseteq Nat /\ {a, b} # {} /\ a \in {a, b} /\ b \in {a, b}
  OBVIOUS
<1>2. Min({a, b}) \in {a, b} /\ \A j \in {a, b} : Min({a, b}) <= j
  BY <1>1, MinIsLeast
<1> QED
  BY <1>1, <1>2

\* buffer_.erase from the front leaves the rest.
LEMMA DropProperties ==
    ASSUME NEW S, NEW s \in Seq(S), NEW n \in 0 .. Len(s)
    PROVE  /\ Drop(s, n) \in Seq(S)
           /\ Len(Drop(s, n)) = Len(s) - n
           /\ SubSeq(s, 1, n) \in Seq(S)
           /\ Len(SubSeq(s, 1, n)) = n
           /\ SubSeq(s, 1, n) \o Drop(s, n) = s
           /\ \A i \in 1 .. Len(s) - n : Drop(s, n)[i] = s[n + i]
<1>1. Len(s) \in Nat /\ n \in Nat /\ n <= Len(s)
  BY LenProperties
<1>2. \A i \in 1 .. Len(s) : s[i] \in S
  BY ElementOfSeq
<1>3. /\ SubSeq(s, n + 1, Len(s)) \in Seq(S)
      /\ Len(SubSeq(s, n + 1, Len(s))) =
            IF n + 1 <= Len(s) THEN Len(s) - (n + 1) + 1 ELSE 0
      /\ \A i \in 1 .. Len(s) - (n + 1) + 1 :
            SubSeq(s, n + 1, Len(s))[i] = s[n + 1 + i - 1]
  <2>1. n + 1 \in Int /\ Len(s) \in Int /\ \A i \in n + 1 .. Len(s) : s[i] \in S
    BY <1>1, <1>2
  <2> QED
    BY <2>1, SubSeqProperties
<1>4. /\ SubSeq(s, 1, n) \in Seq(S)
      /\ Len(SubSeq(s, 1, n)) = IF 1 <= n THEN n - 1 + 1 ELSE 0
  <2>1. 1 \in Int /\ n \in Int /\ \A i \in 1 .. n : s[i] \in S
    BY <1>1, <1>2
  <2> QED
    BY <2>1, SubSeqProperties
<1>5. SubSeq(s, 1, n) \o SubSeq(s, n + 1, Len(s)) = s
  <2>1. 1 \in 1 .. Len(s) + 1 /\ n \in 1 - 1 .. Len(s) /\ Len(s) \in n .. Len(s)
    BY <1>1
  <2>2. SubSeq(s, 1, n) \o SubSeq(s, n + 1, Len(s)) = SubSeq(s, 1, Len(s))
    BY <2>1, ConcatAdjacentSubSeq
  <2> QED
    BY <2>2, SubSeqFull
<1>6. Len(SubSeq(s, n + 1, Len(s))) = Len(s) - n
  BY <1>1, <1>3
<1>7. Len(SubSeq(s, 1, n)) = n
  BY <1>1, <1>4
<1>8. Drop(s, n) = SubSeq(s, n + 1, Len(s))
  BY DEF Drop
<1>9. \A i \in 1 .. Len(s) - n : SubSeq(s, n + 1, Len(s))[i] = s[n + i]
  <2>1. Len(s) - (n + 1) + 1 = Len(s) - n /\ \A i \in 1 .. Len(s) - n : n + 1 + i - 1 = n + i
    BY <1>1
  <2> QED
    BY <1>3, <2>1
<1> QED
  BY <1>3, <1>4, <1>5, <1>6, <1>7, <1>8, <1>9

(***************************************************************************)
(* Lemmas about the frame format                                           *)
(***************************************************************************)

\* What the arguments need of the constants.
LEMMA FormatConstants ==
    /\ MaxLength \in Nat /\ 2 <= MaxLength
    /\ ReadSize \in Nat /\ 0 < ReadSize
    /\ Profiles \subseteq Nat \ {0}
    /\ NamedProfile \in Profiles
BY FrameFormatAssumption, SerialSourceAssumption

\* std::search finds the first sync pair, which is not the end of the buffer.
LEMMA FirstSyncProperties ==
    ASSUME buffer \in Seq(Byte), SyncPositions(buffer) # {}
    PROVE  /\ FirstSync \in 1 .. Len(buffer) - 1
           /\ \A j \in SyncPositions(buffer) : FirstSync <= j
<1>1. Len(buffer) \in Nat
  BY LenProperties
<1>2. SyncPositions(buffer) \subseteq 1 .. Len(buffer) - 1
  BY DEF SyncPositions
<1>3. SyncPositions(buffer) \subseteq Nat
  BY <1>1, <1>2
<1>4. /\ FirstSync \in SyncPositions(buffer)
      /\ \A j \in SyncPositions(buffer) : FirstSync <= j
  BY <1>3, MinIsLeast DEF FirstSync
<1> QED
  BY <1>2, <1>4

\* The length of a header is a number, whatever the bytes.
LEMMA LengthIsNumber ==
    ASSUME NEW s \in Seq(Byte), LeastSize <= Len(s)
    PROVE  LengthAt(s, 1) \in Nat
<1>1. ByteBase \in Nat \ {0}
  BY FrameFormatAssumption
<1>2. 3 \in 1 .. Len(s) /\ 4 \in 1 .. Len(s)
  BY LenProperties DEF LeastSize
<1>3. s[3] \in Byte /\ s[4] \in Byte
  BY <1>2, ElementOfSeq
<1>4. s[3] \in Nat /\ s[4] \in Nat
  BY <1>1, <1>3 DEF Byte
<1>5. ByteBase * s[4] \in Nat
  BY <1>1, <1>4
<1>6. s[3] + ByteBase * s[4] \in Nat
  BY <1>4, <1>5
<1>7. LengthAt(s, 1) = s[1 + 2] + ByteBase * s[1 + 3]
  BY DEF LengthAt
<1>8. 1 + 2 = 3 /\ 1 + 3 = 4
  OBVIOUS
<1> QED
  BY <1>6, <1>7, <1>8

\* A frame that is taken from the front has its fields in the buffer.
LEMMA WholeFrameProperties ==
    ASSUME buffer \in Seq(Byte), WholeFrameAtFront
    PROVE  /\ LengthAt(buffer, 1) \in 2 .. MaxLength
           /\ TotalSizeAt(buffer, 1) \in LeastSize .. Len(buffer)
           /\ FrameAt(buffer, 1) \in Frames
<1>1. /\ LeastSize <= Len(buffer)
      /\ LengthAllowed(LengthAt(buffer, 1))
      /\ TotalSizeAt(buffer, 1) <= Len(buffer)
  BY DEF WholeFrameAtFront, AtSync
<1>2. LengthAt(buffer, 1) \in Nat /\ Len(buffer) \in Nat
  BY <1>1, LengthIsNumber, LenProperties
<1>3. LengthAt(buffer, 1) \in 2 .. MaxLength
  BY <1>1, <1>2, FormatConstants DEF LengthAllowed
<1>4. TotalSizeAt(buffer, 1) \in LeastSize .. Len(buffer)
  BY <1>1, <1>2, <1>3 DEF TotalSizeAt, HeaderSize, LeastSize
<1>5. buffer[1 + HeaderSize] \in Byte
  <2>1. 1 + HeaderSize \in 1 .. Len(buffer)
    BY <1>1, <1>2 DEF HeaderSize, LeastSize
  <2> QED
    BY <2>1, ElementOfSeq
<1>6. SubSeq(buffer, 1 + HeaderSize + 1, 1 + TotalSizeAt(buffer, 1) - 2) \in Seq(Byte)
  <2>1. /\ 1 + HeaderSize + 1 \in Int
        /\ 1 + TotalSizeAt(buffer, 1) - 2 \in Int
        /\ (1 + HeaderSize + 1) .. (1 + TotalSizeAt(buffer, 1) - 2) \subseteq 1 .. Len(buffer)
    BY <1>2, <1>4 DEF HeaderSize, LeastSize
  <2>2. \A i \in (1 + HeaderSize + 1) .. (1 + TotalSizeAt(buffer, 1) - 2) : buffer[i] \in Byte
    BY <2>1, ElementOfSeq
  <2> QED
    BY <2>1, <2>2, SubSeqProperties
<1>7. FrameAt(buffer, 1) \in Frames
  BY <1>5, <1>6 DEF FrameAt, Frames
<1> QED
  BY <1>3, <1>4, <1>7

\* ValidateCrc sets lockedProfileIndex_ to a profile or leaves it.
LEMMA LockAfterIsLock ==
    ASSUME NEW l \in Locks, NEW crcInput, NEW received
    PROVE  LockAfter(l, crcInput, received) \in Locks
<1> DEFINE matching == MatchingProfiles(l, crcInput, received)
<1>1. matching \subseteq Profiles
  BY FormatConstants DEF MatchingProfiles, ProfilesTried, Locks
<1>2. matching \subseteq Nat
  BY <1>1, FormatConstants
<1> HIDE DEF matching
<1>3. matching # {} => Min(matching) \in matching
  BY <1>2, MinIsLeast
<1>4. LockAfter(l, crcInput, received) =
        IF CrcMode = "auto" /\ matching # {} THEN Min(matching) ELSE l
  BY Zenon DEF LockAfter, matching
<1> QED
  BY <1>1, <1>3, <1>4 DEF Locks

(***************************************************************************)
(* The types                                                               *)
(***************************************************************************)

\* A source that was never opened has its types.
LEMMA TypeInitially == Init => TypeOK
<1> SUFFICES ASSUME Init PROVE TypeOK
  OBVIOUS
<1>1. transmission \in [bytes : Seq(Byte), frames : Seq(SentFrames)]
  BY EmptySeq DEF Init, Nothing
<1>2. lock \in Locks
  BY DEF Init, Locks
<1> QED
  BY <1>1, <1>2, EmptySeq DEF Init, TypeOK, Ports, EventTypes

\* The types of what a pass of TryPop changes: the buffer loses bytes from its
\* front, and a counter is told how many.
LEMMA TypeOfTryPop == TypeOK /\ TryPop => TypeOK'
<1> SUFFICES ASSUME TypeOK, TryPop PROVE TypeOK'
  OBVIOUS
<1>1. /\ buffer \in Seq(Byte) /\ Len(buffer) \in Nat
      /\ discarded \in Nat /\ badLengths \in Nat /\ crcFailures \in Nat
      /\ acceptedBytes \in Nat /\ parseFailures \in Nat
  BY LenProperties DEF TypeOK
<1>2. UNCHANGED portVars
  BY DEF TryPop, TooFewBytes, DiscardNoise, SkipToSync, RejectLength, AwaitRest,
         RejectCrc, PopFrame
<1>3. pc \in {"pop", "popAgain"} /\ pc' \in {"idle", "pop", "read", "popAgain"}
  BY DEF TryPop, TooFewBytes, DiscardNoise, SkipToSync, RejectLength, AwaitRest,
         RejectCrc, PopFrame, InTryPop, NothingToPop, EmitFrame
<1>4. buffer' \in Seq(Byte) /\ discarded' \in Nat /\ badLengths' \in Nat
      /\ crcFailures' \in Nat /\ acceptedBytes' \in Nat
  <2>1. CASE TooFewBytes \/ AwaitRest
    BY <1>1, <2>1 DEF TooFewBytes, AwaitRest, parserVars
  <2>2. CASE DiscardNoise
    <3>1. PICK kept \in {0, 1} : /\ discarded' = discarded + (Len(buffer) - kept)
                                 /\ buffer' = Drop(buffer, Len(buffer) - kept)
      BY <2>2 DEF DiscardNoise
    <3>2. LeastSize <= Len(buffer) /\ UNCHANGED <<badLengths, crcFailures, acceptedBytes>>
      BY <2>2 DEF DiscardNoise
    <3>3. Len(buffer) - kept \in 0 .. Len(buffer)
      BY <1>1, <3>2 DEF LeastSize
    <3>4. Drop(buffer, Len(buffer) - kept) \in Seq(Byte)
      BY <1>1, <3>3, DropProperties
    <3> QED
      BY <1>1, <3>1, <3>2, <3>3, <3>4
  <2>3. CASE SkipToSync
    <3>1. FirstSync \in 1 .. Len(buffer) - 1
      BY <1>1, <2>3, FirstSyncProperties DEF SkipToSync
    <3>2. FirstSync - 1 \in 0 .. Len(buffer)
      BY <1>1, <3>1
    <3>3. Drop(buffer, FirstSync - 1) \in Seq(Byte)
      BY <1>1, <3>2, DropProperties
    <3>4. /\ discarded' = discarded + (FirstSync - 1) /\ buffer' = Drop(buffer, FirstSync - 1)
          /\ UNCHANGED <<badLengths, crcFailures, acceptedBytes>>
      BY <2>3 DEF SkipToSync
    <3> QED
      BY <1>1, <3>2, <3>3, <3>4
  <2>4. CASE RejectLength \/ RejectCrc
    <3>1. LeastSize <= Len(buffer)
      BY <2>4 DEF RejectLength, RejectCrc, WholeFrameAtFront, AtSync
    <3>2. 1 \in 0 .. Len(buffer)
      BY <1>1, <3>1 DEF LeastSize
    <3>3. Drop(buffer, 1) \in Seq(Byte)
      BY <1>1, <3>2, DropProperties
    <3>4. /\ buffer' = Drop(buffer, 1)
          /\ badLengths' \in {badLengths, badLengths + 1}
          /\ crcFailures' \in {crcFailures, crcFailures + 1}
          /\ UNCHANGED <<discarded, acceptedBytes>>
      BY <2>4 DEF RejectLength, RejectCrc
    <3> QED
      BY <1>1, <3>3, <3>4
  <2>5. CASE PopFrame
    <3>1. TotalSizeAt(buffer, 1) \in LeastSize .. Len(buffer)
      BY <1>1, <2>5, WholeFrameProperties DEF PopFrame
    <3>2. TotalSizeAt(buffer, 1) \in 0 .. Len(buffer)
      BY <1>1, <3>1 DEF LeastSize
    <3>3. Drop(buffer, TotalSizeAt(buffer, 1)) \in Seq(Byte)
      BY <1>1, <3>2, DropProperties
    <3>4. /\ acceptedBytes' = acceptedBytes + TotalSizeAt(buffer, 1)
          /\ buffer' = Drop(buffer, TotalSizeAt(buffer, 1))
          /\ UNCHANGED <<discarded, badLengths, crcFailures>>
      BY <2>5 DEF PopFrame
    <3> QED
      BY <1>1, <3>2, <3>3, <3>4
  <2> QED
    BY <2>1, <2>2, <2>3, <2>4, <2>5 DEF TryPop
<1>5. delivered' \in Seq(Frames) /\ lock' \in Locks
  <2>1. CASE PopFrame
    <3>1. FrameAt(buffer, 1) \in Frames
      BY <1>1, <2>1, WholeFrameProperties DEF PopFrame
    <3>2. delivered' = Append(delivered, FrameAt(buffer, 1))
      BY <2>1 DEF PopFrame
    <3>3. lock' = LockAfter(lock, CrcInputAt(buffer, 1), CrcAt(buffer, 1))
      BY <2>1 DEF PopFrame
    <3>4. delivered \in Seq(Frames) /\ lock \in Locks
      BY DEF TypeOK
    <3>5. lock' \in Locks
      BY <3>3, <3>4, LockAfterIsLock
    <3> QED
      BY <3>1, <3>2, <3>4, <3>5, AppendProperties
  <2>2. CASE ~PopFrame
    BY <2>2 DEF TryPop, TooFewBytes, DiscardNoise, SkipToSync, RejectLength, AwaitRest,
                RejectCrc, TypeOK, parserVars
  <2> QED
    BY <2>1, <2>2
<1>6. parseFailures' \in Nat /\ event' \in EventTypes
  <2>1. CASE PopFrame
    <3>1. parseFailures' \in {parseFailures, parseFailures + 1}
      BY <2>1 DEF PopFrame, EmitFrame
    <3>2. event' \in EventTypes
      BY <2>1 DEF PopFrame, EmitFrame, EventTypes
    <3> QED
      BY <1>1, <3>1, <3>2
  <2>2. CASE ~PopFrame
    BY <2>2 DEF TryPop, TooFewBytes, DiscardNoise, SkipToSync, RejectLength, AwaitRest,
                RejectCrc, TypeOK, parserVars
  <2> QED
    BY <2>1, <2>2
<1> QED
  BY <1>2, <1>3, <1>4, <1>5, <1>6 DEF TypeOK, portVars

\* A read moves a prefix of the driver's queue to the end of the buffer.
LEMMA ReadMovesPrefix ==
    ASSUME TypeOK, ReadBytes
    PROVE  \E n \in 1 .. ReadSize :
               /\ n <= Len(queue)
               /\ SubSeq(queue, 1, n) \in Seq(Byte) /\ Len(SubSeq(queue, 1, n)) = n
               /\ queue' \in Seq(Byte)
               /\ SubSeq(queue, 1, n) \o queue' = queue
               /\ arrived' = arrived \o SubSeq(queue, 1, n)
               /\ buffer' = buffer \o SubSeq(queue, 1, n)
<1>1. queue \in Seq(Byte) /\ Len(queue) \in Nat
  BY LenProperties DEF TypeOK
<1>2. PICK n \in 1 .. Min({ReadSize, Len(queue)}) :
        /\ arrived' = arrived \o SubSeq(queue, 1, n)
        /\ buffer' = buffer \o SubSeq(queue, 1, n)
        /\ queue' = Drop(queue, n)
  BY DEF ReadBytes
<1>3. n \in Nat /\ 1 <= n /\ n <= ReadSize /\ n <= Len(queue)
  BY <1>1, MinOfTwo, FormatConstants
<1>4. n \in 1 .. ReadSize /\ n \in 0 .. Len(queue)
  BY <1>1, <1>3, FormatConstants
<1>5. /\ SubSeq(queue, 1, n) \in Seq(Byte) /\ Len(SubSeq(queue, 1, n)) = n
      /\ Drop(queue, n) \in Seq(Byte)
      /\ SubSeq(queue, 1, n) \o Drop(queue, n) = queue
  BY <1>1, <1>4, DropProperties
<1> QED
  BY <1>2, <1>3, <1>4, <1>5

\* The steps that do not look for a frame in the buffer keep the types.
LEMMA TypeOfTheRest ==
    TypeOK /\ (Open \/ Close \/ StartPoll \/ ReadBytes \/ ReadNothing) => TypeOK'
<1> SUFFICES ASSUME TypeOK, Open \/ Close \/ StartPoll \/ ReadBytes \/ ReadNothing
             PROVE  TypeOK'
  OBVIOUS
<1>1. CASE OpenPort \/ SetAttributes
  BY <1>1 DEF OpenPort, SetAttributes, TypeOK, Ports, parserVars
<1>2. CASE HearNoise
  BY <1>2, SerialSourceAssumption DEF HearNoise, TypeOK, parserVars
<1>3. CASE FlushInput
  <2>1. transmission' \in [bytes : Seq(Byte), frames : Seq(SentFrames)]
    BY <1>3, SerialSourceAssumption DEF FlushInput
  <2>2. queue' \in Seq(Byte)
    BY <1>3, <2>1 DEF FlushInput
  <2> QED
    BY <1>3, <2>1, <2>2 DEF FlushInput, TypeOK, Ports, parserVars
<1>4. CASE Close
  <2>1. Init'
    BY <1>4 DEF Close, Init
  <2> QED
    BY <1>4, <2>1, TypeInitially, EmptySeq DEF Close, TypeOK, Ports, Nothing, Locks, EventTypes
<1>5. CASE StartPoll \/ ReadNothing
  BY <1>5 DEF StartPoll, ReadNothing, TypeOK, EventTypes, portVars, parserVars
<1>6. CASE ReadBytes
  <2>1. PICK n \in 1 .. ReadSize :
          /\ SubSeq(queue, 1, n) \in Seq(Byte)
          /\ queue' \in Seq(Byte)
          /\ arrived' = arrived \o SubSeq(queue, 1, n)
          /\ buffer' = buffer \o SubSeq(queue, 1, n)
    BY <1>6, ReadMovesPrefix
  <2>2. arrived' \in Seq(Byte) /\ buffer' \in Seq(Byte)
    BY <2>1, ConcatProperties DEF TypeOK
  <2> QED
    BY <1>6, <2>1, <2>2 DEF ReadBytes, TypeOK
<1> QED
  BY <1>1, <1>2, <1>3, <1>4, <1>5, <1>6 DEF Open

\* Every step keeps the types.
LEMMA TypeStep == TypeOK /\ [Next]_sourceVars => TypeOK'
<1> SUFFICES ASSUME TypeOK, [Next]_sourceVars PROVE TypeOK'
  OBVIOUS
<1>1. CASE UNCHANGED sourceVars
  BY <1>1 DEF sourceVars, portVars, parserVars, TypeOK
<1> QED
  BY <1>1, TypeOfTryPop, TypeOfTheRest DEF Next

\* Every state has the declared types: among others the buffer holds bytes, what
\* is popped has the shape of a frame, and the locked profile is one of the
\* table (frame_parser.cpp).
THEOREM SerialSourceTyped == Spec => []TypeOK
BY TypeInitially, TypeStep, PTL DEF Spec

(***************************************************************************)
(* The account of the bytes                                                *)
(***************************************************************************)

\* What a pass of TryPop takes from the buffer it counts, once.
LEMMA TryPopAccounts ==
    TypeOK /\ TypeOK' /\ EveryByteAccounted /\ TryPop => EveryByteAccounted'
<1> SUFFICES ASSUME TypeOK, TypeOK', EveryByteAccounted, TryPop PROVE EveryByteAccounted'
  OBVIOUS
<1>1. /\ buffer \in Seq(Byte) /\ Len(buffer) \in Nat /\ Len(arrived) \in Nat
      /\ discarded \in Nat /\ badLengths \in Nat /\ crcFailures \in Nat
      /\ acceptedBytes \in Nat
  BY LenProperties DEF TypeOK
<1>2. arrived' = arrived
  BY DEF TryPop, TooFewBytes, DiscardNoise, SkipToSync, RejectLength, AwaitRest,
         RejectCrc, PopFrame, portVars
<1>3. Len(arrived) = Len(buffer) + acceptedBytes + discarded + badLengths + crcFailures
  BY DEF EveryByteAccounted
<1> SUFFICES Len(arrived) =
                Len(buffer') + acceptedBytes' + discarded' + badLengths' + crcFailures'
  BY <1>2 DEF EveryByteAccounted
<1>4. CASE TooFewBytes \/ AwaitRest
  BY <1>3, <1>4 DEF TooFewBytes, AwaitRest, parserVars
<1>5. CASE DiscardNoise
  <2>1. PICK kept \in {0, 1} : /\ discarded' = discarded + (Len(buffer) - kept)
                               /\ buffer' = Drop(buffer, Len(buffer) - kept)
    BY <1>5 DEF DiscardNoise
  <2>2. LeastSize <= Len(buffer) /\ UNCHANGED <<badLengths, crcFailures, acceptedBytes>>
    BY <1>5 DEF DiscardNoise
  <2>3. Len(buffer) - kept \in 0 .. Len(buffer)
    BY <1>1, <2>2 DEF LeastSize
  <2>4. Len(buffer') = Len(buffer) - (Len(buffer) - kept)
    BY <1>1, <2>1, <2>3, DropProperties
  <2> QED
    BY <1>1, <1>3, <2>1, <2>2, <2>4
<1>6. CASE SkipToSync
  <2>1. FirstSync \in 1 .. Len(buffer) - 1
    BY <1>1, <1>6, FirstSyncProperties DEF SkipToSync
  <2>2. FirstSync - 1 \in 0 .. Len(buffer)
    BY <1>1, <2>1
  <2>3. PICK n \in 0 .. Len(buffer) :
          /\ discarded' = discarded + n
          /\ buffer' = Drop(buffer, n)
    BY <1>6, <2>2 DEF SkipToSync
  <2>4. Len(buffer') = Len(buffer) - n
    BY <1>1, <2>3, DropProperties
  <2>5. UNCHANGED <<badLengths, crcFailures, acceptedBytes>>
    BY <1>6 DEF SkipToSync
  <2>6. discarded' = discarded + n /\ n \in Int
    BY <2>3
  <2> QED
    BY <1>1, <1>3, <2>4, <2>5, <2>6
<1>7. CASE RejectLength \/ RejectCrc
  <2>1. LeastSize <= Len(buffer)
    BY <1>7 DEF RejectLength, RejectCrc, WholeFrameAtFront, AtSync
  <2>2. 1 \in 0 .. Len(buffer)
    BY <1>1, <2>1 DEF LeastSize
  <2>3. /\ buffer' = Drop(buffer, 1)
        /\ \/ badLengths' = badLengths + 1 /\ UNCHANGED crcFailures
           \/ crcFailures' = crcFailures + 1 /\ UNCHANGED badLengths
        /\ UNCHANGED <<discarded, acceptedBytes>>
    BY <1>7 DEF RejectLength, RejectCrc
  <2>4. Len(buffer') = Len(buffer) - 1
    BY <1>1, <2>2, <2>3, DropProperties
  <2> QED
    BY <1>1, <1>3, <2>3, <2>4
<1>8. CASE PopFrame
  <2>1. TotalSizeAt(buffer, 1) \in LeastSize .. Len(buffer)
    BY <1>1, <1>8, WholeFrameProperties DEF PopFrame
  <2>2. TotalSizeAt(buffer, 1) \in 0 .. Len(buffer)
    BY <1>1, <2>1 DEF LeastSize
  <2>3. PICK n \in 0 .. Len(buffer) :
          /\ acceptedBytes' = acceptedBytes + n
          /\ buffer' = Drop(buffer, n)
    BY <1>8, <2>2 DEF PopFrame
  <2>4. Len(buffer') = Len(buffer) - n
    BY <1>1, <2>3, DropProperties
  <2>5. UNCHANGED <<discarded, badLengths, crcFailures>>
    BY <1>8 DEF PopFrame
  <2>6. acceptedBytes' = acceptedBytes + n /\ n \in Int
    BY <2>3
  <2> QED
    BY <1>1, <1>3, <2>4, <2>5, <2>6
<1> QED
  BY <1>4, <1>5, <1>6, <1>7, <1>8 DEF TryPop

\* Stats() accounts for every byte that arrived: it is still in the buffer, or
\* it was part of a delivered frame, or exactly one counter has counted it
\* (FrameParser::TryPop, frame_parser.cpp).
THEOREM BytesAccounted == Spec => []EveryByteAccounted
<1>1. Init => EveryByteAccounted
  BY EmptySeq DEF Init, EveryByteAccounted
<1>2. TypeOK /\ TypeOK' /\ EveryByteAccounted /\ [Next]_sourceVars => EveryByteAccounted'
  <2> SUFFICES ASSUME TypeOK, TypeOK', EveryByteAccounted, [Next]_sourceVars
               PROVE  EveryByteAccounted'
    OBVIOUS
  <2>1. CASE Open \/ StartPoll \/ ReadNothing \/ UNCHANGED sourceVars
    BY <2>1 DEF Open, OpenPort, HearNoise, SetAttributes, FlushInput, StartPoll, ReadNothing,
                sourceVars, portVars, parserVars, EveryByteAccounted
  <2>2. CASE Close
    BY <2>2, EmptySeq DEF Close, EveryByteAccounted
  <2>3. CASE ReadBytes
    <3>1. PICK n \in 1 .. ReadSize :
            /\ SubSeq(queue, 1, n) \in Seq(Byte) /\ Len(SubSeq(queue, 1, n)) = n
            /\ arrived' = arrived \o SubSeq(queue, 1, n)
            /\ buffer' = buffer \o SubSeq(queue, 1, n)
      BY <2>3, ReadMovesPrefix
    <3>2. arrived \in Seq(Byte) /\ buffer \in Seq(Byte)
      BY DEF TypeOK
    <3>3. Len(arrived') = Len(arrived) + n /\ Len(buffer') = Len(buffer) + n
      BY <3>1, <3>2, ConcatProperties
    <3>4. UNCHANGED <<acceptedBytes, discarded, badLengths, crcFailures>>
      BY <2>3 DEF ReadBytes
    <3>5. /\ Len(arrived) \in Nat /\ Len(buffer) \in Nat /\ acceptedBytes \in Nat
          /\ discarded \in Nat /\ badLengths \in Nat /\ crcFailures \in Nat
      BY <3>2, LenProperties DEF TypeOK
    <3>6. n \in Int
      OBVIOUS
    <3> QED
      BY <3>3, <3>4, <3>5, <3>6 DEF EveryByteAccounted
  <2> QED
    BY <2>1, <2>2, <2>3, TryPopAccounts DEF Next
<1> QED
  BY <1>1, <1>2, SerialSourceTyped, PTL DEF Spec

(***************************************************************************)
(* The bound of the buffer                                                 *)
(***************************************************************************)

\* When TryPop gives up, what it leaves is less than a frame: too little for a
\* header, one byte of a sync pair, or a header that may ask for MaxLength.
LEMMA TryPopKeepsBound ==
    TypeOK /\ TypeOK' /\ BufferBounded /\ TryPop => BufferBounded'
<1> SUFFICES ASSUME TypeOK, TypeOK', BufferBounded, TryPop PROVE BufferBounded'
  OBVIOUS
<1>1. buffer \in Seq(Byte) /\ Len(buffer) \in Nat
  BY LenProperties DEF TypeOK
<1>2. pc \in {"pop", "popAgain"}
  BY DEF TryPop, TooFewBytes, DiscardNoise, SkipToSync, RejectLength, AwaitRest,
         RejectCrc, PopFrame, InTryPop
<1>3. Len(buffer) < HeaderSize + MaxLength + ReadSize
  BY DEF BufferBounded
<1>4. CASE TooFewBytes
  <2>1. Len(buffer) < LeastSize /\ buffer' = buffer
    BY <1>4 DEF TooFewBytes, parserVars
  <2> QED
    BY <1>1, <1>3, <2>1, FormatConstants DEF BufferBounded, HeaderSize, LeastSize
<1>5. CASE DiscardNoise
  <2>1. PICK kept \in {0, 1} : buffer' = Drop(buffer, Len(buffer) - kept)
    BY <1>5 DEF DiscardNoise
  <2>2. Len(buffer) - kept \in 0 .. Len(buffer)
    BY <1>1, <1>5 DEF LeastSize, DiscardNoise
  <2>3. Len(buffer') = Len(buffer) - (Len(buffer) - kept)
    BY <1>1, <2>1, <2>2, DropProperties
  <2>4. Len(buffer') \in Nat /\ Len(buffer') <= 1
    BY <1>1, <2>3
  <2> QED
    BY <2>4, FormatConstants DEF BufferBounded, HeaderSize
<1>6. CASE SkipToSync
  <2>1. FirstSync \in 1 .. Len(buffer) - 1
    BY <1>1, <1>6, FirstSyncProperties DEF SkipToSync
  <2>2. FirstSync - 1 \in 0 .. Len(buffer)
    BY <1>1, <2>1
  <2>3. Len(buffer') = Len(buffer) - (FirstSync - 1)
    BY <1>1, <1>6, <2>2, DropProperties DEF SkipToSync
  <2>4. Len(buffer') < HeaderSize + MaxLength + ReadSize
    BY <1>1, <1>3, <2>2, <2>3, FormatConstants DEF HeaderSize
  <2>5. pc' = pc
    BY <1>6 DEF SkipToSync
  <2> QED
    BY <1>2, <2>4, <2>5 DEF BufferBounded
<1>7. CASE RejectLength \/ RejectCrc
  <2>1. LeastSize <= Len(buffer)
    BY <1>7 DEF RejectLength, RejectCrc, WholeFrameAtFront, AtSync
  <2>2. 1 \in 0 .. Len(buffer)
    BY <1>1, <2>1 DEF LeastSize
  <2>3. Len(buffer') = Len(buffer) - 1
    BY <1>1, <1>7, <2>2, DropProperties DEF RejectLength, RejectCrc
  <2>4. Len(buffer') < HeaderSize + MaxLength + ReadSize
    BY <1>1, <1>3, <2>3, FormatConstants DEF HeaderSize
  <2>5. pc' = pc
    BY <1>7 DEF RejectLength, RejectCrc
  <2> QED
    BY <1>2, <2>4, <2>5 DEF BufferBounded
<1>8. CASE AwaitRest
  <2>1. /\ LeastSize <= Len(buffer) /\ LengthAllowed(LengthAt(buffer, 1))
        /\ Len(buffer) < TotalSizeAt(buffer, 1) /\ buffer' = buffer
    BY <1>8 DEF AwaitRest, AtSync, parserVars
  <2>2. LengthAt(buffer, 1) \in Nat
    BY <1>1, <2>1, LengthIsNumber
  <2>3. Len(buffer') < HeaderSize + MaxLength
    BY <1>1, <2>1, <2>2, FormatConstants DEF LengthAllowed, TotalSizeAt, HeaderSize
  <2>4. Len(buffer') < HeaderSize + MaxLength + ReadSize
    BY <1>3, <2>1
  <2> QED
    BY <2>3, <2>4 DEF BufferBounded
<1>9. CASE PopFrame
  <2>1. TotalSizeAt(buffer, 1) \in LeastSize .. Len(buffer)
    BY <1>1, <1>9, WholeFrameProperties DEF PopFrame
  <2>2. TotalSizeAt(buffer, 1) \in 0 .. Len(buffer)
    BY <1>1, <2>1 DEF LeastSize
  <2>3. Len(buffer') = Len(buffer) - TotalSizeAt(buffer, 1)
    BY <1>1, <1>9, <2>2, DropProperties DEF PopFrame
  <2>4. Len(buffer') < HeaderSize + MaxLength + ReadSize
    BY <1>1, <1>3, <2>2, <2>3, FormatConstants DEF HeaderSize
  <2>5. pc' = "idle"
    BY <1>9 DEF PopFrame, EmitFrame
  <2> QED
    BY <2>4, <2>5 DEF BufferBounded
<1> QED
  BY <1>4, <1>5, <1>6, <1>7, <1>8, <1>9 DEF TryPop

\* The buffer has no limit of its own, and stays below one frame and one read
\* all the same (SerialPacketSource::Poll and kMaxFrameLength).
THEOREM BufferStaysBounded == Spec => []BufferBounded
<1>1. Init => BufferBounded
  BY EmptySeq, FormatConstants DEF Init, BufferBounded, HeaderSize
<1>2. TypeOK /\ TypeOK' /\ BufferBounded /\ [Next]_sourceVars => BufferBounded'
  <2> SUFFICES ASSUME TypeOK, TypeOK', BufferBounded, [Next]_sourceVars
               PROVE  BufferBounded'
    OBVIOUS
  <2>1. CASE Open \/ StartPoll \/ ReadNothing \/ UNCHANGED sourceVars
    BY <2>1 DEF Open, OpenPort, HearNoise, SetAttributes, FlushInput, StartPoll, ReadNothing,
                sourceVars, portVars, parserVars, BufferBounded
  <2>2. CASE Close
    BY <2>2, EmptySeq, FormatConstants DEF Close, BufferBounded, HeaderSize
  <2>3. CASE ReadBytes
    <3>1. PICK n \in 1 .. ReadSize :
            /\ SubSeq(queue, 1, n) \in Seq(Byte) /\ Len(SubSeq(queue, 1, n)) = n
            /\ buffer' = buffer \o SubSeq(queue, 1, n)
      BY <2>3, ReadMovesPrefix
    <3>2. buffer \in Seq(Byte) /\ Len(buffer) \in Nat
      BY LenProperties DEF TypeOK
    <3>3. Len(buffer') = Len(buffer) + n
      BY <3>1, <3>2, ConcatProperties
    <3>4. Len(buffer) < HeaderSize + MaxLength /\ pc' = "popAgain"
      BY <2>3 DEF ReadBytes, BufferBounded
    <3>5. Len(buffer') < HeaderSize + MaxLength + ReadSize
      BY <3>2, <3>3, <3>4, FormatConstants DEF HeaderSize
    <3> QED
      BY <3>4, <3>5 DEF BufferBounded
  <2> QED
    BY <2>1, <2>2, <2>3, TryPopKeepsBound DEF Next
<1> QED
  BY <1>1, <1>2, SerialSourceTyped, PTL DEF Spec

(***************************************************************************)
(* The clean start                                                         *)
(***************************************************************************)

\* A port that is not open yet has handed nothing over, for nobody polls it.
NothingBeforeOpen == port # "open" => arrived = <<>> /\ pc = "idle"

\* What the driver discards at the end of Open (tcflush, PurgeComm) is all that
\* came before it, so the parser sees the device's bytes from their first one.
THEOREM NoStaleBytesEver == Spec => []NoStaleBytes
<1>1. Init => NothingBeforeOpen /\ NoStaleBytes
  BY DEF Init, NothingBeforeOpen, NoStaleBytes
<1>2. TypeOK /\ NothingBeforeOpen /\ NoStaleBytes /\ [Next]_sourceVars
        => NothingBeforeOpen' /\ NoStaleBytes'
  <2> SUFFICES ASSUME TypeOK, NothingBeforeOpen, NoStaleBytes, [Next]_sourceVars
               PROVE  NothingBeforeOpen' /\ NoStaleBytes'
    OBVIOUS
  <2>1. CASE OpenPort \/ HearNoise \/ SetAttributes
    BY <2>1 DEF OpenPort, HearNoise, SetAttributes, NothingBeforeOpen, NoStaleBytes
  <2>2. CASE FlushInput
    <3>1. arrived' = <<>>
      BY <2>2 DEF FlushInput, NothingBeforeOpen
    <3>2. queue' \in Seq(Byte) /\ queue' = transmission'.bytes /\ port' = "open"
      BY <2>2, SerialSourceAssumption DEF FlushInput
    <3> QED
      BY <3>1, <3>2, ConcatEmptySeq DEF NothingBeforeOpen, NoStaleBytes
  <2>3. CASE Close
    BY <2>3 DEF Close, NothingBeforeOpen, NoStaleBytes
  <2>4. CASE StartPoll \/ ReadNothing \/ UNCHANGED sourceVars
    BY <2>4 DEF StartPoll, ReadNothing, sourceVars, portVars, NothingBeforeOpen, NoStaleBytes
  <2>5. CASE TryPop
    <3>1. UNCHANGED portVars /\ pc # "idle"
      BY <2>5 DEF TryPop, TooFewBytes, DiscardNoise, SkipToSync, RejectLength, AwaitRest,
                  RejectCrc, PopFrame, InTryPop
    <3> QED
      BY <3>1 DEF portVars, NothingBeforeOpen, NoStaleBytes
  <2>6. CASE ReadBytes
    <3>1. port = "open" /\ UNCHANGED <<port, transmission>>
      BY <2>6 DEF ReadBytes, NothingBeforeOpen
    <3>2. PICK n \in 1 .. ReadSize :
            /\ SubSeq(queue, 1, n) \in Seq(Byte)
            /\ queue' \in Seq(Byte)
            /\ SubSeq(queue, 1, n) \o queue' = queue
            /\ arrived' = arrived \o SubSeq(queue, 1, n)
      BY <2>6, ReadMovesPrefix
    <3>3. arrived \in Seq(Byte)
      BY DEF TypeOK
    <3>4. (arrived \o SubSeq(queue, 1, n)) \o queue' = arrived \o (SubSeq(queue, 1, n) \o queue')
      BY <3>2, <3>3, ConcatAssociative
    <3>5. arrived' \o queue' = arrived \o queue
      BY <3>2, <3>4
    <3> QED
      BY <3>1, <3>5 DEF NothingBeforeOpen, NoStaleBytes
  <2> QED
    BY <2>1, <2>2, <2>3, <2>4, <2>5, <2>6 DEF Next, Open
<1> QED
  BY <1>1, <1>2, SerialSourceTyped, PTL DEF Spec

(***************************************************************************)
(* The decoder of FrameStream, for every sequence of bytes                 *)
(***************************************************************************)

\* FrameStream has the same format.
LEMMA StreamFormat ==
    /\ \A s : Stream!SyncPositions(s) = SyncPositions(s)
    /\ \A s, k : /\ Stream!LengthAt(s, k) = LengthAt(s, k)
                 /\ Stream!TotalSizeAt(s, k) = TotalSizeAt(s, k)
                 /\ Stream!CrcInputAt(s, k) = CrcInputAt(s, k)
                 /\ Stream!CrcAt(s, k) = CrcAt(s, k)
                 /\ Stream!FrameAt(s, k) = FrameAt(s, k)
    /\ \A l, input, received :
          /\ Stream!CrcValid(l, input, received) <=> CrcValid(l, input, received)
          /\ Stream!LockAfter(l, input, received) = LockAfter(l, input, received)
    /\ \A n : Stream!LengthAllowed(n) <=> LengthAllowed(n)
    /\ Stream!Locks = Locks /\ Stream!LeastSize = LeastSize /\ Stream!Byte = Byte
    /\ Stream!Unlocked = Unlocked
    /\ \A S : Stream!Min(S) = Min(S)
<1>0. \A S : Stream!Min(S) = Min(S)
  BY DEF Stream!Min, Min
<1>1. \A s : Stream!SyncPositions(s) = SyncPositions(s)
  BY DEF Stream!SyncPositions, SyncPositions
<1>2. \A s, k : /\ Stream!LengthAt(s, k) = LengthAt(s, k)
                /\ Stream!TotalSizeAt(s, k) = TotalSizeAt(s, k)
  BY DEF Stream!LengthAt, LengthAt, Stream!TotalSizeAt, TotalSizeAt, Stream!HeaderSize, HeaderSize
<1>3. \A s, k : /\ Stream!CrcInputAt(s, k) = CrcInputAt(s, k)
                /\ Stream!CrcAt(s, k) = CrcAt(s, k)
                /\ Stream!FrameAt(s, k) = FrameAt(s, k)
  BY <1>2 DEF Stream!CrcInputAt, CrcInputAt, Stream!CrcAt, CrcAt, Stream!FrameAt, FrameAt,
              Stream!HeaderSize, HeaderSize
<1>4. \A l, input, received :
          Stream!MatchingProfiles(l, input, received) = MatchingProfiles(l, input, received)
  BY Zenon DEF Stream!MatchingProfiles, MatchingProfiles, Stream!ProfilesTried, ProfilesTried,
               Stream!Unlocked, Unlocked
<1>5. \A l, input, received :
          /\ Stream!CrcValid(l, input, received) <=> CrcValid(l, input, received)
          /\ Stream!LockAfter(l, input, received) = LockAfter(l, input, received)
  BY <1>0, <1>4 DEF Stream!CrcValid, CrcValid, Stream!LockAfter, LockAfter
<1>6. /\ \A n : Stream!LengthAllowed(n) <=> LengthAllowed(n)
      /\ Stream!Locks = Locks /\ Stream!LeastSize = LeastSize /\ Stream!Byte = Byte
      /\ Stream!Unlocked = Unlocked
  BY DEF Stream!LengthAllowed, LengthAllowed, Stream!Locks, Locks, Stream!LeastSize, LeastSize,
         Stream!Byte, Byte, Stream!Unlocked, Unlocked
<1> QED
  BY <1>0, <1>1, <1>2, <1>3, <1>5, <1>6

\* What it means that position k holds the parser.
LEMMA HoldsAtMeans ==
    \A s, l, k :
       Stream!HoldsAt(s, l, k) <=>
          /\ k \in SyncPositions(s)
          /\ k + LeastSize - 1 <= Len(s)
          /\ LengthAllowed(LengthAt(s, k))
          /\ k + TotalSizeAt(s, k) - 1 <= Len(s)
                => CrcValid(l, CrcInputAt(s, k), CrcAt(s, k))
BY StreamFormat, Zenon DEF Stream!HoldsAt, Stream!CompleteAt

\* A frame that is complete at a position has its fields there, and what follows
\* it is further on.
LEMMA CompleteFrame ==
    ASSUME NEW s \in Seq(Byte), NEW l, NEW k \in 1 .. Len(s) + 1,
           Stream!HoldsAt(s, l, k), k + TotalSizeAt(s, k) - 1 <= Len(s)
    PROVE  /\ TotalSizeAt(s, k) \in Nat /\ LeastSize <= TotalSizeAt(s, k)
           /\ k + TotalSizeAt(s, k) \in k + 1 .. Len(s) + 1
           /\ FrameAt(s, k) \in Frames
<1>1. Len(s) \in Nat /\ k \in Nat /\ 1 <= k /\ k + LeastSize - 1 <= Len(s)
  BY LenProperties, HoldsAtMeans
<1>2. LengthAt(s, k) \in Nat
  <2>1. k + 2 \in 1 .. Len(s) /\ k + 3 \in 1 .. Len(s)
    BY <1>1 DEF LeastSize
  <2>2. s[k + 2] \in Byte /\ s[k + 3] \in Byte
    BY <2>1, ElementOfSeq
  <2>3. s[k + 2] \in Nat /\ s[k + 3] \in Nat /\ ByteBase \in Nat
    BY <2>2, FrameFormatAssumption DEF Byte
  <2>4. \A a, b, c \in Nat : a + b * c \in Nat
    OBVIOUS
  <2> QED
    BY <2>3, <2>4 DEF LengthAt
<1>3. LengthAt(s, k) >= 2
  BY HoldsAtMeans DEF LengthAllowed
<1>4. TotalSizeAt(s, k) \in Nat /\ LeastSize <= TotalSizeAt(s, k)
  BY <1>2, <1>3 DEF TotalSizeAt, HeaderSize, LeastSize
<1>5. k + TotalSizeAt(s, k) \in k + 1 .. Len(s) + 1
  BY <1>1, <1>4 DEF LeastSize
<1>6. s[k + HeaderSize] \in Byte
  <2>1. k + HeaderSize \in 1 .. Len(s)
    BY <1>1 DEF HeaderSize, LeastSize
  <2> QED
    BY <2>1, ElementOfSeq
<1>7. SubSeq(s, k + HeaderSize + 1, k + TotalSizeAt(s, k) - 2) \in Seq(Byte)
  <2>1. /\ k + HeaderSize + 1 \in Int
        /\ k + TotalSizeAt(s, k) - 2 \in Int
        /\ (k + HeaderSize + 1) .. (k + TotalSizeAt(s, k) - 2) \subseteq 1 .. Len(s)
    BY <1>1, <1>4 DEF HeaderSize, LeastSize
  <2>2. \A i \in (k + HeaderSize + 1) .. (k + TotalSizeAt(s, k) - 2) : s[i] \in Byte
    BY <2>1, ElementOfSeq
  <2> QED
    BY <2>1, <2>2, SubSeqProperties
<1>8. FrameAt(s, k) \in Frames
  BY <1>6, <1>7 DEF FrameAt, Frames
<1> QED
  BY <1>4, <1>5, <1>8

\* The positions from k on that hold the parser, and the first of them.
Holding(s, l, k) == {j \in k .. Len(s) : Stream!HoldsAt(s, l, j)}
FirstHolding(s, l, k) == Min(Holding(s, l, k))

\* The first of them is found, if there is any.
LEMMA FirstHoldingProperties ==
    ASSUME NEW s \in Seq(Byte), NEW l, NEW k \in 1 .. Len(s) + 1, Holding(s, l, k) # {}
    PROVE  /\ FirstHolding(s, l, k) \in k .. Len(s)
           /\ Stream!HoldsAt(s, l, FirstHolding(s, l, k))
           /\ \A i \in Holding(s, l, k) : FirstHolding(s, l, k) <= i
<1>1. Holding(s, l, k) \subseteq Nat
  BY LenProperties DEF Holding
<1>3. /\ FirstHolding(s, l, k) \in Holding(s, l, k)
      /\ \A i \in Holding(s, l, k) : FirstHolding(s, l, k) <= i
  BY <1>1, MinIsLeast DEF FirstHolding
<1> QED
  BY <1>3 DEF Holding

\* One unfolding of the decoder.
LEMMA DecodedFromMeans ==
    ASSUME NEW s, NEW l, NEW k, NEW later
    PROVE  Stream!DecodedFrom(s, l, k, later) =
             LET first == FirstHolding(s, l, k)
             IN IF Holding(s, l, k) = {} \/ ~(first + TotalSizeAt(s, first) - 1 <= Len(s))
                THEN <<>>
                ELSE <<FrameAt(s, first)>>
                     \o later[first + TotalSizeAt(s, first)]
                             [LockAfter(l, CrcInputAt(s, first), CrcAt(s, first))]
BY StreamFormat DEF Stream!DecodedFrom, Stream!CompleteAt, Holding, FirstHolding

\* It looks at later positions only.
LEMMA LaterOnly ==
    ASSUME NEW s \in Seq(Byte), NEW l \in Locks, NEW k \in 1 .. Len(s) + 1,
           NEW f, NEW g, \A j \in k + 1 .. Len(s) + 1 : f[j] = g[j]
    PROVE  Stream!DecodedFrom(s, l, k, f) = Stream!DecodedFrom(s, l, k, g)
<1> DEFINE first == FirstHolding(s, l, k)
<1>0. \A h : Stream!DecodedFrom(s, l, k, h) =
              IF Holding(s, l, k) = {} \/ ~(first + TotalSizeAt(s, first) - 1 <= Len(s))
              THEN <<>>
              ELSE <<FrameAt(s, first)>>
                   \o h[first + TotalSizeAt(s, first)]
                        [LockAfter(l, CrcInputAt(s, first), CrcAt(s, first))]
  BY DecodedFromMeans
<1> HIDE DEF first
<1>1. CASE Holding(s, l, k) = {} \/ ~(first + TotalSizeAt(s, first) - 1 <= Len(s))
  BY <1>0, <1>1
<1>2. CASE ~(Holding(s, l, k) = {} \/ ~(first + TotalSizeAt(s, first) - 1 <= Len(s)))
  <2>1. first \in k .. Len(s) /\ Stream!HoldsAt(s, l, first)
    BY <1>2, FirstHoldingProperties DEF first
  <2>2. k \in Nat /\ Len(s) \in Nat /\ 1 <= k
    BY LenProperties
  <2>3. first \in 1 .. Len(s) + 1
    BY <2>1, <2>2
  <2>4. first + TotalSizeAt(s, first) \in first + 1 .. Len(s) + 1
    BY <1>2, <2>1, <2>3, CompleteFrame DEF first
  <2>5. first + TotalSizeAt(s, first) \in k + 1 .. Len(s) + 1
    BY <2>1, <2>2, <2>4
  <2>6. f[first + TotalSizeAt(s, first)] = g[first + TotalSizeAt(s, first)]
    BY <2>5
  <2> QED
    BY <1>0, <1>2, <2>6
<1> QED
  BY <1>1, <1>2

\* What a function yields behind position k is frames.
FramesBehind(s, k, f) ==
    \A j \in k + 1 .. Len(s) + 1 : \A m \in Locks : f[j][m] \in Seq(Frames)

\* It yields frames if what follows does.
LEMMA DecodedFrames ==
    ASSUME NEW s \in Seq(Byte), NEW l \in Locks, NEW k \in 1 .. Len(s) + 1,
           NEW f, FramesBehind(s, k, f)
    PROVE  Stream!DecodedFrom(s, l, k, f) \in Seq(Frames)
<1> DEFINE first == FirstHolding(s, l, k)
<1>0. \A h : Stream!DecodedFrom(s, l, k, h) =
              IF Holding(s, l, k) = {} \/ ~(first + TotalSizeAt(s, first) - 1 <= Len(s))
              THEN <<>>
              ELSE <<FrameAt(s, first)>>
                   \o h[first + TotalSizeAt(s, first)]
                        [LockAfter(l, CrcInputAt(s, first), CrcAt(s, first))]
  BY DecodedFromMeans
<1> HIDE DEF first
<1>1. CASE Holding(s, l, k) = {} \/ ~(first + TotalSizeAt(s, first) - 1 <= Len(s))
  <2>1. Stream!DecodedFrom(s, l, k, f) = <<>>
    BY <1>0, <1>1
  <2> QED
    BY <2>1, EmptySeq
<1>2. CASE ~(Holding(s, l, k) = {} \/ ~(first + TotalSizeAt(s, first) - 1 <= Len(s)))
  <2>1. first \in k .. Len(s) /\ Stream!HoldsAt(s, l, first)
    <3>1. Holding(s, l, k) # {}
      BY <1>2
    <3> QED
      BY <3>1, FirstHoldingProperties DEF first
  <2>2. k \in Nat /\ Len(s) \in Nat /\ 1 <= k
    BY LenProperties
  <2>3. first \in 1 .. Len(s) + 1
    BY <2>1, <2>2
  <2>4. first + TotalSizeAt(s, first) \in first + 1 .. Len(s) + 1 /\ FrameAt(s, first) \in Frames
    BY <1>2, <2>1, <2>3, CompleteFrame
  <2>5. first + TotalSizeAt(s, first) \in k + 1 .. Len(s) + 1
    BY <2>1, <2>2, <2>4
  <2>6. LockAfter(l, CrcInputAt(s, first), CrcAt(s, first)) \in Locks
    BY LockAfterIsLock
  <2>7. f[first + TotalSizeAt(s, first)]
         [LockAfter(l, CrcInputAt(s, first), CrcAt(s, first))] \in Seq(Frames)
    BY <2>5, <2>6 DEF FramesBehind
  <2>8. <<FrameAt(s, first)>> \in Seq(Frames)
    BY <2>4
  <2>9. Stream!DecodedFrom(s, l, k, f) =
           <<FrameAt(s, first)>>
           \o f[first + TotalSizeAt(s, first)]
               [LockAfter(l, CrcInputAt(s, first), CrcAt(s, first))]
    BY <1>0, <1>2
  <2> HIDE DEF first
  <2> QED
    BY <2>7, <2>8, <2>9, ConcatProperties
<1> QED
  BY <1>1, <1>2

\* A function that decodes from position a on.
DecodesFrom(s, a, g) ==
    g = [k \in a .. Len(s) + 1 |-> [l \in Locks |-> Stream!DecodedFrom(s, l, k, g)]]

\* If one position is decoded, so is the one before.
LEMMA DecodesOneMore ==
    ASSUME NEW s \in Seq(Byte), NEW a \in 1 .. Len(s) + 1, NEW g,
           \A j \in a + 1 .. Len(s) + 1 :
               g[j] = [l \in Locks |-> Stream!DecodedFrom(s, l, j, g)]
    PROVE  \E h : DecodesFrom(s, a, h)
<1> DEFINE h == [k \in a .. Len(s) + 1 |->
                    IF k = a THEN [l \in Locks |-> Stream!DecodedFrom(s, l, k, g)] ELSE g[k]]
<1>1. a \in Nat /\ Len(s) \in Nat /\ 1 <= a
  BY LenProperties
<1>2. \A k \in a .. Len(s) + 1 :
          h[k] = IF k = a THEN [l \in Locks |-> Stream!DecodedFrom(s, l, k, g)] ELSE g[k]
  OBVIOUS
<1>3. \A j \in a + 1 .. Len(s) + 1 : j \in a .. Len(s) + 1 /\ j # a
  BY <1>1
<1>4. \A j \in a + 1 .. Len(s) + 1 : h[j] = g[j]
  BY <1>2, <1>3
<1>5. h = [k \in a .. Len(s) + 1 |-> h[k]]
  OBVIOUS
<1> HIDE DEF h
<1>6. ASSUME NEW k \in a .. Len(s) + 1
      PROVE  h[k] = [l \in Locks |-> Stream!DecodedFrom(s, l, k, h)]
  <2>1. k \in 1 .. Len(s) + 1 /\ (k = a \/ k \in a + 1 .. Len(s) + 1)
    BY <1>1
  <2>2. \A j \in k + 1 .. Len(s) + 1 : g[j] = h[j]
    BY <1>1, <1>4
  <2>3. \A l \in Locks : Stream!DecodedFrom(s, l, k, g) = Stream!DecodedFrom(s, l, k, h)
    BY <2>1, <2>2, LaterOnly
  <2>4. h[k] = [l \in Locks |-> Stream!DecodedFrom(s, l, k, g)]
    BY <1>2, <1>3, <2>1
  <2> QED
    BY <2>3, <2>4
<1>7. h = [k \in a .. Len(s) + 1 |-> [l \in Locks |-> Stream!DecodedFrom(s, l, k, h)]]
  BY <1>5, <1>6
<1> QED
  BY <1>7 DEF DecodesFrom

\* So every position can be decoded: a longest part that cannot be has no end.
LEMMA SomethingDecodes ==
    ASSUME NEW s \in Seq(Byte)
    PROVE  \E g : DecodesFrom(s, 1, g)
<1>1. Len(s) \in Nat
  BY LenProperties
<1> DEFINE failing == {n \in 0 .. Len(s) : ~ \E g : DecodesFrom(s, Len(s) + 1 - n, g)}
<1>2. failing = {}
  <2> SUFFICES ASSUME failing # {} PROVE FALSE
    OBVIOUS
  <2>1. failing \subseteq Nat
    BY <1>1
  <2>2. PICK n \in failing : \A m \in failing : n <= m
    BY <2>1, LeastMember
  <2>3. n \in 0 .. Len(s) /\ ~ \E g : DecodesFrom(s, Len(s) + 1 - n, g)
    BY <2>2
  <2>4. \E g : \A j \in (Len(s) + 1 - n) + 1 .. Len(s) + 1 :
                  g[j] = [l \in Locks |-> Stream!DecodedFrom(s, l, j, g)]
    <3>1. CASE n = 0
      BY <1>1, <3>1
    <3>2. CASE n # 0
      <4>1. n - 1 \in 0 .. Len(s) /\ ~(n <= n - 1)
            /\ Len(s) + 1 - (n - 1) = (Len(s) + 1 - n) + 1
        BY <1>1, <2>3, <3>2
      <4>2. n - 1 \notin failing
        BY <2>2, <4>1
      <4>3. PICK g : DecodesFrom(s, Len(s) + 1 - (n - 1), g)
        BY <4>1, <4>2
      <4>4. g = [k \in (Len(s) + 1 - n) + 1 .. Len(s) + 1 |->
                    [l \in Locks |-> Stream!DecodedFrom(s, l, k, g)]]
        BY <4>1, <4>3 DEF DecodesFrom
      <4> QED
        BY <4>4
    <3> QED
      BY <3>1, <3>2
  <2>5. Len(s) + 1 - n \in 1 .. Len(s) + 1
    BY <1>1, <2>3
  <2> QED
    BY <2>3, <2>4, <2>5, DecodesOneMore
<1>3. 0 + Len(s) \in 0 .. Len(s) /\ Len(s) + 1 - Len(s) = 1 /\ Len(s) \in 0 .. Len(s)
  BY <1>1
<1> QED
  BY <1>2, <1>3

\* The decoder satisfies its recursive equation.
LEMMA DecodingUnfolds ==
    ASSUME NEW s \in Seq(Byte)
    PROVE  \A k \in 1 .. Len(s) + 1 : \A l \in Locks :
              Stream!Decoding(s)[k][l] = Stream!DecodedFrom(s, l, k, Stream!Decoding(s))
<1>1. \E g : g = [k \in 1 .. Len(s) + 1 |-> [l \in Locks |-> Stream!DecodedFrom(s, l, k, g)]]
  BY SomethingDecodes DEF DecodesFrom
<1>2. Stream!Decoding(s) =
        CHOOSE g : g = [k \in 1 .. Len(s) + 1 |-> [l \in Locks |-> Stream!DecodedFrom(s, l, k, g)]]
  BY StreamFormat DEF Stream!Decoding
<1>3. Stream!Decoding(s) = [k \in 1 .. Len(s) + 1 |->
                              [l \in Locks |-> Stream!DecodedFrom(s, l, k, Stream!Decoding(s))]]
  BY <1>1, <1>2
<1> QED
  BY <1>3

\* And yields frames.
LEMMA DecodingYieldsFrames ==
    ASSUME NEW s \in Seq(Byte)
    PROVE  \A k \in 1 .. Len(s) + 1 : \A l \in Locks : Stream!Decoding(s)[k][l] \in Seq(Frames)
<1>1. Len(s) \in Nat
  BY LenProperties
<1> DEFINE D == Stream!Decoding(s)
           failing == {n \in 0 .. Len(s) : \E l \in Locks : D[Len(s) + 1 - n][l] \notin Seq(Frames)}
<1>2. failing = {}
  <2> SUFFICES ASSUME failing # {} PROVE FALSE
    OBVIOUS
  <2>1. failing \subseteq Nat
    BY <1>1
  <2>2. PICK n \in failing : \A m \in failing : n <= m
    BY <2>1, LeastMember
  <2> DEFINE a == Len(s) + 1 - n
  <2>3. n \in 0 .. Len(s) /\ a \in 1 .. Len(s) + 1
    BY <1>1, <2>2
  <2>4. ASSUME NEW j \in a + 1 .. Len(s) + 1, NEW m \in Locks
        PROVE  D[j][m] \in Seq(Frames)
    <3>1. /\ Len(s) + 1 - j \in 0 .. Len(s) /\ ~(n <= Len(s) + 1 - j)
          /\ Len(s) + 1 - (Len(s) + 1 - j) = j
      BY <1>1, <2>3
    <3>2. Len(s) + 1 - j \notin failing
      BY <2>2, <3>1
    <3> QED
      BY <3>1, <3>2
  <2>5. FramesBehind(s, a, D)
    BY <2>4 DEF FramesBehind
  <2>6. \A l \in Locks : D[a][l] \in Seq(Frames)
    BY <2>3, <2>5, DecodingUnfolds, DecodedFrames
  <2> QED
    BY <2>2, <2>6
<1>3. \A k \in 1 .. Len(s) + 1 : Len(s) + 1 - k \in 0 .. Len(s) /\ Len(s) + 1 - (Len(s) + 1 - k) = k
  BY <1>1
<1> HIDE DEF D
<1>4. ASSUME NEW k \in 1 .. Len(s) + 1, NEW l \in Locks
      PROVE  D[k][l] \in Seq(Frames)
  <2>1. Len(s) + 1 - k \notin failing
    BY <1>2
  <2> QED
    BY <1>3, <2>1
<1> QED
  BY <1>4 DEF D

(***************************************************************************)
(* The buffer as a part of the stream                                      *)
(***************************************************************************)

\* Bytes t stand in s from position p on.
StandsIn(t, s, p) ==
    /\ p \in Nat \ {0}
    /\ p - 1 + Len(t) <= Len(s)
    /\ \A i \in 1 .. Len(t) : s[p - 1 + i] = t[i]

\* What the parser reads at the front of its buffer is what FrameStream reads at
\* the place of the buffer in the stream.
LEMMA SameHeader ==
    ASSUME NEW s \in Seq(Byte), NEW t \in Seq(Byte), NEW p, StandsIn(t, s, p)
    PROVE  /\ \A i \in 1 .. Len(t) - 1 : p - 1 + i \in SyncPositions(s) <=> i \in SyncPositions(t)
           /\ LeastSize <= Len(t) => LengthAt(s, p) = LengthAt(t, 1)
                                     /\ TotalSizeAt(s, p) = TotalSizeAt(t, 1)
<1>1. /\ Len(s) \in Nat /\ Len(t) \in Nat /\ p \in Nat /\ 1 <= p /\ p - 1 + Len(t) <= Len(s)
      /\ \A i \in 1 .. Len(t) : s[p - 1 + i] = t[i]
  BY LenProperties DEF StandsIn
<1>2. ASSUME NEW i \in 1 .. Len(t) - 1
      PROVE  p - 1 + i \in SyncPositions(s) <=> i \in SyncPositions(t)
  <2>1. /\ i \in 1 .. Len(t) /\ i + 1 \in 1 .. Len(t) /\ p - 1 + i \in 1 .. Len(s) - 1
        /\ p - 1 + (i + 1) = (p - 1 + i) + 1
    BY <1>1
  <2>2. s[p - 1 + i] = t[i] /\ s[(p - 1 + i) + 1] = t[i + 1]
    BY <1>1, <2>1
  <2> QED
    BY <2>1, <2>2 DEF SyncPositions
<1>3. ASSUME LeastSize <= Len(t)
      PROVE  LengthAt(s, p) = LengthAt(t, 1) /\ TotalSizeAt(s, p) = TotalSizeAt(t, 1)
  <2>1. /\ 3 \in 1 .. Len(t) /\ 4 \in 1 .. Len(t) /\ p - 1 + 3 = p + 2 /\ p - 1 + 4 = p + 3
        /\ 1 + 2 = 3 /\ 1 + 3 = 4
    BY <1>1, <1>3 DEF LeastSize
  <2>2. s[p + 2] = t[3] /\ s[p + 3] = t[4]
    BY <1>1, <2>1
  <2>3. LengthAt(s, p) = s[p + 2] + ByteBase * s[p + 3]
    BY DEF LengthAt
  <2>4. LengthAt(t, 1) = t[1 + 2] + ByteBase * t[1 + 3]
    BY DEF LengthAt
  <2>5. LengthAt(s, p) = LengthAt(t, 1)
    BY <2>1, <2>2, <2>3, <2>4
  <2> QED
    BY <2>5 DEF TotalSizeAt
<1> QED
  BY <1>2, <1>3

\* Position m of a buffer that stands in the stream from position p on.
Shifted(p, m) == p - 1 + m

\* Every part of the buffer is the same part of the stream.
SameParts(t, s, p) ==
    \A m \in Nat : \A n \in Nat :
        1 <= m /\ n <= Len(t) => SubSeq(s, Shifted(p, m), Shifted(p, n)) = SubSeq(t, m, n)

\* What stands in a stream has its parts there.
LEMMA SamePart ==
    ASSUME NEW s \in Seq(Byte), NEW t \in Seq(Byte), NEW p, StandsIn(t, s, p)
    PROVE  SameParts(t, s, p)
<1> SUFFICES ASSUME NEW m \in Nat, NEW n \in Nat, 1 <= m, n <= Len(t)
             PROVE  SubSeq(s, Shifted(p, m), Shifted(p, n)) = SubSeq(t, m, n)
  BY DEF SameParts
<1>0. PICK a, b : a = Shifted(p, m) /\ b = Shifted(p, n)
  OBVIOUS
<1>1. /\ Len(s) \in Nat /\ Len(t) \in Nat /\ p \in Nat /\ 1 <= p /\ p - 1 + Len(t) <= Len(s)
      /\ \A i \in 1 .. Len(t) : s[p - 1 + i] = t[i]
      /\ a = p - 1 + m /\ b = p - 1 + n
  BY <1>0, LenProperties DEF StandsIn, Shifted
<1>2. /\ \A i \in m .. n : i \in 1 .. Len(t)
      /\ \A i \in a .. b : i \in 1 .. Len(s)
      /\ a \in Int /\ b \in Int /\ m \in Int /\ n \in Int
      /\ b - a + 1 = n - m + 1
      /\ (a <= b) <=> m <= n
  BY <1>1
<1>3. /\ \A i \in m .. n : t[i] \in Byte
      /\ \A i \in a .. b : s[i] \in Byte
  BY <1>2, ElementOfSeq
<1>4. /\ SubSeq(t, m, n) \in Seq(Byte)
      /\ Len(SubSeq(t, m, n)) = IF m <= n THEN n - m + 1 ELSE 0
      /\ \A i \in 1 .. n - m + 1 : SubSeq(t, m, n)[i] = t[m + i - 1]
  BY <1>2, <1>3, SubSeqProperties
<1>5. /\ SubSeq(s, a, b) \in Seq(Byte)
      /\ Len(SubSeq(s, a, b)) =
            IF a <= b THEN b - a + 1 ELSE 0
      /\ \A i \in 1 .. b - a + 1 :
            SubSeq(s, a, b)[i] = s[a + i - 1]
  BY <1>2, <1>3, SubSeqProperties
<1>6. \A i \in 1 .. n - m + 1 : /\ m + i - 1 \in 1 .. Len(t)
                                /\ a + i - 1 = p - 1 + (m + i - 1)
  BY <1>1
<1>7. \A i \in 1 .. n - m + 1 :
          SubSeq(s, a, b)[i] = SubSeq(t, m, n)[i]
  BY <1>1, <1>2, <1>4, <1>5, <1>6
<1>8. Len(SubSeq(s, a, b)) = Len(SubSeq(t, m, n))
  BY <1>2, <1>4, <1>5
<1>9. \A i \in 1 .. Len(SubSeq(t, m, n)) : i \in 1 .. n - m + 1
  BY <1>1, <1>4
<1> QED
  BY <1>0, <1>4, <1>5, <1>7, <1>8, <1>9, SeqEqual

\* So the checksum, what it covers and the frame are the same.
LEMMA SameFrame ==
    ASSUME NEW s \in Seq(Byte), NEW t \in Seq(Byte), NEW p, StandsIn(t, s, p),
           TotalSizeAt(t, 1) \in LeastSize .. Len(t)
    PROVE  /\ CrcInputAt(s, p) = CrcInputAt(t, 1)
           /\ CrcAt(s, p) = CrcAt(t, 1)
           /\ FrameAt(s, p) = FrameAt(t, 1)
<1>1. /\ Len(s) \in Nat /\ Len(t) \in Nat /\ p \in Nat /\ 1 <= p /\ p - 1 + Len(t) <= Len(s)
      /\ \A i \in 1 .. Len(t) : s[p - 1 + i] = t[i]
  BY LenProperties DEF StandsIn
<1> DEFINE total == TotalSizeAt(t, 1)
<1>2. total \in Nat /\ 6 <= total /\ total <= Len(t) /\ TotalSizeAt(s, p) = total
  BY <1>1, SameHeader DEF LeastSize
<1> HIDE DEF total
<1>3. SameParts(t, s, p)
  BY SamePart
<1>4. CrcInputAt(s, p) = CrcInputAt(t, 1)
  <2>1. /\ 5 \in Nat /\ 1 <= 5 /\ total - 1 \in Nat /\ total - 1 <= Len(t)
        /\ p + HeaderSize = p - 1 + 5 /\ p + total - 2 = p - 1 + (total - 1)
        /\ 1 + HeaderSize = 5 /\ 1 + total - 2 = total - 1
    BY <1>1, <1>2 DEF HeaderSize
  <2>2. SubSeq(s, p + HeaderSize, p + total - 2) = SubSeq(t, 5, total - 1)
    <3>1. SubSeq(s, Shifted(p, 5), Shifted(p, total - 1)) = SubSeq(t, 5, total - 1)
      BY <1>3, <2>1 DEF SameParts
    <3>2. Shifted(p, 5) = p + HeaderSize /\ Shifted(p, total - 1) = p + total - 2
      BY <2>1 DEF Shifted
    <3> QED
      BY <3>1, <3>2
  <2>3. CrcInputAt(s, p) = SubSeq(s, p + HeaderSize, p + total - 2)
    BY <1>2 DEF CrcInputAt
  <2>4. CrcInputAt(t, 1) = SubSeq(t, 1 + HeaderSize, 1 + total - 2)
    BY DEF CrcInputAt, total
  <2> QED
    BY <2>1, <2>2, <2>3, <2>4
<1>5. CrcAt(s, p) = CrcAt(t, 1)
  <2>1. total \in 1 .. Len(t) /\ p + total - 1 = p - 1 + total /\ 1 + total - 1 = total
    BY <1>1, <1>2
  <2>2. s[p - 1 + total] = t[total]
    BY <1>1, <2>1
  <2>3. CrcAt(s, p) = s[p + total - 1]
    BY <1>2 DEF CrcAt
  <2>4. CrcAt(t, 1) = t[1 + total - 1]
    BY DEF CrcAt, total
  <2> QED
    BY <2>1, <2>2, <2>3, <2>4
<1>6. FrameAt(s, p) = FrameAt(t, 1)
  <2>1. /\ 6 \in Nat /\ 1 <= 6 /\ total - 1 \in Nat /\ total - 1 <= Len(t)
        /\ p + HeaderSize + 1 = p - 1 + 6 /\ p + total - 2 = p - 1 + (total - 1)
        /\ 1 + HeaderSize + 1 = 6 /\ 1 + total - 2 = total - 1
        /\ 5 \in 1 .. Len(t) /\ p + HeaderSize = p - 1 + 5 /\ 1 + HeaderSize = 5
    BY <1>1, <1>2 DEF HeaderSize
  <2>2. SubSeq(s, p + HeaderSize + 1, p + total - 2) = SubSeq(t, 6, total - 1)
    <3>1. SubSeq(s, Shifted(p, 6), Shifted(p, total - 1)) = SubSeq(t, 6, total - 1)
      BY <1>3, <2>1 DEF SameParts
    <3>2. Shifted(p, 6) = p + HeaderSize + 1 /\ Shifted(p, total - 1) = p + total - 2
      BY <2>1 DEF Shifted
    <3> QED
      BY <3>1, <3>2
  <2>3. s[p - 1 + 5] = t[5]
    BY <1>1, <2>1
  <2>4. FrameAt(s, p) = [msgId |-> s[p + HeaderSize],
                         msgData |-> SubSeq(s, p + HeaderSize + 1, p + total - 2)]
    BY <1>2 DEF FrameAt
  <2>5. FrameAt(t, 1) = [msgId |-> t[1 + HeaderSize],
                         msgData |-> SubSeq(t, 1 + HeaderSize + 1, 1 + total - 2)]
    BY DEF FrameAt, total
  <2> QED
    BY <2>1, <2>2, <2>3, <2>4, <2>5
<1> QED
  BY <1>4, <1>5, <1>6

\* Positions that do not hold the parser yield nothing.
LEMMA SkippedPositions ==
    ASSUME NEW s \in Seq(Byte), NEW l \in Locks, NEW k \in 1 .. Len(s) + 1,
           NEW m \in k .. Len(s) + 1, \A j \in k .. m - 1 : ~Stream!HoldsAt(s, l, j)
    PROVE  Stream!Decoding(s)[k][l] = Stream!Decoding(s)[m][l]
<1>1. k \in Nat /\ m \in Nat /\ Len(s) \in Nat /\ m \in 1 .. Len(s) + 1
  BY LenProperties
<1>2. \A j \in k .. Len(s) : j \in k .. m - 1 \/ j \in m .. Len(s)
  BY <1>1
<1>3. \A j \in m .. Len(s) : j \in k .. Len(s)
  BY <1>1
<1>4. Holding(s, l, k) = Holding(s, l, m)
  BY <1>2, <1>3 DEF Holding
<1>5. FirstHolding(s, l, k) = FirstHolding(s, l, m)
  BY <1>4 DEF FirstHolding
<1>6. \A h : Stream!DecodedFrom(s, l, k, h) = Stream!DecodedFrom(s, l, m, h)
  BY <1>4, <1>5, DecodedFromMeans
<1> QED
  BY <1>1, <1>6, DecodingUnfolds

\* A complete frame is yielded, and what follows it is decoded behind it.
LEMMA TakenFrame ==
    ASSUME NEW s \in Seq(Byte), NEW l \in Locks, NEW k \in 1 .. Len(s) + 1,
           Stream!HoldsAt(s, l, k), k + TotalSizeAt(s, k) - 1 <= Len(s)
    PROVE  Stream!Decoding(s)[k][l] =
              <<FrameAt(s, k)>>
              \o Stream!Decoding(s)[k + TotalSizeAt(s, k)]
                                   [LockAfter(l, CrcInputAt(s, k), CrcAt(s, k))]
<1>1. k \in Nat /\ Len(s) \in Nat
  BY LenProperties
<1>2. k <= Len(s)
  BY <1>1, CompleteFrame
<1>3. k \in Holding(s, l, k)
  BY <1>1, <1>2 DEF Holding
<1>4. FirstHolding(s, l, k) \in k .. Len(s) /\ FirstHolding(s, l, k) <= k
  BY <1>3, FirstHoldingProperties
<1>5. FirstHolding(s, l, k) = k
  BY <1>1, <1>4
<1>6. Stream!DecodedFrom(s, l, k, Stream!Decoding(s)) =
              <<FrameAt(s, k)>>
              \o Stream!Decoding(s)[k + TotalSizeAt(s, k)]
                                   [LockAfter(l, CrcInputAt(s, k), CrcAt(s, k))]
  BY <1>3, <1>5, DecodedFromMeans
<1> QED
  BY <1>6, DecodingUnfolds

\* What is left of a buffer stands as much further on as was dropped.
LEMMA StandsFurtherOn ==
    ASSUME NEW s \in Seq(Byte), NEW t \in Seq(Byte), NEW p, StandsIn(t, s, p),
           NEW n \in 0 .. Len(t)
    PROVE  StandsIn(Drop(t, n), s, p + n)
<1>1. /\ Len(s) \in Nat /\ Len(t) \in Nat /\ p \in Nat /\ 1 <= p /\ p - 1 + Len(t) <= Len(s)
      /\ \A i \in 1 .. Len(t) : s[p - 1 + i] = t[i]
  BY LenProperties DEF StandsIn
<1>2. /\ Len(Drop(t, n)) = Len(t) - n
      /\ \A i \in 1 .. Len(t) - n : Drop(t, n)[i] = t[n + i]
  BY DropProperties
<1>3. PICK q, rest : q = p + n /\ rest = Drop(t, n)
  OBVIOUS
<1>4. q \in Nat \ {0} /\ q - 1 + (Len(t) - n) <= Len(s)
  BY <1>1, <1>3
<1>5. ASSUME NEW i \in 1 .. Len(t) - n
      PROVE  s[q - 1 + i] = rest[i]
  <2>1. n + i \in 1 .. Len(t) /\ q - 1 + i = p - 1 + (n + i)
    BY <1>1, <1>3
  <2>2. s[p - 1 + (n + i)] = t[n + i]
    BY <1>1, <2>1
  <2>3. rest[i] = t[n + i]
    BY <1>2, <1>3
  <2> QED
    BY <2>1, <2>2, <2>3
<1>6. Len(rest) = Len(t) - n
  BY <1>2, <1>3
<1>7. StandsIn(rest, s, q)
  <2>1. \A i \in 1 .. Len(rest) : s[q - 1 + i] = rest[i]
    BY <1>5, <1>6
  <2>2. q - 1 + Len(rest) <= Len(s)
    BY <1>4, <1>6
  <2> QED
    BY <1>4, <2>1, <2>2 DEF StandsIn
<1> QED
  BY <1>3, <1>7

\* s goes on where t ends.
Continues(s, t) ==
    /\ Len(t) <= Len(s)
    /\ \A i \in 1 .. Len(t) : s[i] = t[i]

\* However the stream goes on from a, its frames are those in d and then those
\* that the decoder finds from position p on with the profile l.
Kept(a, p, l, d) ==
    \A s \in Seq(Byte) :
        Continues(s, a) => Stream!Decode(s) = d \o Stream!Decoding(s)[p][l]

\* What stands at the end of what arrived stands there however it goes on.
LEMMA StandsOn ==
    ASSUME NEW a \in Seq(Byte), NEW s \in Seq(Byte), Continues(s, a),
           NEW t \in Seq(Byte), NEW p, StandsIn(t, a, p)
    PROVE  StandsIn(t, s, p)
<1>1. /\ Len(s) \in Nat /\ Len(t) \in Nat /\ Len(a) \in Nat /\ p \in Nat /\ 1 <= p
      /\ p - 1 + Len(t) <= Len(a)
      /\ \A i \in 1 .. Len(t) : a[p - 1 + i] = t[i]
      /\ Len(a) <= Len(s)
      /\ \A i \in 1 .. Len(a) : s[i] = a[i]
  BY LenProperties DEF StandsIn, Continues
<1>2. \A i \in 1 .. Len(t) : p - 1 + i \in 1 .. Len(a)
  BY <1>1
<1>3. \A i \in 1 .. Len(t) : s[p - 1 + i] = t[i]
  BY <1>1, <1>2
<1> QED
  BY <1>1, <1>3 DEF StandsIn

\* Giving up the first n bytes of the buffer keeps the frames, if none of those
\* positions could have held the parser however the stream goes on.
LEMMA GivingUpKeeps ==
    ASSUME NEW a \in Seq(Byte), NEW t \in Seq(Byte), NEW p, StandsIn(t, a, p),
           NEW l \in Locks, NEW d, Kept(a, p, l, d), NEW n \in 0 .. Len(t),
           \A s \in Seq(Byte) : StandsIn(t, s, p) =>
               \A j \in 1 .. n : ~Stream!HoldsAt(s, l, p - 1 + j)
    PROVE  Kept(a, p + n, l, d)
<1> SUFFICES ASSUME NEW s \in Seq(Byte), Continues(s, a)
             PROVE  Stream!Decode(s) = d \o Stream!Decoding(s)[p + n][l]
  BY DEF Kept
<1>1. StandsIn(t, s, p)
  BY StandsOn
<1>2. /\ Len(s) \in Nat /\ Len(t) \in Nat /\ p \in Nat /\ 1 <= p /\ p - 1 + Len(t) <= Len(s)
  BY <1>1, LenProperties DEF StandsIn
<1>3. \A j \in 1 .. n : ~Stream!HoldsAt(s, l, p - 1 + j)
  BY <1>1
<1>4. ASSUME NEW j \in p .. p + n - 1
      PROVE  ~Stream!HoldsAt(s, l, j)
  <2>1. j - p + 1 \in 1 .. n /\ p - 1 + (j - p + 1) = j
    BY <1>2
  <2> QED
    BY <1>3, <2>1
<1>5. p \in 1 .. Len(s) + 1 /\ p + n \in p .. Len(s) + 1
  BY <1>2
<1>6. Stream!Decoding(s)[p][l] = Stream!Decoding(s)[p + n][l]
  BY <1>4, <1>5, SkippedPositions
<1>7. Stream!Decode(s) = d \o Stream!Decoding(s)[p][l]
  BY DEF Kept
<1> QED
  BY <1>6, <1>7

\* A position without a sync pair does not hold the parser.
LEMMA NoPairNoHold ==
    ASSUME NEW s \in Seq(Byte), NEW t \in Seq(Byte), NEW p, StandsIn(t, s, p), NEW l,
           NEW j \in 1 .. Len(t), j \notin SyncPositions(t),
           j = Len(t) => t[j] # Sync0
    PROVE  ~Stream!HoldsAt(s, l, p - 1 + j)
<1>1. Len(t) \in Nat /\ p \in Nat /\ \A i \in 1 .. Len(t) : s[p - 1 + i] = t[i]
  BY LenProperties DEF StandsIn
<1>2. CASE j = Len(t)
  <2>1. s[p - 1 + j] # Sync0
    BY <1>1, <1>2
  <2>2. p - 1 + j \notin SyncPositions(s)
    BY <2>1 DEF SyncPositions
  <2> QED
    BY <2>2, HoldsAtMeans
<1>3. CASE j # Len(t)
  <2>1. j \in 1 .. Len(t) - 1
    BY <1>1, <1>3
  <2>2. p - 1 + j \notin SyncPositions(s)
    BY <2>1, SameHeader
  <2> QED
    BY <2>2, HoldsAtMeans
<1> QED
  BY <1>2, <1>3

\* A sync pair at the front is at the place of the front in the stream.
LEMMA FrontHeader ==
    ASSUME NEW s \in Seq(Byte), NEW t \in Seq(Byte), NEW p, StandsIn(t, s, p),
           LeastSize <= Len(t), 1 \in SyncPositions(t)
    PROVE  /\ p \in SyncPositions(s)
           /\ p \in 1 .. Len(s) /\ p + LeastSize - 1 <= Len(s)
           /\ LengthAt(s, p) = LengthAt(t, 1)
           /\ TotalSizeAt(s, p) = TotalSizeAt(t, 1)
<1>1. /\ Len(s) \in Nat /\ Len(t) \in Nat /\ p \in Nat /\ 1 <= p /\ p - 1 + Len(t) <= Len(s)
  BY LenProperties DEF StandsIn
<1>2. 1 \in 1 .. Len(t) - 1 /\ p - 1 + 1 = p /\ p \in 1 .. Len(s) /\ p + LeastSize - 1 <= Len(s)
  BY <1>1 DEF LeastSize
<1>3. \A i \in 1 .. Len(t) - 1 : p - 1 + i \in SyncPositions(s) <=> i \in SyncPositions(t)
  BY SameHeader
<1>4. p \in SyncPositions(s)
  BY <1>2, <1>3
<1> QED
  BY <1>2, <1>4, SameHeader

\* A frame that the parser rejects for its length or its checksum is none.
LEMMA RejectedHoldsNot ==
    ASSUME NEW s \in Seq(Byte), NEW t \in Seq(Byte), NEW p, StandsIn(t, s, p), NEW l,
           LeastSize <= Len(t), 1 \in SyncPositions(t),
           \/ ~LengthAllowed(LengthAt(t, 1))
           \/ /\ TotalSizeAt(t, 1) \in LeastSize .. Len(t)
              /\ ~CrcValid(l, CrcInputAt(t, 1), CrcAt(t, 1))
    PROVE  ~Stream!HoldsAt(s, l, p)
<1>1. LengthAt(s, p) = LengthAt(t, 1) /\ TotalSizeAt(s, p) = TotalSizeAt(t, 1)
  BY FrontHeader
<1>2. CASE ~LengthAllowed(LengthAt(t, 1))
  BY <1>1, <1>2, HoldsAtMeans
<1>3. CASE TotalSizeAt(t, 1) \in LeastSize .. Len(t)
           /\ ~CrcValid(l, CrcInputAt(t, 1), CrcAt(t, 1))
  <2>1. /\ Len(s) \in Nat /\ Len(t) \in Nat /\ p \in Nat /\ 1 <= p /\ p - 1 + Len(t) <= Len(s)
    BY LenProperties DEF StandsIn
  <2>2. p + TotalSizeAt(s, p) - 1 <= Len(s)
    BY <1>1, <1>3, <2>1 DEF LeastSize
  <2>3. CrcInputAt(s, p) = CrcInputAt(t, 1) /\ CrcAt(s, p) = CrcAt(t, 1)
    BY <1>3, SameFrame
  <2>4. ~CrcValid(l, CrcInputAt(s, p), CrcAt(s, p))
    BY <1>3, <2>3
  <2> QED
    BY <2>2, <2>4, HoldsAtMeans
<1> QED
  BY <1>2, <1>3

\* A frame that the parser takes is the next of the stream.
LEMMA TakenIsNext ==
    ASSUME NEW s \in Seq(Byte), NEW t \in Seq(Byte), NEW p, StandsIn(t, s, p),
           NEW l \in Locks,
           LeastSize <= Len(t), 1 \in SyncPositions(t),
           LengthAllowed(LengthAt(t, 1)), TotalSizeAt(t, 1) \in LeastSize .. Len(t),
           CrcValid(l, CrcInputAt(t, 1), CrcAt(t, 1))
    PROVE  /\ p + TotalSizeAt(t, 1) \in 1 .. Len(s) + 1
           /\ Stream!Decoding(s)[p][l] =
                 <<FrameAt(t, 1)>>
                 \o Stream!Decoding(s)[p + TotalSizeAt(t, 1)]
                                      [LockAfter(l, CrcInputAt(t, 1), CrcAt(t, 1))]
<1>1. /\ p \in SyncPositions(s)
      /\ p \in 1 .. Len(s) /\ p + LeastSize - 1 <= Len(s)
      /\ LengthAt(s, p) = LengthAt(t, 1) /\ TotalSizeAt(s, p) = TotalSizeAt(t, 1)
  BY FrontHeader
<1>2. /\ CrcInputAt(s, p) = CrcInputAt(t, 1) /\ CrcAt(s, p) = CrcAt(t, 1)
      /\ FrameAt(s, p) = FrameAt(t, 1)
  BY SameFrame
<1>3. /\ Len(s) \in Nat /\ Len(t) \in Nat /\ p \in Nat /\ 1 <= p /\ p - 1 + Len(t) <= Len(s)
  BY LenProperties DEF StandsIn
<1>4. p + TotalSizeAt(s, p) - 1 <= Len(s) /\ p + TotalSizeAt(t, 1) \in 1 .. Len(s) + 1
      /\ p \in 1 .. Len(s) + 1
  BY <1>1, <1>3 DEF LeastSize
<1>5. Stream!HoldsAt(s, l, p)
  <2>1. LengthAllowed(LengthAt(s, p)) /\ CrcValid(l, CrcInputAt(s, p), CrcAt(s, p))
    BY <1>1, <1>2
  <2> QED
    BY <1>1, <2>1, HoldsAtMeans
<1>6. Stream!Decoding(s)[p][l] =
              <<FrameAt(s, p)>>
              \o Stream!Decoding(s)[p + TotalSizeAt(s, p)]
                                   [LockAfter(l, CrcInputAt(s, p), CrcAt(s, p))]
  BY <1>4, <1>5, TakenFrame
<1> QED
  BY <1>1, <1>2, <1>4, <1>6

(***************************************************************************)
(* The serial source implements FrameStream                                *)
(***************************************************************************)

\* Where the buffer starts in what arrived.
Position == Len(arrived) - Len(buffer) + 1

\* What was delivered and what the buffer still yields are the frames of the
\* stream, however it goes on from here.
StreamInv ==
    /\ TypeOK
    /\ StandsIn(buffer, arrived, Position)
    /\ Kept(arrived, Position, lock, delivered)

\* A source without bytes: everything is still to be decoded.
LEMMA NothingArrived ==
    StandsIn(<<>>, <<>>, 1) /\ Kept(<<>>, 1, Unlocked, <<>>)
<1>1. <<>> \in Seq(Byte) /\ Len(<<>>) = 0
  BY EmptySeq
<1>2. StandsIn(<<>>, <<>>, 1)
  BY <1>1 DEF StandsIn
<1>3. ASSUME NEW s \in Seq(Byte)
      PROVE  Stream!Decode(s) = <<>> \o Stream!Decoding(s)[1][Unlocked]
  <2>1. 1 \in 1 .. Len(s) + 1 /\ Unlocked \in Locks
    BY LenProperties DEF Locks
  <2>2. Stream!Decoding(s)[1][Unlocked] \in Seq(Frames)
    BY <2>1, DecodingYieldsFrames
  <2>3. Stream!Decode(s) = Stream!Decoding(s)[1][Unlocked]
    BY StreamFormat DEF Stream!Decode
  <2> QED
    BY <2>2, <2>3, ConcatEmptySeq
<1> QED
  BY <1>2, <1>3 DEF Kept

\* It holds of a source that was never opened.
LEMMA StreamInitially == Init => StreamInv
<1> SUFFICES ASSUME Init PROVE StreamInv
  OBVIOUS
<1>1. arrived = <<>> /\ buffer = <<>> /\ lock = Unlocked /\ delivered = <<>>
  BY DEF Init
<1>2. Position = 1
  BY <1>1, EmptySeq DEF Position
<1> QED
  BY <1>1, <1>2, NothingArrived, TypeInitially DEF StreamInv

\* A pass of TryPop that delivers nothing drops bytes from the front.
GivesUp(n) ==
    /\ n \in 0 .. Len(buffer)
    /\ buffer' = Drop(buffer, n)
    /\ UNCHANGED <<arrived, lock, delivered>>

\* It does no harm where no frame can start.
LEMMA GivingUpKeepsStream ==
    ASSUME StreamInv, TypeOK', NEW n, GivesUp(n),
           \A s \in Seq(Byte) : StandsIn(buffer, s, Position) =>
               \A j \in 1 .. n : ~Stream!HoldsAt(s, lock, Position - 1 + j)
    PROVE  StreamInv'
<1>1. /\ buffer \in Seq(Byte) /\ arrived \in Seq(Byte) /\ lock \in Locks
      /\ Len(buffer) \in Nat /\ Len(arrived) \in Nat
  BY LenProperties DEF StreamInv, TypeOK
<1>2. PICK p : p = Position
  OBVIOUS
<1>3. n \in 0 .. Len(buffer)
  BY DEF GivesUp
<1>4. Len(Drop(buffer, n)) = Len(buffer) - n
  BY <1>1, <1>3, DropProperties
<1>5. Position' = p + n
  <2>1. Position' = Len(arrived) - Len(Drop(buffer, n)) + 1
    BY DEF Position, GivesUp
  <2> QED
    BY <1>1, <1>2, <1>3, <1>4, <2>1 DEF Position
<1>6. StandsIn(buffer, arrived, p) /\ Kept(arrived, p, lock, delivered)
  BY <1>2 DEF StreamInv
<1>7. StandsIn(Drop(buffer, n), arrived, p + n)
  BY <1>1, <1>3, <1>6, StandsFurtherOn
<1>8. \A s \in Seq(Byte) : StandsIn(buffer, s, p) =>
               \A j \in 1 .. n : ~Stream!HoldsAt(s, lock, p - 1 + j)
  BY <1>2
<1>9. Kept(arrived, p + n, lock, delivered)
  BY <1>1, <1>3, <1>6, <1>8, GivingUpKeeps
<1> QED
  BY <1>5, <1>7, <1>9 DEF StreamInv, GivesUp

\* The passes that deliver nothing give up only positions where no frame is, or
\* nothing at all.
LEMMA StreamOfGivingUp ==
    ASSUME StreamInv, TypeOK', TryPop, ~PopFrame
    PROVE  StreamInv' /\ UNCHANGED <<arrived, delivered>>
<1>1. /\ buffer \in Seq(Byte) /\ Len(buffer) \in Nat
      /\ StandsIn(buffer, arrived, Position)
  BY LenProperties DEF StreamInv, TypeOK
<1>2. CASE TooFewBytes \/ AwaitRest
  <2>1. UNCHANGED <<arrived, buffer, lock, delivered>>
    BY <1>2 DEF TooFewBytes, AwaitRest, portVars, parserVars
  <2> QED
    BY <2>1 DEF StreamInv, Position
<1>3. CASE DiscardNoise
  <2>1. PICK kept \in {0, 1} : /\ kept = (IF buffer[Len(buffer)] = Sync0 THEN 1 ELSE 0)
                               /\ buffer' = Drop(buffer, Len(buffer) - kept)
    BY <1>3 DEF DiscardNoise
  <2>2. LeastSize <= Len(buffer) /\ SyncPositions(buffer) = {}
        /\ UNCHANGED <<arrived, lock, delivered>>
    BY <1>3 DEF DiscardNoise, portVars
  <2>3. GivesUp(Len(buffer) - kept)
    BY <1>1, <2>1, <2>2 DEF GivesUp, LeastSize
  <2>4. ASSUME NEW s \in Seq(Byte), StandsIn(buffer, s, Position),
               NEW j \in 1 .. Len(buffer) - kept
        PROVE  ~Stream!HoldsAt(s, lock, Position - 1 + j)
    <3>1. j \in 1 .. Len(buffer) /\ (j = Len(buffer) => kept = 0)
      BY <1>1, <2>1
    <3>2. j = Len(buffer) => buffer[j] # Sync0
      BY <2>1, <3>1
    <3>3. j \notin SyncPositions(buffer)
      BY <2>2
    <3> QED
      BY <1>1, <2>4, <3>1, <3>2, <3>3, NoPairNoHold
  <2>5. StreamInv'
    BY <2>3, <2>4, GivingUpKeepsStream
  <2> QED
    BY <2>2, <2>5
<1>4. CASE SkipToSync
  <2>1. /\ buffer' = Drop(buffer, FirstSync - 1)
        /\ SyncPositions(buffer) # {}
        /\ UNCHANGED <<arrived, lock, delivered>>
    BY <1>4 DEF SkipToSync, portVars
  <2>2. /\ FirstSync \in 1 .. Len(buffer) - 1
        /\ \A j \in SyncPositions(buffer) : FirstSync <= j
    BY <1>1, <2>1, FirstSyncProperties
  <2>3. GivesUp(FirstSync - 1)
    BY <1>1, <2>1, <2>2 DEF GivesUp
  <2>4. ASSUME NEW s \in Seq(Byte), StandsIn(buffer, s, Position),
               NEW j \in 1 .. FirstSync - 1
        PROVE  ~Stream!HoldsAt(s, lock, Position - 1 + j)
    <3>1. j \in 1 .. Len(buffer) /\ j # Len(buffer) /\ ~(FirstSync <= j)
      BY <1>1, <2>2
    <3>2. j \notin SyncPositions(buffer)
      BY <2>2, <3>1
    <3> QED
      BY <1>1, <2>4, <3>1, <3>2, NoPairNoHold
  <2>5. StreamInv'
    BY <2>3, <2>4, GivingUpKeepsStream
  <2> QED
    BY <2>1, <2>5
<1>5. CASE RejectLength \/ RejectCrc
  <2>1. /\ buffer' = Drop(buffer, 1)
        /\ LeastSize <= Len(buffer) /\ 1 \in SyncPositions(buffer)
        /\ UNCHANGED <<arrived, lock, delivered>>
    BY <1>5 DEF RejectLength, RejectCrc, WholeFrameAtFront, AtSync, portVars
  <2>2. GivesUp(1)
    BY <1>1, <2>1 DEF GivesUp, LeastSize
  <2>3. \/ ~LengthAllowed(LengthAt(buffer, 1))
        \/ /\ TotalSizeAt(buffer, 1) \in LeastSize .. Len(buffer)
           /\ ~CrcValid(lock, CrcInputAt(buffer, 1), CrcAt(buffer, 1))
    <3>1. CASE RejectLength
      BY <3>1 DEF RejectLength
    <3>2. CASE RejectCrc
      <4>1. WholeFrameAtFront /\ ~CrcValid(lock, CrcInputAt(buffer, 1), CrcAt(buffer, 1))
        BY <3>2 DEF RejectCrc, FrontCrcValid
      <4> QED
        BY <1>1, <4>1, WholeFrameProperties
    <3> QED
      BY <1>5, <3>1, <3>2
  <2>4. ASSUME NEW s \in Seq(Byte), StandsIn(buffer, s, Position), NEW j \in 1 .. 1
        PROVE  ~Stream!HoldsAt(s, lock, Position - 1 + j)
    <3>1. ~Stream!HoldsAt(s, lock, Position)
      BY <1>1, <2>1, <2>3, <2>4, RejectedHoldsNot
    <3>2. Position - 1 + j = Position
      BY <1>1 DEF StandsIn
    <3> QED
      BY <3>1, <3>2
  <2>5. StreamInv'
    BY <2>2, <2>4, GivingUpKeepsStream
  <2> QED
    BY <2>1, <2>5
<1> QED
  BY <1>2, <1>3, <1>4, <1>5 DEF TryPop

\* The frame at the head of what follows is the next one delivered.
LEMMA HeadMovesOver ==
    ASSUME NEW S, NEW d \in Seq(S), NEW f \in S, NEW rest \in Seq(S)
    PROVE  d \o (<<f>> \o rest) = Append(d, f) \o rest
<1>1. <<f>> \in Seq(S)
  OBVIOUS
<1>2. d \o (<<f>> \o rest) = (d \o <<f>>) \o rest
  BY <1>1, ConcatAssociative
<1>3. Append(d, f) = d \o <<f>>
  BY AppendIsConcat
<1> QED
  BY <1>2, <1>3

\* And the delivered frames are one more of the stream.
LEMMA HeadIsNext ==
    ASSUME NEW S, NEW d \in Seq(S), NEW f \in S, NEW rest \in Seq(S)
    PROVE  /\ Len(d) < Len(Append(d, f) \o rest)
           /\ Append(d, f) = SubSeq(Append(d, f) \o rest, 1, Len(d) + 1)
<1>1. Append(d, f) \in Seq(S) /\ Len(Append(d, f)) = Len(d) + 1
  BY AppendProperties
<1>2. Len(Append(d, f) \o rest) = Len(d) + 1 + Len(rest)
  BY <1>1, ConcatProperties
<1>3. Len(d) \in Nat /\ Len(rest) \in Nat
  BY LenProperties
<1>4. SubSeq(Append(d, f) \o rest, 1, Len(Append(d, f))) = Append(d, f)
  BY <1>1, <1>3, SubSeqOfConcat1, SubSeqFull
<1> QED
  BY <1>1, <1>2, <1>3, <1>4

\* PopFrame takes the next frame of the stream.
LEMMA StreamOfPopFrame ==
    ASSUME StreamInv, TypeOK', PopFrame
    PROVE  StreamInv' /\ Stream!Deliver
<1>1. /\ buffer \in Seq(Byte) /\ arrived \in Seq(Byte) /\ lock \in Locks
      /\ delivered \in Seq(Frames)
      /\ Len(buffer) \in Nat /\ Len(arrived) \in Nat
  BY LenProperties DEF StreamInv, TypeOK
<1>2. PICK p, total, q, frame, next :
          /\ p = Position /\ total = TotalSizeAt(buffer, 1) /\ q = p + total
          /\ frame = FrameAt(buffer, 1)
          /\ next = LockAfter(lock, CrcInputAt(buffer, 1), CrcAt(buffer, 1))
  OBVIOUS
<1>3. /\ buffer' = Drop(buffer, total) /\ delivered' = Append(delivered, frame)
      /\ lock' = next /\ arrived' = arrived
  BY <1>2 DEF PopFrame, portVars
<1>4. /\ LeastSize <= Len(buffer) /\ 1 \in SyncPositions(buffer)
      /\ LengthAllowed(LengthAt(buffer, 1))
      /\ CrcValid(lock, CrcInputAt(buffer, 1), CrcAt(buffer, 1))
      /\ WholeFrameAtFront
  BY DEF PopFrame, WholeFrameAtFront, AtSync, FrontCrcValid
<1>5. total \in LeastSize .. Len(buffer) /\ frame \in Frames
  BY <1>1, <1>2, <1>4, WholeFrameProperties
<1>6. next \in Locks
  BY <1>1, <1>2, LockAfterIsLock
<1>7. total \in 0 .. Len(buffer)
  BY <1>1, <1>5 DEF LeastSize
<1>8. StandsIn(buffer, arrived, p) /\ Kept(arrived, p, lock, delivered)
  BY <1>2 DEF StreamInv
<1>9. ASSUME NEW s \in Seq(Byte), Continues(s, arrived)
      PROVE  /\ Stream!Decoding(s)[q][next] \in Seq(Frames)
             /\ Stream!Decode(s) =
                   delivered \o (<<frame>> \o Stream!Decoding(s)[q][next])
  <2>1. StandsIn(buffer, s, p)
    BY <1>1, <1>8, <1>9, StandsOn
  <2>2. /\ q \in 1 .. Len(s) + 1
        /\ Stream!Decoding(s)[p][lock] = <<frame>> \o Stream!Decoding(s)[q][next]
    BY <1>1, <1>2, <1>4, <1>5, <2>1, TakenIsNext
  <2>3. Stream!Decoding(s)[q][next] \in Seq(Frames)
    BY <1>6, <2>2, DecodingYieldsFrames
  <2>4. Stream!Decode(s) = delivered \o Stream!Decoding(s)[p][lock]
    BY <1>8, <1>9 DEF Kept
  <2> QED
    BY <2>2, <2>3, <2>4
<1>10. Position' = q
  <2>1. Len(Drop(buffer, total)) = Len(buffer) - total
    BY <1>1, <1>7, DropProperties
  <2>2. Position' = Len(arrived) - Len(Drop(buffer, total)) + 1
    BY <1>3 DEF Position
  <2>3. p = Len(arrived) - Len(buffer) + 1 /\ q = p + total
    BY <1>2 DEF Position
  <2>4. Len(arrived) - (Len(buffer) - total) + 1 = q
    BY <1>1, <1>7, <2>3
  <2> QED
    BY <2>1, <2>2, <2>4
<1>11. StandsIn(Drop(buffer, total), arrived, q)
  BY <1>1, <1>2, <1>7, <1>8, StandsFurtherOn
<1>12. \A s \in Seq(Byte) : Continues(s, arrived) =>
          Stream!Decode(s) = Append(delivered, frame) \o Stream!Decoding(s)[q][next]
  <2> TAKE s \in Seq(Byte)
  <2> HAVE Continues(s, arrived)
  <2>1. PICK rest : rest = Stream!Decoding(s)[q][next]
    OBVIOUS
  <2>2. rest \in Seq(Frames) /\ Stream!Decode(s) = delivered \o (<<frame>> \o rest)
    BY <1>9, <2>1
  <2>3. delivered \o (<<frame>> \o rest) = Append(delivered, frame) \o rest
    BY <1>1, <1>5, <2>2, HeadMovesOver, SMTT(20)
  <2> QED
    BY <2>1, <2>2, <2>3
<1>13. StreamInv'
  <2>1. Kept(arrived, q, next, Append(delivered, frame))
    BY <1>12 DEF Kept
  <2> QED
    BY <1>3, <1>10, <1>11, <2>1 DEF StreamInv
<1>14. Continues(arrived, arrived)
  BY <1>1 DEF Continues
<1>15. PICK rest \in Seq(Frames) : Stream!Decode(arrived) = Append(delivered, frame) \o rest
  BY <1>1, <1>9, <1>12, <1>14
<1>16. /\ Len(delivered) < Len(Stream!Decode(arrived))
       /\ Append(delivered, frame) = SubSeq(Stream!Decode(arrived), 1, Len(delivered) + 1)
  BY <1>1, <1>5, <1>15, HeadIsNext
<1>17. Stream!Deliver
  BY <1>3, <1>16 DEF Stream!Deliver
<1> QED
  BY <1>13, <1>17

\* A longer stream continues what it grew from.
LEMMA GrownStream ==
    ASSUME NEW a \in Seq(Byte), NEW t \in Seq(Byte), NEW q \in Seq(Byte),
           NEW p, p = Len(a) - Len(t) + 1, StandsIn(t, a, p)
    PROVE  /\ p = Len(a \o q) - Len(t \o q) + 1
           /\ StandsIn(t \o q, a \o q, p)
           /\ \A s \in Seq(Byte) : Continues(s, a \o q) => Continues(s, a)
           /\ SubSeq(a \o q, 1, Len(a)) = a
<1>1. /\ Len(a) \in Nat /\ Len(t) \in Nat /\ Len(q) \in Nat
      /\ p \in Nat \ {0} /\ p - 1 + Len(t) <= Len(a)
      /\ \A i \in 1 .. Len(t) : a[p - 1 + i] = t[i]
  BY LenProperties DEF StandsIn
<1>2. /\ a \o q \in Seq(Byte) /\ Len(a \o q) = Len(a) + Len(q)
      /\ \A i \in 1 .. Len(a) + Len(q) :
            (a \o q)[i] = IF i <= Len(a) THEN a[i] ELSE q[i - Len(a)]
  BY ConcatProperties
<1>3. /\ Len(t \o q) = Len(t) + Len(q)
      /\ \A i \in 1 .. Len(t) + Len(q) :
            (t \o q)[i] = IF i <= Len(t) THEN t[i] ELSE q[i - Len(t)]
  BY ConcatProperties
<1>4. p = Len(a \o q) - Len(t \o q) + 1
  BY <1>1, <1>2, <1>3
<1>5. ASSUME NEW i \in 1 .. Len(t) + Len(q)
      PROVE  (a \o q)[p - 1 + i] = (t \o q)[i]
  <2>1. /\ p - 1 + i \in 1 .. Len(a) + Len(q)
        /\ p - 1 + i <= Len(a) <=> i <= Len(t)
        /\ (p - 1 + i) - Len(a) = i - Len(t)
        /\ i <= Len(t) => i \in 1 .. Len(t)
    BY <1>1
  <2>2. (a \o q)[p - 1 + i] =
           IF p - 1 + i <= Len(a) THEN a[p - 1 + i] ELSE q[(p - 1 + i) - Len(a)]
    BY <1>2, <2>1
  <2>3. (t \o q)[i] = IF i <= Len(t) THEN t[i] ELSE q[i - Len(t)]
    BY <1>3
  <2> QED
    BY <1>1, <2>1, <2>2, <2>3
<1>6. StandsIn(t \o q, a \o q, p)
  <2>1. p - 1 + Len(t \o q) <= Len(a \o q)
    BY <1>1, <1>2, <1>3
  <2> QED
    BY <1>1, <1>3, <1>5, <2>1 DEF StandsIn
<1>7. ASSUME NEW s \in Seq(Byte), Continues(s, a \o q)
      PROVE  Continues(s, a)
  <2>1. Len(s) \in Nat /\ Len(a) + Len(q) <= Len(s)
        /\ \A i \in 1 .. Len(a) + Len(q) : s[i] = (a \o q)[i]
    BY <1>2, <1>7, LenProperties DEF Continues
  <2>2. \A i \in 1 .. Len(a) : i \in 1 .. Len(a) + Len(q) /\ i <= Len(a)
    BY <1>1
  <2>3. \A i \in 1 .. Len(a) : s[i] = a[i]
    BY <1>2, <2>1, <2>2
  <2>4. Len(a) <= Len(s)
    BY <1>1, <2>1
  <2> QED
    BY <2>3, <2>4 DEF Continues
<1>8. SubSeq(a \o q, 1, Len(a)) = a
  <2>1. CASE Len(a) = 0
    <3>1. a = <<>>
      BY <2>1, EmptySeq
    <3>2. SubSeq(a \o q, 1, 0) = <<>>
      BY SubSeqEmpty
    <3> QED
      BY <2>1, <3>1, <3>2
  <2>2. CASE Len(a) # 0
    <3>1. 1 \in 1 .. Len(a) /\ Len(a) \in 1 .. Len(a)
      BY <1>1, <2>2
    <3> QED
      BY <3>1, SubSeqOfConcat1, SubSeqFull
  <2> QED
    BY <2>1, <2>2
<1> QED
  BY <1>4, <1>6, <1>7, <1>8

\* ReadBytes makes the stream longer.
LEMMA StreamOfReadBytes ==
    ASSUME StreamInv, TypeOK', ReadBytes
    PROVE  StreamInv' /\ Stream!Arrive
<1>1. /\ TypeOK /\ buffer \in Seq(Byte) /\ arrived \in Seq(Byte)
      /\ Len(buffer) \in Nat /\ Len(arrived) \in Nat
  BY LenProperties DEF StreamInv, TypeOK
<1>2. PICK q \in Seq(Byte) : /\ Len(q) > 0
                             /\ arrived' = arrived \o q /\ buffer' = buffer \o q
  <2>1. PICK n \in 1 .. ReadSize :
               /\ Len(SubSeq(queue, 1, n)) = n /\ SubSeq(queue, 1, n) \in Seq(Byte)
               /\ arrived' = arrived \o SubSeq(queue, 1, n)
               /\ buffer' = buffer \o SubSeq(queue, 1, n)
    BY <1>1, ReadMovesPrefix
  <2>2. n > 0
    BY FormatConstants
  <2> QED
    BY <2>1, <2>2
<1>3. UNCHANGED <<lock, delivered>>
  BY DEF ReadBytes
<1>4. StandsIn(buffer, arrived, Position) /\ Kept(arrived, Position, lock, delivered)
  BY DEF StreamInv
<1>5. PICK p : p = Position
  OBVIOUS
<1>6. /\ p = Len(arrived \o q) - Len(buffer \o q) + 1
      /\ StandsIn(buffer \o q, arrived \o q, p)
      /\ \A s \in Seq(Byte) : Continues(s, arrived \o q) => Continues(s, arrived)
      /\ SubSeq(arrived \o q, 1, Len(arrived)) = arrived
  <2>1. p = Len(arrived) - Len(buffer) + 1 /\ StandsIn(buffer, arrived, p)
    BY <1>4, <1>5 DEF Position
  <2> QED
    BY <1>1, <2>1, GrownStream
<1>7. Position' = p
  BY <1>2, <1>6 DEF Position
<1>8. Kept(arrived \o q, p, lock, delivered)
  BY <1>4, <1>5, <1>6 DEF Kept
<1>9. StreamInv'
  BY <1>2, <1>3, <1>6, <1>7, <1>8 DEF StreamInv
<1>10. /\ arrived \o q \in Seq(Byte) /\ Len(arrived \o q) = Len(arrived) + Len(q)
       /\ Len(q) \in Nat
  BY <1>1, ConcatProperties, LenProperties
<1>11. Len(arrived') > Len(arrived)
  BY <1>1, <1>2, <1>10
<1>12. Stream!Arrive
  BY <1>2, <1>3, <1>6, <1>10, <1>11, StreamFormat DEF Stream!Arrive
<1> QED
  BY <1>9, <1>12

\* Every step keeps the invariant and is a step of the stream, or none.
LEMMA StreamStep ==
    ASSUME StreamInv, [Next]_sourceVars
    PROVE  StreamInv' /\ [Stream!Next]_<<arrived, delivered>>
<1>1. TypeOK'
  BY TypeStep DEF StreamInv
<1>2. CASE TryPop
  <2>1. CASE PopFrame
    BY <1>1, <2>1, StreamOfPopFrame DEF Stream!Next
  <2>2. CASE ~PopFrame
    BY <1>1, <1>2, <2>2, StreamOfGivingUp
  <2> QED
    BY <2>1, <2>2
<1>3. CASE ReadBytes
  BY <1>1, <1>3, StreamOfReadBytes DEF Stream!Next
<1>4. CASE Close
  <2>1. arrived' = <<>> /\ buffer' = <<>> /\ lock' = Unlocked /\ delivered' = <<>>
    BY <1>4 DEF Close
  <2>2. Position' = 1
    BY <2>1, EmptySeq DEF Position
  <2>3. StreamInv'
    BY <1>1, <2>1, <2>2, NothingArrived DEF StreamInv
  <2>4. Stream!Restart
    BY <2>1 DEF Stream!Restart, Stream!Init
  <2> QED
    BY <2>3, <2>4 DEF Stream!Next
<1>5. CASE Open \/ StartPoll \/ ReadNothing \/ UNCHANGED sourceVars
  <2>1. UNCHANGED <<arrived, buffer, lock, delivered>>
    BY <1>5 DEF Open, OpenPort, HearNoise, SetAttributes, FlushInput, StartPoll, ReadNothing,
                sourceVars, portVars, parserVars
  <2> QED
    BY <1>1, <2>1 DEF StreamInv, Position
<1> QED
  BY <1>2, <1>3, <1>4, <1>5 DEF Next

\* The serial source delivers the frames of the byte stream, each once and in
\* order, however the reads cut the bytes: it implements FrameStream.
THEOREM SourceDeliversTheStream == Spec => DeliversTheStream
<1>1. Init => StreamInv /\ Stream!Init
  <2>1. Init => Stream!Init
    BY DEF Init, Stream!Init
  <2> QED
    BY <2>1, StreamInitially
<1>2. StreamInv /\ [Next]_sourceVars => StreamInv' /\ [Stream!Next]_<<arrived, delivered>>
  BY StreamStep
<1> QED
  BY <1>1, <1>2, PTL DEF Spec, DeliversTheStream, Stream!Spec
=============================================================================
