---------------------------- MODULE SerialSource ----------------------------
(***************************************************************************)
(* The serial packet source: SerialPort::Open and Close (serial_port.cpp), *)
(* SerialPacketSource::Poll and EmitFrame (packet_source_serial.cpp), and  *)
(* the FrameParser that it owns (frame_parser.cpp).                        *)
(*                                                                         *)
(* A Poll takes several steps: it pops a frame from the parser, or else    *)
(* reads once from the port and tries again.  Each pass of the parser's    *)
(* loop (TryPop) is a step of its own.  The caller polls from one thread.  *)
(***************************************************************************)
EXTENDS FrameFormat

CONSTANTS ReadSize,         \* readBuffer_.size(), 4096
          InfoMsgId,        \* kInfoMsgId
          DataMsgId,        \* kDataMsgId
          InfoPayloadSize,  \* least payload of an info packet
          DataPayloadSize,  \* least payload of a data frame
          Noise,            \* what the port makes of the line at the wrong speed
          Transmissions     \* what a device may send in the session: records of
                            \* the bytes and the whole frames among them

\* A frame as it is sent: whole, with its checksum byte, right or wrong.
SentFrames == [msgId : Byte, msgData : Seq(Byte), crc : Byte]

ASSUME SerialSourceAssumption ==
    /\ ReadSize \in Nat \ {0}
    /\ InfoMsgId \in Byte /\ DataMsgId \in Byte /\ InfoMsgId # DataMsgId
    /\ InfoPayloadSize \in Nat /\ DataPayloadSize \in Nat
    /\ Noise \subseteq Seq(Byte)
    /\ Transmissions \subseteq [bytes : Seq(Byte), frames : Seq(SentFrames)]

VARIABLES
    port,          \* how far the port is: see Ports
    queue,         \* the bytes that the driver holds
    transmission,  \* what the device sends from the end of Open on
    arrived,       \* what the port has handed over, in order
    delivered,     \* the frames popped so far (okFrameCount_ is its length)
    buffer,        \* buffer_
    lock,          \* lockedProfileIndex_
    discarded,     \* discardedBytes_
    badLengths,    \* badLengthCount_
    crcFailures,   \* crcFailureCount_
    acceptedBytes, \* bytes of the delivered frames, headers included
    parseFailures, \* parseFailureCount_
    event,         \* the type of the event the last Poll returned
    pc             \* where the Poll stands

portVars   == <<port, queue, transmission, arrived>>
parserVars == <<buffer, lock, discarded, badLengths, crcFailures, acceptedBytes, delivered>>
sourceVars == <<portVars, parserVars, parseFailures, event, pc>>

\* "raw" when tcsetattr has set the speed, "open" from the return of Open on.
Ports == {"closed", "default", "raw", "open"}

EventTypes == {"None", "InfoUpdate", "Measurement"}

TypeOK ==
    /\ port \in Ports
    /\ queue \in Seq(Byte)
    /\ transmission \in [bytes : Seq(Byte), frames : Seq(SentFrames)]
    /\ arrived \in Seq(Byte)
    /\ delivered \in Seq(Frames)
    /\ buffer \in Seq(Byte)
    /\ lock \in Locks
    /\ discarded \in Nat /\ badLengths \in Nat /\ crcFailures \in Nat
    /\ acceptedBytes \in Nat /\ parseFailures \in Nat
    /\ event \in EventTypes
    /\ pc \in {"idle", "pop", "read", "popAgain"}

Nothing == [bytes |-> <<>>, frames |-> <<>>]

\* A new source: its parser is empty, and has no checksum profile.
Init ==
    /\ port = "closed" /\ queue = <<>> /\ arrived = <<>> /\ transmission = Nothing
    /\ buffer = <<>> /\ delivered = <<>>
    /\ lock = Unlocked
    /\ discarded = 0 /\ badLengths = 0 /\ crcFailures = 0
    /\ acceptedBytes = 0 /\ parseFailures = 0
    /\ event = "None"
    /\ pc = "idle"

\* Drop the first n bytes.
Drop(s, n) == SubSeq(s, n + 1, Len(s))

(***************************************************************************)
(* SerialPort::Open and Close.  On Windows the calls have other names and  *)
(* the same order: CreateFile, SetCommState, PurgeComm.                    *)
(***************************************************************************)

OpenPort ==
    /\ port = "closed"
    /\ port' = "default"
    /\ UNCHANGED <<queue, transmission, arrived, parserVars, parseFailures, event, pc>>

\* Until the speed is set, whatever is on the line arrives as noise.
HearNoise ==
    /\ port = "default"
    /\ queue = <<>>
    /\ queue' \in Noise
    /\ UNCHANGED <<port, transmission, arrived, parserVars, parseFailures, event, pc>>

SetAttributes ==
    /\ port = "default"
    /\ port' = "raw"
    /\ UNCHANGED <<queue, transmission, arrived, parserVars, parseFailures, event, pc>>

\* A mutant: nothing is flushed.
KeepInput ==
    /\ port = "raw"
    /\ port' = "open"
    /\ transmission' \in Transmissions
    /\ queue' = queue \o transmission'.bytes
    /\ UNCHANGED <<arrived, parserVars, parseFailures, event, pc>>

\* From here on the driver holds what the device sends.
FlushInput ==
    /\ port = "raw"
    /\ port' = "open"
    /\ transmission' \in Transmissions
    /\ queue' = transmission'.bytes
    /\ UNCHANGED <<arrived, parserVars, parseFailures, event, pc>>

Open == OpenPort \/ HearNoise \/ SetAttributes \/ FlushInput

\* A call of Open fails, or the caller closes: the port is closed, and the Camera
\* drops the source with its parser, so the next Open begins with a new one.
Close ==
    /\ port # "closed" /\ pc = "idle"
    /\ port' = "closed" /\ queue' = <<>> /\ arrived' = <<>> /\ transmission' = Nothing
    /\ buffer' = <<>> /\ delivered' = <<>>
    /\ lock' = Unlocked
    /\ discarded' = 0 /\ badLengths' = 0 /\ crcFailures' = 0
    /\ acceptedBytes' = 0 /\ parseFailures' = 0
    /\ event' = "None"
    /\ UNCHANGED pc

(***************************************************************************)
(* SerialPacketSource::Poll                                                *)
(***************************************************************************)

\* The caller polls.
StartPoll ==
    /\ port = "open" /\ pc = "idle"
    /\ pc' = "pop"
    /\ event' = "None"
    /\ UNCHANGED <<portVars, parserVars, parseFailures>>

(***************************************************************************)
(* FrameParser::TryPop                                                     *)
(***************************************************************************)

InTryPop == pc \in {"pop", "popAgain"}

\* TryPop returns false: the first time the port is read, the second time the
\* Poll is over with no event.
NothingToPop == pc' = IF pc = "pop" THEN "read" ELSE "idle"

FirstSync == Min(SyncPositions(buffer))

AtSync == Len(buffer) >= LeastSize /\ 1 \in SyncPositions(buffer)

TooFewBytes ==
    /\ InTryPop
    /\ Len(buffer) < LeastSize
    /\ NothingToPop
    /\ UNCHANGED <<portVars, parserVars, parseFailures, event>>

\* A mutant: a first sync byte at the end of the buffer goes with the rest.
DiscardAll ==
    /\ InTryPop
    /\ Len(buffer) >= LeastSize
    /\ SyncPositions(buffer) = {}
    /\ discarded' = discarded + Len(buffer)
    /\ buffer' = <<>>
    /\ NothingToPop
    /\ UNCHANGED <<portVars, lock, badLengths, crcFailures, acceptedBytes,
                   delivered, parseFailures, event>>

\* No sync pair: all goes, except a last byte that may be the first of a pair.
DiscardNoise ==
    /\ InTryPop
    /\ Len(buffer) >= LeastSize
    /\ SyncPositions(buffer) = {}
    /\ LET kept == IF buffer[Len(buffer)] = Sync0 THEN 1 ELSE 0
       IN /\ discarded' = discarded + (Len(buffer) - kept)
          /\ buffer' = Drop(buffer, Len(buffer) - kept)
    /\ NothingToPop
    /\ UNCHANGED <<portVars, lock, badLengths, crcFailures, acceptedBytes,
                   delivered, parseFailures, event>>

\* A mutant: the bytes before the pair are not counted.
SkipToSyncUncounted ==
    /\ InTryPop
    /\ Len(buffer) >= LeastSize
    /\ SyncPositions(buffer) # {} /\ ~AtSync
    /\ buffer' = Drop(buffer, FirstSync - 1)
    /\ UNCHANGED <<portVars, lock, discarded, badLengths, crcFailures,
                   acceptedBytes, delivered, parseFailures, event, pc>>

SkipToSync ==
    /\ InTryPop
    /\ Len(buffer) >= LeastSize
    /\ SyncPositions(buffer) # {} /\ ~AtSync
    /\ discarded' = discarded + (FirstSync - 1)
    /\ buffer' = Drop(buffer, FirstSync - 1)
    /\ UNCHANGED <<portVars, lock, badLengths, crcFailures, acceptedBytes,
                   delivered, parseFailures, event, pc>>

RejectLength ==
    /\ InTryPop
    /\ AtSync
    /\ ~LengthAllowed(LengthAt(buffer, 1))
    /\ badLengths' = badLengths + 1
    /\ buffer' = Drop(buffer, 1)
    /\ UNCHANGED <<portVars, lock, discarded, crcFailures, acceptedBytes,
                   delivered, parseFailures, event, pc>>

AwaitRest ==
    /\ InTryPop
    /\ AtSync
    /\ LengthAllowed(LengthAt(buffer, 1))
    /\ Len(buffer) < TotalSizeAt(buffer, 1)
    /\ NothingToPop
    /\ UNCHANGED <<portVars, parserVars, parseFailures, event>>

WholeFrameAtFront ==
    /\ AtSync
    /\ LengthAllowed(LengthAt(buffer, 1))
    /\ TotalSizeAt(buffer, 1) <= Len(buffer)

FrontCrcValid == CrcValid(lock, CrcInputAt(buffer, 1), CrcAt(buffer, 1))

\* A mutant: the whole frame goes, and with it what starts inside of it.
RejectCrcAndFrame ==
    /\ InTryPop
    /\ WholeFrameAtFront
    /\ ~FrontCrcValid
    /\ crcFailures' = crcFailures + 1
    /\ buffer' = Drop(buffer, TotalSizeAt(buffer, 1))
    /\ UNCHANGED <<portVars, lock, discarded, badLengths, acceptedBytes,
                   delivered, parseFailures, event, pc>>

RejectCrc ==
    /\ InTryPop
    /\ WholeFrameAtFront
    /\ ~FrontCrcValid
    /\ crcFailures' = crcFailures + 1
    /\ buffer' = Drop(buffer, 1)
    /\ UNCHANGED <<portVars, lock, discarded, badLengths, acceptedBytes,
                   delivered, parseFailures, event, pc>>

(***************************************************************************)
(* EmitFrame: a frame is an event, a parse failure or of no interest, and  *)
(* the Poll is over.                                                       *)
(***************************************************************************)

Parses(frame) ==
    \/ frame.msgId = InfoMsgId /\ Len(frame.msgData) >= InfoPayloadSize
    \/ frame.msgId = DataMsgId /\ Len(frame.msgData) >= DataPayloadSize

EmitFrame(frame) ==
    /\ event' = IF ~Parses(frame) THEN "None"
                ELSE IF frame.msgId = InfoMsgId THEN "InfoUpdate" ELSE "Measurement"
    /\ parseFailures' = IF frame.msgId \in {InfoMsgId, DataMsgId} /\ ~Parses(frame)
                        THEN parseFailures + 1 ELSE parseFailures
    /\ pc' = "idle"

PopFrame ==
    /\ InTryPop
    /\ WholeFrameAtFront
    /\ FrontCrcValid
    /\ lock' = LockAfter(lock, CrcInputAt(buffer, 1), CrcAt(buffer, 1))
    /\ delivered' = Append(delivered, FrameAt(buffer, 1))
    /\ acceptedBytes' = acceptedBytes + TotalSizeAt(buffer, 1)
    /\ buffer' = Drop(buffer, TotalSizeAt(buffer, 1))
    /\ EmitFrame(FrameAt(buffer, 1))
    /\ UNCHANGED <<portVars, discarded, badLengths, crcFailures>>

TryPop ==
    \/ TooFewBytes
    \/ DiscardNoise
    \/ SkipToSync
    \/ RejectLength
    \/ AwaitRest
    \/ RejectCrc
    \/ PopFrame

(***************************************************************************)
(* SerialPort::ReadSome                                                    *)
(***************************************************************************)

\* The driver has n bytes, and they are appended to the buffer.
ReadBytes ==
    /\ pc = "read"
    /\ \E n \in 1 .. Min({ReadSize, Len(queue)}) :
        /\ arrived' = arrived \o SubSeq(queue, 1, n)
        /\ buffer' = buffer \o SubSeq(queue, 1, n)
        /\ queue' = Drop(queue, n)
    /\ pc' = "popAgain"
    /\ UNCHANGED <<port, transmission, lock, discarded, badLengths, crcFailures, acceptedBytes,
                   delivered, parseFailures, event>>

\* Nothing within the 20 ms of a read, a poll that a signal interrupts, a read
\* that fails or finds nothing, as from a device that is unplugged: the Poll
\* returns, with an error or without, and the parser keeps what it has.
ReadNothing ==
    /\ pc = "read"
    /\ pc' = "idle"
    /\ UNCHANGED <<portVars, parserVars, parseFailures, event>>

Next == Open \/ Close \/ StartPoll \/ TryPop \/ ReadBytes \/ ReadNothing

Spec == Init /\ [][Next]_sourceVars

\* The caller keeps polling, a Poll goes on to its end, and bytes that the
\* device has sent do reach the host in the end: a read may time out before
\* the next byte is there, but not every time.
Fairness ==
    /\ WF_sourceVars(StartPoll)
    /\ WF_sourceVars(TryPop)
    /\ WF_sourceVars(ReadBytes \/ ReadNothing)
    /\ SF_sourceVars(ReadBytes)

FairSpec == Spec /\ Fairness

(***************************************************************************)
(* Properties                                                              *)
(***************************************************************************)

\* Stats() accounts for every byte: what arrived is in the buffer, was
\* delivered, or was counted by exactly one of the three failure counters (a
\* bad length and a failed checksum each give up one byte).
EveryByteAccounted ==
    Len(arrived) =
        Len(buffer) + acceptedBytes + discarded + badLengths + crcFailures

\* The buffer has no limit of its own.  It stays below one frame and one read
\* because the port is read only when the parser has come to an end with what
\* it holds, and a header cannot ask for more than MaxLength.
BufferBounded ==
    /\ Len(buffer) < HeaderSize + MaxLength + ReadSize
    /\ pc = "read" => Len(buffer) < HeaderSize + MaxLength

\* The parser sees what the device has sent since Open returned, in order, and
\* nothing that the port received before, at a speed that was not the device's:
\* a header in the noise would hold back the frames of the session.
NoStaleBytes == port = "open" => arrived \o queue = transmission.bytes

\* However the reads cut the bytes, the delivered frames are those that the
\* whole byte sequence contains, in order and each once.
Stream == INSTANCE FrameStream
DeliversTheStream == Stream!Spec

\* The profiles that the checksum of a sent frame fits, and the frame without it.
Fits(sent) == {p \in Profiles : Crc(p, <<sent.msgId>> \o sent.msgData) = sent.crc}
FrameOf(sent) == [msgId |-> sent.msgId, msgData |-> sent.msgData]

\* The profile of a session that has one: the one that crcMode names, or the
\* first in the order of the code that fits the first sent frame that fits any.
SettledProfile ==
    IF CrcMode = "named" THEN NamedProfile
    ELSE LET fitting == {i \in DOMAIN transmission.frames : Fits(transmission.frames[i]) # {}}
         IN Min(Fits(transmission.frames[Min(fitting)]))

Promised(sent) == CrcMode = "none" \/ (Fits(sent) # {} /\ SettledProfile \in Fits(sent))

PromisedFrames ==
    LET promised == SelectSeq(transmission.frames, Promised)
    IN [i \in DOMAIN promised |-> FrameOf(promised[i])]

\* In a session that goes on, every sent frame whose checksum fits the session's
\* profile is delivered in the end, and nothing else: noise, torn frames and
\* damaged frames around it delay it, but do not swallow it.  In "auto" the first
\* frame that fits any profile settles it, and it need not be the device's: when
\* an intact frame comes first that also fits a profile that is tried earlier,
\* that one is locked (frame_parser.cpp, 180-185), and the device's later frames
\* are promised only as far as they fit it too.
PromisedFramesDelivered == <>[](port = "open") => <>[](delivered = PromisedFrames)
=============================================================================
