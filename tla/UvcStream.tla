----------------------------- MODULE UvcStream -----------------------------
(***************************************************************************)
(* A UVC session without the way that payloads take to the host: what the  *)
(* camera sends, and what UvcPacketSource does with a payload that it has  *)
(* read (packet_source_uvc.cpp, with the clock of uvc_timestamp.cpp).  In  *)
(* the profile 120x90 the camera sends a capture in two payloads, the      *)
(* point cloud and then the depth grid; the source holds a point cloud     *)
(* back until it knows whether its depth grid follows.                     *)
(***************************************************************************)
EXTENDS RelativeMilliseconds, Sequences, FiniteSets

CONSTANTS Profiles,      \* the resolved profiles of a session
          FirstRawTimes, \* raw time of the first capture
          CaptureGapMs,  \* raw milliseconds between captures
          HostTimes,     \* host times at which a payload may be read
          CaptureLimit   \* bound of the model: captures of a session

ASSUME UvcStreamAssumption ==
    /\ Profiles \subseteq {"Mixed120x90", "Raw480x360", "Depth40x30", "PointCloud160x120"}
    /\ FirstRawTimes \subseteq RawMs
    /\ CaptureGapMs \in RawMs \ {0}
    /\ HostTimes \subseteq Nat \ {0}
    /\ CaptureLimit \in Nat

NoCapture == 0
Captures == 1 .. CaptureLimit

PayloadTypes == {"PointCloud", "Depth", "Info"}
Payloads == [type : PayloadTypes, capture : Captures, timed : BOOLEAN]

\* A source event as far as it matters here: what it is, which captures its
\* point cloud and its depth grid are from, and its device timestamp.
EventTypes == {"None", "InfoUpdate", "Measurement"}
Events == [type : EventTypes, cloud : Captures \cup {NoCapture},
           depth : Captures \cup {NoCapture}, timeUs : Nat]

NoEvent   == [type |-> "None", cloud |-> NoCapture, depth |-> NoCapture, timeUs |-> 0]
InfoEvent == [NoEvent EXCEPT !.type = "InfoUpdate"]

VARIABLES
    profile,            \* resolvedProfile_
    firstRawMs,         \* the camera: raw time of its first capture
    capture,            \* the camera: the newest capture
    unsent,             \* the camera: payloads of that capture still to be sent
    lossy,              \* history: a payload of the session was lost
    normalizer,         \* timestampNormalizer_
    lastTimestampUs,    \* lastTimestampUs_
    readyEvents,        \* readyEvents_
    pendingPointCloud,  \* pendingPointCloud_, NoEvent when it has no value
    parsedClouds,       \* history: captures whose point cloud was parsed, in order
    emitted             \* history: the events that the Polls returned, in order

cameraVars == <<firstRawMs, capture, unsent>>
clockVars  == <<normalizer, lastTimestampUs>>
pairVars   == <<readyEvents, pendingPointCloud, parsedClouds>>
streamVars == <<profile, cameraVars, lossy, clockVars, pairVars, emitted>>

StreamTypeOK ==
    /\ profile \in Profiles
    /\ firstRawMs \in RawMs
    /\ capture \in 0 .. CaptureLimit
    /\ unsent \in Seq(Payloads)
    /\ lossy \in BOOLEAN
    /\ normalizer \in Normalizers
    /\ lastTimestampUs \in Nat
    /\ readyEvents \in Seq(Events)
    /\ pendingPointCloud \in Events
    /\ parsedClouds \in Seq(Captures)
    /\ emitted \in Seq(Events)

StreamInit ==
    /\ profile \in Profiles
    /\ firstRawMs \in FirstRawTimes
    /\ capture = 0 /\ unsent = <<>> /\ lossy = FALSE
    /\ normalizer = NormalizerAfterReset(0) /\ lastTimestampUs = 0
    /\ readyEvents = <<>> /\ pendingPointCloud = NoEvent /\ parsedClouds = <<>>
    /\ emitted = <<>>

\* Open resets the clock and resolves the profile; the camera then begins to
\* capture.  What Close cleared is still clear.
BeginSession ==
    /\ profile' \in Profiles
    /\ firstRawMs' \in FirstRawTimes
    /\ normalizer' = NormalizerAfterReset(0) /\ lastTimestampUs' = 0
    /\ UNCHANGED <<capture, unsent, lossy, pairVars, emitted>>

\* Close.  A point cloud that still waits is lost with the session, and the
\* histories, which are those of one session, end.
EndSession ==
    /\ readyEvents' = <<>> /\ pendingPointCloud' = NoEvent
    /\ normalizer' = NormalizerAfterReset(0) /\ lastTimestampUs' = 0
    /\ capture' = 0 /\ unsent' = <<>> /\ lossy' = FALSE
    /\ parsedClouds' = <<>> /\ emitted' = <<>>
    /\ UNCHANGED <<profile, firstRawMs>>

(***************************************************************************)
(* The camera (external)                                                   *)
(***************************************************************************)

RawTime(c) == (firstRawMs + (c - 1) * CaptureGapMs) % (MaxRawMs + 1)

\* The payloads of a capture.  Only some carry the raw time (uvc_protocol.cpp
\* 126, 162, 221): the tail of a 160x120 payload is optional.
CapturePayloads(c, timed, withInfo) ==
    LET cloud(t) == [type |-> "PointCloud", capture |-> c, timed |-> t]
        depth(t) == [type |-> "Depth", capture |-> c, timed |-> t]
        info == IF withInfo THEN <<[type |-> "Info", capture |-> c, timed |-> FALSE]>> ELSE <<>>
    IN CASE profile = "Mixed120x90"       -> <<cloud(TRUE)>> \o info \o <<depth(TRUE)>>
         [] profile = "PointCloud160x120" -> <<cloud(timed)>>
         [] OTHER                         -> <<depth(FALSE)>>

\* What the camera may send next, and what is left of its capture then.
Sends ==
    IF unsent # <<>>
    THEN {[payload |-> Head(unsent), unsent |-> Tail(unsent), capture |-> capture]}
    ELSE {LET payloads == CapturePayloads(capture + 1, timed, withInfo)
          IN [payload |-> Head(payloads), unsent |-> Tail(payloads), capture |-> capture + 1] :
            timed \in BOOLEAN, withInfo \in BOOLEAN}

Sent(send) ==
    /\ send.capture <= CaptureLimit
    /\ capture' = send.capture
    /\ unsent' = send.unsent
    /\ UNCHANGED <<profile, firstRawMs, clockVars, pairVars, emitted>>

Lost == lossy' = TRUE

(***************************************************************************)
(* NormalizeUvcTimestamp                                                   *)
(***************************************************************************)

\* A mutant: a frame without a device time bypasses the clamp.
StampWithoutClamp(payload, nowUs) ==
    LET n == Normalize(normalizer, RawTime(payload.capture), nowUs)
        valueUs == IF payload.timed THEN n.lastOutputUs ELSE nowUs
    IN /\ normalizer' = IF payload.timed THEN n ELSE normalizer
       /\ lastTimestampUs' = valueUs

Stamp(payload, nowUs) ==
    LET n == Normalize(normalizer, RawTime(payload.capture), nowUs)
        valueUs == IF payload.timed THEN n.lastOutputUs ELSE nowUs
    IN /\ normalizer' = IF payload.timed THEN n ELSE normalizer
       /\ lastTimestampUs' = IF lastTimestampUs # 0 /\ valueUs <= lastTimestampUs
                             THEN lastTimestampUs + 1 ELSE valueUs

\* The event of one payload with its stamp.
StampedEvent(payload) ==
    [type   |-> "Measurement",
     cloud  |-> IF payload.type = "PointCloud" THEN payload.capture ELSE NoCapture,
     depth  |-> IF payload.type = "Depth" THEN payload.capture ELSE NoCapture,
     timeUs |-> lastTimestampUs']

(***************************************************************************)
(* HandleParsedFrame                                                       *)
(***************************************************************************)

Emit(event) == emitted' = Append(emitted, event)

Mixed == profile = "Mixed120x90"

\* Info, and measurements of the other profiles, are passed on (97-103).
PassOn(payload, nowUs) ==
    /\ ~Mixed \/ payload.type = "Info"
    /\ IF payload.type = "Info"
       THEN UNCHANGED clockVars /\ Emit(InfoEvent)
       ELSE Stamp(payload, nowUs) /\ Emit(StampedEvent(payload))
    /\ parsedClouds' = IF payload.type = "PointCloud"
                       THEN Append(parsedClouds, payload.capture) ELSE parsedClouds
    /\ UNCHANGED <<readyEvents, pendingPointCloud>>

\* A mutant: the point cloud that waited is overwritten.
OverwritePointCloud(payload, nowUs) ==
    /\ Mixed /\ payload.type = "PointCloud"
    /\ Stamp(payload, nowUs)
    /\ pendingPointCloud' = StampedEvent(payload)
    /\ parsedClouds' = Append(parsedClouds, payload.capture)
    /\ UNCHANGED <<readyEvents, emitted>>

\* A mutant: the older point cloud is queued, but not returned by this Poll.
QueuePointCloud(payload, nowUs) ==
    /\ Mixed /\ payload.type = "PointCloud"
    /\ Stamp(payload, nowUs)
    /\ readyEvents' = IF pendingPointCloud = NoEvent THEN readyEvents
                      ELSE Append(readyEvents, pendingPointCloud)
    /\ pendingPointCloud' = StampedEvent(payload)
    /\ parsedClouds' = Append(parsedClouds, payload.capture)
    /\ UNCHANGED emitted

\* A point cloud waits for its depth grid; one that waited in vain goes
\* through the ready queue to the caller (105-116).
HoldPointCloud(payload, nowUs) ==
    /\ Mixed /\ payload.type = "PointCloud"
    /\ Stamp(payload, nowUs)
    /\ LET queued == IF pendingPointCloud = NoEvent THEN readyEvents
                     ELSE Append(readyEvents, pendingPointCloud)
       IN IF queued = <<>>
          THEN UNCHANGED <<readyEvents, emitted>>
          ELSE readyEvents' = Tail(queued) /\ Emit(Head(queued))
    /\ pendingPointCloud' = StampedEvent(payload)
    /\ parsedClouds' = Append(parsedClouds, payload.capture)

\* A mutant: the combined event leaves the pending one in place.
CombineAndKeep(payload) ==
    /\ Mixed /\ payload.type = "Depth" /\ pendingPointCloud # NoEvent
    /\ Emit([pendingPointCloud EXCEPT !.depth = payload.capture])
    /\ UNCHANGED <<clockVars, pairVars>>

\* The depth grid joins the waiting point cloud, whose timestamp the combined
\* event keeps; the grid's own raw time is not looked at (118-131).
Combine(payload) ==
    /\ Mixed /\ payload.type = "Depth" /\ pendingPointCloud # NoEvent
    /\ Emit([pendingPointCloud EXCEPT !.depth = payload.capture])
    /\ pendingPointCloud' = NoEvent
    /\ UNCHANGED <<clockVars, readyEvents, parsedClouds>>

DepthAlone(payload, nowUs) ==
    /\ Mixed /\ payload.type = "Depth" /\ pendingPointCloud = NoEvent
    /\ Stamp(payload, nowUs)
    /\ Emit(StampedEvent(payload))
    /\ UNCHANGED pairVars

\* Poll first returns an event that is ready from before (42-45).  That branch
\* has no action because the queue is empty between Polls (ReadyQueueDrained):
\* a source with a filled queue would stop here.
HandleParsedFrame(payload) ==
    /\ readyEvents = <<>>
    /\ \/ \E nowUs \in HostTimes :
            \/ PassOn(payload, nowUs)
            \/ HoldPointCloud(payload, nowUs)
            \/ DepthAlone(payload, nowUs)
       \/ Combine(payload)
    /\ UNCHANGED <<profile, cameraVars, lossy>>

(***************************************************************************)
(* Properties                                                              *)
(***************************************************************************)

Waiting == IF pendingPointCloud = NoEvent THEN <<>> ELSE <<pendingPointCloud>>

\* Every event of the session, in the order in which the caller gets them.
AllEvents == emitted \o readyEvents \o Waiting

IsMeasurement(event) == event.type = "Measurement"

\* Timestamps of measurements increase in the order in which the caller gets
\* them.  A point cloud is stamped when it arrives and handed over later, so
\* this also says that nothing stamped in between overtakes it.
EmittedTimesIncrease ==
    \A i, j \in DOMAIN AllEvents :
        i < j /\ IsMeasurement(AllEvents[i]) /\ IsMeasurement(AllEvents[j])
            => AllEvents[i].timeUs < AllEvents[j].timeUs

\* Where the point clouds stand among some events, and which of them is the
\* one at position i.
CloudPositions(events) == {i \in DOMAIN events : events[i].cloud # NoCapture}
CloudRank(events, i) == Cardinality({j \in CloudPositions(events) : j <= i})

\* Each point cloud that was parsed reaches the caller once and in order, or
\* is the one that waits: a missing depth grid delays a cloud, and does not
\* drop or repeat it.
NoPointCloudLost ==
    /\ Cardinality(CloudPositions(AllEvents)) = Len(parsedClouds)
    /\ \A i \in CloudPositions(AllEvents) :
          AllEvents[i].cloud = parsedClouds[CloudRank(AllEvents, i)]

\* The ready queue is empty between Polls, so a Poll always reads the device:
\* the source never falls behind by more than the one cloud that waits.
ReadyQueueDrained == readyEvents = <<>>

\* As long as the link loses nothing, what a combined event combines belongs to
\* one capture, and no measurement of profile 120x90 comes apart.
PairsCaptures ==
    ~lossy => \A i \in DOMAIN emitted :
        emitted[i].type = "Measurement" /\ Mixed => emitted[i].cloud = emitted[i].depth

\* README.md:236: pointCloud[index] and depth.data[index] "refer to the same
\* public 40x30 grid sample when those frames are present".
SameSample ==
    \A i \in DOMAIN emitted :
        emitted[i].cloud # NoCapture /\ emitted[i].depth # NoCapture
            => emitted[i].cloud = emitted[i].depth
=============================================================================
