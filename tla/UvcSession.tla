----------------------------- MODULE UvcSession -----------------------------
(***************************************************************************)
(* A session of the UVC transport: the camera of UvcStream sends into the  *)
(* driver of UvcDevice, and UvcPacketSource::Poll handles what ReadFrame   *)
(* returns.  The driver fills buffers while Open, ReadFrame and Poll run.  *)
(***************************************************************************)
EXTENDS UvcDevice, UvcStream

\* The driver moves payloads, and a buffer holds one.
ASSUME UvcSessionAssumption == Frames = Payloads /\ NoFrame \notin Payloads

sessionVars == <<deviceVars, streamVars>>

Init == DeviceInit /\ StreamInit

\* UvcPacketSource::Open, which ends with UvcDevice::Open.
SourceOpens == OpenCalled /\ BeginSession

DeviceOpens  == (OpenStep \/ OpenFails) /\ UNCHANGED streamVars
DeviceCloses == CloseStep /\ UNCHANGED streamVars

\* UvcPacketSource::Close.  The camera's end of the session is here too: what
\* it sends while the device is being closed nobody reads.
SourceCloses == CloseCalled /\ EndSession

\* A payload that finds no empty buffer is lost.
CameraSends ==
    \E send \in Sends :
        /\ SensorFrame(send.payload)
        /\ Sent(send)
        /\ IF queued = <<>> THEN Lost ELSE UNCHANGED lossy

ReadFrameBegins == (Dequeue \/ Copy) /\ UNCHANGED streamVars

Loses == Lost /\ UNCHANGED <<profile, cameraVars, clockVars, pairVars, emitted>>

\* ReadFrame returns a payload, which Poll handles if it parses.
PollHandles ==
    /\ Requeue
    /\ HandleParsedFrame(payload) \/ Loses

PollFails == RequeueFails /\ Loses

Next ==
    \/ SourceOpens \/ DeviceOpens \/ SourceCloses \/ DeviceCloses
    \/ CameraSends
    \/ ReadFrameBegins \/ PollHandles \/ PollFails

Spec == Init /\ [][Next]_sessionVars

(***************************************************************************)
(* The abstract source                                                     *)
(***************************************************************************)

\* For the source the device is open from open(2) on until a Close begins.
DeviceIsOpen == pc \in OpenStages \cup ReadStages

\* The payloads between the camera and HandleParsedFrame, the next one first.
OnTheWay ==
    IF ~Streaming THEN <<>>
    ELSE (CASE pc = "dequeued" -> <<content[held]>>
            [] pc = "copied"   -> <<payload>>
            [] OTHER           -> <<>>)
         \o [i \in DOMAIN filled |-> content[filled[i]]]

Source == INSTANCE UvcSource WITH
    QueueLimit <- BufferCount,
    isOpen     <- DeviceIsOpen,
    payloads   <- OnTheWay

\* The driver, its buffers and ReadFrame deliver payloads in the order in which
\* the camera sends them, each at most once and unharmed: the driver never
\* writes into a buffer between its VIDIOC_DQBUF and its copy.
ImplementsSource == Source!Spec
=============================================================================
