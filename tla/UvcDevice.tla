----------------------------- MODULE UvcDevice -----------------------------
(***************************************************************************)
(* The video device behind the UVC transport: UvcDevice::Open, ReadFrame   *)
(* and Close (uvc_device.cpp) against a driver that fills the buffers that *)
(* it owns while the program reads.  Every system call may fail; a buffer  *)
(* belongs to the driver, waits to be read, or is held by ReadFrame.  What *)
(* the object remembers (fd_, buffers_) is apart from what the process     *)
(* really has open and mapped, which Close gives back step by step.        *)
(***************************************************************************)
EXTENDS Naturals, Sequences, SequencesExt

CONSTANTS BufferCount,  \* buffers that VIDIOC_REQBUFS may grant at most, 4 in the code
          Frames,       \* what the sensor may put into a buffer
          NoFrame       \* nothing

ASSUME UvcDeviceAssumption == BufferCount \in Nat \ {0}

Buffers == 1 .. BufferCount
NoBuffer  == 0  \* no buffer is held
NoMapping == 0  \* a start that is null

VARIABLES
    pc,          \* how far Open, ReadFrame or Close is
    fd,          \* the object: fd_ >= 0
    buffers,     \* the object: buffers_[i].start, NoMapping while it is null
    index,       \* the loop variable of Open and Close
    opened,      \* the process: it has the device open
    mapped,      \* the process: the buffers that are mapped into it
    queued,      \* the driver: empty buffers, in the order of VIDIOC_QBUF
    filled,      \* the driver: filled buffers, in the order of VIDIOC_DQBUF
    content,     \* the frame that lies in each buffer
    held,        \* the buffer that ReadFrame has dequeued
    payload,     \* the output of the ReadFrame in progress
    lostBuffers  \* history: how often VIDIOC_QBUF failed in ReadFrame

objectVars  == <<fd, buffers, index>>
processVars == <<opened, mapped>>
driverVars  == <<queued, filled, content>>
readVars    == <<held, payload, lostBuffers>>
deviceVars  == <<pc, objectVars, processVars, driverVars, readVars>>

\* Open fails at any of its stages; the stages of Close follow each other.
OpenStages  == {"querying", "formatting", "requesting", "mapping", "queueing", "starting"}
CloseStages == {"stopping", "unmapping", "clearing"}
ReadStages  == {"streaming", "dequeued", "copied"}

DeviceTypeOK ==
    /\ pc \in {"closed"} \cup OpenStages \cup ReadStages \cup CloseStages
    /\ fd \in BOOLEAN /\ opened \in BOOLEAN
    /\ buffers \in Seq(Buffers \cup {NoMapping}) /\ Len(buffers) <= BufferCount
    /\ index \in 1 .. BufferCount + 1
    /\ mapped \subseteq Buffers
    /\ queued \in Seq(Buffers) /\ filled \in Seq(Buffers)
    /\ content \in [Buffers -> Frames \cup {NoFrame}]
    /\ held \in Buffers \cup {NoBuffer}
    /\ payload \in Frames \cup {NoFrame}
    /\ lostBuffers \in 0 .. BufferCount

NoContent == [b \in Buffers |-> NoFrame]

DeviceInit ==
    /\ pc = "closed"
    /\ fd = FALSE /\ buffers = <<>> /\ index = 1
    /\ opened = FALSE /\ mapped = {}
    /\ queued = <<>> /\ filled = <<>> /\ content = NoContent
    /\ held = NoBuffer /\ payload = NoFrame /\ lostBuffers = 0

(***************************************************************************)
(* Open.  It first runs Close, which finds nothing to do: whoever opens a  *)
(* device has closed it.  An open(2) that fails leaves it at that.         *)
(***************************************************************************)

OpenCalled ==
    /\ pc = "closed"
    /\ pc' = "querying"
    /\ opened' = TRUE /\ fd' = TRUE
    /\ lostBuffers' = 0
    /\ UNCHANGED <<buffers, index, mapped, driverVars, held, payload>>

\* VIDIOC_QUERYCAP, and VIDIOC_S_FMT with VIDIOC_S_PARM.
Configure ==
    /\ \/ pc = "querying" /\ pc' = "formatting"
       \/ pc = "formatting" /\ pc' = "requesting"
    /\ UNCHANGED <<objectVars, processVars, driverVars, readVars>>

\* VIDIOC_REQBUFS grants some buffers, of which none is mapped yet.
RequestBuffers ==
    /\ pc = "requesting"
    /\ \E count \in Buffers : buffers' = [i \in 1 .. count |-> NoMapping]
    /\ index' = 1
    /\ pc' = "mapping"
    /\ UNCHANGED <<fd, processVars, driverVars, readVars>>

\* One turn of the mapping loop: VIDIOC_QUERYBUF and mmap work.  Mapping b is
\* the memory of buffer b; mmap refuses one of no bytes, so a start that is not
\* null has a length.
MapBuffer ==
    /\ pc = "mapping" /\ index <= Len(buffers)
    /\ mapped' = mapped \cup {index}
    /\ buffers' = [buffers EXCEPT ![index] = index]
    /\ index' = index + 1
    /\ UNCHANGED <<pc, fd, opened, driverVars, readVars>>

AllMapped ==
    /\ pc = "mapping" /\ index > Len(buffers)
    /\ index' = 1
    /\ pc' = "queueing"
    /\ UNCHANGED <<fd, buffers, processVars, driverVars, readVars>>

\* One turn of the loop of VIDIOC_QBUF.
QueueBuffer ==
    /\ pc = "queueing" /\ index <= Len(buffers)
    /\ queued' = Append(queued, index)
    /\ index' = index + 1
    /\ UNCHANGED <<pc, fd, buffers, processVars, filled, content, readVars>>

AllQueued ==
    /\ pc = "queueing" /\ index > Len(buffers)
    /\ pc' = "starting"
    /\ UNCHANGED <<objectVars, processVars, driverVars, readVars>>

StartStream ==
    /\ pc = "starting"
    /\ pc' = "streaming"
    /\ UNCHANGED <<objectVars, processVars, driverVars, readVars>>

\* What VIDIOC_QUERYCAP or VIDIOC_S_FMT return is not good enough, or a call
\* of the stage fails, in whichever turn of its loop: Open closes and returns.
OpenFails ==
    /\ pc \in OpenStages
    /\ pc' = "stopping"
    /\ UNCHANGED <<objectVars, processVars, driverVars, readVars>>

(***************************************************************************)
(* Close, of the caller or of an Open that fails                           *)
(***************************************************************************)

CloseCalled ==
    /\ pc = "streaming"
    /\ pc' = "stopping"
    /\ UNCHANGED <<objectVars, processVars, driverVars, readVars>>

\* A mutant: what STREAMOFF returns decides whether the buffers are unmapped.
StopStreamOrGiveUp ==
    /\ pc = "stopping"
    /\ \/ fd /\ buffers # <<>> /\ queued' = <<>> /\ filled' = <<>> /\ pc' = "unmapping"
       \/ UNCHANGED <<queued, filled>> /\ pc' = "clearing"
    /\ index' = 1
    /\ UNCHANGED <<fd, buffers, processVars, content, readVars>>

\* STREAMOFF takes every buffer from the driver.  Its result is not looked at:
\* the driver of a device that was unplugged keeps them until close(2).
StopStream ==
    /\ pc = "stopping"
    /\ \/ fd /\ buffers # <<>> /\ queued' = <<>> /\ filled' = <<>>
       \/ UNCHANGED <<queued, filled>>
    /\ index' = 1
    /\ pc' = "unmapping"
    /\ UNCHANGED <<fd, buffers, processVars, content, readVars>>

\* One turn of the loop over buffers_; a null start is passed over.
UnmapBuffer ==
    /\ pc = "unmapping" /\ index <= Len(buffers)
    /\ mapped' = IF buffers[index] # NoMapping THEN mapped \ {buffers[index]} ELSE mapped
    /\ index' = index + 1
    /\ UNCHANGED <<pc, fd, buffers, opened, driverVars, readVars>>

CloseDescriptor ==
    /\ pc = "unmapping" /\ index > Len(buffers)
    /\ opened' = IF fd THEN FALSE ELSE opened
    /\ queued' = <<>> /\ filled' = <<>> /\ content' = NoContent
    /\ pc' = "clearing"
    /\ UNCHANGED <<objectVars, mapped, readVars>>

ClearFields ==
    /\ pc = "clearing"
    /\ buffers' = <<>> /\ fd' = FALSE /\ index' = 1
    /\ pc' = "closed"
    /\ UNCHANGED <<processVars, driverVars, readVars>>

(***************************************************************************)
(* The driver (external)                                                   *)
(***************************************************************************)

Streaming == pc \in ReadStages

\* A frame of the sensor goes to the first queued buffer, or is dropped.
SensorFrame(f) ==
    /\ Streaming
    /\ IF queued = <<>>
       THEN UNCHANGED <<queued, filled, content>>
       ELSE /\ queued' = Tail(queued)
            /\ filled' = Append(filled, Head(queued))
            /\ content' = [content EXCEPT ![Head(queued)] = f]
    /\ UNCHANGED <<pc, objectVars, processVars, readVars>>

(***************************************************************************)
(* ReadFrame.  Nothing filled, or poll or DQBUF failing, changes nothing.  *)
(***************************************************************************)

\* A mutant: the buffer goes back to the driver before it is copied.
DequeueAndRequeue ==
    /\ pc = "streaming"
    /\ filled # <<>>
    /\ held' = Head(filled)
    /\ filled' = Tail(filled)
    /\ queued' = Append(queued, held')
    /\ pc' = "dequeued"
    /\ UNCHANGED <<objectVars, processVars, content, payload, lostBuffers>>

Dequeue ==
    /\ pc = "streaming"
    /\ filled # <<>>
    /\ held' = Head(filled)
    /\ filled' = Tail(filled)
    /\ pc' = "dequeued"
    /\ UNCHANGED <<objectVars, processVars, queued, content, payload, lostBuffers>>

Copy ==
    /\ pc = "dequeued"
    /\ payload' = content[held]
    /\ pc' = "copied"
    /\ UNCHANGED <<objectVars, processVars, driverVars, held, lostBuffers>>

\* A mutant: ReadFrame forgets to give the buffer back.
ForgetRequeue ==
    /\ pc = "copied"
    /\ held' = NoBuffer
    /\ payload' = NoFrame
    /\ pc' = "streaming"
    /\ UNCHANGED <<objectVars, processVars, driverVars, lostBuffers>>

Requeue ==
    /\ pc = "copied"
    /\ queued' = Append(queued, held)
    /\ held' = NoBuffer
    /\ payload' = NoFrame
    /\ pc' = "streaming"
    /\ UNCHANGED <<objectVars, processVars, filled, content, lostBuffers>>

\* The call fails, its frame is lost, and the buffer stays with nobody until Close (240-243).
RequeueFails ==
    /\ pc = "copied"
    /\ held' = NoBuffer
    /\ payload' = NoFrame
    /\ lostBuffers' = lostBuffers + 1
    /\ pc' = "streaming"
    /\ UNCHANGED <<objectVars, processVars, driverVars>>

\* What Open does behind open(2) when nothing fails, and the body of Close.
OpenStep ==
    \/ Configure \/ RequestBuffers \/ MapBuffer \/ AllMapped \/ QueueBuffer \/ AllQueued
    \/ StartStream
CloseStep == StopStream \/ UnmapBuffer \/ CloseDescriptor \/ ClearFields

DeviceNext ==
    \/ OpenCalled \/ OpenStep \/ OpenFails
    \/ Dequeue \/ Copy \/ Requeue \/ RequeueFails
    \/ CloseCalled \/ CloseStep
    \/ \E f \in Frames : SensorFrame(f)

DeviceSpec == DeviceInit /\ [][DeviceNext]_deviceVars

(***************************************************************************)
(* Properties                                                              *)
(***************************************************************************)

\* When a Close is over, or an Open that failed, the process has neither the
\* device open nor a buffer mapped, at whatever stage and in whatever turn of a
\* loop the Open failed and whether STREAMOFF worked or not.  Close sees only
\* what the object remembers, a part of it still empty when the mapping failed.
NothingLeaks == pc = "closed" => ~opened /\ mapped = {}

\* Each buffer of a running stream is in one place: queued, filled, held by
\* ReadFrame, or lost to a VIDIOC_QBUF that failed.  Nothing else can use them
\* up, so a stream without such a failure never runs dry.
BuffersConserved ==
    Streaming =>
        LET owned == queued \o filled \o (IF held = NoBuffer THEN <<>> ELSE <<held>>)
        IN IsInjective(owned) /\ Len(owned) + lostBuffers = Len(buffers)
=============================================================================
