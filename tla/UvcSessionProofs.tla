------------------------- MODULE UvcSessionProofs -------------------------
(***************************************************************************)
(* Proofs about UvcDevice and UvcSession, for every number of buffers and  *)
(* every content, every profile, raw time and host time and every length   *)
(* of a session.  First the device alone: nothing leaks, whichever step of *)
(* Open fails, and a buffer of a running stream is in one place at a time. *)
(* Then the session above it: what the caller gets is in order and         *)
(* complete as far as the device allows, and the driver, its buffers and   *)
(* ReadFrame implement the abstract source.                                *)
(***************************************************************************)
EXTENDS UvcSession, MillisecondsProofs, SequenceTheorems, FiniteSetTheorems

(***************************************************************************)
(* The device: the inductive invariant                                     *)
(***************************************************************************)

\* The stages of Open that come before VIDIOC_REQBUFS has granted buffers.
WithoutBuffers == {"querying", "formatting", "requesting"}
Reading == pc \in {"dequeued", "copied"}

\* What the object remembers covers what the process has, at every step: only so
\* can Close, which knows nothing else, give back all of it.
Remembered ==
    /\ opened => fd
    /\ \A i \in 1 .. Len(buffers) : buffers[i] \in {NoMapping, i}
    /\ \A b \in mapped : b \in 1 .. Len(buffers) /\ buffers[b] = b

\* How far Close has come, and what Open finds.
GivenBack ==
    /\ pc \in {"closed"} \cup WithoutBuffers => buffers = <<>>
    /\ pc = "unmapping" => \A b \in mapped : index <= b
    /\ pc \in {"clearing", "closed"} => ~opened /\ mapped = {}

\* What each step of Open has done so far, and what nobody touches before the
\* stream runs.
OpenInOrder ==
    /\ ~Streaming => held = NoBuffer
    /\ pc \in {"closed", "clearing"} \cup OpenStages => filled = <<>>
    /\ pc \in {"closed", "clearing", "mapping"} \cup WithoutBuffers => queued = <<>>
    /\ pc \in OpenStages => lostBuffers = 0
    /\ pc = "queueing" => Len(queued) = index - 1 /\ index <= Len(buffers) + 1
    /\ pc = "starting" => Len(queued) = Len(buffers)
    /\ pc \in {"queueing", "starting"} => \A i \in 1 .. Len(queued) : queued[i] = i

\* ReadFrame holds a buffer from VIDIOC_DQBUF to VIDIOC_QBUF.
HoldsWhileReading == held # NoBuffer <=> Reading

\* No buffer is in two places, nor twice in one.
Apart ==
    /\ \A i, j \in 1 .. Len(queued) : queued[i] = queued[j] => i = j
    /\ \A i, j \in 1 .. Len(filled) : filled[i] = filled[j] => i = j
    /\ \A i \in 1 .. Len(queued), j \in 1 .. Len(filled) : queued[i] # filled[j]
    /\ \A i \in 1 .. Len(queued) : queued[i] # held
    /\ \A i \in 1 .. Len(filled) : filled[i] # held

HeldCount == IF held = NoBuffer THEN 0 ELSE 1

\* Every buffer is somewhere.
NoneMissing ==
    Streaming => Len(queued) + Len(filled) + HeldCount + lostBuffers = Len(buffers)

\* A buffer that the driver has filled, and what ReadFrame has copied, is a frame.
HoldsFrames ==
    /\ \A i \in 1 .. Len(filled) : content[filled[i]] \in Frames
    /\ pc = "dequeued" => content[held] \in Frames
    /\ pc = "copied" => payload \in Frames

DeviceInv ==
    /\ DeviceTypeOK
    /\ Remembered
    /\ GivenBack
    /\ OpenInOrder
    /\ HoldsWhileReading
    /\ Apart
    /\ NoneMissing
    /\ HoldsFrames

(***************************************************************************)
(* Lemmas                                                                  *)
(***************************************************************************)

\* What the arguments use of a queue whose first element is taken.
LEMMA TakeFirst ==
    ASSUME NEW S, NEW s \in Seq(S), s # <<>>
    PROVE  /\ Len(s) \in Nat /\ 1 <= Len(s)
           /\ Head(s) \in S /\ Head(s) = s[1]
           /\ Tail(s) \in Seq(S)
           /\ Len(Tail(s)) = Len(s) - 1
           /\ \A i \in 1 .. Len(Tail(s)) : Tail(s)[i] = s[i + 1]
<1>1. Len(s) \in Nat \ {0}
  BY EmptySeq
<1>2. Head(s) = s[1]
  OBVIOUS
<1> QED
  BY <1>1, <1>2, HeadTailProperties

\* What they use of a queue that gets a new last element.
LEMMA PutLast ==
    ASSUME NEW S, NEW s \in Seq(S), NEW e \in S
    PROVE  /\ Append(s, e) \in Seq(S)
           /\ Len(s) \in Nat
           /\ Len(Append(s, e)) = Len(s) + 1
           /\ \A i \in 1 .. Len(s) : Append(s, e)[i] = s[i]
           /\ Append(s, e)[Len(s) + 1] = e
BY AppendProperties, LenProperties

\* No buffer index is the index that stands for none.
LEMMA BufferIsNotNoBuffer == NoBuffer \notin Buffers /\ Buffers \subseteq Nat
BY UvcDeviceAssumption DEF NoBuffer, Buffers

(***************************************************************************)
(* The steps                                                               *)
(***************************************************************************)

\* A closed device satisfies the invariant.
LEMMA InvInitially == DeviceInit => DeviceInv
<1> SUFFICES ASSUME DeviceInit PROVE DeviceInv
  OBVIOUS
<1>1. /\ pc = "closed" /\ fd = FALSE /\ opened = FALSE /\ buffers = <<>> /\ mapped = {}
      /\ index = 1 /\ queued = <<>> /\ filled = <<>> /\ held = NoBuffer
      /\ payload = NoFrame /\ lostBuffers = 0
      /\ content = NoContent
  BY DEF DeviceInit
<1>2. Len(queued) = 0 /\ Len(filled) = 0 /\ Len(buffers) = 0
  BY <1>1, EmptySeq
<1>3. DeviceTypeOK
  <2>1. /\ queued \in Seq(Buffers) /\ filled \in Seq(Buffers)
        /\ buffers \in Seq(Buffers \cup {NoMapping})
    BY <1>1, EmptySeq
  <2>2. content \in [Buffers -> Frames \cup {NoFrame}] /\ payload \in Frames \cup {NoFrame}
    BY <1>1 DEF NoContent
  <2>3. /\ Len(buffers) <= BufferCount /\ lostBuffers \in 0 .. BufferCount
        /\ index \in 1 .. BufferCount + 1
    BY <1>1, <1>2, UvcDeviceAssumption
  <2> QED
    BY <1>1, <2>1, <2>2, <2>3 DEF DeviceTypeOK
<1>4. Remembered /\ GivenBack
  BY <1>1, <1>2 DEF Remembered, GivenBack
<1>5. Apart /\ HoldsFrames
  BY <1>1, <1>2 DEF Apart, HoldsFrames
<1>6. OpenInOrder /\ HoldsWhileReading /\ NoneMissing
  BY <1>1 DEF OpenInOrder, HoldsWhileReading, NoneMissing, Streaming, Reading, ReadStages,
     OpenStages, WithoutBuffers
<1> QED
  BY <1>3, <1>4, <1>5, <1>6 DEF DeviceInv

\* Steps that only go on to the next stage.
LEMMA StageKeepsInv ==
    ASSUME DeviceInv, Configure \/ AllQueued \/ StartStream \/ OpenFails \/ CloseCalled
    PROVE  DeviceInv'
<1>1. /\ UNCHANGED <<fd, buffers, index, opened, mapped, queued, filled, content>>
      /\ UNCHANGED <<held, payload, lostBuffers>>
  BY DEF Configure, AllQueued, StartStream, OpenFails, CloseCalled, objectVars, processVars,
     driverVars, readVars
<1>2. /\ index \in Nat /\ Len(buffers) \in Nat /\ Len(queued) \in Nat
      /\ Len(buffers) <= BufferCount
  BY LenProperties, UvcDeviceAssumption DEF DeviceInv, DeviceTypeOK
<1>3. \/ pc = "querying" /\ pc' = "formatting"
      \/ pc = "formatting" /\ pc' = "requesting"
      \/ pc = "queueing" /\ index > Len(buffers) /\ pc' = "starting"
      \/ pc = "starting" /\ pc' = "streaming"
      \/ pc \in OpenStages /\ pc' = "stopping"
      \/ pc = "streaming" /\ pc' = "stopping"
  BY DEF Configure, AllQueued, StartStream, OpenFails, CloseCalled
<1>4. DeviceTypeOK'
  BY <1>1, <1>3 DEF DeviceInv, DeviceTypeOK, OpenStages, ReadStages, CloseStages
<1>5. Remembered' /\ Apart'
  BY <1>1 DEF DeviceInv, Remembered, Apart
<1>6. GivenBack'
  BY <1>1, <1>3 DEF DeviceInv, GivenBack, WithoutBuffers, OpenStages
<1>7. OpenInOrder'
  <2> USE <1>1, <1>2 DEF OpenInOrder, Streaming, ReadStages, OpenStages, WithoutBuffers
  <2>1. OpenInOrder
    BY DEF DeviceInv
  <2>2. CASE pc \in {"querying", "formatting"} /\ pc' \in {"formatting", "requesting"}
    BY <2>1, <2>2
  <2>3. CASE pc = "queueing" /\ index > Len(buffers) /\ pc' = "starting"
    <3>1. Len(queued) = index - 1 /\ index <= Len(buffers) + 1
      BY <2>1, <2>3
    <3>2. Len(queued) = Len(buffers)
      BY <2>3, <3>1
    <3> QED
      BY <2>1, <2>3, <3>2
  <2>4. CASE pc = "starting" /\ pc' = "streaming"
    BY <2>1, <2>4
  <2>5. CASE pc' = "stopping" /\ (pc = "streaming" \/ pc \in OpenStages)
    <3>1. held = NoBuffer
      BY <2>1, <2>5 DEF DeviceInv, HoldsWhileReading, Reading
    <3> QED
      BY <2>5, <3>1
  <2> QED
    BY <1>3, <2>2, <2>3, <2>4, <2>5
<1>8. HoldsWhileReading' /\ HoldsFrames'
  BY <1>1, <1>3 DEF DeviceInv, HoldsWhileReading, HoldsFrames, Reading, OpenStages
<1>9. NoneMissing'
  <2>1. CASE pc = "starting" /\ pc' = "streaming"
    <3>1. /\ Len(queued) = Len(buffers) /\ filled = <<>> /\ held = NoBuffer /\ lostBuffers = 0
      BY <2>1 DEF DeviceInv, OpenInOrder, OpenStages, Streaming, ReadStages
    <3>2. Len(filled) = 0 /\ HeldCount = 0
      BY <3>1, EmptySeq DEF HeldCount
    <3> QED
      BY <1>1, <1>2, <3>1, <3>2 DEF NoneMissing, HeldCount
  <2>2. CASE pc' # "streaming"
    BY <1>3, <2>2 DEF NoneMissing, Streaming, ReadStages
  <2> QED
    BY <1>3, <2>1, <2>2 DEF OpenStages
<1> QED
  BY <1>4, <1>5, <1>6, <1>7, <1>8, <1>9 DEF DeviceInv

\* The part of the invariant that is about the queues, when a step outside of the
\* running stream leaves them and what ReadFrame keeps alone.
LEMMA QueuesKept ==
    ASSUME DeviceInv, UNCHANGED <<queued, filled, content, held, payload, lostBuffers>>,
           ~Streaming, ~Streaming'
    PROVE  Apart' /\ HoldsFrames' /\ HoldsWhileReading' /\ NoneMissing'
<1>1. ~Reading /\ ~Reading' /\ pc' \notin {"dequeued", "copied"}
  BY DEF Streaming, Reading, ReadStages
<1> QED
  BY <1>1 DEF DeviceInv, Apart, HoldsFrames, HoldsWhileReading, NoneMissing

\* open(2), VIDIOC_REQBUFS and the loop that maps the buffers.
LEMMA MappingKeepsInv ==
    ASSUME DeviceInv, OpenCalled \/ RequestBuffers \/ MapBuffer \/ AllMapped
    PROVE  DeviceInv'
<1>1. /\ UNCHANGED <<queued, filled, content, held, payload>>
      /\ pc \in {"closed", "requesting", "mapping"}
      /\ pc' \in {"querying", "mapping", "queueing"}
      /\ lostBuffers' = 0
  <2>1. OpenCalled \/ lostBuffers = 0
    BY DEF RequestBuffers, MapBuffer, AllMapped, DeviceInv, OpenInOrder, OpenStages
  <2> QED
    BY <2>1 DEF OpenCalled, RequestBuffers, MapBuffer, AllMapped, driverVars, readVars
<1>2. ~Streaming /\ ~Streaming'
  BY <1>1 DEF Streaming, ReadStages
<1>3. Apart' /\ HoldsFrames' /\ HoldsWhileReading' /\ NoneMissing'
  BY <1>1, <1>2 DEF DeviceInv, Apart, HoldsFrames, HoldsWhileReading, NoneMissing, Reading
<1>4. /\ buffers \in Seq(Buffers \cup {NoMapping}) /\ Len(buffers) \in Nat
      /\ Len(buffers) <= BufferCount /\ BufferCount \in Nat \ {0}
      /\ index \in Nat /\ 1 <= index /\ index <= BufferCount + 1
      /\ held = NoBuffer /\ queued = <<>> /\ filled = <<>>
  <2>1. /\ buffers \in Seq(Buffers \cup {NoMapping}) /\ Len(buffers) <= BufferCount
        /\ index \in 1 .. BufferCount + 1
    BY DEF DeviceInv, DeviceTypeOK
  <2>2. Len(buffers) \in Nat
    BY <2>1, LenProperties
  <2>3. held = NoBuffer /\ queued = <<>> /\ filled = <<>>
    BY <1>1, <1>2 DEF DeviceInv, OpenInOrder, OpenStages, WithoutBuffers
  <2> QED
    BY <2>1, <2>2, <2>3, UvcDeviceAssumption
<1>5. CASE OpenCalled
  <2>1. /\ pc = "closed" /\ pc' = "querying" /\ opened' = TRUE /\ fd' = TRUE
        /\ UNCHANGED <<buffers, index, mapped>>
    BY <1>5 DEF OpenCalled
  <2>2. DeviceTypeOK'
    BY <1>1, <2>1, UvcDeviceAssumption DEF DeviceInv, DeviceTypeOK, OpenStages
  <2>3. Remembered' /\ GivenBack'
    BY <2>1 DEF DeviceInv, Remembered, GivenBack
  <2>4. OpenInOrder'
    BY <1>1, <1>4, <2>1 DEF OpenInOrder
  <2> QED
    BY <1>3, <2>2, <2>3, <2>4 DEF DeviceInv
<1>6. CASE RequestBuffers
  <2>1. /\ pc = "requesting" /\ pc' = "mapping" /\ index' = 1 /\ UNCHANGED <<fd, opened, mapped>>
    BY <1>6 DEF RequestBuffers, processVars
  <2>2. PICK count \in Buffers : buffers' = [i \in 1 .. count |-> NoMapping]
    BY <1>6 DEF RequestBuffers
  <2>3. count \in Nat /\ count <= BufferCount
    BY <1>4, <2>2 DEF Buffers
  <2>4. /\ buffers' \in [1 .. count -> Buffers \cup {NoMapping}]
        /\ \A i \in 1 .. count : buffers'[i] = NoMapping
    BY <2>2
  <2>5. buffers' \in Seq(Buffers \cup {NoMapping}) /\ Len(buffers') = count
    <3>1. buffers' \in Seq(Buffers \cup {NoMapping})
      BY <2>3, <2>4, SeqDef
    <3> QED
      BY <2>3, <2>4, <3>1, LenProperties
  <2>6. mapped = {}
    <3>1. Len(buffers) = 0
      BY <2>1, EmptySeq DEF DeviceInv, GivenBack, WithoutBuffers
    <3> QED
      BY <3>1 DEF DeviceInv, Remembered
  <2>7. DeviceTypeOK'
    BY <1>1, <1>4, <2>1, <2>3, <2>5 DEF DeviceInv, DeviceTypeOK, OpenStages
  <2>8. Remembered' /\ GivenBack'
    BY <2>1, <2>4, <2>5, <2>6 DEF DeviceInv, Remembered, GivenBack, WithoutBuffers
  <2>9. OpenInOrder'
    BY <1>1, <1>4, <2>1 DEF OpenInOrder
  <2> QED
    BY <1>3, <2>7, <2>8, <2>9 DEF DeviceInv
<1>7. CASE MapBuffer
  <2>1. /\ pc = "mapping" /\ pc' = "mapping" /\ index <= Len(buffers) /\ index' = index + 1
        /\ mapped' = mapped \cup {index} /\ buffers' = [buffers EXCEPT ![index] = index]
        /\ UNCHANGED <<fd, opened>>
    BY <1>7 DEF MapBuffer
  <2>2. index \in 1 .. Len(buffers) /\ index \in Buffers
    BY <1>4, <2>1 DEF Buffers
  <2>3. /\ buffers' \in Seq(Buffers \cup {NoMapping}) /\ Len(buffers') = Len(buffers)
        /\ \A i \in 1 .. Len(buffers) : buffers'[i] = IF i = index THEN index ELSE buffers[i]
    BY <1>4, <2>1, <2>2
  <2>4. DeviceTypeOK'
    BY <1>1, <1>4, <2>1, <2>2, <2>3 DEF DeviceInv, DeviceTypeOK
  <2>5. Remembered' /\ GivenBack'
    BY <2>1, <2>2, <2>3 DEF DeviceInv, Remembered, GivenBack, WithoutBuffers
  <2>6. OpenInOrder'
    BY <1>1, <1>4, <2>1 DEF OpenInOrder
  <2> QED
    BY <1>3, <2>4, <2>5, <2>6 DEF DeviceInv
<1>8. CASE AllMapped
  <2>1. /\ pc = "mapping" /\ pc' = "queueing" /\ index' = 1
        /\ UNCHANGED <<fd, buffers, opened, mapped>>
    BY <1>8 DEF AllMapped, processVars
  <2>2. DeviceTypeOK'
    BY <1>1, <1>4, <2>1 DEF DeviceInv, DeviceTypeOK, OpenStages
  <2>3. Remembered' /\ GivenBack'
    BY <2>1 DEF DeviceInv, Remembered, GivenBack, WithoutBuffers
  <2>4. OpenInOrder'
    <3>1. Len(queued') = 0 /\ 1 .. Len(queued') = {}
      BY <1>1, <1>4, EmptySeq
    <3> QED
      BY <1>1, <1>4, <2>1, <3>1 DEF OpenInOrder, WithoutBuffers
  <2> QED
    BY <1>3, <2>2, <2>3, <2>4 DEF DeviceInv
<1> QED
  BY <1>5, <1>6, <1>7, <1>8

\* VIDIOC_QBUF of Open: the driver gets the buffers in their order.
LEMMA QueueBufferKeepsInv ==
    ASSUME DeviceInv, QueueBuffer
    PROVE  DeviceInv'
<1>1. /\ pc = "queueing" /\ pc' = "queueing" /\ index <= Len(buffers)
      /\ queued' = Append(queued, index) /\ index' = index + 1
      /\ UNCHANGED <<fd, buffers, opened, mapped, filled, content, held, payload, lostBuffers>>
  BY DEF QueueBuffer, readVars, processVars
<1>2. /\ queued \in Seq(Buffers) /\ Len(queued) \in Nat /\ index \in Nat /\ 1 <= index
      /\ Len(buffers) \in Nat /\ Len(buffers) <= BufferCount /\ BufferCount \in Nat
      /\ Len(queued) = index - 1
  BY <1>1, LenProperties, UvcDeviceAssumption DEF DeviceInv, DeviceTypeOK, OpenInOrder
<1>3. index \in Buffers
  BY <1>1, <1>2 DEF Buffers
<1>4. /\ queued' \in Seq(Buffers) /\ Len(queued') = Len(queued) + 1
      /\ \A i \in 1 .. Len(queued) : queued'[i] = queued[i]
      /\ queued'[Len(queued) + 1] = index
  BY <1>1, <1>2, <1>3, PutLast
<1>5. \A i \in 1 .. Len(queued') : queued'[i] = i
  BY <1>1, <1>2, <1>4 DEF DeviceInv, OpenInOrder
<1>6. filled = <<>> /\ Len(filled) = 0 /\ held = NoBuffer /\ NoBuffer \notin Buffers
      /\ lostBuffers = 0
  BY <1>1, EmptySeq, BufferIsNotNoBuffer
     DEF DeviceInv, OpenInOrder, Streaming, ReadStages, OpenStages
<1>7. DeviceTypeOK'
  BY <1>1, <1>2, <1>4 DEF DeviceInv, DeviceTypeOK
<1>8. OpenInOrder'
  BY <1>1, <1>2, <1>4, <1>5, <1>6 DEF OpenInOrder, Streaming, ReadStages, OpenStages, WithoutBuffers
<1>9. Apart'
  <2>1. \A i \in 1 .. Len(queued') : queued'[i] # held'
    BY <1>1, <1>4, <1>6, ElementOfSeq
  <2>2. filled' = <<>> /\ Len(filled') = 0
    BY <1>1, <1>6
  <2> QED
    BY <1>5, <2>1, <2>2 DEF Apart
<1>10. Remembered' /\ GivenBack'
  BY <1>1 DEF DeviceInv, Remembered, GivenBack, WithoutBuffers
<1>11. HoldsWhileReading' /\ NoneMissing' /\ HoldsFrames'
  BY <1>1, <1>6 DEF HoldsWhileReading, NoneMissing, HoldsFrames, Reading, Streaming, ReadStages
<1> QED
  BY <1>7, <1>8, <1>9, <1>10, <1>11 DEF DeviceInv

\* STREAMOFF, whether it takes the buffers from the driver or not.
LEMMA StopStreamKeepsInv ==
    ASSUME DeviceInv, StopStream
    PROVE  DeviceInv'
<1>1. /\ pc = "stopping" /\ pc' = "unmapping" /\ index' = 1
      /\ UNCHANGED <<fd, buffers, opened, mapped, content, held, payload, lostBuffers>>
      /\ \/ queued' = <<>> /\ filled' = <<>>
         \/ UNCHANGED <<queued, filled>>
  BY DEF StopStream, processVars, readVars
<1>2. queued' \in Seq(Buffers) /\ filled' \in Seq(Buffers)
  BY <1>1, EmptySeq DEF DeviceInv, DeviceTypeOK
<1>3. DeviceTypeOK'
  BY <1>1, <1>2, UvcDeviceAssumption DEF DeviceInv, DeviceTypeOK, CloseStages
<1>4. Remembered' /\ GivenBack'
  <2>1. \A b \in mapped : 1 <= b
    BY BufferIsNotNoBuffer DEF DeviceInv, DeviceTypeOK, Buffers
  <2> QED
    BY <1>1, <2>1 DEF DeviceInv, Remembered, GivenBack, WithoutBuffers
<1>5. OpenInOrder' /\ HoldsWhileReading' /\ NoneMissing'
  BY <1>1 DEF DeviceInv, OpenInOrder, HoldsWhileReading, NoneMissing, Streaming, Reading,
     ReadStages, OpenStages, WithoutBuffers
<1>6. Apart' /\ HoldsFrames'
  <2>1. CASE queued' = <<>> /\ filled' = <<>>
    <3>1. Len(queued') = 0 /\ Len(filled') = 0
      BY <2>1, EmptySeq
    <3> QED
      BY <1>1, <3>1 DEF Apart, HoldsFrames
  <2>2. CASE UNCHANGED <<queued, filled>>
    BY <1>1, <2>2 DEF DeviceInv, Apart, HoldsFrames
  <2> QED
    BY <1>1, <2>1, <2>2
<1> QED
  BY <1>3, <1>4, <1>5, <1>6 DEF DeviceInv

\* A turn of the loop over buffers_ unmaps what it should: the mappings that are
\* left lie behind it.
LEMMA UnmapBufferKeepsInv ==
    ASSUME DeviceInv, UnmapBuffer
    PROVE  DeviceInv'
<1>1. /\ pc = "unmapping" /\ pc' = "unmapping" /\ index <= Len(buffers) /\ index' = index + 1
      /\ mapped' = IF buffers[index] # NoMapping THEN mapped \ {buffers[index]} ELSE mapped
      /\ UNCHANGED <<fd, buffers, opened, queued, filled, content, held, payload, lostBuffers>>
  BY DEF UnmapBuffer, driverVars, readVars
<1>2. /\ index \in Nat /\ 1 <= index /\ Len(buffers) \in Nat /\ Len(buffers) <= BufferCount
      /\ BufferCount \in Nat
  BY LenProperties, UvcDeviceAssumption DEF DeviceInv, DeviceTypeOK
<1>3. \A b \in mapped' : b \in mapped /\ b # index
  <2>1. index \in mapped => buffers[index] = index /\ index # NoMapping
    BY <1>2 DEF DeviceInv, Remembered, NoMapping
  <2> QED
    BY <1>1, <2>1
<1>4. \A b \in mapped : b \in Nat /\ index <= b
  BY <1>1, BufferIsNotNoBuffer DEF DeviceInv, DeviceTypeOK, GivenBack
<1>5. DeviceTypeOK'
  BY <1>1, <1>2, <1>3 DEF DeviceInv, DeviceTypeOK
<1>6. Remembered'
  BY <1>1, <1>3 DEF DeviceInv, Remembered
<1>7. GivenBack'
  BY <1>1, <1>2, <1>3, <1>4 DEF GivenBack, WithoutBuffers
<1>8. ~Streaming /\ ~Streaming'
  BY <1>1 DEF Streaming, ReadStages
<1>9. Apart' /\ HoldsFrames' /\ HoldsWhileReading' /\ NoneMissing'
  BY <1>1, <1>8, QueuesKept
<1>10. OpenInOrder'
  BY <1>1, <1>8 DEF DeviceInv, OpenInOrder, OpenStages, WithoutBuffers
<1> QED
  BY <1>5, <1>6, <1>7, <1>9, <1>10 DEF DeviceInv

\* close(2) comes when nothing is mapped any more, and takes what the driver may
\* still have.
LEMMA CloseDescriptorKeepsInv ==
    ASSUME DeviceInv, CloseDescriptor
    PROVE  DeviceInv'
<1>1. /\ pc = "unmapping" /\ pc' = "clearing" /\ index > Len(buffers)
      /\ opened' = (IF fd THEN FALSE ELSE opened)
      /\ queued' = <<>> /\ filled' = <<>> /\ content' = NoContent
      /\ UNCHANGED <<fd, buffers, index, mapped, held, payload, lostBuffers>>
  BY DEF CloseDescriptor, objectVars, readVars
<1>2. Len(queued') = 0 /\ Len(filled') = 0
  BY <1>1, EmptySeq
<1>3. ~opened'
  BY <1>1 DEF DeviceInv, Remembered
<1>4. mapped = {}
  <2>1. \A b \in mapped : b \in 1 .. Len(buffers) /\ index <= b
    BY <1>1 DEF DeviceInv, Remembered, GivenBack
  <2>2. Len(buffers) \in Nat /\ index \in Nat
    BY LenProperties, UvcDeviceAssumption DEF DeviceInv, DeviceTypeOK
  <2> QED
    BY <1>1, <2>1, <2>2
<1>5. DeviceTypeOK'
  <2>1. queued' \in Seq(Buffers) /\ filled' \in Seq(Buffers)
    BY <1>1, EmptySeq
  <2>2. content' \in [Buffers -> Frames \cup {NoFrame}]
    BY <1>1 DEF NoContent
  <2> QED
    BY <1>1, <1>3, <2>1, <2>2 DEF DeviceInv, DeviceTypeOK, CloseStages
<1>6. Remembered' /\ GivenBack'
  BY <1>1, <1>3, <1>4 DEF DeviceInv, Remembered, GivenBack, WithoutBuffers
<1>7. Apart' /\ HoldsFrames'
  BY <1>1, <1>2 DEF Apart, HoldsFrames
<1>8. OpenInOrder' /\ HoldsWhileReading' /\ NoneMissing'
  BY <1>1 DEF DeviceInv, OpenInOrder, HoldsWhileReading, NoneMissing, Streaming, Reading,
     ReadStages, OpenStages, WithoutBuffers
<1> QED
  BY <1>5, <1>6, <1>7, <1>8 DEF DeviceInv

\* The object forgets what the process no longer has.
LEMMA ClearFieldsKeepsInv ==
    ASSUME DeviceInv, ClearFields
    PROVE  DeviceInv'
<1>1. /\ pc = "clearing" /\ pc' = "closed" /\ buffers' = <<>> /\ fd' = FALSE /\ index' = 1
      /\ UNCHANGED <<opened, mapped, queued, filled, content, held, payload, lostBuffers>>
  BY DEF ClearFields, processVars, driverVars, readVars
<1>2. buffers' \in Seq(Buffers \cup {NoMapping}) /\ Len(buffers') = 0
  BY <1>1, EmptySeq
<1>3. ~opened /\ mapped = {} /\ queued = <<>> /\ filled = <<>>
  BY <1>1 DEF DeviceInv, GivenBack, OpenInOrder, OpenStages, WithoutBuffers
<1>4. DeviceTypeOK'
  <2>1. Len(buffers') <= BufferCount /\ index' \in 1 .. BufferCount + 1
    BY <1>1, <1>2, UvcDeviceAssumption
  <2> QED
    BY <1>1, <1>2, <2>1 DEF DeviceInv, DeviceTypeOK
<1>5. Remembered' /\ GivenBack'
  BY <1>1, <1>2, <1>3 DEF Remembered, GivenBack
<1>6. ~Streaming /\ ~Streaming'
  BY <1>1 DEF Streaming, ReadStages
<1>7. Apart' /\ HoldsFrames' /\ HoldsWhileReading' /\ NoneMissing'
  BY <1>1, <1>6, QueuesKept
<1>8. OpenInOrder'
  BY <1>1, <1>3, <1>6 DEF DeviceInv, OpenInOrder, OpenStages
<1> QED
  BY <1>4, <1>5, <1>7, <1>8 DEF DeviceInv

\* The sensor's next frame goes from the queued buffers to the filled ones.
LEMMA SensorFrameKeepsInv ==
    ASSUME DeviceInv, NEW f \in Frames, SensorFrame(f)
    PROVE  DeviceInv'
<1>1. Streaming /\ UNCHANGED <<pc, fd, buffers, index, opened, mapped, held, payload, lostBuffers>>
  BY DEF SensorFrame, objectVars, processVars, readVars
<1>2. CASE queued = <<>>
  BY <1>1, <1>2 DEF SensorFrame, DeviceInv, DeviceTypeOK, Remembered, GivenBack, OpenInOrder,
     HoldsWhileReading, Apart, NoneMissing, HoldsFrames, Streaming, Reading, ReadStages, OpenStages, WithoutBuffers, HeldCount
<1>3. CASE queued # <<>>
  <2>1. /\ queued' = Tail(queued) /\ filled' = Append(filled, Head(queued))
        /\ content' = [content EXCEPT ![Head(queued)] = f]
    BY <1>3 DEF SensorFrame
  <2>2. /\ queued \in Seq(Buffers) /\ filled \in Seq(Buffers)
        /\ content \in [Buffers -> Frames \cup {NoFrame}]
    BY DEF DeviceInv, DeviceTypeOK
  <2>3. /\ Len(queued) \in Nat /\ 1 <= Len(queued) /\ Head(queued) \in Buffers
        /\ Head(queued) = queued[1] /\ queued' \in Seq(Buffers)
        /\ Len(queued') = Len(queued) - 1
        /\ \A i \in 1 .. Len(queued') : queued'[i] = queued[i + 1]
    BY <1>3, <2>1, <2>2, TakeFirst
  <2>4. /\ filled' \in Seq(Buffers) /\ Len(filled) \in Nat /\ Len(filled') = Len(filled) + 1
        /\ \A i \in 1 .. Len(filled) : filled'[i] = filled[i]
        /\ filled'[Len(filled) + 1] = queued[1]
    BY <2>1, <2>2, <2>3, PutLast
  <2>5. DeviceTypeOK'
    <3>1. content' \in [Buffers -> Frames \cup {NoFrame}]
      BY <2>1, <2>2, <2>3
    <3> QED
      BY <1>1, <2>3, <2>4, <3>1 DEF DeviceInv, DeviceTypeOK
  <2>6. Remembered' /\ GivenBack' /\ OpenInOrder' /\ HoldsWhileReading'
    BY <1>1 DEF DeviceInv, Remembered, GivenBack, OpenInOrder, HoldsWhileReading, Streaming, Reading, ReadStages, OpenStages, WithoutBuffers
  <2>7. Apart'
    <3> USE <1>1, <2>3, <2>4 DEF DeviceInv, Apart
    <3>1. \A i, j \in 1 .. Len(queued') : queued'[i] = queued'[j] => i = j
      <4>1. \A i, j \in 1 .. Len(queued) : queued[i] = queued[j] => i = j
        OBVIOUS
      <4>2. \A i \in 1 .. Len(queued') : i + 1 \in 1 .. Len(queued)
        BY <2>3
      <4> QED
        BY <2>3, <4>1, <4>2
    <3>2. \A i, j \in 1 .. Len(filled') : filled'[i] = filled'[j] => i = j
      <4>1. \A i \in 1 .. Len(filled) : filled[i] # queued[1]
        OBVIOUS
      <4> QED
        BY <4>1
    <3>3. \A i \in 1 .. Len(queued'), j \in 1 .. Len(filled') : queued'[i] # filled'[j]
      OBVIOUS
    <3>4. \A i \in 1 .. Len(queued') : queued'[i] # held'
      OBVIOUS
    <3>5. \A i \in 1 .. Len(filled') : filled'[i] # held'
      OBVIOUS
    <3> QED
      BY <3>1, <3>2, <3>3, <3>4, <3>5
  <2>8. NoneMissing'
    <3>1. Len(queued) + Len(filled) + HeldCount + lostBuffers = Len(buffers)
      BY <1>1 DEF DeviceInv, NoneMissing
    <3>2. HeldCount' = HeldCount /\ HeldCount \in Nat /\ lostBuffers \in Nat
      BY <1>1, UvcDeviceAssumption DEF HeldCount, DeviceInv, DeviceTypeOK
    <3>3. lostBuffers' = lostBuffers /\ buffers' = buffers
      BY <1>1
    <3>4. Len(queued') \in Int /\ Len(filled') \in Int /\ Len(queued) \in Int /\ Len(filled) \in Int
      BY <2>3, <2>4
    <3>5. Len(queued') = Len(queued) - 1 /\ Len(filled') = Len(filled) + 1
      BY <2>3, <2>4
    <3>6. Len(queued') + Len(filled') = Len(queued) + Len(filled)
      BY <3>4, <3>5
    <3> QED
      BY <3>1, <3>2, <3>3, <3>6, Zenon DEF NoneMissing
  <2>9. HoldsFrames'
    <3>1. \A i \in 1 .. Len(filled) : filled[i] \in Buffers
      BY <2>2, ElementOfSeq
    <3>2. \A i \in 1 .. Len(filled) : content'[filled[i]] \in Frames
      BY <2>1, <2>2, <3>1 DEF DeviceInv, HoldsFrames
    <3>3. content'[queued[1]] \in Frames
      BY <2>1, <2>2, <2>3
    <3>4. pc = "dequeued" => content'[held] \in Frames
      <4>1. pc = "dequeued" => held \in Buffers
        BY DEF DeviceInv, DeviceTypeOK, HoldsWhileReading, Reading
      <4> QED
        BY <2>1, <2>2, <4>1 DEF DeviceInv, HoldsFrames
    <3>5. \A i \in 1 .. Len(filled') : content'[filled'[i]] \in Frames
      BY <2>4, <3>2, <3>3
    <3> QED
      BY <1>1, <3>4, <3>5 DEF DeviceInv, HoldsFrames
  <2> QED
    BY <2>5, <2>6, <2>7, <2>8, <2>9 DEF DeviceInv
<1> QED
  BY <1>2, <1>3

\* VIDIOC_DQBUF takes the first filled buffer from the driver.
LEMMA DequeueKeepsInv ==
    ASSUME DeviceInv, Dequeue
    PROVE  DeviceInv'
<1>1. /\ pc = "streaming" /\ pc' = "dequeued" /\ filled # <<>>
      /\ held' = Head(filled) /\ filled' = Tail(filled)
      /\ UNCHANGED <<fd, buffers, index, opened, mapped, queued, content, payload, lostBuffers>>
  BY DEF Dequeue, objectVars, processVars
<1>2. /\ queued \in Seq(Buffers) /\ filled \in Seq(Buffers) /\ Len(queued) \in Nat
      /\ held = NoBuffer /\ Len(queued') = Len(queued)
  BY <1>1, LenProperties DEF DeviceInv, DeviceTypeOK, HoldsWhileReading, Reading
<1>3. /\ Len(filled) \in Nat /\ 1 <= Len(filled) /\ held' \in Buffers /\ held' = filled[1]
      /\ filled' \in Seq(Buffers) /\ Len(filled') = Len(filled) - 1
      /\ \A i \in 1 .. Len(filled') : filled'[i] = filled[i + 1]
  BY <1>1, <1>2, TakeFirst
<1>4. held' # NoBuffer
  BY <1>3, BufferIsNotNoBuffer
<1>5. DeviceTypeOK'
  BY <1>1, <1>2, <1>3 DEF DeviceInv, DeviceTypeOK, OpenStages, ReadStages, CloseStages
<1>6. Remembered' /\ GivenBack' /\ OpenInOrder' /\ HoldsWhileReading'
  BY <1>1, <1>4 DEF DeviceInv, Remembered, GivenBack, OpenInOrder, HoldsWhileReading, Streaming,
     Reading, ReadStages, OpenStages, WithoutBuffers
<1>7. Apart'
  <2> USE <1>1, <1>2, <1>3 DEF DeviceInv, Apart
  <2>1. \A i, j \in 1 .. Len(filled') : filled'[i] = filled'[j] => i = j
    OBVIOUS
  <2>2. \A i \in 1 .. Len(queued'), j \in 1 .. Len(filled') : queued'[i] # filled'[j]
    OBVIOUS
  <2>3. \A i \in 1 .. Len(queued') : queued'[i] # held'
    OBVIOUS
  <2>4. \A i \in 1 .. Len(filled') : filled'[i] # held'
    OBVIOUS
  <2> QED
    BY <2>1, <2>2, <2>3, <2>4
<1>8. NoneMissing'
  <2>1. Len(queued) + Len(filled) + 0 + lostBuffers = Len(buffers)
    BY <1>1, <1>2 DEF DeviceInv, NoneMissing, Streaming, ReadStages, HeldCount
  <2>2. HeldCount' = 1 /\ lostBuffers \in Nat
    BY <1>4, UvcDeviceAssumption DEF HeldCount, DeviceInv, DeviceTypeOK
  <2>3. Len(queued') + Len(filled') + HeldCount' + lostBuffers' = Len(buffers')
    BY <1>1, <1>2, <1>3, <2>1, <2>2
  <2> QED
    BY <2>3 DEF NoneMissing
<1>9. HoldsFrames'
  <2>1. \A i \in 1 .. Len(filled) : content'[filled[i]] \in Frames
    BY <1>1 DEF DeviceInv, HoldsFrames
  <2>2. \A i \in 1 .. Len(filled') : content'[filled'[i]] \in Frames
    BY <1>3, <2>1
  <2>3. content'[held'] \in Frames
    BY <1>3, <2>1
  <2> QED
    BY <1>1, <2>2, <2>3 DEF HoldsFrames
<1> QED
  BY <1>5, <1>6, <1>7, <1>8, <1>9 DEF DeviceInv

\* The copy touches no buffer.
LEMMA CopyKeepsInv ==
    ASSUME DeviceInv, Copy
    PROVE  DeviceInv'
<1>1. /\ pc = "dequeued" /\ pc' = "copied" /\ payload' = content[held]
      /\ UNCHANGED <<fd, buffers, index, opened, mapped, queued, filled, content, held, lostBuffers>>
  BY DEF Copy, objectVars, processVars, driverVars
<1>2. payload' \in Frames
  BY <1>1 DEF DeviceInv, HoldsFrames
<1>3. DeviceTypeOK' /\ HoldsFrames'
  BY <1>1, <1>2 DEF DeviceInv, DeviceTypeOK, OpenStages, ReadStages, CloseStages, HoldsFrames
<1>4. Remembered' /\ GivenBack' /\ OpenInOrder' /\ HoldsWhileReading' /\ Apart' /\ NoneMissing'
  BY <1>1 DEF DeviceInv, Remembered, GivenBack, OpenInOrder, HoldsWhileReading, Apart, NoneMissing,
     Streaming, Reading, ReadStages, OpenStages, WithoutBuffers, HeldCount
<1> QED
  BY <1>3, <1>4 DEF DeviceInv

\* VIDIOC_QBUF of ReadFrame, when it works, makes the held buffer the last queued one.
LEMMA RequeueKeepsInv ==
    ASSUME DeviceInv, Requeue
    PROVE  DeviceInv'
<1>1. /\ pc = "copied" /\ pc' = "streaming" /\ queued' = Append(queued, held)
      /\ held' = NoBuffer /\ payload' = NoFrame
      /\ UNCHANGED <<fd, buffers, index, opened, mapped, filled, content, lostBuffers>>
  BY DEF Requeue, objectVars, processVars
<1>2. /\ queued \in Seq(Buffers) /\ filled \in Seq(Buffers) /\ Len(filled) \in Nat
      /\ held # NoBuffer /\ held \in Buffers
  BY <1>1, LenProperties DEF DeviceInv, DeviceTypeOK, HoldsWhileReading, Reading
<1>3. /\ queued' \in Seq(Buffers) /\ Len(queued) \in Nat /\ Len(queued') = Len(queued) + 1
      /\ \A i \in 1 .. Len(queued) : queued'[i] = queued[i]
      /\ queued'[Len(queued) + 1] = held
  BY <1>1, <1>2, PutLast
<1>4. DeviceTypeOK'
  BY <1>1, <1>3 DEF DeviceInv, DeviceTypeOK, OpenStages, ReadStages, CloseStages
<1>5. Remembered' /\ GivenBack' /\ OpenInOrder' /\ HoldsWhileReading' /\ HoldsFrames'
  BY <1>1 DEF DeviceInv, Remembered, GivenBack, OpenInOrder, HoldsWhileReading, HoldsFrames, Streaming,
     Reading, ReadStages, OpenStages, WithoutBuffers
<1>6. Apart'
  <2>1. /\ \A i \in 1 .. Len(queued) : queued[i] # NoBuffer
        /\ \A i \in 1 .. Len(filled) : filled[i] # NoBuffer
    BY <1>2, ElementOfSeq, BufferIsNotNoBuffer
  <2> USE <1>1, <1>2, <1>3, <2>1 DEF DeviceInv, Apart
  <2>2. \A i, j \in 1 .. Len(queued') : queued'[i] = queued'[j] => i = j
    OBVIOUS
  <2>3. \A i \in 1 .. Len(queued'), j \in 1 .. Len(filled') : queued'[i] # filled'[j]
    OBVIOUS
  <2>4. \A i \in 1 .. Len(queued') : queued'[i] # held'
    OBVIOUS
  <2>5. \A i \in 1 .. Len(filled') : filled'[i] # held'
    OBVIOUS
  <2> QED
    BY <2>2, <2>3, <2>4, <2>5
<1>7. NoneMissing'
  <2>1. Len(queued) + Len(filled) + 1 + lostBuffers = Len(buffers)
    BY <1>1, <1>2 DEF DeviceInv, NoneMissing, Streaming, ReadStages, HeldCount
  <2>2. HeldCount' = 0 /\ lostBuffers \in Nat
    BY <1>1, UvcDeviceAssumption DEF HeldCount, DeviceInv, DeviceTypeOK
  <2>3. Len(queued') + Len(filled') + HeldCount' + lostBuffers' = Len(buffers')
    BY <1>1, <1>2, <1>3, <2>1, <2>2
  <2> QED
    BY <2>3 DEF NoneMissing
<1> QED
  BY <1>4, <1>5, <1>6, <1>7 DEF DeviceInv

\* When it fails the buffer is out of play until Close, and is counted.
LEMMA RequeueFailsKeepsInv ==
    ASSUME DeviceInv, RequeueFails
    PROVE  DeviceInv'
<1>1. /\ pc = "copied" /\ pc' = "streaming" /\ held' = NoBuffer /\ payload' = NoFrame
      /\ lostBuffers' = lostBuffers + 1
      /\ UNCHANGED <<fd, buffers, index, opened, mapped, queued, filled, content>>
  BY DEF RequeueFails, objectVars, processVars, driverVars
<1>2. /\ queued \in Seq(Buffers) /\ filled \in Seq(Buffers)
      /\ Len(queued) \in Nat /\ Len(filled) \in Nat /\ held # NoBuffer
      /\ lostBuffers \in Nat /\ Len(buffers) \in Nat /\ Len(buffers) <= BufferCount
      /\ BufferCount \in Nat
  BY <1>1, LenProperties, UvcDeviceAssumption DEF DeviceInv, DeviceTypeOK, HoldsWhileReading, Reading
<1>3. Len(queued) + Len(filled) + 1 + lostBuffers = Len(buffers)
  BY <1>1, <1>2 DEF DeviceInv, NoneMissing, Streaming, ReadStages, HeldCount
<1>4. lostBuffers' \in 0 .. BufferCount
  BY <1>1, <1>2, <1>3
<1>5. DeviceTypeOK'
  BY <1>1, <1>4 DEF DeviceInv, DeviceTypeOK, OpenStages, ReadStages, CloseStages
<1>6. Remembered' /\ GivenBack' /\ OpenInOrder' /\ HoldsWhileReading' /\ HoldsFrames'
  BY <1>1 DEF DeviceInv, Remembered, GivenBack, OpenInOrder, HoldsWhileReading, HoldsFrames, Streaming,
     Reading, ReadStages, OpenStages, WithoutBuffers
<1>7. Apart'
  <2>1. /\ \A i \in 1 .. Len(queued) : queued[i] # NoBuffer
        /\ \A i \in 1 .. Len(filled) : filled[i] # NoBuffer
    BY <1>2, ElementOfSeq, BufferIsNotNoBuffer
  <2> QED
    BY <1>1, <2>1 DEF DeviceInv, Apart
<1>8. NoneMissing'
  <2>1. HeldCount' = 0
    BY <1>1 DEF HeldCount
  <2>2. Len(queued') + Len(filled') + HeldCount' + lostBuffers' = Len(buffers')
    BY <1>1, <1>2, <1>3, <2>1
  <2> QED
    BY <2>2 DEF NoneMissing
<1> QED
  BY <1>5, <1>6, <1>7, <1>8 DEF DeviceInv

\* All of the device's steps, as the session and the theorems below use it.
LEMMA InvPreserved == DeviceInv /\ [DeviceNext]_deviceVars => DeviceInv'
<1> SUFFICES ASSUME DeviceInv, [DeviceNext]_deviceVars PROVE DeviceInv'
  OBVIOUS
<1>1. CASE UNCHANGED deviceVars
  BY <1>1 DEF deviceVars, objectVars, processVars, driverVars, readVars, DeviceInv, DeviceTypeOK, Remembered, GivenBack, OpenInOrder,
     HoldsWhileReading, Apart, NoneMissing, HoldsFrames, Streaming, Reading, ReadStages, OpenStages, WithoutBuffers, HeldCount
<1>2. CASE OpenCalled \/ OpenStep \/ OpenFails
  BY <1>2, StageKeepsInv, MappingKeepsInv, QueueBufferKeepsInv DEF OpenStep
<1>3. CASE \E f \in Frames : SensorFrame(f)
  BY <1>3, SensorFrameKeepsInv
<1>4. CASE CloseCalled \/ CloseStep
  BY <1>4, StageKeepsInv, StopStreamKeepsInv, UnmapBufferKeepsInv, CloseDescriptorKeepsInv,
     ClearFieldsKeepsInv DEF CloseStep
<1> QED
  BY <1>1, <1>2, <1>3, <1>4, DequeueKeepsInv, CopyKeepsInv, RequeueKeepsInv,
     RequeueFailsKeepsInv DEF DeviceNext

(***************************************************************************)
(* What follows from the invariant                                         *)
(***************************************************************************)

\* The invariant says pair by pair what BuffersConserved says of one sequence.
LEMMA InvImpliesConserved == DeviceInv => BuffersConserved
<1> SUFFICES ASSUME DeviceInv, Streaming
             PROVE  LET owned == queued \o filled \o
                                   (IF held = NoBuffer THEN <<>> ELSE <<held>>)
                    IN IsInjective(owned) /\ Len(owned) + lostBuffers = Len(buffers)
  BY DEF BuffersConserved
<1> DEFINE last == IF held = NoBuffer THEN <<>> ELSE <<held>>
           first == queued \o filled
           owned == first \o last
<1>1. queued \in Seq(Buffers) /\ filled \in Seq(Buffers)
  BY DEF DeviceInv, DeviceTypeOK
<1>2. last \in Seq(Buffers) /\ Len(last) = HeldCount /\ (1 \in 1 .. Len(last) => last[1] = held)
  BY EmptySeq DEF DeviceInv, DeviceTypeOK, HeldCount
<1>3. HeldCount \in {0, 1} /\ Len(queued) \in Nat /\ Len(filled) \in Nat
  BY <1>1, LenProperties DEF HeldCount
<1>4. /\ first \in Seq(Buffers) /\ Len(first) = Len(queued) + Len(filled)
      /\ \A i \in 1 .. Len(queued) + Len(filled) :
             first[i] = IF i <= Len(queued) THEN queued[i] ELSE filled[i - Len(queued)]
  BY <1>1, ConcatProperties
<1> HIDE DEF first, last
<1>5. /\ owned \in Seq(Buffers) /\ Len(owned) = Len(first) + Len(last)
      /\ \A i \in 1 .. Len(first) + Len(last) :
             owned[i] = IF i <= Len(first) THEN first[i] ELSE last[i - Len(first)]
  <2>1. first \in Seq(Buffers) /\ last \in Seq(Buffers)
    BY <1>2, <1>4
  <2> QED
    BY <2>1, ConcatProperties
<1>6. DOMAIN owned = 1 .. Len(owned)
  BY <1>5, LenProperties
<1> HIDE DEF owned
<1>7. Len(owned) + lostBuffers = Len(buffers)
  BY <1>2, <1>4, <1>5 DEF DeviceInv, NoneMissing
<1>8. \A i, j \in 1 .. Len(first) : first[i] = first[j] => i = j
  <2> SUFFICES ASSUME NEW i \in 1 .. Len(first), NEW j \in 1 .. Len(first), first[i] = first[j]
               PROVE  i = j
    OBVIOUS
  <2> USE <1>3, <1>4 DEF DeviceInv, Apart
  <2>1. CASE i <= Len(queued) /\ j <= Len(queued)
    BY <2>1
  <2>2. CASE i <= Len(queued) /\ ~(j <= Len(queued))
    <3>1. j - Len(queued) \in 1 .. Len(filled) /\ i \in 1 .. Len(queued)
      BY <2>2
    <3>2. first[i] = queued[i] /\ first[j] = filled[j - Len(queued)]
      BY <2>2
    <3> QED
      BY <3>1, <3>2
  <2>3. CASE ~(i <= Len(queued)) /\ j <= Len(queued)
    <3>1. i - Len(queued) \in 1 .. Len(filled) /\ j \in 1 .. Len(queued)
      BY <2>3
    <3>2. first[j] = queued[j] /\ first[i] = filled[i - Len(queued)]
      BY <2>3
    <3> QED
      BY <3>1, <3>2
  <2>4. CASE ~(i <= Len(queued)) /\ ~(j <= Len(queued))
    <3>1. i - Len(queued) \in 1 .. Len(filled) /\ j - Len(queued) \in 1 .. Len(filled)
      BY <2>4
    <3>2. first[i] = filled[i - Len(queued)] /\ first[j] = filled[j - Len(queued)]
      BY <2>4
    <3>3. i - Len(queued) = j - Len(queued)
      BY <3>1, <3>2
    <3> QED
      BY <3>3
  <2> QED
    BY <2>1, <2>2, <2>3, <2>4
<1>9. \A i \in 1 .. Len(first) : first[i] # held
  BY <1>3, <1>4 DEF DeviceInv, Apart
<1>10. \A i, j \in 1 .. Len(owned) : owned[i] = owned[j] => i = j
  <2> SUFFICES ASSUME NEW i \in 1 .. Len(owned), NEW j \in 1 .. Len(owned), owned[i] = owned[j]
               PROVE  i = j
    OBVIOUS
  <2>1. \A k \in 1 .. Len(owned) :
           \/ k \in 1 .. Len(first) /\ owned[k] = first[k]
           \/ k = Len(first) + 1 /\ owned[k] = held
    BY <1>2, <1>3, <1>4, <1>5
  <2> QED
    BY <1>8, <1>9, <2>1
<1>11. IsInjective(owned)
  BY <1>6, <1>10 DEF IsInjective
<1> QED
  BY <1>7, <1>11, Zenon DEF owned, first, last

\* When Close is over, or an Open that failed anywhere, the process has neither
\* the device open nor a buffer mapped: the loop of Close over buffers_ meets
\* every mapping, also when the mapping loop of Open broke off half-way, and
\* whatever STREAMOFF returned (UvcDevice::Close, and Open's error paths).
THEOREM DeviceLeaksNothing == DeviceSpec => []NothingLeaks
<1>1. DeviceInv => NothingLeaks
  BY DEF DeviceInv, GivenBack, NothingLeaks
<1> QED
  BY <1>1, InvInitially, InvPreserved, PTL DEF DeviceSpec

\* Each buffer of a running stream is queued, filled, held or lost, and in one of
\* these places only: what VIDIOC_DQBUF gives is never one that the driver can
\* still fill (UvcDevice::ReadFrame).
THEOREM DeviceConservesBuffers == DeviceSpec => []BuffersConserved
BY InvInitially, InvPreserved, InvImpliesConserved, PTL DEF DeviceSpec

(***************************************************************************)
(* The session: the inductive invariant                                    *)
(***************************************************************************)

\* What Close leaves, and an Open that fails does not touch.
Cleared ==
    /\ readyEvents = <<>> /\ pendingPointCloud = NoEvent
    /\ normalizer = NormalizerAfterReset(0) /\ lastTimestampUs = 0
    /\ capture = 0 /\ unsent = <<>> /\ lossy = FALSE
    /\ parsedClouds = <<>> /\ emitted = <<>>

\* Nothing has happened in a session whose stream has not started.
ClearedUntilStreaming == ~Streaming => Cleared

\* Once it has an output the clock keeps one, which Stamp may compare with.
ClockSettled == normalizer.initialized => Settled(normalizer)

\* A point cloud is held back in one profile only, and is a measurement.
CloudWaits ==
    pendingPointCloud # NoEvent =>
        Mixed /\ IsMeasurement(pendingPointCloud) /\ pendingPointCloud.cloud # NoCapture

SessionInv ==
    /\ DeviceInv
    /\ StreamTypeOK
    /\ ClearedUntilStreaming
    /\ ReadyQueueDrained
    /\ ClockSettled
    /\ CloudWaits

(***************************************************************************)
(* Lemmas about the camera                                                 *)
(***************************************************************************)

\* What the arguments need of the constants.
LEMMA SessionConstants ==
    /\ MaxRawMs \in Nat
    /\ FirstRawTimes \subseteq RawMs
    /\ CaptureGapMs \in Nat
    /\ HostTimes \subseteq Nat \ {0}
    /\ CaptureLimit \in Nat
<1>1. MaxRawMs \in Nat
  BY RelativeMillisecondsAssumption
<1>2. /\ FirstRawTimes \subseteq RawMs /\ CaptureGapMs \in RawMs
      /\ HostTimes \subseteq Nat \ {0} /\ CaptureLimit \in Nat
  BY UvcStreamAssumption
<1> QED
  BY <1>1, <1>2 DEF RawMs

\* The counter of the camera wraps and stays a counter.
LEMMA RawTimeTyped ==
    ASSUME firstRawMs \in RawMs, NEW c \in Nat \ {0}
    PROVE  RawTime(c) \in RawMs
<1>1. firstRawMs + (c - 1) * CaptureGapMs \in Nat
  <2>1. firstRawMs \in Nat /\ c - 1 \in Nat /\ CaptureGapMs \in Nat
    BY SessionConstants DEF RawMs
  <2>2. (c - 1) * CaptureGapMs \in Nat
    BY <2>1
  <2> QED
    BY <2>1, <2>2
<1>2. MaxRawMs + 1 \in Nat \ {0}
  BY SessionConstants
<1>3. \A a \in Nat, b \in Nat \ {0} : a % b \in 0 .. b - 1
  OBVIOUS
<1>4. RawTime(c) \in 0 .. (MaxRawMs + 1) - 1
  BY <1>1, <1>2, <1>3 DEF RawTime
<1> QED
  BY <1>4, SessionConstants DEF RawMs

\* A capture is one payload or more.
LEMMA CapturePayloadsTyped ==
    ASSUME NEW c \in Captures, NEW timed \in BOOLEAN, NEW withInfo \in BOOLEAN
    PROVE  /\ CapturePayloads(c, timed, withInfo) \in Seq(Payloads)
           /\ CapturePayloads(c, timed, withInfo) # <<>>
<1> DEFINE cloud(t) == [type |-> "PointCloud", capture |-> c, timed |-> t]
           depth(t) == [type |-> "Depth", capture |-> c, timed |-> t]
           info == IF withInfo THEN <<[type |-> "Info", capture |-> c, timed |-> FALSE]>>
                   ELSE <<>>
<1>1. \A t \in BOOLEAN : cloud(t) \in Payloads /\ depth(t) \in Payloads
  BY DEF Payloads, PayloadTypes
<1>2. info \in Seq(Payloads)
  <2>1. [type |-> "Info", capture |-> c, timed |-> FALSE] \in Payloads
    BY DEF Payloads, PayloadTypes
  <2>2. <<[type |-> "Info", capture |-> c, timed |-> FALSE]>> \in Seq(Payloads)
    BY <2>1
  <2> QED
    BY <2>2, EmptySeq
<1>3. CapturePayloads(c, timed, withInfo) =
        CASE profile = "Mixed120x90"       -> <<cloud(TRUE)>> \o info \o <<depth(TRUE)>>
          [] profile = "PointCloud160x120" -> <<cloud(timed)>>
          [] OTHER                         -> <<depth(FALSE)>>
  BY Zenon DEF CapturePayloads
<1> HIDE DEF cloud, depth, info
<1>4. \A e \in Payloads : <<e>> \in Seq(Payloads) /\ <<e>> # <<>>
  OBVIOUS
<1>5. <<cloud(TRUE)>> \o info \o <<depth(TRUE)>> \in Seq(Payloads) \ {<<>>}
  <2>1. <<cloud(TRUE)>> \in Seq(Payloads) /\ <<depth(TRUE)>> \in Seq(Payloads) /\ <<depth(TRUE)>> # <<>>
    BY <1>1, <1>4
  <2>2. <<cloud(TRUE)>> \o info \in Seq(Payloads)
    BY <1>2, <2>1, ConcatProperties
  <2>3. <<cloud(TRUE)>> \o info \o <<depth(TRUE)>> \in Seq(Payloads)
    BY <2>1, <2>2, ConcatProperties
  <2>4. <<cloud(TRUE)>> \o info \o <<depth(TRUE)>> # <<>>
    BY <2>1, <2>2, ConcatEqualIffEmpty
  <2> QED
    BY <2>3, <2>4
<1>6. <<cloud(timed)>> \in Seq(Payloads) \ {<<>>} /\ <<depth(FALSE)>> \in Seq(Payloads) \ {<<>>}
  BY <1>1, <1>4
<1> QED
  BY <1>3, <1>5, <1>6

\* What the camera sends next is a payload of the capture at hand or of the next.
LEMMA SendsTyped ==
    ASSUME StreamTypeOK, NEW send \in Sends, send.capture <= CaptureLimit
    PROVE  /\ send.payload \in Payloads
           /\ send.unsent \in Seq(Payloads)
           /\ send.capture \in 0 .. CaptureLimit
<1>1. unsent \in Seq(Payloads) /\ capture \in 0 .. CaptureLimit
  BY DEF StreamTypeOK
<1>2. CASE unsent # <<>>
  <2>1. send = [payload |-> Head(unsent), unsent |-> Tail(unsent), capture |-> capture]
    BY <1>2 DEF Sends
  <2>2. Head(unsent) \in Payloads /\ Tail(unsent) \in Seq(Payloads)
    BY <1>1, <1>2, TakeFirst
  <2> QED
    BY <1>1, <2>1, <2>2
<1>3. CASE unsent = <<>>
  <2>1. PICK timed \in BOOLEAN, withInfo \in BOOLEAN :
          send = [payload |-> Head(CapturePayloads(capture + 1, timed, withInfo)),
                  unsent  |-> Tail(CapturePayloads(capture + 1, timed, withInfo)),
                  capture |-> capture + 1]
    BY <1>3 DEF Sends
  <2>2. capture + 1 \in Captures
    BY <1>1, <2>1, SessionConstants DEF Captures
  <2>3. /\ CapturePayloads(capture + 1, timed, withInfo) \in Seq(Payloads)
        /\ CapturePayloads(capture + 1, timed, withInfo) # <<>>
    BY <2>2, CapturePayloadsTyped
  <2>4. /\ Head(CapturePayloads(capture + 1, timed, withInfo)) \in Payloads
        /\ Tail(CapturePayloads(capture + 1, timed, withInfo)) \in Seq(Payloads)
    BY <2>3, TakeFirst
  <2>5. capture + 1 \in 0 .. CaptureLimit
    BY <2>2, SessionConstants DEF Captures
  <2> QED
    BY <2>1, <2>4, <2>5
<1> QED
  BY <1>2, <1>3

(***************************************************************************)
(* Lemmas about HandleParsedFrame                                          *)
(***************************************************************************)

\* A stamp is later than the one before it, and never 0.
LEMMA StampResult ==
    ASSUME StreamTypeOK, ClockSettled, NEW p \in Payloads, NEW nowUs \in HostTimes,
           Stamp(p, nowUs)
    PROVE  /\ normalizer' \in Normalizers
           /\ ClockSettled'
           /\ lastTimestampUs' \in Nat
           /\ lastTimestampUs < lastTimestampUs'
<1> DEFINE n == Normalize(normalizer, RawTime(p.capture), nowUs)
           valueUs == IF p.timed THEN n.lastOutputUs ELSE nowUs
<1>1. /\ normalizer \in Normalizers /\ firstRawMs \in RawMs /\ lastTimestampUs \in Nat
      /\ p.capture \in Nat \ {0} /\ nowUs \in Nat \ {0}
  BY SessionConstants DEF StreamTypeOK, Payloads, Captures
<1>2. RawTime(p.capture) \in RawMs
  BY <1>1, RawTimeTyped
<1>3. Settled(n)
  BY <1>1, <1>2, NormalizeResult DEF ClockSettled
<1>4. /\ normalizer' = IF p.timed THEN n ELSE normalizer
      /\ lastTimestampUs' = IF lastTimestampUs # 0 /\ valueUs <= lastTimestampUs
                            THEN lastTimestampUs + 1 ELSE valueUs
  BY DEF Stamp
<1> HIDE DEF n
<1>5. n \in Normalizers /\ n.lastOutputUs \in Nat \ {0}
  BY <1>3 DEF Settled, Normalizers
<1>6. valueUs \in Nat \ {0}
  BY <1>1, <1>5
<1> HIDE DEF valueUs
<1>7. lastTimestampUs' \in Nat /\ lastTimestampUs < lastTimestampUs'
  BY <1>1, <1>4, <1>6
<1>8. normalizer' \in Normalizers
  BY <1>1, <1>4, <1>5
<1>9. ClockSettled'
  <2>1. normalizer' = n \/ normalizer' = normalizer
    BY <1>4
  <2> QED
    BY <1>3, <2>1 DEF ClockSettled
<1> QED
  BY <1>7, <1>8, <1>9

\* The event of one payload.
LEMMA StampedEventResult ==
    ASSUME NEW p \in Payloads, lastTimestampUs' \in Nat
    PROVE  /\ StampedEvent(p) \in Events
           /\ IsMeasurement(StampedEvent(p))
           /\ StampedEvent(p).timeUs = lastTimestampUs'
           /\ StampedEvent(p).cloud =
                 IF p.type = "PointCloud" THEN p.capture ELSE NoCapture
           /\ StampedEvent(p).depth = IF p.type = "Depth" THEN p.capture ELSE NoCapture
           /\ StampedEvent(p) # NoEvent
<1>1. p.capture \in Captures
  BY DEF Payloads
<1> QED
  BY <1>1 DEF StampedEvent, Events, EventTypes, IsMeasurement, NoEvent

\* The event of an info payload, and no event.
LEMMA QuietEvents ==
    /\ InfoEvent \in Events /\ NoEvent \in Events
    /\ InfoEvent.type = "InfoUpdate" /\ InfoEvent.cloud = NoCapture /\ InfoEvent.depth = NoCapture
    /\ ~IsMeasurement(InfoEvent)
BY DEF InfoEvent, NoEvent, Events, EventTypes, IsMeasurement

\* The queue of ready events does its work within one Poll: what it gets it gives.
LEMMA HoldPointCloudResult ==
    ASSUME ReadyQueueDrained, StreamTypeOK, NEW p, NEW nowUs, HoldPointCloud(p, nowUs)
    PROVE  /\ readyEvents' = <<>>
           /\ emitted' = IF pendingPointCloud = NoEvent THEN emitted
                         ELSE Append(emitted, pendingPointCloud)
<1>1. pendingPointCloud \in Events /\ readyEvents = <<>>
  BY DEF StreamTypeOK, ReadyQueueDrained
<1>2. CASE pendingPointCloud = NoEvent
  BY <1>1, <1>2 DEF HoldPointCloud
<1>3. CASE pendingPointCloud # NoEvent
  <2>1. /\ Append(readyEvents, pendingPointCloud) # <<>>
        /\ Head(Append(readyEvents, pendingPointCloud)) = pendingPointCloud
        /\ Tail(Append(readyEvents, pendingPointCloud)) = <<>>
    BY <1>1, EmptySeq, AppendProperties, HeadTailAppend
  <2>2. /\ readyEvents' = Tail(Append(readyEvents, pendingPointCloud))
        /\ emitted' = Append(emitted, Head(Append(readyEvents, pendingPointCloud)))
    BY <1>3, <2>1 DEF HoldPointCloud, Emit
  <2> QED
    BY <1>3, <2>1, <2>2
<1> QED
  BY <1>2, <1>3

(***************************************************************************)
(* Lemmas about the payloads on their way                                  *)
(***************************************************************************)

\* Taking the first element from what it was put in front of.
LEMMA HeadTailOfCons ==
    ASSUME NEW S, NEW e \in S, NEW s \in Seq(S)
    PROVE  /\ <<e>> \o s \in Seq(S) /\ <<e>> \o s # <<>>
           /\ Head(<<e>> \o s) = e /\ Tail(<<e>> \o s) = s
<1> DEFINE t == <<e>> \o s
<1>1. <<e>> \in Seq(S) /\ Len(<<e>>) = 1 /\ <<e>>[1] = e /\ Len(s) \in Nat
  BY LenProperties
<1>2. /\ t \in Seq(S) /\ Len(t) = 1 + Len(s)
      /\ \A i \in 1 .. 1 + Len(s) : t[i] = IF i <= 1 THEN <<e>>[i] ELSE s[i - 1]
  <2>1. /\ <<e>> \o s \in Seq(S) /\ Len(<<e>> \o s) = Len(<<e>>) + Len(s)
        /\ \A i \in 1 .. Len(<<e>>) + Len(s) :
              (<<e>> \o s)[i] = IF i <= Len(<<e>>) THEN <<e>>[i] ELSE s[i - Len(<<e>>)]
    BY <1>1, ConcatProperties
  <2> QED
    BY <1>1, <2>1
<1> HIDE DEF t
<1>3. t # <<>>
  BY <1>1, <1>2, EmptySeq
<1>4. /\ Head(t) = t[1] /\ Tail(t) \in Seq(S) /\ Len(Tail(t)) = Len(t) - 1
      /\ \A i \in 1 .. Len(Tail(t)) : Tail(t)[i] = t[i + 1]
  BY <1>2, <1>3, TakeFirst
<1>5. Head(t) = e
  BY <1>1, <1>2, <1>4
<1>6. Len(Tail(t)) = Len(s) /\ \A i \in 1 .. Len(Tail(t)) : Tail(t)[i] = s[i]
  BY <1>1, <1>2, <1>4
<1>7. Tail(t) = s
  BY <1>4, <1>6, SeqEqual
<1> QED
  BY <1>2, <1>3, <1>5, <1>7 DEF t

\* And putting it back.
LEMMA ConsOfHeadTail ==
    ASSUME NEW S, NEW s \in Seq(S), s # <<>>
    PROVE  <<Head(s)>> \o Tail(s) = s
<1>1. /\ Len(s) \in Nat /\ 1 <= Len(s) /\ Head(s) \in S /\ Head(s) = s[1]
      /\ Tail(s) \in Seq(S) /\ Len(Tail(s)) = Len(s) - 1
      /\ \A i \in 1 .. Len(Tail(s)) : Tail(s)[i] = s[i + 1]
  BY TakeFirst
<1> DEFINE t == <<Head(s)>> \o Tail(s)
<1>2. <<Head(s)>> \in Seq(S) /\ Len(<<Head(s)>>) = 1 /\ <<Head(s)>>[1] = s[1]
  BY <1>1
<1>3. /\ t \in Seq(S) /\ Len(t) = 1 + Len(Tail(s))
      /\ \A i \in 1 .. 1 + Len(Tail(s)) :
            t[i] = IF i <= 1 THEN <<Head(s)>>[i] ELSE Tail(s)[i - 1]
  <2>1. /\ <<Head(s)>> \o Tail(s) \in Seq(S)
        /\ Len(<<Head(s)>> \o Tail(s)) = Len(<<Head(s)>>) + Len(Tail(s))
        /\ \A i \in 1 .. Len(<<Head(s)>>) + Len(Tail(s)) :
              (<<Head(s)>> \o Tail(s))[i] =
                 IF i <= Len(<<Head(s)>>) THEN <<Head(s)>>[i] ELSE Tail(s)[i - Len(<<Head(s)>>)]
    BY <1>1, <1>2, ConcatProperties
  <2> QED
    BY <1>2, <2>1
<1> HIDE DEF t
<1>4. Len(t) = Len(s)
  BY <1>1, <1>3
<1>5. \A i \in 1 .. Len(t) : t[i] = s[i]
  BY <1>1, <1>2, <1>3, <1>4
<1>6. t = s
  BY <1>3, <1>4, <1>5, SeqEqual
<1> QED
  BY <1>6 DEF t

\* What ReadFrame has in hand, and what lies in the driver's filled buffers.
InHand ==
    CASE pc = "dequeued" -> <<content[held]>>
      [] pc = "copied"   -> <<payload>>
      [] OTHER           -> <<>>

InBuffers == [i \in DOMAIN filled |-> content[filled[i]]]

\* The payloads on their way are those two, one after the other.
LEMMA OnTheWayIs == OnTheWay = IF Streaming THEN InHand \o InBuffers ELSE <<>>
BY DEF OnTheWay, InHand, InBuffers

\* Both are sequences of payloads, and there is a buffer for each.
LinkIsTyped ==
    /\ InHand \in Seq(Payloads) /\ InBuffers \in Seq(Payloads)
    /\ Len(InBuffers) = Len(filled)
    /\ \A i \in 1 .. Len(filled) : InBuffers[i] = content[filled[i]]
    /\ OnTheWay \in Seq(Payloads)
    /\ Len(OnTheWay) <= HeldCount + Len(filled)
    /\ Len(OnTheWay) \in Nat

\* The invariant of the device says so.
LEMMA LinkTyped == DeviceInv => LinkIsTyped
<1> SUFFICES ASSUME DeviceInv PROVE LinkIsTyped
  OBVIOUS
<1>1. Frames = Payloads
  BY UvcSessionAssumption
<1>2. InHand \in Seq(Payloads) /\ Len(InHand) \in Nat /\ Len(InHand) <= HeldCount
  <2>1. CASE pc = "dequeued"
    <3>1. InHand = <<content[held]>> /\ content[held] \in Payloads
      BY <1>1, <2>1 DEF InHand, DeviceInv, HoldsFrames
    <3>2. HeldCount = 1
      BY <2>1 DEF HeldCount, DeviceInv, HoldsWhileReading, Reading
    <3> QED
      BY <3>1, <3>2
  <2>2. CASE pc = "copied"
    <3>1. InHand = <<payload>> /\ payload \in Payloads
      BY <1>1, <2>2 DEF InHand, DeviceInv, HoldsFrames
    <3>2. HeldCount = 1
      BY <2>2 DEF HeldCount, DeviceInv, HoldsWhileReading, Reading
    <3> QED
      BY <3>1, <3>2
  <2>3. CASE pc \notin {"dequeued", "copied"}
    <3>1. InHand = <<>>
      BY <2>3 DEF InHand
    <3> QED
      BY <3>1, EmptySeq DEF HeldCount
  <2> QED
    BY <2>1, <2>2, <2>3
<1>3. filled \in Seq(Buffers) /\ Len(filled) \in Nat /\ DOMAIN filled = 1 .. Len(filled)
  BY LenProperties DEF DeviceInv, DeviceTypeOK
<1>4. InBuffers \in [1 .. Len(filled) -> Payloads]
  BY <1>1, <1>3 DEF InBuffers, DeviceInv, HoldsFrames
<1>5. InBuffers \in Seq(Payloads)
  BY <1>3, <1>4, SeqDef
<1>6. Len(InBuffers) = Len(filled)
  BY <1>3, <1>4, <1>5, LenProperties
<1>7. \A i \in 1 .. Len(filled) : InBuffers[i] = content[filled[i]]
  BY <1>3 DEF InBuffers
<1>8. HeldCount \in Nat
  BY DEF HeldCount
<1>9. OnTheWay \in Seq(Payloads) /\ Len(OnTheWay) \in Nat /\ Len(OnTheWay) <= HeldCount + Len(filled)
  <2>1. CASE Streaming
    <3>1. OnTheWay = InHand \o InBuffers
      BY <2>1, OnTheWayIs
    <3>2. OnTheWay \in Seq(Payloads) /\ Len(OnTheWay) = Len(InHand) + Len(InBuffers)
      BY <1>2, <1>5, <3>1, ConcatProperties
    <3> QED
      BY <1>2, <1>3, <1>6, <1>8, <3>2
  <2>2. CASE ~Streaming
    <3>1. OnTheWay = <<>>
      BY <2>2, OnTheWayIs
    <3> QED
      BY <1>3, <1>8, <3>1, EmptySeq
  <2> QED
    BY <2>1, <2>2
<1> QED
  BY <1>2, <1>5, <1>6, <1>7, <1>9 DEF LinkIsTyped

\* The driver fills a buffer: the payload is the last one on its way.  A buffer
\* that is filled or held already is another one, so no payload is overwritten.
LEMMA SensorFrameAppends ==
    ASSUME DeviceInv, NEW f \in Payloads, SensorFrame(f), queued # <<>>
    PROVE  /\ OnTheWay' = Append(OnTheWay, f)
           /\ Len(OnTheWay) < BufferCount
<1>1. Frames = Payloads
  BY UvcSessionAssumption
<1>2. DeviceInv'
  BY <1>1, SensorFrameKeepsInv
<1>3. /\ queued' = Tail(queued) /\ filled' = Append(filled, Head(queued))
      /\ content' = [content EXCEPT ![Head(queued)] = f]
      /\ UNCHANGED <<pc, held, payload, buffers, lostBuffers>> /\ Streaming /\ Streaming'
  BY DEF SensorFrame, objectVars, readVars, Streaming
<1>4. /\ queued \in Seq(Buffers) /\ filled \in Seq(Buffers)
      /\ content \in [Buffers -> Frames \cup {NoFrame}]
  BY DEF DeviceInv, DeviceTypeOK
<1>5. Len(queued) \in Nat /\ 1 <= Len(queued) /\ Head(queued) \in Buffers /\ Head(queued) = queued[1]
  BY <1>4, TakeFirst
<1>6. /\ Len(filled) \in Nat /\ Len(filled') = Len(filled) + 1
      /\ \A i \in 1 .. Len(filled) : filled'[i] = filled[i]
      /\ filled'[Len(filled) + 1] = Head(queued)
  BY <1>3, <1>4, <1>5, PutLast
<1>7. InHand' = InHand
  <2>1. pc = "dequeued" => held \in Buffers /\ held # Head(queued)
    BY <1>5 DEF DeviceInv, DeviceTypeOK, Apart, HoldsWhileReading, Reading
  <2>2. pc = "dequeued" => content'[held] = content[held]
    BY <1>3, <1>4, <2>1
  <2>3. CASE pc = "dequeued"
    BY <1>3, <2>2, <2>3 DEF InHand
  <2>4. CASE pc # "dequeued"
    BY <1>3, <2>4 DEF InHand
  <2> QED
    BY <2>3, <2>4
<1>8. InBuffers' = Append(InBuffers, f)
  <2>1. /\ InBuffers \in Seq(Payloads) /\ Len(InBuffers) = Len(filled)
        /\ \A i \in 1 .. Len(filled) : InBuffers[i] = content[filled[i]]
    BY LinkTyped DEF LinkIsTyped
  <2>2. /\ InBuffers' \in Seq(Payloads) /\ Len(InBuffers') = Len(filled')
        /\ \A i \in 1 .. Len(filled') : InBuffers'[i] = content'[filled'[i]]
    <3>1. LinkIsTyped'
      BY <1>2, LinkTyped, PTL
    <3> QED
      BY <3>1 DEF LinkIsTyped
  <2>3. /\ Append(InBuffers, f) \in Seq(Payloads)
        /\ Len(Append(InBuffers, f)) = Len(filled) + 1
        /\ \A i \in 1 .. Len(filled) : Append(InBuffers, f)[i] = InBuffers[i]
        /\ Append(InBuffers, f)[Len(filled) + 1] = f
    BY <2>1, PutLast
  <2>4. \A i \in 1 .. Len(filled) : filled[i] \in Buffers /\ filled[i] # Head(queued)
    <3>1. \A i \in 1 .. Len(filled) : filled[i] \in Buffers
      BY <1>4, ElementOfSeq
    <3>2. 1 \in 1 .. Len(queued)
      BY <1>5
    <3> QED
      BY <1>5, <3>1, <3>2 DEF DeviceInv, Apart
  <2>5. \A i \in 1 .. Len(filled) : content'[filled[i]] = content[filled[i]]
    BY <1>3, <1>4, <2>4
  <2>6. content'[Head(queued)] = f
    BY <1>3, <1>4, <1>5
  <2>7. \A i \in 1 .. Len(InBuffers') : InBuffers'[i] = Append(InBuffers, f)[i]
    BY <1>6, <2>1, <2>2, <2>3, <2>5, <2>6
  <2>8. Len(InBuffers') = Len(Append(InBuffers, f))
    BY <1>6, <2>2, <2>3
  <2> QED
    BY <2>2, <2>3, <2>7, <2>8, SeqEqual
<1>9. OnTheWay' = Append(OnTheWay, f)
  <2>1. InHand \in Seq(Payloads) /\ InBuffers \in Seq(Payloads) /\ OnTheWay \in Seq(Payloads)
    BY LinkTyped DEF LinkIsTyped
  <2>2. <<f>> \in Seq(Payloads)
    OBVIOUS
  <2>3. Append(InBuffers, f) = InBuffers \o <<f>>
    BY <2>1, AppendIsConcat
  <2>4. Append(OnTheWay, f) = OnTheWay \o <<f>>
    BY <2>1, AppendIsConcat
  <2>5. OnTheWay \o <<f>> = InHand \o (InBuffers \o <<f>>)
    BY <1>3, <2>1, <2>2, OnTheWayIs, ConcatAssociative
  <2>6. OnTheWay' = InHand' \o InBuffers'
    BY <1>3 DEF OnTheWay, InHand, InBuffers
  <2> QED
    BY <1>7, <1>8, <2>3, <2>4, <2>5, <2>6
<1>10. Len(OnTheWay) < BufferCount
  <2>1. Len(OnTheWay) \in Nat /\ Len(OnTheWay) <= HeldCount + Len(filled)
    BY LinkTyped DEF LinkIsTyped
  <2>2. Len(queued) + Len(filled) + HeldCount + lostBuffers = Len(buffers)
    BY <1>3 DEF DeviceInv, NoneMissing
  <2>3. /\ lostBuffers \in Nat /\ Len(buffers) \in Nat /\ Len(buffers) <= BufferCount
        /\ BufferCount \in Nat /\ HeldCount \in Nat
    BY LenProperties, UvcDeviceAssumption DEF DeviceInv, DeviceTypeOK, HeldCount
  <2> QED
    BY <1>5, <1>6, <2>1, <2>2, <2>3
<1> QED
  BY <1>9, <1>10

\* VIDIOC_DQBUF and the copy leave the payloads as they are.
LEMMA ReadFrameKeepsLink ==
    ASSUME DeviceInv, Dequeue \/ Copy
    PROVE  OnTheWay' = OnTheWay
<1>0. Streaming /\ Streaming'
  BY DEF Dequeue, Copy, Streaming, ReadStages
<1>1. OnTheWay' = InHand' \o InBuffers'
  BY <1>0 DEF OnTheWay, InHand, InBuffers
<1>2. CASE Dequeue
  <2>1. /\ pc = "streaming" /\ pc' = "dequeued" /\ filled # <<>>
        /\ held' = Head(filled) /\ filled' = Tail(filled) /\ content' = content
    BY <1>2 DEF Dequeue
  <2>2. DeviceInv'
    BY <1>2, DequeueKeepsInv
  <2>3. /\ InBuffers \in Seq(Payloads) /\ Len(InBuffers) = Len(filled)
        /\ \A i \in 1 .. Len(filled) : InBuffers[i] = content[filled[i]]
    BY LinkTyped DEF LinkIsTyped
  <2>4. /\ InBuffers' \in Seq(Payloads) /\ Len(InBuffers') = Len(filled')
        /\ \A i \in 1 .. Len(filled') : InBuffers'[i] = content'[filled'[i]]
    <3>1. LinkIsTyped'
      BY <2>2, LinkTyped, PTL
    <3> QED
      BY <3>1 DEF LinkIsTyped
  <2>5. filled \in Seq(Buffers)
    BY DEF DeviceInv, DeviceTypeOK
  <2>6. /\ Len(filled) \in Nat /\ 1 <= Len(filled) /\ Head(filled) = filled[1]
        /\ Len(filled') = Len(filled) - 1
        /\ \A i \in 1 .. Len(filled') : filled'[i] = filled[i + 1]
    BY <2>1, <2>5, TakeFirst
  <2>7. InBuffers # <<>>
    BY <2>3, <2>6, EmptySeq
  <2>8. /\ Head(InBuffers) = InBuffers[1] /\ Tail(InBuffers) \in Seq(Payloads)
        /\ Len(Tail(InBuffers)) = Len(InBuffers) - 1
        /\ \A i \in 1 .. Len(Tail(InBuffers)) : Tail(InBuffers)[i] = InBuffers[i + 1]
    BY <2>3, <2>7, TakeFirst
  <2>9. InHand = <<>> /\ InHand' = <<Head(InBuffers)>>
    BY <2>1, <2>3, <2>6, <2>8 DEF InHand
  <2>10. InBuffers' = Tail(InBuffers)
    <3>1. Len(InBuffers') = Len(Tail(InBuffers))
      BY <2>3, <2>4, <2>6, <2>8
    <3>2. \A i \in 1 .. Len(filled') : i + 1 \in 1 .. Len(filled)
      BY <2>6
    <3>3. \A i \in 1 .. Len(filled') : InBuffers'[i] = content[filled[i + 1]]
      BY <2>1, <2>4, <2>6
    <3>4. \A i \in 1 .. Len(filled') : Tail(InBuffers)[i] = InBuffers[i + 1]
      BY <2>4, <2>8, <3>1
    <3>5. \A i \in 1 .. Len(InBuffers') : InBuffers'[i] = Tail(InBuffers)[i]
      BY <2>3, <2>4, <3>2, <3>3, <3>4
    <3> QED
      BY <2>4, <2>8, <3>1, <3>5, SeqEqual
  <2>11. <<Head(InBuffers)>> \o Tail(InBuffers) = InBuffers
    BY <2>3, <2>7, ConsOfHeadTail
  <2>12. OnTheWay = InBuffers
    BY <1>0, <2>3, <2>9, OnTheWayIs, ConcatEmptySeq
  <2> QED
    BY <1>1, <2>9, <2>10, <2>11, <2>12
<1>3. CASE Copy
  <2>1. /\ pc = "dequeued" /\ pc' = "copied" /\ payload' = content[held]
        /\ UNCHANGED <<filled, content>>
    BY <1>3 DEF Copy, driverVars
  <2>2. InHand' = InHand
    BY <2>1 DEF InHand
  <2>3. InBuffers' = InBuffers
    BY <2>1 DEF InBuffers
  <2> QED
    BY <1>0, <1>1, <2>2, <2>3, OnTheWayIs
<1> QED
  BY <1>2, <1>3

\* VIDIOC_QBUF is the end of the first payload's way, whether it works or not.
LEMMA RequeueTakesFirst ==
    ASSUME DeviceInv, Requeue \/ RequeueFails
    PROVE  /\ OnTheWay # <<>>
           /\ Head(OnTheWay) = payload
           /\ OnTheWay' = Tail(OnTheWay)
<1>1. /\ pc = "copied" /\ pc' = "streaming" /\ UNCHANGED <<filled, content>>
      /\ Streaming /\ Streaming'
  BY DEF Requeue, RequeueFails, driverVars, Streaming, ReadStages
<1>2. payload \in Payloads
  BY <1>1, UvcSessionAssumption DEF DeviceInv, HoldsFrames
<1>3. InBuffers \in Seq(Payloads)
  BY LinkTyped DEF LinkIsTyped
<1>4. OnTheWay = <<payload>> \o InBuffers
  BY <1>1, OnTheWayIs DEF InHand
<1>5. OnTheWay' = InBuffers
  <2>1. OnTheWay' = InHand' \o InBuffers'
    BY <1>1 DEF OnTheWay, InHand, InBuffers
  <2>2. InHand' = <<>> /\ InBuffers' = InBuffers
    BY <1>1 DEF InHand, InBuffers
  <2> QED
    BY <1>3, <2>1, <2>2, ConcatEmptySeq
<1> QED
  BY <1>2, <1>3, <1>4, <1>5, HeadTailOfCons

\* Nothing is on its way while the stream does not run.
EmptyWhenIdle == ~Streaming => OnTheWay = <<>>

\* By definition: what lies in the driver while nobody reads is on no way.
LEMMA NothingOnTheWay == EmptyWhenIdle
BY OnTheWayIs DEF EmptyWhenIdle

(***************************************************************************)
(* The steps of a session                                                  *)
(***************************************************************************)

\* What a step of the session is to the stream and to the payloads on their
\* way: nothing, the begin or the end of a session, a payload that the camera
\* sends, or one that the source takes.
LinkStutters ==
    /\ UNCHANGED <<OnTheWay, streamVars>>
    /\ DeviceIsOpen' = DeviceIsOpen
    /\ Streaming => Streaming'

LinkBegins ==
    /\ ~DeviceIsOpen /\ DeviceIsOpen' /\ OnTheWay = <<>> /\ OnTheWay' = <<>>
    /\ Cleared /\ BeginSession

LinkEnds ==
    /\ DeviceIsOpen /\ ~DeviceIsOpen' /\ OnTheWay' = <<>>
    /\ EndSession

LinkSends ==
    /\ Streaming /\ Streaming'
    /\ \E send \in Sends :
        /\ Sent(send)
        /\ \/ /\ Len(OnTheWay) < BufferCount
              /\ OnTheWay' = Append(OnTheWay, send.payload)
              /\ UNCHANGED lossy
           \/ Lost /\ UNCHANGED OnTheWay

LinkTakes ==
    /\ Streaming /\ Streaming'
    /\ OnTheWay # <<>> /\ Head(OnTheWay) \in Payloads /\ OnTheWay' = Tail(OnTheWay)
    /\ HandleParsedFrame(Head(OnTheWay)) \/ Loses

LinkStep == LinkStutters \/ LinkBegins \/ LinkEnds \/ LinkSends \/ LinkTakes

\* Every step of the session is one of these.
LEMMA StepOfLink ==
    ASSUME DeviceInv, StreamTypeOK, ClearedUntilStreaming, [Next]_sessionVars
    PROVE  LinkStep
<1>1. CASE UNCHANGED sessionVars
  <2>1. UNCHANGED <<pc, held, payload, filled, content>> /\ UNCHANGED streamVars
    BY <1>1 DEF sessionVars, deviceVars, driverVars, readVars
  <2>2. OnTheWay' = OnTheWay
    BY <2>1 DEF OnTheWay, Streaming
  <2>3. (Streaming => Streaming') /\ DeviceIsOpen' = DeviceIsOpen
    BY <2>1 DEF Streaming, DeviceIsOpen
  <2> QED
    BY <2>1, <2>2, <2>3 DEF LinkStep, LinkStutters
<1>2. CASE SourceOpens
  <2>1. pc = "closed" /\ pc' = "querying" /\ BeginSession
    BY <1>2 DEF SourceOpens, OpenCalled
  <2>2. ~Streaming /\ ~Streaming' /\ ~DeviceIsOpen /\ DeviceIsOpen'
    BY <2>1 DEF Streaming, DeviceIsOpen, ReadStages, OpenStages
  <2>3. OnTheWay = <<>> /\ OnTheWay' = <<>> /\ Cleared
    <3>1. OnTheWay = <<>> /\ Cleared
      BY <2>2, NothingOnTheWay DEF EmptyWhenIdle, ClearedUntilStreaming
    <3>2. OnTheWay' = <<>>
      BY <2>2 DEF OnTheWay
    <3> QED
      BY <3>1, <3>2
  <2> QED
    BY <2>1, <2>2, <2>3 DEF LinkStep, LinkBegins
<1>3. CASE OpenStep /\ UNCHANGED streamVars
  <2>1. pc \in OpenStages /\ pc' \in OpenStages \cup {"streaming"}
    BY <1>3 DEF OpenStep, Configure, RequestBuffers, MapBuffer, AllMapped, QueueBuffer, AllQueued,
       StartStream, OpenStages
  <2>2. ~Streaming /\ DeviceIsOpen' = DeviceIsOpen
    BY <2>1 DEF Streaming, DeviceIsOpen, ReadStages, OpenStages
  <2>3. OnTheWay = <<>>
    BY <2>2, NothingOnTheWay DEF EmptyWhenIdle
  <2>4. OnTheWay' = <<>>
    <3>1. CASE pc' = "streaming"
      <4>1. filled' = <<>>
        <5>1. UNCHANGED filled
          BY <1>3 DEF OpenStep, Configure, RequestBuffers, MapBuffer, AllMapped, QueueBuffer,
             AllQueued, StartStream, driverVars
        <5> QED
          BY <2>1, <5>1 DEF DeviceInv, OpenInOrder
      <4>2. DeviceInv'
        BY <1>3, InvPreserved DEF DeviceNext
      <4>3. LinkIsTyped'
        BY <4>2, LinkTyped, PTL
      <4>4. InHand' = <<>>
        BY <3>1 DEF InHand
      <4>5. InBuffers' = <<>>
        <5>1. InBuffers' \in Seq(Payloads) /\ Len(InBuffers') = 0
          BY <4>1, <4>3, EmptySeq DEF LinkIsTyped
        <5> QED
          BY <5>1, EmptySeq
      <4>6. OnTheWay' = InHand' \o InBuffers'
        BY <3>1 DEF OnTheWay, InHand, InBuffers, Streaming, ReadStages
      <4> QED
        BY <4>4, <4>5, <4>6, EmptySeq, ConcatEmptySeq
    <3>2. CASE pc' # "streaming"
      <4>1. ~Streaming'
        BY <2>1, <3>2 DEF Streaming, ReadStages, OpenStages
      <4> QED
        BY <4>1 DEF OnTheWay
    <3> QED
      BY <3>1, <3>2
  <2> QED
    BY <1>3, <2>2, <2>3, <2>4 DEF LinkStep, LinkStutters
<1>4. CASE OpenFails /\ UNCHANGED streamVars
  <2>1. pc \in OpenStages /\ pc' = "stopping"
    BY <1>4 DEF OpenFails
  <2>2. ~Streaming /\ ~Streaming' /\ DeviceIsOpen /\ ~DeviceIsOpen'
    BY <2>1 DEF Streaming, DeviceIsOpen, ReadStages, OpenStages
  <2>3. EndSession
    BY <1>4, <2>2 DEF Cleared, ClearedUntilStreaming, EndSession, streamVars, cameraVars, clockVars,
       pairVars
  <2>4. OnTheWay' = <<>>
    BY <2>2 DEF OnTheWay
  <2> QED
    BY <2>2, <2>3, <2>4 DEF LinkStep, LinkEnds
<1>5. CASE SourceCloses
  <2>1. pc = "streaming" /\ pc' = "stopping" /\ EndSession
    BY <1>5 DEF SourceCloses, CloseCalled
  <2>2. ~Streaming' /\ DeviceIsOpen /\ ~DeviceIsOpen'
    BY <2>1 DEF Streaming, DeviceIsOpen, ReadStages, OpenStages
  <2>3. OnTheWay' = <<>>
    BY <2>2 DEF OnTheWay
  <2> QED
    BY <2>1, <2>2, <2>3 DEF LinkStep, LinkEnds
<1>6. CASE DeviceCloses
  <2>1. UNCHANGED streamVars /\ pc \in CloseStages /\ pc' \in CloseStages \cup {"closed"}
    BY <1>6 DEF DeviceCloses, CloseStep, StopStream, UnmapBuffer, CloseDescriptor, ClearFields,
       CloseStages
  <2>2. ~Streaming /\ ~Streaming' /\ ~DeviceIsOpen /\ ~DeviceIsOpen'
    BY <2>1 DEF Streaming, DeviceIsOpen, ReadStages, OpenStages, CloseStages
  <2>3. OnTheWay = <<>> /\ OnTheWay' = <<>>
    BY <2>2 DEF OnTheWay
  <2>4. DeviceIsOpen' = DeviceIsOpen
    BY <2>2 DEF DeviceIsOpen
  <2> QED
    BY <2>1, <2>2, <2>3, <2>4 DEF LinkStep, LinkStutters
<1>7. CASE CameraSends
  <2>1. PICK send \in Sends : /\ SensorFrame(send.payload) /\ Sent(send)
                             /\ IF queued = <<>> THEN Lost ELSE UNCHANGED lossy
    BY <1>7 DEF CameraSends
  <2>2. send.payload \in Payloads
    BY <2>1, SendsTyped DEF Sent
  <2>3. Streaming /\ UNCHANGED <<pc, held, payload>>
    BY <2>1 DEF SensorFrame, readVars
  <2>4. Streaming'
    BY <2>3 DEF Streaming
  <2>5. CASE queued = <<>>
    <3>1. UNCHANGED <<filled, content>>
      BY <2>1, <2>5 DEF SensorFrame
    <3>2. OnTheWay' = OnTheWay
      BY <2>3, <2>4, <3>1 DEF OnTheWay
    <3> QED
      BY <2>1, <2>3, <2>4, <2>5, <3>2 DEF LinkStep, LinkSends
  <2>6. CASE queued # <<>>
    <3>1. OnTheWay' = Append(OnTheWay, send.payload) /\ Len(OnTheWay) < BufferCount
      BY <2>1, <2>2, <2>6, SensorFrameAppends
    <3> QED
      BY <2>1, <2>3, <2>4, <2>6, <3>1 DEF LinkStep, LinkSends
  <2> QED
    BY <2>5, <2>6
<1>8. CASE ReadFrameBegins
  <2>1. OnTheWay' = OnTheWay
    BY <1>8, ReadFrameKeepsLink DEF ReadFrameBegins
  <2>2. UNCHANGED streamVars /\ DeviceIsOpen' = DeviceIsOpen /\ Streaming'
    BY <1>8 DEF ReadFrameBegins, Dequeue, Copy, Streaming, DeviceIsOpen, ReadStages
  <2> QED
    BY <2>1, <2>2 DEF LinkStep, LinkStutters
<1>9. CASE PollHandles \/ PollFails
  <2>1. Requeue \/ RequeueFails
    BY <1>9 DEF PollHandles, PollFails
  <2>2. /\ OnTheWay # <<>> /\ Head(OnTheWay) = payload /\ OnTheWay' = Tail(OnTheWay)
    BY <2>1, RequeueTakesFirst
  <2>3. HandleParsedFrame(payload) \/ Loses
    BY <1>9 DEF PollHandles, PollFails
  <2>4. pc = "copied" /\ Streaming /\ Streaming'
    BY <2>1 DEF Requeue, RequeueFails, Streaming, ReadStages
  <2>5. payload \in Payloads
    BY <2>4, UvcSessionAssumption DEF DeviceInv, HoldsFrames
  <2> QED
    BY <2>2, <2>3, <2>4, <2>5 DEF LinkStep, LinkTakes
<1> QED
  BY <1>1, <1>2, <1>3, <1>4, <1>5, <1>6, <1>7, <1>8, <1>9 DEF Next, DeviceOpens

\* And it is a step of the device.
LEMMA StepOfDevice ==
    ASSUME StreamTypeOK, [Next]_sessionVars
    PROVE  [DeviceNext]_deviceVars
<1>1. CASE CameraSends
  <2>1. PICK send \in Sends : SensorFrame(send.payload) /\ Sent(send)
    BY <1>1 DEF CameraSends
  <2>2. send.payload \in Frames
    BY <2>1, SendsTyped, UvcSessionAssumption DEF Sent
  <2> QED
    BY <2>1, <2>2 DEF DeviceNext
<1>2. CASE UNCHANGED sessionVars
  BY <1>2 DEF sessionVars
<1> QED
  BY <1>1, <1>2 DEF Next, SourceOpens, DeviceOpens, SourceCloses, DeviceCloses, ReadFrameBegins,
     PollHandles, PollFails, DeviceNext

(***************************************************************************)
(* What HandleParsedFrame does with a payload                              *)
(***************************************************************************)

Stamped == lastTimestampUs' \in Nat /\ lastTimestampUs < lastTimestampUs'

\* An info payload is an event of its own.
InfoHandled(p) ==
    /\ p.type = "Info"
    /\ UNCHANGED <<lastTimestampUs, pendingPointCloud, parsedClouds>>
    /\ emitted' = Append(emitted, InfoEvent)

\* A measurement that nothing waits for, or that waits for nothing.
AloneHandled(p) ==
    /\ Stamped
    /\ p.type # "Info" /\ (Mixed => p.type = "Depth")
    /\ pendingPointCloud = NoEvent /\ pendingPointCloud' = NoEvent
    /\ emitted' = Append(emitted, StampedEvent(p))
    /\ parsedClouds' = IF p.type = "PointCloud" THEN Append(parsedClouds, p.capture)
                       ELSE parsedClouds

\* A point cloud that waits from now on, and pushes out the one that did.
CloudHandled(p) ==
    /\ Stamped
    /\ Mixed /\ p.type = "PointCloud"
    /\ pendingPointCloud' = StampedEvent(p)
    /\ emitted' = IF pendingPointCloud = NoEvent THEN emitted
                  ELSE Append(emitted, pendingPointCloud)
    /\ parsedClouds' = Append(parsedClouds, p.capture)

\* A depth grid that a point cloud waited for.
DepthJoined(p) ==
    /\ Mixed /\ p.type = "Depth"
    /\ pendingPointCloud # NoEvent /\ pendingPointCloud' = NoEvent
    /\ emitted' = Append(emitted, [pendingPointCloud EXCEPT !.depth = p.capture])
    /\ UNCHANGED <<lastTimestampUs, parsedClouds>>

\* There is no other case.
LEMMA HandleCases ==
    ASSUME StreamTypeOK, ClockSettled, CloudWaits, ReadyQueueDrained,
           NEW p \in Payloads, HandleParsedFrame(p)
    PROVE  /\ UNCHANGED <<profile, firstRawMs, capture, unsent, lossy>>
           /\ ReadyQueueDrained'
           /\ normalizer' \in Normalizers /\ ClockSettled'
           /\ InfoHandled(p) \/ AloneHandled(p) \/ CloudHandled(p) \/ DepthJoined(p)
<1>1. UNCHANGED <<profile, firstRawMs, capture, unsent, lossy>>
  BY DEF HandleParsedFrame, cameraVars
<1>2. normalizer \in Normalizers
  BY DEF StreamTypeOK
<1>3. ASSUME NEW nowUs \in HostTimes, PassOn(p, nowUs)
      PROVE  /\ ReadyQueueDrained' /\ normalizer' \in Normalizers /\ ClockSettled'
             /\ InfoHandled(p) \/ AloneHandled(p)
  <2>1. UNCHANGED <<readyEvents, pendingPointCloud>>
    BY <1>3 DEF PassOn
  <2>2. CASE p.type = "Info"
    <3>1. UNCHANGED <<normalizer, lastTimestampUs>> /\ emitted' = Append(emitted, InfoEvent)
      BY <1>3, <2>2 DEF PassOn, clockVars, Emit
    <3>2. parsedClouds' = parsedClouds
      BY <1>3, <2>2 DEF PassOn
    <3> QED
      BY <1>2, <2>1, <2>2, <3>1, <3>2 DEF InfoHandled, ReadyQueueDrained, ClockSettled
  <2>3. CASE p.type # "Info"
    <3>1. ~Mixed /\ Stamp(p, nowUs) /\ emitted' = Append(emitted, StampedEvent(p))
      BY <1>3, <2>3 DEF PassOn, Emit
    <3>2. pendingPointCloud = NoEvent
      BY <3>1 DEF CloudWaits
    <3>3. parsedClouds' = IF p.type = "PointCloud" THEN Append(parsedClouds, p.capture)
                         ELSE parsedClouds
      BY <1>3 DEF PassOn
    <3>4. normalizer' \in Normalizers /\ ClockSettled' /\ Stamped
      BY <3>1, StampResult DEF Stamped
    <3> QED
      BY <2>1, <2>3, <3>1, <3>2, <3>3, <3>4 DEF AloneHandled, ReadyQueueDrained
  <2> QED
    BY <2>2, <2>3
<1>4. ASSUME NEW nowUs \in HostTimes, HoldPointCloud(p, nowUs)
      PROVE  /\ ReadyQueueDrained' /\ normalizer' \in Normalizers /\ ClockSettled'
             /\ CloudHandled(p)
  <2>1. /\ Mixed /\ p.type = "PointCloud" /\ Stamp(p, nowUs)
        /\ pendingPointCloud' = StampedEvent(p)
        /\ parsedClouds' = Append(parsedClouds, p.capture)
    BY <1>4 DEF HoldPointCloud
  <2>2. normalizer' \in Normalizers /\ ClockSettled' /\ Stamped
    BY <2>1, StampResult DEF Stamped
  <2>3. /\ readyEvents' = <<>>
        /\ emitted' = IF pendingPointCloud = NoEvent THEN emitted
                      ELSE Append(emitted, pendingPointCloud)
    BY <1>4, HoldPointCloudResult
  <2> QED
    BY <2>1, <2>2, <2>3 DEF CloudHandled, ReadyQueueDrained
<1>5. ASSUME NEW nowUs \in HostTimes, DepthAlone(p, nowUs)
      PROVE  /\ ReadyQueueDrained' /\ normalizer' \in Normalizers /\ ClockSettled'
             /\ AloneHandled(p)
  <2>1. /\ p.type = "Depth" /\ pendingPointCloud = NoEvent /\ Stamp(p, nowUs)
        /\ emitted' = Append(emitted, StampedEvent(p))
        /\ UNCHANGED <<readyEvents, pendingPointCloud, parsedClouds>>
    BY <1>5 DEF DepthAlone, Emit, pairVars
  <2>2. normalizer' \in Normalizers /\ ClockSettled' /\ Stamped
    BY <2>1, StampResult DEF Stamped
  <2> QED
    BY <2>1, <2>2 DEF AloneHandled, ReadyQueueDrained
<1>6. ASSUME Combine(p)
      PROVE  /\ ReadyQueueDrained' /\ normalizer' \in Normalizers /\ ClockSettled'
             /\ DepthJoined(p)
  BY <1>2, <1>6 DEF Combine, Emit, clockVars, DepthJoined, ReadyQueueDrained, ClockSettled
<1> QED
  BY <1>1, <1>3, <1>4, <1>5, <1>6 DEF HandleParsedFrame

\* An event that has its depth grid filled in is otherwise the same.
LEMMA JoinedEvent ==
    ASSUME NEW e \in Events, NEW c \in Captures
    PROVE  /\ [e EXCEPT !.depth = c] \in Events
           /\ [e EXCEPT !.depth = c].type = e.type
           /\ [e EXCEPT !.depth = c].cloud = e.cloud
           /\ [e EXCEPT !.depth = c].depth = c
           /\ [e EXCEPT !.depth = c].timeUs = e.timeUs
BY DEF Events

\* The handler keeps the types and lets a point cloud wait only where it may.
LEMMA HandleKeepsTypes ==
    ASSUME StreamTypeOK, CloudWaits, NEW p \in Payloads, profile' = profile,
           InfoHandled(p) \/ AloneHandled(p) \/ CloudHandled(p) \/ DepthJoined(p)
    PROVE  /\ lastTimestampUs' \in Nat /\ pendingPointCloud' \in Events
           /\ emitted' \in Seq(Events) /\ parsedClouds' \in Seq(Captures)
           /\ CloudWaits'
<1>1. /\ lastTimestampUs \in Nat /\ pendingPointCloud \in Events
      /\ emitted \in Seq(Events) /\ parsedClouds \in Seq(Captures)
  BY DEF StreamTypeOK
<1>2. \A e \in Events : Append(emitted, e) \in Seq(Events)
  BY <1>1, AppendProperties
<1>3. p.capture \in Captures /\ NoCapture \notin Captures
  BY DEF Payloads, Captures, NoCapture
<1>4. Append(parsedClouds, p.capture) \in Seq(Captures)
  BY <1>1, <1>3, AppendProperties
<1>5. CASE InfoHandled(p)
  <2>1. UNCHANGED <<lastTimestampUs, pendingPointCloud, parsedClouds>>
        /\ emitted' = Append(emitted, InfoEvent)
    BY <1>5 DEF InfoHandled
  <2>2. CloudWaits'
    BY <2>1 DEF CloudWaits, Mixed
  <2> QED
    BY <1>1, <1>2, <2>1, <2>2, QuietEvents
<1>6. CASE AloneHandled(p)
  <2>1. /\ lastTimestampUs' \in Nat /\ pendingPointCloud' = NoEvent
        /\ emitted' = Append(emitted, StampedEvent(p))
        /\ parsedClouds' \in {parsedClouds, Append(parsedClouds, p.capture)}
    BY <1>6 DEF AloneHandled, Stamped
  <2>2. StampedEvent(p) \in Events
    BY <2>1, StampedEventResult
  <2>3. CloudWaits'
    BY <2>1 DEF CloudWaits
  <2> QED
    BY <1>1, <1>2, <1>4, <2>1, <2>2, <2>3, QuietEvents
<1>7. CASE CloudHandled(p)
  <2>1. /\ lastTimestampUs' \in Nat /\ pendingPointCloud' = StampedEvent(p)
        /\ emitted' \in {emitted, Append(emitted, pendingPointCloud)}
        /\ parsedClouds' = Append(parsedClouds, p.capture)
        /\ Mixed /\ p.type = "PointCloud"
    BY <1>7 DEF CloudHandled, Stamped
  <2>2. /\ StampedEvent(p) \in Events /\ IsMeasurement(StampedEvent(p))
        /\ StampedEvent(p).cloud = p.capture
    BY <2>1, StampedEventResult
  <2>3. CloudWaits'
    BY <1>3, <2>1, <2>2 DEF CloudWaits, Mixed, IsMeasurement
  <2> QED
    BY <1>1, <1>2, <1>4, <2>1, <2>2, <2>3
<1>8. CASE DepthJoined(p)
  <2>1. /\ UNCHANGED <<lastTimestampUs, parsedClouds>> /\ pendingPointCloud' = NoEvent
        /\ emitted' = Append(emitted, [pendingPointCloud EXCEPT !.depth = p.capture])
    BY <1>8 DEF DepthJoined
  <2>2. [pendingPointCloud EXCEPT !.depth = p.capture] \in Events
    BY <1>1, <1>3, JoinedEvent
  <2>3. CloudWaits'
    BY <2>1 DEF CloudWaits
  <2> QED
    BY <1>1, <1>2, <2>1, <2>2, <2>3, QuietEvents
<1> QED
  BY <1>5, <1>6, <1>7, <1>8

(***************************************************************************)
(* The invariant of a session                                              *)
(***************************************************************************)

\* A stream that was cleared is well formed.
ClearedTyped ==
    Cleared /\ profile \in Profiles /\ firstRawMs \in RawMs =>
        StreamTypeOK /\ ReadyQueueDrained /\ ClockSettled /\ CloudWaits

\* That is so in every state.
LEMMA ClearedIsTyped == ClearedTyped
<1> SUFFICES ASSUME Cleared, profile \in Profiles, firstRawMs \in RawMs
             PROVE  StreamTypeOK /\ ReadyQueueDrained /\ ClockSettled /\ CloudWaits
  BY DEF ClearedTyped
<1>1. /\ readyEvents = <<>> /\ pendingPointCloud = NoEvent
      /\ normalizer = NormalizerAfterReset(0) /\ lastTimestampUs = 0
      /\ capture = 0 /\ unsent = <<>> /\ lossy = FALSE
      /\ parsedClouds = <<>> /\ emitted = <<>>
  BY DEF Cleared
<1>2. normalizer \in Normalizers /\ ~normalizer.initialized
  BY <1>1, ResetResult
<1>3. \A S : <<>> \in Seq(S)
  BY EmptySeq
<1>4. capture \in 0 .. CaptureLimit
  BY <1>1, SessionConstants
<1>5. StreamTypeOK
  BY <1>1, <1>2, <1>3, <1>4, QuietEvents DEF StreamTypeOK
<1> QED
  BY <1>1, <1>2, <1>5 DEF ReadyQueueDrained, ClockSettled, CloudWaits

\* A session that has not begun satisfies the invariant.
LEMMA SessionInvInitially == Init => SessionInv
<1> SUFFICES ASSUME Init PROVE SessionInv
  OBVIOUS
<1>1. DeviceInv
  BY InvInitially DEF Init
<1>2. Cleared /\ profile \in Profiles /\ firstRawMs \in RawMs
  BY SessionConstants DEF Init, StreamInit, Cleared
<1>3. StreamTypeOK /\ ReadyQueueDrained /\ ClockSettled /\ CloudWaits
  BY <1>2, ClearedIsTyped DEF ClearedTyped
<1> QED
  BY <1>1, <1>2, <1>3 DEF SessionInv, ClearedUntilStreaming

\* Every step keeps it.
LEMMA SessionInvPreserved == SessionInv /\ [Next]_sessionVars => SessionInv'
<1> SUFFICES ASSUME SessionInv, [Next]_sessionVars PROVE SessionInv'
  OBVIOUS
<1>1. /\ DeviceInv /\ StreamTypeOK /\ ClearedUntilStreaming
      /\ ReadyQueueDrained /\ ClockSettled /\ CloudWaits
  BY DEF SessionInv
<1>2. DeviceInv'
  BY <1>1, StepOfDevice, InvPreserved
<1>3. LinkStep
  BY <1>1, StepOfLink
<1>4. /\ profile \in Profiles /\ firstRawMs \in RawMs /\ capture \in 0 .. CaptureLimit
      /\ unsent \in Seq(Payloads) /\ lossy \in BOOLEAN /\ normalizer \in Normalizers
      /\ lastTimestampUs \in Nat /\ readyEvents \in Seq(Events)
      /\ pendingPointCloud \in Events /\ parsedClouds \in Seq(Captures)
      /\ emitted \in Seq(Events)
  BY <1>1 DEF StreamTypeOK
<1>5. CASE LinkStutters
  <2>1. /\ UNCHANGED <<profile, firstRawMs, capture, unsent, lossy, normalizer,
                       lastTimestampUs, readyEvents, pendingPointCloud, parsedClouds, emitted>>
        /\ Streaming => Streaming'
    BY <1>5 DEF LinkStutters, streamVars, cameraVars, clockVars, pairVars
  <2>2. StreamTypeOK'
    BY <1>4, <2>1 DEF StreamTypeOK
  <2>3. ClearedUntilStreaming'
    <3>1. Cleared => Cleared'
      BY <2>1 DEF Cleared
    <3> QED
      BY <1>1, <2>1, <3>1 DEF ClearedUntilStreaming
  <2>4. ReadyQueueDrained' /\ ClockSettled' /\ CloudWaits'
    BY <1>1, <2>1 DEF ReadyQueueDrained, ClockSettled, CloudWaits, Mixed
  <2> QED
    BY <1>2, <2>2, <2>3, <2>4 DEF SessionInv
<1>6. CASE LinkBegins \/ LinkEnds
  <2>1. Cleared' /\ profile' \in Profiles /\ firstRawMs' \in RawMs
    <3>1. CASE LinkBegins
      BY <3>1, SessionConstants DEF LinkBegins, BeginSession, Cleared, pairVars
    <3>2. CASE LinkEnds
      BY <1>4, <3>2 DEF LinkEnds, EndSession, Cleared
    <3> QED
      BY <1>6, <3>1, <3>2
  <2>2. ClearedTyped'
    BY ClearedIsTyped, PTL
  <2> QED
    BY <1>2, <2>1, <2>2 DEF SessionInv, ClearedTyped, ClearedUntilStreaming
<1>7. CASE LinkSends
  <2>1. PICK send \in Sends : Sent(send) /\ (lossy' = lossy \/ lossy' = TRUE)
    BY <1>7 DEF LinkSends, Lost
  <2>2. /\ UNCHANGED <<profile, firstRawMs, normalizer, lastTimestampUs,
                       readyEvents, pendingPointCloud, parsedClouds, emitted>>
        /\ capture' = send.capture /\ unsent' = send.unsent /\ send.capture <= CaptureLimit
    BY <2>1 DEF Sent, clockVars, pairVars
  <2>3. unsent' \in Seq(Payloads) /\ capture' \in 0 .. CaptureLimit
    BY <1>1, <2>2, SendsTyped
  <2>4. StreamTypeOK'
    BY <1>4, <2>1, <2>2, <2>3 DEF StreamTypeOK
  <2>5. ReadyQueueDrained' /\ ClockSettled' /\ CloudWaits'
    BY <1>1, <2>2 DEF ReadyQueueDrained, ClockSettled, CloudWaits, Mixed
  <2> QED
    BY <1>2, <1>7, <2>4, <2>5 DEF LinkSends, SessionInv, ClearedUntilStreaming
<1>8. CASE LinkTakes /\ HandleParsedFrame(Head(OnTheWay))
  <2> DEFINE p == Head(OnTheWay)
  <2>1. p \in Payloads /\ Streaming'
    BY <1>8 DEF LinkTakes
  <2>2. HandleParsedFrame(p)
    BY <1>8
  <2> HIDE DEF p
  <2>3. /\ UNCHANGED <<profile, firstRawMs, capture, unsent, lossy>>
        /\ ReadyQueueDrained' /\ normalizer' \in Normalizers /\ ClockSettled'
        /\ InfoHandled(p) \/ AloneHandled(p) \/ CloudHandled(p) \/ DepthJoined(p)
    BY <1>1, <2>1, <2>2, HandleCases
  <2>4. /\ lastTimestampUs' \in Nat /\ pendingPointCloud' \in Events
        /\ emitted' \in Seq(Events) /\ parsedClouds' \in Seq(Captures)
        /\ CloudWaits'
    BY <1>1, <2>1, <2>3, HandleKeepsTypes
  <2>5. readyEvents' \in Seq(Events)
    BY <2>3, EmptySeq DEF ReadyQueueDrained
  <2>6. StreamTypeOK'
    BY <1>4, <2>3, <2>4, <2>5 DEF StreamTypeOK
  <2> QED
    BY <1>2, <2>1, <2>3, <2>4, <2>6 DEF SessionInv, ClearedUntilStreaming
<1>9. CASE LinkTakes /\ Loses
  <2>1. /\ UNCHANGED <<profile, firstRawMs, capture, unsent, normalizer, lastTimestampUs,
                       readyEvents, pendingPointCloud, parsedClouds, emitted>>
        /\ lossy' = TRUE /\ Streaming'
    BY <1>9 DEF Loses, Lost, LinkTakes, cameraVars, clockVars, pairVars
  <2>2. StreamTypeOK'
    BY <1>4, <2>1 DEF StreamTypeOK
  <2>3. ReadyQueueDrained' /\ ClockSettled' /\ CloudWaits'
    BY <1>1, <2>1 DEF ReadyQueueDrained, ClockSettled, CloudWaits, Mixed
  <2> QED
    BY <1>2, <2>1, <2>2, <2>3 DEF SessionInv, ClearedUntilStreaming
<1> QED
  BY <1>3, <1>5, <1>6, <1>7, <1>8, <1>9 DEF LinkStep, LinkTakes

\* So it always holds.
LEMMA SessionInvHolds == Spec => []SessionInv
<1>1. Init => SessionInv
  BY SessionInvInitially
<1>2. SessionInv /\ [Next]_sessionVars => SessionInv'
  BY SessionInvPreserved
<1> QED
  BY <1>1, <1>2, PTL DEF Spec

\* NothingLeaks holds in the composed system too, whatever the camera sends and
\* whichever payload the source handles or loses.
THEOREM SessionLeaksNothing == Spec => []NothingLeaks
<1>1. SessionInv => NothingLeaks
  BY DEF SessionInv, DeviceInv, GivenBack, NothingLeaks
<1> QED
  BY <1>1, SessionInvHolds, PTL

\* And so does BuffersConserved.
THEOREM SessionConservesBuffers == Spec => []BuffersConserved
<1>1. SessionInv => BuffersConserved
  BY InvImpliesConserved DEF SessionInv
<1> QED
  BY <1>1, SessionInvHolds, PTL

\* ReadyQueueDrained: what a Poll puts into the ready queue it takes out again,
\* so that the branch of Poll that starts with a filled queue is never taken.
THEOREM ReadyQueueIsDrained == Spec => []ReadyQueueDrained
<1>1. SessionInv => ReadyQueueDrained
  BY DEF SessionInv
<1> QED
  BY <1>1, SessionInvHolds, PTL

(***************************************************************************)
(* The invariants about what the caller gets                               *)
(***************************************************************************)

\* Measurements are in the order of their timestamps, which do not lead the
\* newest stamp; the cloud that waits was stamped after all that were told.
TimesInv ==
    /\ \A i \in 1 .. Len(emitted) :
          IsMeasurement(emitted[i]) =>
             /\ emitted[i].timeUs <= lastTimestampUs
             /\ pendingPointCloud # NoEvent => emitted[i].timeUs < pendingPointCloud.timeUs
    /\ pendingPointCloud.timeUs <= lastTimestampUs
    /\ \A i, j \in 1 .. Len(emitted) :
          i < j /\ IsMeasurement(emitted[i]) /\ IsMeasurement(emitted[j])
             => emitted[i].timeUs < emitted[j].timeUs

\* Appending to the events that were told what is later than all of them.
LEMMA AppendLater ==
    ASSUME NEW s \in Seq(Events), NEW e \in Events,
           \A i, j \in 1 .. Len(s) :
              i < j /\ IsMeasurement(s[i]) /\ IsMeasurement(s[j]) => s[i].timeUs < s[j].timeUs,
           IsMeasurement(e) =>
              \A i \in 1 .. Len(s) : IsMeasurement(s[i]) => s[i].timeUs < e.timeUs
    PROVE  \A i, j \in 1 .. Len(Append(s, e)) :
              i < j /\ IsMeasurement(Append(s, e)[i]) /\ IsMeasurement(Append(s, e)[j])
                 => Append(s, e)[i].timeUs < Append(s, e)[j].timeUs
<1> DEFINE t == Append(s, e)
<1>1. /\ Len(s) \in Nat /\ Len(t) = Len(s) + 1
      /\ \A i \in 1 .. Len(s) : t[i] = s[i]
      /\ t[Len(s) + 1] = e
  BY PutLast
<1> HIDE DEF t
<1>2. SUFFICES ASSUME NEW i \in 1 .. Len(t), NEW j \in 1 .. Len(t), i < j,
                      IsMeasurement(t[i]), IsMeasurement(t[j])
               PROVE  t[i].timeUs < t[j].timeUs
  BY DEF t
<1>3. i \in 1 .. Len(s) /\ t[i] = s[i]
  BY <1>1, <1>2
<1>4. CASE j \in 1 .. Len(s)
  BY <1>1, <1>2, <1>3, <1>4
<1>5. CASE j = Len(s) + 1
  BY <1>1, <1>2, <1>3, <1>5
<1> QED
  BY <1>1, <1>4, <1>5

\* No event and info have the time 0.
LEMMA NoEventTime == NoEvent.timeUs = 0 /\ NoEvent.cloud = NoCapture
BY DEF NoEvent

\* The handler keeps the events in order.
LEMMA HandleKeepsTimes ==
    ASSUME StreamTypeOK, CloudWaits, TimesInv, NEW p \in Payloads, profile' = profile,
           InfoHandled(p) \/ AloneHandled(p) \/ CloudHandled(p) \/ DepthJoined(p)
    PROVE  TimesInv'
<1>1. /\ lastTimestampUs \in Nat /\ pendingPointCloud \in Events /\ emitted \in Seq(Events)
      /\ Len(emitted) \in Nat /\ p.capture \in Captures
  BY LenProperties DEF StreamTypeOK, Payloads
<1>2. \A i \in 1 .. Len(emitted) : emitted[i].timeUs \in Nat
  <2>1. \A i \in 1 .. Len(emitted) : emitted[i] \in Events
    BY <1>1, ElementOfSeq
  <2> QED
    BY <2>1 DEF Events
<1>3. pendingPointCloud.timeUs \in Nat
  BY <1>1 DEF Events
<1>4. /\ \A i \in 1 .. Len(emitted) :
            IsMeasurement(emitted[i]) =>
               /\ emitted[i].timeUs <= lastTimestampUs
               /\ pendingPointCloud # NoEvent => emitted[i].timeUs < pendingPointCloud.timeUs
      /\ pendingPointCloud.timeUs <= lastTimestampUs
      /\ \A i, j \in 1 .. Len(emitted) :
            i < j /\ IsMeasurement(emitted[i]) /\ IsMeasurement(emitted[j])
               => emitted[i].timeUs < emitted[j].timeUs
  BY DEF TimesInv
<1>5. ASSUME NEW e \in Events, emitted' = Append(emitted, e),
             IsMeasurement(e) =>
                \A i \in 1 .. Len(emitted) :
                   IsMeasurement(emitted[i]) => emitted[i].timeUs < e.timeUs,
             lastTimestampUs' \in Nat, lastTimestampUs <= lastTimestampUs',
             IsMeasurement(e) => e.timeUs <= lastTimestampUs',
             pendingPointCloud' \in Events,
             pendingPointCloud'.timeUs <= lastTimestampUs',
             pendingPointCloud' # NoEvent =>
                /\ \A i \in 1 .. Len(emitted) :
                      IsMeasurement(emitted[i]) => emitted[i].timeUs < pendingPointCloud'.timeUs
                /\ IsMeasurement(e) => e.timeUs < pendingPointCloud'.timeUs
      PROVE  TimesInv'
  <2>1. /\ Len(emitted') = Len(emitted) + 1
        /\ \A i \in 1 .. Len(emitted) : emitted'[i] = emitted[i]
        /\ emitted'[Len(emitted) + 1] = e
    BY <1>1, <1>5, PutLast
  <2>2. \A i, j \in 1 .. Len(emitted') :
            i < j /\ IsMeasurement(emitted'[i]) /\ IsMeasurement(emitted'[j])
               => emitted'[i].timeUs < emitted'[j].timeUs
    BY <1>1, <1>4, <1>5, AppendLater
  <2>3. ASSUME NEW i \in 1 .. Len(emitted'), IsMeasurement(emitted'[i])
        PROVE  /\ emitted'[i].timeUs <= lastTimestampUs'
               /\ pendingPointCloud' # NoEvent => emitted'[i].timeUs < pendingPointCloud'.timeUs
    <3>1. CASE i \in 1 .. Len(emitted)
      <4>1. emitted'[i] = emitted[i] /\ emitted[i].timeUs \in Nat /\ IsMeasurement(emitted[i])
        BY <1>2, <2>1, <2>3, <3>1
      <4>2. emitted[i].timeUs <= lastTimestampUs
        BY <1>4, <3>1, <4>1
      <4>3. emitted[i].timeUs <= lastTimestampUs'
        BY <1>1, <1>5, <4>1, <4>2
      <4> QED
        BY <1>5, <3>1, <4>1, <4>3
    <3>2. CASE i = Len(emitted) + 1
      BY <1>5, <2>1, <2>3, <3>2
    <3> QED
      BY <1>1, <2>1, <3>1, <3>2
  <2> QED
    BY <1>5, <2>2, <2>3 DEF TimesInv, IsMeasurement
<1>6. CASE InfoHandled(p)
  <2>1. /\ UNCHANGED <<lastTimestampUs, pendingPointCloud>>
        /\ emitted' = Append(emitted, InfoEvent)
    BY <1>6 DEF InfoHandled
  <2> QED
    BY <1>1, <1>4, <1>5, <2>1, QuietEvents
<1>7. CASE AloneHandled(p)
  <2>1. /\ lastTimestampUs' \in Nat /\ lastTimestampUs < lastTimestampUs'
        /\ pendingPointCloud' = NoEvent
        /\ emitted' = Append(emitted, StampedEvent(p))
    BY <1>7 DEF AloneHandled, Stamped
  <2>2. StampedEvent(p) \in Events /\ StampedEvent(p).timeUs = lastTimestampUs'
    BY <2>1, StampedEventResult
  <2>3. \A i \in 1 .. Len(emitted) :
           IsMeasurement(emitted[i]) => emitted[i].timeUs < lastTimestampUs'
    BY <1>1, <1>2, <1>4, <2>1
  <2>4. pendingPointCloud'.timeUs <= lastTimestampUs' /\ pendingPointCloud' \in Events
    BY <2>1, NoEventTime, QuietEvents
  <2> QED
    BY <1>1, <1>5, <2>1, <2>2, <2>3, <2>4
<1>8. CASE CloudHandled(p)
  <2>1. /\ lastTimestampUs' \in Nat /\ lastTimestampUs < lastTimestampUs'
        /\ pendingPointCloud' = StampedEvent(p)
        /\ emitted' = IF pendingPointCloud = NoEvent THEN emitted
                      ELSE Append(emitted, pendingPointCloud)
    BY <1>8 DEF CloudHandled, Stamped
  <2>2. StampedEvent(p) \in Events /\ StampedEvent(p).timeUs = lastTimestampUs'
    BY <2>1, StampedEventResult
  <2>3. \A i \in 1 .. Len(emitted) :
           IsMeasurement(emitted[i]) => emitted[i].timeUs < lastTimestampUs'
    BY <1>1, <1>2, <1>4, <2>1
  <2>4. /\ pendingPointCloud' \in Events /\ pendingPointCloud'.timeUs = lastTimestampUs'
        /\ pendingPointCloud'.timeUs <= lastTimestampUs'
        /\ pendingPointCloud.timeUs < pendingPointCloud'.timeUs
        /\ pendingPointCloud.timeUs <= lastTimestampUs'
    BY <1>1, <1>3, <1>4, <2>1, <2>2
  <2>5. CASE pendingPointCloud = NoEvent
    <3>1. emitted' = emitted
      BY <2>1, <2>5
    <3>2. \A i \in 1 .. Len(emitted) :
             IsMeasurement(emitted[i]) => emitted[i].timeUs <= lastTimestampUs'
      BY <1>2, <2>1, <2>3
    <3> QED
      BY <1>4, <2>3, <2>4, <3>1, <3>2 DEF TimesInv, IsMeasurement
  <2>6. CASE pendingPointCloud # NoEvent
    <3>1. emitted' = Append(emitted, pendingPointCloud)
      BY <2>1, <2>6
    <3>2. \A i \in 1 .. Len(emitted) :
             IsMeasurement(emitted[i]) => emitted[i].timeUs < pendingPointCloud.timeUs
      BY <1>4, <2>6
    <3>3. \A i \in 1 .. Len(emitted) :
             IsMeasurement(emitted[i]) => emitted[i].timeUs < pendingPointCloud'.timeUs
      BY <2>3, <2>4
    <3>4. lastTimestampUs <= lastTimestampUs'
      BY <1>1, <2>1
    <3> QED
      BY <1>1, <1>5, <2>1, <2>4, <3>1, <3>2, <3>3, <3>4
  <2> QED
    BY <2>5, <2>6
<1>9. CASE DepthJoined(p)
  <2> DEFINE e == [pendingPointCloud EXCEPT !.depth = p.capture]
  <2>1. /\ lastTimestampUs' = lastTimestampUs /\ pendingPointCloud # NoEvent
        /\ pendingPointCloud' = NoEvent /\ emitted' = Append(emitted, e)
    BY <1>9 DEF DepthJoined
  <2>2. e \in Events /\ e.timeUs = pendingPointCloud.timeUs
    BY <1>1, JoinedEvent
  <2> HIDE DEF e
  <2>3. \A i \in 1 .. Len(emitted) :
           IsMeasurement(emitted[i]) => emitted[i].timeUs < e.timeUs
    BY <1>4, <2>1, <2>2
  <2>4. /\ pendingPointCloud' \in Events /\ pendingPointCloud'.timeUs <= lastTimestampUs'
        /\ e.timeUs <= lastTimestampUs' /\ lastTimestampUs <= lastTimestampUs'
        /\ lastTimestampUs' \in Nat
    BY <1>1, <1>4, <2>1, <2>2, NoEventTime, QuietEvents
  <2> QED
    BY <1>5, <2>1, <2>2, <2>3, <2>4
<1> QED
  BY <1>6, <1>7, <1>8, <1>9

\* A stream that was cleared has told nothing.
LEMMA ClearedTimes == Cleared => TimesInv
<1> SUFFICES ASSUME Cleared PROVE TimesInv
  OBVIOUS
<1>1. emitted = <<>> /\ lastTimestampUs = 0 /\ pendingPointCloud = NoEvent
  BY DEF Cleared
<1>2. 1 .. Len(emitted) = {} /\ pendingPointCloud.timeUs <= lastTimestampUs
  BY <1>1, NoEventTime, EmptySeq
<1> QED
  BY <1>2 DEF TimesInv

\* What a step of the session is to the caller: nothing, the begin or the end of
\* a session, or the handling of a payload.
CallerStep ==
    \/ UNCHANGED <<profile, lastTimestampUs, pendingPointCloud, parsedClouds, emitted>>
    \/ Cleared'
    \/ /\ profile' = profile
       /\ \E p \in Payloads :
             InfoHandled(p) \/ AloneHandled(p) \/ CloudHandled(p) \/ DepthJoined(p)

\* Every step of the session is one of these.
LEMMA StepOfCaller ==
    ASSUME SessionInv, [Next]_sessionVars
    PROVE  CallerStep
<1>1. /\ DeviceInv /\ StreamTypeOK /\ ClearedUntilStreaming
      /\ ReadyQueueDrained /\ ClockSettled /\ CloudWaits
  BY DEF SessionInv
<1>2. LinkStep
  BY <1>1, StepOfLink
<1>3. CASE LinkStutters
  BY <1>3 DEF LinkStutters, streamVars, clockVars, pairVars, CallerStep
<1>4. CASE LinkBegins \/ LinkEnds
  BY <1>4 DEF LinkBegins, LinkEnds, BeginSession, EndSession, Cleared, pairVars, CallerStep
<1>5. CASE LinkSends
  BY <1>5 DEF LinkSends, Sent, clockVars, pairVars, CallerStep
<1>6. CASE LinkTakes /\ HandleParsedFrame(Head(OnTheWay))
  <2> DEFINE p == Head(OnTheWay)
  <2>1. p \in Payloads /\ HandleParsedFrame(p)
    BY <1>6 DEF LinkTakes
  <2> HIDE DEF p
  <2>2. /\ profile' = profile
        /\ InfoHandled(p) \/ AloneHandled(p) \/ CloudHandled(p) \/ DepthJoined(p)
    BY <1>1, <2>1, HandleCases
  <2> QED
    BY <2>1, <2>2 DEF CallerStep
<1>7. CASE LinkTakes /\ Loses
  BY <1>7 DEF Loses, clockVars, pairVars, CallerStep
<1> QED
  BY <1>2, <1>3, <1>4, <1>5, <1>6, <1>7 DEF LinkStep, LinkTakes

\* The order of the events is kept by every step.
LEMMA TimesPreserved == SessionInv /\ TimesInv /\ [Next]_sessionVars => TimesInv'
<1> SUFFICES ASSUME SessionInv, TimesInv, [Next]_sessionVars PROVE TimesInv'
  OBVIOUS
<1>1. CallerStep
  BY StepOfCaller
<1>2. CASE UNCHANGED <<profile, lastTimestampUs, pendingPointCloud, parsedClouds, emitted>>
  BY <1>2 DEF TimesInv, IsMeasurement
<1>3. CASE Cleared'
  BY <1>3, ClearedTimes, PTL
<1>4. CASE /\ profile' = profile
           /\ \E p \in Payloads :
                 InfoHandled(p) \/ AloneHandled(p) \/ CloudHandled(p) \/ DepthJoined(p)
  BY <1>4, HandleKeepsTimes DEF SessionInv
<1> QED
  BY <1>1, <1>2, <1>3, <1>4 DEF CallerStep

\* Every event of the session: the ready queue adds none.
LEMMA AllEventsAre ==
    ASSUME StreamTypeOK, ReadyQueueDrained
    PROVE  AllEvents = IF pendingPointCloud = NoEvent THEN emitted
                       ELSE Append(emitted, pendingPointCloud)
<1>1. emitted \in Seq(Events) /\ pendingPointCloud \in Events /\ readyEvents = <<>>
  BY DEF StreamTypeOK, ReadyQueueDrained
<1>2. emitted \o readyEvents = emitted
  BY <1>1, ConcatEmptySeq
<1>3. emitted \o <<>> = emitted
  BY <1>1, ConcatEmptySeq
<1>4. Append(emitted, pendingPointCloud) = emitted \o <<pendingPointCloud>>
  BY <1>1, AppendIsConcat
<1> QED
  BY <1>2, <1>3, <1>4 DEF AllEvents, Waiting

\* EmittedTimesIncrease: the caller gets measurements with increasing
\* timestamps, the one that still waits included.
THEOREM TimesIncrease == Spec => []EmittedTimesIncrease
<1>1. Init => TimesInv
  BY ClearedTimes DEF Init, StreamInit, Cleared
<1>2. SessionInv /\ TimesInv => EmittedTimesIncrease
  <2> SUFFICES ASSUME SessionInv, TimesInv PROVE EmittedTimesIncrease
    OBVIOUS
  <2>1. StreamTypeOK /\ ReadyQueueDrained
    BY DEF SessionInv
  <2>2. /\ AllEvents = IF pendingPointCloud = NoEvent THEN emitted
                       ELSE Append(emitted, pendingPointCloud)
        /\ emitted \in Seq(Events) /\ pendingPointCloud \in Events
    BY <2>1, AllEventsAre DEF StreamTypeOK
  <2>3. \A i, j \in 1 .. Len(AllEvents) :
           i < j /\ IsMeasurement(AllEvents[i]) /\ IsMeasurement(AllEvents[j])
              => AllEvents[i].timeUs < AllEvents[j].timeUs
    <3>1. CASE pendingPointCloud = NoEvent
      BY <2>2, <3>1 DEF TimesInv
    <3>2. CASE pendingPointCloud # NoEvent
      <4>1. \A i \in 1 .. Len(emitted) :
               IsMeasurement(emitted[i]) => emitted[i].timeUs < pendingPointCloud.timeUs
        BY <3>2 DEF TimesInv
      <4>2. \A i, j \in 1 .. Len(emitted) :
               i < j /\ IsMeasurement(emitted[i]) /\ IsMeasurement(emitted[j])
                  => emitted[i].timeUs < emitted[j].timeUs
        BY DEF TimesInv
      <4> QED
        BY <2>2, <3>2, <4>1, <4>2, AppendLater
    <3> QED
      BY <3>1, <3>2
  <2>4. AllEvents \in Seq(Events)
    BY <2>2, AppendProperties
  <2>5. DOMAIN AllEvents = 1 .. Len(AllEvents)
    BY <2>4, LenProperties
  <2> QED
    BY <2>3, <2>5 DEF EmittedTimesIncrease
<1> QED
  BY <1>1, <1>2, TimesPreserved, SessionInvHolds, PTL DEF Spec

\* The point clouds among some events are those of some captures, in order.
TellsClouds(events, clouds) ==
    /\ Cardinality(CloudPositions(events)) = Len(clouds)
    /\ \A i \in CloudPositions(events) : events[i].cloud = clouds[CloudRank(events, i)]

\* The clouds that were told, and then the one that waits, are all there are.
CloudsInv ==
    IF pendingPointCloud = NoEvent
    THEN TellsClouds(emitted, parsedClouds)
    ELSE \E told \in Seq(Captures) :
            /\ TellsClouds(emitted, told)
            /\ parsedClouds = Append(told, pendingPointCloud.cloud)

\* The positions of the point clouds are finitely many positions.
LEMMA CloudPositionsFinite ==
    ASSUME NEW s \in Seq(Events)
    PROVE  /\ CloudPositions(s) = {i \in 1 .. Len(s) : s[i].cloud # NoCapture}
           /\ IsFiniteSet(CloudPositions(s))
           /\ Cardinality(CloudPositions(s)) \in Nat
           /\ \A i \in CloudPositions(s) :
                 CloudRank(s, i) \in 1 .. Cardinality(CloudPositions(s))
<1>1. Len(s) \in Nat /\ DOMAIN s = 1 .. Len(s)
  BY LenProperties
<1>2. CloudPositions(s) = {i \in 1 .. Len(s) : s[i].cloud # NoCapture}
  BY <1>1 DEF CloudPositions
<1>3. IsFiniteSet(1 .. Len(s))
  BY <1>1, FS_Interval
<1>4. IsFiniteSet(CloudPositions(s))
  BY <1>2, <1>3, FS_Subset
<1>5. Cardinality(CloudPositions(s)) \in Nat
  BY <1>4, FS_CardinalityType
<1>6. ASSUME NEW i \in CloudPositions(s)
      PROVE  CloudRank(s, i) \in 1 .. Cardinality(CloudPositions(s))
  <2> DEFINE before == {j \in CloudPositions(s) : j <= i}
  <2>1. i \in before
    BY <1>2, <1>6
  <2>2. before \subseteq CloudPositions(s)
    OBVIOUS
  <2> HIDE DEF before
  <2>3. IsFiniteSet(before) /\ Cardinality(before) \in Nat
        /\ Cardinality(before) <= Cardinality(CloudPositions(s))
    BY <1>4, <2>2, FS_Subset, FS_CardinalityType
  <2>4. Cardinality(before) # 0
    BY <2>1, <2>3, FS_EmptySet
  <2>5. CloudRank(s, i) = Cardinality(before)
    BY DEF CloudRank, before
  <2> QED
    BY <1>5, <2>3, <2>4, <2>5
<1> QED
  BY <1>2, <1>4, <1>5, <1>6

\* An event without a point cloud changes nothing about the point clouds.
LEMMA AppendQuiet ==
    ASSUME NEW s \in Seq(Events), NEW clouds \in Seq(Captures), TellsClouds(s, clouds),
           NEW e \in Events, e.cloud = NoCapture
    PROVE  TellsClouds(Append(s, e), clouds)
<1> DEFINE t == Append(s, e)
<1>1. /\ t \in Seq(Events) /\ Len(s) \in Nat /\ Len(t) = Len(s) + 1
      /\ \A i \in 1 .. Len(s) : t[i] = s[i]
      /\ t[Len(s) + 1] = e
  BY PutLast
<1> HIDE DEF t
<1>2. CloudPositions(t) = CloudPositions(s)
  <2>1. /\ CloudPositions(t) = {i \in 1 .. Len(t) : t[i].cloud # NoCapture}
        /\ CloudPositions(s) = {i \in 1 .. Len(s) : s[i].cloud # NoCapture}
    BY <1>1, CloudPositionsFinite
  <2> QED
    BY <1>1, <2>1
<1>3. \A i \in CloudPositions(s) : CloudRank(t, i) = CloudRank(s, i) /\ t[i] = s[i]
  <2>1. CloudPositions(s) \subseteq 1 .. Len(s)
    BY CloudPositionsFinite
  <2> QED
    BY <1>1, <1>2, <2>1 DEF CloudRank
<1> QED
  BY <1>2, <1>3 DEF TellsClouds, t

\* An event with a point cloud tells one more.
LEMMA AppendCloud ==
    ASSUME NEW s \in Seq(Events), NEW clouds \in Seq(Captures), TellsClouds(s, clouds),
           NEW e \in Events, e.cloud # NoCapture
    PROVE  TellsClouds(Append(s, e), Append(clouds, e.cloud))
<1> DEFINE t == Append(s, e)
           all == Append(clouds, e.cloud)
<1>1. /\ t \in Seq(Events) /\ Len(s) \in Nat /\ Len(t) = Len(s) + 1
      /\ \A i \in 1 .. Len(s) : t[i] = s[i]
      /\ t[Len(s) + 1] = e
  BY PutLast
<1>2. e.cloud \in Captures
  BY DEF Events
<1>3. /\ Len(clouds) \in Nat /\ Len(all) = Len(clouds) + 1
      /\ \A i \in 1 .. Len(clouds) : all[i] = clouds[i]
      /\ all[Len(clouds) + 1] = e.cloud
  BY <1>2, PutLast
<1> HIDE DEF t, all
<1>4. /\ Cardinality(CloudPositions(s)) = Len(clouds)
      /\ \A i \in CloudPositions(s) : s[i].cloud = clouds[CloudRank(s, i)]
  BY DEF TellsClouds
<1>5. /\ CloudPositions(s) = {i \in 1 .. Len(s) : s[i].cloud # NoCapture}
      /\ IsFiniteSet(CloudPositions(s))
      /\ \A i \in CloudPositions(s) : CloudRank(s, i) \in 1 .. Len(clouds)
      /\ CloudPositions(t) = {i \in 1 .. Len(t) : t[i].cloud # NoCapture}
  BY <1>1, <1>4, CloudPositionsFinite
<1>6. /\ CloudPositions(t) = CloudPositions(s) \cup {Len(s) + 1}
      /\ Len(s) + 1 \notin CloudPositions(s)
  <2>1. /\ 1 .. Len(t) = 1 .. Len(s) \cup {Len(s) + 1}
        /\ Len(s) + 1 \notin 1 .. Len(s)
    BY <1>1
  <2>2. \A i \in 1 .. Len(s) : t[i].cloud = s[i].cloud
    BY <1>1
  <2>3. t[Len(s) + 1].cloud # NoCapture
    BY <1>1
  <2>4. \A i : i \in CloudPositions(t) <=> i \in 1 .. Len(t) /\ t[i].cloud # NoCapture
    BY <1>5, Zenon
  <2>5. \A i : i \in CloudPositions(s) <=> i \in 1 .. Len(s) /\ s[i].cloud # NoCapture
    BY <1>5, Zenon
  <2>6. \A i : i \in CloudPositions(t) <=> i \in CloudPositions(s) \/ i = Len(s) + 1
    BY <2>1, <2>2, <2>3, <2>4, <2>5, Zenon
  <2>7. Len(s) + 1 \notin CloudPositions(s)
    BY <2>1, <2>5, Zenon
  <2> QED
    BY <2>6, <2>7, Zenon
<1>7. Cardinality(CloudPositions(t)) = Len(clouds) + 1
  <2>1. Cardinality(CloudPositions(s) \cup {Len(s) + 1}) =
           IF Len(s) + 1 \in CloudPositions(s) THEN Cardinality(CloudPositions(s))
           ELSE Cardinality(CloudPositions(s)) + 1
    BY <1>5, FS_AddElement, Zenon
  <2> QED
    BY <1>4, <1>6, <2>1
<1>8. \A i \in CloudPositions(s) : CloudRank(t, i) = CloudRank(s, i)
  <2>1. ASSUME NEW i \in CloudPositions(s)
        PROVE  {j \in CloudPositions(t) : j <= i} = {j \in CloudPositions(s) : j <= i}
    BY <1>1, <1>5, <1>6, <2>1
  <2> QED
    BY <2>1 DEF CloudRank
<1>9. CloudRank(t, Len(s) + 1) = Len(clouds) + 1
  <2>1. {j \in CloudPositions(t) : j <= Len(s) + 1} = CloudPositions(t)
    BY <1>1, <1>5, <1>6
  <2> QED
    BY <1>7, <2>1 DEF CloudRank
<1>10. ASSUME NEW i \in CloudPositions(t)
       PROVE  t[i].cloud = all[CloudRank(t, i)]
  <2>1. CASE i \in CloudPositions(s)
    <3>1. i \in 1 .. Len(s)
      BY <1>5, <2>1
    <3> QED
      BY <1>1, <1>3, <1>4, <1>5, <1>8, <2>1, <3>1
  <2>2. CASE i = Len(s) + 1
    BY <1>1, <1>3, <1>9, <2>2
  <2> QED
    BY <1>6, <1>10, <2>1, <2>2
<1> QED
  BY <1>3, <1>7, <1>10 DEF TellsClouds, t, all

\* The clouds that were told, when the one that waits is told as well.
LEMMA WaitingIsTold ==
    ASSUME StreamTypeOK, CloudWaits, CloudsInv, pendingPointCloud # NoEvent,
           NEW e \in Events, e.cloud = pendingPointCloud.cloud
    PROVE  TellsClouds(Append(emitted, e), parsedClouds)
<1>1. PICK told \in Seq(Captures) : /\ TellsClouds(emitted, told)
                                    /\ parsedClouds = Append(told, pendingPointCloud.cloud)
  BY DEF CloudsInv
<1>2. emitted \in Seq(Events) /\ e.cloud # NoCapture
  BY DEF StreamTypeOK, CloudWaits
<1>3. TellsClouds(Append(emitted, e), Append(told, e.cloud))
  BY <1>1, <1>2, AppendCloud
<1> QED
  BY <1>1, <1>3

\* The handler loses no point cloud and tells none twice.
LEMMA HandleKeepsClouds ==
    ASSUME StreamTypeOK, CloudWaits, CloudsInv, NEW p \in Payloads,
           InfoHandled(p) \/ AloneHandled(p) \/ CloudHandled(p) \/ DepthJoined(p)
    PROVE  CloudsInv'
<1>1. /\ emitted \in Seq(Events) /\ parsedClouds \in Seq(Captures)
      /\ pendingPointCloud \in Events
      /\ p.capture \in Captures /\ p.capture # NoCapture /\ p.type \in PayloadTypes
  BY DEF StreamTypeOK, Payloads, Captures, NoCapture
<1>2. CASE InfoHandled(p)
  <2>1. /\ UNCHANGED <<pendingPointCloud, parsedClouds>>
        /\ emitted' = Append(emitted, InfoEvent)
    BY <1>2 DEF InfoHandled
  <2>2. CASE pendingPointCloud = NoEvent
    <3>1. TellsClouds(emitted, parsedClouds)
      BY <2>2 DEF CloudsInv
    <3>2. TellsClouds(emitted', parsedClouds)
      BY <1>1, <2>1, <3>1, QuietEvents, AppendQuiet
    <3> QED
      BY <2>1, <2>2, <3>2 DEF CloudsInv, TellsClouds, CloudPositions, CloudRank
  <2>3. CASE pendingPointCloud # NoEvent
    <3>1. PICK told \in Seq(Captures) : /\ TellsClouds(emitted, told)
                                        /\ parsedClouds = Append(told, pendingPointCloud.cloud)
      BY <2>3 DEF CloudsInv
    <3>2. TellsClouds(emitted', told)
      BY <1>1, <2>1, <3>1, QuietEvents, AppendQuiet
    <3> QED
      BY <2>1, <2>3, <3>1, <3>2 DEF CloudsInv, TellsClouds, CloudPositions, CloudRank
  <2> QED
    BY <2>2, <2>3
<1>3. CASE AloneHandled(p)
  <2> DEFINE e == StampedEvent(p)
  <2>1. /\ lastTimestampUs' \in Nat
        /\ pendingPointCloud = NoEvent /\ pendingPointCloud' = NoEvent
        /\ emitted' = Append(emitted, e)
        /\ parsedClouds' = IF p.type = "PointCloud" THEN Append(parsedClouds, p.capture)
                           ELSE parsedClouds
    BY <1>3 DEF AloneHandled, Stamped
  <2>2. /\ e \in Events
        /\ e.cloud = IF p.type = "PointCloud" THEN p.capture ELSE NoCapture
    BY <2>1, StampedEventResult
  <2> HIDE DEF e
  <2>3. TellsClouds(emitted, parsedClouds)
    BY <2>1 DEF CloudsInv
  <2>4. TellsClouds(emitted', parsedClouds')
    <3>1. CASE p.type = "PointCloud"
      <4>1. e.cloud = p.capture /\ e.cloud # NoCapture
        BY <1>1, <2>2, <3>1
      <4>2. TellsClouds(Append(emitted, e), Append(parsedClouds, e.cloud))
        BY <1>1, <2>2, <2>3, <4>1, AppendCloud
      <4> QED
        BY <2>1, <3>1, <4>1, <4>2
    <3>2. CASE p.type # "PointCloud"
      <4>1. TellsClouds(Append(emitted, e), parsedClouds)
        BY <1>1, <2>2, <2>3, <3>2, AppendQuiet
      <4> QED
        BY <2>1, <3>2, <4>1
    <3> QED
      BY <3>1, <3>2
  <2> QED
    BY <2>1, <2>4 DEF CloudsInv, TellsClouds, CloudPositions, CloudRank
<1>4. CASE CloudHandled(p)
  <2>1. /\ lastTimestampUs' \in Nat /\ p.type = "PointCloud"
        /\ pendingPointCloud' = StampedEvent(p)
        /\ emitted' = IF pendingPointCloud = NoEvent THEN emitted
                      ELSE Append(emitted, pendingPointCloud)
        /\ parsedClouds' = Append(parsedClouds, p.capture)
    BY <1>4 DEF CloudHandled, Stamped
  <2>2. pendingPointCloud' # NoEvent /\ pendingPointCloud'.cloud = p.capture
    BY <2>1, StampedEventResult
  <2>3. TellsClouds(emitted', parsedClouds)
    <3>1. CASE pendingPointCloud = NoEvent
      BY <2>1, <3>1 DEF CloudsInv
    <3>2. CASE pendingPointCloud # NoEvent
      BY <1>1, <2>1, <3>2, WaitingIsTold
    <3> QED
      BY <3>1, <3>2
  <2>4. \E told \in Seq(Captures) :
           /\ TellsClouds(emitted', told)
           /\ parsedClouds' = Append(told, pendingPointCloud'.cloud)
    BY <1>1, <2>1, <2>2, <2>3
  <2> QED
    BY <2>2, <2>4 DEF CloudsInv, TellsClouds, CloudPositions, CloudRank
<1>5. CASE DepthJoined(p)
  <2> DEFINE e == [pendingPointCloud EXCEPT !.depth = p.capture]
  <2>1. /\ pendingPointCloud # NoEvent /\ pendingPointCloud' = NoEvent
        /\ emitted' = Append(emitted, e) /\ parsedClouds' = parsedClouds
    BY <1>5 DEF DepthJoined
  <2>2. e \in Events /\ e.cloud = pendingPointCloud.cloud
    BY <1>1, JoinedEvent
  <2> HIDE DEF e
  <2>3. TellsClouds(emitted', parsedClouds')
    BY <2>1, <2>2, WaitingIsTold
  <2> QED
    BY <2>1, <2>3 DEF CloudsInv, TellsClouds, CloudPositions, CloudRank
<1> QED
  BY <1>2, <1>3, <1>4, <1>5

\* A stream that was cleared has parsed no point cloud.
LEMMA ClearedClouds == Cleared => CloudsInv
<1> SUFFICES ASSUME Cleared PROVE CloudsInv
  OBVIOUS
<1>1. emitted = <<>> /\ parsedClouds = <<>> /\ pendingPointCloud = NoEvent
  BY DEF Cleared
<1>2. emitted \in Seq(Events) /\ Len(emitted) = 0 /\ Len(parsedClouds) = 0
  BY <1>1, EmptySeq
<1>3. CloudPositions(emitted) = {}
  <2>1. CloudPositions(emitted) = {i \in 1 .. Len(emitted) : emitted[i].cloud # NoCapture}
    BY <1>2, CloudPositionsFinite
  <2>2. 1 .. Len(emitted) = {}
    BY <1>2
  <2> QED
    BY <2>1, <2>2, Zenon
<1>4. Cardinality(CloudPositions(emitted)) = 0
  BY <1>3, FS_EmptySet
<1> QED
  BY <1>1, <1>2, <1>3, <1>4 DEF CloudsInv, TellsClouds

\* No step loses a point cloud that was parsed.
LEMMA CloudsPreserved == SessionInv /\ CloudsInv /\ [Next]_sessionVars => CloudsInv'
<1> SUFFICES ASSUME SessionInv, CloudsInv, [Next]_sessionVars PROVE CloudsInv'
  OBVIOUS
<1>1. CallerStep
  BY StepOfCaller
<1>2. CASE UNCHANGED <<profile, lastTimestampUs, pendingPointCloud, parsedClouds, emitted>>
  BY <1>2 DEF CloudsInv, TellsClouds, CloudPositions, CloudRank
<1>3. CASE Cleared'
  BY <1>3, ClearedClouds, PTL
<1>4. CASE /\ profile' = profile
           /\ \E p \in Payloads :
                 InfoHandled(p) \/ AloneHandled(p) \/ CloudHandled(p) \/ DepthJoined(p)
  BY <1>4, HandleKeepsClouds DEF SessionInv
<1> QED
  BY <1>1, <1>2, <1>3, <1>4 DEF CallerStep

\* NoPointCloudLost: the caller gets every point cloud that was parsed, once and
\* in order, or it is the one that waits.
THEOREM PointCloudsReachTheCaller == Spec => []NoPointCloudLost
<1>1. Init => CloudsInv
  BY ClearedClouds DEF Init, StreamInit, Cleared
<1>2. SessionInv /\ CloudsInv => NoPointCloudLost
  <2> SUFFICES ASSUME SessionInv, CloudsInv PROVE NoPointCloudLost
    OBVIOUS
  <2>1. StreamTypeOK /\ ReadyQueueDrained /\ CloudWaits
    BY DEF SessionInv
  <2>2. /\ AllEvents = IF pendingPointCloud = NoEvent THEN emitted
                       ELSE Append(emitted, pendingPointCloud)
        /\ pendingPointCloud \in Events
    BY <2>1, AllEventsAre DEF StreamTypeOK
  <2>3. TellsClouds(AllEvents, parsedClouds)
    <3>1. CASE pendingPointCloud = NoEvent
      BY <2>2, <3>1 DEF CloudsInv
    <3>2. CASE pendingPointCloud # NoEvent
      BY <2>1, <2>2, <3>2, WaitingIsTold
    <3> QED
      BY <3>1, <3>2
  <2> QED
    BY <2>3 DEF NoPointCloudLost, TellsClouds
<1> QED
  BY <1>1, <1>2, CloudsPreserved, SessionInvHolds, PTL DEF Spec

\* What has still to be handled of the captures that the camera has begun.
Rest == OnTheWay \o unsent

\* In profile 120x90 a capture is a point cloud, perhaps info, and a depth grid.
Follows(p, q) ==
    /\ p.type = "PointCloud" => q.type \in {"Info", "Depth"} /\ q.capture = p.capture
    /\ p.type = "Info" => q.type = "Depth" /\ q.capture = p.capture
    /\ p.type = "Depth" => q.type = "PointCloud"

\* Captures follow each other, and the last of them is complete.
Chained(s) ==
    /\ s # <<>> => s[Len(s)].type = "Depth"
    /\ \A i \in 1 .. Len(s) - 1 : Follows(s[i], s[i + 1])

\* A point cloud that waits waits for what comes next.
Expected ==
    IF pendingPointCloud = NoEvent
    THEN Rest # <<>> => Rest[1].type = "PointCloud"
    ELSE /\ Rest # <<>>
         /\ Rest[1].type \in {"Info", "Depth"}
         /\ Rest[1].capture = pendingPointCloud.cloud

PairsInv ==
    ~lossy /\ Mixed =>
        /\ Chained(Rest)
        /\ Expected
        /\ \A i \in 1 .. Len(emitted) :
              IsMeasurement(emitted[i]) => emitted[i].cloud = emitted[i].depth

\* A chain without its first payload is one, and what follows the first is known.
LEMMA ChainedTail ==
    ASSUME NEW s \in Seq(Payloads), s # <<>>, Chained(s)
    PROVE  /\ Chained(Tail(s))
           /\ Tail(s) = <<>> => s[1].type = "Depth"
           /\ Tail(s) # <<>> => Follows(s[1], Tail(s)[1])
<1> DEFINE t == Tail(s)
<1>1. /\ Len(s) \in Nat /\ 1 <= Len(s) /\ t \in Seq(Payloads) /\ Len(t) = Len(s) - 1
      /\ \A i \in 1 .. Len(t) : t[i] = s[i + 1]
  BY TakeFirst
<1> HIDE DEF t
<1>2. s[Len(s)].type = "Depth" /\ \A i \in 1 .. Len(s) - 1 : Follows(s[i], s[i + 1])
  BY DEF Chained
<1>3. t # <<>> => 1 <= Len(t) /\ Len(t) \in Nat
  BY <1>1, EmptySeq
<1>4. t # <<>> => t[Len(t)].type = "Depth"
  <2> SUFFICES ASSUME t # <<>> PROVE t[Len(t)].type = "Depth"
    OBVIOUS
  <2>1. Len(t) \in 1 .. Len(t) /\ Len(t) + 1 = Len(s)
    BY <1>1, <1>3
  <2> QED
    BY <1>1, <1>2, <2>1
<1>5. ASSUME NEW i \in 1 .. Len(t) - 1
      PROVE  Follows(t[i], t[i + 1])
  <2>1. i \in 1 .. Len(t) /\ i + 1 \in 1 .. Len(t) /\ i + 1 \in 1 .. Len(s) - 1
    BY <1>1
  <2>2. t[i] = s[i + 1] /\ t[i + 1] = s[(i + 1) + 1]
    BY <1>1, <2>1
  <2> QED
    BY <1>2, <2>1, <2>2
<1>6. t = <<>> => s[1].type = "Depth"
  <2> SUFFICES ASSUME t = <<>> PROVE s[1].type = "Depth"
    OBVIOUS
  <2>1. Len(s) = 1
    BY <1>1, EmptySeq
  <2> QED
    BY <1>2, <2>1
<1>7. t # <<>> => Follows(s[1], t[1])
  <2> SUFFICES ASSUME t # <<>> PROVE Follows(s[1], t[1])
    OBVIOUS
  <2>1. 1 \in 1 .. Len(t) /\ 1 \in 1 .. Len(s) - 1
    BY <1>1, <1>3
  <2>2. t[1] = s[1 + 1]
    BY <1>1, <2>1
  <2> QED
    BY <1>2, <2>1, <2>2
<1> QED
  BY <1>4, <1>5, <1>6, <1>7 DEF Chained, t

\* A capture continues a chain.
LEMMA ChainedConcat ==
    ASSUME NEW s \in Seq(Payloads), NEW r \in Seq(Payloads), Chained(s), Chained(r),
           r # <<>>, r[1].type = "PointCloud"
    PROVE  /\ Chained(s \o r) /\ s \o r # <<>>
           /\ (s \o r)[1] = IF s = <<>> THEN r[1] ELSE s[1]
<1> DEFINE t == s \o r
<1>1. /\ Len(s) \in Nat /\ Len(r) \in Nat \ {0}
      /\ t \in Seq(Payloads) /\ Len(t) = Len(s) + Len(r)
      /\ \A i \in 1 .. Len(s) + Len(r) : t[i] = IF i <= Len(s) THEN s[i] ELSE r[i - Len(s)]
  BY EmptySeq, LenProperties, ConcatProperties
<1> HIDE DEF t
<1>2. /\ \A i \in 1 .. Len(s) : t[i] = s[i]
      /\ \A k \in 1 .. Len(r) : t[Len(s) + k] = r[k]
  <2>1. ASSUME NEW i \in 1 .. Len(s) PROVE t[i] = s[i]
    BY <1>1
  <2>2. ASSUME NEW k \in 1 .. Len(r) PROVE t[Len(s) + k] = r[k]
    <3>1. /\ Len(s) + k \in 1 .. Len(s) + Len(r) /\ ~(Len(s) + k <= Len(s))
          /\ (Len(s) + k) - Len(s) = k
      BY <1>1
    <3> QED
      BY <1>1, <3>1
  <2> QED
    BY <2>1, <2>2
<1>3. t # <<>>
  BY <1>1, EmptySeq
<1>4. t[1] = IF s = <<>> THEN r[1] ELSE s[1]
  <2>1. CASE s = <<>>
    <3>1. Len(s) = 0 /\ 1 \in 1 .. Len(r)
      BY <1>1, <2>1, EmptySeq
    <3>2. Len(s) + 1 = 1
      BY <3>1
    <3> QED
      BY <1>2, <2>1, <3>1, <3>2
  <2>2. CASE s # <<>>
    <3>1. 1 \in 1 .. Len(s)
      BY <1>1, <2>2, EmptySeq
    <3> QED
      BY <1>2, <2>2, <3>1
  <2> QED
    BY <2>1, <2>2
<1>5. t[Len(t)].type = "Depth"
  <2>1. r[Len(r)].type = "Depth" /\ Len(r) \in 1 .. Len(r)
    BY <1>1 DEF Chained
  <2> QED
    BY <1>1, <1>2, <2>1
<1>6. ASSUME NEW i \in 1 .. Len(t) - 1
      PROVE  Follows(t[i], t[i + 1])
  <2>1. CASE i < Len(s)
    <3>1. i \in 1 .. Len(s) /\ i + 1 \in 1 .. Len(s) /\ i \in 1 .. Len(s) - 1
      BY <1>1, <2>1
    <3> QED
      BY <1>2, <3>1 DEF Chained
  <2>2. CASE i = Len(s)
    <3>1. i \in 1 .. Len(s) /\ 1 \in 1 .. Len(r) /\ i + 1 = Len(s) + 1 /\ s # <<>>
      BY <1>1, <2>2, EmptySeq
    <3>2. t[i] = s[Len(s)] /\ t[i + 1] = r[1]
      BY <1>2, <2>2, <3>1
    <3>3. s[Len(s)].type = "Depth"
      BY <3>1 DEF Chained
    <3> QED
      BY <3>2, <3>3 DEF Follows
  <2>3. CASE i > Len(s)
    <3> DEFINE k == i - Len(s)
    <3>1. /\ k \in 1 .. Len(r) /\ k + 1 \in 1 .. Len(r) /\ k \in 1 .. Len(r) - 1
          /\ i = Len(s) + k /\ i + 1 = Len(s) + (k + 1)
      BY <1>1, <2>3
    <3> HIDE DEF k
    <3>2. t[i] = r[k] /\ t[i + 1] = r[k + 1]
      BY <1>2, <3>1
    <3> QED
      BY <3>1, <3>2 DEF Chained
  <2> QED
    BY <1>1, <2>1, <2>2, <2>3
<1> QED
  BY <1>3, <1>4, <1>5, <1>6 DEF Chained, t

\* In profile 120x90 a capture is a chain that begins with its point cloud.
LEMMA CaptureIsChained ==
    ASSUME Mixed, NEW c \in Captures, NEW timed \in BOOLEAN, NEW withInfo \in BOOLEAN
    PROVE  /\ Chained(CapturePayloads(c, timed, withInfo))
           /\ CapturePayloads(c, timed, withInfo)[1].type = "PointCloud"
<1> DEFINE cloud == [type |-> "PointCloud", capture |-> c, timed |-> TRUE]
           depth == [type |-> "Depth", capture |-> c, timed |-> TRUE]
           info  == [type |-> "Info", capture |-> c, timed |-> FALSE]
           s == CapturePayloads(c, timed, withInfo)
<1>1. s = <<cloud>> \o (IF withInfo THEN <<info>> ELSE <<>>) \o <<depth>>
  BY DEF CapturePayloads, Mixed
<1>2. /\ cloud \in Payloads /\ info \in Payloads /\ depth \in Payloads
      /\ cloud.type = "PointCloud" /\ depth.type = "Depth"
      /\ Follows(cloud, info) /\ Follows(info, depth) /\ Follows(cloud, depth)
  BY DEF Follows, Payloads, PayloadTypes
<1> HIDE DEF cloud, depth, info, s
<1>3. <<cloud>> \in Seq(Payloads) /\ Len(<<cloud>>) = 1 /\ <<cloud>>[1] = cloud
  BY <1>2
<1>4. \A r \in Seq(Payloads) :
         /\ r \o <<depth>> \in Seq(Payloads) /\ Len(r \o <<depth>>) = Len(r) + 1
         /\ \A i \in 1 .. Len(r) : (r \o <<depth>>)[i] = r[i]
         /\ (r \o <<depth>>)[Len(r) + 1] = depth
  BY <1>2, PutLast, AppendIsConcat
<1>5. CASE withInfo
  <2> DEFINE u == <<cloud>> \o <<info>>
  <2>1. s = u \o <<depth>>
    BY <1>1, <1>5
  <2>2. u = Append(<<cloud>>, info)
    BY <1>2, <1>3, AppendIsConcat
  <2> HIDE DEF u
  <2>3. u \in Seq(Payloads) /\ Len(u) = 2 /\ u[1] = cloud /\ u[2] = info
    BY <1>2, <1>3, <2>2, PutLast
  <2>4. Len(s) = 3 /\ s[1] = cloud /\ s[2] = info /\ s[3] = depth
    <3>1. /\ Len(s) = Len(u) + 1 /\ s[Len(u) + 1] = depth
          /\ \A i \in 1 .. Len(u) : s[i] = u[i]
      BY <1>4, <2>1, <2>3
    <3>2. 1 \in 1 .. Len(u) /\ 2 \in 1 .. Len(u)
      BY <2>3
    <3> QED
      BY <2>3, <3>1, <3>2
  <2>5. \A i \in 1 .. Len(s) - 1 : i = 1 \/ i = 2
    BY <2>4
  <2>6. \A i \in 1 .. Len(s) - 1 : Follows(s[i], s[i + 1])
    BY <1>2, <2>4, <2>5
  <2> QED
    BY <1>2, <2>4, <2>6 DEF Chained, s
<1>6. CASE ~withInfo
  <2>1. s = (<<cloud>> \o <<>>) \o <<depth>>
    BY <1>1, <1>6
  <2>2. <<cloud>> \o <<>> = <<cloud>>
    BY <1>3, ConcatEmptySeq
  <2>3. Len(s) = 2 /\ s[1] = cloud /\ s[2] = depth
    BY <1>3, <1>4, <2>1, <2>2
  <2>4. \A i \in 1 .. Len(s) - 1 : i = 1
    BY <2>3
  <2>5. \A i \in 1 .. Len(s) - 1 : Follows(s[i], s[i + 1])
    BY <1>2, <2>3, <2>4
  <2> QED
    BY <1>2, <2>3, <2>5 DEF Chained, s
<1> QED
  BY <1>5, <1>6

\* What is still to be handled is a sequence of payloads.
LEMMA RestTyped ==
    ASSUME DeviceInv, StreamTypeOK
    PROVE  /\ OnTheWay \in Seq(Payloads) /\ unsent \in Seq(Payloads)
           /\ Rest \in Seq(Payloads)
<1>1. OnTheWay \in Seq(Payloads) /\ unsent \in Seq(Payloads)
  BY LinkTyped DEF LinkIsTyped, StreamTypeOK
<1> QED
  BY <1>1, ConcatProperties DEF Rest

\* Before the stream runs there is nothing to pair.
Idle == Cleared /\ OnTheWay = <<>>

\* So nothing is paired wrongly.
LEMMA IdleIsPaired == Idle => PairsInv
<1> SUFFICES ASSUME Idle PROVE PairsInv
  OBVIOUS
<1>1. emitted = <<>> /\ unsent = <<>> /\ OnTheWay = <<>> /\ pendingPointCloud = NoEvent
  BY DEF Idle, Cleared
<1>2. Rest = <<>>
  BY <1>1, EmptySeq, ConcatEmptySeq DEF Rest
<1>3. Len(emitted) = 0 /\ Len(Rest) = 0
  BY <1>1, <1>2, EmptySeq
<1>4. 1 .. Len(emitted) = {} /\ 1 .. Len(Rest) - 1 = {}
  BY <1>3
<1>5. Chained(Rest)
  BY <1>2, <1>4 DEF Chained
<1>6. Expected
  BY <1>1, <1>2 DEF Expected
<1> QED
  BY <1>4, <1>5, <1>6 DEF PairsInv

\* A payload that the camera sends stays among what is to be handled; only the
\* first of a capture brings new ones, which continue the chain.
LEMMA SendKeepsPairs ==
    ASSUME SessionInv, PairsInv, LinkSends, ~lossy', Mixed
    PROVE  Chained(Rest') /\ Expected'
<1>1. DeviceInv /\ StreamTypeOK
  BY DEF SessionInv
<1>2. /\ OnTheWay \in Seq(Payloads) /\ unsent \in Seq(Payloads) /\ Rest \in Seq(Payloads)
      /\ capture \in 0 .. CaptureLimit
  BY <1>1, RestTyped DEF StreamTypeOK
<1>3. PICK send \in Sends : Sent(send) /\ lossy' = lossy /\ OnTheWay' = Append(OnTheWay, send.payload)
  BY DEF LinkSends, Lost
<1>4. /\ unsent' = send.unsent /\ pendingPointCloud' = pendingPointCloud
      /\ send.capture <= CaptureLimit
  BY <1>3 DEF Sent, pairVars
<1>5. /\ send.payload \in Payloads /\ send.unsent \in Seq(Payloads)
  BY <1>1, <1>4, SendsTyped
<1>6. Chained(Rest) /\ Expected
  BY <1>3 DEF PairsInv
<1>7. Rest' = OnTheWay \o (<<send.payload>> \o send.unsent)
  <2>1. Rest' = (OnTheWay \o <<send.payload>>) \o send.unsent
    BY <1>2, <1>3, <1>4, <1>5, AppendIsConcat DEF Rest
  <2>2. <<send.payload>> \in Seq(Payloads)
    BY <1>5
  <2>3. OnTheWay \in Seq(Payloads) /\ send.unsent \in Seq(Payloads)
    BY <1>2, <1>5
  <2>4. PICK a, b, c \in Seq(Payloads) :
            a = OnTheWay /\ b = <<send.payload>> /\ c = send.unsent
    BY <2>2, <2>3
  <2>5. (a \o b) \o c = a \o (b \o c)
    BY ConcatAssociative
  <2> QED
    BY <2>1, <2>4, <2>5
<1>8. CASE unsent # <<>>
  <2>1. send = [payload |-> Head(unsent), unsent |-> Tail(unsent), capture |-> capture]
    BY <1>8 DEF Sends
  <2>2. <<send.payload>> \o send.unsent = unsent
    BY <1>2, <1>8, <2>1, ConsOfHeadTail
  <2>3. Rest' = Rest
    BY <1>7, <2>2 DEF Rest
  <2> QED
    BY <1>4, <1>6, <2>3 DEF Expected
<1>9. CASE unsent = <<>>
  <2>1. PICK timed \in BOOLEAN, withInfo \in BOOLEAN :
          send = [payload |-> Head(CapturePayloads(capture + 1, timed, withInfo)),
                  unsent  |-> Tail(CapturePayloads(capture + 1, timed, withInfo)),
                  capture |-> capture + 1]
    BY <1>9 DEF Sends
  <2> DEFINE new == CapturePayloads(capture + 1, timed, withInfo)
  <2>2. capture + 1 \in Captures
    BY <1>2, <1>4, <2>1, SessionConstants DEF Captures
  <2>3. /\ new \in Seq(Payloads) /\ new # <<>>
        /\ Chained(new) /\ new[1].type = "PointCloud"
    BY <2>2, CapturePayloadsTyped, CaptureIsChained
  <2>4. send.payload = Head(new) /\ send.unsent = Tail(new)
    BY <2>1
  <2> HIDE DEF new
  <2>5. <<send.payload>> \o send.unsent = new
    BY <2>3, <2>4, ConsOfHeadTail
  <2>6. Rest = OnTheWay
    BY <1>2, <1>9, ConcatEmptySeq DEF Rest
  <2>7. Rest' = Rest \o new
    BY <1>7, <2>5, <2>6
  <2>8. /\ Chained(Rest') /\ Rest' # <<>>
        /\ Rest'[1] = IF Rest = <<>> THEN new[1] ELSE Rest[1]
    BY <1>2, <1>6, <2>3, <2>7, ChainedConcat
  <2> QED
    BY <1>4, <1>6, <2>3, <2>8 DEF Expected
<1> QED
  BY <1>8, <1>9

\* A payload that is handled was the next one, and its event pairs what belongs
\* together.
LEMMA HandleKeepsPairs ==
    ASSUME SessionInv, PairsInv, LinkTakes, HandleParsedFrame(Head(OnTheWay)), ~lossy, Mixed
    PROVE  /\ Chained(Rest') /\ Expected'
           /\ \/ emitted' = emitted
              \/ \E e \in Events : /\ emitted' = Append(emitted, e)
                                   /\ IsMeasurement(e) => e.cloud = e.depth
<1> DEFINE p == Head(OnTheWay)
<1>1. /\ DeviceInv /\ StreamTypeOK /\ ReadyQueueDrained /\ ClockSettled /\ CloudWaits
      /\ Chained(Rest) /\ Expected
  BY DEF SessionInv, PairsInv
<1>2. /\ OnTheWay \in Seq(Payloads) /\ unsent \in Seq(Payloads) /\ Rest \in Seq(Payloads)
      /\ OnTheWay # <<>> /\ p \in Payloads /\ OnTheWay' = Tail(OnTheWay)
      /\ HandleParsedFrame(p) /\ pendingPointCloud \in Events
  BY <1>1, RestTyped DEF LinkTakes, StreamTypeOK
<1> HIDE DEF p
<1>3. /\ unsent' = unsent
      /\ InfoHandled(p) \/ AloneHandled(p) \/ CloudHandled(p) \/ DepthJoined(p)
  BY <1>1, <1>2, HandleCases
<1>4. Rest = <<p>> \o Rest'
  <2>1. OnTheWay = <<p>> \o OnTheWay' /\ OnTheWay' \in Seq(Payloads) /\ <<p>> \in Seq(Payloads)
    BY <1>2, ConsOfHeadTail, TakeFirst DEF p
  <2>2. Rest' = OnTheWay' \o unsent
    BY <1>3 DEF Rest
  <2>3. (<<p>> \o OnTheWay') \o unsent = <<p>> \o (OnTheWay' \o unsent)
    BY <1>2, <2>1, ConcatAssociative
  <2> QED
    BY <2>1, <2>2, <2>3 DEF Rest
<1>5. Rest' \in Seq(Payloads)
  <2>1. OnTheWay' \in Seq(Payloads)
    BY <1>2, TakeFirst
  <2> QED
    BY <1>2, <1>3, <2>1, ConcatProperties DEF Rest
<1>6. Rest # <<>> /\ Head(Rest) = p /\ Tail(Rest) = Rest'
  BY <1>2, <1>4, <1>5, HeadTailOfCons
<1>7. Rest[1] = p
  BY <1>2, <1>6, TakeFirst
<1>8. /\ Chained(Rest')
      /\ Rest' = <<>> => p.type = "Depth"
      /\ Rest' # <<>> => Follows(p, Rest'[1])
  BY <1>1, <1>2, <1>6, <1>7, ChainedTail
<1>9. IF pendingPointCloud = NoEvent THEN p.type = "PointCloud"
      ELSE p.type \in {"Info", "Depth"} /\ p.capture = pendingPointCloud.cloud
  BY <1>1, <1>6, <1>7 DEF Expected
<1>10. CASE InfoHandled(p)
  <2>1. /\ p.type = "Info" /\ pendingPointCloud' = pendingPointCloud
        /\ emitted' = Append(emitted, InfoEvent)
    BY <1>10 DEF InfoHandled
  <2>2. Expected'
    BY <1>8, <1>9, <2>1 DEF Expected, Follows
  <2> QED
    BY <1>8, <2>1, <2>2, QuietEvents
<1>11. CASE AloneHandled(p)
  BY <1>9, <1>11 DEF AloneHandled
<1>12. CASE CloudHandled(p)
  <2>1. /\ lastTimestampUs' \in Nat /\ p.type = "PointCloud"
        /\ pendingPointCloud' = StampedEvent(p)
        /\ emitted' = IF pendingPointCloud = NoEvent THEN emitted
                      ELSE Append(emitted, pendingPointCloud)
    BY <1>12 DEF CloudHandled, Stamped
  <2>2. pendingPointCloud = NoEvent
    BY <1>9, <2>1
  <2>3. pendingPointCloud' # NoEvent /\ pendingPointCloud'.cloud = p.capture
    BY <1>2, <2>1, StampedEventResult
  <2>4. Expected'
    BY <1>8, <2>1, <2>3 DEF Expected, Follows
  <2> QED
    BY <1>8, <2>1, <2>2, <2>4
<1>13. CASE DepthJoined(p)
  <2> DEFINE e == [pendingPointCloud EXCEPT !.depth = p.capture]
  <2>1. /\ p.type = "Depth" /\ pendingPointCloud # NoEvent /\ pendingPointCloud' = NoEvent
        /\ emitted' = Append(emitted, e)
    BY <1>13 DEF DepthJoined
  <2>2. p.capture \in Captures
    BY <1>2 DEF Payloads
  <2>3. e \in Events /\ e.cloud = pendingPointCloud.cloud /\ e.depth = p.capture
    BY <1>2, <2>2, JoinedEvent
  <2> HIDE DEF e
  <2>4. e.cloud = e.depth
    BY <1>9, <2>1, <2>3
  <2>5. Expected'
    BY <1>8, <2>1 DEF Expected, Follows
  <2> QED
    BY <1>8, <2>1, <2>3, <2>4, <2>5
<1> QED
  BY <1>3, <1>10, <1>11, <1>12, <1>13

\* No step pairs what does not belong together, as long as nothing is lost.
LEMMA PairsPreserved == SessionInv /\ PairsInv /\ [Next]_sessionVars => PairsInv'
<1> SUFFICES ASSUME SessionInv, PairsInv, [Next]_sessionVars PROVE PairsInv'
  OBVIOUS
<1>1. /\ DeviceInv /\ StreamTypeOK /\ ClearedUntilStreaming
      /\ ReadyQueueDrained /\ ClockSettled /\ CloudWaits
  BY DEF SessionInv
<1>2. LinkStep
  BY <1>1, StepOfLink
<1>3. CASE LinkStutters
  <2>1. UNCHANGED <<OnTheWay, unsent, profile, lossy, pendingPointCloud, emitted>>
    BY <1>3 DEF LinkStutters, streamVars, cameraVars, pairVars
  <2>2. Rest' = Rest
    BY <2>1 DEF Rest
  <2> QED
    BY <2>1, <2>2 DEF PairsInv, Mixed, Chained, Expected, Follows, IsMeasurement
<1>4. CASE LinkBegins \/ LinkEnds
  <2>1. Idle'
    BY <1>4 DEF LinkBegins, LinkEnds, BeginSession, EndSession, Cleared, pairVars, Idle
  <2> QED
    BY <2>1, IdleIsPaired, PTL
<1>5. CASE LinkSends
  <2>1. UNCHANGED <<profile, pendingPointCloud, emitted>>
    BY <1>5 DEF LinkSends, Sent, pairVars
  <2>2. lossy => lossy'
    BY <1>5 DEF LinkSends, Lost
  <2>3. ASSUME ~lossy', Mixed'
        PROVE  Chained(Rest') /\ Expected'
    <3>1. Mixed
      BY <2>1, <2>3 DEF Mixed
    <3> QED
      BY <1>5, <2>3, <3>1, SendKeepsPairs
  <2>4. ~lossy /\ Mixed => \A i \in 1 .. Len(emitted) :
           IsMeasurement(emitted[i]) => emitted[i].cloud = emitted[i].depth
    BY DEF PairsInv
  <2> QED
    BY <2>1, <2>2, <2>3, <2>4 DEF PairsInv, Mixed, Chained, Follows, IsMeasurement
<1>6. CASE LinkTakes /\ HandleParsedFrame(Head(OnTheWay))
  <2>1. UNCHANGED <<profile, lossy>>
    BY <1>6 DEF HandleParsedFrame
  <2>2. ASSUME ~lossy', Mixed'
        PROVE  /\ Chained(Rest') /\ Expected'
               /\ \A i \in 1 .. Len(emitted') :
                     IsMeasurement(emitted'[i]) => emitted'[i].cloud = emitted'[i].depth
    <3>1. ~lossy /\ Mixed
      BY <2>1, <2>2 DEF Mixed
    <3>2. \A i \in 1 .. Len(emitted) :
             IsMeasurement(emitted[i]) => emitted[i].cloud = emitted[i].depth
      BY <3>1 DEF PairsInv
    <3>3. /\ Chained(Rest') /\ Expected'
          /\ \/ emitted' = emitted
             \/ \E e \in Events : /\ emitted' = Append(emitted, e)
                                  /\ IsMeasurement(e) => e.cloud = e.depth
      BY <1>6, <3>1, HandleKeepsPairs
    <3>4. CASE emitted' = emitted
      BY <3>2, <3>3, <3>4
    <3>5. ASSUME NEW e \in Events, emitted' = Append(emitted, e),
                 IsMeasurement(e) => e.cloud = e.depth
          PROVE  \A i \in 1 .. Len(emitted') :
                    IsMeasurement(emitted'[i]) => emitted'[i].cloud = emitted'[i].depth
      <4>1. emitted \in Seq(Events)
        BY <1>1 DEF StreamTypeOK
      <4>2. /\ Len(emitted) \in Nat /\ Len(emitted') = Len(emitted) + 1
            /\ \A i \in 1 .. Len(emitted) : emitted'[i] = emitted[i]
            /\ emitted'[Len(emitted) + 1] = e
        BY <3>5, <4>1, PutLast
      <4>3. 1 .. Len(emitted') = 1 .. Len(emitted) \cup {Len(emitted) + 1}
        BY <4>2
      <4> QED
        BY <3>2, <3>5, <4>2, <4>3 DEF IsMeasurement
    <3> QED
      BY <3>3, <3>4, <3>5
  <2> QED
    BY <2>2 DEF PairsInv, Mixed, Chained, Follows, IsMeasurement
<1>7. CASE LinkTakes /\ Loses
  <2>1. lossy'
    BY <1>7 DEF Loses, Lost
  <2> QED
    BY <2>1 DEF PairsInv
<1> QED
  BY <1>2, <1>3, <1>4, <1>5, <1>6, <1>7 DEF LinkStep, LinkTakes

\* PairsCaptures: while the link loses nothing, what a combined event combines
\* is of one capture, and no measurement of profile 120x90 comes apart.
THEOREM CapturesArePaired == Spec => []PairsCaptures
<1>1. Init => PairsInv
  <2> SUFFICES ASSUME Init PROVE PairsInv
    OBVIOUS
  <2>1. Cleared /\ DeviceInv /\ ~Streaming
    BY InvInitially DEF Init, StreamInit, Cleared, DeviceInit, Streaming, ReadStages
  <2>2. Idle
    BY <2>1, NothingOnTheWay DEF Idle, EmptyWhenIdle
  <2> QED
    BY <2>2, IdleIsPaired
<1>2. SessionInv /\ PairsInv => PairsCaptures
  <2> SUFFICES ASSUME SessionInv, PairsInv PROVE PairsCaptures
    OBVIOUS
  <2>1. DOMAIN emitted = 1 .. Len(emitted)
    BY LenProperties DEF SessionInv, StreamTypeOK
  <2> QED
    BY <2>1 DEF PairsInv, PairsCaptures, IsMeasurement
<1> QED
  BY <1>1, <1>2, PairsPreserved, SessionInvHolds, PTL DEF Spec

(***************************************************************************)
(* The abstract source                                                     *)
(*                                                                         *)
(* UvcSource is over the same stream, so that its definitions, with the    *)
(* substitutions of Source, are those of UvcStream: the lemmas say so for  *)
(* the ones that the steps need.  What is left is LinkStep, step by step.  *)
(***************************************************************************)

\* The clock of the abstract source is the clock.
LEMMA SameNormalize ==
    \A n, rawMs, nowUs : Source!Normalize(n, rawMs, nowUs) = Normalize(n, rawMs, nowUs)
BY DEF Normalize, FirstSample, AnchoredAt, ForwardStep, BackwardStep, Restart, Advance,
       SmallStepBack, CandidateUs, ValueAfter, IsCounterWrap, IsPpsRollover, IsSmallStepBack,
       CounterWrapDeltaMs, PpsRolloverDeltaMs, HostElapsedIsMuchSmaller, HostElapsedUs,
       Source!Normalize, Source!FirstSample, Source!AnchoredAt, Source!ForwardStep,
       Source!BackwardStep, Source!Restart, Source!Advance, Source!SmallStepBack,
       Source!CandidateUs, Source!ValueAfter, Source!IsCounterWrap, Source!IsPpsRollover,
       Source!IsSmallStepBack, Source!CounterWrapDeltaMs, Source!PpsRolloverDeltaMs,
       Source!HostElapsedIsMuchSmaller, Source!HostElapsedUs

\* A stamp is a stamp, and the events are the same.
LEMMA SameStamp ==
    /\ \A p, nowUs : Source!Stamp(p, nowUs) <=> Stamp(p, nowUs)
    /\ \A p : Source!StampedEvent(p) = StampedEvent(p)
    /\ Source!NoEvent = NoEvent /\ Source!InfoEvent = InfoEvent
    /\ Source!Mixed <=> Mixed
<1>1. \A p, nowUs : Source!Stamp(p, nowUs) <=> Stamp(p, nowUs)
  BY SameNormalize DEF Stamp, RawTime, Source!Stamp, Source!RawTime
<1>2. \A p : Source!StampedEvent(p) = StampedEvent(p)
  BY DEF StampedEvent, NoCapture, Source!StampedEvent, Source!NoCapture
<1>3. Source!NoEvent = NoEvent /\ Source!InfoEvent = InfoEvent
  BY DEF NoEvent, InfoEvent, NoCapture, Source!NoEvent, Source!InfoEvent, Source!NoCapture
<1> QED
  BY <1>1, <1>2, <1>3 DEF Mixed, Source!Mixed

\* The handler of the abstract source is the handler.
LEMMA SameHandler ==
    ASSUME NEW p
    PROVE  HandleParsedFrame(p) => Source!HandleParsedFrame(p)
<1>1. ASSUME NEW nowUs, PassOn(p, nowUs) PROVE Source!PassOn(p, nowUs)
  BY <1>1, SameStamp
     DEF PassOn, Emit, clockVars, Source!PassOn, Source!Emit, Source!clockVars
<1>2. ASSUME NEW nowUs, HoldPointCloud(p, nowUs) PROVE Source!HoldPointCloud(p, nowUs)
  BY <1>2, SameStamp DEF HoldPointCloud, Emit, Source!HoldPointCloud, Source!Emit
<1>3. ASSUME NEW nowUs, DepthAlone(p, nowUs) PROVE Source!DepthAlone(p, nowUs)
  BY <1>3, SameStamp
     DEF DepthAlone, Emit, pairVars, Source!DepthAlone, Source!Emit, Source!pairVars
<1>4. ASSUME Combine(p) PROVE Source!Combine(p)
  BY <1>4, SameStamp
     DEF Combine, Emit, clockVars, Source!Combine, Source!Emit, Source!clockVars
<1> QED
  BY <1>1, <1>2, <1>3, <1>4
     DEF HandleParsedFrame, cameraVars, Source!HandleParsedFrame, Source!cameraVars

\* The camera sends the same.
LEMMA SameCamera ==
    /\ Source!Sends = Sends
    /\ \A send : Sent(send) => Source!Sent(send)
<1>1. Source!Sends = Sends
  BY DEF Sends, CapturePayloads, Source!Sends, Source!CapturePayloads
<1> QED
  BY <1>1 DEF Sent, clockVars, pairVars, Source!Sent, Source!clockVars, Source!pairVars

\* And a session begins and ends the same way.
LEMMA SameSession ==
    /\ StreamInit => Source!StreamInit
    /\ BeginSession => Source!BeginSession
    /\ EndSession => Source!EndSession
BY DEF StreamInit, BeginSession, EndSession, NormalizerAfterReset, NoEvent, NoCapture, pairVars,
       Source!StreamInit, Source!BeginSession, Source!EndSession,
       Source!NormalizerAfterReset, Source!NoEvent, Source!NoCapture, Source!pairVars

\* A step of the session is a step of the abstract source, or none.
LEMMA StepOfSource ==
    ASSUME SessionInv, [Next]_sessionVars
    PROVE  [Source!Next]_Source!sourceVars
<1>1. LinkStep
  BY StepOfLink DEF SessionInv
<1>2. ASSUME Streaming PROVE DeviceIsOpen
  BY <1>2 DEF Streaming, DeviceIsOpen
<1>3. ASSUME Streaming' PROVE DeviceIsOpen'
  BY <1>3 DEF Streaming, DeviceIsOpen
<1>4. CASE LinkStutters
  BY <1>4 DEF LinkStutters, streamVars, cameraVars, clockVars, pairVars, Source!sourceVars,
     Source!streamVars, Source!cameraVars, Source!clockVars, Source!pairVars
<1>5. CASE LinkBegins
  <2>1. Source!Open
    BY <1>5, SameSession DEF LinkBegins, Source!Open
  <2> QED
    BY <2>1 DEF Source!Next
<1>6. CASE LinkEnds
  <2>1. Source!Close
    BY <1>6, SameSession DEF LinkEnds, Source!Close
  <2> QED
    BY <2>1 DEF Source!Next
<1>7. CASE LinkSends
  <2>1. PICK send \in Sends :
          /\ Sent(send)
          /\ \/ /\ Len(OnTheWay) < BufferCount
                /\ OnTheWay' = Append(OnTheWay, send.payload)
                /\ UNCHANGED lossy
             \/ Lost /\ UNCHANGED OnTheWay
    BY <1>7 DEF LinkSends
  <2>2. DeviceIsOpen /\ DeviceIsOpen'
    BY <1>2, <1>3, <1>7 DEF LinkSends
  <2>3. Source!Send
    BY <2>1, <2>2, SameCamera DEF Lost, Source!Send, Source!Lost
  <2> QED
    BY <2>3 DEF Source!Next
<1>8. CASE LinkTakes
  <2>1. /\ OnTheWay # <<>> /\ OnTheWay' = Tail(OnTheWay)
        /\ DeviceIsOpen /\ DeviceIsOpen'
    BY <1>2, <1>3, <1>8 DEF LinkTakes
  <2>2. CASE HandleParsedFrame(Head(OnTheWay))
    <3>1. Source!Poll
      BY <2>1, <2>2, SameHandler DEF Source!Poll
    <3> QED
      BY <3>1 DEF Source!Next
  <2>3. CASE Loses
    <3>1. Source!LosePayload
      BY <2>1, <2>3 DEF Loses, Lost, cameraVars, clockVars, pairVars, Source!LosePayload,
         Source!Lost, Source!cameraVars, Source!clockVars, Source!pairVars
    <3> QED
      BY <3>1 DEF Source!Next
  <2> QED
    BY <1>8, <2>2, <2>3 DEF LinkTakes
<1> QED
  BY <1>1, <1>4, <1>5, <1>6, <1>7, <1>8 DEF LinkStep

\* ImplementsSource: the driver, its buffers and ReadFrame deliver payloads in
\* the order in which the camera sends them, each at most once and unharmed.
THEOREM SourceIsImplemented == Spec => ImplementsSource
<1>1. Init => Source!Init
  <2> SUFFICES ASSUME Init PROVE Source!Init
    OBVIOUS
  <2>1. DeviceInv /\ pc = "closed" /\ StreamInit
    BY InvInitially DEF Init, DeviceInit
  <2>2. OnTheWay = <<>>
    BY <2>1, NothingOnTheWay DEF EmptyWhenIdle, Streaming, ReadStages
  <2>3. DeviceIsOpen = FALSE
    BY <2>1 DEF DeviceIsOpen, OpenStages, ReadStages
  <2> QED
    BY <2>1, <2>2, <2>3, SameSession DEF Source!Init
<1>2. SessionInv /\ [Next]_sessionVars => [Source!Next]_Source!sourceVars
  BY StepOfSource
<1> QED
  BY <1>1, <1>2, SessionInvHolds, PTL DEF Spec, ImplementsSource, Source!Spec

=============================================================================
