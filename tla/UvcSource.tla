----------------------------- MODULE UvcSource -----------------------------
(***************************************************************************)
(* What the UVC transport promises about the way of a payload: payloads    *)
(* reach HandleParsedFrame in the order in which the camera sends them,    *)
(* each once.  One may be lost, because the driver has no buffer for it,   *)
(* or because its buffer cannot be given back, or because it does not      *)
(* parse.  UvcSession implements this with the driver and its buffers.     *)
(***************************************************************************)
EXTENDS UvcStream

CONSTANT QueueLimit  \* payloads that the driver can hold

VARIABLES isOpen,    \* the device is open
          payloads   \* payloads on their way to the host

sourceVars == <<isOpen, payloads, streamVars>>

Init ==
    /\ StreamInit
    /\ isOpen = FALSE
    /\ payloads = <<>>

Open ==
    /\ ~isOpen
    /\ isOpen' = TRUE
    /\ BeginSession
    /\ UNCHANGED payloads

Send ==
    /\ isOpen
    /\ \E send \in Sends :
        /\ Sent(send)
        /\ \/ /\ Len(payloads) < QueueLimit
              /\ payloads' = Append(payloads, send.payload)
              /\ UNCHANGED lossy
           \/ Lost /\ UNCHANGED payloads
    /\ UNCHANGED isOpen

LosePayload ==
    /\ isOpen
    /\ payloads # <<>>
    /\ payloads' = Tail(payloads)
    /\ Lost
    /\ UNCHANGED <<isOpen, profile, cameraVars, clockVars, pairVars, emitted>>

Poll ==
    /\ isOpen
    /\ payloads # <<>>
    /\ HandleParsedFrame(Head(payloads))
    /\ payloads' = Tail(payloads)
    /\ UNCHANGED isOpen

Close ==
    /\ isOpen
    /\ isOpen' = FALSE
    /\ payloads' = <<>>
    /\ EndSession

Next == Open \/ Send \/ LosePayload \/ Poll \/ Close

Spec == Init /\ [][Next]_sourceVars
=============================================================================
