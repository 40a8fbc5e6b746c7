--------------------------- MODULE CameraSession ---------------------------
(***************************************************************************)
(* What a Camera shows of itself between two calls, whatever its transport *)
(* and however it opens: a session that is closed and blank, or open with  *)
(* a growing count of frames and a calibration that is never taken back.   *)
(* Camera.tla implements it.                                               *)
(***************************************************************************)
EXTENDS Naturals

CONSTANTS Calibrations,  \* valid calibrations in the public orientation
          NoCalibration

VARIABLES isOpen, calibration, frames

sessionVars == <<isOpen, calibration, frames>>

Blank == calibration = NoCalibration /\ frames = 0

Init == ~isOpen /\ Blank

\* A session starts from a closed one, with a bootstrapped calibration or none.
Start ==
    /\ ~isOpen
    /\ isOpen'
    /\ frames' = 0
    /\ calibration' \in Calibrations \cup {NoCalibration}

Learn ==
    /\ isOpen
    /\ calibration' \in Calibrations
    /\ UNCHANGED <<isOpen, frames>>

\* A frame is numbered, and may bring a calibration along.
Deliver ==
    /\ isOpen
    /\ frames' = frames + 1
    /\ calibration' \in Calibrations \cup {calibration}
    /\ UNCHANGED isOpen

Finish ==
    /\ isOpen
    /\ ~isOpen'
    /\ Blank'

Next == Start \/ Learn \/ Deliver \/ Finish

Spec == Init /\ [][Next]_sessionVars
=============================================================================
