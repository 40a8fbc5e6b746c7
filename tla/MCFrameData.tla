---------------------------- MODULE MCFrameData ----------------------------
(***************************************************************************)
(* Grids of three rows and five columns, so there is a column that stays   *)
(* in its place; lengths around every limit; calibrations in a field of    *)
(* 101 numbers, some without a ray for some pixel.                       *)
(***************************************************************************)
EXTENDS FrameData

MCIsMarker(at) == at % 7 = 3
MCIsDepth(at)  == at % 7 # 5

\* Without focal length, without distortion, with all of it, and one that has no
\* ray for some pixel.
MCCalibrations ==
    {CalibrationFromRaw(raw) : raw \in
        {<<0, 76, 3, 1, 48, 78, 61, 81, 75, 9, 78, 2>>,
         <<31, 76, 2, 1, 0, 0, 0, 0, 0, 0, 0, 0>>,
         <<31, 76, 3, 1, 48, 78, 61, 81, 75, 9, 78, 2>>,
         <<71, 30, 50, 0, 61, 70, 71, 61, 51, 82, 20, 30>>,
         <<65, 29, 0, 2, 31, 42, 24, 87, 56, 84, 90, 13>>,
         <<67, 50, 0, 1, 86, 100, 9, 21, 98, 76, 6, 39>>}}

Plain == CHOOSE c \in MCCalibrations : c.fx = 71

Payload(layout, bytes, declared, sound, calibration) ==
    [layout |-> layout, bytes |-> bytes, declared |-> declared, sound |-> sound,
     calibration |-> calibration]

\* Received and declared lengths on both sides of what a layout asks for.
LengthsOf(layout) ==
    LET least == LeastBytes(layout)
        received == {0, 7, 8, least - 1, least, least + 1, least + 71, least + 72}
        declared == {least - 1, least, least + 1, least + 100}
    IN {Payload(layout, bytes, d, TRUE, Plain) :
            bytes \in received, d \in IF layout \in DeclaredLayouts THEN declared ELSE {0}}

MCPayloads ==
    {Payload("unknown", 100, 100, TRUE, Plain), Payload("udp", LeastBytes("udp"), 0, FALSE, Plain)}
    \cup UNION {LengthsOf(layout) : layout \in Layouts}
    \cup {Payload(layout, LeastBytes(layout), LeastBytes(layout), TRUE, c) :
            layout \in {"serial data", "udp", "dep", "inf", "raw"}, c \in MCCalibrations}
=============================================================================
