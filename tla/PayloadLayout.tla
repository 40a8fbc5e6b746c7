--------------------------- MODULE PayloadLayout ---------------------------
(***************************************************************************)
(* The payloads of the three protocols (serial_protocol.cpp,               *)
(* udp_protocol.cpp, uvc_protocol.cpp): the least length that a parser     *)
(* asks for, and the fields that it then reads one after the other.  The   *)
(* code states the two apart from each other, the length as a sum of       *)
(* constants and the fields by moving an offset.                           *)
(***************************************************************************)
EXTENDS Integers, Sequences

CONSTANTS DepthWidth,        \* kDepthWidth, 40
          DepthHeight,       \* kDepthHeight, 30
          GroupBins,         \* kHistogramWidth / kDepthWidth, 64
          HistogramHeight,   \* kHistogramHeight, 30
          InfTail            \* 569, what an "inf" holds after its strings

CalibrationBytes == 12 * 4   \* kCalibrationParameterCount floats

ASSUME PayloadLayoutAssumption ==
    /\ DepthWidth \in Nat \ {0} /\ DepthHeight \in Nat \ {0}
    /\ GroupBins \in Nat \ {0} /\ HistogramHeight \in Nat \ {0}
    /\ InfTail \in Nat /\ CalibrationBytes <= InfTail

PointCount     == DepthWidth * DepthHeight
CloudBytes     == PointCount * 12
DepthBytes     == PointCount * 2
PixelBytes     == PointCount * 4
GroupBytes     == GroupBins * 2
HistogramBytes == DepthWidth * HistogramHeight * GroupBytes
ObservedTail   == 72   \* kObservedTailBytes

\* Those of a fixed length, and those that declare their length at offset 4.
FixedLayouts    == {"serial info", "serial data", "udp", "depth", "cloud"}
DeclaredLayouts == {"pcd", "dep", "inf", "raw"}
Layouts         == FixedLayouts \cup DeclaredLayouts

\* The constants of the code; confidence values are as large as depth values.
LeastBytes(layout) ==
    CASE layout = "serial info" -> 1 + 16 + 16 + 16 + 16 + 4 + 1
      [] layout = "serial data" -> 1 + 4 + CalibrationBytes + DepthBytes
      [] layout = "udp"         -> 2 + 2 + 4 + 2 + 4 + 4 + 2 + 2 + 2 + 1 + CalibrationBytes + PixelBytes
      [] layout = "depth"       -> DepthBytes
      [] layout = "cloud"       -> CloudBytes + DepthBytes
      [] layout = "pcd"         -> 4 + 4 + 4 + 4 + CloudBytes + DepthBytes
      [] layout = "dep"         -> 4 + 4 + 4 + 4 + CalibrationBytes + DepthBytes + DepthBytes
      [] layout = "inf"         -> 4 + 4 + 16 + 16 + 16 + 16 + InfTail
      [] layout = "raw"         -> 4 + 4 + 32 + 16 + 4 + HistogramBytes + DepthBytes + DepthBytes
                                    + CalibrationBytes

Read(field, bytes) == [field |-> field, bytes |-> bytes]

Calibration == Read("calibration", CalibrationBytes)
Depth       == Read("depth", DepthBytes)
Confidence  == Read("confidence", DepthBytes)
Cloud       == Read("pointCloud", CloudBytes)

\* What the parsers read, in order, after the checks of the length.  "header"
\* stands for the small fields up to the first large one.
Reads(layout) ==
    CASE layout = "serial info" -> <<Read("strings", 70)>>
      [] layout = "serial data" -> <<Read("header", 5), Calibration, Depth>>
      [] layout = "udp"         -> <<Read("header", 25), Calibration, Read("pixels", PixelBytes)>>
      [] layout = "depth"       -> <<Depth>>
      [] layout = "cloud"       -> <<Cloud, Confidence>>
      [] layout = "pcd"         -> <<Read("header", 16), Cloud, Confidence>>
      [] layout = "dep"         -> <<Read("header", 16), Calibration, Depth, Confidence>>
      [] layout = "inf"         -> <<Read("header", 72), Calibration>>
      [] layout = "raw"         -> <<Read("header", 60), Read("histogram", HistogramBytes),
                                     Depth, Confidence, Calibration>>

\* What follows the last of them: the tail of a long cloud payload, and all
\* that is left of the declared length of "inf" and "raw".
TailBytes(layout, bytes, declared, offset) ==
    CASE layout = "cloud" -> IF bytes >= LeastBytes("cloud") + ObservedTail THEN ObservedTail ELSE 0
      [] layout \in {"inf", "raw"} -> declared - offset
      [] OTHER -> 0
=============================================================================
