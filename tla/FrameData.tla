----------------------------- MODULE FrameData -----------------------------
(***************************************************************************)
(* The data of one frame on its way from a payload to a FrameSet: the      *)
(* parsers of the three protocols, NormalizeMeasurementOrientation, whose  *)
(* loops mirror every grid in place, and the completion of the grid that   *)
(* the payload did not have (frame_event.cpp, camera.cpp).                 *)
(*                                                                         *)
(* A value is represented by the offset in the payload that it was read    *)
(* from.  A grid has rows and columns; a column of the histogram is one    *)
(* group of GroupBins bins, which move together.                           *)
(***************************************************************************)
EXTENDS PayloadLayout, Undistortion

CONSTANTS Payloads,     \* what the device may send
          IsMarker(_),  \* whether the depth at an offset is at most 2
          IsDepth(_)    \* whether the z at an offset is finite and positive

\* What a parser looks at: the layout ("unknown" if the type at the front is
\* none of them), the length, the length that is declared, and whether the
\* header holds the values that are asked for.  And the calibration, if the
\* layout has one.
PayloadShapes == [layout : Layouts \cup {"unknown"}, bytes : Nat, declared : Nat,
                  sound : BOOLEAN, calibration : CameraCalibrations]

ASSUME FrameDataAssumption ==
    /\ Payloads \subseteq PayloadShapes
    /\ \A at \in 0 .. PixelBytes : IsMarker(at) \in BOOLEAN /\ IsDepth(at) \in BOOLEAN

VARIABLES
    pc,                \* the next step
    payload,
    next,              \* index of the next field
    offset,            \* the parser's offset
    frame,             \* the measurement, and then the FrameSet
    latestCalibration, \* of the Camera
    grid,              \* index of the grid that is being mirrored
    y, x,              \* the loop counters
    parsed,            \* history: the measurement as the parser left it
    sentCalibration    \* history: latestCalibration as the device sent it

parseVars     == <<payload, next, offset>>
loopVars      == <<grid, y, x>>
calibrations  == <<latestCalibration, sentCalibration>>
frameDataVars == <<pc, parseVars, frame, parsed, loopVars, calibrations>>

GridNames == <<"depth", "pointCloud", "confidence", "histogram">>

NoGrid == <<>>
EmptyFrame == [depth |-> NoGrid, pointCloud |-> NoGrid, confidence |-> NoGrid,
               histogram |-> NoGrid]
NoCalibration == <<>>

Columns == 0 .. DepthWidth - 1

\* height rows of values that lie stride bytes apart from start on.
GridAt(start, stride, height) ==
    [row \in 0 .. height - 1 |->
        [column \in Columns |-> start + stride * (row * DepthWidth + column)]]

\* A coordinate is a factor times the value at an offset.
Times(factor, of) == [factor |-> factor, of |-> of]
Point(factorX, ofX, factorY, ofY, ofZ) ==
    [x |-> Times(factorX, ofX), y |-> Times(factorY, ofY), z |-> Times(1, ofZ)]
NegatedX(point) == [point EXCEPT !.x.factor = Negative(@)]

PointCloudAt(start) ==
    [row \in 0 .. DepthHeight - 1 |-> [column \in Columns |->
        LET at == start + 12 * (row * DepthWidth + column)
        IN Point(1, at, 1, at + 4, at + 8)]]

Init ==
    /\ pc = "idle"
    /\ payload \in Payloads
    /\ next = 1 /\ offset = 0
    /\ frame = EmptyFrame /\ parsed = EmptyFrame
    /\ grid = 1 /\ y = 0 /\ x = 0
    /\ latestCalibration = NoCalibration /\ sentCalibration = NoCalibration

\* The next payload; the Camera keeps its calibration.
Receive ==
    /\ pc \in {"idle", "done"}
    /\ pc' = "check"
    /\ payload' \in Payloads
    /\ next' = 1 /\ offset' = 0
    /\ frame' = EmptyFrame /\ parsed' = EmptyFrame
    /\ grid' = 1 /\ y' = 0 /\ x' = 0
    /\ UNCHANGED calibrations

(***************************************************************************)
(* The parsers                                                             *)
(***************************************************************************)

\* A mutant: what was received is not compared with what was declared.
AcceptedAsDeclared ==
    \/ payload.layout = "udp" /\ payload.bytes = LeastBytes("udp")
    \/ payload.layout \in FixedLayouts \ {"udp"} /\ payload.bytes >= LeastBytes(payload.layout)
    \/ /\ payload.layout \in DeclaredLayouts
       /\ payload.bytes >= 8
       /\ payload.declared >= LeastBytes(payload.layout)

Accepted ==
    \/ payload.layout = "udp" /\ payload.bytes = LeastBytes("udp")
    \/ payload.layout \in FixedLayouts \ {"udp"} /\ payload.bytes >= LeastBytes(payload.layout)
    \/ /\ payload.layout \in DeclaredLayouts
       /\ payload.bytes >= 8
       /\ payload.declared >= LeastBytes(payload.layout)
       /\ payload.bytes >= payload.declared

Check ==
    /\ pc = "check"
    /\ pc' = IF Accepted THEN "read" ELSE "idle"
    /\ UNCHANGED <<parseVars, frame, parsed, loopVars, calibrations>>

\* A UDP datagram shows only when its header has been read that it is not a
\* whole frame of the right shape.
HeaderRejected == payload.layout = "udp" /\ next = 2 /\ ~payload.sound

RejectHeader ==
    /\ pc = "read" /\ HeaderRejected
    /\ pc' = "idle"
    /\ UNCHANGED <<parseVars, frame, parsed, loopVars, calibrations>>

\* The grids of a measurement after the field at the current offset.
WithField(field) ==
    CASE field = "depth"      -> [parsed EXCEPT !.depth = GridAt(offset, 2, DepthHeight)]
      [] field = "confidence" -> [parsed EXCEPT !.confidence = GridAt(offset, 2, DepthHeight)]
      [] field = "pixels"     -> [parsed EXCEPT !.depth = GridAt(offset, 4, DepthHeight),
                                                !.confidence = GridAt(offset + 2, 4, DepthHeight)]
      [] field = "pointCloud" -> [parsed EXCEPT !.pointCloud = PointCloudAt(offset)]
      [] field = "histogram"  -> [parsed EXCEPT
                                    !.histogram = GridAt(offset, GroupBytes, HistogramHeight)]
      [] OTHER                -> parsed

\* A calibration is turned, and kept if it is valid.
Learn(field) ==
    IF field = "calibration" /\ HasCalibrationNumbers(payload.calibration)
    THEN /\ latestCalibration' = MirroredCalibration(payload.calibration, DepthWidth)
         /\ sentCalibration' = payload.calibration
    ELSE UNCHANGED calibrations

ReadField ==
    /\ pc = "read" /\ ~HeaderRejected
    /\ next <= Len(Reads(payload.layout))
    /\ LET read == Reads(payload.layout)[next]
       IN /\ parsed' = WithField(read.field)
          /\ Learn(read.field)
          /\ offset' = offset + read.bytes
    /\ next' = next + 1
    /\ UNCHANGED <<pc, payload, frame, loopVars>>

ReadTail ==
    /\ pc = "read"
    /\ next > Len(Reads(payload.layout))
    /\ offset' = offset + TailBytes(payload.layout, payload.bytes, payload.declared, offset)
    /\ frame' = parsed
    /\ pc' = IF parsed = EmptyFrame THEN "idle" ELSE "row"
    /\ UNCHANGED <<payload, next, parsed, loopVars, calibrations>>

(***************************************************************************)
(* NormalizeMeasurementOrientation                                         *)
(***************************************************************************)

Name == GridNames[grid]

Rows == IF frame[Name] = NoGrid THEN 0
        ELSE IF Name = "histogram" THEN HistogramHeight ELSE DepthHeight

\* Points change the sign of x row by row, before the row is mirrored.
EnterRow ==
    /\ pc = "row" /\ y < Rows
    /\ frame' = IF Name # "pointCloud" THEN frame
                ELSE [frame EXCEPT !.pointCloud[y] = [c \in Columns |-> NegatedX(@[c])]]
    /\ x' = 0
    /\ pc' = "swap"
    /\ UNCHANGED <<parseVars, parsed, grid, y, calibrations>>

\* A mutant: the loop runs over the whole row and undoes its first half.
SwapAll ==
    /\ pc = "swap"
    /\ LET row == frame[Name][y]
           mirror == DepthWidth - 1 - x
       IN IF x < DepthWidth
          THEN /\ frame' = [frame EXCEPT ![Name][y] =
                                [row EXCEPT ![x] = row[mirror], ![mirror] = row[x]]]
               /\ x' = x + 1
               /\ UNCHANGED <<pc, y>>
          ELSE pc' = "row" /\ y' = y + 1 /\ UNCHANGED <<frame, x>>
    /\ UNCHANGED <<parseVars, parsed, grid, calibrations>>

Swap ==
    /\ pc = "swap"
    /\ x < DepthWidth \div 2
    /\ LET row == frame[Name][y]
           mirror == DepthWidth - 1 - x
       IN frame' = [frame EXCEPT ![Name][y] =
                        [row EXCEPT ![x] = row[mirror], ![mirror] = row[x]]]
    /\ x' = x + 1
    /\ UNCHANGED <<pc, parseVars, parsed, grid, y, calibrations>>

LeaveRow ==
    /\ pc = "swap"
    /\ x >= DepthWidth \div 2
    /\ y' = y + 1
    /\ pc' = "row"
    /\ UNCHANGED <<parseVars, frame, parsed, grid, x, calibrations>>

LeaveGrid ==
    /\ pc = "row" /\ y >= Rows
    /\ IF grid < Len(GridNames) THEN grid' = grid + 1 /\ UNCHANGED pc
       ELSE pc' = "complete" /\ UNCHANGED grid
    /\ y' = 0
    /\ UNCHANGED <<parseVars, frame, parsed, x, calibrations>>

(***************************************************************************)
(* Completion of the FrameSet                                              *)
(***************************************************************************)

NoDepth == -1   \* the value 0 of a depth that has no z

\* BuildDepthFromPointCloud.
DepthOf(cloud) ==
    [row \in DOMAIN cloud |-> [column \in DOMAIN cloud[row] |->
        LET at == cloud[row][column].z.of IN IF IsDepth(at) THEN at ELSE NoDepth]]

\* BuildPointCloudFromDepth: markers keep their value and have no direction;
\* one pixel without a ray leaves the frame without a cloud.
PointCloudOf(depth, calibration) ==
    LET RayOf(row, column) ==
            IF IsMarker(depth[row][column]) THEN Ray(0, 0)
            ELSE UndistortPixelToRay(calibration, column, row)
    IN IF \E row \in DOMAIN depth : \E column \in Columns : ~RayOf(row, column).defined
       THEN NoGrid
       ELSE [row \in DOMAIN depth |-> [column \in Columns |->
                LET at  == depth[row][column]
                    ray == RayOf(row, column)
                IN Point(ray.x, at, ray.y, at, at)]]

Complete ==
    /\ pc = "complete"
    /\ frame' =
        IF frame.depth = NoGrid /\ frame.pointCloud # NoGrid
        THEN [frame EXCEPT !.depth = DepthOf(frame.pointCloud)]
        ELSE IF frame.pointCloud = NoGrid /\ frame.depth # NoGrid
                /\ latestCalibration # NoCalibration
        THEN [frame EXCEPT !.pointCloud = PointCloudOf(frame.depth, latestCalibration)]
        ELSE frame
    /\ pc' = "done"
    /\ UNCHANGED <<parseVars, parsed, loopVars, calibrations>>

Parse == Check \/ RejectHeader \/ ReadField \/ ReadTail
Turn  == EnterRow \/ Swap \/ LeaveRow \/ LeaveGrid
Next  == Receive \/ Parse \/ Turn \/ Complete

Spec == Init /\ [][Next]_frameDataVars

(***************************************************************************)
(* Properties                                                              *)
(***************************************************************************)

\* No parser reads behind what was received, or behind what the device has
\* declared, whatever the lengths: the sums of the constants and the moves of
\* the offset describe the same layouts.
ReadsWithinPayload ==
    /\ offset <= payload.bytes
    /\ payload.layout \in DeclaredLayouts => offset <= payload.declared

\* The sensor's view, row by row from the other side.
Reflection(values) ==
    [row \in DOMAIN values |-> [column \in Columns |-> values[row][DepthWidth - 1 - column]]]

ReflectedPoints(cloud) ==
    [row \in DOMAIN cloud |-> [column \in Columns |-> NegatedX(cloud[row][DepthWidth - 1 - column])]]

\* README.md:236: an index means the same sample in every grid.  Each grid of a
\* FrameSet is the reflection of what the sensor sent, of the same sample in
\* all of them; a depth that comes from a point is that of the same sample.
FrameIsReflection ==
    pc = "done" =>
        /\ frame.confidence = Reflection(parsed.confidence)
        /\ frame.histogram = Reflection(parsed.histogram)
        /\ parsed.depth # NoGrid => frame.depth = Reflection(parsed.depth)
        /\ parsed.pointCloud # NoGrid =>
            /\ frame.pointCloud = ReflectedPoints(parsed.pointCloud)
            /\ parsed.depth = NoGrid => frame.depth = Reflection(DepthOf(parsed.pointCloud))

\* A cloud that is derived from the turned depth with the turned calibration is
\* the reflection of the cloud that the sensor's own depth and calibration
\* give, distortion, markers and missing rays included.
DerivedCloudIsReflection ==
    pc = "done" /\ parsed.pointCloud = NoGrid /\ frame.pointCloud # NoGrid =>
        frame.pointCloud = ReflectedPoints(PointCloudOf(parsed.depth, sentCalibration))
=============================================================================
