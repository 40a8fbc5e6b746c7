-------------------------- MODULE FrameDataProofs --------------------------
(***************************************************************************)
(* Proofs about FrameData for every size of the grids, every set of        *)
(* payloads and every length that they have or declare: no parser reads    *)
(* behind the end, the loops that mirror in place leave each grid as the   *)
(* reflection of what the sensor sent, and so is a cloud that is derived   *)
(* from a turned depth with the turned calibration.                        *)
(***************************************************************************)
EXTENDS FrameData, WellFoundedInduction, TLAPS

(***************************************************************************)
(* Lengths                                                                 *)
(***************************************************************************)

\* The sizes of the large fields are natural numbers.
LEMMA Sizes ==
    /\ DepthWidth \in Nat /\ DepthWidth >= 1 /\ DepthHeight \in Nat /\ DepthHeight >= 1
    /\ HistogramHeight \in Nat /\ HistogramHeight >= 1
    /\ CloudBytes \in Nat /\ DepthBytes \in Nat /\ PixelBytes \in Nat
    /\ GroupBytes \in Nat /\ HistogramBytes \in Nat
    /\ CalibrationBytes \in Nat /\ InfTail \in Nat /\ CalibrationBytes <= InfTail
    /\ ObservedTail \in Nat
  <1>1. /\ DepthWidth \in Nat /\ DepthWidth >= 1 /\ DepthHeight \in Nat /\ DepthHeight >= 1
        /\ HistogramHeight \in Nat /\ HistogramHeight >= 1 /\ GroupBins \in Nat
        /\ InfTail \in Nat /\ CalibrationBytes <= InfTail
    BY PayloadLayoutAssumption
  <1>2. \A a, b \in Nat : a * b \in Nat
    OBVIOUS
  <1>3. PointCount \in Nat /\ DepthWidth * HistogramHeight \in Nat /\ GroupBytes \in Nat
    BY <1>1, <1>2 DEF PointCount, GroupBytes
  <1>4. CloudBytes \in Nat /\ DepthBytes \in Nat /\ PixelBytes \in Nat
    BY <1>3 DEF CloudBytes, DepthBytes, PixelBytes
  <1>5. HistogramBytes \in Nat
    BY <1>2, <1>3 DEF HistogramBytes
  <1>6. CalibrationBytes \in Nat /\ ObservedTail \in Nat
    BY DEF CalibrationBytes, ObservedTail
  <1> QED BY <1>1, <1>3, <1>4, <1>5, <1>6

\* Where each read of a layout begins, and the last one ends.
Starts(layout) ==
    CASE layout = "serial info" -> <<0, 70>>
      [] layout = "serial data" -> <<0, 5, 5 + CalibrationBytes, 5 + CalibrationBytes + DepthBytes>>
      [] layout = "udp"         -> <<0, 25, 25 + CalibrationBytes, 25 + CalibrationBytes + PixelBytes>>
      [] layout = "depth"       -> <<0, DepthBytes>>
      [] layout = "cloud"       -> <<0, CloudBytes, CloudBytes + DepthBytes>>
      [] layout = "pcd"         -> <<0, 16, 16 + CloudBytes, 16 + CloudBytes + DepthBytes>>
      [] layout = "dep"         -> <<0, 16, 16 + CalibrationBytes, 16 + CalibrationBytes + DepthBytes,
                                     16 + CalibrationBytes + DepthBytes + DepthBytes>>
      [] layout = "inf"         -> <<0, 72, 72 + CalibrationBytes>>
      [] layout = "raw"         -> <<0, 60, 60 + HistogramBytes, 60 + HistogramBytes + DepthBytes,
                                     60 + HistogramBytes + DepthBytes + DepthBytes,
                                     60 + HistogramBytes + DepthBytes + DepthBytes + CalibrationBytes>>

\* What the moves of the offset and the sum of the constants have to do with each
\* other in one layout.
Consistent(layout) ==
    LET starts == Starts(layout)
        reads == Reads(layout)
        count == Len(reads)
    IN /\ count \in Nat /\ starts[1] = 0
       /\ \A n \in 1 .. count : starts[n + 1] = starts[n] + reads[n].bytes
       /\ \A n \in 1 .. count + 1 : starts[n] \in Nat /\ starts[n] <= LeastBytes(layout)
       /\ layout = "cloud" => starts[count + 1] = LeastBytes(layout)
       /\ LeastBytes(layout) \in Nat

\* In each of the layouts the two agree.
LEMMA LayoutsAreConsistent == \A layout \in Layouts : Consistent(layout)
  <1>0. ASSUME NEW layout \in Layouts
        PROVE  \/ layout = "serial info" \/ layout = "serial data" \/ layout = "udp"
               \/ layout = "depth" \/ layout = "cloud" \/ layout = "pcd" \/ layout = "dep"
               \/ layout = "inf" \/ layout = "raw"
    BY DEF Layouts, FixedLayouts, DeclaredLayouts
  <1> USE Sizes DEF Consistent, Starts, Reads, LeastBytes, Read, Calibration, Depth, Confidence, Cloud
  <1>1. Consistent("serial info")
    OBVIOUS
  <1>2. Consistent("serial data")
    OBVIOUS
  <1>3. Consistent("udp")
    OBVIOUS
  <1>4. Consistent("depth")
    OBVIOUS
  <1>5. Consistent("cloud")
    OBVIOUS
  <1>6. Consistent("pcd")
    OBVIOUS
  <1>7. Consistent("dep")
    OBVIOUS
  <1>8. Consistent("inf")
    OBVIOUS
  <1>9. Consistent("raw")
    OBVIOUS
  <1> HIDE DEF Consistent
  <1> QED BY <1>0, <1>1, <1>2, <1>3, <1>4, <1>5, <1>6, <1>7, <1>8, <1>9, Zenon

\* The inductive invariant of the parsers: while one reads, the payload has passed
\* the checks, and the offset is where the read begins.
ParseInv ==
    /\ payload \in PayloadShapes
    /\ offset \in Nat
    /\ pc = "check" => next = 1 /\ offset = 0
    /\ pc = "read" => /\ Accepted
                      /\ next \in 1 .. Len(Reads(payload.layout)) + 1
                      /\ offset = Starts(payload.layout)[next]
    /\ ReadsWithinPayload

\* A payload that was accepted holds what its layout asks for.
LEMMA AcceptedIsLongEnough ==
    ASSUME payload \in PayloadShapes, Accepted
    PROVE  /\ payload.layout \in Layouts
           /\ payload.bytes \in Nat /\ payload.declared \in Nat
           /\ payload.bytes >= LeastBytes(payload.layout)
           /\ payload.layout \in DeclaredLayouts =>
                 /\ payload.declared >= LeastBytes(payload.layout)
                 /\ payload.bytes >= payload.declared
  <1>1. payload.bytes \in Nat /\ payload.declared \in Nat
    BY DEF PayloadShapes
  <1>2. payload.layout \in Layouts
    BY DEF Accepted, Layouts, FixedLayouts
  <1>3. LeastBytes(payload.layout) \in Nat
    BY <1>2, LayoutsAreConsistent DEF Consistent
  <1>4. CASE payload.layout = "udp" /\ payload.bytes = LeastBytes("udp")
    BY <1>1, <1>2, <1>3, <1>4 DEF DeclaredLayouts
  <1>5. CASE payload.layout \in FixedLayouts \ {"udp"} /\ payload.bytes >= LeastBytes(payload.layout)
    BY <1>1, <1>2, <1>5 DEF DeclaredLayouts, FixedLayouts
  <1>6. CASE /\ payload.declared >= LeastBytes(payload.layout)
             /\ payload.bytes >= payload.declared
    BY <1>1, <1>2, <1>3, <1>6
  <1> QED BY <1>4, <1>5, <1>6 DEF Accepted

\* Nothing has been read of a payload that has just been received.
LEMMA NothingRead ==
    ASSUME NEW p \in PayloadShapes
    PROVE  /\ 0 <= p.bytes
           /\ p.layout \in DeclaredLayouts => 0 <= p.declared
  BY DEF PayloadShapes

\* The first payload.
LEMMA ParseInitially == Init => ParseInv
  <1> SUFFICES ASSUME Init PROVE ParseInv
    OBVIOUS
  <1>1. payload \in PayloadShapes /\ pc = "idle" /\ offset = 0
    BY FrameDataAssumption DEF Init
  <1> QED BY <1>1, NothingRead DEF ParseInv, ReadsWithinPayload

\* The next payload.
LEMMA ReceiveParses == ASSUME ParseInv, Receive PROVE ParseInv'
  <1>1. payload' \in PayloadShapes /\ pc' = "check" /\ offset' = 0 /\ next' = 1
    BY FrameDataAssumption DEF Receive
  <1> QED BY <1>1, NothingRead DEF ParseInv, ReadsWithinPayload

\* An accepted payload is read from its front.
LEMMA CheckParses == ASSUME ParseInv, Check PROVE ParseInv'
  <1>1. /\ pc = "check" /\ UNCHANGED <<payload, next, offset>>
        /\ pc' = "read" \/ pc' = "idle"
        /\ pc' = "read" => Accepted
    BY DEF Check, parseVars
  <1>2. next = 1 /\ offset = 0
    BY <1>1 DEF ParseInv
  <1>3. ASSUME pc' = "read"
        PROVE  1 \in 1 .. Len(Reads(payload.layout)) + 1 /\ 0 = Starts(payload.layout)[1]
    <2>1. payload.layout \in Layouts
      BY <1>1, <1>3, AcceptedIsLongEnough DEF ParseInv
    <2> QED BY <2>1, LayoutsAreConsistent DEF Consistent
  <1>4. Accepted' <=> Accepted
    BY <1>1 DEF Accepted
  <1>5. ReadsWithinPayload'
    BY <1>1 DEF ParseInv, ReadsWithinPayload
  <1> QED BY <1>1, <1>2, <1>3, <1>4, <1>5 DEF ParseInv

\* The offset stays where the next read begins, which is within the least length.
LEMMA ReadFieldParses == ASSUME ParseInv, ReadField PROVE ParseInv'
  <1> DEFINE layout == payload.layout
  <1>1. /\ pc = "read" /\ pc' = "read" /\ payload' = payload /\ next' = next + 1
        /\ next <= Len(Reads(layout))
        /\ offset' = offset + Reads(layout)[next].bytes
    BY DEF ReadField
  <1>2. /\ Accepted /\ payload \in PayloadShapes
        /\ next \in 1 .. Len(Reads(layout)) + 1 /\ offset = Starts(layout)[next]
    BY <1>1 DEF ParseInv
  <1>3. /\ layout \in Layouts
        /\ payload.bytes \in Nat /\ payload.declared \in Nat
        /\ payload.bytes >= LeastBytes(layout)
        /\ layout \in DeclaredLayouts => payload.declared >= LeastBytes(layout)
    BY <1>2, AcceptedIsLongEnough
  <1>4. /\ Len(Reads(layout)) \in Nat /\ LeastBytes(layout) \in Nat
        /\ \A n \in 1 .. Len(Reads(layout)) :
              Starts(layout)[n + 1] = Starts(layout)[n] + Reads(layout)[n].bytes
        /\ \A n \in 1 .. Len(Reads(layout)) + 1 :
              Starts(layout)[n] \in Nat /\ Starts(layout)[n] <= LeastBytes(layout)
    BY <1>3, LayoutsAreConsistent DEF Consistent
  <1> HIDE DEF layout
  <1>5. next \in 1 .. Len(Reads(layout)) /\ next + 1 \in 1 .. Len(Reads(layout)) + 1
    BY <1>1, <1>2, <1>4
  <1>6. /\ offset' = Starts(layout)[next + 1]
        /\ Starts(layout)[next + 1] \in Nat /\ Starts(layout)[next + 1] <= LeastBytes(layout)
    BY <1>1, <1>2, <1>4, <1>5
  <1>7. \A at, least, all \in Nat : at <= least /\ least <= all => at <= all
    OBVIOUS
  <1>8. /\ offset' <= payload.bytes
        /\ layout \in DeclaredLayouts => offset' <= payload.declared
    BY <1>3, <1>4, <1>6, <1>7
  <1>9. Accepted'
    BY <1>1, <1>2 DEF Accepted
  <1> QED BY <1>1, <1>2, <1>5, <1>6, <1>8, <1>9 DEF ParseInv, ReadsWithinPayload, layout

\* The tail ends with what was received or declared at the latest.
LEMMA ReadTailParses == ASSUME ParseInv, ReadTail PROVE ParseInv'
  <1> DEFINE layout == payload.layout
             tail == TailBytes(layout, payload.bytes, payload.declared, offset)
  <1>1. /\ pc = "read" /\ pc' \in {"idle", "row"} /\ payload' = payload
        /\ next > Len(Reads(layout))
        /\ offset' = offset + tail
    BY DEF ReadTail
  <1>2. /\ Accepted /\ payload \in PayloadShapes
        /\ next \in 1 .. Len(Reads(layout)) + 1 /\ offset = Starts(layout)[next]
    BY <1>1 DEF ParseInv
  <1>3. /\ layout \in Layouts
        /\ payload.bytes \in Nat /\ payload.declared \in Nat
        /\ payload.bytes >= LeastBytes(layout)
        /\ layout \in DeclaredLayouts =>
              payload.declared >= LeastBytes(layout) /\ payload.bytes >= payload.declared
    BY <1>2, AcceptedIsLongEnough
  <1>4. /\ Len(Reads(layout)) \in Nat /\ LeastBytes(layout) \in Nat
        /\ Starts(layout)[Len(Reads(layout)) + 1] \in Nat
        /\ Starts(layout)[Len(Reads(layout)) + 1] <= LeastBytes(layout)
        /\ layout = "cloud" => Starts(layout)[Len(Reads(layout)) + 1] = LeastBytes(layout)
    BY <1>3, LayoutsAreConsistent DEF Consistent
  <1>5. next = Len(Reads(layout)) + 1
    BY <1>1, <1>2, <1>4
  <1>6. /\ offset \in Nat /\ offset <= LeastBytes(layout)
        /\ layout = "cloud" => offset = LeastBytes(layout)
    BY <1>2, <1>4, <1>5
  <1>7. /\ offset + tail \in Nat /\ offset + tail <= payload.bytes
        /\ layout \in DeclaredLayouts => offset + tail <= payload.declared
    <2>1. CASE layout = "cloud"
      <3>1. tail = IF payload.bytes >= LeastBytes(layout) + ObservedTail THEN ObservedTail ELSE 0
        BY <2>1 DEF TailBytes
      <3>2. layout \notin DeclaredLayouts
        BY <2>1 DEF DeclaredLayouts
      <3> HIDE DEF tail
      <3> QED BY <1>3, <1>4, <1>6, <2>1, <3>1, <3>2, Sizes
    <2>2. CASE layout \in {"inf", "raw"}
      <3>1. tail = payload.declared - offset
        BY <2>2 DEF TailBytes
      <3>2. layout \in DeclaredLayouts
        BY <2>2 DEF DeclaredLayouts
      <3> HIDE DEF tail
      <3> QED BY <1>3, <1>6, <3>1, <3>2
    <2>3. CASE layout \notin {"cloud", "inf", "raw"}
      <3>1. tail = 0
        BY <2>3 DEF TailBytes
      <3> HIDE DEF tail
      <3> QED BY <1>3, <1>4, <1>6, <3>1
    <2> QED BY <2>1, <2>2, <2>3
  <1> HIDE DEF tail
  <1> QED BY <1>1, <1>2, <1>7 DEF ParseInv, ReadsWithinPayload

\* The other steps read nothing.
LEMMA OthersParse ==
    ASSUME ParseInv, UNCHANGED parseVars, pc' = pc \/ pc' \notin {"check", "read"}
    PROVE  ParseInv'
  BY DEF ParseInv, ReadsWithinPayload, Accepted, parseVars

\* Every step keeps the invariant.
LEMMA ParseStep == ASSUME ParseInv, [Next]_frameDataVars PROVE ParseInv'
  <1>1. CASE Receive \/ Check \/ ReadField \/ ReadTail
    BY <1>1, ReceiveParses, CheckParses, ReadFieldParses, ReadTailParses
  <1>2. CASE RejectHeader
    BY <1>2, OthersParse DEF RejectHeader
  <1>3. CASE Turn
    BY <1>3, OthersParse DEF Turn, EnterRow, Swap, LeaveRow, LeaveGrid
  <1>4. CASE Complete
    BY <1>4, OthersParse DEF Complete
  <1>5. CASE UNCHANGED frameDataVars
    BY <1>5, OthersParse DEF frameDataVars
  <1> QED BY <1>1, <1>2, <1>3, <1>4, <1>5 DEF Next, Parse

\* No parser reads behind what was received or behind what was declared, for every
\* payload and every size of the grids.
THEOREM ParsersStayInside == Spec => []ReadsWithinPayload
  <1>1. ParseInv /\ [Next]_frameDataVars => ParseInv'
    BY ParseStep
  <1>2. ParseInv => ReadsWithinPayload
    BY DEF ParseInv
  <1> QED BY <1>1, <1>2, ParseInitially, PTL DEF Spec

(***************************************************************************)
(* Grids and rows, and how they look on the way                            *)
(***************************************************************************)

GridSet == {"depth", "pointCloud", "confidence", "histogram"}

Height(name) == IF name = "histogram" THEN HistogramHeight ELSE DepthHeight
RowsOf(name) == 0 .. Height(name) - 1

\* What a grid holds: offsets, or points made of them.
Term == [factor : Int, of : Int]
Points == [x : Term, y : Term, z : Term]
Samples(name) == IF name = "pointCloud" THEN Points ELSE Int
GridsOf(name) == [RowsOf(name) -> [Columns -> Samples(name)]]

\* A measurement: a record of four grids, any of which may be missing.
IsMeasurement(f) ==
    /\ f = [depth |-> f.depth, pointCloud |-> f.pointCloud, confidence |-> f.confidence,
            histogram |-> f.histogram]
    /\ \A name \in GridSet : f[name] = NoGrid \/ f[name] \in GridsOf(name)

\* A sample, a row and a grid in the public orientation.
Turned(name, sample) == IF name = "pointCloud" THEN NegatedX(sample) ELSE sample
TurnedRow(name, row) == [c \in Columns |-> Turned(name, row[DepthWidth - 1 - c])]
TurnedGrid(name, g) == [r \in RowsOf(name) |-> TurnedRow(name, g[r])]

\* A row of which the first swaps columns on either side have changed places.
HalfTurned(name, row, swaps) ==
    [c \in Columns |-> Turned(name, IF c < swaps \/ c > DepthWidth - 1 - swaps
                                    THEN row[DepthWidth - 1 - c] ELSE row[c])]

\* A grid whose first rows are turned, and whose next row is the one given.
TurnedUpTo(name, g, rows, row) ==
    [r \in RowsOf(name) |-> IF r < rows THEN TurnedRow(name, g[r])
                            ELSE IF r = rows THEN row ELSE g[r]]

\* How far the grid at index n is, of a measurement m.
Progress(m, n) ==
    LET name == GridNames[n]
        g == m[name]
    IN IF g = NoGrid \/ n > grid THEN g
       ELSE IF n < grid \/ pc = "complete" THEN TurnedGrid(name, g)
       ELSE TurnedUpTo(name, g, y, IF pc = "swap" THEN HalfTurned(name, g[y], x) ELSE g[y])

Turning == pc \in {"row", "swap", "complete"}

\* The inductive invariant of the loops: they stand somewhere in the grids, and
\* everything before that place is turned, and nothing behind it.
TurnInv ==
    /\ IsMeasurement(parsed)
    /\ Turning => IsMeasurement(frame)
    /\ pc \in {"check", "read"} => grid = 1 /\ y = 0
    /\ Turning => /\ grid \in 1 .. 4
                  /\ \A n \in 1 .. 4 : frame[GridNames[n]] = Progress(parsed, n)
    /\ pc = "row" => y \in 0 .. Rows
    /\ pc = "complete" => grid = 4
    /\ pc = "swap" => /\ parsed[Name] # NoGrid
                      /\ y \in RowsOf(Name)
                      /\ x \in 0 .. DepthWidth \div 2
    /\ FrameIsReflection

(***************************************************************************)
(* Lemmas about rows and grids                                             *)
(***************************************************************************)

\* The grids have names of their own.
LEMMA NamesOfGrids ==
    /\ Len(GridNames) = 4
    /\ GridNames[1] = "depth" /\ GridNames[2] = "pointCloud"
    /\ GridNames[3] = "confidence" /\ GridNames[4] = "histogram"
    /\ \A n \in 1 .. 4 : GridNames[n] \in GridSet
    /\ \A m, n \in 1 .. 4 : m # n => GridNames[m] # GridNames[n]
    /\ \A name \in GridSet : \E n \in 1 .. 4 : GridNames[n] = name
  <1>1. /\ Len(GridNames) = 4
        /\ GridNames[1] = "depth" /\ GridNames[2] = "pointCloud"
        /\ GridNames[3] = "confidence" /\ GridNames[4] = "histogram"
    BY DEF GridNames
  <1>2. \A n \in 1 .. 4 : n = 1 \/ n = 2 \/ n = 3 \/ n = 4
    OBVIOUS
  <1>3. 1 \in 1 .. 4 /\ 2 \in 1 .. 4 /\ 3 \in 1 .. 4 /\ 4 \in 1 .. 4
    OBVIOUS
  <1> HIDE DEF GridNames
  <1>4. \A n \in 1 .. 4 : GridNames[n] \in GridSet
    BY <1>1, <1>2 DEF GridSet
  <1>5. \A m, n \in 1 .. 4 : m # n => GridNames[m] # GridNames[n]
    BY <1>1, <1>2
  <1>6. \A name \in GridSet : \E n \in 1 .. 4 : GridNames[n] = name
    BY <1>1, <1>3 DEF GridSet
  <1> QED BY <1>1, <1>4, <1>5, <1>6

\* Every grid has a row.
LEMMA HeightIsPositive ==
    ASSUME NEW name \in GridSet
    PROVE  Height(name) \in Nat /\ Height(name) >= 1 /\ 0 \in RowsOf(name)
  BY Sizes DEF Height, RowsOf

\* A grid that is there is not the missing one.
LEMMA GridIsThere ==
    ASSUME NEW name \in GridSet, NEW g \in GridsOf(name)
    PROVE  g # NoGrid /\ DOMAIN g = RowsOf(name)
  <1>1. DOMAIN NoGrid = {}
    BY DEF NoGrid
  <1>2. DOMAIN g = RowsOf(name)
    BY DEF GridsOf
  <1>3. 0 \in RowsOf(name)
    BY HeightIsPositive
  <1> QED BY <1>1, <1>2, <1>3

\* Turning a sample leaves it a sample of its grid.
LEMMA TurnedSample ==
    ASSUME NEW name \in GridSet, NEW sample \in Samples(name)
    PROVE  Turned(name, sample) \in Samples(name)
  <1>1. CASE name = "pointCloud"
    <2>1. sample \in Points
      BY <1>1 DEF Samples
    <2>2. Negative(sample.x.factor) \in Int
      BY <2>1, UndistortionAssumption DEF Points, Term, Negative
    <2>3. NegatedX(sample) \in Points
      BY <2>1, <2>2 DEF NegatedX, Points, Term
    <2> QED BY <1>1, <2>3 DEF Turned, Samples
  <1>2. CASE name # "pointCloud"
    BY <1>2 DEF Turned
  <1> QED BY <1>1, <1>2

\* The column on the other side.
LEMMA MirrorColumn ==
    ASSUME NEW c \in Columns
    PROVE  DepthWidth - 1 - c \in Columns
  BY Sizes DEF Columns

\* A row at any stage is a row.
LEMMA RowsStayRows ==
    ASSUME NEW name \in GridSet, NEW row \in [Columns -> Samples(name)], NEW swaps
    PROVE  /\ TurnedRow(name, row) \in [Columns -> Samples(name)]
           /\ HalfTurned(name, row, swaps) \in [Columns -> Samples(name)]
  <1>1. \A c \in Columns : row[c] \in Samples(name) /\ row[DepthWidth - 1 - c] \in Samples(name)
    BY MirrorColumn
  <1>2. \A s \in Samples(name) : Turned(name, s) \in Samples(name)
    BY TurnedSample
  <1> QED BY <1>1, <1>2, Zenon DEF TurnedRow, HalfTurned

\* So are grids.
LEMMA GridsStayGrids ==
    ASSUME NEW name \in GridSet, NEW g \in GridsOf(name)
    PROVE  /\ TurnedGrid(name, g) \in GridsOf(name)
           /\ \A rows, row : row \in [Columns -> Samples(name)] =>
                 TurnedUpTo(name, g, rows, row) \in GridsOf(name)
  <1>1. \A r \in RowsOf(name) : g[r] \in [Columns -> Samples(name)]
    BY DEF GridsOf
  <1>2. \A r \in RowsOf(name) : TurnedRow(name, g[r]) \in [Columns -> Samples(name)]
    BY <1>1, RowsStayRows
  <1> QED BY <1>1, <1>2 DEF TurnedGrid, TurnedUpTo, GridsOf

\* One turn of the loop swaps two columns.
LEMMA SwapTurnsTwo ==
    ASSUME NEW name \in GridSet, NEW row \in [Columns -> Samples(name)],
           NEW at \in Nat, at < DepthWidth \div 2
    PROVE  LET half == HalfTurned(name, row, at)
               mirror == DepthWidth - 1 - at
           IN [half EXCEPT ![at] = half[mirror], ![mirror] = half[at]]
                = HalfTurned(name, row, at + 1)
  <1> DEFINE half == HalfTurned(name, row, at)
             mirror == DepthWidth - 1 - at
             swapped == [half EXCEPT ![at] = half[mirror], ![mirror] = half[at]]
             next1 == HalfTurned(name, row, at + 1)
  <1>1. /\ at \in Columns /\ mirror \in Columns /\ at < mirror
        /\ DepthWidth - 1 - at = mirror /\ DepthWidth - 1 - mirror = at
        /\ ~(at < at) /\ ~(at > mirror) /\ ~(mirror < at) /\ ~(mirror > mirror)
        /\ at < at + 1 /\ mirror > DepthWidth - 1 - (at + 1)
    BY Sizes DEF Columns
  <1>2. \A c \in Columns : c # at /\ c # mirror =>
            (c < at + 1 \/ c > DepthWidth - 1 - (at + 1)
                 <=> c < at \/ c > DepthWidth - 1 - at)
    BY Sizes DEF Columns
  <1>3. \A c \in Columns :
            half[c] = Turned(name, IF c < at \/ c > DepthWidth - 1 - at
                                   THEN row[DepthWidth - 1 - c] ELSE row[c])
    BY DEF HalfTurned
  <1>4. \A c \in Columns :
            next1[c] = Turned(name, IF c < at + 1 \/ c > DepthWidth - 1 - (at + 1)
                                    THEN row[DepthWidth - 1 - c] ELSE row[c])
    BY DEF HalfTurned
  <1>5. half = [c \in Columns |-> half[c]] /\ next1 = [c \in Columns |-> next1[c]]
    BY DEF HalfTurned
  <1>6. half[at] = Turned(name, row[at]) /\ half[mirror] = Turned(name, row[mirror])
    BY <1>1, <1>3
  <1>7. next1[at] = Turned(name, row[mirror]) /\ next1[mirror] = Turned(name, row[at])
    BY <1>1, <1>4
  <1>8. \A c \in Columns : c # at /\ c # mirror => next1[c] = half[c]
    BY <1>2, <1>3, <1>4
  <1> HIDE DEF half, next1, mirror
  <1>9. swapped = [c \in Columns |-> IF c = mirror THEN half[at]
                                     ELSE IF c = at THEN half[mirror] ELSE half[c]]
    BY <1>1, <1>5
  <1>10. \A c \in Columns : next1[c] = IF c = mirror THEN half[at]
                                       ELSE IF c = at THEN half[mirror] ELSE half[c]
    BY <1>1, <1>6, <1>7, <1>8
  <1>11. swapped = next1
    BY <1>5, <1>9, <1>10
  <1> QED BY <1>11 DEF half, next1, mirror

\* Before the first swap every column is in its place.
LEMMA NoSwapYet ==
    ASSUME NEW name \in GridSet, NEW row \in [Columns -> Samples(name)]
    PROVE  HalfTurned(name, row, 0) = [c \in Columns |-> Turned(name, row[c])]
  <1>1. \A c \in Columns : ~(c < 0) /\ ~(c > DepthWidth - 1 - 0)
    BY Sizes DEF Columns
  <1> QED BY <1>1 DEF HalfTurned

\* After the last swap the row is turned; a column in the middle stays.
LEMMA AllSwapped ==
    ASSUME NEW name \in GridSet, NEW row \in [Columns -> Samples(name)]
    PROVE  HalfTurned(name, row, DepthWidth \div 2) = TurnedRow(name, row)
  <1>1. \A c \in Columns :
            \/ c < DepthWidth \div 2 \/ c > DepthWidth - 1 - (DepthWidth \div 2)
            \/ c = DepthWidth - 1 - c
    BY Sizes DEF Columns
  <1>2. \A c \in Columns :
            (IF c < DepthWidth \div 2 \/ c > DepthWidth - 1 - (DepthWidth \div 2)
             THEN row[DepthWidth - 1 - c] ELSE row[c]) = row[DepthWidth - 1 - c]
    BY <1>1
  <1> QED BY <1>2 DEF HalfTurned, TurnedRow

\* A grid of which no row is turned is the grid.
LEMMA NoRowYet ==
    ASSUME NEW name \in GridSet, NEW g \in GridsOf(name)
    PROVE  TurnedUpTo(name, g, 0, g[0]) = g
  <1>1. \A r \in RowsOf(name) : ~(r < 0)
    BY HeightIsPositive DEF RowsOf
  <1>2. g = [r \in RowsOf(name) |-> g[r]]
    BY DEF GridsOf
  <1> QED BY <1>1, <1>2 DEF TurnedUpTo

\* A row that is turned makes room for the next one.
LEMMA NextRow ==
    ASSUME NEW name \in GridSet, NEW g \in GridsOf(name), NEW r \in RowsOf(name)
    PROVE  TurnedUpTo(name, g, r, TurnedRow(name, g[r])) = TurnedUpTo(name, g, r + 1, g[r + 1])
  <1>1. \A s \in RowsOf(name) : s < r + 1 <=> s < r \/ s = r
    BY HeightIsPositive DEF RowsOf
  <1>2. \A s \in RowsOf(name) :
            (IF s < r THEN TurnedRow(name, g[s])
             ELSE IF s = r THEN TurnedRow(name, g[r]) ELSE g[s])
            = (IF s < r + 1 THEN TurnedRow(name, g[s])
               ELSE IF s = r + 1 THEN g[r + 1] ELSE g[s])
    BY <1>1
  <1> QED BY <1>2 DEF TurnedUpTo

\* A grid all of whose rows are turned is the turned grid.
LEMMA AllRows ==
    ASSUME NEW name \in GridSet, NEW g \in GridsOf(name), NEW row
    PROVE  TurnedUpTo(name, g, Height(name), row) = TurnedGrid(name, g)
  <1>1. \A r \in RowsOf(name) : r < Height(name)
    BY HeightIsPositive DEF RowsOf
  <1> QED BY <1>1 DEF TurnedUpTo, TurnedGrid

\* Replacing the row in progress.
LEMMA ReplaceRow ==
    ASSUME NEW name \in GridSet, NEW g \in GridsOf(name), NEW r \in RowsOf(name), NEW old, NEW new
    PROVE  /\ TurnedUpTo(name, g, r, old)[r] = old
           /\ [TurnedUpTo(name, g, r, old) EXCEPT ![r] = new] = TurnedUpTo(name, g, r, new)
  <1>1. ~(r < r)
    BY HeightIsPositive DEF RowsOf
  <1> QED BY <1>1 DEF TurnedUpTo

(***************************************************************************)
(* The loops keep the invariant                                            *)
(***************************************************************************)

\* An empty frame is a measurement without grids.
LEMMA EmptyIsMeasurement == IsMeasurement(EmptyFrame)
  BY DEF IsMeasurement, EmptyFrame, GridSet

\* The grids that a parser makes of a payload.
LEMMA ParsedGrids ==
    ASSUME NEW start \in Nat
    PROVE  /\ GridAt(start, 2, DepthHeight) \in GridsOf("depth")
           /\ GridAt(start, 4, DepthHeight) \in GridsOf("depth")
           /\ GridAt(start, 2, DepthHeight) \in GridsOf("confidence")
           /\ GridAt(start + 2, 4, DepthHeight) \in GridsOf("confidence")
           /\ GridAt(start, GroupBytes, HistogramHeight) \in GridsOf("histogram")
           /\ PointCloudAt(start) \in GridsOf("pointCloud")
  <1>1. ASSUME NEW from \in Int, NEW stride \in Int, NEW height \in Int
        PROVE  GridAt(from, stride, height) \in [0 .. height - 1 -> [Columns -> Int]]
    <2>1. ASSUME NEW row \in 0 .. height - 1, NEW column \in Columns
          PROVE  from + stride * (row * DepthWidth + column) \in Int
      <3>1. row \in Int /\ column \in Int /\ DepthWidth \in Int
        BY Sizes DEF Columns
      <3>2. \A a, b \in Int : a * b \in Int /\ a + b \in Int
        OBVIOUS
      <3> QED BY <3>1, <3>2
    <2> QED BY <2>1 DEF GridAt
  <1>2. PointCloudAt(start) \in [0 .. DepthHeight - 1 -> [Columns -> Points]]
    <2>1. ASSUME NEW at \in Int
          PROVE  Point(1, at, 1, at + 4, at + 8) \in Points
      BY DEF Point, Times, Points, Term
    <2>2. ASSUME NEW row \in 0 .. DepthHeight - 1, NEW column \in Columns
          PROVE  start + 12 * (row * DepthWidth + column) \in Int
      <3>1. row \in Int /\ column \in Int /\ DepthWidth \in Int
        BY Sizes DEF Columns
      <3>2. \A a, b \in Int : a * b \in Int /\ a + b \in Int
        OBVIOUS
      <3> QED BY <3>1, <3>2
    <2> DEFINE PointOf(row, column) ==
                  LET at == start + 12 * (row * DepthWidth + column)
                  IN Point(1, at, 1, at + 4, at + 8)
    <2>3. \A row \in 0 .. DepthHeight - 1 : \A column \in Columns : PointOf(row, column) \in Points
      BY <2>1, <2>2
    <2>4. PointCloudAt(start) = [row \in 0 .. DepthHeight - 1 |->
                                    [column \in Columns |-> PointOf(row, column)]]
      BY DEF PointCloudAt
    <2> HIDE DEF PointOf
    <2>5. \A row \in 0 .. DepthHeight - 1 :
              [column \in Columns |-> PointOf(row, column)] \in [Columns -> Points]
      BY <2>3, Zenon
    <2> QED BY <2>4, <2>5, Zenon
  <1>3. /\ GridsOf("depth") = [0 .. DepthHeight - 1 -> [Columns -> Int]]
        /\ GridsOf("confidence") = [0 .. DepthHeight - 1 -> [Columns -> Int]]
        /\ GridsOf("histogram") = [0 .. HistogramHeight - 1 -> [Columns -> Int]]
        /\ GridsOf("pointCloud") = [0 .. DepthHeight - 1 -> [Columns -> Points]]
    BY DEF GridsOf, RowsOf, Height, Samples
  <1>4. /\ start \in Int /\ start + 2 \in Int /\ 2 \in Int /\ 4 \in Int
        /\ DepthHeight \in Int /\ HistogramHeight \in Int /\ GroupBytes \in Int
    BY Sizes
  <1>5. /\ GridAt(start, 2, DepthHeight) \in GridsOf("depth")
        /\ GridAt(start, 4, DepthHeight) \in GridsOf("depth")
        /\ GridAt(start, 2, DepthHeight) \in GridsOf("confidence")
        /\ GridAt(start + 2, 4, DepthHeight) \in GridsOf("confidence")
    BY <1>1, <1>3, <1>4
  <1>6. GridAt(start, GroupBytes, HistogramHeight) \in GridsOf("histogram")
    BY <1>1, <1>3, <1>4
  <1>7. PointCloudAt(start) \in GridsOf("pointCloud")
    BY <1>2, <1>3
  <1> QED BY <1>5, <1>6, <1>7

\* Reading a field leaves a measurement.
LEMMA FieldsMakeMeasurements ==
    ASSUME IsMeasurement(parsed), offset \in Nat, NEW field
    PROVE  IsMeasurement(WithField(field))
  <1> DEFINE after == WithField(field)
  <1>1. /\ parsed = [depth |-> parsed.depth, pointCloud |-> parsed.pointCloud,
                     confidence |-> parsed.confidence, histogram |-> parsed.histogram]
        /\ \A name \in GridSet : parsed[name] = NoGrid \/ parsed[name] \in GridsOf(name)
    BY DEF IsMeasurement
  <1>2. CASE field = "depth"
    <2>1. after = [parsed EXCEPT !.depth = GridAt(offset, 2, DepthHeight)]
      BY <1>2 DEF WithField
    <2>2. GridAt(offset, 2, DepthHeight) \in GridsOf("depth")
      BY ParsedGrids
    <2> HIDE DEF after
    <2> QED BY <1>1, <2>1, <2>2 DEF IsMeasurement, GridSet, after
  <1>3. CASE field = "confidence"
    <2>1. after = [parsed EXCEPT !.confidence = GridAt(offset, 2, DepthHeight)]
      BY <1>3 DEF WithField
    <2>2. GridAt(offset, 2, DepthHeight) \in GridsOf("confidence")
      BY ParsedGrids
    <2> HIDE DEF after
    <2> QED BY <1>1, <2>1, <2>2 DEF IsMeasurement, GridSet, after
  <1>4. CASE field = "pixels"
    <2>1. after = [parsed EXCEPT !.depth = GridAt(offset, 4, DepthHeight),
                                 !.confidence = GridAt(offset + 2, 4, DepthHeight)]
      BY <1>4 DEF WithField
    <2>2. /\ GridAt(offset, 4, DepthHeight) \in GridsOf("depth")
          /\ GridAt(offset + 2, 4, DepthHeight) \in GridsOf("confidence")
      BY ParsedGrids
    <2> HIDE DEF after
    <2> QED BY <1>1, <2>1, <2>2 DEF IsMeasurement, GridSet, after
  <1>5. CASE field = "pointCloud"
    <2>1. after = [parsed EXCEPT !.pointCloud = PointCloudAt(offset)]
      BY <1>5 DEF WithField
    <2>2. PointCloudAt(offset) \in GridsOf("pointCloud")
      BY ParsedGrids
    <2> HIDE DEF after
    <2> QED BY <1>1, <2>1, <2>2 DEF IsMeasurement, GridSet, after
  <1>6. CASE field = "histogram"
    <2>1. after = [parsed EXCEPT !.histogram = GridAt(offset, GroupBytes, HistogramHeight)]
      BY <1>6 DEF WithField
    <2>2. GridAt(offset, GroupBytes, HistogramHeight) \in GridsOf("histogram")
      BY ParsedGrids
    <2> HIDE DEF after
    <2> QED BY <1>1, <2>1, <2>2 DEF IsMeasurement, GridSet, after
  <1>7. CASE field \notin {"depth", "confidence", "pixels", "pointCloud", "histogram"}
    BY <1>7 DEF WithField
  <1> QED BY <1>2, <1>3, <1>4, <1>5, <1>6, <1>7

\* Outside of the loops little is claimed.
LEMMA NotTurning ==
    ASSUME IsMeasurement(parsed'), pc' \in {"idle", "check", "read"},
           pc' \in {"check", "read"} => grid' = 1 /\ y' = 0
    PROVE  TurnInv'
  BY DEF TurnInv, Turning, FrameIsReflection

\* The first payload.
LEMMA TurnInitially == Init => TurnInv
  BY EmptyIsMeasurement DEF Init, TurnInv, Turning, FrameIsReflection

\* The steps of the parsers before the tail.
LEMMA ParsersKeepTurnInv ==
    ASSUME ParseInv, TurnInv, Receive \/ Check \/ RejectHeader \/ ReadField
    PROVE  TurnInv'
  <1>1. CASE Receive
    <2>1. parsed' = EmptyFrame /\ pc' = "check" /\ grid' = 1 /\ y' = 0
      BY <1>1 DEF Receive
    <2> QED BY <2>1, EmptyIsMeasurement, NotTurning
  <1>2. CASE Check \/ RejectHeader
    <2>1. /\ parsed' = parsed /\ grid' = grid /\ y' = y /\ pc \in {"check", "read"}
          /\ pc' \in {"idle", "read"}
      BY <1>2 DEF Check, RejectHeader, loopVars
    <2> QED BY <2>1, NotTurning DEF TurnInv
  <1>3. CASE ReadField
    <2>1. PICK field : parsed' = WithField(field)
      BY <1>3 DEF ReadField
    <2>2. pc = "read" /\ pc' = "read" /\ grid' = grid /\ y' = y
      BY <1>3 DEF ReadField, loopVars
    <2>3. IsMeasurement(parsed')
      BY <2>1, FieldsMakeMeasurements DEF ParseInv, TurnInv
    <2> QED BY <2>2, <2>3, NotTurning DEF TurnInv
  <1> QED BY <1>1, <1>2, <1>3

\* The loops begin with a frame of which nothing is turned.
LEMMA ReadTailKeepsTurnInv == ASSUME TurnInv, ReadTail PROVE TurnInv'
  <1>1. /\ pc = "read" /\ pc' \in {"idle", "row"} /\ frame' = parsed /\ parsed' = parsed
        /\ grid' = grid /\ y' = y
    BY DEF ReadTail, loopVars
  <1>2. IsMeasurement(parsed) /\ grid = 1 /\ y = 0
    BY <1>1 DEF TurnInv
  <1>3. CASE pc' = "idle"
    BY <1>1, <1>2, <1>3, NotTurning
  <1>4. CASE pc' = "row"
    <2>1. ASSUME NEW n \in 1 .. 4
          PROVE  Progress(parsed, n)' = parsed[GridNames[n]]
      <3> DEFINE name == GridNames[n]
                 g == parsed[name]
      <3>1. name \in GridSet
        BY NamesOfGrids
      <3>2. g = NoGrid \/ g \in GridsOf(name)
        BY <1>2, <3>1 DEF IsMeasurement
      <3>3. grid' = 1 /\ y' = 0 /\ parsed' = parsed /\ pc' = "row"
        BY <1>1, <1>2, <1>4
      <3>4. n = 1 \/ n > 1
        OBVIOUS
      <3>5. ~(n < 1)
        OBVIOUS
      <3>6. CASE g = NoGrid \/ n > 1
        BY <3>3, <3>6 DEF Progress
      <3>7. CASE g # NoGrid /\ n = 1
        <4>1. TurnedUpTo(name, g, 0, g[0]) = g
          BY <3>1, <3>2, <3>7, NoRowYet
        <4>2. Progress(parsed, n)' = TurnedUpTo(name, g, 0, g[0])
          BY <3>3, <3>5, <3>7 DEF Progress
        <4> QED BY <4>1, <4>2
      <3> QED BY <3>4, <3>6, <3>7
    <2>2. Rows' \in Nat
      BY <1>1, Sizes DEF Rows
    <2>3. 0 \in 0 .. Rows'
      BY <2>2
    <2> QED BY <1>1, <1>2, <1>4, <2>1, <2>3 DEF TurnInv, Turning, FrameIsReflection
  <1> QED BY <1>1, <1>3, <1>4

\* The grid whose turn it is, and the number of its rows.
LEMMA GridInTurn ==
    ASSUME TurnInv, pc \in {"row", "swap"}
    PROVE  /\ grid \in 1 .. 4 /\ Name = GridNames[grid] /\ Name \in GridSet
           /\ frame[Name] = Progress(parsed, grid)
           /\ parsed[Name] = NoGrid \/ parsed[Name] \in GridsOf(Name)
           /\ parsed[Name] = NoGrid => frame[Name] = NoGrid /\ Rows = 0
           /\ parsed[Name] # NoGrid =>
                 /\ frame[Name] = TurnedUpTo(Name, parsed[Name], y,
                                             IF pc = "swap"
                                             THEN HalfTurned(Name, parsed[Name][y], x)
                                             ELSE parsed[Name][y])
                 /\ Rows = Height(Name)
  <1>1. /\ grid \in 1 .. 4 /\ Name = GridNames[grid] /\ Name \in GridSet
        /\ frame[Name] = Progress(parsed, grid)
        /\ IsMeasurement(parsed) /\ IsMeasurement(frame)
    BY NamesOfGrids DEF TurnInv, Turning, Name
  <1>2. parsed[Name] = NoGrid \/ parsed[Name] \in GridsOf(Name)
    BY <1>1 DEF IsMeasurement
  <1>3. ~(grid > grid) /\ ~(grid < grid)
    BY <1>1
  <1>4. pc # "complete"
    OBVIOUS
  <1>5. CASE parsed[Name] = NoGrid
    BY <1>1, <1>2, <1>5 DEF Progress, Rows
  <1>6. CASE parsed[Name] # NoGrid
    <2>1. frame[Name] = TurnedUpTo(Name, parsed[Name], y,
                                   IF pc = "swap" THEN HalfTurned(Name, parsed[Name][y], x)
                                   ELSE parsed[Name][y])
      BY <1>1, <1>3, <1>4, <1>6, Zenon DEF Progress
    <2>2. DOMAIN frame[Name] = RowsOf(Name) /\ 0 \in RowsOf(Name)
      BY <1>1, <2>1, HeightIsPositive DEF TurnedUpTo
    <2>3. frame[Name] # NoGrid
      <3>1. DOMAIN NoGrid = {}
        BY DEF NoGrid
      <3> QED BY <2>2, <3>1
    <2>4. Rows = Height(Name)
      BY <2>3 DEF Rows, Height
    <2> QED BY <1>1, <1>2, <1>6, <2>1, <2>4
  <1> QED BY <1>5, <1>6

\* A step of the loops leaves the grids alone whose turn it is not.
LEMMA OneGridChanges ==
    ASSUME TurnInv, pc \in {"row", "swap"}, pc' \in {"row", "swap"},
           grid' = grid, parsed' = parsed,
           NEW h \in GridsOf(Name) \cup {NoGrid}, frame' = [frame EXCEPT ![Name] = h],
           Progress(parsed, grid)' = h
    PROVE  /\ IsMeasurement(frame')
           /\ \A n \in 1 .. 4 : frame'[GridNames[n]] = Progress(parsed, n)'
  <1>1. /\ grid \in 1 .. 4 /\ Name = GridNames[grid] /\ Name \in GridSet
        /\ IsMeasurement(frame)
        /\ \A n \in 1 .. 4 : frame[GridNames[n]] = Progress(parsed, n)
    BY NamesOfGrids DEF TurnInv, Turning, Name
  <1>2. /\ frame = [depth |-> frame.depth, pointCloud |-> frame.pointCloud,
                    confidence |-> frame.confidence, histogram |-> frame.histogram]
        /\ \A name \in GridSet : frame[name] = NoGrid \/ frame[name] \in GridsOf(name)
    BY <1>1 DEF IsMeasurement
  <1>3. Name = "depth" \/ Name = "pointCloud" \/ Name = "confidence" \/ Name = "histogram"
    BY <1>1 DEF GridSet
  <1>4. /\ frame' = [depth |-> frame'.depth, pointCloud |-> frame'.pointCloud,
                     confidence |-> frame'.confidence, histogram |-> frame'.histogram]
        /\ frame'[Name] = h
        /\ \A name \in GridSet : name # Name => frame'[name] = frame[name]
    BY <1>2, <1>3 DEF GridSet
  <1>5. \A name \in GridSet : frame'[name] = NoGrid \/ frame'[name] \in GridsOf(name)
    BY <1>2, <1>4
  <1>6. IsMeasurement(frame')
    BY <1>4, <1>5 DEF IsMeasurement
  <1>7. ASSUME NEW n \in 1 .. 4, n # grid
        PROVE  frame'[GridNames[n]] = Progress(parsed, n)'
    <2>1. GridNames[n] \in GridSet /\ GridNames[n] # Name
      BY <1>1, <1>7, NamesOfGrids
    <2>2. frame'[GridNames[n]] = Progress(parsed, n)
      BY <1>1, <1>4, <2>1
    <2>3. n > grid \/ n < grid
      BY <1>1, <1>7
    <2>4. Progress(parsed, n)' = Progress(parsed, n)
      BY <2>3 DEF Progress
    <2> QED BY <2>2, <2>4
  <1> QED BY <1>1, <1>4, <1>6, <1>7

\* A row is entered: of a cloud, all its points change the sign of x.
LEMMA EnterRowKeepsTurnInv == ASSUME TurnInv, EnterRow PROVE TurnInv'
  <1> DEFINE g == parsed[Name]
             row == g[y]
             h == TurnedUpTo(Name, g, y, HalfTurned(Name, row, 0))
  <1>1. /\ pc = "row" /\ y < Rows /\ pc' = "swap" /\ x' = 0
        /\ parsed' = parsed /\ grid' = grid /\ y' = y
    BY DEF EnterRow
  <1>2. /\ grid \in 1 .. 4 /\ Name = GridNames[grid] /\ Name \in GridSet
        /\ y \in 0 .. Rows
    BY <1>1, GridInTurn DEF TurnInv
  <1>3. g # NoGrid
    BY <1>1, <1>2, GridInTurn
  <1>4. g \in GridsOf(Name) /\ Rows = Height(Name) /\ frame[Name] = TurnedUpTo(Name, g, y, row)
    BY <1>1, <1>3, GridInTurn
  <1>5. y \in RowsOf(Name)
    BY <1>1, <1>2, <1>4, HeightIsPositive DEF RowsOf
  <1>6. row \in [Columns -> Samples(Name)]
    BY <1>4, <1>5 DEF GridsOf
  <1>7. HalfTurned(Name, row, 0) \in [Columns -> Samples(Name)]
    BY <1>2, <1>6, RowsStayRows
  <1>8. h \in GridsOf(Name)
    BY <1>2, <1>4, <1>7, GridsStayGrids
  <1>9. Progress(parsed, grid)' = h
    <2>1. ~(grid > grid) /\ ~(grid < grid)
      BY <1>2
    <2> QED BY <1>1, <1>2, <1>3, <2>1 DEF Progress
  <1>10. frame' = [frame EXCEPT ![Name] = h]
    <2>1. /\ frame[Name][y] = row
          /\ [frame[Name] EXCEPT ![y] = HalfTurned(Name, row, 0)] = h
      BY <1>2, <1>4, <1>5, ReplaceRow
    <2>2. HalfTurned(Name, row, 0) = [c \in Columns |-> Turned(Name, row[c])]
      BY <1>2, <1>6, NoSwapYet
    <2>3. CASE Name = "pointCloud"
      <3>1. HalfTurned(Name, row, 0) = [c \in Columns |-> NegatedX(row[c])]
        BY <2>2, <2>3 DEF Turned
      <3>2. frame' = [frame EXCEPT !.pointCloud[y] = [c \in Columns |-> NegatedX(@[c])]]
        BY <2>3 DEF EnterRow
      <3>3. frame' = [frame EXCEPT !["pointCloud"] =
                         [frame["pointCloud"] EXCEPT ![y] =
                            [c \in Columns |-> NegatedX(frame["pointCloud"][y][c])]]]
        BY <3>2
      <3> HIDE DEF row, h, g
      <3> QED BY <2>1, <2>3, <3>1, <3>3
    <2>4. CASE Name # "pointCloud"
      <3>1. HalfTurned(Name, row, 0) = [c \in Columns |-> row[c]]
        BY <2>2, <2>4 DEF Turned
      <3>2. HalfTurned(Name, row, 0) = row
        BY <1>6, <3>1
      <3>3. frame' = frame
        BY <2>4 DEF EnterRow
      <3>4. frame[Name] = h
        BY <1>4, <3>2
      <3>5. frame = [frame EXCEPT ![Name] = frame[Name]]
        BY <1>1, <1>2 DEF TurnInv, Turning, IsMeasurement, GridSet
      <3> HIDE DEF row, h, g
      <3> QED BY <3>3, <3>4, <3>5
    <2> QED BY <2>3, <2>4
  <1>11. /\ IsMeasurement(frame')
         /\ \A n \in 1 .. 4 : frame'[GridNames[n]] = Progress(parsed, n)'
    <2> HIDE DEF h
    <2> QED BY <1>1, <1>8, <1>9, <1>10, OneGridChanges
  <1>12. Name' = Name /\ 0 \in 0 .. DepthWidth \div 2
    BY <1>1, Sizes DEF Name
  <1> QED BY <1>1, <1>2, <1>3, <1>5, <1>11, <1>12 DEF TurnInv, Turning, FrameIsReflection

\* Two columns change places.
LEMMA SwapKeepsTurnInv == ASSUME TurnInv, Swap PROVE TurnInv'
  <1> DEFINE g == parsed[Name]
             row == g[y]
             half == HalfTurned(Name, row, x)
             more == HalfTurned(Name, row, x + 1)
             h == TurnedUpTo(Name, g, y, more)
  <1>1. /\ pc = "swap" /\ x < DepthWidth \div 2 /\ pc' = "swap" /\ x' = x + 1
        /\ parsed' = parsed /\ grid' = grid /\ y' = y
    BY DEF Swap, parseVars
  <1>2. /\ grid \in 1 .. 4 /\ Name = GridNames[grid] /\ Name \in GridSet
        /\ g # NoGrid /\ y \in RowsOf(Name) /\ x \in 0 .. DepthWidth \div 2
    BY <1>1, GridInTurn DEF TurnInv
  <1>3. g \in GridsOf(Name) /\ frame[Name] = TurnedUpTo(Name, g, y, half)
    BY <1>1, <1>2, GridInTurn
  <1>4. row \in [Columns -> Samples(Name)]
    BY <1>2, <1>3 DEF GridsOf
  <1>5. more \in [Columns -> Samples(Name)]
    BY <1>2, <1>4, RowsStayRows
  <1>6. h \in GridsOf(Name)
    BY <1>2, <1>3, <1>5, GridsStayGrids
  <1>7. Progress(parsed, grid)' = h
    <2>1. ~(grid > grid) /\ ~(grid < grid)
      BY <1>2
    <2> QED BY <1>1, <1>2, <2>1 DEF Progress
  <1>8. x \in Nat /\ x + 1 \in 0 .. DepthWidth \div 2
    BY <1>1, <1>2, Sizes
  <1>9. frame' = [frame EXCEPT ![Name] = h]
    <2>1. frame[Name][y] = half /\ [frame[Name] EXCEPT ![y] = more] = h
      BY <1>2, <1>3, ReplaceRow
    <2>2. [half EXCEPT ![x] = half[DepthWidth - 1 - x], ![DepthWidth - 1 - x] = half[x]] = more
      BY <1>1, <1>2, <1>4, <1>8, SwapTurnsTwo
    <2>3. frame' = [frame EXCEPT ![Name] = [frame[Name] EXCEPT ![y] =
                      [frame[Name][y] EXCEPT ![x] = frame[Name][y][DepthWidth - 1 - x],
                                             ![DepthWidth - 1 - x] = frame[Name][y][x]]]]
      BY DEF Swap
    <2> HIDE DEF row, h, g, half, more
    <2> QED BY <2>1, <2>2, <2>3
  <1>10. /\ IsMeasurement(frame')
         /\ \A n \in 1 .. 4 : frame'[GridNames[n]] = Progress(parsed, n)'
    <2> HIDE DEF h
    <2> QED BY <1>1, <1>6, <1>7, <1>9, OneGridChanges
  <1>11. Name' = Name
    BY <1>1 DEF Name
  <1> QED BY <1>1, <1>2, <1>8, <1>10, <1>11 DEF TurnInv, Turning, FrameIsReflection

\* A row is left when it is turned.
LEMMA LeaveRowKeepsTurnInv == ASSUME TurnInv, LeaveRow PROVE TurnInv'
  <1> DEFINE g == parsed[Name]
             row == g[y]
             h == frame[Name]
  <1>1. /\ pc = "swap" /\ ~(x < DepthWidth \div 2) /\ x >= DepthWidth \div 2
        /\ pc' = "row" /\ y' = y + 1
        /\ parsed' = parsed /\ grid' = grid /\ frame' = frame
    BY Sizes DEF LeaveRow, parseVars, TurnInv
  <1>2. /\ grid \in 1 .. 4 /\ Name = GridNames[grid] /\ Name \in GridSet
        /\ g # NoGrid /\ y \in RowsOf(Name) /\ x \in 0 .. DepthWidth \div 2
    BY <1>1, GridInTurn DEF TurnInv
  <1>3. x = DepthWidth \div 2
    BY <1>1, <1>2, Sizes
  <1>4. /\ g \in GridsOf(Name) /\ Rows = Height(Name)
        /\ h = TurnedUpTo(Name, g, y, HalfTurned(Name, row, x))
    BY <1>1, <1>2, GridInTurn
  <1>5. row \in [Columns -> Samples(Name)]
    BY <1>2, <1>4 DEF GridsOf
  <1>6. h = TurnedUpTo(Name, g, y + 1, g[y + 1])
    <2>1. HalfTurned(Name, row, x) = TurnedRow(Name, row)
      BY <1>2, <1>3, <1>5, AllSwapped
    <2> QED BY <1>2, <1>4, <2>1, NextRow
  <1>7. IsMeasurement(frame)
    BY <1>1 DEF TurnInv, Turning
  <1>8. h \in GridsOf(Name) \cup {NoGrid} /\ frame' = [frame EXCEPT ![Name] = h]
    <2>1. frame = [frame EXCEPT ![Name] = frame[Name]]
      BY <1>2, <1>7 DEF IsMeasurement, GridSet
    <2> QED BY <1>1, <1>2, <1>7, <2>1 DEF IsMeasurement
  <1>9. Progress(parsed, grid)' = h
    <2>1. ~(grid > grid) /\ ~(grid < grid)
      BY <1>2
    <2> QED BY <1>1, <1>2, <1>6, <2>1 DEF Progress
  <1>10. /\ IsMeasurement(frame')
         /\ \A n \in 1 .. 4 : frame'[GridNames[n]] = Progress(parsed, n)'
    <2> HIDE DEF h
    <2> QED BY <1>1, <1>8, <1>9, OneGridChanges
  <1>11. Rows' = Rows
    BY <1>1 DEF Rows, Name
  <1>12. y + 1 \in 0 .. Rows
    BY <1>2, <1>4, HeightIsPositive DEF RowsOf
  <1> QED BY <1>1, <1>2, <1>10, <1>11, <1>12 DEF TurnInv, Turning, FrameIsReflection

\* A grid is left when all its rows are turned, and the next one is untouched.
LEMMA LeaveGridKeepsTurnInv == ASSUME TurnInv, LeaveGrid PROVE TurnInv'
  <1>1. /\ pc = "row" /\ y >= Rows /\ y' = 0 /\ parsed' = parsed /\ frame' = frame
        /\ \/ grid < 4 /\ grid' = grid + 1 /\ pc' = "row"
           \/ ~(grid < 4) /\ grid' = grid /\ pc' = "complete"
    BY NamesOfGrids DEF LeaveGrid, parseVars
  <1>2. /\ grid \in 1 .. 4 /\ Name = GridNames[grid] /\ Name \in GridSet
        /\ y \in 0 .. Rows /\ IsMeasurement(parsed) /\ IsMeasurement(frame)
        /\ \A n \in 1 .. 4 : frame[GridNames[n]] = Progress(parsed, n)
    BY <1>1, GridInTurn DEF TurnInv, Turning
  <1>3. grid' \in 1 .. 4 /\ (pc' = "complete" => grid' = 4)
    BY <1>1, <1>2
  <1>4. parsed[Name] # NoGrid => frame[Name] = TurnedGrid(Name, parsed[Name])
    <2> HAVE parsed[Name] # NoGrid
    <2>1. /\ parsed[Name] \in GridsOf(Name) /\ Rows = Height(Name)
          /\ frame[Name] = TurnedUpTo(Name, parsed[Name], y, parsed[Name][y])
      BY <1>1, GridInTurn
    <2>2. y = Height(Name)
      BY <1>1, <1>2, <2>1, HeightIsPositive
    <2> QED BY <1>2, <2>1, <2>2, AllRows
  <1>5. ASSUME NEW n \in 1 .. 4
        PROVE  frame'[GridNames[n]] = Progress(parsed, n)'
    <2> DEFINE name == GridNames[n]
               g == parsed[name]
    <2>1. /\ name \in GridSet /\ (g = NoGrid \/ g \in GridsOf(name))
          /\ frame'[name] = Progress(parsed, n)
      BY <1>1, <1>2, NamesOfGrids DEF IsMeasurement
    <2>2. CASE g = NoGrid
      <3>1. Progress(parsed, n) = g /\ Progress(parsed, n)' = g
        BY <1>1, <2>2 DEF Progress
      <3> QED BY <2>1, <3>1
    <2>3. CASE g # NoGrid /\ n < grid
      <3>1. ~(n > grid) /\ ~(n > grid') /\ n < grid'
        BY <1>1, <1>2, <2>3
      <3>2. Progress(parsed, n) = TurnedGrid(name, g) /\ Progress(parsed, n)' = TurnedGrid(name, g)
        BY <1>1, <2>3, <3>1 DEF Progress
      <3> QED BY <2>1, <3>2
    <2>4. CASE g # NoGrid /\ n = grid
      <3>1. ~(n > grid') /\ (n < grid' \/ pc' = "complete")
        BY <1>1, <1>2, <2>4
      <3>2. Progress(parsed, n)' = TurnedGrid(name, g)
        BY <1>1, <2>4, <3>1 DEF Progress
      <3> QED BY <1>1, <1>2, <1>4, <2>4, <3>2
    <2>5. CASE g # NoGrid /\ n > grid
      <3>1. Progress(parsed, n) = g
        BY <2>5 DEF Progress
      <3>2. grid' = grid + 1 /\ pc' = "row"
        BY <1>1, <1>2, <2>5
      <3>3. CASE n > grid'
        <4>1. Progress(parsed, n)' = g
          BY <1>1, <3>3 DEF Progress
        <4> QED BY <2>1, <3>1, <4>1
      <3>4. CASE ~(n > grid')
        <4>1. ~(n < grid')
          BY <1>2, <2>5, <3>2, <3>4
        <4>2. Progress(parsed, n)' = TurnedUpTo(name, g, 0, g[0])
          BY <1>1, <2>5, <3>2, <3>4, <4>1 DEF Progress
        <4> QED BY <2>1, <2>5, <3>1, <4>2, NoRowYet
      <3> QED BY <3>3, <3>4
    <2>6. n < grid \/ n = grid \/ n > grid
      BY <1>2
    <2> HIDE DEF g
    <2> QED BY <2>2, <2>3, <2>4, <2>5, <2>6
  <1>6. 0 \in 0 .. Rows'
    BY Sizes DEF Rows
  <1> QED BY <1>1, <1>2, <1>3, <1>5, <1>6 DEF TurnInv, Turning, FrameIsReflection

(***************************************************************************)
(* The completion                                                          *)
(***************************************************************************)

\* What the loops have made of a grid is its reflection.
LEMMA TurnedIsReflected ==
    /\ Reflection(NoGrid) = NoGrid
    /\ \A name \in GridSet : \A g \in GridsOf(name) :
          /\ name # "pointCloud" => TurnedGrid(name, g) = Reflection(g)
          /\ name = "pointCloud" => TurnedGrid(name, g) = ReflectedPoints(g)
  <1>1. Reflection(NoGrid) = NoGrid
    BY DEF Reflection, NoGrid
  <1>2. ASSUME NEW name \in GridSet, NEW g \in GridsOf(name)
        PROVE  /\ name # "pointCloud" => TurnedGrid(name, g) = Reflection(g)
               /\ name = "pointCloud" => TurnedGrid(name, g) = ReflectedPoints(g)
    <2>1. DOMAIN g = RowsOf(name)
      BY GridIsThere
    <2> QED BY <2>1, Zenon DEF TurnedGrid, TurnedRow, Turned, Reflection, ReflectedPoints
  <1> QED BY <1>1, <1>2

\* The depth of a turned cloud is the turned depth of the cloud.
LEMMA DepthOfTurned ==
    ASSUME NEW cloud \in GridsOf("pointCloud")
    PROVE  DepthOf(TurnedGrid("pointCloud", cloud)) = Reflection(DepthOf(cloud))
  <1> DEFINE rows == RowsOf("pointCloud")
             Sampled(at) == IF IsDepth(at) THEN at ELSE NoDepth
             turned == TurnedGrid("pointCloud", cloud)
  <1>1. cloud \in [rows -> [Columns -> Points]]
    BY DEF GridsOf, Samples
  <1>2. DOMAIN cloud = rows /\ \A row \in rows : DOMAIN cloud[row] = Columns
    BY <1>1
  <1>3. /\ DOMAIN turned = rows
        /\ \A row \in rows : DOMAIN turned[row] = Columns
        /\ \A row \in rows : \A column \in Columns :
              turned[row][column] = NegatedX(cloud[row][DepthWidth - 1 - column])
    BY DEF TurnedGrid, TurnedRow, Turned
  <1>4. ASSUME NEW row \in rows, NEW column \in Columns
        PROVE  turned[row][column].z.of = cloud[row][DepthWidth - 1 - column].z.of
    <2>1. DepthWidth - 1 - column \in Columns
      BY MirrorColumn
    <2>2. cloud[row][DepthWidth - 1 - column] \in Points
      BY <1>1, <2>1
    <2>3. \A p \in Points : NegatedX(p).z = p.z
      BY DEF NegatedX, Points
    <2> QED BY <1>3, <2>2, <2>3
  <1> HIDE DEF turned
  <1>5. DepthOf(turned) = [row \in rows |-> [column \in Columns |->
                               Sampled(turned[row][column].z.of)]]
    BY <1>3, Zenon DEF DepthOf
  <1>6. DepthOf(cloud) = [row \in rows |-> [column \in Columns |->
                              Sampled(cloud[row][column].z.of)]]
    BY <1>2, Zenon DEF DepthOf
  <1> DEFINE depth == DepthOf(cloud)
             mirrored == [row \in rows |-> [column \in Columns |->
                             Sampled(cloud[row][DepthWidth - 1 - column].z.of)]]
  <1>7. Reflection(depth) = mirrored
    <2>1. /\ DOMAIN depth = rows
          /\ \A row \in rows : \A column \in Columns :
                depth[row][DepthWidth - 1 - column]
                    = Sampled(cloud[row][DepthWidth - 1 - column].z.of)
      <3> HIDE DEF Sampled
      <3> QED BY <1>6, MirrorColumn
    <2> HIDE DEF depth, Sampled
    <2> QED BY <2>1 DEF Reflection
  <1>8. DepthOf(turned) = mirrored
    <2> HIDE DEF Sampled
    <2> QED BY <1>4, <1>5
  <1> QED BY <1>7, <1>8 DEF turned

\* When all grids are turned, each is the turned one of the measurement.
LEMMA AllTurned ==
    ASSUME TurnInv, pc = "complete", NEW name \in GridSet
    PROVE  /\ parsed[name] = NoGrid => frame[name] = NoGrid
           /\ parsed[name] # NoGrid => /\ parsed[name] \in GridsOf(name)
                                       /\ frame[name] = TurnedGrid(name, parsed[name])
                                       /\ frame[name] # NoGrid
  <1>0. /\ IsMeasurement(parsed) /\ grid = 4
        /\ \A n \in 1 .. 4 : frame[GridNames[n]] = Progress(parsed, n)
    BY DEF TurnInv, Turning
  <1>1. PICK n \in 1 .. 4 : GridNames[n] = name
    BY NamesOfGrids
  <1>2. ~(n > grid)
    BY <1>0
  <1>3. frame[name] = Progress(parsed, n)
    BY <1>0, <1>1
  <1>4. parsed[name] = NoGrid => frame[name] = NoGrid
    BY <1>1, <1>3 DEF Progress
  <1>5. parsed[name] # NoGrid => frame[name] = TurnedGrid(name, parsed[name])
    BY <1>1, <1>2, <1>3 DEF Progress
  <1>6. parsed[name] # NoGrid => parsed[name] \in GridsOf(name)
    BY <1>0 DEF IsMeasurement
  <1>7. parsed[name] # NoGrid => frame[name] # NoGrid
    BY <1>5, <1>6, GridsStayGrids, GridIsThere
  <1> QED BY <1>4, <1>5, <1>6, <1>7

\* The grid that is missing is derived; what the payload had stays turned.
LEMMA CompleteKeepsTurnInv == ASSUME TurnInv, Complete PROVE TurnInv'
  <1>1. pc = "complete" /\ pc' = "done" /\ parsed' = parsed
    BY DEF Complete
  <1>2. /\ IsMeasurement(parsed) /\ IsMeasurement(frame) /\ grid = 4
        /\ \A n \in 1 .. 4 : frame[GridNames[n]] = Progress(parsed, n)
    BY <1>1 DEF TurnInv, Turning
  <1>3. \A name \in GridSet :
            /\ parsed[name] = NoGrid => frame[name] = NoGrid
            /\ parsed[name] # NoGrid => /\ parsed[name] \in GridsOf(name)
                                        /\ frame[name] = TurnedGrid(name, parsed[name])
                                        /\ frame[name] # NoGrid
    BY <1>1, AllTurned
  <1>4. /\ "depth" \in GridSet /\ "pointCloud" \in GridSet
        /\ "confidence" \in GridSet /\ "histogram" \in GridSet
    BY DEF GridSet
  <1>5. /\ frame'.confidence = frame.confidence /\ frame'.histogram = frame.histogram
        /\ frame.depth # NoGrid => frame'.depth = frame.depth
        /\ frame.pointCloud # NoGrid =>
              /\ frame'.pointCloud = frame.pointCloud
              /\ frame.depth = NoGrid => frame'.depth = DepthOf(frame.pointCloud)
    <2>1. frame = [depth |-> frame.depth, pointCloud |-> frame.pointCloud,
                   confidence |-> frame.confidence, histogram |-> frame.histogram]
      BY <1>2 DEF IsMeasurement
    <2> QED BY <2>1 DEF Complete
  <1>6. frame'.confidence = Reflection(parsed.confidence)
    BY <1>3, <1>4, <1>5, TurnedIsReflected
  <1>7. frame'.histogram = Reflection(parsed.histogram)
    BY <1>3, <1>4, <1>5, TurnedIsReflected
  <1>8. parsed.depth # NoGrid => frame'.depth = Reflection(parsed.depth)
    BY <1>3, <1>4, <1>5, TurnedIsReflected
  <1>9. parsed.pointCloud # NoGrid =>
            /\ frame'.pointCloud = ReflectedPoints(parsed.pointCloud)
            /\ parsed.depth = NoGrid => frame'.depth = Reflection(DepthOf(parsed.pointCloud))
    BY <1>3, <1>4, <1>5, TurnedIsReflected, DepthOfTurned
  <1>10. FrameIsReflection'
    BY <1>1, <1>6, <1>7, <1>8, <1>9 DEF FrameIsReflection
  <1> QED BY <1>1, <1>2, <1>10 DEF TurnInv, Turning

\* Every step keeps the invariant.
LEMMA TurnStep == ASSUME ParseInv, TurnInv, [Next]_frameDataVars PROVE TurnInv'
  <1>1. CASE Receive \/ Check \/ RejectHeader \/ ReadField
    BY <1>1, ParsersKeepTurnInv
  <1>2. CASE ReadTail
    BY <1>2, ReadTailKeepsTurnInv
  <1>3. CASE Turn
    BY <1>3, EnterRowKeepsTurnInv, SwapKeepsTurnInv, LeaveRowKeepsTurnInv,
       LeaveGridKeepsTurnInv DEF Turn
  <1>4. CASE Complete
    BY <1>4, CompleteKeepsTurnInv
  <1>5. CASE UNCHANGED frameDataVars
    BY <1>5 DEF frameDataVars, parseVars, loopVars, TurnInv, Turning, Progress, Rows, Name,
                FrameIsReflection
  <1> QED BY <1>1, <1>2, <1>3, <1>4, <1>5 DEF Next, Parse

\* Each grid of a frame is the reflection of what the sensor sent, sample for
\* sample, and so is a depth that comes from the points, for every payload and
\* every size of the grids, odd widths included.
THEOREM FramesAreReflections == Spec => []FrameIsReflection
  <1>1. (ParseInv /\ TurnInv) /\ [Next]_frameDataVars => (ParseInv /\ TurnInv)'
    BY ParseStep, TurnStep
  <1>2. Init => ParseInv /\ TurnInv
    BY ParseInitially, TurnInitially
  <1>3. ParseInv /\ TurnInv => FrameIsReflection
    BY DEF TurnInv
  <1> QED BY <1>1, <1>2, <1>3, PTL DEF Spec

(***************************************************************************)
(* Numbers modulo Prime                                                    *)
(***************************************************************************)

\* Two integers that differ by a multiple of Prime, and two whose sum is one.
Same(a, b)     == \E k \in Int : a = b + k * Prime
Opposite(a, b) == \E k \in Int : a = k * Prime - b

\* Prime is positive.
LEMMA PrimeIsPositive == Prime \in Nat /\ Prime >= 2
  BY UndistortionAssumption

\* A number is the same as itself and as its remainder.
LEMMA SameAsRemainder == \A a \in Int : Same(a, a) /\ a % Prime \in Numbers /\ Same(a % Prime, a)
  <1> SUFFICES ASSUME NEW a \in Int
               PROVE  Same(a, a) /\ a % Prime \in Numbers /\ Same(a % Prime, a)
    OBVIOUS
  <1>1. a = a + 0 * Prime
    BY PrimeIsPositive
  <1>2. PICK q, r : q = a \div Prime /\ r = a % Prime
    OBVIOUS
  <1>3. q \in Int /\ r \in 0 .. Prime - 1 /\ a = Prime * q + r
    BY <1>2, PrimeIsPositive
  <1>4. PICK k : k = -q
    OBVIOUS
  <1>5. k \in Int /\ r = a + k * Prime
    BY <1>3, <1>4, PrimeIsPositive
  <1> QED BY <1>1, <1>2, <1>3, <1>5 DEF Same, Numbers

\* Two numbers in the range that are the same are equal.
LEMMA SameNumbers == \A a, b \in Numbers : Same(a, b) => a = b
  <1> SUFFICES ASSUME NEW a \in Numbers, NEW b \in Numbers, Same(a, b) PROVE a = b
    OBVIOUS
  <1>1. PICK k \in Int : a = b + k * Prime
    BY DEF Same
  <1>2. a \in 0 .. Prime - 1 /\ b \in 0 .. Prime - 1 /\ Prime \in Nat
    BY PrimeIsPositive DEF Numbers
  <1>3. PICK m : m = k * Prime
    OBVIOUS
  <1>4. m \in Int /\ a = b + m /\ m < Prime /\ m > -Prime
    BY <1>1, <1>2, <1>3
  <1>5. k >= 1 => m >= Prime
    BY <1>2, <1>3
  <1>6. k <= -1 => m <= -Prime
    BY <1>2, <1>3
  <1>7. k = 0
    BY <1>2, <1>4, <1>5, <1>6
  <1>8. m = 0
    BY <1>2, <1>3, <1>7
  <1> QED BY <1>2, <1>4, <1>8

\* The relations are those of signs.
LEMMA Signs ==
    /\ \A a, b \in Int : Same(a, b) => Same(b, a)
    /\ \A a, b \in Int : Opposite(a, b) => Opposite(b, a)
    /\ \A a, b, c \in Int : Same(a, b) /\ Same(b, c) => Same(a, c)
    /\ \A a, b, c \in Int : Same(a, b) /\ Opposite(b, c) => Opposite(a, c)
  <1>1. ASSUME NEW a \in Int, NEW b \in Int, Same(a, b) PROVE Same(b, a)
    <2>1. PICK k \in Int : a = b + k * Prime
      BY <1>1 DEF Same
    <2>2. PICK l : l = -k
      OBVIOUS
    <2>3. l \in Int /\ b = a + l * Prime
      BY <2>1, <2>2, PrimeIsPositive
    <2> QED BY <2>3 DEF Same
  <1>2. ASSUME NEW a \in Int, NEW b \in Int, Opposite(a, b) PROVE Opposite(b, a)
    <2>1. PICK k \in Int : a = k * Prime - b
      BY <1>2 DEF Opposite
    <2>2. b = k * Prime - a
      BY <2>1, PrimeIsPositive
    <2> QED BY <2>2 DEF Opposite
  <1>3. ASSUME NEW a \in Int, NEW b \in Int, NEW c \in Int, Same(a, b), Same(b, c)
        PROVE  Same(a, c)
    <2>1. PICK k \in Int : a = b + k * Prime
      BY <1>3 DEF Same
    <2>2. PICK l \in Int : b = c + l * Prime
      BY <1>3 DEF Same
    <2>3. PICK m : m = k + l
      OBVIOUS
    <2>4. m \in Int /\ a = c + m * Prime
      BY <2>1, <2>2, <2>3, PrimeIsPositive
    <2> QED BY <2>4 DEF Same
  <1>4. ASSUME NEW a \in Int, NEW b \in Int, NEW c \in Int, Same(a, b), Opposite(b, c)
        PROVE  Opposite(a, c)
    <2>1. PICK k \in Int : a = b + k * Prime
      BY <1>4 DEF Same
    <2>2. PICK l \in Int : b = l * Prime - c
      BY <1>4 DEF Opposite
    <2>3. PICK m : m = k + l
      OBVIOUS
    <2>4. m \in Int /\ a = m * Prime - c
      BY <2>1, <2>2, <2>3, PrimeIsPositive
    <2> QED BY <2>4 DEF Opposite
  <1> QED BY <1>1, <1>2, <1>3, <1>4

\* Sums and differences.
LEMMA Sums ==
    \A a, b, c, d \in Int :
        /\ Same(a, b) /\ Same(c, d) => Same(a + c, b + d)
        /\ Opposite(a, b) /\ Opposite(c, d) => Opposite(a + c, b + d) /\ Opposite(a - c, b - d)
        /\ Same(a, b) /\ Same(c, d) => Same(a - c, b - d)
  <1> SUFFICES ASSUME NEW a \in Int, NEW b \in Int, NEW c \in Int, NEW d \in Int
               PROVE  /\ Same(a, b) /\ Same(c, d) => Same(a + c, b + d) /\ Same(a - c, b - d)
                      /\ Opposite(a, b) /\ Opposite(c, d) =>
                            Opposite(a + c, b + d) /\ Opposite(a - c, b - d)
    OBVIOUS
  <1>1. ASSUME Same(a, b), Same(c, d) PROVE Same(a + c, b + d) /\ Same(a - c, b - d)
    <2>1. PICK k \in Int : a = b + k * Prime
      BY <1>1 DEF Same
    <2>2. PICK l \in Int : c = d + l * Prime
      BY <1>1 DEF Same
    <2>3. PICK m, n : m = k + l /\ n = k - l
      OBVIOUS
    <2>4. /\ m \in Int /\ a + c = (b + d) + m * Prime
          /\ n \in Int /\ a - c = (b - d) + n * Prime
      BY <2>1, <2>2, <2>3, PrimeIsPositive
    <2> QED BY <2>4 DEF Same
  <1>2. ASSUME Opposite(a, b), Opposite(c, d)
        PROVE  Opposite(a + c, b + d) /\ Opposite(a - c, b - d)
    <2>1. PICK k \in Int : a = k * Prime - b
      BY <1>2 DEF Opposite
    <2>2. PICK l \in Int : c = l * Prime - d
      BY <1>2 DEF Opposite
    <2>3. PICK m, n : m = k + l /\ n = k - l
      OBVIOUS
    <2>4. /\ m \in Int /\ a + c = m * Prime - (b + d)
          /\ n \in Int /\ a - c = n * Prime - (b - d)
      BY <2>1, <2>2, <2>3, PrimeIsPositive
    <2> QED BY <2>4 DEF Opposite
  <1> QED BY <1>1, <1>2

\* A factor on both sides.
LEMMA Multiples ==
    \A a, b, c \in Int :
        /\ Same(a, b) => Same(a * c, b * c)
        /\ Opposite(a, b) => Opposite(a * c, b * c)
  <1>0. \A k, p, b, c \in Int : /\ (b + k * p) * c = b * c + (k * c) * p
                                /\ (k * p - b) * c = (k * c) * p - b * c
    <2>1. \A u, v, w \in Int : (u + v) * w = u * w + v * w /\ (u - v) * w = u * w - v * w
      OBVIOUS
    <2>2. \A u, v, w \in Int : (u * v) * w = (u * w) * v
      OBVIOUS
    <2> QED BY <2>1, <2>2
  <1> SUFFICES ASSUME NEW a \in Int, NEW b \in Int, NEW c \in Int
               PROVE  /\ Same(a, b) => Same(a * c, b * c)
                      /\ Opposite(a, b) => Opposite(a * c, b * c)
    OBVIOUS
  <1>1. ASSUME Same(a, b) PROVE Same(a * c, b * c)
    <2>1. PICK k \in Int : a = b + k * Prime
      BY <1>1 DEF Same
    <2>2. PICK m : m = k * c
      OBVIOUS
    <2>3. m \in Int /\ a * c = b * c + m * Prime
      BY <1>0, <2>1, <2>2, PrimeIsPositive
    <2> QED BY <2>3 DEF Same
  <1>2. ASSUME Opposite(a, b) PROVE Opposite(a * c, b * c)
    <2>1. PICK k \in Int : a = k * Prime - b
      BY <1>2 DEF Opposite
    <2>2. PICK m : m = k * c
      OBVIOUS
    <2>3. m \in Int /\ a * c = m * Prime - b * c
      BY <1>0, <2>1, <2>2, PrimeIsPositive
    <2> QED BY <2>3 DEF Opposite
  <1> QED BY <1>1, <1>2

\* Products.
LEMMA Products ==
    \A a, b, c, d \in Int :
        /\ Same(a, b) /\ Same(c, d) => Same(a * c, b * d)
        /\ Opposite(a, b) /\ Same(c, d) => Opposite(a * c, b * d)
        /\ Opposite(a, b) /\ Opposite(c, d) => Same(a * c, b * d)
  <1> SUFFICES ASSUME NEW a \in Int, NEW b \in Int, NEW c \in Int, NEW d \in Int
               PROVE  /\ Same(a, b) /\ Same(c, d) => Same(a * c, b * d)
                      /\ Opposite(a, b) /\ Same(c, d) => Opposite(a * c, b * d)
                      /\ Opposite(a, b) /\ Opposite(c, d) => Same(a * c, b * d)
    OBVIOUS
  <1>1. PICK ac, bc, bd : ac = a * c /\ bc = b * c /\ bd = b * d
    OBVIOUS
  <1>2. ac \in Int /\ bc \in Int /\ bd \in Int /\ bc = c * b /\ bd = d * b
    BY <1>1
  <1>3. /\ Same(a, b) => Same(ac, bc)
        /\ Opposite(a, b) => Opposite(ac, bc)
        /\ Same(c, d) => Same(bc, bd)
        /\ Opposite(c, d) => Opposite(bc, bd)
    <2>1. /\ Same(a, b) => Same(a * c, b * c)
          /\ Opposite(a, b) => Opposite(a * c, b * c)
      BY Multiples
    <2>2. /\ Same(c, d) => Same(c * b, d * b)
          /\ Opposite(c, d) => Opposite(c * b, d * b)
      BY Multiples
    <2> QED BY <1>1, <1>2, <2>1, <2>2, Zenon
  <1>4. \A u, v, w \in Int :
            /\ Opposite(u, v) /\ Same(v, w) => Opposite(u, w)
            /\ Opposite(u, v) /\ Opposite(v, w) => Same(u, w)
    <2> SUFFICES ASSUME NEW u \in Int, NEW v \in Int, NEW w \in Int, Opposite(u, v)
                 PROVE  (Same(v, w) => Opposite(u, w)) /\ (Opposite(v, w) => Same(u, w))
      OBVIOUS
    <2>1. PICK k \in Int : u = k * Prime - v
      BY DEF Opposite
    <2>2. ASSUME NEW l \in Int
          PROVE  /\ v = w + l * Prime => u = (k - l) * Prime - w
                 /\ v = l * Prime - w => u = w + (k - l) * Prime
      BY <2>1, PrimeIsPositive
    <2>3. \A l \in Int : k - l \in Int
      OBVIOUS
    <2> QED BY <2>2, <2>3 DEF Same, Opposite
  <1>5. /\ Same(a, b) /\ Same(c, d) => Same(ac, bd)
        /\ Opposite(a, b) /\ Same(c, d) => Opposite(ac, bd)
        /\ Opposite(a, b) /\ Opposite(c, d) => Same(ac, bd)
    BY <1>2, <1>3, <1>4, Signs
  <1> QED BY <1>1, <1>5, Zenon

\* The same with names for the results.
IsProduct(s, a, c)    == a \in Int /\ c \in Int /\ s \in Int /\ s = a * c
IsSum(s, a, c)        == a \in Int /\ c \in Int /\ s \in Int /\ s = a + c
IsDifference(s, a, c) == a \in Int /\ c \in Int /\ s \in Int /\ s = a - c

\* Products by name.
LEMMA NamedProducts ==
    \A s, t, a, b, c, d :
        IsProduct(s, a, c) /\ IsProduct(t, b, d) =>
            /\ Same(a, b) /\ Same(c, d) => Same(s, t)
            /\ Opposite(a, b) /\ Same(c, d) => Opposite(s, t)
            /\ Opposite(a, b) /\ Opposite(c, d) => Same(s, t)
  <1> SUFFICES ASSUME NEW s, NEW t, NEW a, NEW b, NEW c, NEW d,
                      IsProduct(s, a, c), IsProduct(t, b, d)
               PROVE  /\ Same(a, b) /\ Same(c, d) => Same(s, t)
                      /\ Opposite(a, b) /\ Same(c, d) => Opposite(s, t)
                      /\ Opposite(a, b) /\ Opposite(c, d) => Same(s, t)
    OBVIOUS
  <1>1. a \in Int /\ b \in Int /\ c \in Int /\ d \in Int /\ s = a * c /\ t = b * d
    BY DEF IsProduct
  <1>2. /\ Same(a, b) /\ Same(c, d) => Same(a * c, b * d)
        /\ Opposite(a, b) /\ Same(c, d) => Opposite(a * c, b * d)
        /\ Opposite(a, b) /\ Opposite(c, d) => Same(a * c, b * d)
    BY <1>1, Products
  <1> QED BY <1>1, <1>2, Zenon

\* Sums by name.
LEMMA NamedSums ==
    \A s, t, a, b, c, d :
        IsSum(s, a, c) /\ IsSum(t, b, d) =>
            /\ Same(a, b) /\ Same(c, d) => Same(s, t)
            /\ Opposite(a, b) /\ Opposite(c, d) => Opposite(s, t)
  <1> SUFFICES ASSUME NEW s, NEW t, NEW a, NEW b, NEW c, NEW d,
                      IsSum(s, a, c), IsSum(t, b, d)
               PROVE  /\ Same(a, b) /\ Same(c, d) => Same(s, t)
                      /\ Opposite(a, b) /\ Opposite(c, d) => Opposite(s, t)
    OBVIOUS
  <1>1. a \in Int /\ b \in Int /\ c \in Int /\ d \in Int /\ s = a + c /\ t = b + d
    BY DEF IsSum
  <1>2. /\ Same(a, b) /\ Same(c, d) => Same(a + c, b + d)
        /\ Opposite(a, b) /\ Opposite(c, d) => Opposite(a + c, b + d)
    BY <1>1, Sums
  <1> QED BY <1>1, <1>2, Zenon

\* Differences by name.
LEMMA NamedDifferences ==
    \A s, t, a, b, c, d :
        IsDifference(s, a, c) /\ IsDifference(t, b, d) =>
            /\ Same(a, b) /\ Same(c, d) => Same(s, t)
            /\ Opposite(a, b) /\ Opposite(c, d) => Opposite(s, t)
  <1> SUFFICES ASSUME NEW s, NEW t, NEW a, NEW b, NEW c, NEW d,
                      IsDifference(s, a, c), IsDifference(t, b, d)
               PROVE  /\ Same(a, b) /\ Same(c, d) => Same(s, t)
                      /\ Opposite(a, b) /\ Opposite(c, d) => Opposite(s, t)
    OBVIOUS
  <1>1. a \in Int /\ b \in Int /\ c \in Int /\ d \in Int /\ s = a - c /\ t = b - d
    BY DEF IsDifference
  <1>2. /\ Same(a, b) /\ Same(c, d) => Same(a - c, b - d)
        /\ Opposite(a, b) /\ Opposite(c, d) => Opposite(a - c, b - d)
    BY <1>1, Sums
  <1> QED BY <1>1, <1>2, Zenon

\* The negative of a number is the opposite one, and the only one.
LEMMA Negatives ==
    /\ \A a \in Numbers : Negative(a) \in Numbers /\ Opposite(Negative(a), a)
    /\ \A a, b \in Numbers : Opposite(a, b) => a = Negative(b)
    /\ Negative(0) = 0
  <1>1. ASSUME NEW a \in Numbers PROVE Negative(a) \in Numbers /\ Opposite(Negative(a), a)
    <2>1. PICK n : n = Prime - a
      OBVIOUS
    <2>2. n \in Int /\ a \in Int /\ n = 1 * Prime - a
      BY <2>1, PrimeIsPositive DEF Numbers
    <2>3. n % Prime \in Numbers /\ Same(n % Prime, n) /\ Opposite(n, a)
      BY <2>2, SameAsRemainder DEF Opposite
    <2>4. n % Prime \in Int
      BY <2>3, PrimeIsPositive DEF Numbers
    <2>5. Negative(a) = n % Prime
      BY <2>1 DEF Negative
    <2> QED BY <2>2, <2>3, <2>4, <2>5, Signs
  <1>2. ASSUME NEW a \in Numbers, NEW b \in Numbers, Opposite(a, b) PROVE a = Negative(b)
    <2>1. PICK k \in Int : a = k * Prime - b
      BY <1>2 DEF Opposite
    <2>2. PICK n : n = Negative(b)
      OBVIOUS
    <2>3. n \in Numbers /\ Opposite(n, b)
      BY <1>1, <2>2
    <2>4. PICK l \in Int : n = l * Prime - b
      BY <2>3 DEF Opposite
    <2>5. PICK m : m = k - l
      OBVIOUS
    <2>6. m \in Int /\ a = n + m * Prime
      BY <2>1, <2>4, <2>5, <2>3, PrimeIsPositive DEF Numbers
    <2>7. Same(a, n)
      BY <2>6 DEF Same
    <2> QED BY <2>2, <2>3, <2>7, SameNumbers
  <1>3. Negative(0) = 0
    BY PrimeIsPositive DEF Negative
  <1> QED BY <1>1, <1>2, <1>3

\* The tangential part of the distortion changes its sign in x and keeps it in y.
LEMMA MirroredDeltas ==
    ASSUME NEW gx \in Int, NEW gy \in Int, NEW X \in Int, NEW p1 \in Int, NEW p2 \in Int,
           NEW Q \in Int, NEW r \in Int, Opposite(X, gx), Opposite(Q, p2)
    PROVE  /\ Opposite(2 * p1 * X * gy + Q * (r + 2 * X * X), 2 * p1 * gx * gy + p2 * (r + 2 * gx * gx))
           /\ Same(p1 * (r + 2 * gy * gy) + 2 * Q * X * gy, p1 * (r + 2 * gy * gy) + 2 * p2 * gx * gy)
  <1>1. PICK a, aX, ax, aXy, axy :
            a = 2 * p1 /\ aX = a * X /\ ax = a * gx /\ aXy = aX * gy /\ axy = ax * gy
    OBVIOUS
  <1>2. PICK b, bX, sX, sx : b = 2 * gx /\ bX = 2 * X /\ sX = bX * X /\ sx = b * gx
    OBVIOUS
  <1>3. PICK tX, tx, uX, ux : tX = r + sX /\ tx = r + sx /\ uX = Q * tX /\ ux = p2 * tx
    OBVIOUS
  <1>4. PICK q, Qp, qX, qx, qXy, qxy :
            /\ q = 2 * Q /\ Qp = 2 * p2 /\ qX = q * X /\ qx = Qp * gx
            /\ qXy = qX * gy /\ qxy = qx * gy
    OBVIOUS
  <1>5. PICK v, eX, ex, fX, fx :
            /\ v = p1 * (r + 2 * gy * gy)
            /\ eX = aXy + uX /\ ex = axy + ux /\ fX = v + qXy /\ fx = v + qxy
    OBVIOUS
  <1>6. /\ a \in Int /\ aX \in Int /\ ax \in Int /\ aXy \in Int /\ axy \in Int
        /\ b \in Int /\ bX \in Int /\ sX \in Int /\ sx \in Int
        /\ tX \in Int /\ tx \in Int /\ uX \in Int /\ ux \in Int
    BY <1>1, <1>2, <1>3
  <1>7. /\ q \in Int /\ Qp \in Int /\ qX \in Int /\ qx \in Int /\ qXy \in Int /\ qxy \in Int
        /\ v \in Int /\ eX \in Int /\ ex \in Int /\ fX \in Int /\ fx \in Int
    BY <1>4, <1>5, <1>6
  <1>8. Same(a, a) /\ Same(gy, gy) /\ Same(r, r) /\ Same(v, v)
    BY <1>6, <1>7, SameAsRemainder
  <1>9. /\ IsProduct(aX, X, a) /\ IsProduct(ax, gx, a)
        /\ IsProduct(aXy, aX, gy) /\ IsProduct(axy, ax, gy)
    BY <1>1, <1>6 DEF IsProduct
  <1>10. Opposite(aXy, axy)
    <2>1. Opposite(aX, ax)
      BY <1>8, <1>9, NamedProducts, Zenon
    <2> QED BY <1>8, <1>9, <2>1, NamedProducts, Zenon
  <1>11. /\ IsSum(bX, X, X) /\ IsSum(b, gx, gx)
         /\ IsProduct(sX, bX, X) /\ IsProduct(sx, b, gx)
         /\ IsSum(tX, r, sX) /\ IsSum(tx, r, sx)
         /\ IsProduct(uX, Q, tX) /\ IsProduct(ux, p2, tx)
         /\ IsSum(eX, aXy, uX) /\ IsSum(ex, axy, ux)
    BY <1>2, <1>3, <1>5, <1>6, <1>7 DEF IsProduct, IsSum
  <1>12. Opposite(bX, b)
    BY <1>11, NamedSums, Zenon
  <1>13. Same(sX, sx)
    BY <1>11, <1>12, NamedProducts, Zenon
  <1>14. Same(tX, tx)
    BY <1>8, <1>11, <1>13, NamedSums, Zenon
  <1>15. Opposite(uX, ux)
    BY <1>11, <1>14, NamedProducts, Zenon
  <1>16. Opposite(eX, ex)
    BY <1>10, <1>11, <1>15, NamedSums, Zenon
  <1>17. /\ IsSum(q, Q, Q) /\ IsSum(Qp, p2, p2)
         /\ IsProduct(qX, q, X) /\ IsProduct(qx, Qp, gx)
         /\ IsProduct(qXy, qX, gy) /\ IsProduct(qxy, qx, gy)
         /\ IsSum(fX, v, qXy) /\ IsSum(fx, v, qxy)
    BY <1>4, <1>5, <1>7 DEF IsProduct, IsSum
  <1>18. Opposite(q, Qp)
    BY <1>17, NamedSums, Zenon
  <1>19. Same(fX, fx)
    <2>1. Same(qX, qx)
      BY <1>17, <1>18, NamedProducts, Zenon
    <2>2. Same(qXy, qxy)
      BY <1>8, <1>17, <2>1, NamedProducts, Zenon
    <2> QED BY <1>8, <1>17, <2>2, NamedSums, Zenon
  <1>20. /\ eX = 2 * p1 * X * gy + Q * (r + 2 * X * X)
         /\ ex = 2 * p1 * gx * gy + p2 * (r + 2 * gx * gx)
         /\ fX = p1 * (r + 2 * gy * gy) + 2 * Q * X * gy
         /\ fx = p1 * (r + 2 * gy * gy) + 2 * p2 * gx * gy
    BY <1>1, <1>2, <1>3, <1>4, <1>5, Zenon
  <1> QED BY <1>16, <1>19, <1>20, Zenon

\* A reciprocal is a number.
LEMMA ReciprocalIsNumber == \A a \in Numbers : Reciprocal(a) \in Numbers
  <1> SUFFICES ASSUME NEW a \in Numbers PROVE Reciprocal(a) \in Numbers
    OBVIOUS
  <1>1. CASE a = 0
    BY <1>1, PrimeIsPositive DEF Reciprocal, Numbers
  <1>2. CASE a # 0
    <2>1. \E b \in Numbers : (a * b) % Prime = 1
      BY <1>2, UndistortionAssumption
    <2>2. Reciprocal(a) = CHOOSE b \in Numbers : (a * b) % Prime = 1
      BY <1>2 DEF Reciprocal
    <2> QED BY <2>1, <2>2
  <1> QED BY <1>1, <1>2

\* The points of the image plane, and a point seen from the other side.
Rays == [defined : BOOLEAN, x : Numbers, y : Numbers]
MirroredRay(ray) == [defined |-> ray.defined, x |-> Negative(ray.x), y |-> ray.y]

\* The rays that the code makes are among them, and the two without a direction are
\* their own mirror images.
LEMMA RaysAreRays ==
    /\ \A gx, gy \in Int : Ray(gx, gy) \in Rays
    /\ NoRay \in Rays /\ MirroredRay(NoRay) = NoRay
    /\ MirroredRay(Ray(0, 0)) = Ray(0, 0)
    /\ \A ray \in Rays : MirroredRay(ray) \in Rays
  <1>1. \A gx, gy \in Int : Ray(gx, gy) \in Rays
    BY SameAsRemainder DEF Ray, Rays
  <1>2. 0 \in Numbers /\ 0 % Prime = 0 /\ Negative(0) = 0
    BY Negatives, PrimeIsPositive DEF Numbers
  <1>3. \A ray \in Rays : MirroredRay(ray) \in Rays
    BY Negatives DEF Rays, MirroredRay
  <1> QED BY <1>1, <1>2, <1>3 DEF NoRay, Rays, MirroredRay, Ray

\* Opposite and same coordinates make a ray and its mirror image.
LEMMA RaysMirrored ==
    ASSUME NEW a \in Int, NEW b \in Int, NEW c \in Int, NEW d \in Int,
           Opposite(a, b), Same(c, d)
    PROVE  Ray(a, c) = MirroredRay(Ray(b, d))
  <1>1. PICK m, n, s, t : m = a % Prime /\ n = b % Prime /\ s = c % Prime /\ t = d % Prime
    OBVIOUS
  <1>2. /\ m \in Numbers /\ n \in Numbers /\ s \in Numbers /\ t \in Numbers
        /\ Same(m, a) /\ Same(n, b) /\ Same(s, c) /\ Same(t, d)
    BY <1>1, SameAsRemainder
  <1>3. m \in Int /\ n \in Int /\ s \in Int /\ t \in Int
    BY <1>2, PrimeIsPositive DEF Numbers
  <1>4. Opposite(m, n)
    BY <1>2, <1>3, Signs
  <1>5. Same(s, t)
    BY <1>2, <1>3, Signs
  <1>6. m = Negative(n) /\ s = t
    BY <1>2, <1>4, <1>5, Negatives, SameNumbers
  <1>7. Ray(a, c) = [defined |-> TRUE, x |-> m, y |-> s]
        /\ Ray(b, d) = [defined |-> TRUE, x |-> n, y |-> t]
    BY <1>1 DEF Ray
  <1> QED BY <1>6, <1>7 DEF MirroredRay

\* The mirrored calibration.
LEMMA MirroredParameters ==
    ASSUME NEW c \in CameraCalibrations
    PROVE  LET m == MirroredCalibration(c, DepthWidth)
           IN /\ m \in CameraCalibrations
              /\ m.fx = c.fx /\ m.fy = c.fy /\ m.cy = c.cy /\ m.p1 = c.p1
              /\ m.k1 = c.k1 /\ m.k2 = c.k2 /\ m.k3 = c.k3
              /\ m.k4 = c.k4 /\ m.k5 = c.k5 /\ m.k6 = c.k6
              /\ m.cx = (DepthWidth - 1 - c.cx) % Prime
              /\ m.p2 = Negative(c.p2)
  <1>1. PICK n : n = DepthWidth - 1 - c.cx
    OBVIOUS
  <1>2. n \in Int
    BY <1>1, PayloadLayoutAssumption, PrimeIsPositive DEF CameraCalibrations, Numbers
  <1>3. n % Prime \in Numbers /\ Negative(c.p2) \in Numbers
    BY <1>2, SameAsRemainder, Negatives DEF CameraCalibrations
  <1>4. MirroredCalibration(c, DepthWidth) = [c EXCEPT !.cx = n % Prime, !.p2 = Negative(c.p2)]
    BY <1>1 DEF MirroredCalibration
  <1> QED BY <1>1, <1>3, <1>4 DEF CameraCalibrations

\* The numbers of one iteration.
Tangential(c, gx, gy, r) == (2 * c.p1 * gx * gy + c.p2 * (r + 2 * gx * gx)) % Prime
Vertical(c, gx, gy, r)   == (c.p1 * (r + 2 * gy * gy) + 2 * c.p2 * gx * gy) % Prime
Scale(c, r) == Radial(c.k4, c.k5, c.k6, r) * Reciprocal(Radial(c.k1, c.k2, c.k3, r))

\* An iteration in terms of them.
LEMMA CorrectedUnfolds ==
    ASSUME NEW c, NEW distorted, NEW guess, NEW r,
           r = (guess.x * guess.x + guess.y * guess.y) % Prime
    PROVE  Corrected(c, distorted, guess) =
               IF \/ ~guess.defined \/ Radial(c.k1, c.k2, c.k3, r) = 0
                  \/ Radial(c.k4, c.k5, c.k6, r) = 0
               THEN NoRay
               ELSE Ray((distorted.x - Tangential(c, guess.x, guess.y, r)) * Scale(c, r),
                        (distorted.y - Vertical(c, guess.x, guess.y, r)) * Scale(c, r))
  BY Zenon DEF Corrected, Tangential, Vertical, Scale

\* They are integers.
LEMMA IterationTypes ==
    ASSUME NEW c \in CameraCalibrations, NEW gx \in Numbers, NEW gy \in Numbers, NEW r \in Numbers
    PROVE  /\ Tangential(c, gx, gy, r) \in Numbers /\ Vertical(c, gx, gy, r) \in Numbers
           /\ Radial(c.k1, c.k2, c.k3, r) \in Numbers /\ Radial(c.k4, c.k5, c.k6, r) \in Numbers
           /\ Scale(c, r) \in Int
  <1>1. /\ c.p1 \in Int /\ c.p2 \in Int /\ c.k1 \in Int /\ c.k2 \in Int /\ c.k3 \in Int
        /\ c.k4 \in Int /\ c.k5 \in Int /\ c.k6 \in Int
        /\ gx \in Int /\ gy \in Int /\ r \in Int
    BY PrimeIsPositive DEF CameraCalibrations, Numbers
  <1>2. ASSUME NEW k1 \in Int, NEW k2 \in Int, NEW k3 \in Int
        PROVE  Radial(k1, k2, k3, r) \in Numbers
    <2>1. PICK n : n = 1 + k1 * r + k2 * r * r + k3 * r * r * r
      OBVIOUS
    <2>2. n \in Int
      BY <1>1, <2>1
    <2> QED BY <2>1, <2>2, SameAsRemainder DEF Radial
  <1>3. Radial(c.k1, c.k2, c.k3, r) \in Numbers /\ Radial(c.k4, c.k5, c.k6, r) \in Numbers
    BY <1>1, <1>2
  <1>4. Scale(c, r) \in Int
    <2>1. \A a, b \in Numbers : a * Reciprocal(b) \in Int
      <3>1. \A a, b \in Numbers : a * b \in Int
        BY PrimeIsPositive DEF Numbers
      <3> QED BY <3>1, ReciprocalIsNumber
    <2> QED BY <1>3, <2>1 DEF Scale
  <1>5. PICK m, n : /\ m = 2 * c.p1 * gx * gy + c.p2 * (r + 2 * gx * gx)
                    /\ n = c.p1 * (r + 2 * gy * gy) + 2 * c.p2 * gx * gy
    OBVIOUS
  <1>6. m \in Int /\ n \in Int
    <2>1. \A p1, p2 \in Int : /\ 2 * p1 * gx * gy + p2 * (r + 2 * gx * gx) \in Int
                              /\ p1 * (r + 2 * gy * gy) + 2 * p2 * gx * gy \in Int
      BY <1>1
    <2> QED BY <1>1, <1>5, <2>1
  <1>7. Tangential(c, gx, gy, r) \in Numbers /\ Vertical(c, gx, gy, r) \in Numbers
    BY <1>5, <1>6, SameAsRemainder DEF Tangential, Vertical
  <1> QED BY <1>3, <1>4, <1>7

\* With the mirrored calibration and the guess on the other side, the horizontal
\* part changes its sign and all else stays.
LEMMA MirroredIteration ==
    ASSUME NEW c \in CameraCalibrations, NEW gx \in Numbers, NEW gy \in Numbers, NEW r \in Numbers,
           NEW m, m = MirroredCalibration(c, DepthWidth)
    PROVE  /\ Opposite(Tangential(m, Negative(gx), gy, r), Tangential(c, gx, gy, r))
           /\ Vertical(m, Negative(gx), gy, r) = Vertical(c, gx, gy, r)
           /\ Scale(m, r) = Scale(c, r)
           /\ Radial(m.k1, m.k2, m.k3, r) = Radial(c.k1, c.k2, c.k3, r)
           /\ Radial(m.k4, m.k5, m.k6, r) = Radial(c.k4, c.k5, c.k6, r)
           /\ (Negative(gx) * Negative(gx) + gy * gy) % Prime = (gx * gx + gy * gy) % Prime
  <1>1. /\ m \in CameraCalibrations /\ m.p1 = c.p1 /\ m.p2 = Negative(c.p2)
        /\ m.k1 = c.k1 /\ m.k2 = c.k2 /\ m.k3 = c.k3
        /\ m.k4 = c.k4 /\ m.k5 = c.k5 /\ m.k6 = c.k6
    BY MirroredParameters
  <1>2. /\ Scale(m, r) = Scale(c, r)
        /\ Radial(m.k1, m.k2, m.k3, r) = Radial(c.k1, c.k2, c.k3, r)
        /\ Radial(m.k4, m.k5, m.k6, r) = Radial(c.k4, c.k5, c.k6, r)
    BY <1>1, Zenon DEF Scale
  <1>3. PICK X, p1, p2, Q : X = Negative(gx) /\ p1 = c.p1 /\ p2 = c.p2 /\ Q = Negative(p2)
    OBVIOUS
  <1>4. /\ X \in Numbers /\ p1 \in Numbers /\ p2 \in Numbers /\ Q \in Numbers
        /\ Opposite(X, gx) /\ Opposite(Q, p2)
    BY <1>3, Negatives DEF CameraCalibrations
  <1>5. \A n \in Numbers : n \in Int
    BY PrimeIsPositive DEF Numbers
  <1>6. PICK a, b, d, e : /\ a = 2 * p1 * X * gy + Q * (r + 2 * X * X)
                          /\ b = 2 * p1 * gx * gy + p2 * (r + 2 * gx * gx)
                          /\ d = p1 * (r + 2 * gy * gy) + 2 * Q * X * gy
                          /\ e = p1 * (r + 2 * gy * gy) + 2 * p2 * gx * gy
    OBVIOUS
  <1>7. Opposite(a, b) /\ Same(d, e)
    <2>1. gx \in Int /\ gy \in Int /\ X \in Int /\ p1 \in Int /\ p2 \in Int /\ Q \in Int /\ r \in Int
      BY <1>4, <1>5
    <2>2. /\ Opposite(2 * p1 * X * gy + Q * (r + 2 * X * X), 2 * p1 * gx * gy + p2 * (r + 2 * gx * gx))
          /\ Same(p1 * (r + 2 * gy * gy) + 2 * Q * X * gy, p1 * (r + 2 * gy * gy) + 2 * p2 * gx * gy)
      BY <1>4, <2>1, MirroredDeltas
    <2> QED BY <1>6, <2>2, Zenon
  <1>8. a \in Int /\ b \in Int /\ d \in Int /\ e \in Int
    <2>1. gx \in Int /\ gy \in Int /\ X \in Int /\ p1 \in Int /\ p2 \in Int /\ Q \in Int /\ r \in Int
      BY <1>4, <1>5
    <2> QED BY <1>6, <2>1
  <1>9. /\ Tangential(m, X, gy, r) = a % Prime /\ Tangential(c, gx, gy, r) = b % Prime
        /\ Vertical(m, X, gy, r) = d % Prime /\ Vertical(c, gx, gy, r) = e % Prime
    BY <1>1, <1>3, <1>6, Zenon DEF Tangential, Vertical
  <1>10. \A u, v \in Int : /\ Opposite(u, v) => Opposite(u % Prime, v % Prime)
                           /\ Same(u, v) => u % Prime = v % Prime
    <2> SUFFICES ASSUME NEW u \in Int, NEW v \in Int
                 PROVE  /\ Opposite(u, v) => Opposite(u % Prime, v % Prime)
                        /\ Same(u, v) => u % Prime = v % Prime
      OBVIOUS
    <2>1. PICK s, t : s = u % Prime /\ t = v % Prime
      OBVIOUS
    <2>2. s \in Numbers /\ t \in Numbers /\ Same(s, u) /\ Same(t, v)
      BY <2>1, SameAsRemainder
    <2>3. s \in Int /\ t \in Int
      BY <1>5, <2>2
    <2>4. Opposite(u, v) => Opposite(s, t)
      BY <2>2, <2>3, Signs
    <2>5. Same(u, v) => Same(s, t)
      BY <2>2, <2>3, Signs
    <2> QED BY <2>1, <2>2, <2>4, <2>5, SameNumbers
  <1>11. (X * X + gy * gy) % Prime = (gx * gx + gy * gy) % Prime
    <2>1. PICK XX, xx, yy, S, s : XX = X * X /\ xx = gx * gx /\ yy = gy * gy
                                  /\ S = XX + yy /\ s = xx + yy
      OBVIOUS
    <2>2. XX \in Int /\ xx \in Int /\ yy \in Int /\ S \in Int /\ s \in Int
      <3>1. gx \in Int /\ gy \in Int /\ X \in Int
        BY <1>4, <1>5
      <3> QED BY <2>1, <3>1
    <2>3. /\ IsProduct(XX, X, X) /\ IsProduct(xx, gx, gx) /\ IsSum(S, XX, yy) /\ IsSum(s, xx, yy)
      BY <1>4, <1>5, <2>1, <2>2 DEF IsProduct, IsSum
    <2>4. Same(XX, xx)
      BY <1>4, <2>3, NamedProducts, Zenon
    <2>5. Same(yy, yy)
      BY <2>2, SameAsRemainder
    <2>6. Same(S, s)
      BY <2>3, <2>4, <2>5, NamedSums, Zenon
    <2>7. S % Prime = s % Prime
      BY <1>10, <2>2, <2>6
    <2> QED BY <2>1, <2>7, Zenon
  <1>12. Opposite(a % Prime, b % Prime) /\ d % Prime = e % Prime
    BY <1>7, <1>8, <1>10
  <1> QED BY <1>2, <1>3, <1>9, <1>11, <1>12, Zenon

\* So an iteration from the other side comes to the other side.
LEMMA MirroredCorrection ==
    ASSUME NEW c \in CameraCalibrations, NEW distorted \in Rays, NEW guess \in Rays
    PROVE  /\ Corrected(c, distorted, guess) \in Rays
           /\ Corrected(MirroredCalibration(c, DepthWidth), MirroredRay(distorted), MirroredRay(guess))
                = MirroredRay(Corrected(c, distorted, guess))
  <1>1. PICK m, md, mg : /\ m = MirroredCalibration(c, DepthWidth)
                         /\ md = MirroredRay(distorted) /\ mg = MirroredRay(guess)
    OBVIOUS
  <1>2. PICK gx, gy, X, u, v, U : /\ gx = guess.x /\ gy = guess.y /\ X = Negative(gx)
                                /\ u = distorted.x /\ v = distorted.y /\ U = Negative(u)
    OBVIOUS
  <1>3. /\ mg.x = X /\ mg.y = gy /\ mg.defined = guess.defined
        /\ md.x = U /\ md.y = v
        /\ gx \in Numbers /\ gy \in Numbers /\ u \in Numbers /\ v \in Numbers
    BY <1>1, <1>2 DEF MirroredRay, Rays
  <1>4. PICK r : r = (gx * gx + gy * gy) % Prime
    OBVIOUS
  <1>5. r \in Numbers
    <2>1. PICK s : s = gx * gx + gy * gy
      OBVIOUS
    <2>2. s \in Int
      BY <1>3, <2>1, PrimeIsPositive DEF Numbers
    <2> QED BY <1>4, <2>1, <2>2, SameAsRemainder
  <1>6. PICK T, t, w, k, num, den :
            /\ T = Tangential(m, X, gy, r) /\ t = Tangential(c, gx, gy, r) /\ w = Vertical(c, gx, gy, r)
            /\ k = Scale(c, r)
            /\ num = Radial(c.k1, c.k2, c.k3, r) /\ den = Radial(c.k4, c.k5, c.k6, r)
    OBVIOUS
  <1>7. /\ t \in Numbers /\ w \in Numbers /\ k \in Int
    BY <1>3, <1>5, <1>6, IterationTypes
  <1>8. /\ Opposite(T, t) /\ Vertical(m, X, gy, r) = w /\ Scale(m, r) = k
        /\ Radial(m.k1, m.k2, m.k3, r) = num /\ Radial(m.k4, m.k5, m.k6, r) = den
        /\ (X * X + gy * gy) % Prime = r
    BY <1>1, <1>2, <1>3, <1>4, <1>5, <1>6, MirroredIteration
  <1>9. T \in Numbers /\ U \in Numbers /\ Opposite(U, u)
    <2>1. m \in CameraCalibrations /\ X \in Numbers /\ U \in Numbers /\ Opposite(U, u)
      BY <1>1, <1>2, <1>3, MirroredParameters, Negatives
    <2> QED BY <1>3, <1>5, <1>6, <2>1, IterationTypes
  <1>10. /\ Corrected(c, distorted, guess) =
               IF ~guess.defined \/ num = 0 \/ den = 0 THEN NoRay
               ELSE Ray((u - t) * k, (v - w) * k)
         /\ Corrected(m, md, mg) =
               IF ~guess.defined \/ num = 0 \/ den = 0 THEN NoRay
               ELSE Ray((U - T) * k, (v - w) * k)
    <2>1. r = (guess.x * guess.x + guess.y * guess.y) % Prime
      BY <1>2, <1>4, Zenon
    <2>2. r = (mg.x * mg.x + mg.y * mg.y) % Prime
      BY <1>3, <1>8, Zenon
    <2>3. Corrected(c, distorted, guess) =
               IF ~guess.defined \/ num = 0 \/ den = 0 THEN NoRay
               ELSE Ray((u - t) * k, (v - w) * k)
      BY <1>2, <1>6, <2>1, CorrectedUnfolds, Zenon
    <2>4. Corrected(m, md, mg) =
               IF \/ ~mg.defined \/ Radial(m.k1, m.k2, m.k3, r) = 0
                  \/ Radial(m.k4, m.k5, m.k6, r) = 0
               THEN NoRay
               ELSE Ray((md.x - Tangential(m, mg.x, mg.y, r)) * Scale(m, r),
                        (md.y - Vertical(m, mg.x, mg.y, r)) * Scale(m, r))
      BY <2>2, CorrectedUnfolds, Zenon
    <2>5. Corrected(m, md, mg) =
               IF ~guess.defined \/ num = 0 \/ den = 0 THEN NoRay
               ELSE Ray((U - T) * k, (v - w) * k)
      <3>1. mg.defined = guess.defined /\ mg.x = X /\ mg.y = gy /\ md.x = U /\ md.y = v
        BY <1>3
      <3>2. Tangential(m, X, gy, r) = T /\ Vertical(m, X, gy, r) = w /\ Scale(m, r) = k
        BY <1>6, <1>8
      <3>3. Radial(m.k1, m.k2, m.k3, r) = num /\ Radial(m.k4, m.k5, m.k6, r) = den
        BY <1>8
      <3> QED BY <2>4, <3>1, <3>2, <3>3
    <2> QED BY <2>3, <2>5
  <1>11. PICK f, F, g, p, P : /\ f = u - t /\ F = U - T /\ g = v - w
                              /\ p = f * k /\ P = F * k
    OBVIOUS
  <1>12. PICK q : q = g * k
    OBVIOUS
  <1>13. /\ f \in Int /\ F \in Int /\ g \in Int /\ p \in Int /\ P \in Int /\ q \in Int
         /\ IsDifference(F, U, T) /\ IsDifference(f, u, t)
         /\ IsProduct(P, F, k) /\ IsProduct(p, f, k)
    <2>1. \A n \in Numbers : n \in Int
      BY PrimeIsPositive DEF Numbers
    <2>2. u \in Int /\ t \in Int /\ U \in Int /\ T \in Int /\ v \in Int /\ w \in Int
      BY <1>3, <1>7, <1>9, <2>1
    <2>3. f \in Int /\ F \in Int /\ g \in Int /\ p \in Int /\ P \in Int /\ q \in Int
      BY <1>7, <1>11, <1>12, <2>2
    <2> QED BY <1>7, <1>11, <2>2, <2>3 DEF IsDifference, IsProduct
  <1>14. Opposite(F, f)
    BY <1>8, <1>9, <1>13, NamedDifferences, Zenon
  <1>15. Same(k, k) /\ Same(q, q)
    BY <1>7, <1>13, SameAsRemainder
  <1>16. Opposite(P, p)
    BY <1>13, <1>14, <1>15, NamedProducts, Zenon
  <1>17. Ray(P, q) = MirroredRay(Ray(p, q)) /\ Ray(p, q) \in Rays
    BY <1>13, <1>15, <1>16, RaysMirrored, RaysAreRays
  <1>18. /\ Corrected(c, distorted, guess) =
               IF ~guess.defined \/ num = 0 \/ den = 0 THEN NoRay ELSE Ray(p, q)
         /\ Corrected(m, md, mg) =
               IF ~guess.defined \/ num = 0 \/ den = 0 THEN NoRay ELSE Ray(P, q)
    BY <1>10, <1>11, <1>12, Zenon
  <1>19. NoRay \in Rays /\ MirroredRay(NoRay) = NoRay
    BY RaysAreRays
  <1>20. /\ Corrected(c, distorted, guess) \in Rays
         /\ Corrected(m, md, mg) = MirroredRay(Corrected(c, distorted, guess))
    BY <1>17, <1>18, <1>19
  <1> QED BY <1>1, <1>20, Zenon

\* A set of natural numbers that is not empty has a least member.
LEMMA LeastMember ==
    ASSUME NEW S, S \subseteq Nat, S # {}
    PROVE  \E k \in S : \A j \in S : k <= j
  <1> DEFINE R == {pair \in Nat \X Nat : pair[1] < pair[2]}
  <1>1. IsWellFoundedOn(R, Nat)
    BY NatLessThanWellFounded DEF OpToRel
  <1> HIDE DEF R
  <1>2. PICK k \in S : \A j \in S : <<j, k>> \notin R
    BY <1>1, WFMin
  <1>3. ASSUME NEW j \in S PROVE k <= j
    <2>1. k \in Nat /\ j \in Nat
      OBVIOUS
    <2>2. j < k => <<j, k>> \in R
      BY <2>1 DEF R
    <2> QED BY <2>1, <2>2, <1>2
  <1> QED BY <1>3

\* g yields the guesses up to the n-th.
GuessesUpTo(c, distorted, n, g) ==
    g = [k \in 0 .. n |-> IF k = 0 THEN distorted ELSE Corrected(c, distorted, g[k - 1])]

\* There is such a function for each n: a least n without one has none before it.
LEMMA GuessesExist ==
    ASSUME NEW c, NEW distorted
    PROVE  \A n \in Nat : \E g : GuessesUpTo(c, distorted, n, g)
  <1> DEFINE failing == {n \in Nat : ~ \E g : GuessesUpTo(c, distorted, n, g)}
  <1>1. failing = {}
    <2> SUFFICES ASSUME failing # {} PROVE FALSE
      OBVIOUS
    <2>1. PICK n \in failing : \A m \in failing : n <= m
      BY LeastMember
    <2>2. n \in Nat /\ ~ \E g : GuessesUpTo(c, distorted, n, g)
      OBVIOUS
    <2>3. n # 0
      <3>1. GuessesUpTo(c, distorted, 0, [k \in 0 .. 0 |-> distorted])
        BY DEF GuessesUpTo
      <3> QED BY <2>2, <3>1
    <2>4. n - 1 \in Nat /\ ~(n <= n - 1)
      BY <2>2, <2>3
    <2>5. PICK g : GuessesUpTo(c, distorted, n - 1, g)
      BY <2>1, <2>4
    <2>6. \A k \in 0 .. n - 1 :
              g[k] = IF k = 0 THEN distorted ELSE Corrected(c, distorted, g[k - 1])
      BY <2>5 DEF GuessesUpTo
    <2> DEFINE h == [k \in 0 .. n |-> IF k = n THEN Corrected(c, distorted, g[n - 1]) ELSE g[k]]
    <2>7. \A k \in 0 .. n : h[k] = IF k = n THEN Corrected(c, distorted, g[n - 1]) ELSE g[k]
      OBVIOUS
    <2>8. h = [k \in 0 .. n |-> h[k]]
      OBVIOUS
    <2> HIDE DEF h
    <2>9. ASSUME NEW k \in 0 .. n
          PROVE  h[k] = IF k = 0 THEN distorted ELSE Corrected(c, distorted, h[k - 1])
      <3>1. CASE k = n
        <4>1. n - 1 \in 0 .. n /\ n - 1 # n /\ n \in 0 .. n
          BY <2>2, <2>4
        <4>2. h[n - 1] = g[n - 1] /\ h[n] = Corrected(c, distorted, g[n - 1])
          BY <2>7, <4>1
        <4> QED BY <2>3, <3>1, <4>2
      <3>2. CASE k # n
        <4>1. k \in 0 .. n - 1 /\ (k # 0 => k - 1 \in 0 .. n /\ k - 1 # n)
          BY <2>2, <3>2
        <4>2. h[k] = g[k] /\ (k # 0 => h[k - 1] = g[k - 1])
          BY <2>7, <3>2, <4>1
        <4> QED BY <2>6, <4>1, <4>2
      <3> QED BY <3>1, <3>2
    <2>10. GuessesUpTo(c, distorted, n, h)
      BY <2>8, <2>9 DEF GuessesUpTo
    <2> QED BY <2>2, <2>10
  <1> QED BY <1>1

\* The recursive equation holds.
LEMMA GuessesUnfold ==
    ASSUME NEW c, NEW distorted
    PROVE  \A k \in 0 .. Iterations :
              Guesses(c, distorted)[k] =
                  IF k = 0 THEN distorted ELSE Corrected(c, distorted, Guesses(c, distorted)[k - 1])
  <1>1. PICK g : g = [k \in 0 .. Iterations |->
                         IF k = 0 THEN distorted ELSE Corrected(c, distorted, g[k - 1])]
    <2>1. \A n \in Nat : \E g : GuessesUpTo(c, distorted, n, g)
      BY GuessesExist
    <2>2. \E g : GuessesUpTo(c, distorted, Iterations, g)
      BY <2>1, UndistortionAssumption
    <2> QED BY <2>2 DEF GuessesUpTo
  <1>2. Guesses(c, distorted) =
            CHOOSE f : f = [k \in 0 .. Iterations |->
                               IF k = 0 THEN distorted ELSE Corrected(c, distorted, f[k - 1])]
    BY DEF Guesses
  <1>3. Guesses(c, distorted) =
            [k \in 0 .. Iterations |->
                IF k = 0 THEN distorted ELSE Corrected(c, distorted, Guesses(c, distorted)[k - 1])]
    BY <1>1, <1>2
  <1> QED BY <1>3

\* With the mirrored calibration every guess from the other side is on the other
\* side: the first one that is not would come from one that is.
LEMMA MirroredGuesses ==
    ASSUME NEW c \in CameraCalibrations, NEW distorted \in Rays,
           NEW m, m = MirroredCalibration(c, DepthWidth),
           NEW mirrored, mirrored = MirroredRay(distorted)
    PROVE  \A k \in 0 .. Iterations :
              /\ Guesses(c, distorted)[k] \in Rays
              /\ Guesses(m, mirrored)[k] = MirroredRay(Guesses(c, distorted)[k])
  <1> DEFINE g == Guesses(c, distorted)
             h == Guesses(m, mirrored)
             failing == {k \in 0 .. Iterations : ~(g[k] \in Rays /\ h[k] = MirroredRay(g[k]))}
  <1>1. \A k \in 0 .. Iterations :
            /\ g[k] = IF k = 0 THEN distorted ELSE Corrected(c, distorted, g[k - 1])
            /\ h[k] = IF k = 0 THEN mirrored ELSE Corrected(m, mirrored, h[k - 1])
    <2>1. \A k \in 0 .. Iterations :
              g[k] = IF k = 0 THEN distorted ELSE Corrected(c, distorted, g[k - 1])
      BY GuessesUnfold
    <2>2. \A k \in 0 .. Iterations :
              h[k] = IF k = 0 THEN mirrored ELSE Corrected(m, mirrored, h[k - 1])
      BY GuessesUnfold
    <2> QED BY <2>1, <2>2
  <1> HIDE DEF g, h
  <1>2. failing = {}
    <2> SUFFICES ASSUME failing # {} PROVE FALSE
      OBVIOUS
    <2>1. failing \subseteq Nat
      OBVIOUS
    <2>2. PICK k \in failing : \A j \in failing : k <= j
      BY <2>1, LeastMember
    <2>3. k \in 0 .. Iterations /\ ~(g[k] \in Rays /\ h[k] = MirroredRay(g[k]))
      BY <2>2
    <2>4. k # 0
      BY <1>1, <2>3
    <2>5. PICK j : j = k - 1
      OBVIOUS
    <2>6. j \in 0 .. Iterations /\ ~(k <= j)
      BY <2>3, <2>4, <2>5, UndistortionAssumption
    <2>7. g[j] \in Rays /\ h[j] = MirroredRay(g[j])
      BY <2>2, <2>6
    <2>8. g[k] = Corrected(c, distorted, g[j]) /\ h[k] = Corrected(m, mirrored, h[j])
      BY <1>1, <2>3, <2>4, <2>5
    <2>9. /\ Corrected(c, distorted, g[j]) \in Rays
          /\ Corrected(m, mirrored, MirroredRay(g[j])) = MirroredRay(Corrected(c, distorted, g[j]))
      BY <2>7, MirroredCorrection
    <2> QED BY <2>3, <2>7, <2>8, <2>9
  <1> QED BY <1>2 DEF g, h

\* A column of the turned image sees what the column that it was turned from saw,
\* from the other side.
LEMMA MirroredPixel ==
    ASSUME NEW c \in CameraCalibrations, NEW column \in Columns, NEW row \in Nat,
           NEW m, m = MirroredCalibration(c, DepthWidth)
    PROVE  /\ UndistortPixelToRay(c, column, row) \in Rays
           /\ UndistortPixelToRay(m, DepthWidth - 1 - column, row)
                = MirroredRay(UndistortPixelToRay(c, column, row))
  <1>1. /\ m.fx = c.fx /\ m.fy = c.fy /\ m.cy = c.cy
        /\ m.cx = (DepthWidth - 1 - c.cx) % Prime
    BY MirroredParameters
  <1>2. PICK other, cx, cy, ix, iy, n :
            /\ other = DepthWidth - 1 - column /\ cx = c.cx /\ cy = c.cy
            /\ ix = Reciprocal(c.fx) /\ iy = Reciprocal(c.fy)
            /\ n = DepthWidth - 1 - cx
    OBVIOUS
  <1>3. PICK C : C = n % Prime
    OBVIOUS
  <1>4. PICK u, U, v, p, P, q : /\ u = column - cx /\ U = other - C /\ v = row - cy
                                /\ p = u * ix /\ P = U * ix /\ q = v * iy
    OBVIOUS
  <1>5. /\ column \in Int /\ other \in Int /\ cx \in Int /\ cy \in Int /\ ix \in Int /\ iy \in Int
        /\ n \in Int /\ row \in Int
    <2>1. \A a \in Numbers : a \in Int
      BY PrimeIsPositive DEF Numbers
    <2>2. cx \in Int /\ cy \in Int /\ ix \in Int /\ iy \in Int
      BY <1>2, <2>1, ReciprocalIsNumber DEF CameraCalibrations
    <2>3. column \in Int /\ DepthWidth \in Int /\ row \in Int
      BY Sizes DEF Columns
    <2> QED BY <1>2, <2>2, <2>3
  <1>6. C \in Int /\ Same(C, n)
    <2>1. C \in Numbers /\ Same(C, n)
      BY <1>3, <1>5, SameAsRemainder
    <2> QED BY <2>1, PrimeIsPositive DEF Numbers
  <1>7. /\ u \in Int /\ U \in Int /\ v \in Int /\ p \in Int /\ P \in Int /\ q \in Int
    BY <1>4, <1>5, <1>6
  <1>8. Opposite(U, u)
    <2>1. PICK k \in Int : C = n + k * Prime
      BY <1>6 DEF Same
    <2>2. PICK l, z : l = -k /\ z = k * Prime
      OBVIOUS
    <2>3. l \in Int /\ z \in Int /\ l * Prime = -z
      BY <2>2, PrimeIsPositive
    <2>4. U = l * Prime - u
      BY <1>2, <1>4, <1>5, <2>1, <2>2, <2>3, Sizes
    <2> QED BY <2>3, <2>4 DEF Opposite
  <1>9. IsProduct(P, U, ix) /\ IsProduct(p, u, ix)
    BY <1>4, <1>5, <1>7 DEF IsProduct
  <1>10. Same(ix, ix) /\ Same(q, q)
    BY <1>5, <1>7, SameAsRemainder
  <1>11. Opposite(P, p)
    BY <1>8, <1>9, <1>10, NamedProducts, Zenon
  <1>12. Ray(P, q) = MirroredRay(Ray(p, q)) /\ Ray(p, q) \in Rays
    BY <1>7, <1>10, <1>11, RaysMirrored, RaysAreRays
  <1>13. Distorted(c, column, row) = Ray(p, q)
    BY <1>2, <1>4, Zenon DEF Distorted
  <1>14. Distorted(m, other, row) = Ray(P, q)
    <2>1. m.cx = C /\ m.cy = cy /\ Reciprocal(m.fx) = ix /\ Reciprocal(m.fy) = iy
      BY <1>1, <1>2, <1>3, Zenon
    <2>2. Distorted(m, other, row) = Ray((other - C) * ix, (row - cy) * iy)
      BY <2>1, Zenon DEF Distorted
    <2> QED BY <1>4, <2>2, Zenon
  <1>15. Iterations \in 0 .. Iterations
    BY UndistortionAssumption
  <1>16. /\ Guesses(c, Ray(p, q))[Iterations] \in Rays
         /\ Guesses(m, Ray(P, q))[Iterations] = MirroredRay(Guesses(c, Ray(p, q))[Iterations])
    BY <1>12, <1>15, MirroredGuesses
  <1> QED BY <1>2, <1>13, <1>14, <1>16, Zenon DEF UndistortPixelToRay

\* A coordinate of a point changes its sign with the ray.
LEMMA MirroredPoint ==
    ASSUME NEW ray \in Rays, NEW at
    PROVE  Point(MirroredRay(ray).x, at, MirroredRay(ray).y, at, at)
             = NegatedX(Point(ray.x, at, ray.y, at, at))
  BY DEF Point, NegatedX, Times, MirroredRay

\* The ray of a sample in a grid of depths.
RayAt(depth, calibration, row, column) ==
    IF IsMarker(depth[row][column]) THEN Ray(0, 0)
    ELSE UndistortPixelToRay(calibration, column, row)

\* The cloud in terms of them.
LEMMA PointCloudUnfolds ==
    ASSUME NEW depth, NEW calibration
    PROVE  PointCloudOf(depth, calibration) =
               IF \E row \in DOMAIN depth : \E column \in Columns :
                      ~RayAt(depth, calibration, row, column).defined
               THEN NoGrid
               ELSE [row \in DOMAIN depth |-> [column \in Columns |->
                        Point(RayAt(depth, calibration, row, column).x, depth[row][column],
                              RayAt(depth, calibration, row, column).y, depth[row][column],
                              depth[row][column])]]
  BY Zenon DEF PointCloudOf, RayAt

\* The cloud that the turned depth and the mirrored calibration give is the
\* reflection of the sensor's own.
LEMMA MirroredCloud ==
    ASSUME NEW depth \in GridsOf("depth"), NEW c \in CameraCalibrations,
           NEW m, m = MirroredCalibration(c, DepthWidth)
    PROVE  PointCloudOf(Reflection(depth), m) = ReflectedPoints(PointCloudOf(depth, c))
  <1> DEFINE rows == RowsOf("depth")
             turned == Reflection(depth)
             Other(column) == DepthWidth - 1 - column
             From(row, column) == RayAt(depth, c, row, column)
             To(row, column) == RayAt(turned, m, row, column)
             At(row, column) ==
                 Point(From(row, column).x, depth[row][column],
                       From(row, column).y, depth[row][column], depth[row][column])
             cloud == PointCloudOf(depth, c)
  <1>1. /\ DOMAIN depth = rows /\ DOMAIN turned = rows
        /\ \A row \in rows : \A column \in Columns :
              turned[row][column] = depth[row][Other(column)]
    <2>1. DOMAIN depth = rows
      BY GridIsThere DEF GridSet
    <2> QED BY <2>1 DEF Reflection
  <1>2. \A column \in Columns : Other(column) \in Columns /\ Other(Other(column)) = column
    BY Sizes DEF Columns
  <1>3. \A row \in rows : row \in Nat
    BY DEF RowsOf
  <1>4. ASSUME NEW row \in rows, NEW column \in Columns
        PROVE  /\ From(row, Other(column)) \in Rays
               /\ To(row, column) = MirroredRay(From(row, Other(column)))
    <2>1. PICK o : o = Other(column)
      OBVIOUS
    <2>2. o \in Columns /\ DepthWidth - 1 - o = column /\ row \in Nat
      BY <1>2, <1>3, <2>1
    <2>3. turned[row][column] = depth[row][o]
      BY <1>1, <2>1
    <2>4. CASE IsMarker(depth[row][o])
      <3>1. From(row, o) = Ray(0, 0) /\ To(row, column) = Ray(0, 0)
        BY <2>3, <2>4 DEF RayAt
      <3> QED BY <2>1, <3>1, RaysAreRays
    <2>5. CASE ~IsMarker(depth[row][o])
      <3>1. /\ From(row, o) = UndistortPixelToRay(c, o, row)
            /\ To(row, column) = UndistortPixelToRay(m, column, row)
        BY <2>3, <2>5 DEF RayAt
      <3>2. /\ UndistortPixelToRay(c, o, row) \in Rays
            /\ UndistortPixelToRay(m, DepthWidth - 1 - o, row)
                 = MirroredRay(UndistortPixelToRay(c, o, row))
        BY <2>2, MirroredPixel
      <3> QED BY <2>1, <2>2, <3>1, <3>2
    <2> QED BY <2>4, <2>5
  <1>5. PointCloudOf(turned, m) =
            IF \E row \in rows : \E column \in Columns : ~To(row, column).defined
            THEN NoGrid
            ELSE [row \in rows |-> [column \in Columns |->
                     Point(To(row, column).x, turned[row][column],
                           To(row, column).y, turned[row][column], turned[row][column])]]
    BY <1>1, PointCloudUnfolds
  <1>6. cloud = IF \E row \in rows : \E column \in Columns : ~From(row, column).defined
                THEN NoGrid
                ELSE [row \in rows |-> [column \in Columns |-> At(row, column)]]
    BY <1>1, PointCloudUnfolds
  <1> HIDE DEF turned, Other, From, To, cloud
  <1>7. ASSUME NEW row \in rows, NEW column \in Columns
        PROVE  /\ To(row, column).defined = From(row, Other(column)).defined
               /\ Point(To(row, column).x, turned[row][column],
                        To(row, column).y, turned[row][column], turned[row][column])
                    = NegatedX(At(row, Other(column)))
    <2>1. PICK o, ray, at : o = Other(column) /\ ray = From(row, o) /\ at = depth[row][o]
      OBVIOUS
    <2>2. ray \in Rays /\ To(row, column) = MirroredRay(ray) /\ turned[row][column] = at
      BY <1>1, <1>4, <2>1
    <2>3. MirroredRay(ray).defined = ray.defined
      BY DEF MirroredRay
    <2>4. Point(MirroredRay(ray).x, at, MirroredRay(ray).y, at, at)
            = NegatedX(Point(ray.x, at, ray.y, at, at))
      BY <2>2, MirroredPoint
    <2>5. At(row, o) = Point(ray.x, at, ray.y, at, at)
      BY <2>1, Zenon
    <2> HIDE DEF At
    <2> QED BY <2>1, <2>2, <2>3, <2>4, <2>5, Zenon
  <1> HIDE DEF At
  <1>8. (\E row \in rows : \E column \in Columns : ~To(row, column).defined)
            <=> (\E row \in rows : \E column \in Columns : ~From(row, column).defined)
    <2>1. ASSUME NEW row \in rows, NEW column \in Columns, ~To(row, column).defined
          PROVE  \E o \in Columns : ~From(row, o).defined
      BY <1>2, <1>7, <2>1
    <2>2. ASSUME NEW row \in rows, NEW column \in Columns, ~From(row, column).defined
          PROVE  \E o \in Columns : ~To(row, o).defined
      <3>1. PICK o : o = Other(column)
        OBVIOUS
      <3>2. o \in Columns /\ Other(o) = column
        BY <1>2, <3>1
      <3>3. To(row, o).defined = From(row, column).defined
        BY <1>7, <3>2
      <3> QED BY <2>2, <3>2, <3>3
    <2> QED BY <2>1, <2>2
  <1>9. CASE \E row \in rows : \E column \in Columns : ~From(row, column).defined
    <2>1. PointCloudOf(turned, m) = NoGrid /\ cloud = NoGrid
      BY <1>5, <1>6, <1>8, <1>9, Zenon
    <2>2. ReflectedPoints(NoGrid) = NoGrid
      BY DEF ReflectedPoints, NoGrid
    <2> QED BY <2>1, <2>2 DEF turned, cloud
  <1>10. CASE ~ \E row \in rows : \E column \in Columns : ~From(row, column).defined
    <2>1. PointCloudOf(turned, m) =
              [row \in rows |-> [column \in Columns |->
                     Point(To(row, column).x, turned[row][column],
                           To(row, column).y, turned[row][column], turned[row][column])]]
      BY <1>5, <1>8, <1>10, Zenon
    <2>2. cloud = [row \in rows |-> [column \in Columns |-> At(row, column)]]
      BY <1>6, <1>10, Zenon
    <2>3. PointCloudOf(turned, m) =
              [row \in rows |-> [column \in Columns |-> NegatedX(At(row, Other(column)))]]
      BY <1>7, <2>1
    <2>4. /\ DOMAIN cloud = rows
          /\ \A row \in rows : \A column \in Columns :
                cloud[row][Other(column)] = At(row, Other(column))
      BY <1>2, <2>2
    <2>5. ReflectedPoints(cloud) =
              [row \in rows |-> [column \in Columns |-> NegatedX(cloud[row][Other(column)])]]
      BY <2>4, Zenon DEF ReflectedPoints, Other
    <2>6. ReflectedPoints(cloud) =
              [row \in rows |-> [column \in Columns |-> NegatedX(At(row, Other(column)))]]
      BY <2>4, <2>5
    <2> QED BY <2>3, <2>6 DEF turned, cloud
  <1> QED BY <1>9, <1>10

(***************************************************************************)
(* The cloud that is derived                                               *)
(***************************************************************************)

\* The Camera's calibration is the mirror image of what the device sent.
CloudInv ==
    /\ latestCalibration # NoCalibration =>
          /\ sentCalibration \in CameraCalibrations
          /\ latestCalibration = MirroredCalibration(sentCalibration, DepthWidth)
    /\ DerivedCloudIsReflection

\* The calibrations change together.
LEMMA ReadFieldKeepsCloudInv == ASSUME ParseInv, CloudInv, ReadField PROVE CloudInv'
  <1>1. pc = "read" /\ pc' = "read"
    BY DEF ReadField
  <1>2. PICK field : Learn(field)
    BY Zenon DEF ReadField
  <1>3. payload.calibration \in CameraCalibrations
    BY DEF ParseInv, PayloadShapes
  <1>4. CASE UNCHANGED calibrations
    BY <1>1, <1>4 DEF CloudInv, DerivedCloudIsReflection, calibrations
  <1>5. CASE /\ latestCalibration' = MirroredCalibration(payload.calibration, DepthWidth)
             /\ sentCalibration' = payload.calibration
    BY <1>1, <1>3, <1>5 DEF CloudInv, DerivedCloudIsReflection
  <1> QED BY <1>2, <1>4, <1>5, Zenon DEF Learn

\* The cloud that is missing is built from the turned depth.
LEMMA CompleteKeepsCloudInv == ASSUME TurnInv, CloudInv, Complete PROVE CloudInv'
  <1>1. /\ pc = "complete" /\ parsed' = parsed
        /\ latestCalibration' = latestCalibration /\ sentCalibration' = sentCalibration
    BY DEF Complete, calibrations
  <1>2. /\ IsMeasurement(parsed) /\ IsMeasurement(frame) /\ grid = 4
        /\ \A n \in 1 .. 4 : frame[GridNames[n]] = Progress(parsed, n)
    BY <1>1 DEF TurnInv, Turning
  <1>3. \A name \in GridSet :
            /\ parsed[name] = NoGrid => frame[name] = NoGrid
            /\ parsed[name] # NoGrid => /\ parsed[name] \in GridsOf(name)
                                        /\ frame[name] = TurnedGrid(name, parsed[name])
                                        /\ frame[name] # NoGrid
    BY <1>1, AllTurned
  <1>4. "depth" \in GridSet /\ "pointCloud" \in GridSet
    BY DEF GridSet
  <1>5. ASSUME parsed.pointCloud = NoGrid, frame'.pointCloud # NoGrid
        PROVE  frame'.pointCloud = ReflectedPoints(PointCloudOf(parsed.depth, sentCalibration))
    <2>1. frame.pointCloud = NoGrid
      BY <1>3, <1>4, <1>5
    <2>2. frame = [depth |-> frame.depth, pointCloud |-> frame.pointCloud,
                   confidence |-> frame.confidence, histogram |-> frame.histogram]
      BY <1>2 DEF IsMeasurement
    <2>3. CASE ~(frame.depth # NoGrid /\ latestCalibration # NoCalibration)
      <3>1. frame' = frame
        BY <2>1, <2>3 DEF Complete
      <3> QED BY <1>5, <2>1, <3>1
    <2>4. CASE frame.depth # NoGrid /\ latestCalibration # NoCalibration
      <3>1. frame'.pointCloud = PointCloudOf(frame.depth, latestCalibration)
        <4>1. frame' = [frame EXCEPT !.pointCloud = PointCloudOf(frame.depth, latestCalibration)]
          BY <2>1, <2>4 DEF Complete
        <4> QED BY <2>2, <4>1
      <3>2. /\ sentCalibration \in CameraCalibrations
            /\ latestCalibration = MirroredCalibration(sentCalibration, DepthWidth)
        BY <2>4 DEF CloudInv
      <3>3. parsed.depth \in GridsOf("depth") /\ frame.depth = Reflection(parsed.depth)
        BY <1>3, <1>4, <2>4, TurnedIsReflected
      <3>4. PointCloudOf(Reflection(parsed.depth), latestCalibration)
              = ReflectedPoints(PointCloudOf(parsed.depth, sentCalibration))
        BY <3>2, <3>3, MirroredCloud
      <3> QED BY <3>1, <3>3, <3>4, Zenon
    <2> QED BY <2>3, <2>4
  <1>6. DerivedCloudIsReflection'
    BY <1>1, <1>5 DEF DerivedCloudIsReflection
  <1> QED BY <1>1, <1>6 DEF CloudInv

\* Every step keeps the invariant.
LEMMA CloudStep == ASSUME ParseInv, TurnInv, CloudInv, [Next]_frameDataVars PROVE CloudInv'
  <1>1. CASE ReadField
    BY <1>1, ReadFieldKeepsCloudInv
  <1>2. CASE Complete
    BY <1>2, CompleteKeepsCloudInv
  <1>3. CASE Receive \/ Check \/ RejectHeader \/ ReadTail \/ Turn
    <2>1. UNCHANGED calibrations /\ pc' # "done"
      BY <1>3 DEF Receive, Check, RejectHeader, ReadTail, Turn, EnterRow, Swap, LeaveRow, LeaveGrid
    <2> QED BY <2>1 DEF CloudInv, DerivedCloudIsReflection, calibrations
  <1>4. CASE UNCHANGED frameDataVars
    BY <1>4 DEF frameDataVars, calibrations, CloudInv, DerivedCloudIsReflection
  <1> QED BY <1>1, <1>2, <1>3, <1>4 DEF Next, Parse

\* A cloud that is derived from the turned depth with the turned calibration is the
\* reflection of the cloud that the sensor's own depth and calibration give, for
\* every payload, size of the grids and calibration, every number of iterations and
\* every field: distortion, markers and missing rays included.
THEOREM DerivedCloudsAreReflections == Spec => []DerivedCloudIsReflection
  <1> DEFINE Inv == ParseInv /\ TurnInv /\ CloudInv
  <1>1. Init => Inv
    <2>1. Init => CloudInv
      BY DEF Init, CloudInv, DerivedCloudIsReflection
    <2> QED BY <2>1, ParseInitially, TurnInitially
  <1>2. Inv /\ [Next]_frameDataVars => Inv'
    BY ParseStep, TurnStep, CloudStep
  <1>3. Inv => DerivedCloudIsReflection
    BY DEF CloudInv
  <1> HIDE DEF Inv
  <1> QED BY <1>1, <1>2, <1>3, PTL DEF Spec
=============================================================================
