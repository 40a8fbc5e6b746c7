---------------------------- MODULE Undistortion ----------------------------
(***************************************************************************)
(* UndistortPixelToRay (frame_event.cpp).  Its formulas hold in any field, *)
(* so the floats are represented by the integers modulo a prime: what the  *)
(* algebra gives is kept, the rounding is not.  "Close to zero" is zero,   *)
(* and a ray that is not finite is the only other way to fail.             *)
(***************************************************************************)
EXTENDS Integers

CONSTANTS Prime,       \* the size of the field
          Iterations   \* 8

Numbers == 0 .. Prime - 1

\* That Prime is a prime, as what is asked of a field: what is not zero has a
\* reciprocal.
ASSUME UndistortionAssumption ==
    /\ Prime \in Nat \ {0, 1}
    /\ \A a \in Numbers \ {0} : \E b \in Numbers : (a * b) % Prime = 1
    /\ Iterations \in Nat

Negative(a) == (Prime - a) % Prime

\* SafeReciprocal.
Reciprocal(a) == IF a = 0 THEN 0 ELSE CHOOSE b \in Numbers : (a * b) % Prime = 1

CameraCalibrations == [fx : Numbers, fy : Numbers, cx : Numbers, cy : Numbers,
                       k1 : Numbers, k2 : Numbers, k3 : Numbers, k4 : Numbers, k5 : Numbers,
                       k6 : Numbers, p1 : Numbers, p2 : Numbers]

\* CalibrationFromRaw; the copy in raw follows the fields and is left out.
CalibrationFromRaw(raw) ==
    [fx |-> raw[1], fy |-> raw[2], cx |-> raw[3], cy |-> raw[4], k1 |-> raw[5], k2 |-> raw[6],
     p1 |-> raw[7], p2 |-> raw[8], k3 |-> raw[9], k4 |-> raw[10], k5 |-> raw[11],
     k6 |-> raw[12]]

HasCalibrationNumbers(c) == c.fx # 0 /\ c.fy # 0

NoRay == [defined |-> FALSE, x |-> 0, y |-> 0]
Ray(x, y) == [defined |-> TRUE, x |-> x % Prime, y |-> y % Prime]

Radial(k1, k2, k3, r2) == (1 + k1 * r2 + k2 * r2 * r2 + k3 * r2 * r2 * r2) % Prime

\* One iteration: undo the distortion at the current guess.
Corrected(c, distorted, guess) ==
    LET x == guess.x
        y == guess.y
        r2 == (x * x + y * y) % Prime
        numerator   == Radial(c.k1, c.k2, c.k3, r2)
        denominator == Radial(c.k4, c.k5, c.k6, r2)
        deltaX == (2 * c.p1 * x * y + c.p2 * (r2 + 2 * x * x)) % Prime
        deltaY == (c.p1 * (r2 + 2 * y * y) + 2 * c.p2 * x * y) % Prime
        perRadial == denominator * Reciprocal(numerator)
    IN IF ~guess.defined \/ numerator = 0 \/ denominator = 0 THEN NoRay
       ELSE Ray((distorted.x - deltaX) * perRadial, (distorted.y - deltaY) * perRadial)

\* The pixel as the lens has distorted it, and the guesses from it onwards.
Distorted(c, pixelX, pixelY) ==
    Ray((pixelX - c.cx) * Reciprocal(c.fx), (pixelY - c.cy) * Reciprocal(c.fy))

Guesses(c, distorted) ==
    LET guess[n \in 0 .. Iterations] ==
            IF n = 0 THEN distorted ELSE Corrected(c, distorted, guess[n - 1])
    IN guess

UndistortPixelToRay(c, pixelX, pixelY) == Guesses(c, Distorted(c, pixelX, pixelY))[Iterations]

\* A mutant: the tangential distortion keeps its sign.
MirroredKeepingP2(c, width) == [c EXCEPT !.cx = (width - 1 - c.cx) % Prime]

\* NormalizeHorizontalMirrorCalibration.
MirroredCalibration(c, width) ==
    [c EXCEPT !.cx = (width - 1 - c.cx) % Prime, !.p2 = Negative(c.p2)]
=============================================================================
