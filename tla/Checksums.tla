----------------------------- MODULE Checksums -----------------------------
(***************************************************************************)
(* ComputeCrc8 of frame_parser.cpp, bit by bit, for bytes of any width.    *)
(***************************************************************************)
EXTENDS Integers, FiniteSetsExt, SequencesExt, Bitwise

\* A Crc8Profile.
CrcProfile(poly, init, xorOut, reflected) ==
    [poly |-> poly, init |-> init, xorOut |-> xorOut, reflected |-> reflected]

\* kCrcProfiles, in order; each reflects its input and its output, or neither.
CrcProfiles == <<CrcProfile(7, 0, 0, FALSE),     \* crc8
                 CrcProfile(7, 0, 85, FALSE),    \* crc8_itu
                 CrcProfile(49, 0, 0, TRUE),     \* maxim
                 CrcProfile(7, 255, 0, TRUE)>>   \* rohc

\* Reflect8: the bits from the other end.
Reflect(bits, value) ==
    MapThenSumSet(LAMBDA k : ((value \div 2^k) % 2) * 2^(bits - 1 - k), 0 .. bits - 1)

\* One turn of the inner loop.
ShiftOut(bits, poly, crc) ==
    LET shifted == (2 * crc) % 2^bits
    IN IF crc >= 2^(bits - 1) THEN shifted ^^ poly ELSE shifted

WithByte(bits, profile, crc, byte) ==
    LET value == IF profile.reflected THEN Reflect(bits, byte) ELSE byte
        shift[k \in 0 .. bits] ==
            IF k = 0 THEN crc ^^ value ELSE ShiftOut(bits, profile.poly, shift[k - 1])
    IN shift[bits]

ComputeCrc(bits, profile, bytes) ==
    LET crc == FoldLeft(LAMBDA c, b : WithByte(bits, profile, c, b), profile.init, bytes)
    IN (IF profile.reflected THEN Reflect(bits, crc) ELSE crc) ^^ profile.xorOut

\* The check values that the catalogues of checksums give for the ASCII digits 1
\* to 9: CRC-8/SMBUS, CRC-8/I-432-1, CRC-8/MAXIM and CRC-8/ROHC.
ASSUME CheckValues ==
    LET digits == [k \in 1 .. 9 |-> 48 + k]
    IN /\ [p \in 1 .. 4 |-> ComputeCrc(8, CrcProfiles[p], digits)] = <<244, 161, 161, 208>>
=============================================================================
