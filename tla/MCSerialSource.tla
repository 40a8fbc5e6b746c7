--------------------------- MODULE MCSerialSource ---------------------------
(***************************************************************************)
(* Bytes below 8, frames of at most 8 bytes, and transmissions of three    *)
(* pieces: intact frames, some of which fit both checksum profiles,        *)
(* damaged ones, torn ones, frames of the other profile and noise.         *)
(***************************************************************************)
EXTENDS SerialSource, Checksums

MCNoise == {<<Sync0>>, <<Sync0, Sync1, 4, 0>>}

\* Two checksums of three bits, tabulated for the sequences that fit a frame.
MCCrcProfiles == <<CrcProfile(3, 0, 0, FALSE), CrcProfile(3, 7, 0, TRUE)>>

CrcTable ==
    [profile \in 1 .. 2 |->
        <<[a \in 0 .. 7 |-> ComputeCrc(3, MCCrcProfiles[profile], <<a>>)],
          [a \in 0 .. 7 |-> [b \in 0 .. 7 |-> ComputeCrc(3, MCCrcProfiles[profile], <<a, b>>)]],
          [a \in 0 .. 7 |-> [b \in 0 .. 7 |-> [c \in 0 .. 7 |->
              ComputeCrc(3, MCCrcProfiles[profile], <<a, b, c>>)]]]>>]

MCCrc(profile, bytes) ==
    LET table == CrcTable[profile][Len(bytes)]
    IN CASE Len(bytes) = 1 -> table[bytes[1]]
         [] Len(bytes) = 2 -> table[bytes[1]][bytes[2]]
         [] Len(bytes) = 3 -> table[bytes[1]][bytes[2]][bytes[3]]

Checked(frame, profile) ==
    [msgId |-> frame.msgId, msgData |-> frame.msgData,
     crc |-> MCCrc(profile, <<frame.msgId>> \o frame.msgData)]

Bytes(sent) ==
    <<Sync0, Sync1, Len(sent.msgData) + 2, 0, sent.msgId>> \o sent.msgData \o <<sent.crc>>

Info    == [msgId |-> InfoMsgId, msgData |-> <<>>]
Data    == [msgId |-> DataMsgId, msgData |-> <<Sync0>>]
Nested  == [msgId |-> DataMsgId, msgData |-> <<Sync0, Sync1>>]
Unknown == [msgId |-> 3, msgData |-> <<0>>]

\* Both profiles give these two the same checksum.
InfoOfBoth    == [msgId |-> InfoMsgId, msgData |-> <<1>>]
UnknownOfBoth == [msgId |-> 3, msgData |-> <<3>>]

Whole(sent) == [bytes |-> Bytes(sent), frames |-> <<sent>>]
Torn(bytes) == [bytes |-> bytes, frames |-> <<>>]

\* The device's profile is the second one, which "auto" tries last.
Intact(frame) == Whole(Checked(frame, 2))
OfFirst(frame) == Whole(Checked(frame, 1))

NestedDamaged == Whole([Checked(Nested, 2) EXCEPT !.msgId = 7])

Pieces ==
    {Intact(f) : f \in {Info, Data, Nested, Unknown, InfoOfBoth, UnknownOfBoth}} \cup
    {OfFirst(f) : f \in {Info, Data}} \cup
    {NestedDamaged} \cup
    {Torn(b) : b \in {<<Sync0>>, <<0, Sync1, 0, 0, 0>>, <<Sync0, Sync1, 7, 0>>,
                      SubSeq(Bytes(Checked(Nested, 2)), 1, 5)}}

Joined(pieces) ==
    [bytes  |-> FlattenSeq([i \in DOMAIN pieces |-> pieces[i].bytes]),
     frames |-> FlattenSeq([i \in DOMAIN pieces |-> pieces[i].frames])]

MCTransmissions == {Joined(pieces) : pieces \in [1 .. 3 -> Pieces]}
=============================================================================
