----------------------------- MODULE MCUdpOpen -----------------------------
(***************************************************************************)
(* Bytes of two bits.  The pairs of a sender and a target agree in three   *)
(* bytes, in two, in one, in none, and in all; some have an address of     *)
(* zeros; a frame of each pair may be of any kind, torn or whole.          *)
(***************************************************************************)
EXTENDS UdpOpen

Word(b1, b2, b3, b4) == ((b1 * 4 + b2) * 4 + b3) * 4 + b4

Camera == Word(3, 2, 1, 1)

MCPairs == {<<Camera, Word(3, 2, 1, 2)>>, <<Camera, Word(3, 2, 2, 0)>>,
            <<Camera, Word(3, 3, 1, 1)>>, <<Camera, Word(1, 2, 1, 1)>>,
            <<Camera, Camera>>, <<0, Camera>>, <<Camera, 0>>}

MCLinkFrames ==
    UNION {[whole : BOOLEAN, kind : FrameKinds, toPort : BOOLEAN,
            sender : {pair[1]}, target : {pair[2]}] : pair \in MCPairs}

MCForeignAddresses == {Word(2, 0, 0, 1)}
=============================================================================
