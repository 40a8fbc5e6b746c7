----------------------------- MODULE MCUdpClock -----------------------------
(* Fields on both sides of the epoch bounds, of a second and of the wrap. *)
EXTENDS UdpClock

MCFields == {<<0, 1>>, <<1, 6>>, <<4, 7>>, <<5, 0>>, <<6, 0>>, <<6, 3>>, <<7, 2>>, <<12, 7>>,
             <<13, 0>>, <<15, 5>>}
=============================================================================
