------------------------------ MODULE MCCamera ------------------------------
(***************************************************************************)
(* A Camera that is opened again and again with a few of its requests.     *)
(***************************************************************************)
EXTENDS Camera

Uvc(profile, bootstrap, preferred) ==
    [transport |-> "Uvc", profile |-> profile, bootstrap |-> bootstrap, preferred |-> preferred]
NotUvc(transport) == [Uvc("Mixed120x90", TRUE, "Mixed120x90") EXCEPT !.transport = transport]

\* One request per stream, with and without a bootstrap.
AllStreams == {
    NotUvc("Serial"),
    NotUvc("Udp"),
    Uvc("Mixed120x90", TRUE, "Mixed120x90"),
    Uvc("Depth40x30", FALSE, "Mixed120x90"),
    Uvc("Depth40x30", TRUE, "Mixed120x90"),
    Uvc("PointCloud160x120", TRUE, "Raw480x360"),
    Uvc("Raw480x360", TRUE, "Depth40x30")}

\* A depth stream of a caller who switched the bootstrap off.
DepthOnly == {Uvc("Depth40x30", FALSE, "Mixed120x90")}
=============================================================================
