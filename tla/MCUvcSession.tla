---------------------------- MODULE MCUvcSession ----------------------------
(* A small instance of UvcSession: buffers hold the payloads of a session. *)
EXTENDS UvcSession

MCFrames == [type : {"PointCloud", "Depth", "Info"}, capture : 1 .. CaptureLimit,
             timed : BOOLEAN]
=============================================================================
