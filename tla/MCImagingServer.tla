-------------------------- MODULE MCImagingServer --------------------------
(* An instance of ImagingServer for TLC. *)
EXTENDS ImagingServer

CONSTANTS r1, r2, r3, r4, r5

FiveRequests == {r1, r2, r3, r4, r5}
=============================================================================
