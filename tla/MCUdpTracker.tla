---------------------------- MODULE MCUdpTracker ----------------------------
(* Instances of UdpTracker for TLC; the values are in the .cfg files. *)
EXTENDS UdpTracker

CONSTANTS r1, r2, e1, e2
=============================================================================
