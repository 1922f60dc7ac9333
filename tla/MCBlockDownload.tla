-------------------------- MODULE MCBlockDownload --------------------------
(* Instances of BlockDownload for TLC; the values are in the .cfg files. *)
EXTENDS BlockDownload

CONSTANTS p1, p2
=============================================================================
