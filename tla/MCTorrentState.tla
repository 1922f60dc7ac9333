--------------------------- MODULE MCTorrentState ---------------------------
(* Instances of TorrentState for TLC; the values are in the .cfg files. *)
EXTENDS TorrentState

CONSTANTS t1

AllOnDisk == [t \in Torrents |-> AllPieces]
=============================================================================
