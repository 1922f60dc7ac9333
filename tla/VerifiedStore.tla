---------------------------- MODULE VerifiedStore ----------------------------
(***************************************************************************)
(* What the download path of a torrent promises to everyone who reads the  *)
(* files: the content of a piece may change while the piece is missing,    *)
(* a piece is declared as ours only when all its blocks are right, and     *)
(* from then on it is neither given up nor written to.                     *)
(***************************************************************************)
CONSTANTS Piece, Index

VARIABLES
    have,  \* the pieces we have
    disk   \* disk[<<p, i>>]: the file holds the right bytes for that block

vars == <<have, disk>>

Block == Piece \X Index

Init ==
    /\ have = {}
    /\ disk \in [Block -> BOOLEAN]

\* Blocks of missing pieces are written, rightly or wrongly.
Store ==
    /\ disk' \in [Block -> BOOLEAN]
    /\ \A b \in Block : b[1] \in have => disk'[b] = disk[b]
    /\ have' = have

Verify(p) ==
    /\ p \notin have
    /\ \A i \in Index : disk[<<p, i>>]
    /\ have' = have \cup {p}
    /\ disk' = disk

Next == Store \/ \E p \in Piece : Verify(p)

Spec == Init /\ [][Next]_vars

\* A piece we have is right on disk.
HaveIsRight == \A p \in have, i \in Index : disk[<<p, i>>]
=============================================================================
