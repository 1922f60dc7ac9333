----------------------------- MODULE MCTorrent ------------------------------
(***************************************************************************)
(* The pieces of a torrent and its peers for TLC, several components in    *)
(* one run: a behaviour is one of the part that `part` names, the other    *)
(* components stay as they are.  Parts of the same module share its        *)
(* variables.                                                              *)
(*                                                                         *)
(*   disk    a piece of two blocks from one peer, and a disk that fails    *)
(*           once;                                                         *)
(*   race    a piece of one block from two peers, and a disk that fails    *)
(*           once;                                                         *)
(*   pieces  two pieces of one block from two peers, one of which sends    *)
(*           what is wrong;                                                *)
(*   order   a picker of three pieces of three priorities and one          *)
(*           connection that tells what it has once;                       *)
(*   count   a picker of two pieces and two connections that send          *)
(*           bitfields at any time and, as seeds, give up pieces;          *)
(*   upload  two peers that request two pieces, one of which is wrong on   *)
(*           disk;                                                         *)
(*   choker  three peers of two torrents, one of them local, that compete  *)
(*           for two slots.                                                *)
(***************************************************************************)
EXTENDS Choker, TLC

CONSTANTS p1, p2, p3, t1, t2, NoPeer, NoBlock

TorrentOfPeer == p1 :> t1 @@ p2 :> t1 @@ p3 :> t2
AnyError == {"no_memory", "no_space", "other"}

VARIABLES
    part,   \* what takes the steps
    \* BlockDownload
    d_conn, d_choked, d_parole, d_queue, d_receiving, d_picker, d_upload_mode, d_jobs, d_cache,
    d_disk, d_done, d_errors,
    \* PieceOrder
    o_picker, o_conn, o_bits, o_upload_mode, o_checking, o_restarts, o_mishaps,
    \* Upload
    u_conn, u_torrent, u_jobs, u_owed

downloadVars == <<d_conn, d_choked, d_parole, d_queue, d_receiving, d_picker, d_upload_mode,
                  d_jobs, d_cache, d_disk, d_done, d_errors>>
orderVars == <<o_picker, o_conn, o_bits, o_upload_mode, o_checking, o_restarts, o_mishaps>>
uploadVars == <<u_conn, u_torrent, u_jobs, u_owed>>

D == INSTANCE BlockDownload WITH
        Peer <- {p1}, Piece <- {0}, Index <- {0, 1}, FastPeer <- {p1}, MaxQueue <- 2,
        MaxDiskErrors <- 1, PossibleErrors <- AnyError, StrictEndGameMode <- TRUE,
        DropSkippedRequests <- FALSE, StrayPeer <- {p1}, CorruptPeer <- {}, conn <- d_conn,
        choked <- d_choked, parole <- d_parole, queue <- d_queue, receiving <- d_receiving,
        picker <- d_picker, upload_mode <- d_upload_mode, jobs <- d_jobs, cache <- d_cache,
        disk <- d_disk, done <- d_done, errors <- d_errors

R == INSTANCE BlockDownload WITH
        Peer <- {p1, p2}, Piece <- {0}, Index <- {0}, FastPeer <- {p1}, MaxQueue <- 2,
        MaxDiskErrors <- 1, PossibleErrors <- AnyError, StrictEndGameMode <- TRUE,
        DropSkippedRequests <- FALSE, StrayPeer <- {p1}, CorruptPeer <- {p1}, conn <- d_conn,
        choked <- d_choked, parole <- d_parole, queue <- d_queue, receiving <- d_receiving,
        picker <- d_picker, upload_mode <- d_upload_mode, jobs <- d_jobs, cache <- d_cache,
        disk <- d_disk, done <- d_done, errors <- d_errors

P == INSTANCE BlockDownload WITH
        Peer <- {p1, p2}, Piece <- {0, 1}, Index <- {0}, FastPeer <- {p1}, MaxQueue <- 1,
        MaxDiskErrors <- 0, PossibleErrors <- {}, StrictEndGameMode <- FALSE,
        DropSkippedRequests <- TRUE, StrayPeer <- {}, CorruptPeer <- {p2}, conn <- d_conn,
        choked <- d_choked, parole <- d_parole, queue <- d_queue, receiving <- d_receiving,
        picker <- d_picker, upload_mode <- d_upload_mode, jobs <- d_jobs, cache <- d_cache,
        disk <- d_disk, done <- d_done, errors <- d_errors

O == INSTANCE PieceOrder WITH
        NumPieces <- 3, Peers <- {p1}, Priorities <- {0, 1, 4}, CloseRedundant <- TRUE,
        CountMod <- 3, MaxSeeds <- 1, Mishaps <- {}, MaxRestarts <- 1, picker <- o_picker,
        conn <- o_conn, bits <- o_bits, upload_mode <- o_upload_mode, checking <- o_checking,
        restarts <- o_restarts, mishaps <- o_mishaps

C == INSTANCE PieceOrder WITH
        NumPieces <- 2, Peers <- {p1, p2}, Priorities <- {1}, CloseRedundant <- TRUE,
        CountMod <- 3, MaxSeeds <- 2, Mishaps <- {"miscounted", "seed", "unlisted"},
        MaxRestarts <- 0, picker <- o_picker, conn <- o_conn, bits <- o_bits,
        upload_mode <- o_upload_mode, checking <- o_checking, restarts <- o_restarts,
        mishaps <- o_mishaps

U == INSTANCE Upload WITH
        Conns <- {p1, p2}, Pieces <- {1, 2}, Bad <- {2}, AllowedFast <- {1},
        SeedModes <- BOOLEAN, SuperSeeds <- BOOLEAN, Reordered <- TRUE, Watermark <- 1,
        MaxAllowed <- 0, MaxRejects <- 1, MaxOwed <- 2, conn <- u_conn, torrent <- u_torrent,
        jobs <- u_jobs, owed <- u_owed

AllVars == <<part, downloadVars, orderVars, uploadVars, vars>>

PartInit ==
    /\ part \in {"disk", "race", "pieces", "order", "count", "upload", "choker"}
    /\ IF part = "race" THEN R!Init ELSE IF part = "pieces" THEN P!Init ELSE D!Init
    /\ IF part = "count" THEN C!Init ELSE O!Init
    /\ U!Init
    /\ Init
    /\ part \notin {"disk", "race", "pieces"} => \A b \in DOMAIN d_disk : ~d_disk[b]
    /\ part # "upload" => u_torrent.seed_mode /\ u_torrent.super
    /\ part # "choker" => setting.ignore

\* A step of the part p that leaves the other components alone.
InPart(p, step, others) == part = p /\ step /\ UNCHANGED <<part, others>>

notDownload == <<orderVars, uploadVars, vars>>
notOrder == <<downloadVars, uploadVars, vars>>
notUpload == <<downloadVars, orderVars, vars>>
notChoker == <<downloadVars, orderVars, uploadVars>>

PartNext ==
    \/ InPart("disk", D!Next, notDownload)
    \/ InPart("race", R!Next, notDownload)
    \/ InPart("pieces", P!Next, notDownload)
    \/ InPart("order", O!Next, notOrder)
    \/ InPart("count", C!Next, notOrder)
    \/ InPart("upload", U!Next, notUpload)
    \/ InPart("choker", ~miscounted /\ Next, notChoker)

PartSpec == PartInit /\ [][PartNext]_AllVars

-----------------------------------------------------------------------------
\* No block is stuck in writing or finished after a write or a hash job failed: its
\* write or the hash of its piece is under way.
NothingIsStuck ==
    /\ part = "disk" => D!NothingIsStuck
    /\ part = "race" => R!NothingIsStuck

\* Order, cursors, availability and counts of the picker are what computing them
\* anew would give; as for the availability, until a bitfield is counted twice or
\* not at all.
PickerIsRight ==
    /\ part = "order" => O!PickerIsRight
    /\ part = "count" => C!PickerIsRight

\* The blocks of two pieces are kept as those of one: picker and connections
\* agree on them, and a piece that we have is closed to peers.
PiecesAgree == part = "pieces" => P!BooksAgree /\ P!HaveIsClosed

\* A request is answered once, by a block or by a rejection, and until then it
\* waits in one place.
UploadIsRight == part = "upload" => U!UploadIsRight
=============================================================================
