---------------------------- MODULE PickerBlocks ----------------------------
(***************************************************************************)
(* The block bookkeeping of libtorrent's piece_picker: for every piece     *)
(* being downloaded one downloading_piece entry of m_downloads with three  *)
(* counters and a block_info per block.  The operators map a picker to     *)
(* the picker the member function of the same name leaves behind; the      *)
(* code calls them in loops over a queue, here one call takes the whole    *)
(* set of blocks (and of peers), which is the same because a peer holds a  *)
(* block at most once.                                                     *)
(*                                                                         *)
(* Piece order, priorities and availability (m_pieces, m_cursor, ...) play *)
(* no part in these operations and are left out.                           *)
(***************************************************************************)
EXTENDS Integers, FiniteSets

CONSTANTS
    Peer,    \* peer connections; policy::peer* in block_info::peer
    NoPeer,  \* the null policy::peer*
    Piece,   \* piece indexes
    Index    \* block indexes in a piece, 0 .. blocks_in_piece() - 1

ASSUME PeerAssumption == IsFiniteSet(Peer) /\ NoPeer \notin Peer
ASSUME BlockAssumption ==
    IsFiniteSet(Piece) /\ IsFiniteSet(Index) /\ Piece # {} /\ Index # {}

Block == Piece \X Index
\* Mutant: the block index is taken for the piece index.
PieceOfSwapped(b) == b[2]
PieceOf(b) == b[1]
BlocksIn(p) == {p} \X Index

BlockState == {"none", "requested", "writing", "finished"}

BlockInfo == [state : BlockState, peer : Peer \cup {NoPeer}, num_peers : Int]
Counters == [requested : Int, writing : Int, finished : Int]

\* info and cnt hold the entry of a piece of `downloading` (m_downloads); the
\* entry of any other piece is what add_download_piece() starts from.
Picker == [info        : [Block -> BlockInfo],
           cnt         : [Piece -> Counters],
           downloading : SUBSET Piece,
           have        : SUBSET Piece]

FreshInfo == [state |-> "none", peer |-> NoPeer, num_peers |-> 0]
ZeroCount == [requested |-> 0, writing |-> 0, finished |-> 0]

EmptyPicker == [info        |-> [b \in Block |-> FreshInfo],
                cnt         |-> [p \in Piece |-> ZeroCount],
                downloading |-> {},
                have        |-> {}]

\* Mutant: blocks that were only asked for count as well.
IsPieceFinishedEarly(pk, p) ==
    /\ p \in pk.downloading
    /\ pk.cnt[p].finished + pk.cnt[p].writing + pk.cnt[p].requested >= Cardinality(Index)

\* is_piece_finished: every block is on disk or on its way there.
IsPieceFinished(pk, p) ==
    /\ p \in pk.downloading
    /\ pk.cnt[p].finished + pk.cnt[p].writing >= Cardinality(Index)

IsRequested(pk, b) == pk.info[b].state = "requested"

IsDownloaded(pk, b) ==
    PieceOf(b) \in pk.have \/ pk.info[b].state \in {"writing", "finished"}

\* The counters c after r, w and f more blocks are requested, being written
\* and finished.
Add(c, r, w, f) == [requested |-> c.requested + r,
                    writing   |-> c.writing + w,
                    finished  |-> c.finished + f]
Active(c) == c.requested + c.writing + c.finished

\* The number of blocks of bs in piece p.
In(bs, p) == Cardinality({b \in bs : PieceOf(b) = p})
Pieces(bs) == {PieceOf(b) : b \in bs}

\* erase_download_piece for every piece of ps.
Erase(pk, ps) ==
    [info        |-> [b \in Block |-> IF PieceOf(b) \in ps THEN FreshInfo ELSE pk.info[b]],
     cnt         |-> [p \in Piece |-> IF p \in ps THEN ZeroCount ELSE pk.cnt[p]],
     downloading |-> pk.downloading \ ps,
     have        |-> pk.have]

\* Mutant: they stay.
EraseIdleNever(pk, ps) == pk

\* Drop the entries of ps that no longer have an active block.
EraseIdle(pk, ps) == Erase(pk, {p \in ps : Active(pk.cnt[p]) = 0})

\* mark_as_downloading(b, peer) for every b and every peer of from[b].
MarkAsDownloading(pk, from) ==
    LET new == {b \in Block : /\ from[b] # {}
                              /\ pk.info[b].state \in {"none", "requested"}}
        opened == {b \in new : pk.info[b].state = "none"}
    IN [info |-> [b \in Block |->
                    IF b \in new
                    THEN [state     |-> "requested",
                          peer      |-> CHOOSE peer \in from[b] : TRUE,
                          num_peers |-> pk.info[b].num_peers + Cardinality(from[b])]
                    ELSE pk.info[b]],
        cnt |-> [p \in Piece |-> Add(pk.cnt[p], In(opened, p), 0, 0)],
        downloading |-> pk.downloading \cup Pieces(new),
        have |-> pk.have]

\* Mutant: the block is freed while others are still asked for it.
AbortDownloadAll(pk, from) ==
    LET freed == {b \in Block : from[b] # {} /\ pk.info[b].state = "requested"}
    IN EraseIdle([info |-> [b \in Block |-> IF b \in freed THEN FreshInfo ELSE pk.info[b]],
                  cnt  |-> [p \in Piece |-> Add(pk.cnt[p], -In(freed, p), 0, 0)],
                  downloading |-> pk.downloading,
                  have |-> pk.have],
                 Pieces(freed))

\* abort_download(b, peer) for every b and every peer of from[b]: the request
\* count goes down, and the block is free again when the count reaches zero.
AbortDownload(pk, from) ==
    LET hit   == {b \in Block : from[b] # {} /\ pk.info[b].state = "requested"}
        freed == {b \in hit : pk.info[b].num_peers <= Cardinality(from[b])}
        fewer(i, ps) == [state     |-> i.state,
                         peer      |-> IF i.peer \in ps THEN NoPeer ELSE i.peer,
                         num_peers |-> i.num_peers - Cardinality(ps)]
        next  == [info |-> [b \in Block |->
                              IF b \in freed THEN FreshInfo
                              ELSE IF b \in hit THEN fewer(pk.info[b], from[b])
                              ELSE pk.info[b]],
                  cnt  |-> [p \in Piece |-> Add(pk.cnt[p], -In(freed, p), 0, 0)],
                  downloading |-> pk.downloading,
                  have |-> pk.have]
    IN IF hit = {} THEN pk ELSE EraseIdle(next, Pieces(freed))

\* mark_as_writing(b, peer): a received block is handed to the disk thread.
\* The other requests for it are forgotten.
MarkAsWriting(pk, b, peer) ==
    LET p == PieceOf(b)
        was == pk.info[b].state
        set(i, c, d) == [info |-> [pk.info EXCEPT ![b] = i], cnt |-> [pk.cnt EXCEPT ![p] = c],
                         downloading |-> d, have |-> pk.have]
        info(st, n) == [state |-> st, peer |-> peer, num_peers |-> n]
    IN IF p \notin pk.downloading /\ p \in pk.have
       THEN pk
       ELSE IF was \in {"writing", "finished"}
       THEN set(info(was, pk.info[b].num_peers), pk.cnt[p], pk.downloading)
       ELSE set(info("writing", 0), Add(pk.cnt[p], IF was = "requested" THEN -1 ELSE 0, 1, 0),
                pk.downloading \cup {p})

\* mark_as_finished(b, who[b]) for every b of bs.  The state the block is in
\* is not looked at again: only a writing block gives its count back.
MarkAsFinished(pk, bs, who) ==
    LET new == {b \in bs : /\ PieceOf(b) \in pk.downloading \/ PieceOf(b) \notin pk.have
                           /\ pk.info[b].state # "finished"}
        written == {b \in new : pk.info[b].state = "writing"}
    IN [info |-> [b \in Block |->
                    IF b \in new
                    THEN [state |-> "finished", peer |-> who[b],
                          num_peers |-> pk.info[b].num_peers]
                    ELSE pk.info[b]],
        cnt |-> [p \in Piece |-> Add(pk.cnt[p], 0, -In(written, p), In(new, p))],
        downloading |-> pk.downloading \cup Pieces(new),
        have |-> pk.have]

\* Mutant: the picker is not told.
WriteFailedIgnored(pk, bs) == pk

\* write_failed(b) for every b of bs.
WriteFailed(pk, bs) ==
    LET hit == {b \in bs : /\ PieceOf(b) \in pk.downloading
                           /\ pk.info[b].state # "finished"}
        lost == {b \in hit : pk.info[b].state = "writing"}
        next == [info |-> [b \in Block |->
                             IF b \in hit
                             THEN [state |-> "none", peer |-> NoPeer,
                                   num_peers |-> pk.info[b].num_peers]
                             ELSE pk.info[b]],
                 cnt |-> [p \in Piece |-> Add(pk.cnt[p], 0, -In(lost, p), 0)],
                 downloading |-> pk.downloading,
                 have |-> pk.have]
    IN EraseIdle(next, Pieces(hit))

\* Mutant: the entry stays.
WeHaveOpen(pk, p) == [pk EXCEPT !.have = @ \cup {p}]

\* we_have(p): the entry goes away and the piece is ours.
WeHave(pk, p) ==
    LET next == Erase(pk, {p})
    IN [info |-> next.info, cnt |-> next.cnt, downloading |-> next.downloading,
        have |-> pk.have \cup {p}]
=============================================================================
