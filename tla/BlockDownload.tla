---------------------------- MODULE BlockDownload ----------------------------
(***************************************************************************)
(* The download path of one torrent, from the request of a block to the    *)
(* piece we have.  Two threads run it:                                     *)
(*                                                                         *)
(*  - the network thread owns the piece picker and the request queues of   *)
(*    the peer connections (peer_connection.cpp, policy.cpp, torrent.cpp); *)
(*    its handlers run one at a time;                                      *)
(*  - the disk thread (disk_io_thread.cpp) takes write and hash jobs from  *)
(*    the FIFO m_jobs, keeps written blocks in a write cache, and posts    *)
(*    completions back, in order, to the network thread.                   *)
(*                                                                         *)
(* A peer's m_request_queue and m_download_queue are the place of each     *)
(* block in them.  The order of the entries is left out: where the code    *)
(* takes the first or the last entry the model takes any.                  *)
(***************************************************************************)
EXTENDS PickerBlocks, Sequences

CONSTANTS
    FastPeer,             \* the peers that support the FAST extension
    MaxQueue,             \* the largest m_desired_queue_size
    MaxDiskErrors,        \* bound on the number of failing disk operations
    PossibleErrors,       \* the kinds of disk errors that happen
    StrictEndGameMode,    \* session_settings::strict_end_game_mode
    DropSkippedRequests,  \* session_settings::drop_skipped_requests
    StrayPeer,            \* the peers that send blocks nobody asked them for
    CorruptPeer,          \* the peers that send wrong data
    NoBlock               \* piece_block::invalid

ASSUME ConfigAssumption ==
    /\ FastPeer \subseteq Peer /\ StrayPeer \subseteq Peer /\ CorruptPeer \subseteq Peer
    /\ MaxQueue \in Nat \ {0}
    /\ MaxDiskErrors \in Nat
    /\ PossibleErrors \subseteq {"no_memory", "no_space", "other"}
    /\ StrictEndGameMode \in BOOLEAN
    /\ DropSkippedRequests \in BOOLEAN
    /\ NoBlock \notin Block

VARIABLES
    \* network thread
    conn,         \* life of each connection
    choked,       \* m_peer_choked
    parole,       \* policy::peer::on_parole
    queue,        \* queue[p][b]: the queue of p that b is in, and its flags
    receiving,    \* m_receiving_block
    picker,       \* m_picker
    upload_mode,  \* m_upload_mode
    \* disk thread
    jobs,         \* m_jobs
    cache,        \* the blocks of the write cache, m_pieces
    disk,         \* disk[b]: the file holds the right bytes for b
    done,         \* posted completions the network thread has not run
    errors        \* disk operations that failed so far

netVars == <<conn, choked, parole, queue, receiving, picker, upload_mode>>
diskVars == <<cache, disk, errors>>
vars == <<netVars, jobs, diskVars, done>>

\* request: in m_request_queue.  The others are in m_download_queue, the
\* last two with the flag of that name.
Place == {"idle", "request", "download", "timed_out", "not_wanted"}
Sent == {"download", "timed_out", "not_wanted"}
\* The entries the picker has in block_info::num_peers.
Counted == {"request", "download"}

\* The error codes torrent::handle_disk_error tells apart.
DiskError == {"no_memory", "no_space", "other"}

Write == [block : Block, peer : Peer, good : BOOLEAN]
Job == [op : {"write"}, w : Write] \cup [op : {"hash"}, piece : Piece]
\* What one job hands back in one go: the callbacks of the blocks one
\* flush_range call wrote, which share a result, and then the hash result.
Completion ==
    [op : {"write"}, ws : SUBSET Write, ret : DiskError \cup {"ok"}]
    \cup [op : {"hash"}, ws : SUBSET Write, ret : DiskError \cup {"ok"},
          piece : Piece, verdict : {"passed", "failed", "no_memory", "other"}]

TypeOK ==
    /\ conn \in [Peer -> {"new", "up", "gone"}]
    /\ choked \in [Peer -> BOOLEAN]
    /\ parole \in [Peer -> BOOLEAN]
    /\ queue \in [Peer -> [Block -> Place]]
    /\ receiving \in [Peer -> Block \cup {NoBlock}]
    /\ picker \in Picker
    /\ upload_mode \in BOOLEAN
    /\ jobs \in Seq(Job)
    /\ cache \in SUBSET Write
    /\ disk \in [Block -> BOOLEAN]
    /\ done \in Seq(Completion)
    /\ errors \in 0 .. MaxDiskErrors

\* No piece has passed the initial check of the files; parts of some may be
\* there from an earlier session.
Init ==
    /\ conn = [p \in Peer |-> "new"]
    /\ choked = [p \in Peer |-> TRUE]
    /\ parole = [p \in Peer |-> FALSE]
    /\ queue = [p \in Peer |-> [b \in Block |-> "idle"]]
    /\ receiving = [p \in Peer |-> NoBlock]
    /\ picker = EmptyPicker
    /\ upload_mode = FALSE
    /\ jobs = <<>>
    /\ cache = {}
    /\ disk \in [Block -> BOOLEAN]
    /\ \A p \in Piece : \E b \in BlocksIn(p) : ~disk[b]
    /\ done = <<>>
    /\ errors = 0

-----------------------------------------------------------------------------
(* The state a handler of the network thread works on.  A handler is a chain
   of operators from one such record to the next. *)

Net == [conn |-> conn, choked |-> choked, parole |-> parole, queue |-> queue,
        receiving |-> receiving, picker |-> picker, upload_mode |-> upload_mode]

\* The choice from one value has TLC compute it once.
Become(next) ==
    \E s \in {next} :
        /\ conn' = s.conn
        /\ choked' = s.choked
        /\ parole' = s.parole
        /\ queue' = s.queue
        /\ receiving' = s.receiving
        /\ picker' = s.picker
        /\ upload_mode' = s.upload_mode

IsSeed(s) == s.picker.have = Piece
Up(s) == {p \in Peer : s.conn[p] = "up"}

InQueue(s, p, places) == {b \in Block : s.queue[p][b] \in places}
\* The blocks the picker counts p as a downloader of.
Wanted(s, p) == InQueue(s, p, Counted)
\* bs for the one peer p.
Only(p, bs) == [q \in Peer |-> IF q = p THEN bs ELSE {}]

\* The blocks of bs[p] leave the queues of p, for each p, and the picker hears
\* of those it counted: the loops around abort_download of
\* clear_request_queue, cancel_all_requests, snub_peer and disconnect.
Dequeue(s, bs) ==
    [s EXCEPT
       !.queue = [p \in Peer |-> [b \in Block |-> IF b \in bs[p] THEN "idle" ELSE @[p][b]]],
       !.picker = AbortDownload(@, [b \in Block |->
                     {p \in Peer : b \in bs[p] /\ s.queue[p][b] \in Counted}])]

Unsent(s, ps) == [p \in Peer |-> IF p \in ps THEN InQueue(s, p, {"request"}) ELSE {}]

\* peer_connection::disconnect for the peers of ps that are connected.
Disconnect(s, ps) ==
    LET off == ps \cap Up(s)
        next == Dequeue(s, [p \in Peer |-> IF p \in off THEN Block ELSE {}])
    IN [next EXCEPT
          !.conn = [p \in Peer |-> IF p \in off THEN "gone" ELSE @[p]],
          !.receiving = [p \in Peer |-> IF p \in off THEN NoBlock ELSE @[p]]]

\* incoming_reject_request for the blocks of bs[p] in m_download_queue of p.
\* A peer on parole keeps the request and sends it again later.
Reject(s, bs) ==
    LET kept(p) == {b \in bs[p] : s.parole[p] /\ s.queue[p][b] = "download"}
        next == Dequeue(s, [p \in Peer |-> (bs[p] \cap InQueue(s, p, Sent)) \ kept(p)])
    IN [next EXCEPT !.queue = [p \in Peer |-> [b \in Block |->
                                  IF b \in kept(p) THEN "request" ELSE @[p][b]]]]

\* A peer without the FAST extension does not answer a cancel or a choke with
\* reject messages, so the code calls incoming_reject_request in its place.
ImplicitReject(s, bs) ==
    Reject(s, [p \in Peer |-> IF p \in FastPeer THEN {} ELSE bs[p]])

\* torrent::set_upload_mode(true): cancel_all_requests on every connection.
\* A block that is being received can no longer be cancelled.
EnterUploadMode(s) ==
    IF s.upload_mode THEN s
    ELSE ImplicitReject(Dequeue([s EXCEPT !.upload_mode = TRUE], Unsent(s, Up(s))),
                        [p \in Peer |-> InQueue(s, p, Sent) \ {s.receiving[p]}])

\* torrent::cancel_block: cancel_request on every connection, which leaves a
\* block alone that the picker does not have as requested.
CancelBlock(s, b) ==
    LET here(places) == [p \in Peer |-> {b} \cap InQueue(s, p, places)]
    IN IF IsRequested(s.picker, b)
       THEN ImplicitReject(Dequeue(s, here({"request"})), here(Sent))
       ELSE s

-----------------------------------------------------------------------------
(* request_a_block (policy.cpp) and send_block_requests, the last thing most
   handlers do. *)

\* A choked peer serves at most its allowed-fast pieces.
CanRequest(s, p) ==
    /\ s.conn[p] = "up"
    /\ ~IsSeed(s)
    /\ ~s.upload_mode
    /\ ~s.choked[p] \/ p \in FastPeer

Pickable(s) == {b \in Block : PieceOf(b) \notin s.picker.have /\ ~IsDownloaded(s.picker, b)}
Free(s) == {b \in Pickable(s) : s.picker.info[b].num_peers = 0}
Busy(s) == Pickable(s) \ Free(s)

\* The sets of blocks request_a_block may ask p for when m_desired_queue_size
\* is `size`: free ones while there is room in the pipeline, or one busy block
\* if p has no request at all.  Which ones depends on what p has.
Picks(s, p, size) ==
    LET held == InQueue(s, p, Place \ {"idle"})
        endgame == ~StrictEndGameMode \/ Piece \ s.picker.have \subseteq s.picker.downloading
    IN IF ~CanRequest(s, p) THEN {{}}
       ELSE {bs \in SUBSET (Free(s) \ held) :
                bs = {} \/ Cardinality(bs) + Cardinality(held) <= size}
            \cup {{b} : b \in {b \in Busy(s) : held = {} /\ endgame}}

\* add_request for the blocks of bs.
AddRequest(s, p, bs) ==
    [s EXCEPT
       !.picker = MarkAsDownloading(@, [b \in Block |-> IF b \in bs THEN {p} ELSE {}]),
       !.queue[p] = [b \in Block |-> IF b \in bs THEN "request" ELSE @[b]]]

\* The unsent requests send_block_requests may take off m_request_queue when
\* m_desired_queue_size is at most `size`; it is at least 1.
Sends(s, p, size) ==
    LET unsent == InQueue(s, p, {"request"})
        sent == InQueue(s, p, Sent)
    IN IF s.conn[p] # "up" \/ s.upload_mode THEN {{}}
       ELSE {bs \in SUBSET unsent :
               /\ bs = {} => unsent = {} \/ sent # {}
               /\ bs # {} => Cardinality(bs \cup sent) <= size}

\* It drops those whose block has arrived meanwhile and sends the others.
Send(s, bs) ==
    LET late(p) == {b \in bs[p] : IsDownloaded(s.picker, b)}
        next == Dequeue(s, [p \in Peer |-> late(p)])
    IN [next EXCEPT !.queue = [p \in Peer |-> [b \in Block |->
                     IF b \in bs[p] \ late(p) THEN "download" ELSE @[p][b]]]]

\* Go on from s with request_a_block and send_block_requests for p.
Refill(s, p) ==
    \E pick \in Picks(s, p, MaxQueue) :
        \E asked \in {AddRequest(s, p, pick)} :
            \E bs \in Sends(asked, p, MaxQueue) : Become(Send(asked, Only(p, bs)))

-----------------------------------------------------------------------------
(* What a peer sends, and timers: one action per handler. *)

\* p is connected and between two messages.
Listening(p) == conn[p] = "up" /\ receiving[p] = NoBlock

Connect(p) ==
    /\ conn[p] = "new"
    /\ Become([Net EXCEPT !.conn[p] = "up"])
    /\ UNCHANGED <<jobs, diskVars, done>>

\* on_choke: incoming_choke with its clear_request_queue, and the rejects a
\* peer without FAST implies.
IncomingChoke(p) ==
    /\ Listening(p)
    /\ LET s == [Net EXCEPT !.choked[p] = TRUE]
           cleared == IF parole[p] THEN s ELSE Dequeue(s, Unsent(s, {p}))
       IN Become(ImplicitReject(cleared, Only(p, InQueue(s, p, Sent))))
    /\ UNCHANGED <<jobs, diskVars, done>>

IncomingUnchoke(p) ==
    /\ Listening(p)
    /\ Refill([Net EXCEPT !.choked[p] = FALSE], p)
    /\ UNCHANGED <<jobs, diskVars, done>>

\* incoming_reject_request from the wire (a zero-length piece counts as one).
IncomingReject(p, b) ==
    /\ Listening(p)
    /\ LET s == Reject(Net, Only(p, {b}))
           thirsty == /\ InQueue(s, p, {"request"}) = {}
                      /\ Cardinality(InQueue(s, p, Sent)) < 2
       IN IF thirsty THEN Refill(s, p) ELSE Become(s)
    /\ UNCHANGED <<jobs, diskVars, done>>

\* start_receive_piece: the header of a piece message has arrived.  A block
\* that was not asked for is queued all the same, as not wanted.
StartReceivePiece(p, b) ==
    /\ Listening(p)
    /\ queue[p][b] \in Sent \/ p \in StrayPeer
    /\ Become([Net EXCEPT
                 !.receiving[p] = b,
                 !.queue[p][b] = CASE @ = "idle" -> "not_wanted"
                                   [] @ = "request" -> "download"
                                   [] OTHER -> @])
    /\ UNCHANGED <<jobs, diskVars, done>>

\* incoming_piece when the block is of use: it is handed to the disk thread,
\* and so is a hash job if it was the last one of its piece.
AcceptBlock(s, p, b, good) ==
    LET taken == [s EXCEPT !.queue[p][b] = "idle",
                           !.picker = MarkAsWriting(@, b, p)]
        multi == s.picker.info[b].num_peers > 1
        next == IF multi THEN CancelBlock(taken, b) ELSE taken
        write == <<[op |-> "write", w |-> [block |-> b, peer |-> p, good |-> good]]>>
        hash == IF /\ IsPieceFinished(next.picker, PieceOf(b))
                   /\ ~IsPieceFinished(s.picker, PieceOf(b))
                THEN <<[op |-> "hash", piece |-> PieceOf(b)]>>
                ELSE <<>>
    IN /\ Refill(next, p)
       /\ jobs' = jobs \o write \o hash

\* incoming_piece: the block is complete.  `drop` are the requests it overtook
\* too often; `good` says whether the data is right.
IncomingPiece(p, drop, good) ==
    LET b == receiving[p]
        here == [Net EXCEPT !.receiving[p] = NoBlock]
        s == Dequeue(here, Only(p, drop))
    IN /\ conn[p] = "up"
       /\ b # NoBlock
       /\ good \/ p \in CorruptPeer
       /\ drop \subseteq InQueue(Net, p, Sent) \ {b}
       /\ drop # {} => DropSkippedRequests /\ ~IsSeed(Net)
       /\ CASE IsSeed(Net) ->
                 /\ \E first \in InQueue(Net, p, Sent) :
                      Become(Dequeue(here, Only(p, {first})))
                 /\ UNCHANGED jobs
            [] IsDownloaded(picker, b) /\ ~IsSeed(Net) ->
                 /\ Refill([s EXCEPT !.queue[p][b] = "idle"], p)
                 /\ UNCHANGED jobs
            [] OTHER -> AcceptBlock(s, p, b, good)
       /\ UNCHANGED <<diskVars, done>>

\* snub_peer: no block for request_timeout seconds.  A new block is asked for
\* before the last one is given up, so that it is not the same again.
SnubPeer(p) ==
    /\ conn[p] = "up"
    /\ InQueue(Net, p, Sent) # {}
    /\ ~parole[p]
    /\ ~IsSeed(Net)
    /\ LET cleared == Dequeue(Net, Unsent(Net, {p}))
       IN \E pick \in Picks(cleared, p, 2) :
            LET s == AddRequest(cleared, p, pick)
                open(b) == /\ PieceOf(b) \notin s.picker.have
                           /\ Active(s.picker.cnt[PieceOf(b)]) < Cardinality(Index)
                late == InQueue(s, p, {"download"})
                giveUp(b) == [Dequeue(s, Only(p, {b})) EXCEPT !.queue[p][b] = "timed_out"]
            IN IF late = {}
               THEN \E bs \in Sends(s, p, 1) : Become(Send(s, Only(p, bs)))
               ELSE \E b \in late :
                      IF open(b) THEN Become(s)
                      ELSE \E bs \in Sends(giveUp(b), p, 1) :
                              Become(Send(giveUp(b), Only(p, bs)))
    /\ UNCHANGED <<jobs, diskVars, done>>

PeerLost(p) ==
    /\ conn[p] = "up"
    /\ Become(Disconnect(Net, {p}))
    /\ UNCHANGED <<jobs, diskVars, done>>

\* torrent::set_upload_mode, called by the user and, for FALSE, by the
\* torrent's timer once optimistic_disk_retry has passed.
SetUploadMode ==
    /\ IF upload_mode
       THEN LET s == [Net EXCEPT !.upload_mode = FALSE]
            IN \E bs \in [Peer -> SUBSET Block] :
                 /\ \A p \in Peer : bs[p] \in Sends(s, p, MaxQueue)
                 /\ Become(Send(s, bs))
       ELSE Become(EnterUploadMode(Net))
    /\ UNCHANGED <<jobs, diskVars, done>>

-----------------------------------------------------------------------------
(* The disk thread. *)

Cached(p) == {w \in cache : PieceOf(w.block) = p}

\* flush_range on the blocks ws: one result for all of them, even if some of
\* its writes succeeded and only another failed.
FlushRange(ws, ret) ==
    /\ cache' = cache \ ws
    /\ \E ok \in SUBSET ws :
         /\ ret = "ok" <=> ok = ws
         /\ disk' = [b \in Block |-> IF \E w \in ok : w.block = b
                                     THEN \E w \in ok : w.block = b /\ w.good
                                     ELSE disk[b]]

\* Count the failures among the results rs.
Fail(rs) ==
    /\ rs \cap DiskError \subseteq PossibleErrors
    /\ errors + Cardinality(rs \cap DiskError) <= MaxDiskErrors
    /\ errors' = errors + Cardinality(rs \cap DiskError)

\* A piece of one block is never cached: cache_block() refuses it and the job
\* is written at once.
WriteThrough == Cardinality(Index) = 1

DiskWriteDirect ==
    /\ jobs # <<>>
    /\ Head(jobs).op = "write"
    /\ \E ret \in DiskError \cup {"ok"} :
         /\ FlushRange({Head(jobs).w}, ret)
         /\ Fail({ret})
         /\ done' = Append(done, [op |-> "write", ws |-> {Head(jobs).w}, ret |-> ret])
    /\ jobs' = Tail(jobs)
    /\ UNCHANGED netVars

\* Any other write job goes to the cache.  The callback of a block it replaces there
\* is invoked as if that one had been written.
DiskWrite ==
    /\ jobs # <<>>
    /\ Head(jobs).op = "write"
    /\ LET w == Head(jobs).w
           old == {x \in cache : x.block = w.block}
       IN /\ cache' = (cache \ old) \cup {w}
          /\ done' = IF old = {} THEN done
                     ELSE Append(done, [op |-> "write", ws |-> old, ret |-> "ok"])
    /\ jobs' = Tail(jobs)
    /\ UNCHANGED <<netVars, disk, errors>>

DiskWriteJob == IF WriteThrough THEN DiskWriteDirect ELSE DiskWrite

\* flush_cache_blocks, flush_contiguous_blocks and flush_expired_pieces: room
\* for another block, of any torrent, is needed or a piece has been in the
\* cache for too long.
DiskFlush(p) ==
    /\ \E ws \in SUBSET Cached(p) \ {{}}, ret \in DiskError \cup {"ok"} :
         /\ FlushRange(ws, ret)
         /\ Fail({ret})
         /\ done' = Append(done, [op |-> "write", ws |-> ws, ret |-> ret])
    /\ UNCHANGED <<netVars, jobs>>

\* Mutant: the file is hashed first and then written to.
DiskHashFirst ==
    /\ jobs # <<>>
    /\ Head(jobs).op = "hash"
    /\ LET p == Head(jobs).piece
           verdict == IF \A b \in BlocksIn(p) : disk[b] THEN "passed" ELSE "failed"
       IN /\ FlushRange(Cached(p), "ok")
          /\ done' = Append(done, [op |-> "hash", ws |-> Cached(p), ret |-> "ok",
                                   piece |-> p, verdict |-> verdict])
    /\ jobs' = Tail(jobs)
    /\ UNCHANGED <<netVars, errors>>

\* A hash job flushes the piece and hashes what the file then holds.
DiskHash ==
    /\ jobs # <<>>
    /\ Head(jobs).op = "hash"
    /\ LET p == Head(jobs).piece
       IN \E ret \in DiskError \cup {"ok"}, verdict \in {"passed", "failed", "no_memory", "other"} :
            /\ Cached(p) = {} => ret = "ok"
            /\ FlushRange(Cached(p), ret)
            /\ Fail({ret} \cup {verdict})
            /\ verdict = "passed" => \A b \in BlocksIn(p) : disk'[b]
            /\ verdict = "failed" => \E b \in BlocksIn(p) : ~disk'[b]
            /\ done' = Append(done, [op |-> "hash", ws |-> Cached(p), ret |-> ret,
                                     piece |-> p, verdict |-> verdict])
    /\ jobs' = Tail(jobs)
    /\ UNCHANGED netVars

-----------------------------------------------------------------------------
(* Completions, run by the network thread in completion_queue_handler. *)

\* handle_disk_error for a failed write of blocks of the peers ps, or for a
\* failed hash job (ps = {}): give up the peer, stop downloading, or pause.
HandleDiskError(s, error, ps) ==
    CASE error = "no_memory" -> Disconnect(s, ps)
      [] error = "no_space" -> EnterUploadMode(s)
      [] error = "other" -> Disconnect(s, Peer)

\* Mutant: the callback of a connection that is gone is dropped.
OnWrittenGone(s, ws, ret) ==
    LET up == {w \in ws : s.conn[w.peer] = "up"}
        bs == {w.block : w \in up}
        who == [b \in bs |-> (CHOOSE w \in up : w.block = b).peer]
    IN IF up = {} \/ (IsSeed(s) /\ ret = "ok") THEN s
       ELSE IF ret # "ok"
       THEN HandleDiskError([s EXCEPT !.picker = WriteFailed(@, bs)], ret,
                            {w.peer : w \in up})
       ELSE [s EXCEPT !.picker = MarkAsFinished(@, bs, who)]

\* peer_connection::on_disk_write_complete for the blocks ws.
OnWritten(s, ws, ret) ==
    LET bs == {w.block : w \in ws}
        peer(b) == (CHOOSE w \in ws : w.block = b).peer
        who == [b \in bs |-> IF s.conn[peer(b)] = "up" THEN peer(b) ELSE NoPeer]
    IN IF ws = {} THEN s
       ELSE IF ret # "ok"
       THEN HandleDiskError([s EXCEPT !.picker = WriteFailed(@, bs)], ret,
                            {w.peer : w \in ws})
       ELSE IF IsSeed(s) THEN s
       ELSE [s EXCEPT !.picker = MarkAsFinished(@, bs, who)]

\* Mutant: the outstanding requests are forgotten.
RestorePieceForgets(s, p) == [s EXCEPT !.picker = Erase(@, {p})]

\* restore_piece and restore_piece_state: the piece starts over, with the
\* requests for its blocks that are still outstanding.
RestorePiece(s, p) ==
    [s EXCEPT !.picker = MarkAsDownloading(Erase(@, {p}), [b \in Block |->
         IF PieceOf(b) = p THEN {q \in Up(s) : b \in Wanted(s, q)} ELSE {}])]

\* get_downloaders; the null pointer is one of them.
Downloaders(s, p) == {s.picker.info[b].peer : b \in BlocksIn(p)}

PiecePassed(s, p) ==
    [s EXCEPT !.parole = [q \in Peer |-> @[q] /\ q \notin Downloaders(s, p)],
              !.picker = WeHave(@, p)]

\* Mutant: the blocks of the piece stay as they are.
PieceFailedKeeps(s, p, ban) ==
    Disconnect([s EXCEPT !.parole = [q \in Peer |-> @[q] \/ q \in Downloaders(s, p)]], ban)

\* piece_failed: everyone who sent a block of it goes on parole.  The only
\* sender is banned; of several, those whose trust_points are used up, which
\* is any of them here.
PieceFailed(s, p, ban) ==
    RestorePiece(
        Disconnect([s EXCEPT !.parole = [q \in Peer |-> @[q] \/ q \in Downloaders(s, p)]],
                   ban), p)

Bans(s, p) ==
    LET senders == Downloaders(s, p)
    IN IF Cardinality(senders) = 1 THEN {senders \ {NoPeer}}
       ELSE SUBSET (senders \ {NoPeer})

\* Mutant: a hash job that failed is ignored.
PieceFinishedIgnores(s, p, verdict) ==
    IF IsSeed(s) \/ ~IsPieceFinished(s.picker, p) THEN Become(s)
    ELSE CASE verdict = "passed" -> Become(PiecePassed(s, p))
           [] verdict = "failed" -> \E ban \in Bans(s, p) : Become(PieceFailed(s, p, ban))
           [] OTHER -> Become(s)

\* Mutant: a hash job that met no error of the disk is taken for a match.
PieceFinishedTrusts(s, p, verdict) ==
    IF IsSeed(s) \/ ~IsPieceFinished(s.picker, p) THEN Become(s)
    ELSE IF verdict \in {"passed", "failed"} THEN Become(PiecePassed(s, p))
    ELSE Become(RestorePiece(s, p))

\* torrent::piece_finished.  A piece that lost a block to a failed write in
\* the meantime is not finished, whatever its hash says.
PieceFinished(s, p, verdict) ==
    IF IsSeed(s) \/ ~IsPieceFinished(s.picker, p) THEN Become(s)
    ELSE CASE verdict = "passed" -> Become(PiecePassed(s, p))
           [] verdict = "failed" -> \E ban \in Bans(s, p) : Become(PieceFailed(s, p, ban))
           [] OTHER -> Become(RestorePiece(s, p))

CompleteWrite ==
    /\ done # <<>>
    /\ Head(done).op = "write"
    /\ Become(OnWritten(Net, Head(done).ws, Head(done).ret))
    /\ done' = Tail(done)
    /\ UNCHANGED <<jobs, diskVars>>

\* on_piece_verified, after the write callbacks of the same job.
CompleteHash ==
    /\ done # <<>>
    /\ Head(done).op = "hash"
    /\ LET c == Head(done)
           written == OnWritten(Net, c.ws, c.ret)
           s == IF c.verdict \in DiskError THEN HandleDiskError(written, c.verdict, {})
                                           ELSE written
       IN PieceFinished(s, c.piece, c.verdict)
    /\ done' = Tail(done)
    /\ UNCHANGED <<jobs, diskVars>>

-----------------------------------------------------------------------------
PeerStep(p) ==
    \/ Connect(p)
    \/ IncomingChoke(p)
    \/ IncomingUnchoke(p)
    \/ \E b \in Block : IncomingReject(p, b)
    \/ \E b \in Block : StartReceivePiece(p, b)
    \/ \E drop \in SUBSET Block, good \in BOOLEAN : IncomingPiece(p, drop, good)
    \/ SnubPeer(p)
    \/ PeerLost(p)

DiskStep == DiskWriteJob \/ DiskHash
CompletionStep == CompleteWrite \/ CompleteHash

Next ==
    \/ \E p \in Peer : PeerStep(p)
    \/ SetUploadMode
    \/ DiskStep
    \/ \E p \in Piece : DiskFlush(p)
    \/ CompletionStep

Spec == Init /\ [][Next]_vars

\* The disk thread works off its queue and the io_service of the network
\* thread runs what is posted to it; nothing is assumed of the peers.
Fairness == WF_vars(DiskStep) /\ WF_vars(CompletionStep)
FairSpec == Spec /\ Fairness

-----------------------------------------------------------------------------
(* Properties. *)

\* The writes of block b the disk thread has not reported on.
PendingWrites(b) ==
    {w \in cache : w.block = b}
    \cup {w \in {jobs[i].w : i \in {i \in DOMAIN jobs : jobs[i].op = "write"}} : w.block = b}
    \cup {w \in UNION {done[i].ws : i \in DOMAIN done} : w.block = b}

HashPending(p) ==
    \/ \E i \in DOMAIN jobs : jobs[i].op = "hash" /\ jobs[i].piece = p
    \/ \E i \in DOMAIN done : done[i].op = "hash" /\ done[i].piece = p

\* The whole path, from request to hash check, keeps the promise of
\* VerifiedStore: the handler that accepts a late or repeated block, the write
\* cache and the completion queue together never write to a piece after its
\* hash was taken and act on that hash.
Promise == INSTANCE VerifiedStore WITH have <- picker.have
KeepsPromise == Promise!Spec

\* peer_connection::check_invariant: the request count of a block that has not
\* arrived is the number of peers it is queued or outstanding at, so that no
\* block is taken for requested when nobody was asked for it, or for free when
\* somebody was.
RequestsCounted ==
    \A b \in Block : ~IsDownloaded(picker, b) =>
        picker.info[b].num_peers = Cardinality({p \in Peer : b \in Wanted(Net, p)})

\* piece_picker::check_invariant: the counters of a piece agree with the states
\* of its blocks, a block is requested exactly when some peer is counted for
\* it, and an entry exists exactly for the pieces with an active block.
PickerConsistent ==
    /\ \A p \in Piece :
         LET in(st) == Cardinality({b \in BlocksIn(p) : picker.info[b].state = st})
         IN /\ picker.cnt[p] = [requested |-> in("requested"), writing |-> in("writing"),
                                finished |-> in("finished")]
            /\ p \in picker.downloading <=> Active(picker.cnt[p]) > 0
    /\ \A b \in Block : picker.info[b].state = "requested" <=> picker.info[b].num_peers > 0

\* The picker and the queues of the connections agree, block by block.
BooksAgree == PickerConsistent /\ RequestsCounted

\* Nothing opens a piece again that we have: not a block that arrives late from
\* a peer it was also asked of, nor the callback of an earlier write, nor the
\* verdict of an earlier hash job.
HaveIsClosed ==
    \A b \in Block : PieceOf(b) \in picker.have =>
        PieceOf(b) \notin picker.downloading /\ picker.info[b].state = "none"

\* The completion that is about to run says that piece p passed.
PassesNow(p) ==
    /\ done # <<>>
    /\ Head(done).op = "hash"
    /\ Head(done).piece = p
    /\ Head(done).verdict = "passed"

\* A piece becomes ours only when a hash job on that piece says so, neither by
\* a failed job nor by the callbacks of its writes, and is never given up again.
HaveIsEarned ==
    [][/\ picker.have \subseteq picker'.have
       /\ \A p \in picker'.have \ picker.have : PassesNow(p)]_vars

\* A block waits for the disk only while the disk thread still owes its
\* callback: no block is stuck in the writing state.
WritingIsPending ==
    \A b \in Block : picker.info[b].state = "writing" => PendingWrites(b) # {}

\* A piece with all its blocks in is always about to be verified: nothing
\* would ask for it again, so without a hash job it would never be completed.
FinishedIsVerified ==
    \A p \in Piece : IsPieceFinished(picker, p) => HashPending(p)

\* No block and no piece is left to wait for something that is not to come.
NothingIsStuck == WritingIsPending /\ FinishedIsVerified

\* piece_passed declares a piece as ours only when each of its blocks has been
\* written to disk successfully.
PassedIsWritten ==
    [][\A p \in picker'.have \ picker.have :
          \A b \in BlocksIn(p) : \/ picker.info[b].state = "finished"
                                 \/ /\ picker.info[b].state = "writing"
                                    /\ Head(done).ret = "ok"
                                    /\ \E w \in Head(done).ws : w.block = b]_vars

\* incoming_piece: when a block arrives that was requested from other peers too,
\* it is cancelled there.  A peer without FAST has no part in that, so its
\* request is gone at once, unless parole mode keeps it.
ReceivedIsCancelled ==
    \A b \in Block, p \in Peer \ FastPeer :
        picker.info[b].state = "writing" /\ ~parole[p] => b \notin Wanted(Net, p)

\* Once all blocks of a piece are in, its fate is decided: it becomes ours or
\* its blocks are asked for again.
IsWaiting(p) == IsPieceFinished(picker, p)
IsServed(p) == ~IsPieceFinished(picker, p)
FinishedIsResolved == \A p \in Piece : IsWaiting(p) ~> IsServed(p)
=============================================================================
