------------------------------- MODULE Upload -------------------------------
(***************************************************************************)
(* The answers to the requests of peers.  A request is queued on its       *)
(* connection, read when the send buffer has room, and answered when the   *)
(* disk thread has read it; choking, cancelling, an error of the disk and  *)
(* the check of a torrent in seed mode come in between.  In seed mode a    *)
(* piece is hashed the first time that it is read.                         *)
(*                                                                         *)
(* Abstracted: a piece is one block, and a request names the piece; the    *)
(* send buffer counts the blocks in it, messages without a block are no    *)
(* part of it; the wait for the socket is in PeerIO, the cache of the disk *)
(* thread in DiskCache.                                                    *)
(***************************************************************************)
EXTENDS Integers, FiniteSets, Sequences, SequencesExt

CONSTANTS
    Conns, Pieces,
    Bad,           \* the pieces that are not on disk what they should be
    AllowedFast,   \* the pieces a choked peer may request
    SeedModes,     \* whether the torrent may start in seed mode
    SuperSeeds,    \* whether it may be super seeding
    Reordered,     \* allow_reordered_disk_operations
    Watermark,     \* the blocks that send buffer and reads may hold
    MaxAllowed,    \* max_allowed_in_request_queue
    MaxRejects,    \* max_rejects
    MaxOwed        \* bound on the unanswered requests of a peer

VARIABLES
    conn,      \* the connections
    torrent,   \* the torrent
    jobs,      \* the reads the disk thread has not answered
    owed       \* ghost, owed[c][r]: requests r of c that are neither answered nor dropped

vars == <<conn, torrent, jobs, owed>>

\* No piece.
NoPiece == 0

\* What a peer may ask for; NoPiece stands for a request that makes no sense.
Requests == Pieces \cup {NoPiece}

New == [state |-> "none", choked |-> TRUE, interested |-> FALSE, requests |-> <<>>,
        reading |-> 0, buffer |-> 0, rejects |-> 0, superseed |-> NoPiece]
Nothing == [r \in Requests |-> 0]

Now == [conn |-> conn, torrent |-> torrent, jobs |-> jobs, owed |-> owed]
Become(s) == conn' = s.conn /\ torrent' = s.torrent /\ jobs' = s.jobs /\ owed' = s.owed

-----------------------------------------------------------------------------
(* What the handlers share. *)

\* write_reject_request, which is silent unless the peer knows the message, and
\* write_piece.
Answered(s, c, r) == [s EXCEPT !.owed[c][r] = @ - 1]

\* disconnect.
Closed(s, C) ==
    [s EXCEPT !.conn = [c \in Conns |-> IF c \in C /\ s.conn[c].state = "up"
                                        THEN [New EXCEPT !.state = "closed", !.reading = s.conn[c].reading]
                                        ELSE s.conn[c]],
              !.owed = [c \in Conns |-> IF c \in C THEN Nothing ELSE s.owed[c]]]

\* fill_send_buffer: a piece that is not verified in seed mode is hashed, and
\* counts as verified from now on.
FillSendBuffer(s, c) ==
    LET q == s.conn[c].requests
        room == Watermark - s.conn[c].buffer - s.conn[c].reading
        n == IF s.conn[c].state # "up" \/ room < 0 THEN 0 ELSE IF room < Len(q) THEN room ELSE Len(q)
        unseen(i) == s.torrent.seed_mode /\ q[i] \notin s.torrent.verified
                     /\ \A j \in 1 .. i - 1 : q[j] # q[i]
        hashed == {q[i] : i \in {k \in 1 .. n : unseen(k)}}
    IN  [s EXCEPT !.conn[c].requests = SubSeq(q, n + 1, Len(q)),
                  !.conn[c].reading = @ + n,
                  !.jobs = @ \o [i \in 1 .. n |-> [conn |-> c, piece |-> q[i], hash |-> unseen(i)]],
                  !.torrent.verified = @ \cup hashed]

\* force_recheck and pause end the connections.
ForceRecheck(s) ==
    IF s.torrent.state = "checking" THEN s
    ELSE [Closed(s, Conns) EXCEPT !.torrent.state = "checking", !.torrent.have = {},
                                  !.torrent.distrusted = {}]

Pause(s) == [Closed(s, Conns) EXCEPT !.torrent.state = IF @ = "checking" THEN @ ELSE "paused"]

\* leave_seed_mode; seed: every piece is verified.
LeaveSeedMode(s, seed) ==
    LET t == [s EXCEPT !.torrent.seed_mode = FALSE]
        u == IF seed THEN t ELSE ForceRecheck(t)
    IN  IF ~s.torrent.seed_mode THEN s ELSE [u EXCEPT !.torrent.verified = {}]

-----------------------------------------------------------------------------
(* What the peers and the session do. *)

\* A peer that connects; with super seeding it is shown one piece.
Connect(c) ==
    /\ conn[c].state = "none" /\ torrent.state = "seeding"
    /\ \E r \in IF torrent.super THEN Pieces ELSE {NoPiece} :
            conn' = [conn EXCEPT ![c] = [New EXCEPT !.state = "up", !.superseed = r]]
    /\ UNCHANGED <<torrent, jobs, owed>>

\* incoming_interested.
Interested(c) ==
    /\ conn[c].state = "up" /\ ~conn[c].interested
    /\ conn' = [conn EXCEPT ![c].interested = TRUE]
    /\ UNCHANGED <<torrent, jobs, owed>>

\* incoming_have of the piece a peer is shown: superseed_piece.
Shown(c) ==
    /\ conn[c].state = "up" /\ conn[c].superseed # NoPiece
    /\ \E r \in Requests \ {conn[c].superseed} : conn' = [conn EXCEPT ![c].superseed = r]
    /\ UNCHANGED <<torrent, jobs, owed>>

\* incoming_request.  A request of a piece other than the one that is shown is
\* dropped without an answer.
IncomingRequest(c, r) ==
    LET dropped == conn[c].superseed # NoPiece /\ r # conn[c].superseed
        t == [Now EXCEPT !.owed[c][r] = @ + 1]
        full == Len(conn[c].requests) > MaxAllowed
        valid == r \in torrent.have /\ conn[c].interested
        refused == conn[c].choked /\ r \notin AllowedFast
        rejected == [Answered(t, c, r) EXCEPT !.conn[c].rejects = @ + 1]
        queued == [t EXCEPT !.conn[c].rejects = 0, !.conn[c].requests = Append(@, r)]
    IN  /\ conn[c].state = "up"
        /\ FoldFunction(+, 0, owed[c]) < MaxOwed
        /\ \E s \in {IF dropped THEN Now
                     ELSE IF full \/ ~valid THEN Answered(t, c, r)
                     ELSE IF ~refused THEN FillSendBuffer(queued, c)
                     ELSE IF rejected.conn[c].rejects > MaxRejects THEN Closed(rejected, {c})
                     ELSE rejected} : Become(s)

\* incoming_cancel takes the first request of its kind out of the queue.
IncomingCancel(c, r) ==
    LET i == SelectInSeq(conn[c].requests, LAMBDA x : x = r)
    IN  /\ conn[c].state = "up" /\ i > 0
        /\ Become(Answered([Now EXCEPT !.conn[c].requests = RemoveAt(@, i)], c, r))

\* Mutant: the peer is choked and what it had asked for is forgotten.
ChokedSilently(s, c) ==
    [s EXCEPT !.conn[c].choked = TRUE,
              !.conn[c].requests = SelectSeq(@, LAMBDA r : r \in AllowedFast)]

\* send_choke rejects what is queued, but for the pieces that are allowed anyway.
Choked(s, c) ==
    LET q == s.conn[c].requests
        rejected(r) == IF r \in AllowedFast THEN 0
                       ELSE Cardinality({i \in 1 .. Len(q) : q[i] = r})
    IN  [s EXCEPT !.conn[c].choked = TRUE,
                  !.conn[c].requests = SelectSeq(@, LAMBDA r : r \in AllowedFast),
                  !.owed[c] = [r \in Requests |-> @[r] - rejected(r)]]

SendChoke(c) ==
    /\ conn[c].state = "up" /\ ~conn[c].choked
    /\ \E s \in {Choked(Now, c)} : Become(s)

\* incoming_not_interested chokes the peer.
NotInterested(c) ==
    /\ conn[c].state = "up" /\ conn[c].interested
    /\ \E s \in {[Now EXCEPT !.conn[c].interested = FALSE]} :
            Become(IF conn[c].choked THEN s ELSE Choked(s, c))

\* send_unchoke.
SendUnchoke(c) ==
    /\ conn[c].state = "up" /\ conn[c].choked /\ conn[c].interested /\ torrent.state = "seeding"
    /\ conn' = [conn EXCEPT ![c].choked = FALSE]
    /\ UNCHANGED <<torrent, jobs, owed>>

\* on_send_data: a block is sent, and the next one is read.  second_tick does
\* the same when nothing is sent.
OnSent(c) ==
    /\ conn[c].state = "up" /\ conn[c].buffer > 0
    /\ \E s \in {FillSendBuffer([Now EXCEPT !.conn[c].buffer = @ - 1], c)} : Become(s)

SecondTick(c) ==
    /\ conn[c].state = "up" /\ conn[c].requests # <<>>
    /\ \E s \in {FillSendBuffer(Now, c)} : Become(s)

Disconnect(c) ==
    /\ conn[c].state = "up"
    /\ Become(Closed(Now, {c}))

-----------------------------------------------------------------------------
(* The disk thread answers a read, and the network thread hears of it. *)

\* on_disk_read_complete; failed: the hash is not right; error: what else went
\* wrong, if anything.
OnDiskReadComplete(k, error) ==
    LET c == jobs[k].conn
        r == jobs[k].piece
        failed == jobs[k].hash /\ r \in Bad
        s == [Now EXCEPT !.jobs = RemoveAt(@, k), !.conn[c].reading = @ - 1]
        reply(t) == IF t.conn[c].state = "up" THEN Answered(t, c, r) ELSE t
        rejected == [reply(s) EXCEPT !.torrent.distrusted = @ \cup {r}]
        known == IF torrent.verified = Pieces THEN LeaveSeedMode(s, TRUE) ELSE s
        sent == IF known.conn[c].state = "up" THEN [known EXCEPT !.conn[c].buffer = @ + 1] ELSE known
    IN  /\ Reordered \/ k = 1
        /\ \E u \in {IF error = "no_memory" THEN Closed(s, {c})
                     ELSE IF error = "other" THEN Pause(s)
                     ELSE IF failed THEN LeaveSeedMode(rejected, FALSE)
                     ELSE reply(sent)} : Become(u)

\* The user resumes the torrent; its check is over, and it is had what is good.
Resume ==
    /\ torrent.state = "paused"
    /\ torrent' = [torrent EXCEPT !.state = "seeding"]
    /\ UNCHANGED <<conn, jobs, owed>>

CheckDone ==
    /\ torrent.state = "checking"
    /\ torrent' = [torrent EXCEPT !.state = "seeding", !.have = Pieces \ Bad]
    /\ UNCHANGED <<conn, jobs, owed>>

-----------------------------------------------------------------------------
\* A torrent in seed mode is taken to have everything, another one has what its
\* check found.
Init ==
    /\ conn = [c \in Conns |-> New]
    /\ \E seed \in SeedModes, super \in SuperSeeds :
        torrent = [state |-> "seeding", seed_mode |-> seed, super |-> super, verified |-> {},
                   have |-> IF seed THEN Pieces ELSE Pieces \ Bad, distrusted |-> {}]
    /\ jobs = <<>>
    /\ owed = [c \in Conns |-> Nothing]

Next ==
    \/ \E c \in Conns : Connect(c) \/ Interested(c) \/ NotInterested(c) \/ Shown(c)
    \/ \E c \in Conns, r \in Requests : IncomingRequest(c, r)
    \/ \E c \in Conns, r \in Pieces : IncomingCancel(c, r)
    \/ \E c \in Conns : SendChoke(c) \/ SendUnchoke(c)
    \/ \E c \in Conns : OnSent(c) \/ SecondTick(c) \/ Disconnect(c)
    \/ \E k \in 1 .. Len(jobs), error \in {"none", "no_memory", "other"} : OnDiskReadComplete(k, error)
    \/ Resume \/ CheckDone

Spec == Init /\ [][Next]_vars

-----------------------------------------------------------------------------
Count(P(_)) == Cardinality({k \in 1 .. Len(jobs) : P(jobs[k])})
QueuedFor(c, r) == Cardinality({i \in 1 .. Len(conn[c].requests) : conn[c].requests[i] = r})
ReadFor(c, r) == Count(LAMBDA j : j.conn = c /\ j.piece = r)

\* Every request of a connected peer that was not dropped waits in its queue or
\* for the disk, once, until it is answered; a choked peer has nothing queued
\* but what it may always ask for, only what we have is queued, and the send
\* buffer takes no more than it should.
UploadIsRight ==
    \A c \in Conns :
        /\ conn[c].reading = Count(LAMBDA j : j.conn = c)
        /\ conn[c].state = "up" =>
            /\ \A r \in Requests : owed[c][r] = QueuedFor(c, r) + ReadFor(c, r)
            /\ conn[c].choked => \A i \in 1 .. Len(conn[c].requests) : conn[c].requests[i] \in AllowedFast
            /\ \A i \in 1 .. Len(conn[c].requests) : conn[c].requests[i] \in torrent.have
            /\ conn[c].buffer + conn[c].reading <= Watermark
            /\ torrent.state = "seeding"
            /\ Len(conn[c].requests) <= MaxAllowed + 1

\* When the hash of a piece fails in seed mode, all files are checked: no
\* torrent serves peers whose piece has failed since its files were checked.
FailureIsChecked == torrent.distrusted # {} => torrent.state = "checking"
=============================================================================
