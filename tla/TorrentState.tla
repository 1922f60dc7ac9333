----------------------------- MODULE TorrentState -----------------------------
(***************************************************************************)
(* The life of the torrents of a session (torrent.cpp, session_impl.cpp):  *)
(* added, checked against the files on disk one after the other, started,  *)
(* paused and resumed by the user, by the queueing logic and with the      *)
(* session, stopped by errors, rechecked and removed.                      *)
(*                                                                         *)
(* The network thread runs all of that; the checks are jobs of the disk    *)
(* thread, whose answers come back in order but late: a torrent may be     *)
(* paused, rechecked or removed in between.  A check of the files looks at *)
(* one piece per job and goes on in a new job; abort_disk_io takes back    *)
(* the jobs that wait.                                                     *)
(***************************************************************************)
EXTENDS Integers, FiniteSets, SequencesExt

CONSTANTS
    Torrents,
    Magnets,    \* those that are added without metadata
    NumPieces,     \* each torrent has the pieces 1 .. NumPieces
    OnDisk,     \* OnDisk[t]: the pieces whose data is on disk at first
    Limit,      \* active_downloads, active_seeds and active_limit
    Ops,        \* what happens: "pause", "graceful", "session", "auto", "recheck", "filter",
                \* "remove" and "move" of the user, "error" of the disk
    MaxJobs     \* bound of the jobs and answers under way

VARIABLES
    tor,      \* tor[t]: the torrent
    paused,   \* session_impl::m_paused
    queue,    \* session_impl::m_queued_for_checking
    jobs,     \* disk_io_thread::m_jobs
    done      \* the callbacks posted to the network thread

vars == <<tor, paused, queue, jobs, done>>

AllPieces == 1 .. NumPieces
States == {"new", "resume_data", "queued", "checking", "metadata", "downloading", "finished",
           "seeding", "removed"}

Torrent == [
    st         : States,
    allow      : BOOLEAN,   \* m_allow_peers
    announce   : BOOLEAN,   \* m_announce_to_trackers, _dht and _lsd
    auto       : BOOLEAN,   \* m_auto_managed
    graceful   : BOOLEAN,   \* m_graceful_pause_mode
    error      : BOOLEAN,
    abort      : BOOLEAN,
    waits      : BOOLEAN,   \* torrent::m_queued_for_checking
    valid      : BOOLEAN,   \* the torrent has its metadata
    checked    : BOOLEAN,   \* m_files_checked
    announcing : BOOLEAN,
    have       : SUBSET AllPieces,
    picker     : BOOLEAN,
    filtered   : SUBSET AllPieces,   \* the pieces of priority 0
    pos        : Int,       \* m_sequence_number
    peers      : SUBSET {"idle", "busy"},   \* busy: data is outstanding
    slot       : Nat,       \* piece_manager::m_current_slot
    disk       : {"none", "full", "ready"},   \* piece_manager::m_state
    data       : SUBSET AllPieces]            \* the pieces whose data is in the files

Job == [op : {"resume", "recheck", "check", "abort"}, t : Torrents]
Answer == [op : {"resume", "recheck", "check"}, t : Torrents,
           ret : {"ok", "more", "fatal", "aborted"}, have : SUBSET AllPieces]

TypeOK ==
    /\ tor \in [Torrents -> Torrent]
    /\ paused \in BOOLEAN
    /\ queue \in Seq(Torrents)
    /\ jobs \in Seq(Job)
    /\ done \in Seq(Answer)

NewTorrent(t) ==
    [st |-> "new", allow |-> FALSE, announce |-> FALSE, auto |-> FALSE, graceful |-> FALSE,
     error |-> FALSE, abort |-> FALSE, waits |-> FALSE, valid |-> t \notin Magnets,
     checked |-> FALSE, announcing |-> FALSE, have |-> {}, picker |-> TRUE, filtered |-> {},
     pos |-> -1, peers |-> {}, slot |-> 1, disk |-> "none",
     data |-> OnDisk[t]]

Init ==
    /\ tor = [t \in Torrents |-> NewTorrent(t)]
    /\ paused = FALSE
    /\ queue = <<>> /\ jobs = <<>> /\ done = <<>>

-----------------------------------------------------------------------------
(* The state a handler works on, and the fields of one torrent in it. *)

Now == [tor |-> tor, paused |-> paused, queue |-> queue, jobs |-> jobs, done |-> done]

Become(next) ==
    \E s \in {next} :
        /\ tor' = s.tor /\ paused' = s.paused /\ queue' = s.queue
        /\ jobs' = s.jobs /\ done' = s.done
        /\ Len(s.jobs) + Len(s.done) <= MaxJobs

InSession(s) == {t \in Torrents : s.tor[t].st \notin {"new", "removed"}}

IsPaused(s, t) == ~s.tor[t].allow \/ s.paused \/ s.tor[t].graceful
IsSeed(s, t) == s.tor[t].valid /\ (~s.tor[t].picker \/ s.tor[t].have = AllPieces)
IsFinished(s, t) ==
    IsSeed(s, t) \/ (s.tor[t].valid /\ s.tor[t].have \cup s.tor[t].filtered = AllPieces)

ShouldCheckFiles(s, t) ==
    LET r == s.tor[t]
    IN /\ r.st \in {"queued", "checking"}
       /\ r.allow \/ r.auto
       /\ ~r.error /\ ~r.abort /\ ~r.graceful /\ ~s.paused

SetState(s, t, st) == [s EXCEPT !.tor[t].st = IF s.tor[t].st = "removed" THEN @ ELSE st]

AddJob(s, t, op) == [s EXCEPT !.jobs = Append(@, [op |-> op, t |-> t])]
Answered(t, op, ret, have) == [op |-> op, t |-> t, ret |-> ret, have |-> have]

\* Mutant: an abort job that waits is cancelled too, and its callback called.
CancelJobsAll(s, t) ==
    LET gone == SelectSeq(s.jobs, LAMBDA j : j.t = t /\ j.op \in {"check", "abort"})
    IN [s EXCEPT
          !.jobs = SelectSeq(@, LAMBDA j : ~(j.t = t /\ j.op \in {"check", "abort"})),
          !.done = @ \o [i \in DOMAIN gone |-> Answered(t, gone[i].op, "aborted", {})]]

\* The jobs of t that can be cancelled, each with its callback: of these, the
\* check of the files.
CancelJobs(s, t) ==
    LET gone == SelectSeq(s.jobs, LAMBDA j : j.t = t /\ j.op = "check")
    IN [s EXCEPT
          !.jobs = SelectSeq(@, LAMBDA j : ~(j.t = t /\ j.op = "check")),
          !.done = @ \o [i \in DOMAIN gone |-> Answered(t, "check", "aborted", {})]]

\* abort_disk_io: disk_io_thread::stop.
AbortDiskIo(s, t) == AddJob(CancelJobs(s, t), t, "abort")

-----------------------------------------------------------------------------
(* The queue of torrents to check. *)

StartChecking(s, t) == AddJob(SetState(s, t, "checking"), t, "check")

\* Mutant: a torrent may be queued again.
QueueTorrentCheckAgain(s, t) ==
    [IF s.queue = <<>> THEN StartChecking(s, t) ELSE SetState(s, t, "queued")
       EXCEPT !.queue = Append(@, t), !.tor[t].waits = TRUE]

\* queue_torrent_check and session_impl::queue_check_torrent.
QueueTorrentCheck(s, t) ==
    IF s.tor[t].waits THEN s
    ELSE LET w == [s EXCEPT !.tor[t].waits = TRUE]
         IN [IF s.queue = <<>> THEN StartChecking(w, t) ELSE SetState(w, t, "queued")
               EXCEPT !.queue = Append(@, t)]

\* Of the others in the queue, the first with the lowest queue position.
NextCheck(s, t) ==
    LET others == SelectSeq(s.queue, LAMBDA u : u # t)
        best == {i \in DOMAIN others : \A j \in DOMAIN others :
                    s.tor[others[i]].pos <= s.tor[others[j]].pos}
    IN others[Min(best)]

\* Mutant: the next torrent is only started when the check came to its end.
DequeueCheckSilent(s, t) ==
    IF ~s.tor[t].waits THEN s
    ELSE [s EXCEPT !.tor[t].waits = FALSE, !.queue = SelectSeq(@, LAMBDA u : u # t)]

\* dequeue_torrent_check and session_impl::dequeue_check_torrent.
DequeueTorrentCheck(s, t) ==
    IF ~s.tor[t].waits THEN s
    ELSE LET w == [s EXCEPT !.tor[t].waits = FALSE]
             starts == /\ \E u \in Range(w.queue) : u # t
                       /\ w.tor[t].st = "checking" /\ ~w.paused
         IN IF t \notin Range(w.queue) THEN w
            ELSE [IF starts THEN StartChecking(w, NextCheck(w, t)) ELSE w
                    EXCEPT !.queue = SelectSeq(@, LAMBDA u : u # t)]

\* The check stops here: the torrent waits in queued_for_checking for whatever
\* was in its way.
StopChecking(s, t) == SetState(DequeueTorrentCheck(AbortDiskIo(s, t), t), t, "queued")

-----------------------------------------------------------------------------
(* Queue positions. *)

\* Mutant: a torrent that leaves the queue leaves its number behind.
SetQueuePositionGap(s, t, p) ==
    IF p < 0 THEN [s EXCEPT !.tor[t].pos = p]
    ELSE IF s.tor[t].pos = -1
    THEN [s EXCEPT !.tor[t].pos = Max({s.tor[u].pos : u \in Torrents}) + 1]
    ELSE s

\* set_queue_position.
SetQueuePosition(s, t, p) ==
    LET own == s.tor[t].pos
        pos(u) == s.tor[u].pos
        others == InSession(s) \ {t}
        top == Max({pos(u) : u \in InSession(s)} \cup {-1})
        shift(us, d) == [u \in Torrents |->
                           IF u \in us THEN [s.tor[u] EXCEPT !.pos = @ + d] ELSE s.tor[u]]
        moved == IF p >= 0 /\ own = -1 THEN shift({u \in others : pos(u) >= p}, 1)
                 ELSE IF p < 0 THEN shift({u \in others : pos(u) >= own /\ pos(u) # -1}, -1)
                 ELSE IF p < own THEN shift({u \in others : pos(u) >= p /\ pos(u) < own}, 1)
                 ELSE shift({u \in others : pos(u) <= p /\ pos(u) > own}, -1)
        new == IF p < 0 \/ (own # -1 /\ p < own) THEN p
               ELSE IF own = -1 THEN Min({top + 1, p}) ELSE Min({top, p})
    IN IF (IsFinished(s, t) /\ p # -1) \/ p = own THEN s
       ELSE [s EXCEPT !.tor = [moved EXCEPT ![t].pos = new]]

\* numeric_limits<int>::max().
AtEnd == 1000

-----------------------------------------------------------------------------
(* Announcing, errors, pausing. *)

StartAnnouncing(s, t) ==
    IF IsPaused(s, t) \/ (~s.tor[t].checked /\ s.tor[t].valid) THEN s
    ELSE [s EXCEPT !.tor[t].announcing = TRUE]

StopAnnouncing(s, t) == [s EXCEPT !.tor[t].announcing = FALSE]

DisconnectAll(s, t) == [s EXCEPT !.tor[t].peers = {}]

SetError(s, t) ==
    LET e == [s EXCEPT !.tor[t].error = TRUE]
    IN IF ShouldCheckFiles(s, t) THEN StopChecking(e, t) ELSE e

\* Mutant: a pause leaves the trackers and the check alone.
DoPauseTalking(s, t) ==
    IF ~IsPaused(s, t) THEN s
    ELSE IF s.tor[t].graceful THEN [s EXCEPT !.tor[t].peers = @ \cap {"busy"}]
    ELSE DisconnectAll(s, t)

\* do_pause.  A graceful pause keeps the peers that still owe us data.
DoPause(s, t) ==
    LET q == StopAnnouncing(
               IF s.tor[t].graceful THEN [s EXCEPT !.tor[t].peers = @ \cap {"busy"}]
               ELSE DisconnectAll(s, t), t)
    IN IF ~IsPaused(s, t) THEN s
       ELSE IF q.tor[t].waits /\ ~ShouldCheckFiles(q, t) THEN StopChecking(q, t)
       ELSE q

Pause(s, t, graceful) ==
    LET r == s.tor[t]
        p == [s EXCEPT !.tor[t].allow = graceful, !.tor[t].announce = FALSE,
                       !.tor[t].graceful = graceful]
    IN IF ~r.allow THEN s
       ELSE IF ~s.paused \/ (r.graceful /\ ~graceful) THEN DoPause(p, t) ELSE p

\* clear_error.
ClearError(s, t) ==
    LET c == [s EXCEPT !.tor[t].error = FALSE]
    IN IF ~s.tor[t].error THEN s
       ELSE IF ShouldCheckFiles(c, t) THEN QueueTorrentCheck(c, t) ELSE c

\* Mutant: a resumed torrent is left to the queueing logic.
DoResumeIdle(s, t) ==
    IF IsPaused(s, t) THEN s ELSE StartAnnouncing(ClearError(s, t), t)

DoResume(s, t) ==
    LET c == StartAnnouncing(ClearError(s, t), t)
    IN IF IsPaused(s, t) THEN s
       ELSE IF ~c.tor[t].waits /\ ShouldCheckFiles(c, t) THEN QueueTorrentCheck(c, t) ELSE c

Resume(s, t) ==
    IF s.tor[t].allow /\ s.tor[t].announce THEN s
    ELSE DoResume([s EXCEPT !.tor[t].allow = TRUE, !.tor[t].announce = TRUE,
                            !.tor[t].graceful = IF s.paused THEN @ ELSE FALSE], t)

\* set_allow_peers, of the queueing logic.
SetAllowPeers(s, t, b, graceful) ==
    LET r == s.tor[t]
        p == [s EXCEPT !.tor[t].allow = b, !.tor[t].announce = IF b THEN @ ELSE FALSE,
                       !.tor[t].graceful = IF s.paused THEN @ ELSE graceful]
    IN IF r.allow = b /\ r.graceful = graceful THEN s
       ELSE IF b THEN DoResume(p, t) ELSE DoPause(p, t)

\* auto_managed.
AutoManaged(s, t, a) ==
    LET m == [s EXCEPT !.tor[t].auto = a]
    IN IF s.tor[t].auto = a THEN s
       ELSE IF ~ShouldCheckFiles(s, t) /\ ShouldCheckFiles(m, t) THEN QueueTorrentCheck(m, t)
       ELSE IF ShouldCheckFiles(s, t) /\ ~ShouldCheckFiles(m, t) THEN StopChecking(m, t)
       ELSE m

\* handle_disk_error, of a job that checks.
HandleDiskError(s, t) == Pause(SetError(s, t), t, FALSE)

-----------------------------------------------------------------------------
(* The end of a check and of a download. *)

\* finished, with completed.
Finished(s, t) ==
    LET f == SetQueuePosition(SetState(s, t, "finished"), t, -1)
    IN IF IsSeed(s, t) THEN [SetState(f, t, "seeding") EXCEPT !.tor[t].picker = FALSE] ELSE f

\* files_checked.
FilesChecked(s, t) ==
    LET d == IF s.tor[t].st = "finished" THEN s ELSE SetState(s, t, "downloading")
        f == IF IsFinished(d, t) /\ d.tor[t].st # "finished" THEN Finished(d, t) ELSE d
    IN IF s.tor[t].abort THEN s ELSE StartAnnouncing([f EXCEPT !.tor[t].checked = TRUE], t)

\* What is left to check is queued, unless the torrent is stopped.
NeedsCheck(s, t) ==
    LET q == SetState(s, t, "queued")
    IN IF ShouldCheckFiles(q, t) THEN QueueTorrentCheck(q, t) ELSE q

OnResumeDataChecked(s, a) ==
    CASE a.ret = "fatal" ->
            SetState(Pause(AutoManaged(HandleDiskError(s, a.t), a.t, FALSE), a.t, FALSE),
                     a.t, "queued")
      [] a.ret = "ok" -> FilesChecked([s EXCEPT !.tor[a.t].have = @ \cup a.have], a.t)
      [] a.ret = "more" -> NeedsCheck(s, a.t)

OnForceRecheck(s, a) ==
    CASE a.ret = "fatal" -> HandleDiskError(s, a.t)
      [] a.ret = "ok" -> FilesChecked(s, a.t)
      [] a.ret = "more" -> NeedsCheck(s, a.t)

OnPieceChecked(s, a) ==
    LET h == [s EXCEPT !.tor[a.t].have = IF s.tor[a.t].picker THEN @ \cup a.have ELSE @]
    IN CASE a.ret = "aborted" -> Pause(DequeueTorrentCheck(s, a.t), a.t, FALSE)
         [] a.ret = "fatal" -> SetError(Pause(AutoManaged(s, a.t, FALSE), a.t, FALSE), a.t)
         [] a.ret = "more" -> h
         [] a.ret = "ok" -> FilesChecked(DequeueTorrentCheck(h, a.t), a.t)

\* A callback runs on the network thread.
Callback ==
    /\ done # <<>>
    /\ LET a == Head(done)
           s == [Now EXCEPT !.done = Tail(@)]
       IN Become(CASE a.op = "resume" -> OnResumeDataChecked(s, a)
                   [] a.op = "recheck" -> OnForceRecheck(s, a)
                   [] a.op = "check" -> OnPieceChecked(s, a))

-----------------------------------------------------------------------------
(* The disk thread. *)

Post(s, a) == [s EXCEPT !.done = Append(@, a)]

\* check_fastresume: accepted, rejected or impossible.  Without resume data the
\* files are checked when there are any.
CheckFastresume(s, j, ret, have) ==
    Post([s EXCEPT !.tor[j.t].slot = 1,
                   !.tor[j.t].disk = CASE ret = "ok" -> "ready" [] ret = "more" -> "full"
                                       [] ret = "fatal" -> @],
         Answered(j.t, j.op, ret, have))

\* A check that has more to do goes on in a new job.
Checked(s, t, more, have) ==
    Post(IF more THEN AddJob(s, t, "check") ELSE s,
         Answered(t, "check", IF more THEN "more" ELSE "ok", have))

\* Mutant: a piece is passed over between two jobs.
CheckFilesSkips(s, t) ==
    LET r == s.tor[t]
        more == IF r.disk = "none" THEN r.data # {} ELSE r.disk = "full" /\ r.slot + 1 < NumPieces
        found == IF r.disk = "none" THEN {1} ELSE IF r.disk = "full" THEN {r.slot} \cap r.data ELSE {}
    IN Checked([s EXCEPT !.tor[t].slot = IF r.disk = "full" THEN @ + 2 ELSE @,
                         !.tor[t].disk = IF more THEN "full" ELSE "ready"], t, more, found)

\* Mutant: the piece is counted after the slot has moved on.
CheckFilesLate(s, t) ==
    LET r == s.tor[t]
        more == IF r.disk = "none" THEN r.data # {} ELSE r.disk = "full" /\ r.slot < NumPieces
        found == IF r.slot \in r.data THEN {r.slot + 1} \cap AllPieces ELSE {}
    IN Checked([s EXCEPT !.tor[t].slot = IF r.disk = "full" THEN @ + 1 ELSE @,
                         !.tor[t].disk = IF more THEN "full" ELSE "ready"], t, more, found)

\* check_files: the next piece, which goes to the network thread with the
\* answer.  If check_fastresume could not look at the files this does: j.offset
\* still is 0 then, which the network thread takes for the first piece.
CheckFiles(s, t) ==
    LET r == s.tor[t]
        more == IF r.disk = "none" THEN r.data # {} ELSE r.disk = "full" /\ r.slot < NumPieces
        found == IF r.disk = "none" THEN {1} ELSE IF r.disk = "full" THEN {r.slot} \cap r.data ELSE {}
    IN Checked([s EXCEPT !.tor[t].slot = IF r.disk = "full" THEN @ + 1 ELSE @,
                         !.tor[t].disk = IF more THEN "full" ELSE "ready"], t, more, found)

RunJob ==
    /\ jobs # <<>>
    /\ LET j == Head(jobs)
           s == [Now EXCEPT !.jobs = Tail(@)]
       IN \/ /\ j.op \in {"resume", "recheck"}
             /\ \E ret \in {"ok", "more"} :
                  /\ j.op = "recheck" => (ret = "ok" <=> tor[j.t].data = {})
                  /\ Become(CheckFastresume(s, j, ret, IF ret = "ok" THEN tor[j.t].data ELSE {}))
          \/ /\ j.op = "check"
             /\ Become(CheckFiles(s, j.t))
          \/ /\ j.op = "abort"
             /\ Become(CancelJobs(s, j.t))

\* The files of the torrent cannot be read.
FailJob ==
    /\ jobs # <<>>
    /\ LET j == Head(jobs)
           s == [Now EXCEPT !.jobs = Tail(@)]
       IN \/ j.op \in {"resume", "recheck"} /\ Become(CheckFastresume(s, j, "fatal", {}))
          \/ /\ j.op = "check" /\ tor[j.t].disk # "ready"
             /\ Become(Post(s, Answered(j.t, "check", "fatal", {})))

-----------------------------------------------------------------------------
(* The user, the session and the peers. *)

\* torrent::init, when the metadata is known.
Start(s, t) ==
    IF s.tor[t].valid THEN AddJob(SetState(s, t, "resume_data"), t, "resume")
    ELSE StartAnnouncing(SetState(s, t, "metadata"), t)

\* add_torrent: the torrent goes to the end of the queue.
AddTorrent(t, allow, auto) ==
    /\ tor[t].st = "new"
    /\ LET last == Max({tor[u].pos : u \in InSession(Now)} \cup {-1})
       IN Become(Start([Now EXCEPT !.tor[t] = [@ EXCEPT !.allow = allow, !.announce = allow,
                                                        !.auto = auto, !.pos = last + 1]], t))

\* set_metadata.
SetMetadata(t) ==
    /\ tor[t].st = "metadata" /\ tor[t].peers # {} /\ ~tor[t].valid
    /\ Become(Start([Now EXCEPT !.tor[t].valid = TRUE], t))

\* torrent::abort.
Abort(s, t) ==
    LET a == DisconnectAll(StopAnnouncing([s EXCEPT !.tor[t].abort = TRUE], t), t)
    IN DequeueTorrentCheck(IF a.tor[t].valid THEN AbortDiskIo(a, t) ELSE a, t)

\* remove_torrent: out of the map and the check queue, then abort.
RemoveTorrent(t) ==
    /\ t \in InSession(Now)
    /\ LET r == [Now EXCEPT !.queue = SelectSeq(@, LAMBDA u : u # t)]
       IN Become(SetState(SetQueuePosition(Abort(r, t), t, -1), t, "removed"))

UserPause(t, graceful) == t \in InSession(Now) /\ Become(Pause(Now, t, graceful))
UserResume(t) == t \in InSession(Now) /\ Become(Resume(Now, t))
UserAutoManaged(t) == t \in InSession(Now) /\ Become(AutoManaged(Now, t, ~tor[t].auto))

UserClearError(t) == t \in InSession(Now) /\ tor[t].error /\ Become(ClearError(Now, t))

\* force_recheck.  The priorities are lost with the picker of a seed.  A torrent
\* that was finished gets a place in the queue again if it is auto managed.
ForceRecheck(t) ==
    LET c == StopAnnouncing(DisconnectAll(ClearError(Now, t), t), t)
        r == SetState([c EXCEPT !.tor[t].picker = TRUE, !.tor[t].have = {},
                                !.tor[t].filtered = IF tor[t].picker THEN @ ELSE {},
                                !.tor[t].checked = FALSE],
                      t, "resume_data")
        p == IF r.tor[t].auto /\ ~IsFinished(r, t) THEN SetQueuePosition(r, t, AtEnd) ELSE r
    IN /\ t \in InSession(Now) /\ tor[t].valid
       /\ ~ShouldCheckFiles(Now, t) /\ tor[t].st # "resume_data"
       /\ Become(AddJob(p, t, "recheck"))

\* queue_up and queue_down.
MoveInQueue(t) ==
    /\ t \in InSession(Now)
    /\ \/ Become(SetQueuePosition(Now, t, IF tor[t].pos = 0 THEN 0 ELSE tor[t].pos - 1))
       \/ Become(SetQueuePosition(Now, t, tor[t].pos + 1))

\* prioritize_pieces: what is missing is not wanted, or everything is;
\* update_peer_interest.
Prioritize(t) ==
    /\ t \in InSession(Now) /\ tor[t].valid /\ ~IsSeed(Now, t)
    /\ \E unwanted \in {{}, AllPieces \ tor[t].have} \ {tor[t].filtered} :
         LET f == [Now EXCEPT !.tor[t].filtered = unwanted]
         IN Become(IF IsFinished(f, t) /\ ~IsFinished(Now, t) THEN Finished(f, t)
                   ELSE IF IsFinished(Now, t) /\ ~IsFinished(f, t)
                   THEN SetQueuePosition(SetState(f, t, "downloading"), t, AtEnd)
                   ELSE f)

\* session_impl::pause and resume.
SessionPause ==
    /\ ~paused
    /\ Become(FoldSet(LAMBDA t, s : DoPause(s, t), [Now EXCEPT !.paused = TRUE],
                      InSession(Now)))

SessionResume ==
    /\ paused
    /\ Become(FoldSet(LAMBDA t, s : LET r == DoResume(s, t)
                                    IN IF ShouldCheckFiles(r, t) THEN QueueTorrentCheck(r, t)
                                       ELSE r,
                      [Now EXCEPT !.paused = FALSE], InSession(Now)))

\* recalculate_auto_managed_torrents and auto_manage_torrents: those that are to
\* be checked are resumed, of the rest as many run as Limit says, the first in
\* the queue first.
AutoManageRank(t) == IF tor[t].pos >= 0 THEN tor[t].pos ELSE AtEnd
Managed == {t \in InSession(Now) : /\ tor[t].st \notin {"queued", "checking"}
                                   /\ tor[t].auto /\ ~tor[t].error}
Unmanaged == {t \in InSession(Now) \ Managed : /\ tor[t].st \notin {"queued", "checking"}
                                               /\ ~IsPaused(Now, t)}
IsFirst(t) == Cardinality({u \in Managed : AutoManageRank(u) < AutoManageRank(t)})
             < Limit - Cardinality(Unmanaged)
RecalculateAutoManagedTorrents ==
    /\ ~paused
    /\ Become(FoldSet(
         LAMBDA t, s :
           IF s.tor[t].st \in {"queued", "checking"}
           THEN IF s.tor[t].auto /\ IsPaused(s, t) THEN Resume(s, t) ELSE s
           ELSE IF t \notin Managed THEN s
           ELSE LET n == [s EXCEPT !.tor[t].announce = IsFirst(t)]
                IN IF IsFirst(t) THEN SetAllowPeers(n, t, TRUE, FALSE)
                   ELSE SetAllowPeers(n, t, FALSE, TRUE),
         Now, InSession(Now)))

\* A peer is connected: want_more_peers, or attach_to_torrent and attach_peer.
Connect(t, kind) ==
    /\ t \in InSession(Now) /\ ~IsPaused(Now, t) /\ kind \notin tor[t].peers
    /\ tor[t].valid => tor[t].st \in {"downloading", "finished", "seeding"}
    /\ kind = "busy" => tor[t].st = "downloading"
    /\ Become([Now EXCEPT !.tor[t].peers = @ \cup {kind}])

\* The data arrives, also of a torrent that is pausing; a piece may be complete.
\* send_block_requests ends the connection then.
Receive(t) ==
    /\ "busy" \in tor[t].peers
    /\ LET kept == IF tor[t].graceful THEN tor[t].peers \ {"busy"}
                   ELSE (tor[t].peers \ {"busy"}) \cup {"idle"}
           r == [Now EXCEPT !.tor[t].peers = kept]
       IN \/ Become(r)
          \/ \E p \in AllPieces \ tor[t].have :
               /\ tor[t].st = "downloading"
               /\ LET h == [r EXCEPT !.tor[t].have = @ \cup {p}, !.tor[t].data = @ \cup {p}]
                  IN Become(IF IsFinished(h, t) THEN Finished(h, t) ELSE h)

\* What goes on by itself.
Runs(ts) ==
    \/ Callback \/ RunJob \/ SessionResume \/ RecalculateAutoManagedTorrents
    \/ \E t \in ts :
         \/ \E allow, auto \in BOOLEAN : AddTorrent(t, allow, auto)
         \/ SetMetadata(t) \/ UserClearError(t) \/ Receive(t)
         \/ \E kind \in {"idle", "busy"} : Connect(t, kind)

Does(op, ts) ==
    \/ op = "error" /\ FailJob
    \/ op = "session" /\ SessionPause
    \/ \E t \in ts :
         \/ op = "pause" /\ (UserPause(t, FALSE) \/ UserResume(t))
         \/ op = "graceful" /\ UserPause(t, TRUE)
         \/ op = "auto" /\ UserAutoManaged(t)
         \/ op = "recheck" /\ ForceRecheck(t)
         \/ op = "filter" /\ Prioritize(t)
         \/ op = "remove" /\ RemoveTorrent(t)
         \/ op = "move" /\ MoveInQueue(t)

NextOf(ops, ts) == Runs(ts) \/ \E op \in ops : Does(op, ts)
Next == NextOf(Ops, Torrents)

Spec == Init /\ [][Next]_vars

-----------------------------------------------------------------------------
(* Properties. *)

\* A torrent that is paused, by itself or with the session, announces nothing
\* and keeps no peers but those a graceful pause waits for.
PausedIsQuiet ==
    \A t \in InSession(Now) : IsPaused(Now, t) =>
        ~tor[t].announcing /\ (tor[t].peers = {} \/ tor[t].graceful)

\* A torrent takes itself to wait for its check if and only if the session has
\* it in its queue, once.
QueueIsRight ==
    /\ \A t \in InSession(Now) : tor[t].waits <=> t \in Range(queue)
    /\ IsInjective(queue)

\* A torrent that is to be checked waits for it: none is forgotten when the
\* reasons for and against a check change while jobs are under way.
ShouldIsQueued == \A t \in InSession(Now) : ShouldCheckFiles(Now, t) => tor[t].waits

\* A torrent that is not to be checked is not being checked.
CheckingIsMeant ==
    \A t \in InSession(Now) : tor[t].st = "checking" => ShouldCheckFiles(Now, t)

\* If torrents wait for their check, one is being checked.
WaitingHasActive ==
    (queue # <<>> /\ ~paused) =>
        \E t \in InSession(Now) : tor[t].st = "checking" /\ ShouldCheckFiles(Now, t)

\* Every torrent that is to be checked waits for it in the queue of the session,
\* which always has one of them checked.
ChecksAreQueued == QueueIsRight /\ ShouldIsQueued /\ WaitingHasActive

\* The queue positions are 0, 1, .. without a gap or a tie, whatever was added,
\* finished, moved, rechecked or removed.
PositionsAreDense ==
    LET listed == {t \in InSession(Now) : tor[t].pos # -1}
    IN {tor[t].pos : t \in listed} = 0 .. Cardinality(listed) - 1

\* A torrent whose files are checked knows every piece that is on disk, however
\* often the check was interrupted.
CheckIsComplete ==
    \A t \in InSession(Now) : (tor[t].checked /\ tor[t].picker) => tor[t].data \subseteq tor[t].have

\* A torrent only claims to have a piece whose data is in its files.
HaveIsOnDisk == \A t \in Torrents : tor[t].have \subseteq tor[t].data
=============================================================================
