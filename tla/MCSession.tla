----------------------------- MODULE MCSession ------------------------------
(***************************************************************************)
(* The session for TLC: the queue of connection attempts, the torrents it  *)
(* runs and their announces, and the disk thread, in one run. A behaviour  *)
(* is one of the part that `part` names, the other components stay as they *)
(* are.                                                                    *)
(*                                                                         *)
(*   queue     three connection attempts, the last of which survives       *)
(*             close();                                                    *)
(*   one       one torrent that is added without metadata, and whatever    *)
(*             the user does to it;                                        *)
(*   two       two torrents that are paused, resumed, moved in the queue   *)
(*             and removed;                                                *)
(*   failing   two torrents that are paused and resumed, and a disk that   *)
(*             fails;                                                      *)
(*   cache     the caches of the disk thread: two pieces of two blocks,    *)
(*             and room for three;                                         *)
(*   announce  the announces of a torrent to one or two trackers, while it *)
(*             is paused, resumed and auto managed.                        *)
(***************************************************************************)
EXTENDS ConnectionQueue, TLC

CONSTANTS c1, c2, c3, t1, t2

MCClient == {c1, c2, c3}
MCPriority == c1 :> 0 @@ c2 :> 1 @@ c3 :> 2
MCTimeout == c1 :> 2 @@ c2 :> 1 @@ c3 :> 2

Lives == {"one", "two", "failing"}
AnyOps == {"pause", "graceful", "session", "auto", "recheck", "filter", "remove"}
OnDisk == t1 :> {1} @@ t2 :> {2}

\* One tier of two trackers, or one tracker, announced to in the usual way or in
\* all tiers and anonymously.
TrackerLists ==
    {<<[url |-> "a", tier |-> 0], [url |-> "b", tier |-> 0]>>, <<[url |-> "a", tier |-> 1]>>}
AnnounceSettings == {[all_trackers |-> FALSE, all_tiers |-> b, anonymous |-> b] : b \in BOOLEAN}

VARIABLES
    part,   \* what takes the steps
    \* TorrentState
    l_tor, l_paused, l_queue, l_jobs, l_done,
    \* DiskCache
    d_cache, d_status, d_have, d_failed, d_seed_mode, d_algorithm, d_last,
    \* TrackerAnnounce
    a_conf, a_trackers, a_last_working, a_announcing, a_mode, a_done, a_abort, a_timer,
    a_requests, a_refused, a_calls

lifeVars == <<l_tor, l_paused, l_queue, l_jobs, l_done>>
cacheVars == <<d_cache, d_status, d_have, d_failed, d_seed_mode, d_algorithm, d_last>>
announceVars == <<a_conf, a_trackers, a_last_working, a_announcing, a_mode, a_done, a_abort,
                  a_timer, a_requests, a_refused, a_calls>>

L == INSTANCE TorrentState WITH
        Torrents <- {t1, t2}, Magnets <- {t1}, NumPieces <- 2, OnDisk <- OnDisk, Limit <- 1,
        Ops <- {}, MaxJobs <- 2, tor <- l_tor, paused <- l_paused, queue <- l_queue,
        jobs <- l_jobs, done <- l_done

D == INSTANCE DiskCache WITH
        Pieces <- {1, 2}, N <- 2, CacheSize <- 3, WriteLine <- 2, ReadLine <- 2,
        Algorithms <- {"lru", "largest_contiguous", "avoid_readback"}, Explicit <- FALSE,
        Volatile <- FALSE, SeedModes <- BOOLEAN, SeedData <- "good", SmartBan <- FALSE,
        ReadErrors <- FALSE, MaxJobs <- 2, MaxErrors <- 0, MaxBad <- 1, cache <- d_cache,
        status <- d_status, have <- d_have, failed <- d_failed, seed_mode <- d_seed_mode,
        algorithm <- d_algorithm, last <- d_last

A == INSTANCE TrackerAnnounce WITH
        Urls <- {"b"}, Lists <- TrackerLists, Tier <- 0, Settings <- AnnounceSettings,
        Exposed <- {"b"}, Interval <- 1, MinInterval <- 1, Pending <- 1, PendingMin <- 1,
        PutOff <- 1, RetryMax <- 1, Retries <- {0}, FailMod <- 2, MaxRequests <- 2,
        MaxCalls <- 2, conf <- a_conf, trackers <- a_trackers, last_working <- a_last_working,
        announcing <- a_announcing, mode <- a_mode, done <- a_done, abort <- a_abort,
        timer <- a_timer, requests <- a_requests, refused <- a_refused, calls <- a_calls

AllVars == <<part, vars, lifeVars, cacheVars, announceVars>>

PartInit ==
    /\ part \in {"queue", "one", "two", "failing", "cache", "announce"}
    /\ Init
    /\ L!Init
    /\ D!Init
    /\ A!Init
    /\ part # "queue" => limit = 0
    /\ part # "cache" => d_algorithm = "lru" /\ ~d_seed_mode
    /\ part # "announce" => a_conf.anonymous /\ Len(a_trackers) = 1 /\ a_mode.allow

\* A step of the part p that leaves the other components alone.
InPart(p, step, others) == part = p /\ step /\ UNCHANGED <<part, others>>

notQueue == <<lifeVars, cacheVars, announceVars>>
notLife == <<vars, cacheVars, announceVars>>
notCache == <<vars, lifeVars, announceVars>>
notAnnounce == <<vars, lifeVars, cacheVars>>

PartNext ==
    \/ InPart("queue", Next, notQueue)
    \/ InPart("one", L!NextOf(AnyOps, {t1}), notLife)
    \/ InPart("two", L!NextOf({"pause", "move", "remove"}, {t1, t2}), notLife)
    \/ InPart("failing", L!NextOf({"pause", "error"}, {t1, t2}), notLife)
    \/ InPart("cache", D!Next, notCache)
    \/ InPart("announce", A!Next, notAnnounce)

PartSpec == PartInit /\ [][PartNext]_AllVars

-----------------------------------------------------------------------------
\* A paused torrent announces nothing and keeps no peers but those a graceful
\* pause waits for.
PausedIsQuiet == part \in Lives => L!PausedIsQuiet

\* A torrent takes itself to wait for its check if and only if it is queued,
\* the queue positions are 0, 1, .. without a gap or a tie, and, if none is
\* removed, one is always checked while others wait.
QueuesAreRight ==
    /\ part \in Lives => L!TypeOK /\ L!QueueIsRight /\ L!PositionsAreDense
    /\ part = "failing" => L!ChecksAreQueued

\* A torrent whose files are checked knows every piece that is on disk, and
\* claims no other.
PiecesAreKnown ==
    /\ part \in {"two", "failing"} => L!CheckIsComplete
    /\ part \in {"one", "two"} => L!HaveIsOnDisk

\* The caches are what their counts say, a block that is read is the one that was
\* written last, and the partial hash of a piece is that of its blocks on disk.
CachesAreRight ==
    part = "cache" => D!CachesAreCounted /\ D!ReadIsGood /\ D!HashIsRight /\ D!HaveIsGood

\* A tracker that is announced to has a request under way, the tiers stay in order,
\* a paused torrent does not announce, and the next announce is never later than it
\* is due unless one was refused.
AnnouncesAreRight == part = "announce" => A!AnnouncesAreRight
=============================================================================
