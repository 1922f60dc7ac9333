----------------------------- MODULE MCProgress -----------------------------
(***************************************************************************)
(* What must happen in the end, in instances small enough for TLC to check *)
(* liveness, several components in one run: a behaviour is one of the part *)
(* that `part` names, the other components stay as they are.               *)
(*                                                                         *)
(*   tracker    two requests that share a tracker, to which sending may    *)
(*              fail;                                                      *)
(*   disk       one piece of one block, two peers, one disk error of any   *)
(*              kind;                                                      *)
(*   stream     a uTP connection that carries no data, only SYN and FIN;   *)
(*   queue      two connection attempts, the second of which survives      *)
(*              close();                                                   *)
(*   bandwidth  two connections of priority 1 and 2 that share the channel *)
(*              of the session; the second one has one of its own;         *)
(*   lookup     one lookup among three nodes of the DHT.                   *)
(***************************************************************************)
EXTENDS UdpTracker, TLC

CONSTANTS p1, p2, r1, r2, e1, NoPeer, NoBlock, c1, c2, NoTimer, session, perPeer, l1, dummy

VARIABLES
    part,   \* what takes the steps
    watch,  \* the one the liveness property is about, which stays the same
    \* BlockDownload
    d_conn, d_choked, d_parole, d_queue, d_receiving, d_picker, d_upload_mode, d_jobs, d_cache,
    d_disk, d_done, d_errors,
    \* UtpStream
    s_sock, s_net,
    \* ConnectionQueue
    q_queue, q_connecting, q_left, q_num_connecting, q_limit, q_abort, q_num_timers, q_timer,
    q_cancelled, q_expired, q_posted, q_life, q_ticket,
    \* BandwidthManager
    b_queue, b_queued_bytes, b_abort, b_limit, b_quota_left, b_quota, b_state, b_disconnecting,
    \* DhtLookup
    l_look, l_trans, l_table, l_stopped, l_starts

diskVars == <<d_conn, d_choked, d_parole, d_queue, d_receiving, d_picker, d_upload_mode, d_jobs,
              d_cache, d_disk, d_done, d_errors>>
streamVars == <<s_sock, s_net>>
queueVars == <<q_queue, q_connecting, q_left, q_num_connecting, q_limit, q_abort, q_num_timers,
               q_timer, q_cancelled, q_expired, q_posted, q_life, q_ticket>>
bandwidthVars == <<b_queue, b_queued_bytes, b_abort, b_limit, b_quota_left, b_quota, b_state,
                   b_disconnecting>>
lookupVars == <<l_look, l_trans, l_table, l_stopped, l_starts>>

D == INSTANCE BlockDownload WITH
        Peer <- {p1, p2}, Piece <- {0}, Index <- {0}, FastPeer <- {p1}, MaxQueue <- 2,
        MaxDiskErrors <- 1, PossibleErrors <- {"no_memory", "no_space", "other"},
        StrictEndGameMode <- TRUE, DropSkippedRequests <- FALSE, StrayPeer <- {p2},
        CorruptPeer <- {p1}, conn <- d_conn, choked <- d_choked, parole <- d_parole,
        queue <- d_queue, receiving <- d_receiving, picker <- d_picker,
        upload_mode <- d_upload_mode, jobs <- d_jobs, cache <- d_cache, disk <- d_disk,
        done <- d_done, errors <- d_errors

S == INSTANCE UtpStream WITH
        Mod <- 8, First <- "a" :> 6 @@ "b" :> 3, Units <- 0, Window <- 4, InitCwnd <- 1,
        MaxCwnd <- 1, MaxPackets <- 40, DupLimit <- 1, Reorder <- 2, Resends <- 2,
        DelayedAck <- TRUE, SendErrors <- FALSE, sock <- s_sock, net <- s_net

Q == INSTANCE ConnectionQueue WITH
        Client <- {c1, c2}, Priority <- c1 :> 1 @@ c2 :> 2, Timeout <- c1 :> 2 @@ c2 :> 2,
        MaxTimeout <- 2, Limits <- {0, 1}, queue <- q_queue, connecting <- q_connecting,
        left <- q_left, num_connecting <- q_num_connecting, limit <- q_limit, abort <- q_abort,
        num_timers <- q_num_timers, timer <- q_timer, cancelled <- q_cancelled,
        expired <- q_expired, posted <- q_posted, life <- q_life, ticket <- q_ticket

B == INSTANCE BandwidthManager WITH
        Peer <- {p1, p2}, Channel <- {session, perPeer},
        Member <- p1 :> {session} @@ p2 :> {session, perPeer}, Priority <- p1 :> 1 @@ p2 :> 2,
        Limits <- {0, 1}, Sizes <- {3}, Dts <- {3000}, Ttl <- 2, queue <- b_queue,
        queued_bytes <- b_queued_bytes, abort <- b_abort, limit <- b_limit,
        quota_left <- b_quota_left, quota <- b_quota, state <- b_state,
        disconnecting <- b_disconnecting

L == INSTANCE DhtLookup WITH
        Nodes <- 1 .. 3, Lookups <- {l1}, Dummy <- dummy, BranchFactor <- 1, NumTarget <- 1,
        BucketSize <- 2, MaxFailCount <- 1, MaxResults <- 2, MaxStarts <- 1, Malformed <- FALSE,
        look <- l_look, trans <- l_trans, table <- l_table, stopped <- l_stopped,
        starts <- l_starts

AllVars == <<part, watch, vars, diskVars, streamVars, queueVars, bandwidthVars, lookupVars>>

PartInit ==
    /\ part \in {"tracker", "disk", "stream", "queue", "bandwidth", "lookup"}
    /\ watch \in CASE part = "tracker" -> {r1, r2}
                    [] part = "disk" -> {0}
                    [] part = "stream" -> {"a", "b", "attempt"}
                    [] part = "queue" -> {c1, c2}
                    [] part = "bandwidth" -> {p1, p2}
                    [] part = "lookup" -> {l1}
    /\ Init
    /\ D!Init
    /\ S!Init
    /\ Q!Init
    /\ B!Init
    /\ L!Init
    /\ part # "queue" => q_limit = 0
    /\ part # "bandwidth" => \A c \in {session, perPeer} : b_limit[c] = 0

\* A step of the part p that leaves the other components alone.
InPart(p, step, others) == part = p /\ step /\ UNCHANGED <<part, watch, others>>

notTracker == <<diskVars, streamVars, queueVars, bandwidthVars, lookupVars>>
notDisk == <<vars, streamVars, queueVars, bandwidthVars, lookupVars>>
notStream == <<vars, diskVars, queueVars, bandwidthVars, lookupVars>>
notQueue == <<vars, diskVars, streamVars, bandwidthVars, lookupVars>>
notBandwidth == <<vars, diskVars, streamVars, queueVars, lookupVars>>
notLookup == <<vars, diskVars, streamVars, queueVars, bandwidthVars>>

PartNext ==
    \/ InPart("tracker", Next, notTracker)
    \/ InPart("disk", D!Next, notDisk)
    \/ InPart("stream", S!Next, notStream)
    \/ InPart("queue", Q!Next, notQueue)
    \/ InPart("bandwidth", B!Next, notBandwidth)
    \/ InPart("lookup", L!Next, notLookup)

TrackerStep == \E r \in {r1, r2} : NameLookup(r) \/ RunPosted(r) \/ TimeoutCallback(r)

\* What must happen in the end.  No two parts move in one behaviour, so that
\* fairness of what the parts must do together is fairness of each.
Must1 ==
    \/ InPart("tracker", TrackerStep, notTracker)
    \/ InPart("disk", D!DiskStep, notDisk)
    \/ InPart("stream", S!Reap("a"), notStream)
    \/ InPart("queue", Q!Progress, notQueue)
    \/ InPart("bandwidth", B!Tick, notBandwidth)
    \/ InPart("lookup", L!TimesOut, notLookup)

Must2 ==
    \/ InPart("disk", D!CompletionStep, notDisk)
    \/ InPart("stream", S!Reap("b"), notStream)

Must3 ==
    \/ InPart("stream", S!OnTimeout("a"), notStream)

Must4 ==
    \/ InPart("stream", S!OnTimeout("b"), notStream)

\* What `watch` waits for has not come yet.
Waiting ==
    CASE part = "tracker" -> IsWaiting(watch)
      [] part = "disk" -> D!IsWaiting(watch)
      [] part = "stream" -> S!IsWaiting(watch)
      [] part = "queue" -> Q!IsWaiting(watch)
      [] part = "bandwidth" -> B!IsWaiting(watch)
      [] part = "lookup" -> L!IsWaiting(watch)

\* What `watch` waits for has come.
Served ==
    CASE part = "tracker" -> IsServed(watch)
      [] part = "disk" -> D!IsServed(watch)
      [] part = "stream" -> S!IsServed(watch)
      [] part = "queue" -> Q!IsServed(watch)
      [] part = "bandwidth" -> B!IsServed(watch)
      [] part = "lookup" -> L!IsServed(watch)

PartSpec == PartInit /\ [][PartNext]_AllVars
    /\ WF_AllVars(Must1) /\ WF_AllVars(Must2) /\ WF_AllVars(Must3) /\ WF_AllVars(Must4)

-----------------------------------------------------------------------------
\* Everything that waits is served: a request to a tracker ends, the fate of a
\* complete piece is decided, uTP connection attempts and closed uTP sockets come
\* to an end, a client of the connection queue has its turn or is closed, a
\* request for bandwidth is answered and a lookup of the DHT ends.
EverythingEnds == Waiting ~> Served

\* No round hands out more of a channel's quota than there is, and a connection
\* waits for bandwidth exactly when one request of it is queued and counted.
SharesAreRight == part = "bandwidth" => B!TypeOK /\ B!SharesAreRight

\* A lookup counts its queries, asks the nearest nodes, loses no query and ends
\* with the DHT.
LookupIsRight == part = "lookup" => L!LookupIsRight
=============================================================================
