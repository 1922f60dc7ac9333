----------------------------- MODULE UdpTracker -----------------------------
(***************************************************************************)
(* Requests to UDP trackers (tracker_manager.cpp,                          *)
(* udp_tracker_connection.cpp): name lookup, a connect exchange that       *)
(* yields a connection id, which all requests share through a cache, and   *)
(* the announce (or scrape) itself, over a network that loses, repeats and *)
(* reorders packets.  A request whose target fails goes on with the next   *)
(* address of the tracker.                                                 *)
(*                                                                         *)
(* Scrapes take the path of announces.  Urls are well formed, and host     *)
(* names are resolved here, not by a proxy.  How much of a timeout is left *)
(* is left out: the timer of a request may fire at any time.  Trackers and *)
(* the network are external; a packet that was sent stays deliverable, so  *)
(* that it may arrive late, again, or never.                               *)
(***************************************************************************)
EXTENDS Integers, FiniteSets

CONSTANTS
    Request,      \* tracker requests
    Stopped,      \* those with event=stopped, which outlive the session
    Endpoint,     \* addresses of trackers
    SendErrors,   \* whether sending a packet may fail at once
    MaxRestarts,  \* how often a tracker forgets its connection ids
    None          \* no endpoint, transaction or connection id

ASSUME TrackerAssumption ==
    /\ IsFiniteSet(Endpoint)
    /\ Stopped \subseteq Request
    /\ SendErrors \in BOOLEAN
    /\ MaxRestarts \in Nat

VARIABLES
    con,       \* con[r]: the udp_tracker_connection of request r
    shutdown,  \* tracker_manager::m_abort
    cache,     \* m_connection_cache: the connection id known for an endpoint
    expired,   \* the endpoints whose entry has expired
    net,       \* the packets sent so far
    epoch,     \* epoch[e]: the connection id tracker e accepts now
    announced  \* the transactions the trackers have taken for announces

ourVars == <<con, shutdown, cache, expired>>
vars == <<ourVars, net, epoch, announced>>

\* One transaction id for the first connect, one after each start_announce.
MaxTids == Cardinality(Endpoint) + 1
Transaction == Request \X (1 .. MaxTids)
Id == 0 .. MaxRestarts

Packet == [to : {"tracker", "us"}, ep : Endpoint, id : Id \cup {None}, tid : Transaction,
           op : {"connect", "announce", "error", "bad"}]

\* life: in m_connections from queue_request to close.
Connection == [
    life      : {"new", "listed", "closed"},
    lookup    : BOOLEAN,                           \* the name lookup is going on
    timer     : BOOLEAN,                           \* the timeout is pending
    abort     : BOOLEAN,                           \* m_abort
    endpoints : SUBSET Endpoint,                   \* m_endpoints
    target    : Endpoint \cup {None},              \* m_target
    state     : {"error", "connect", "announce"},  \* m_state, "error" before a request
    tid       : Transaction \cup {None},           \* m_transaction_id
    tids      : 0 .. MaxTids,                      \* transaction ids drawn
    posted    : 0 .. Cardinality(Endpoint),        \* start_announce calls to be run
    calls     : Nat,                               \* calls of the requester
    answered  : BOOLEAN]                           \* one of them was a response

TypeOK ==
    /\ con \in [Request -> Connection]
    /\ shutdown \in BOOLEAN
    /\ cache \in [Endpoint -> Id \cup {None}]
    /\ expired \subseteq Endpoint
    /\ net \subseteq Packet
    /\ epoch \in [Endpoint -> Id]
    /\ announced \subseteq Transaction

Init ==
    /\ con = [r \in Request |->
                [life |-> "new", lookup |-> FALSE, timer |-> FALSE, abort |-> FALSE,
                 endpoints |-> {}, target |-> None, state |-> "error", tid |-> None,
                 tids |-> 0, posted |-> 0, calls |-> 0, answered |-> FALSE]]
    /\ shutdown = FALSE
    /\ cache = [e \in Endpoint |-> None]
    /\ expired = {}
    /\ net = {}
    /\ epoch = [e \in Endpoint |-> 0]
    /\ announced = {}

-----------------------------------------------------------------------------
(* One connection, as operators from what it is to what it may become. *)

\* Mutant: the connection is not removed from the list.
ClosedListed(c) == [c EXCEPT !.timer = FALSE]

\* tracker_connection::close.
Closed(c) == [c EXCEPT !.life = "closed", !.timer = FALSE]

\* fail: the next address is tried, or the requester hears of the error.
Failed(c) ==
    LET left == c.endpoints \ {c.target}
    IN IF left = {} THEN {Closed([c EXCEPT !.endpoints = {}, !.calls = @ + 1])}
       ELSE {[c EXCEPT !.endpoints = left, !.target = e, !.posted = @ + 1] : e \in left}

\* What send_udp_connect, send_udp_announce and send_udp_scrape share.  After
\* m_abort nothing is sent; a transaction id drawn even then is never used.
Transmit(r, c, op, id) ==
    LET fresh == c.tid = None
        sent == [c EXCEPT !.state = op,
                          !.tid = IF fresh THEN <<r, c.tids + 1>> ELSE @,
                          !.tids = IF fresh THEN @ + 1 ELSE @]
        packet == [to |-> "tracker", ep |-> c.target, op |-> op, id |-> id, tid |-> sent.tid]
    IN IF c.abort
       THEN con' = [con EXCEPT ![r] = c] /\ UNCHANGED net
       ELSE \/ con' = [con EXCEPT ![r] = sent] /\ net' = net \cup {packet}
            \/ /\ SendErrors
               /\ \E failed \in Failed(sent) : con' = [con EXCEPT ![r] = failed]
               /\ UNCHANGED net

SendUdpConnect(r, c) == Transmit(r, c, "connect", None)

\* The id is the one in the cache, which the caller has just looked up or set.
SendUdpAnnounce(r, c, id) == Transmit(r, c, "announce", id)

\* start_announce: a cached connection id is used unless it has expired.
StartAnnounce(r, c) ==
    LET e == c.target
    IN IF cache[e] # None /\ e \notin expired
       THEN /\ SendUdpAnnounce(r, c, cache[e])
            /\ UNCHANGED <<cache, expired>>
       ELSE /\ cache' = [cache EXCEPT ![e] = None]
            /\ expired' = expired \ {e}
            /\ SendUdpConnect(r, c)

-----------------------------------------------------------------------------
(* The tracker_manager and its requests. *)

\* Mutant: no timeout is set.
QueueRequestUntimed(r) ==
    /\ con[r].life = "new"
    /\ ~shutdown \/ r \in Stopped
    /\ con' = [con EXCEPT ![r].life = "listed", ![r].lookup = TRUE]
    /\ UNCHANGED <<shutdown, cache, expired, net, epoch, announced>>

\* queue_request with start.
QueueRequest(r) ==
    /\ con[r].life = "new"
    /\ ~shutdown \/ r \in Stopped
    /\ con' = [con EXCEPT ![r].life = "listed", ![r].lookup = TRUE, ![r].timer = TRUE]
    /\ UNCHANGED <<shutdown, cache, expired, net, epoch, announced>>

\* name_lookup; without an address, after an error or after the IP filter, or
\* with the request cancelled meanwhile, it fails.  (The session never cancels
\* its resolver, so operation_aborted does not occur.)
NameLookup(r) ==
    LET c == [con[r] EXCEPT !.lookup = FALSE]
    IN /\ con[r].lookup
       /\ IF c.abort
          THEN con' = [con EXCEPT ![r] = c] /\ UNCHANGED <<cache, expired, net>>
          ELSE \/ /\ \E failed \in Failed(c) : con' = [con EXCEPT ![r] = failed]
                  /\ UNCHANGED <<cache, expired, net>>
               \/ /\ c.life = "listed"
                  /\ \E eps \in SUBSET Endpoint : \E e \in eps :
                       StartAnnounce(r, [c EXCEPT !.endpoints = eps, !.target = e])
       /\ UNCHANGED <<shutdown, epoch, announced>>

\* A start_announce that fail() has posted.
RunPosted(r) ==
    /\ con[r].posted > 0
    /\ StartAnnounce(r, [con[r] EXCEPT !.posted = @ - 1])
    /\ UNCHANGED <<shutdown, epoch, announced>>

\* on_timeout.
TimedOut(c) == Failed([c EXCEPT !.abort = TRUE])

\* timeout_callback.
TimeoutCallback(r) ==
    /\ con[r].timer
    /\ \E failed \in TimedOut([con[r] EXCEPT !.timer = FALSE]) :
         con' = [con EXCEPT ![r] = failed]
    /\ UNCHANGED <<shutdown, cache, expired, net, epoch, announced>>

\* The tests of on_receive.  A "bad" packet is an announce response of the
\* wrong length.
Accepts(c, packet) ==
    /\ c.life = "listed" /\ c.state # "error" /\ ~c.abort
    /\ c.target = packet.ep
    /\ c.tid = packet.tid
    /\ \/ packet.op \in {"error", c.state}
       \/ packet.op = "bad" /\ c.state = "announce"

\* Mutant: the switch falls through to on_announce_response.
OnConnectResponseFalls(r, e, id) ==
    /\ cache' = [cache EXCEPT ![e] = id]
    /\ con' = [con EXCEPT ![r] =
                 Closed([con[r] EXCEPT !.calls = @ + 1, !.answered = TRUE])]
    /\ UNCHANGED <<expired, net>>

\* on_connect_response: the id is kept for all requests to that address.
OnConnectResponse(r, e, id) ==
    /\ cache' = [cache EXCEPT ![e] = id]
    /\ expired' = expired \ {e}
    /\ SendUdpAnnounce(r, [con[r] EXCEPT !.tid = None], id)

\* on_announce_response, and on_scrape_response.
OnAnnounceResponse(r) ==
    /\ con' = [con EXCEPT ![r] =
                 Closed([con[r] EXCEPT !.calls = @ + 1, !.answered = TRUE])]
    /\ UNCHANGED <<cache, expired, net>>

\* incoming_udp and on_receive of the request that takes the packet.
OnReceive(r) ==
    \E packet \in {x \in net : x.to = "us"} :
        /\ Accepts(con[r], packet)
        /\ \/ packet.op = "connect" /\ OnConnectResponse(r, packet.ep, packet.id)
           \/ packet.op = "announce" /\ OnAnnounceResponse(r)
           \/ /\ packet.op \in {"error", "bad"}
              /\ \E failed \in Failed(con[r]) : con' = [con EXCEPT ![r] = failed]
              /\ UNCHANGED <<cache, expired, net>>
        /\ UNCHANGED <<shutdown, epoch, announced>>

\* incoming_udp with an error for endpoint e, to which something was sent:
\* every request that talks to e fails.
OnReceiveError(e) ==
    LET hit == {r \in Request : /\ con[r].life = "listed" /\ con[r].state # "error"
                                /\ ~con[r].abort /\ con[r].target = e}
    IN /\ \E packet \in net : packet.to = "tracker" /\ packet.ep = e
       /\ hit # {}
       /\ con' \in {[r \in Request |-> IF r \in hit THEN f[r] ELSE con[r]] :
                     f \in {f \in [hit -> UNION {Failed(con[r]) : r \in hit}] :
                              \A r \in hit : f[r] \in Failed(con[r])}}
       /\ UNCHANGED <<shutdown, cache, expired, net, epoch, announced>>

\* abort_all_requests(false), when the session shuts down.
AbortAllRequests ==
    /\ ~shutdown
    /\ shutdown' = TRUE
    /\ con' = [r \in Request |-> IF con[r].life = "listed" /\ r \notin Stopped
                                 THEN Closed(con[r]) ELSE con[r]]
    /\ UNCHANGED <<cache, expired, net, epoch, announced>>

\* udp_tracker_token_expiry passes.
TokenExpires(e) ==
    /\ cache[e] # None
    /\ expired' = expired \cup {e}
    /\ UNCHANGED <<con, shutdown, cache, net, epoch, announced>>

-----------------------------------------------------------------------------
(* The trackers. *)

\* A tracker answers a request it has received, once or again.  It rejects a
\* connection id it does not know, and others as it likes.
TrackerAnswers(e) ==
    \E packet \in {x \in net : x.to = "tracker" /\ x.ep = e} :
        LET valid == packet.op = "connect" \/ packet.id = epoch[e]
        IN /\ \E op \in {packet.op, "error", "bad"} :
                /\ op = packet.op => valid
                /\ op = "bad" => packet.op = "announce" /\ valid
                /\ net' = net \cup {[to |-> "us", ep |-> e, op |-> op, tid |-> packet.tid,
                                     id |-> IF op = "connect" THEN epoch[e] ELSE None]}
                /\ announced' = IF op = "announce" THEN announced \cup {packet.tid}
                                                   ELSE announced
           /\ UNCHANGED <<ourVars, epoch>>

TrackerRestarts(e) ==
    /\ epoch[e] < MaxRestarts
    /\ epoch' = [epoch EXCEPT ![e] = @ + 1]
    /\ UNCHANGED <<ourVars, net, announced>>

-----------------------------------------------------------------------------
RequestStep(r) == NameLookup(r) \/ RunPosted(r) \/ TimeoutCallback(r)

Next ==
    \/ \E r \in Request : QueueRequest(r) \/ RequestStep(r) \/ OnReceive(r)
    \/ \E e \in Endpoint : \/ OnReceiveError(e) \/ TokenExpires(e)
                           \/ TrackerAnswers(e) \/ TrackerRestarts(e)
    \/ AbortAllRequests

Spec == Init /\ [][Next]_vars

\* Lookups end, posted calls run and timers fire; nothing is assumed of the
\* network or the trackers.
FairSpec ==
    /\ Spec
    /\ \A r \in Request : /\ WF_vars(NameLookup(r))
                          /\ WF_vars(RunPosted(r))
                          /\ WF_vars(TimeoutCallback(r))

-----------------------------------------------------------------------------
(* Properties. *)

\* A response is reported to a requester only after a tracker has taken an
\* announce of that very request, although requests share trackers and
\* connection ids and packets of earlier transactions still arrive.
AnsweredWasAnnounced ==
    \A r \in Request : con[r].answered => \E t \in announced : t[1] = r

\* The requester hears of its request at most once: not of an error after a
\* response, nor of two errors, whatever arrives late.
CalledOnce == \A r \in Request : con[r].calls <= 1

\* Every request ends, with a response, an error or the shutdown, after the
\* addresses of the tracker were tried one by one if need be.
IsWaiting(r) == con[r].life = "listed"
IsServed(r) == con[r].life = "closed"
RequestEnds == \A r \in Request : IsWaiting(r) ~> IsServed(r)
=============================================================================
