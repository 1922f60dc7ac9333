-------------------------- MODULE BandwidthManager --------------------------
(***************************************************************************)
(* The rate limiter of one direction (bandwidth_manager.cpp,               *)
(* bandwidth_queue_entry.cpp, bandwidth_limit.cpp) with the connections    *)
(* that ask it for bandwidth (peer_connection::setup_send; setup_receive   *)
(* has the same shape).  A connection without quota queues one request;    *)
(* every tick of the session the channels earn quota, which is divided     *)
(* between the requests by priority, and a request that is satisfied, or   *)
(* old, is answered.                                                       *)
(*                                                                         *)
(* bandwidth_channel::tmp and distribute_quota are only used within one    *)
(* call of update_quotas; they are operators here.  Everything runs on the *)
(* network thread: one action per handler.                                 *)
(***************************************************************************)
EXTENDS Integers, SequencesExt

CONSTANTS
    Peer,      \* connections
    Channel,   \* bandwidth channels: of the session, of torrents, of peers
    Member,    \* Member[p]: the channels connection p is subject to
    Priority,  \* Priority[p]: the priority of its requests
    Limits,    \* the limits a channel may be given, in bytes per second; 0 is none
    Sizes,     \* request sizes
    Dts,       \* milliseconds between two ticks of the session
    Ttl        \* bw_request::ttl at first, 20 in the code

VARIABLES
    queue,          \* m_queue
    queued_bytes,   \* m_queued_bytes
    abort,          \* m_abort
    limit,          \* bandwidth_channel::m_limit
    quota_left,     \* bandwidth_channel::m_quota_left
    quota,          \* peer_connection::m_quota
    state,          \* m_channel_state, as a set of flags
    disconnecting   \* m_disconnecting

vars == <<queue, queued_bytes, abort, limit, quota_left, quota, state, disconnecting>>

MaxSize == Max(Sizes \cup {0})

\* bw_request.  A ttl below 0 is as good as 0.
BwRequest == [peer : Peer, size : Sizes, assigned : 0 .. MaxSize, ttl : 0 .. Ttl,
              channel : SUBSET Channel]

\* A connection asks for more only when it has used up what it was given, so it
\* never holds more than one request's worth.
TypeOK ==
    /\ queue \in Seq(BwRequest)
    /\ queued_bytes \in Int
    /\ abort \in BOOLEAN
    /\ limit \in [Channel -> Limits]
    /\ quota_left \in [Channel -> Int]
    /\ quota \in [Peer -> 0 .. MaxSize]
    /\ state \in [Peer -> SUBSET {"bw_limit", "bw_network"}]
    /\ disconnecting \subseteq Peer

Init ==
    /\ queue = <<>>
    /\ queued_bytes = 0
    /\ abort = FALSE
    /\ limit \in [Channel -> Limits]
    /\ quota_left = [c \in Channel |-> 0]
    /\ quota = [p \in Peer |-> 0]
    /\ state = [p \in Peer |-> {}]
    /\ disconnecting = {}

\* The sum of op over the requests of q.
SumOf(op(_), q) ==
    LET sum[i \in 0 .. Len(q)] == IF i = 0 THEN 0 ELSE op(q[i]) + sum[i - 1]
    IN sum[Len(q)]

-----------------------------------------------------------------------------
(* The connections. *)

\* What a connection with quota does: write, or wait for the disk.
Go == {{"bw_network"}, {}}

\* request_bandwidth: the channels without a limit play no part, and without
\* any other channel the answer is at once what was asked for.  With no answer
\* the connection waits for assign_bandwidth.
RequestBandwidth(p, size) ==
    LET throttled == {c \in Member[p] : limit[c] > 0}
        request == [peer |-> p, size |-> size, assigned |-> 0, ttl |-> Ttl,
                    channel |-> throttled]
    IN IF throttled = {} /\ ~abort
       THEN /\ quota' = [quota EXCEPT ![p] = size]
            /\ \E go \in Go : state' = [state EXCEPT ![p] = go]
            /\ UNCHANGED <<queue, queued_bytes>>
       ELSE /\ quota' = [quota EXCEPT ![p] = 0]
            /\ state' = [state EXCEPT ![p] = {"bw_limit"}]
            /\ queue' = IF abort THEN queue ELSE Append(queue, request)
            /\ queued_bytes' = IF abort THEN queued_bytes ELSE queued_bytes + size

\* setup_send of a connection with the quota `left`, which may have nothing to
\* send: it asks for bandwidth if it has none and writes if it has some.
SetupSend(p, left) ==
    \/ left = 0 /\ \E size \in Sizes : RequestBandwidth(p, size)
    \/ /\ quota' = [quota EXCEPT ![p] = left]
       /\ \E go \in Go : /\ left = 0 => go = {}
                         /\ state' = [state EXCEPT ![p] = go]
       /\ UNCHANGED <<queue, queued_bytes>>

\* Mutant: a connection that waits for bandwidth asks again.
OnDataAgain(p) ==
    /\ p \notin disconnecting
    /\ "bw_network" \notin state[p]
    /\ SetupSend(p, quota[p])
    /\ UNCHANGED <<abort, limit, quota_left, disconnecting>>

\* Something to send, or the disk is ready.
OnData(p) ==
    /\ p \notin disconnecting
    /\ state[p] = {}
    /\ SetupSend(p, quota[p])
    /\ UNCHANGED <<abort, limit, quota_left, disconnecting>>

\* on_send_data: a write is over, or has failed.
OnSendData(p) ==
    /\ "bw_network" \in state[p]
    /\ \E bytes \in 0 .. quota[p] :
         LET failed == bytes = 0
         IN /\ disconnecting' = IF failed THEN disconnecting \cup {p} ELSE disconnecting
            /\ IF p \in disconnecting'
               THEN /\ quota' = [quota EXCEPT ![p] = @ - bytes]
                    /\ state' = [state EXCEPT ![p] = {}]
                    /\ UNCHANGED <<queue, queued_bytes>>
               ELSE SetupSend(p, quota[p] - bytes)
    /\ UNCHANGED <<abort, limit, quota_left>>

Disconnect(p) ==
    /\ p \notin disconnecting
    /\ disconnecting' = disconnecting \cup {p}
    /\ UNCHANGED <<queue, queued_bytes, abort, limit, quota_left, quota, state>>

-----------------------------------------------------------------------------
(* A tick. *)

\* Mutant: a channel with quota left earns none.
EarnWhenEmpty(c, left, dt) ==
    IF limit[c] = 0 \/ left > 0 THEN left
    ELSE Min({left + (limit[c] * dt + 500) \div 1000, limit[c] * 3})

\* bandwidth_channel::update_quota, rounded to the nearest byte; at most the
\* quota of three seconds is kept.
Earn(c, left, dt) ==
    IF limit[c] = 0 THEN left
    ELSE Min({left + (limit[c] * dt + 500) \div 1000, limit[c] * 3})

\* The quota connections that are gone had been assigned goes back.
Returned(c, gone) ==
    IF limit[c] = 0 THEN 0
    ELSE SumOf(LAMBDA r : IF c \in r.channel THEN r.assigned ELSE 0, gone)

\* Mutant: every request weighs the same.
WeightOfAny(c, q) == SumOf(LAMBDA r : IF c \in r.channel THEN 1 ELSE 0, q)

\* bandwidth_channel::tmp, the priorities of the requests q that use c.
Weight(c, q) == SumOf(LAMBDA r : IF c \in r.channel THEN Priority[r.peer] ELSE 0, q)

\* Mutant: a request is given more than it asked for.
ShareOfAll(r, q, earned) ==
    LET share(c) == (Max({earned[c], 0}) * Priority[r.peer]) \div Weight(c, q)
    IN Min({r.size} \cup {share(c) : c \in {c \in r.channel : limit[c] > 0}})

\* bw_request::assign_bandwidth: what request r gets in this round, the least
\* of its shares, when `earned` is to be distributed among the requests q.
Share(r, q, earned) ==
    LET share(c) == (Max({earned[c], 0}) * Priority[r.peer]) \div Weight(c, q)
    IN Min({r.size - r.assigned} \cup {share(c) : c \in {c \in r.channel : limit[c] > 0}})

IsOver(r) == r.assigned = r.size \/ (r.ttl = 0 /\ r.assigned > 0)

\* Mutant: what was assigned already is subtracted again.
LackingAll(r) == r.size

\* What m_queued_bytes counts for r.
Lacking(r) == r.size - r.assigned

\* update_quotas.  assign_bandwidth of an answered connection ends with
\* setup_send, which finds quota.
UpdateQuotas(dt) ==
    LET gone == SelectSeq(queue, LAMBDA r : r.peer \in disconnecting)
        live == SelectSeq(queue, LAMBDA r : r.peer \notin disconnecting)
        used == {c \in Channel : \E i \in DOMAIN live : c \in live[i].channel}
        before == [c \in Channel |-> quota_left[c] + Returned(c, gone)]
        earned == [c \in Channel |-> IF c \in used THEN Earn(c, before[c], dt) ELSE before[c]]
        after == [i \in DOMAIN live |->
                    [live[i] EXCEPT !.assigned = @ + Share(live[i], live, earned),
                                    !.ttl = Max({@ - 1, 0})]]
        answered == SelectSeq(after, IsOver)
        waiting == SelectSeq(after, LAMBDA r : ~IsOver(r))
        using(c, q) == SumOf(LAMBDA r : IF c \in r.channel THEN r.assigned ELSE 0, q)
        given(c) == using(c, answered) + using(c, waiting) - using(c, live)
        answer(p) == SumOf(LAMBDA r : IF r.peer = p THEN r.assigned ELSE 0, answered)
    IN /\ ~abort
       /\ queue # <<>>
       /\ queue' = waiting
       \* What was assigned, and what the requests that are over lack, is gone.
       /\ queued_bytes' = queued_bytes - SumOf(Lacking, gone) - SumOf(Lacking, live)
                          + SumOf(Lacking, waiting)
       /\ quota_left' = [c \in Channel |-> IF limit[c] = 0 THEN earned[c]
                                                           ELSE earned[c] - given(c)]
       /\ quota' = [p \in Peer |-> quota[p] + answer(p)]
       /\ \E go \in [{p \in Peer : answer(p) > 0} -> Go] :
            state' = [p \in Peer |-> IF p \in DOMAIN go THEN go[p] ELSE state[p]]
       /\ UNCHANGED <<abort, limit, disconnecting>>

\* bandwidth_channel::throttle.
Throttle(c) ==
    /\ limit' \in {[limit EXCEPT ![c] = l] : l \in Limits \ {limit[c]}}
    /\ UNCHANGED <<queue, queued_bytes, abort, quota_left, quota, state, disconnecting>>

\* close, when the session shuts down.
Close ==
    /\ ~abort
    /\ abort' = TRUE
    /\ queue' = <<>>
    /\ queued_bytes' = 0
    /\ UNCHANGED <<limit, quota_left, quota, state, disconnecting>>

-----------------------------------------------------------------------------
Tick == \E dt \in Dts : UpdateQuotas(dt)

Next ==
    \/ \E p \in Peer : OnData(p) \/ OnSendData(p) \/ Disconnect(p)
    \/ Tick
    \/ \E c \in Channel : Throttle(c)
    \/ Close

Spec == Init /\ [][Next]_vars

\* session_impl::on_tick sets its timer again each time.
FairSpec == Spec /\ WF_vars(Tick)

-----------------------------------------------------------------------------
(* Properties. *)

\* check_invariant: m_queued_bytes is what the requests in the queue still
\* lack, whether they are answered in full, in part, or not at all.
QueuedBytesCounted == queued_bytes = SumOf(LAMBDA r : r.size - r.assigned, queue)

\* A round never hands out more of a channel's quota than there is: the shares
\* of all requests, each the least over its channels, stay within it.
QuotaIsKept == \A c \in Channel : quota_left[c] >= 0

\* A connection waits for bandwidth exactly when one request of it is queued,
\* so that it is answered once and never forgotten; request_bandwidth and
\* assign_bandwidth assert it.
LimitedIsQueued ==
    ~abort => \A p \in Peer :
        LET requests == {i \in DOMAIN queue : queue[i].peer = p}
        IN /\ Cardinality(requests) <= 1
           /\ p \notin disconnecting => (requests # {} <=> "bw_limit" \in state[p])

\* What is handed out was there, and what waits is counted and will be answered.
SharesAreRight == QueuedBytesCounted /\ QuotaIsKept /\ LimitedIsQueued

\* Every request is answered, also at very low rate limits: that is what
\* bw_request::ttl is for.
IsWaiting(p) == "bw_limit" \in state[p]
IsServed(p) == "bw_limit" \notin state[p] \/ p \in disconnecting \/ abort
RequestIsAnswered == \A p \in Peer : IsWaiting(p) ~> IsServed(p)
=============================================================================
