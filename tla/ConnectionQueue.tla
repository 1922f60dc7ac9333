--------------------------- MODULE ConnectionQueue ---------------------------
(***************************************************************************)
(* The queue of outgoing connection attempts (connection_queue.cpp): at    *)
(* most m_half_open_limit attempts are in progress, the others wait.  An   *)
(* entry hears of its turn by on_connect and of a missed deadline by       *)
(* on_timeout; one deadline_timer serves all entries.                      *)
(*                                                                         *)
(* The queue, its callbacks and its clients run on the network thread: a   *)
(* function of the queue is one action, with the callbacks it makes after  *)
(* it has given up the mutex, and what is posted to the io_service (the    *)
(* calls of on_try_connect, the expired and the cancelled timer handlers)  *)
(* runs later, in any order.                                               *)
(*                                                                         *)
(* The clients are outgoing peer connections and the http connections of   *)
(* trackers and UPnP.  Each makes one attempt, so it stands for the ticket *)
(* of its entry as well.  Time is what is left until a deadline.           *)
(***************************************************************************)
EXTENDS Integers, FiniteSets, SequencesExt

CONSTANTS
    Client,     \* connection attempts
    Priority,   \* the priority each of them enqueues with
    Timeout,    \* the time each of them is given
    MaxTimeout, \* the longest of these times
    Limits,     \* the values half_open_limit may be set to, 0 for no limit
    NoTimer     \* nothing waits for the timer

ASSUME QueueAssumption ==
    /\ IsFiniteSet(Client)
    /\ Priority \in [Client -> 0 .. 2]
    /\ MaxTimeout \in Nat
    /\ Timeout \in [Client -> 1 .. MaxTimeout]
    /\ Limits \subseteq Nat /\ Limits # {}
    /\ NoTimer \notin Int

VARIABLES
    queue,           \* m_queue, the clients in the order of their entries
    connecting,      \* entry::connecting, the clients that have it set
    left,            \* entry::expires, as time left
    num_connecting,  \* m_num_connecting
    limit,           \* m_half_open_limit
    abort,           \* close() was called
    num_timers,      \* m_num_timers
    timer,           \* time left of the pending wait on m_timer
    cancelled,       \* on_timeout handlers with operation_aborted to be run
    expired,         \* on_timeout handlers without an error to be run
    posted,          \* on_try_connect calls to be run
    life,            \* what has become of each client
    ticket           \* the clients that know their ticket

queueVars == <<queue, connecting, left, num_connecting, num_timers, timer, cancelled, posted,
               life, ticket>>
vars == <<queueVars, limit, abort, expired>>

\* gone: the client was closed, before or after its turn.
Life == {"new", "queued", "trying", "up", "gone"}

TypeOK ==
    /\ queue \in Seq(Client)
    /\ connecting \subseteq Client
    /\ left \in [Client -> Int]
    /\ num_connecting \in Nat
    /\ limit \in Limits
    /\ abort \in BOOLEAN
    /\ num_timers \in Nat
    /\ timer \in (0 .. MaxTimeout) \cup {NoTimer}
    /\ cancelled \in Nat
    /\ expired \in Nat
    /\ posted \in Nat
    /\ life \in [Client -> Life]
    /\ ticket \subseteq Client

Init ==
    /\ queue = <<>>
    /\ connecting = {}
    /\ left = Timeout
    /\ num_connecting = 0
    /\ limit \in Limits
    /\ abort = FALSE
    /\ num_timers = 0
    /\ timer = NoTimer
    /\ cancelled = 0
    /\ expired = 0
    /\ posted = 0
    /\ life = [c \in Client |-> "new"]
    /\ ticket = {}

-----------------------------------------------------------------------------
(* The state a handler works on; it is a chain of operators on it. *)

Now == [queue |-> queue, connecting |-> connecting, left |-> left,
        num_connecting |-> num_connecting, num_timers |-> num_timers, timer |-> timer,
        cancelled |-> cancelled, posted |-> posted, life |-> life, ticket |-> ticket]

\* The choice from one value has TLC compute it once.
Become(next) ==
    \E s \in {next} :
        /\ queue' = s.queue
        /\ connecting' = s.connecting
        /\ left' = s.left
        /\ num_connecting' = s.num_connecting
        /\ num_timers' = s.num_timers
        /\ timer' = s.timer
        /\ cancelled' = s.cancelled
        /\ posted' = s.posted
        /\ life' = s.life
        /\ ticket' = s.ticket

Full(num) == limit > 0 /\ num >= limit

\* The queue without the entries of cs, the others in their order.
Without(q, cs) ==
    LET kept == {i \in DOMAIN q : q[i] \notin cs}
    IN [k \in 1 .. Cardinality(kept) |->
            q[CHOOSE i \in kept : Cardinality({j \in kept : j <= i}) = k]]

\* The places of the entries that are not connecting, and when it is their turn.
Waiting(s) == {i \in DOMAIN s.queue : s.queue[i] \notin s.connecting}
Turn(s, i) == Cardinality({j \in Waiting(s) : j <= i})

\* deadline_timer::cancel: the handler of a pending wait is posted with
\* operation_aborted.
CancelTimer(s) ==
    [s EXCEPT !.timer = NoTimer,
              !.cancelled = IF s.timer = NoTimer THEN @ ELSE @ + 1]

\* expires_at and async_wait; setting the time cancels a pending wait.
ArmTimer(s, t) == [CancelTimer(s) EXCEPT !.timer = t, !.num_timers = @ + 1]

Enqueue(s, c) ==
    [s EXCEPT !.queue = IF Priority[c] <= 0 THEN Append(@, c) ELSE <<c>> \o @,
              !.life[c] = "queued",
              !.posted = IF Full(s.num_connecting) THEN @ ELSE @ + 1]

\* Mutant: nobody is told that there is room again.
DoneQuietly(s, cs) ==
    LET found == cs \cap ToSet(s.queue)
    IN [s EXCEPT !.queue = Without(@, found),
                 !.connecting = @ \ found,
                 !.num_connecting = @ - Cardinality(found \cap s.connecting)]

\* Mutant: the entry goes away, its slot does not.
DoneKeepsSlot(s, cs) ==
    LET found == cs \cap ToSet(s.queue)
    IN [s EXCEPT !.queue = Without(@, found),
                 !.connecting = @ \ found,
                 !.posted = @ + Cardinality(found)]

\* done() with the tickets of cs, one after the other.  A client that has a
\* ticket is connecting or no longer in the queue.
Done(s, cs) ==
    LET found == cs \cap ToSet(s.queue)
        wakes == {k \in 1 .. Cardinality(found) : ~Full(s.num_connecting - k)}
    IN [s EXCEPT !.queue = Without(@, found),
                 !.connecting = @ \ found,
                 !.num_connecting = @ - Cardinality(found \cap s.connecting),
                 !.posted = @ + Cardinality(wakes)]

\* Mutant: one attempt more than the limit.
StartOneMore(s) ==
    {s.queue[i] : i \in {j \in Waiting(s) : limit = 0 \/ s.num_connecting + Turn(s, j) <= limit + 1}}

\* The entries try_connect starts: the first ones that wait, up to the limit.
Start(s) ==
    {s.queue[i] : i \in {j \in Waiting(s) : limit = 0 \/ s.num_connecting + Turn(s, j) <= limit}}

\* try_connect, with the callbacks it ends with.  The timer is only set by an
\* attempt that starts alone.  A client that was closed while it waited takes
\* the ticket and does nothing with it (disconnect() returns early); of the
\* others, those of `failing` cannot open their socket.
TryConnect(s, failing) ==
    LET started == Start(s)
        first == s.queue[Min(Waiting(s))]
        timed == IF s.num_connecting = 0 THEN ArmTimer(s, Timeout[first]) ELSE s
        marked == [timed EXCEPT !.connecting = @ \cup started,
                                !.num_connecting = @ + Cardinality(started),
                                !.left = [c \in Client |->
                                    IF c \in started THEN Timeout[c] ELSE @[c]],
                                !.ticket = @ \cup started,
                                !.life = [c \in Client |->
                                    IF c \in started /\ @[c] = "queued"
                                    THEN IF c \in failing THEN "gone" ELSE "trying"
                                    ELSE @[c]]]
    IN IF Full(s.num_connecting) THEN s
       ELSE IF s.queue = <<>> THEN CancelTimer(s)
       ELSE IF started = {} THEN s
       ELSE Done(marked, {c \in started \cap failing : s.life[c] = "queued"})

\* connect_failed or close, in a callback.
Close(s, cs) ==
    [s EXCEPT !.life = [c \in Client |-> IF c \in cs THEN "gone" ELSE @[c]]]

-----------------------------------------------------------------------------
(* The clients. *)

\* torrent::connect_to_peer, http_connection::queue_connect.
ClientEnqueue(c) ==
    /\ life[c] = "new"
    /\ Become(Enqueue(Now, c))
    /\ UNCHANGED <<limit, abort, expired>>

\* on_connection_complete: the socket is connected, or the attempt failed.
ConnectionComplete(c) ==
    /\ life[c] = "trying"
    /\ \E l \in {"up", "gone"} : Become([Done(Now, {c}) EXCEPT !.life[c] = l])
    /\ UNCHANGED <<limit, abort, expired>>

\* peer_connection::disconnect, for any reason, with the ticket if it is known.
Disconnect(c) ==
    /\ life[c] \in {"queued", "trying", "up"}
    /\ Become(Close(Done(Now, {c} \cap ticket), {c}))
    /\ UNCHANGED <<limit, abort, expired>>

-----------------------------------------------------------------------------
(* The queue. *)

OnTryConnect ==
    /\ posted > 0
    /\ \E failing \in SUBSET {c \in Start(Now) : life[c] = "queued"} :
         Become([TryConnect(Now, failing) EXCEPT !.posted = @ - 1])
    /\ UNCHANGED <<limit, abort, expired>>

\* Mutant: the attempts that have time left are no longer watched.
ExpireUnwatched(s, late, retry) ==
    [s EXCEPT !.queue = Without(@, late),
              !.connecting = @ \ late,
              !.num_connecting = @ - Cardinality(late)]

\* Mutant: the timer is set to the last deadline.
ExpireAtLast(s, late, retry) ==
    LET kept == [s EXCEPT !.queue = Without(@, late),
                          !.connecting = @ \ late,
                          !.num_connecting = @ - Cardinality(late)]
    IN IF kept.connecting = {} THEN kept
       ELSE ArmTimer(kept, Max({s.left[c] : c \in kept.connecting}))

\* The part of on_timeout before try_connect: the entries that are late leave
\* the queue, their callbacks close them and enqueue the clients of `retry`
\* (connect_failed tries TCP after uTP), and the timer is set to the next
\* deadline there was before the callbacks.
Expire(s, late, retry) ==
    LET kept == [s EXCEPT !.queue = Without(@, late),
                          !.connecting = @ \ late,
                          !.num_connecting = @ - Cardinality(late)]
        closed == Close(kept, late)
        more == IF retry = {} THEN closed ELSE Enqueue(closed, CHOOSE c \in retry : TRUE)
    IN IF kept.connecting = {} THEN more
       ELSE ArmTimer(more, Min({s.left[c] : c \in kept.connecting}))

\* on_timeout with or without an error, after --m_num_timers.
OnTimeout(s, error) ==
    LET late == {c \in s.connecting : s.left[c] <= 0}
    IN IF error /\ (s.num_connecting = 0 \/ s.num_timers > 0) THEN Become(s)
       ELSE \E retry \in {{}} \cup {{c} : c \in {c \in Client : late # {} /\ life[c] = "new"}} :
            \E next \in {Expire(s, late, retry)} :
            \E failing \in SUBSET {c \in Start(next) : next.life[c] = "queued"} :
               Become(TryConnect(next, failing))

OnCancelledTimer ==
    /\ cancelled > 0
    /\ OnTimeout([Now EXCEPT !.num_timers = @ - 1, !.cancelled = @ - 1], TRUE)
    /\ UNCHANGED <<limit, abort, expired>>

OnExpiredTimer ==
    /\ expired > 0
    /\ expired' = expired - 1
    /\ OnTimeout([Now EXCEPT !.num_timers = @ - 1], FALSE)
    /\ UNCHANGED <<limit, abort>>

\* The timer expires: its handler can no longer be cancelled.  External.
TimerExpires ==
    /\ timer = 0
    /\ timer' = NoTimer
    /\ expired' = expired + 1
    /\ UNCHANGED <<queue, connecting, left, num_connecting, limit, abort, num_timers, cancelled,
                   posted, life, ticket>>

\* Mutant: the entries that stay are not counted again.
CloseQueueForgets ==
    /\ ~abort
    /\ abort' = TRUE
    /\ LET kept == Without(queue, {c \in Client : Priority[c] <= 1})
           out == ToSet(queue) \ ToSet(kept)
       IN Become(Close([Now EXCEPT !.queue = kept, !.connecting = @ \ out,
                                   !.num_connecting = 0], out))
    /\ UNCHANGED <<limit, expired>>

\* close(), once, when the session shuts down: only entries of priority 2
\* stay.  Of the others, those that are connecting get on_timeout and those
\* that wait get on_connect(-1); both close the client.
CloseQueue ==
    /\ ~abort
    /\ abort' = TRUE
    /\ LET s == IF num_connecting = 0 THEN CancelTimer(Now) ELSE Now
           kept == Without(queue, {c \in Client : Priority[c] <= 1})
           out == ToSet(queue) \ ToSet(kept)
       IN Become(Close([s EXCEPT !.queue = kept,
                                 !.connecting = @ \ out,
                                 !.num_connecting = Cardinality(connecting \ out)], out))
    /\ UNCHANGED <<limit, expired>>

\* session_impl::set_settings: nobody is told that there is more room.
SetLimit ==
    /\ limit' \in Limits \ {limit}
    /\ UNCHANGED <<queueVars, abort, expired>>

\* Time passes when no handler is ready to run, which takes no time.
Tick ==
    /\ posted = 0 /\ cancelled = 0 /\ expired = 0
    /\ timer # 0
    /\ connecting # {} \/ timer # NoTimer
    /\ left' = [c \in Client |-> IF c \in connecting THEN left[c] - 1 ELSE left[c]]
    /\ timer' = IF timer = NoTimer THEN NoTimer ELSE timer - 1
    /\ UNCHANGED <<queue, connecting, num_connecting, limit, abort, num_timers, cancelled,
                   expired, posted, life, ticket>>

-----------------------------------------------------------------------------
\* What happens by itself.
Progress == OnTryConnect \/ OnCancelledTimer \/ OnExpiredTimer \/ TimerExpires \/ Tick

Next ==
    \/ \E c \in Client : ClientEnqueue(c) \/ ConnectionComplete(c) \/ Disconnect(c)
    \/ CloseQueue
    \/ SetLimit
    \/ Progress

Spec == Init /\ [][Next]_vars

\* The io_service runs what is posted, one or the other, and time goes on;
\* nothing is assumed of the clients, the user or the network.
Fairness == WF_vars(Progress)
FairSpec == Spec /\ Fairness

-----------------------------------------------------------------------------
(* Properties. *)

\* check_invariant: m_num_connecting, which decides whether another attempt
\* may start, is the number of entries that are connecting, whatever done(),
\* timeouts, close() and the clients' callbacks do in between.
ConnectingCounted ==
    /\ connecting \subseteq ToSet(queue)
    /\ num_connecting = Cardinality(connecting)

\* An attempt in progress is always watched: a handler of the timer is
\* outstanding and m_num_timers knows it, so that a cancelled handler does not
\* take another one for granted.
SlotIsWatched ==
    /\ num_timers = cancelled + expired + (IF timer = NoTimer THEN 0 ELSE 1)
    /\ connecting # {} => num_timers > 0

\* No attempt starts while as many as m_half_open_limit are in progress.
LimitIsKept ==
    [][num_connecting' > num_connecting => limit = 0 \/ num_connecting' <= limit]_vars

\* entry::on_timeout is called no later than the longest timeout after the
\* attempt has started, which is its own timeout when all have the same.  (The
\* timer is not set anew for an attempt that is given less time than those in
\* progress.)
TimeoutInTime == \A c \in connecting : left[c] >= Timeout[c] - MaxTimeout

\* Every slot is counted, watched by the timer and taken back in time.
SlotsAreRight == ConnectingCounted /\ SlotIsWatched /\ TimeoutInTime

\* Every client that is enqueued has its turn or is closed: neither a lost
\* wakeup nor a closed client that keeps its slot blocks the queue for good.
IsWaiting(c) == c \in ToSet(queue)
IsServed(c) == c \notin ToSet(queue)
WaitingIsServed == \A c \in Client : IsWaiting(c) ~> IsServed(c)
=============================================================================
