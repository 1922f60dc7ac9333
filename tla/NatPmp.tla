------------------------------- MODULE NatPmp -------------------------------
(***************************************************************************)
(* The NAT-PMP client (natpmp.cpp): the mappings of ports, one request for *)
(* the router at a time, sent again until it is answered, and the refresh  *)
(* of what would expire.                                                   *)
(*                                                                         *)
(* Mappings are in slots; a slot is free when its protocol is none, and    *)
(* then used again.  `granted` says whether the last reply for a slot was  *)
(* good.  Requests and replies are datagrams that may be lost.  A reply    *)
(* names the local port, which is unique here.                             *)
(***************************************************************************)
EXTENDS Integers, Sequences, FiniteSets

CONSTANTS
    Ports,        \* the local ports to be mapped
    MaxSlots,     \* a bound for the model: slots
    MaxRetries,   \* 9
    Lease,        \* in ticks, what is granted, at most an hour
    GivenUp,      \* in ticks, when what failed expires: 2 hours
    MaxCalls      \* a bound for the model: calls of add_mapping and delete_mapping

VARIABLES
    slots,        \* m_mappings
    current,      \* m_currently_mapping, 0 for none
    retry_count,  \* m_retry_count
    send_timer,   \* the slot that m_send_timer is set for, 0 for none
    refresh,      \* m_next_refresh, 0 for none
    refresh_at,   \* m_refresh_timer: the slot and the ticks left, slot 0 if it is not set
    abort,        \* m_abort
    net,          \* the datagrams on the way, to and from the router
    router,       \* the local ports that the router forwards (external)
    endless,      \* try_next_mapping and update_mapping call each other for ever
    fate,         \* history, of the request under way: a datagram that does not answer it
                  \* "stopped" the timer, a datagram of it was "lost"
    calls         \* the calls so far

vars == <<slots, current, retry_count, send_timer, refresh, refresh_at, abort,
          net, router, endless, fate, calls>>

NoPort == 0

FreeSlot ==
    [action |-> "none", port |-> NoPort, used |-> FALSE, sent |-> FALSE, outstanding |-> FALSE,
     expires |-> 0, granted |-> FALSE]

Now ==
    [slots |-> slots, current |-> current, retry |-> retry_count, send |-> send_timer,
     refresh |-> refresh, at |-> refresh_at, abort |-> abort, net |-> net,
     endless |-> endless, fate |-> fate]
Become(s) ==
    /\ slots' = s.slots /\ current' = s.current /\ retry_count' = s.retry /\ send_timer' = s.send
    /\ refresh' = s.refresh /\ refresh_at' = s.at /\ abort' = s.abort
    /\ net' = s.net /\ endless' = s.endless /\ fate' = s.fate

-----------------------------------------------------------------------------
(* One request after the other. *)

Pending(e) == e.action # "none"
Ready(e) == Pending(e) /\ e.used

First(S) == CHOOSE x \in S : \A y \in S : x <= y

\* Mutant: the slots before i are not looked at again.
ComesOnce(l, i) ==
    LET later == {k \in i .. Len(l) : Ready(l[k])}
    IN  IF later = {} THEN 0 ELSE First(later)

\* The slot update_mapping(i) comes to by way of try_next_mapping: the first
\* that is ready from i on, or else the first that has an action at all.  There is
\* none if no slot has an action; if those that have one are not in use, the two
\* call each other for ever.
Comes(l, i) ==
    LET later == {k \in i .. Len(l) : Ready(l[k])}
        any == {k \in 1 .. Len(l) : Pending(l[k])}
        ready == {k \in 1 .. Len(l) : Ready(l[k])}
    IN  IF later # {} THEN First(later)
        ELSE IF any = {} THEN 0
        ELSE IF ready = {} THEN -1
        ELSE First(ready)

\* Mutant: the timer for sending again is not set.
SendMapRequestUntimed(s, i) ==
    LET r == [to |-> "router", port |-> s.slots[i].port, add |-> s.slots[i].action = "add"]
    IN  [s EXCEPT !.current = i, !.net = @ \cup {r}, !.slots[i].sent = TRUE,
                  !.slots[i].outstanding = TRUE, !.retry = @ + 1, !.fate = {}]

\* send_map_request
SendMapRequest(s, i) ==
    LET r == [to |-> "router", port |-> s.slots[i].port, add |-> s.slots[i].action = "add"]
    IN  [s EXCEPT !.current = i, !.net = @ \cup {r}, !.slots[i].sent = TRUE,
                  !.slots[i].outstanding = TRUE, !.retry = @ + 1, !.send = i,
                  !.fate = {}]

\* update_mapping, while not m_abort.
UpdateMapping(s, i) ==
    LET k == Comes(s.slots, i)
    IN  IF k = -1 THEN [s EXCEPT !.endless = TRUE]
        ELSE IF k = 0 \/ s.current # 0 THEN s
        ELSE SendMapRequest([s EXCEPT !.retry = 0], k)

\* try_next_mapping
TryNextMapping(s, i) == UpdateMapping(s, i + 1)

\* Mutant: the timer that is set is left alone.
UpdateExpirationTimerLeft(s) ==
    LET next == {i \in 1 .. Len(s.slots) : s.slots[i].used /\ s.slots[i].action = "none"}
        min == IF next = {} THEN 0 ELSE First(next)
    IN  IF s.refresh # 0 \/ min = 0 THEN s
        ELSE [s EXCEPT !.refresh = min, !.at = [slot |-> min, left |-> s.slots[min].expires]]

\* update_expiration_timer
UpdateExpirationTimer(s) ==
    LET idle(e) == e.used /\ e.action = "none"
        due[i \in 0 .. Len(s.slots)] ==
            IF i = 0 THEN s
            ELSE LET v == due[i - 1]
                 IN  IF ~idle(v.slots[i]) \/ v.slots[i].expires > 0 THEN v
                     ELSE UpdateMapping([v EXCEPT !.slots[i].action = "add",
                                                  !.refresh = IF @ = i THEN 0 ELSE @], i)
        next == {i \in 1 .. Len(s.slots) : idle(s.slots[i]) /\ s.slots[i].expires \in 1 .. Lease}
        soonest == {i \in next : \A j \in next : s.slots[i].expires <= s.slots[j].expires}
        min == IF next = {} THEN 0 ELSE First(soonest)
        u == due[Len(s.slots)]
    IN  IF u.refresh = min \/ min = 0 THEN u
        ELSE [u EXCEPT !.refresh = min, !.at = [slot |-> min, left |-> s.slots[min].expires]]

-----------------------------------------------------------------------------
(* What happens. *)

Init ==
    /\ slots = <<>> /\ current = 0 /\ retry_count = 0 /\ send_timer = 0
    /\ refresh = 0 /\ refresh_at = [slot |-> 0, left |-> 0]
    /\ abort = FALSE
    /\ net \in {{}, {[to |-> "us", port |-> NoPort, add |-> TRUE]}}   \* rebind asks for the address
    /\ router = {} /\ endless = FALSE /\ fate = {} /\ calls = 0

Call == calls < MaxCalls /\ calls' = calls + 1 /\ ~abort /\ ~endless /\ UNCHANGED router

\* add_mapping; in a free slot its action is left as it was, then set.
AddMapping(port) ==
    /\ Call
    /\ \A i \in 1 .. Len(slots) : slots[i].used => slots[i].port # port
    /\ LET free == {i \in 1 .. Len(slots) : ~slots[i].used}
           i == IF free = {} THEN Len(slots) + 1 ELSE First(free)
           l == IF free = {} THEN Append(slots, FreeSlot) ELSE slots
       IN  /\ i <= MaxSlots
           /\ Become(UpdateMapping([Now EXCEPT !.slots = [l EXCEPT ![i].used = TRUE,
                                        ![i].port = port, ![i].action = "add"]], i))

\* delete_mapping
DeleteMapping(i) ==
    /\ Call /\ slots[i].used
    /\ Become(IF ~slots[i].sent THEN [Now EXCEPT !.slots[i].action = "none", !.slots[i].used = FALSE]
              ELSE UpdateMapping([Now EXCEPT !.slots[i].action = "delete"], i))

\* resend_request, when the timer fires.
ResendRequest ==
    /\ send_timer # 0 /\ ~endless
    /\ LET i == send_timer
           s == [Now EXCEPT !.send = 0]
       IN  Become(IF current # i THEN s
                  ELSE IF retry_count >= MaxRetries
                  THEN TryNextMapping([s EXCEPT !.current = 0, !.slots[i].action = "none",
                                                !.slots[i].expires = GivenUp, !.slots[i].granted = FALSE], i)
                  ELSE SendMapRequest(s, i))
    /\ UNCHANGED <<router, calls>>

\* The slot a reply is for.
SlotOf(port) == {i \in 1 .. Len(slots) : slots[i].used /\ slots[i].port = port /\ slots[i].outstanding}

\* on_reply.  Any reply of the router stops the timer for sending again, even
\* the one with the external address or one nobody waits for.
OnReply(m, granted, failed) ==
    LET s == [Now EXCEPT !.net = @ \ {m}, !.send = 0]
        i == First(SlotOf(m.port))
        e == [s.slots[i] EXCEPT !.outstanding = FALSE, !.action = "none",
                                !.used = m.add /\ granted, !.granted = m.add /\ granted /\ ~failed,
                                !.expires = IF failed THEN GivenUp ELSE IF m.add /\ granted THEN Lease ELSE @]
    IN  /\ m \in net /\ m.to = "us" /\ ~endless /\ ~abort
        /\ Become(IF m.port = NoPort \/ SlotOf(m.port) = {} THEN [s EXCEPT !.fate = @ \cup {"stopped"}]
                  ELSE TryNextMapping(
                           UpdateExpirationTimer([s EXCEPT !.slots[i] = e, !.current = 0]), i))
        /\ UNCHANGED <<router, calls>>

\* mapping_expired
MappingExpired ==
    /\ refresh_at.slot # 0 /\ refresh_at.left = 0 /\ ~endless
    /\ LET i == refresh_at.slot
       IN  Become(UpdateMapping([Now EXCEPT !.at = [slot |-> 0, left |-> 0], !.slots[i].action = "add",
                                            !.refresh = IF @ = i THEN 0 ELSE @], i))
    /\ UNCHANGED <<router, calls>>

\* close: each mapping in use is deleted, without waiting for the replies.
Close ==
    /\ ~abort /\ ~endless
    /\ Become([Now EXCEPT !.abort = TRUE, !.current = 0, !.send = 0, !.at = [slot |-> 0, left |-> 0],
                          !.net = @ \cup {[to |-> "router", port |-> slots[i].port, add |-> FALSE] :
                                          i \in {k \in 1 .. Len(slots) : slots[k].used}},
                          !.slots = [i \in 1 .. Len(slots) |-> [slots[i] EXCEPT !.action = "none"]]])
    /\ UNCHANGED <<router, calls>>

\* The router (external) maps what it is asked to and answers; datagrams are lost.
Router(m) ==
    /\ m \in net /\ m.to = "router"
    /\ net' = (net \ {m}) \cup {[m EXCEPT !.to = "us"]}
    /\ router' = IF m.add THEN router \cup {m.port} ELSE router \ {m.port}
    /\ UNCHANGED <<slots, current, retry_count, send_timer, refresh, refresh_at, abort, endless, fate, calls>>

Lose(m) ==
    /\ m \in net /\ net' = net \ {m}
    /\ fate' = IF current # 0 /\ m.port = slots[current].port THEN fate \cup {"lost"} ELSE fate
    /\ UNCHANGED <<slots, current, retry_count, send_timer, refresh, refresh_at, abort, router, endless, calls>>

Less(t) == IF t = 0 THEN 0 ELSE t - 1
Tick ==
    /\ refresh_at.slot # 0 => refresh_at.left > 0
    /\ \E i \in 1 .. Len(slots) : slots[i].expires > 0
    /\ Become([Now EXCEPT !.at.left = Less(@),
                          !.slots = [i \in 1 .. Len(slots) |-> [slots[i] EXCEPT !.expires = Less(@)]]])
    /\ UNCHANGED <<router, calls>>

Next ==
    \/ \E port \in Ports : AddMapping(port)
    \/ \E i \in 1 .. Len(slots) : DeleteMapping(i)
    \/ ResendRequest \/ MappingExpired \/ Tick
    \/ \E m \in net, granted, failed \in BOOLEAN : OnReply(m, granted, failed)
    \/ Close
    \/ \E m \in net : Router(m) \/ Lose(m)

Spec == Init /\ [][Next]_vars

-----------------------------------------------------------------------------
(* Properties. *)

\* A datagram of the request under way, or of its reply, that is on its way.
Travels == \E m \in net : m.port = slots[current].port

\* No mapping is left to wait for nobody (unless the client is closed, or runs in
\* circles).  A slot with something to do waits only while a request is under way,
\* for a slot that still has something to do, and that request is sent again if it
\* is not answered; but for one that lost its timer to another datagram of the
\* router (on_reply), whose answer is on its way or lost.  And unless a request is
\* under way or one was given up after MaxRetries, what the router granted is
\* refreshed: the timer is set for no later than it expires.
PortsAreServed ==
    ~abort /\ ~endless =>
        /\ current = 0 => \A i \in 1 .. Len(slots) : ~Ready(slots[i])
        /\ current # 0 => /\ Ready(slots[current])
                          /\ \/ send_timer = current
                             \/ "stopped" \in fate /\ (Travels \/ "lost" \in fate)
        /\ current = 0 /\ (\A i \in 1 .. Len(slots) : ~slots[i].outstanding) =>
              \A i \in 1 .. Len(slots) : slots[i].used /\ slots[i].action = "none" /\ slots[i].granted
                 => refresh_at.slot = refresh /\ refresh # 0 /\ refresh_at.left <= slots[i].expires
=============================================================================
