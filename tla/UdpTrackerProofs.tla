-------------------------- MODULE UdpTrackerProofs --------------------------
(***************************************************************************)
(* A response is reported only for the request it answers, and a requester *)
(* is called once, for any number of requests, addresses and restarts.     *)
(***************************************************************************)
EXTENDS UdpTracker, TLAPS

\* The fields of a connection the argument is about, without the bounds TypeOK
\* puts on the others.
Con == [life : {"new", "listed", "closed"}, lookup : BOOLEAN, timer : BOOLEAN,
        abort : BOOLEAN, endpoints : SUBSET Endpoint, target : Endpoint \cup {None},
        state : {"error", "connect", "announce"}, tid : (Request \X Nat) \cup {None},
        tids : Nat, posted : Nat, calls : Nat, answered : BOOLEAN]

\* A transaction id that r has drawn.
Drawn(r, t) == \E n \in Nat : t = <<r, n>>

\* A connection holds only ids of its own, and one whenever a response to it
\* may be accepted.
OwnTid(r, c) ==
    /\ c.tid = None \/ Drawn(r, c.tid)
    /\ c.state # "error" /\ ~c.abort => Drawn(r, c.tid)

Good(r, c) == c \in Con /\ OwnTid(r, c)

\* Announce responses on their way are of transactions a tracker has taken.
ResponsesAnnounced ==
    \A x \in net : x.to = "us" /\ x.op = "announce" => x.tid \in announced

TidInv ==
    /\ con = [r \in Request |-> con[r]]
    /\ \A r \in Request : Good(r, con[r])
    /\ ResponsesAnnounced
    /\ AnsweredWasAnnounced

-----------------------------------------------------------------------------
\* Whether a connection is good depends on three of its fields.
LEMMA SameTransaction ==
    ASSUME NEW r, NEW c, Good(r, c), NEW d \in Con, d.tid = c.tid,
           d.state = c.state, c.abort => d.abort
    PROVE  Good(r, d)
  BY DEF Good, OwnTid

\* Closing a connection leaves its transaction alone.
LEMMA ClosedGood ==
    ASSUME NEW r, NEW c, Good(r, c)
    PROVE  Good(r, Closed(c)) /\ Closed(c).answered = c.answered
  BY DEF Good, Con, OwnTid, Drawn, Closed

\* fail() leaves the transaction of a connection alone, and reports no response.
LEMMA FailedGood ==
    ASSUME NEW r, NEW c, Good(r, c), NEW f \in Failed(c)
    PROVE  Good(r, f) /\ f.answered = c.answered
<1> DEFINE left == c.endpoints \ {c.target}
<1>1. CASE left = {}
  <2> DEFINE d == [c EXCEPT !.endpoints = {}, !.calls = @ + 1]
  <2>0. c \in Con /\ c.calls + 1 \in Nat
    BY DEF Good, Con
  <2>1. /\ d \in Con /\ d.tid = c.tid /\ d.state = c.state /\ d.abort = c.abort
        /\ d.answered = c.answered
    BY <2>0 DEF Con
  <2>2. f = Closed(d)
    BY <1>1 DEF Failed
  <2> HIDE DEF d
  <2> QED BY <2>1, <2>2, SameTransaction, ClosedGood
<1>2. CASE left # {}
  <2>1. PICK e \in left : f = [c EXCEPT !.endpoints = left, !.target = e, !.posted = @ + 1]
    BY <1>2 DEF Failed
  <2>2. c \in Con /\ left \in SUBSET Endpoint /\ e \in Endpoint /\ c.posted + 1 \in Nat
    BY DEF Good, Con
  <2>3. /\ f \in Con /\ f.tid = c.tid /\ f.state = c.state /\ f.abort = c.abort
        /\ f.answered = c.answered
    <3> HIDE DEF left
    <3> QED BY <2>1, <2>2 DEF Con
  <2> QED BY <2>3, SameTransaction
<1> QED BY <1>1, <1>2

\* What a step does to the connection of r only.
Only(r, c) == con' = [con EXCEPT ![r] = c]

\* A step that leaves the other connections, what the trackers have taken and
\* the packets to us alone keeps the invariant, if it reports no response.
LEMMA OneConnection ==
    ASSUME TidInv, NEW r \in Request, NEW c, Good(r, c), c.answered = con[r].answered,
           Only(r, c), announced' = announced,
           \A x \in net' : x \in net \/ x.to = "tracker"
    PROVE  TidInv'
<1>1. (con = [s \in Request |-> con[s]])'
  BY DEF TidInv, Only
<1>2. \A s \in Request : con'[s] = IF s = r THEN c ELSE con[s]
  BY DEF TidInv, Only
<1>3. \A s \in Request : Good(s, con'[s])
  BY <1>2 DEF TidInv
<1>4. ResponsesAnnounced'
  BY DEF TidInv, ResponsesAnnounced
<1>5. AnsweredWasAnnounced'
  BY <1>2 DEF TidInv, AnsweredWasAnnounced
<1> QED BY <1>1, <1>3, <1>4, <1>5 DEF TidInv, Good, OwnTid

\* Sending keeps the invariant: a packet that goes out carries an id of r.  The
\* second case is a connection whose id was reset by on_connect_response.
LEMMA TransmitKeeps ==
    ASSUME TidInv, NEW r \in Request, NEW c \in Con, NEW op \in {"connect", "announce"}, NEW id,
           c.tid = None \/ Drawn(r, c.tid), Good(r, c) \/ ~c.abort,
           c.answered = con[r].answered, Transmit(r, c, op, id), announced' = announced
    PROVE  TidInv'
<1> DEFINE fresh == c.tid = None
           sent == [c EXCEPT !.state = op,
                             !.tid = IF fresh THEN <<r, c.tids + 1>> ELSE @,
                             !.tids = IF fresh THEN @ + 1 ELSE @]
           packet == [to |-> "tracker", ep |-> c.target, op |-> op, id |-> id, tid |-> sent.tid]
<1>1. CASE c.abort
  <2>1. Only(r, c) /\ net' = net
    BY <1>1 DEF Transmit, Only
  <2> QED BY <1>1, <2>1, OneConnection
<1>2. CASE ~c.abort
  <2>1. c.tids \in Nat /\ c.tids + 1 \in Nat
    BY DEF Con
  <2>2. Drawn(r, sent.tid)
    <3>1. sent.tid = IF fresh THEN <<r, c.tids + 1>> ELSE c.tid
      BY DEF Con
    <3> QED BY <2>1, <3>1 DEF Drawn
  <2>3. sent \in Con /\ sent.answered = c.answered
    BY <2>1 DEF Con
  <2>4. Good(r, sent)
    BY <2>2, <2>3 DEF Good, OwnTid
  <2> HIDE DEF sent
  <2>5. CASE Only(r, sent) /\ net' = net \cup {packet}
    <3>1. \A x \in net' : x \in net \/ x.to = "tracker"
      BY <2>5
    <3> QED BY <2>3, <2>4, <2>5, <3>1, OneConnection
  <2>6. CASE (\E failed \in Failed(sent) : Only(r, failed)) /\ net' = net
    <3>1. PICK failed \in Failed(sent) : Only(r, failed)
      BY <2>6
    <3>2. Good(r, failed) /\ failed.answered = sent.answered
      BY <2>4, FailedGood
    <3> QED BY <2>3, <2>6, <3>1, <3>2, OneConnection
  <2> QED BY <1>2, <2>5, <2>6 DEF Transmit, Only, sent
<1> QED BY <1>1, <1>2

\* start_announce keeps the invariant, whatever the cache holds.
LEMMA StartAnnounceKeeps ==
    ASSUME TidInv, NEW r \in Request, NEW c, Good(r, c), c.answered = con[r].answered,
           StartAnnounce(r, c), announced' = announced
    PROVE  TidInv'
<1>1. c \in Con /\ (c.tid = None \/ Drawn(r, c.tid))
  BY DEF Good, OwnTid
<1>2. \E op \in {"connect", "announce"}, id \in {None, cache[c.target]} : Transmit(r, c, op, id)
  BY DEF StartAnnounce, SendUdpConnect, SendUdpAnnounce
<1> QED BY <1>1, <1>2, TransmitKeeps

-----------------------------------------------------------------------------
\* The invariant holds at first.
LEMMA TidInit == Init => TidInv
  BY DEF Init, TidInv, Good, Con, OwnTid, ResponsesAnnounced, AnsweredWasAnnounced

\* Every step keeps it.
LEMMA TidStep == TidInv /\ [Next]_vars => TidInv'
<1> SUFFICES ASSUME TidInv, [Next]_vars PROVE TidInv'
  OBVIOUS
<1>0. \A r \in Request : Good(r, con[r]) /\ con[r] \in Con
  BY DEF TidInv, Good
<1>1. ASSUME NEW r \in Request, QueueRequest(r) PROVE TidInv'
  <2> DEFINE c == [con[r] EXCEPT !.life = "listed", !.lookup = TRUE, !.timer = TRUE]
  <2>1. Good(r, c) /\ c.answered = con[r].answered
    BY <1>0 DEF Good, Con, OwnTid, Drawn
  <2>2. Only(r, c) /\ UNCHANGED <<net, announced>>
    BY <1>1 DEF QueueRequest, Only, TidInv
  <2> QED BY <2>1, <2>2, OneConnection
<1>2. ASSUME NEW r \in Request, NameLookup(r) PROVE TidInv'
  <2> DEFINE c == [con[r] EXCEPT !.lookup = FALSE]
  <2>1. Good(r, c) /\ c.answered = con[r].answered /\ announced' = announced
    BY <1>0, <1>2, ZenonT(60) DEF Good, Con, OwnTid, Drawn, NameLookup
  <2>2. CASE Only(r, c) /\ UNCHANGED net
    BY <2>1, <2>2, OneConnection
  <2>3. CASE (\E failed \in Failed(c) : Only(r, failed)) /\ UNCHANGED net
    BY <2>1, <2>3, FailedGood, OneConnection
  <2>4. ASSUME NEW eps \in SUBSET Endpoint, NEW e \in eps,
               StartAnnounce(r, [c EXCEPT !.endpoints = eps, !.target = e])
        PROVE  TidInv'
    <3> DEFINE d == [c EXCEPT !.endpoints = eps, !.target = e]
    <3>1. d \in Con /\ d.tid = c.tid /\ d.state = c.state /\ d.abort = c.abort
          /\ d.answered = c.answered
      BY <2>1 DEF Good, Con
    <3> QED BY <2>1, <2>4, <3>1, SameTransaction, StartAnnounceKeeps
  <2> QED BY <1>2, <2>2, <2>3, <2>4 DEF NameLookup, Only
<1>3. ASSUME NEW r \in Request, RunPosted(r) PROVE TidInv'
  <2> DEFINE c == [con[r] EXCEPT !.posted = @ - 1]
  <2>1. Good(r, c) /\ c.answered = con[r].answered
    BY <1>0, <1>3 DEF Good, Con, OwnTid, Drawn, RunPosted
  <2> QED BY <1>3, <2>1, StartAnnounceKeeps DEF RunPosted
<1>4. ASSUME NEW r \in Request, TimeoutCallback(r) PROVE TidInv'
  <2> DEFINE c == [[con[r] EXCEPT !.timer = FALSE] EXCEPT !.abort = TRUE]
  <2>1. Good(r, c) /\ c.answered = con[r].answered
    BY <1>0 DEF Good, Con, OwnTid, Drawn
  <2>2. (\E failed \in Failed(c) : Only(r, failed)) /\ UNCHANGED <<net, announced>>
    BY <1>4 DEF TimeoutCallback, TimedOut, Only
  <2> HIDE DEF c
  <2> QED BY <2>1, <2>2, FailedGood, OneConnection
<1>5. ASSUME NEW r \in Request, OnReceive(r) PROVE TidInv'
  <2>1. PICK packet \in {x \in net : x.to = "us"} :
          /\ Accepts(con[r], packet)
          /\ \/ packet.op = "connect" /\ OnConnectResponse(r, packet.ep, packet.id)
             \/ packet.op = "announce" /\ OnAnnounceResponse(r)
             \/ /\ packet.op \in {"error", "bad"}
                /\ \E failed \in Failed(con[r]) : con' = [con EXCEPT ![r] = failed]
                /\ UNCHANGED <<cache, expired, net>>
          /\ announced' = announced
    BY <1>5 DEF OnReceive
  <2>2. CASE packet.op = "connect" /\ OnConnectResponse(r, packet.ep, packet.id)
    <3> DEFINE c == [con[r] EXCEPT !.tid = None]
    <3>1. c \in Con /\ c.tid = None /\ ~c.abort /\ c.answered = con[r].answered
      BY <1>0, <2>1 DEF Con, Accepts
    <3>2. Transmit(r, c, "announce", packet.id)
      BY <2>2 DEF OnConnectResponse, SendUdpAnnounce
    <3> QED BY <2>1, <3>1, <3>2, TransmitKeeps
  <2>3. CASE packet.op = "announce" /\ OnAnnounceResponse(r)
    <3> DEFINE d == [con[r] EXCEPT !.calls = @ + 1, !.answered = TRUE]
    <3>0. con[r] \in Con /\ con[r].calls + 1 \in Nat
      BY <1>0 DEF Con
    <3>1. d \in Con /\ d.tid = con[r].tid /\ d.state = con[r].state /\ d.abort = con[r].abort
      BY <3>0 DEF Con
    <3>2. con' = [con EXCEPT ![r] = Closed(d)] /\ net' = net
      BY <2>3 DEF OnAnnounceResponse
    <3> HIDE DEF d
    <3>3. \A s \in Request : con'[s] = IF s = r THEN Closed(d) ELSE con[s]
      BY <3>2 DEF TidInv
    <3>4. (con = [s \in Request |-> con[s]])'
      BY <3>2 DEF TidInv
    <3>5. \A s \in Request : Good(s, con'[s])
      BY <1>0, <3>1, <3>3, SameTransaction, ClosedGood
    <3>6. ResponsesAnnounced'
      BY <2>1, <3>2 DEF TidInv, ResponsesAnnounced
    <3>7. Drawn(r, packet.tid) /\ packet.tid \in announced
      BY <1>0, <2>1, <2>3 DEF Good, OwnTid, Accepts, TidInv, ResponsesAnnounced
    <3>8. packet.tid[1] = r
      BY <3>7 DEF Drawn
    <3>9. AnsweredWasAnnounced'
      BY <2>1, <3>3, <3>7, <3>8 DEF TidInv, AnsweredWasAnnounced
    <3> QED BY <3>4, <3>5, <3>6, <3>9 DEF TidInv, Good, OwnTid
  <2>4. CASE (\E failed \in Failed(con[r]) : Only(r, failed)) /\ UNCHANGED net
    BY <1>0, <2>1, <2>4, FailedGood, OneConnection
  <2> QED BY <2>1, <2>2, <2>3, <2>4 DEF Only
<1>6. ASSUME NEW e \in Endpoint, OnReceiveError(e) PROVE TidInv'
  <2> DEFINE hit == {r \in Request : /\ con[r].life = "listed" /\ con[r].state # "error"
                                     /\ ~con[r].abort /\ con[r].target = e}
  <2>1. PICK f : /\ \A r \in hit : f[r] \in Failed(con[r])
                 /\ con' = [r \in Request |-> IF r \in hit THEN f[r] ELSE con[r]]
    BY <1>6 DEF OnReceiveError
  <2>2. \A r \in Request : Good(r, con'[r]) /\ con'[r].answered = con[r].answered
    BY <1>0, <2>1, FailedGood
  <2>3. (con = [r \in Request |-> con[r]])'
    BY <2>1
  <2>4. UNCHANGED <<net, announced>>
    BY <1>6 DEF OnReceiveError
  <2> QED BY <2>2, <2>3, <2>4 DEF TidInv, Good, OwnTid, ResponsesAnnounced, AnsweredWasAnnounced
<1>7. ASSUME AbortAllRequests PROVE TidInv'
  <2>1. con' = [r \in Request |-> IF con[r].life = "listed" /\ r \notin Stopped
                                  THEN Closed(con[r]) ELSE con[r]]
    BY <1>7 DEF AbortAllRequests
  <2>2. \A r \in Request : Good(r, con'[r]) /\ con'[r].answered = con[r].answered
    BY <1>0, <2>1, ClosedGood
  <2>3. (con = [r \in Request |-> con[r]])'
    BY <2>1
  <2>4. UNCHANGED <<net, announced>>
    BY <1>7 DEF AbortAllRequests
  <2> QED BY <2>2, <2>3, <2>4 DEF TidInv, Good, OwnTid, ResponsesAnnounced, AnsweredWasAnnounced
<1>8. ASSUME NEW e \in Endpoint, TrackerAnswers(e) PROVE TidInv'
  <2>1. con' = con
    BY <1>8 DEF TrackerAnswers, ourVars
  <2>2. announced \subseteq announced'
    BY <1>8 DEF TrackerAnswers
  <2>3. ResponsesAnnounced'
    BY <1>8 DEF TrackerAnswers, TidInv, ResponsesAnnounced
  <2>4. AnsweredWasAnnounced'
    BY <2>1, <2>2 DEF TidInv, AnsweredWasAnnounced
  <2> QED BY <2>1, <2>3, <2>4 DEF TidInv, Good, OwnTid
<1>9. CASE UNCHANGED <<con, net, announced>>
  BY <1>9 DEF TidInv, Good, OwnTid, ResponsesAnnounced, AnsweredWasAnnounced
<1> QED
  BY <1>1, <1>2, <1>3, <1>4, <1>5, <1>6, <1>7, <1>8, <1>9
     DEF Next, RequestStep, TokenExpires, TrackerRestarts, vars, ourVars

\* A response is reported to a requester only if a tracker has taken an announce
\* of that request: on_receive compares the transaction id, a connection holds
\* only ids it has drawn, and it holds one whenever it accepts anything.
THEOREM AnswersAreOwn == Spec => []AnsweredWasAnnounced
<1>1. TidInv => AnsweredWasAnnounced
  BY DEF TidInv
<1> QED BY <1>1, TidInit, TidStep, PTL DEF Spec

-----------------------------------------------------------------------------
\* Nothing has been sent and no address is known before the lookup is over.
Early(c) ==
    c.life = "new" \/ c.lookup => c.endpoints = {} /\ c.posted = 0 /\ c.state = "error"

\* A requester that has heard of its request hears no more: the connection is
\* closed, its timer is off, and a lookup that is still going on is ignored.
Once(c) ==
    /\ c.timer => c.life = "listed"
    /\ c.calls \in {0, 1}
    /\ c.calls = 1 => c.life = "closed" /\ (c.lookup => c.abort)
    /\ Early(c)

OnceInv == TidInv /\ \A r \in Request : Once(con[r])

\* fail() calls the requester of a connection at most once, if it has not been
\* called and a lookup that is still going on will be ignored.
LEMMA FailedOnce ==
    ASSUME NEW c \in Con, Once(c), c.calls = 0, c.lookup => c.abort, NEW f \in Failed(c)
    PROVE  Once(f)
<1> DEFINE left == c.endpoints \ {c.target}
<1>1. CASE left = {}
  <2>1. f = Closed([c EXCEPT !.endpoints = {}, !.calls = @ + 1])
    BY <1>1 DEF Failed
  <2>2. /\ f.life = "closed" /\ f.timer = FALSE /\ f.calls = 1 /\ f.lookup = c.lookup
        /\ f.abort = c.abort /\ f.endpoints = {} /\ f.posted = c.posted /\ f.state = c.state
    BY <2>1 DEF Closed, Con
  <2> QED BY <2>2 DEF Once, Early
<1>2. CASE left # {}
  <2>1. PICK e \in left : f = [c EXCEPT !.endpoints = left, !.target = e, !.posted = @ + 1]
    BY <1>2 DEF Failed
  <2>2. /\ f.life = c.life /\ f.timer = c.timer /\ f.calls = c.calls /\ f.lookup = c.lookup
        /\ f.abort = c.abort
    BY <2>1 DEF Con
  <2>3. c.life # "new" /\ ~c.lookup
    BY <1>2 DEF Once, Early
  <2> QED BY <2>2, <2>3 DEF Once, Early
<1> QED BY <1>1, <1>2

\* close() calls nobody.
LEMMA ClosedOnce ==
    ASSUME NEW c \in Con, Once(c)
    PROVE  Once(Closed(c))
<1>1. /\ Closed(c).life = "closed" /\ Closed(c).timer = FALSE /\ Closed(c).calls = c.calls
      /\ Closed(c).lookup = c.lookup /\ Closed(c).abort = c.abort
      /\ Closed(c).endpoints = c.endpoints /\ Closed(c).posted = c.posted
      /\ Closed(c).state = c.state
  BY DEF Closed, Con
<1> QED BY <1>1 DEF Once, Early

\* A step that changes the connection of r only, and keeps that one right.
LEMMA OnlyOnce ==
    ASSUME OnceInv, NEW r \in Request, NEW c, Once(c), Only(r, c)
    PROVE  \A s \in Request : Once(con'[s])
  BY DEF OnceInv, TidInv, Only

\* Sending does not call the requester, if it does not fail.
LEMMA TransmitOnce ==
    ASSUME OnceInv, ~SendErrors, NEW r \in Request, NEW c \in Con, Once(c),
           c.life # "new" /\ ~c.lookup,
           NEW op \in {"connect", "announce"}, NEW id, Transmit(r, c, op, id)
    PROVE  \A s \in Request : Once(con'[s])
<1> DEFINE fresh == c.tid = None
           sent == [c EXCEPT !.state = op,
                             !.tid = IF fresh THEN <<r, c.tids + 1>> ELSE @,
                             !.tids = IF fresh THEN @ + 1 ELSE @]
<1>1. CASE c.abort
  BY <1>1, OnlyOnce DEF Transmit, Only
<1>2. CASE ~c.abort
  <2>1. Only(r, sent)
    BY <1>2 DEF Transmit, Only
  <2>2. /\ sent.life = c.life /\ sent.timer = c.timer /\ sent.calls = c.calls
        /\ sent.lookup = c.lookup /\ sent.abort = c.abort
    BY DEF Con
  <2> HIDE DEF sent
  <2>3. Once(sent)
    BY <2>2 DEF Once, Early
  <2> QED BY <2>1, <2>3, OnlyOnce
<1> QED BY <1>1, <1>2

\* Nor does start_announce.
LEMMA StartAnnounceOnce ==
    ASSUME OnceInv, ~SendErrors, NEW r \in Request, NEW c \in Con, Once(c),
           c.life # "new" /\ ~c.lookup, StartAnnounce(r, c)
    PROVE  \A s \in Request : Once(con'[s])
<1>1. \E op \in {"connect", "announce"}, id \in {None, cache[c.target]} : Transmit(r, c, op, id)
  BY DEF StartAnnounce, SendUdpConnect, SendUdpAnnounce
<1> QED BY <1>1, TransmitOnce

\* Every step keeps the invariant.
LEMMA OnceStep == ~SendErrors /\ OnceInv /\ [Next]_vars => OnceInv'
<1> SUFFICES ASSUME ~SendErrors, OnceInv, [Next]_vars
             PROVE  \A r \in Request : Once(con'[r])
  BY TidStep DEF OnceInv, Once, Early
<1>0. \A r \in Request : con[r] \in Con /\ Once(con[r])
  BY DEF OnceInv, TidInv, Good
<1>1. ASSUME NEW r \in Request, QueueRequest(r) PROVE \A s \in Request : Once(con'[s])
  <2> DEFINE c == [con[r] EXCEPT !.life = "listed", !.lookup = TRUE, !.timer = TRUE]
  <2>1. Only(r, c)
    BY <1>1 DEF QueueRequest, Only, OnceInv, TidInv
  <2>2. /\ c.life = "listed" /\ c.calls = con[r].calls /\ c.endpoints = con[r].endpoints
        /\ c.posted = con[r].posted /\ c.state = con[r].state
    BY <1>0 DEF Con
  <2>3. con[r].life = "new"
    BY <1>1 DEF QueueRequest
  <2> HIDE DEF c
  <2>4. Once(c)
    BY <1>0, <2>2, <2>3 DEF Once, Early
  <2> QED BY <2>1, <2>4, OnlyOnce
<1>2. ASSUME NEW r \in Request, NameLookup(r) PROVE \A s \in Request : Once(con'[s])
  <2> DEFINE c == [con[r] EXCEPT !.lookup = FALSE]
  <2>1. /\ c \in Con /\ c.life = con[r].life /\ c.timer = con[r].timer /\ c.calls = con[r].calls
        /\ ~c.lookup /\ c.abort = con[r].abort /\ c.endpoints = con[r].endpoints
        /\ c.posted = con[r].posted /\ c.state = con[r].state
    BY <1>0 DEF Con
  <2>2. Once(c)
    BY <1>0, <2>1 DEF Once, Early
  <2>3. con[r].lookup
    BY <1>2 DEF NameLookup
  <2>4. CASE Only(r, c)
    BY <2>2, <2>4, OnlyOnce
  <2>5. CASE ~c.abort /\ \E failed \in Failed(c) : Only(r, failed)
    <3>1. c.calls = 0
      BY <1>0, <2>1, <2>3, <2>5 DEF Once
    <3> QED BY <2>1, <2>2, <2>5, <3>1, FailedOnce, OnlyOnce
  <2>6. ASSUME c.life = "listed", NEW eps \in SUBSET Endpoint, NEW e \in eps,
               StartAnnounce(r, [c EXCEPT !.endpoints = eps, !.target = e])
        PROVE  \A s \in Request : Once(con'[s])
    <3> DEFINE d == [c EXCEPT !.endpoints = eps, !.target = e]
    <3>1. /\ d \in Con /\ d.life = c.life /\ d.timer = c.timer /\ d.calls = c.calls
          /\ d.lookup = c.lookup /\ d.abort = c.abort
      BY <2>1 DEF Con
    <3>2. StartAnnounce(r, d)
      BY <2>6
    <3> HIDE DEF c, d
    <3>3. Once(d)
      BY <2>1, <2>2, <2>6, <3>1 DEF Once, Early
    <3> QED BY <2>1, <2>6, <3>1, <3>2, <3>3, StartAnnounceOnce
  <2> QED BY <1>2, <2>4, <2>5, <2>6 DEF NameLookup, Only
<1>3. ASSUME NEW r \in Request, RunPosted(r) PROVE \A s \in Request : Once(con'[s])
  <2> DEFINE c == [con[r] EXCEPT !.posted = @ - 1]
  <2>1. con[r].posted > 0 /\ con[r].posted - 1 \in Nat /\ StartAnnounce(r, c)
    BY <1>0, <1>3 DEF RunPosted, Con
  <2>2. /\ c \in Con /\ c.life = con[r].life /\ c.timer = con[r].timer /\ c.calls = con[r].calls
        /\ c.lookup = con[r].lookup /\ c.abort = con[r].abort
    BY <1>0, <2>1 DEF Con
  <2> HIDE DEF c
  <2>3. con[r].life # "new" /\ ~con[r].lookup
    BY <1>0, <2>1 DEF Once, Early
  <2>4. Once(c)
    BY <1>0, <2>2, <2>3 DEF Once, Early
  <2> QED BY <2>1, <2>2, <2>3, <2>4, StartAnnounceOnce
<1>4. ASSUME NEW r \in Request, TimeoutCallback(r) PROVE \A s \in Request : Once(con'[s])
  <2> DEFINE c == [[con[r] EXCEPT !.timer = FALSE] EXCEPT !.abort = TRUE]
  <2>1. con[r].timer /\ \E failed \in Failed(c) : Only(r, failed)
    BY <1>4 DEF TimeoutCallback, TimedOut, Only
  <2>2. /\ c \in Con /\ c.life = con[r].life /\ ~c.timer /\ c.calls = con[r].calls
        /\ c.lookup = con[r].lookup /\ c.abort /\ c.endpoints = con[r].endpoints
        /\ c.posted = con[r].posted /\ c.state = con[r].state
    BY <1>0 DEF Con
  <2> HIDE DEF c
  <2>3. Once(c) /\ c.calls = 0
    BY <1>0, <2>1, <2>2 DEF Once, Early
  <2> QED BY <2>1, <2>2, <2>3, FailedOnce, OnlyOnce
<1>5. ASSUME NEW r \in Request, con[r].life = "listed", con[r].state # "error"
      PROVE  con[r].calls = 0 /\ ~con[r].lookup
  BY <1>0, <1>5 DEF Once, Early
<1>6. ASSUME NEW r \in Request, OnReceive(r) PROVE \A s \in Request : Once(con'[s])
  <2>1. PICK packet \in {x \in net : x.to = "us"} :
          /\ Accepts(con[r], packet)
          /\ \/ OnConnectResponse(r, packet.ep, packet.id)
             \/ OnAnnounceResponse(r)
             \/ \E failed \in Failed(con[r]) : con' = [con EXCEPT ![r] = failed]
    BY <1>6 DEF OnReceive
  <2>2. /\ con[r].life = "listed" /\ con[r].calls = 0 /\ ~con[r].lookup
    BY <1>5, <2>1 DEF Accepts
  <2>3. CASE OnConnectResponse(r, packet.ep, packet.id)
    <3> DEFINE c == [con[r] EXCEPT !.tid = None]
    <3>1. /\ c \in Con /\ c.life = con[r].life /\ c.timer = con[r].timer
          /\ c.calls = con[r].calls /\ c.lookup = con[r].lookup
      BY <1>0 DEF Con
    <3>2. Transmit(r, c, "announce", packet.id)
      BY <2>3 DEF OnConnectResponse, SendUdpAnnounce
    <3> HIDE DEF c
    <3>3. Once(c)
      BY <1>0, <2>2, <3>1 DEF Once, Early
    <3> QED BY <2>2, <3>1, <3>2, <3>3, TransmitOnce
  <2>4. CASE OnAnnounceResponse(r)
    <3> DEFINE d == [con[r] EXCEPT !.calls = @ + 1, !.answered = TRUE]
    <3>1. Only(r, Closed(d))
      BY <2>4 DEF OnAnnounceResponse, Only
    <3>2. /\ Closed(d).life = "closed" /\ Closed(d).timer = FALSE
          /\ Closed(d).calls = con[r].calls + 1 /\ Closed(d).lookup = con[r].lookup
      BY <1>0 DEF Con, Closed
    <3> HIDE DEF d
    <3>3. Once(Closed(d))
      BY <2>2, <3>2 DEF Once, Early
    <3> QED BY <3>1, <3>3, OnlyOnce
  <2>5. CASE \E failed \in Failed(con[r]) : Only(r, failed)
    BY <1>0, <2>2, <2>5, FailedOnce, OnlyOnce
  <2> QED BY <2>1, <2>3, <2>4, <2>5 DEF Only
<1>7. ASSUME NEW e \in Endpoint, OnReceiveError(e) PROVE \A s \in Request : Once(con'[s])
  <2> DEFINE hit == {r \in Request : /\ con[r].life = "listed" /\ con[r].state # "error"
                                     /\ ~con[r].abort /\ con[r].target = e}
  <2>1. PICK f : /\ \A r \in hit : f[r] \in Failed(con[r])
                 /\ con' = [r \in Request |-> IF r \in hit THEN f[r] ELSE con[r]]
    BY <1>7 DEF OnReceiveError
  <2>2. \A r \in hit : Once(f[r])
    BY <1>0, <1>5, <2>1, FailedOnce
  <2> QED BY <1>0, <2>1, <2>2
<1>8. ASSUME AbortAllRequests PROVE \A s \in Request : Once(con'[s])
  <2>1. con' = [r \in Request |-> IF con[r].life = "listed" /\ r \notin Stopped
                                  THEN Closed(con[r]) ELSE con[r]]
    BY <1>8 DEF AbortAllRequests
  <2> QED BY <1>0, <2>1, ClosedOnce
<1>9. CASE con' = con
  BY <1>0, <1>9
<1> QED
  BY <1>1, <1>2, <1>3, <1>4, <1>6, <1>7, <1>8, <1>9
     DEF Next, RequestStep, TokenExpires, TrackerAnswers, TrackerRestarts, vars, ourVars

\* The requester of a request hears of it at most once, whatever arrives late, if
\* sends do not fail at once: closing stops the timer, on_receive is only called
\* for connections in the list, and a lookup that ends later is ignored after a
\* timeout and the first to report after a shutdown.
THEOREM RequesterCalledOnce == ~SendErrors => (Spec => []CalledOnce)
<1> SUFFICES ASSUME ~SendErrors PROVE Spec => []CalledOnce
  OBVIOUS
<1>1. Init => OnceInv
  BY TidInit DEF Init, OnceInv, Once, Early
<1>2. OnceInv => CalledOnce
  BY DEF OnceInv, Once, CalledOnce
<1>3. OnceInv /\ [Next]_vars => OnceInv'
  BY OnceStep
<1> QED BY <1>1, <1>2, <1>3, PTL DEF Spec
=============================================================================
