------------------------------ MODULE PeerList ------------------------------
(***************************************************************************)
(* The list of peers a torrent knows (policy) and the connections to them *)
(* (torrent::attach_peer, connect_to_peer, remove_peer).  Trackers, other  *)
(* peers and resume data add peers; incoming connections find or make      *)
(* their entry; entries are erased when the list is full.  Counters and a  *)
(* round robin index over the list are kept by hand.                       *)
(*                                                                         *)
(* Abstracted: an endpoint is a pair of numbers; whether a peer was tried  *)
(* too recently is a choice; of the criteria by which peers are compared   *)
(* the first two or three are kept, the others break ties arbitrarily.     *)
(***************************************************************************)
EXTENDS Integers, SequencesExt

CONSTANTS
    Endpoints,          \* pairs of an address and a port, numbers
    Conns,              \* the connections there may be
    None,
    MaxPeerlistSize,    \* max_peerlist_size
    MaxFailcount,       \* max_failcount
    FailcountLimit,     \* 31, what the field of five bits holds
    MaxConnections      \* torrent::m_max_connections

VARIABLES
    list,    \* the policy: m_peers and what is counted over it
    conn,    \* the connections; None: not in use
    blocked  \* the addresses m_ip_filter blocks

vars == <<list, conn, blocked>>

\* How many of the two: 1 if b holds.
Count(b) == IF b THEN 1 ELSE 0

Addresses == {ep[1] : ep \in Endpoints}

\* policy::peer.  id stands for its address in memory; resumed: its only source
\* is resume data.
NewPeer(id, ep, connectable, src) ==
    [id |-> id, ep |-> ep, connection |-> None, banned |-> FALSE, connectable |-> connectable,
     seed |-> FALSE, failcount |-> 0, resumed |-> src = "resume_data"]

FreeId(s) == CHOOSE n \in 1 .. Len(s.peers) + 1 : \A i \in DOMAIN s.peers : s.peers[i].id # n
IdsOf(s) == {s.peers[i].id : i \in DOMAIN s.peers}
IndexOf(s, id) == CHOOSE i \in DOMAIN s.peers : s.peers[i].id = id
Known(s, id) == \E i \in DOMAIN s.peers : s.peers[i].id = id

IsConnectCandidate(s, p) ==
    /\ p.connection = None /\ ~p.banned /\ p.connectable
    /\ ~(p.seed /\ s.finished) /\ p.failcount < MaxFailcount

\* The peer at index i becomes p, and the count of candidates follows; counts
\* below zero are set to zero.
Changed(s, i, p) ==
    LET n == s.candidates - Count(IsConnectCandidate(s, s.peers[i])) + Count(IsConnectCandidate(s, p))
    IN  [s EXCEPT !.peers[i] = p, !.candidates = IF n < 0 THEN 0 ELSE n]

\* Mutant: the round robin index does not follow.
EraseAtStale(s, i) ==
    [s EXCEPT !.peers = RemoveAt(@, i),
              !.seeds = @ - Count(s.peers[i].seed),
              !.candidates = @ - Count(IsConnectCandidate(s, s.peers[i]))]

\* erase_peer.  The index m_round_robin counts from 0.
EraseAt(s, i) ==
    LET rr == IF s.round_robin > i - 1 THEN s.round_robin - 1 ELSE s.round_robin
    IN  [s EXCEPT !.peers = RemoveAt(@, i),
                  !.seeds = @ - Count(s.peers[i].seed),
                  !.candidates = @ - Count(IsConnectCandidate(s, s.peers[i])),
                  !.round_robin = IF rr >= Len(s.peers) THEN 0 ELSE rr]

IsEraseCandidate(s, p) ==
    /\ p.connection = None /\ ~IsConnectCandidate(s, p)
    /\ p.failcount > 0 \/ p.resumed

\* compare_peer_erase: l is to be erased before r.  Ties are decided by the
\* trust the peers have.
CompareErase(l, r) ==
    IF l.failcount # r.failcount THEN l.failcount > r.failcount
    ELSE IF l.resumed # r.resumed THEN l.resumed
    ELSE ~l.connectable /\ r.connectable

\* compare_peer: l is to be connected before r.  Ties are decided by locality,
\* the time of the last attempt, source and distance.
ComparePeer(l, r) == l.failcount < r.failcount

\* An index, 0 for none, after the peer at index i was erased.
Shifted(k, i) == IF k > i THEN k - 1 ELSE k

\* Whether the peer at index i takes the place of the candidate at index k; of two
\* that are alike those in ahead come first.
Replaces(s, k, i, ahead, Compare(_, _)) ==
    k = 0 \/ LET l == s.peers[k]
                r == s.peers[i]
            IN  /\ ~Compare(l, r)
                /\ Compare(r, l) \/ l.id \notin ahead \/ r.id \in ahead

-----------------------------------------------------------------------------
(* Making room. *)

\* erase_peers, from a random place on; forced: entries that could be useful
\* are erased too.
ErasePeersFrom(s, start, ahead, forced) ==
    LET w == (MaxPeerlistSize * 95) \div 100
        low == IF w = MaxPeerlistSize THEN w - 1 ELSE w
        at(v) == IF v.k = Len(v.s.peers) + 1 THEN 1 ELSE v.k
        step(v) ==
            IF Len(v.s.peers) < low THEN v
            ELSE LET i == at(v)
                     p == v.s.peers[i]
                     worse == IsEraseCandidate(v.s, p) /\ Replaces(v.s, v.erase, i, ahead, CompareErase)
                 IN  IF worse /\ p.resumed
                     THEN [v EXCEPT !.s = EraseAt(v.s, i), !.k = i,
                                    !.erase = Shifted(@, i), !.force = Shifted(@, i)]
                     ELSE [v EXCEPT !.k = i + 1, !.erase = IF worse THEN i ELSE @,
                                    !.force = IF /\ p.connection = None
                                                 /\ Replaces(v.s, v.force, i, ahead, CompareErase)
                                              THEN i ELSE @]
        scan[n \in 0 .. Len(s.peers)] ==
            IF n = 0 THEN [s |-> s, k |-> start, erase |-> 0, force |-> 0] ELSE step(scan[n - 1])
        v == scan[Len(s.peers)]
    IN  IF v.erase # 0 THEN EraseAt(v.s, v.erase)
        ELSE IF forced /\ v.force # 0 THEN EraseAt(v.s, v.force) ELSE v.s

ErasePeers(s, forced) ==
    IF MaxPeerlistSize = 0 \/ s.peers = <<>> THEN {s}
    ELSE {ErasePeersFrom(s, start, ahead, forced) : start \in DOMAIN s.peers, ahead \in SUBSET IdsOf(s)}

\* lower_bound on the address, and the insertion.
InsertPeer(s, p) ==
    LET i == 1 + Cardinality({k \in DOMAIN s.peers : s.peers[k].ep[1] < p.ep[1]})
    IN  [s EXCEPT !.peers = InsertAt(@, i, p),
                  !.round_robin = IF @ >= i - 1 THEN @ + 1 ELSE @,
                  !.seeds = @ + Count(p.seed),
                  !.candidates = @ + Count(IsConnectCandidate(s, p))]

Matches(s, p, ep) == IF s.multiple THEN p.ep = ep ELSE p.ep[1] = ep[1]
Find(s, ep) == {i \in DOMAIN s.peers : Matches(s, s.peers[i], ep)}
Full(s) == Len(s.peers) >= MaxPeerlistSize

-----------------------------------------------------------------------------
(* Connections. *)

\* connection_closed, by remove_peer.  locked: the entry is m_locked_peer.
ConnectionClosed(s, c, failed, locked) ==
    IF ~\E i \in DOMAIN s.peers : s.peers[i].connection = c THEN s
    ELSE LET i == CHOOSE k \in DOMAIN s.peers : s.peers[k].connection = c
             p == [s.peers[i] EXCEPT !.connection = None,
                                     !.failcount = IF failed /\ @ < FailcountLimit THEN @ + 1 ELSE @]
             s1 == Changed(s, i, p)
         IN  IF s.multiple /\ ~p.connectable /\ ~locked THEN EraseAt(s1, i) ELSE s1
\* find_connect_candidate: the peer to connect to next, 0 if there is none.
\* recent are the peers that were tried too short a time ago.
FindConnectCandidate(s, recent, ahead) ==
    LET at(v) == IF v.s.round_robin >= Len(v.s.peers) THEN 1 ELSE v.s.round_robin + 1
        step(v) ==
            LET i == at(v)
                p == v.s.peers[i]
                room == MaxPeerlistSize = 0 \/ Len(v.s.peers) * 100 < MaxPeerlistSize * 95
                worse == ~room /\ IsEraseCandidate(v.s, p) /\ Replaces(v.s, v.erase, i, ahead, CompareErase)
                s1 == [v.s EXCEPT !.round_robin = i - 1]
            IN  IF worse /\ p.resumed
                THEN [s |-> EraseAt(s1, i), erase |-> Shifted(v.erase, i), best |-> Shifted(v.best, i)]
                ELSE [s |-> [s1 EXCEPT !.round_robin = i],
                      erase |-> IF worse THEN i ELSE v.erase,
                      best |-> IF /\ IsConnectCandidate(v.s, p) /\ p.id \notin recent
                                  /\ Replaces(v.s, v.best, i, ahead, ComparePeer)
                               THEN i ELSE v.best]
        scan[n \in 0 .. Len(s.peers)] ==
            IF n = 0 THEN [s |-> s, erase |-> 0, best |-> 0] ELSE step(scan[n - 1])
        v == scan[Len(s.peers)]
    IN  IF v.erase = 0 THEN <<v.s, v.best>> ELSE <<EraseAt(v.s, v.erase), Shifted(v.best, v.erase)>>

InUse == {c \in Conns : conn[c] # None}

\* torrent::remove_peer, for the connections in cs.
Removed(cn, cs) == [c \in Conns |-> IF c \in cs THEN None ELSE cn[c]]

\* want_more_peers, without the states in which the torrent does not connect.
WantMorePeers == Cardinality(InUse) < MaxConnections /\ list.candidates > 0

\* connect_one_peer: a peer that cannot be connected to.
Failed(p) == [p EXCEPT !.failcount = IF @ < FailcountLimit THEN @ + 1 ELSE @]

\* connect_one_peer and connect_to_peer: there may be no transport for the peer
\* (refused), or the connection may fail at once (closed).
ConnectOnePeer(c) ==
    /\ WantMorePeers /\ c \notin InUse
    /\ \E recent, ahead \in SUBSET IdsOf(list) :
         \E r \in {FindConnectCandidate(list, recent, ahead)} :
            LET s == r[1]
                i == r[2]
                p == s.peers[i]
                open == [p EXCEPT !.connection = c]
            IN  \/ i = 0 /\ list' = s /\ conn' = conn
                \/ i # 0 /\ list' = Changed(s, i, Failed(p)) /\ conn' = conn
                \/ i # 0 /\ list' = Changed(Changed(s, i, open), i, Failed(p)) /\ conn' = conn
                \/ i # 0 /\ list' = Changed(s, i, open)
                   /\ conn' = [conn EXCEPT ![c] = [ep |-> p.ep, outgoing |-> TRUE, connecting |-> TRUE,
                                                   info |-> p.id]]
    /\ UNCHANGED blocked

\* on_connect: the handshake can begin.
OnConnect(c) ==
    /\ c \in InUse /\ conn[c].connecting
    /\ conn' = [conn EXCEPT ![c].connecting = FALSE]
    /\ UNCHANGED <<list, blocked>>

\* peer_connection::disconnect and remove_peer.
Disconnect(c, failed) ==
    /\ c \in InUse
    /\ list' = ConnectionClosed(list, c, failed, FALSE)
    /\ conn' = Removed(conn, {c})
    /\ UNCHANGED blocked

\* new_connection: the incoming connection c finds the entry i of its address.
\* broken: the socket of the other connection has failed; lower: our endpoint
\* compares less than the peer's; self: both are ends of one connection.
NewConnectionKnown(s, cn, c, ep, i, broken, lower, self) ==
    LET p == s.peers[i]
        d == p.connection
        use(s1) == LET k == IndexOf(s1, p.id)
                       q == [s1.peers[k] EXCEPT !.connection = c]
                   IN  Changed(s1, k, q)
        in == [ep |-> ep, outgoing |-> FALSE, connecting |-> FALSE, info |-> p.id]
    IN  IF p.banned THEN <<s, cn>>
        ELSE IF d = None THEN <<use(s), [cn EXCEPT ![c] = in]>>
        ELSE IF self THEN <<ConnectionClosed(s, d, TRUE, FALSE), Removed(cn, {d})>>
        ELSE IF broken \/ (cn[d].outgoing /\ ~lower)
        THEN <<use(ConnectionClosed(s, d, FALSE, TRUE)), [Removed(cn, {d}) EXCEPT ![c] = in]>>
        ELSE <<s, cn>>

\* new_connection: the address is not known, and the list may be full.
NewConnectionUnknown(s, cn, c, ep) ==
    LET p(s1) == [NewPeer(FreeId(s1), ep, FALSE, "incoming") EXCEPT !.connection = c]
        in(s1) == [ep |-> ep, outgoing |-> FALSE, connecting |-> FALSE, info |-> FreeId(s1)]
        put(s1) == IF Full(s1) THEN <<s1, cn>>
                   ELSE <<InsertPeer(s1, p(s1)), [cn EXCEPT ![c] = in(s1)]>>
    IN  IF Full(s) THEN {put(s1) : s1 \in ErasePeers(s, TRUE)} ELSE {put(s)}

\* attach_peer: an incoming connection; a connection that is only connecting
\* makes room for it.
AttachPeer(c, ep) ==
    /\ c \notin InUse /\ ep[1] \notin blocked
    /\ LET connecting == {d \in InUse : conn[d].connecting}
           full == Cardinality(InUse) >= MaxConnections
           gone == IF full /\ connecting # {} THEN {{d} : d \in connecting} ELSE {{}}
       IN  /\ full => Cardinality(connecting) >= MaxConnections \div 10
           /\ \E ds \in gone :
                LET s == IF ds = {} THEN list
                         ELSE ConnectionClosed(list, CHOOSE d \in ds : TRUE, FALSE, FALSE)
                    cn == Removed(conn, ds)
                IN  \/ /\ Find(s, ep) # {}
                       /\ \E broken, lower, self \in BOOLEAN :
                            \E r \in {NewConnectionKnown(s, cn, c, ep, CHOOSE i \in Find(s, ep) : TRUE,
                                                         broken, lower, self)} :
                                list' = r[1] /\ conn' = r[2]
                    \/ /\ Find(s, ep) = {}
                       /\ \E r \in NewConnectionUnknown(s, cn, c, ep) : list' = r[1] /\ conn' = r[2]
    /\ UNCHANGED blocked

-----------------------------------------------------------------------------
(* What is learnt of peers. *)

\* insert_peer: room is made, but not by force, and not for resume data.
Insert(s, p) ==
    LET full == MaxPeerlistSize # 0 /\ Full(s)
        put(s1) == IF MaxPeerlistSize # 0 /\ Full(s1) THEN s1
                   ELSE InsertPeer(s1, [p EXCEPT !.id = FreeId(s1)])
    IN  IF ~full THEN {put(s)}
        ELSE IF p.resumed THEN {s}
        ELSE {put(s1) : s1 \in ErasePeers(s, FALSE)}

\* Mutant: the candidates are not counted again.
UpdatePeerUncounted(s, i, ep, src, seed) ==
    [s EXCEPT !.peers[i].connectable = TRUE, !.peers[i].ep = <<@[1], ep[2]>>, !.peers[i].resumed = @ /\ src = "resume_data"]

UpdatePeer(s, i, ep, src, seed) ==
    LET p == s.peers[i]
        q == [p EXCEPT !.connectable = TRUE, !.ep = <<@[1], ep[2]>>, !.resumed = @ /\ src = "resume_data",
                       !.failcount = IF @ > 0 /\ src = "tracker" THEN @ - 1 ELSE @,
                       !.seed = @ \/ (seed /\ p.connection = None)]
    IN  [Changed(s, i, q) EXCEPT !.seeds = @ + Count(q.seed /\ ~p.seed)]

\* add_peer: by a tracker, by peer exchange, which knows seeds, or resume data.
AddPeer(ep, src, seed) ==
    /\ ep[1] \notin blocked
    /\ seed => src = "pex"
    /\ \/ /\ Find(list, ep) # {}
          /\ list' = UpdatePeer(list, CHOOSE i \in Find(list, ep) : TRUE, ep, src, seed)
       \/ /\ Find(list, ep) = {}
          /\ list' \in Insert(list, [NewPeer(0, ep, TRUE, src) EXCEPT !.seed = seed])
    /\ UNCHANGED <<conn, blocked>>

\* update_peer_port: the peer says on which port it listens.  The port may be
\* that of another entry.
UpdatePeerPort(c, port) ==
    /\ c \in InUse
    /\ LET i == IndexOf(list, conn[c].info)
           p == list.peers[i]
           ep == <<p.ep[1], port>>   \* where it listens
           same == {k \in DOMAIN list.peers : list.peers[k].ep = ep}
           k == CHOOSE k \in same : TRUE
           heard(q) == [q EXCEPT !.connectable = TRUE, !.resumed = FALSE]
           at(s) == IndexOf(s, p.id)
           moved(s) == Changed(s, at(s), [heard(s.peers[at(s)]) EXCEPT !.ep = ep])
       IN  /\ p.ep[2] # port /\ ep \in Endpoints
           /\ IF ~list.multiple \/ same = {}
              THEN list' = moved(list) /\ conn' = conn
              ELSE IF list.peers[k].connection = None
              THEN list' = moved(EraseAt(list, k)) /\ conn' = conn
              ELSE /\ list' = EraseAt(Changed(list, k, heard(list.peers[k])), i)
                   /\ conn' = Removed(conn, {c})
    /\ UNCHANGED blocked

\* set_seed: the peer of a connection has, or no longer has, all pieces.
SetSeed(c, b) ==
    /\ c \in InUse
    /\ LET i == IndexOf(list, conn[c].info)
           p == list.peers[i]
       IN  /\ p.seed # b
           /\ list' = [Changed(list, i, [p EXCEPT !.seed = b]) EXCEPT !.seeds = @ + (IF b THEN 1 ELSE -1)]
    /\ UNCHANGED <<conn, blocked>>

\* ban_peer, by a failed piece or by smart_ban, which bans peers that are gone.
BanPeer(i) ==
    /\ i \in DOMAIN list.peers
    /\ list' = Changed(list, i, [list.peers[i] EXCEPT !.banned = TRUE])
    /\ UNCHANGED <<conn, blocked>>

\* set_failcount, when the handshake is complete.
ResetFailcount(c) ==
    /\ c \in InUse /\ ~conn[c].connecting
    /\ LET i == IndexOf(list, conn[c].info)
       IN  list' = Changed(list, i, [list.peers[i] EXCEPT !.failcount = 0])
    /\ UNCHANGED <<conn, blocked>>

\* recalculate_connect_candidates, when the torrent is or no longer is finished.
RecalculateConnectCandidates ==
    LET s == [list EXCEPT !.finished = ~@]
    IN  /\ list' = [s EXCEPT !.candidates =
                        Cardinality({i \in DOMAIN s.peers : IsConnectCandidate(s, s.peers[i])})]
        /\ UNCHANGED <<conn, blocked>>

\* ip_filter_updated: the peers of a blocked address are disconnected, which
\* may erase them already, and erased.
IpFilterUpdated(a) ==
    LET hit(s) == {i \in DOMAIN s.peers : s.peers[i].ep[1] = a}
        step(s) == LET i == CHOOSE i \in hit(s) : \A j \in hit(s) : i <= j
                       p == s.peers[i]
                       s1 == IF p.connection = None THEN s
                             ELSE ConnectionClosed(s, p.connection, FALSE, FALSE)
                   IN  IF Known(s1, p.id) THEN EraseAt(s1, i) ELSE s1
        scan[n \in 0 .. Len(list.peers)] ==
            IF n = 0 THEN list ELSE IF hit(scan[n - 1]) = {} THEN scan[n - 1] ELSE step(scan[n - 1])
    IN  /\ a \notin blocked
        /\ blocked' = blocked \cup {a}
        /\ list' = scan[Len(list.peers)]
        /\ conn' = Removed(conn, {list.peers[i].connection : i \in hit(list)})

-----------------------------------------------------------------------------
Init ==
    /\ \E multiple \in BOOLEAN :   \* allow_multiple_connections_per_ip
         list = [peers |-> <<>>, candidates |-> 0, seeds |-> 0, round_robin |-> 0, finished |-> FALSE,
                 multiple |-> multiple]
    /\ conn = [c \in Conns |-> None]
    /\ blocked = {}

Next ==
    \/ \E c \in Conns : ConnectOnePeer(c)
    \/ \E c \in Conns : OnConnect(c)
    \/ \E c \in Conns, failed \in BOOLEAN : Disconnect(c, failed)
    \/ \E c \in Conns, ep \in Endpoints : AttachPeer(c, ep)
    \/ \E ep \in Endpoints, src \in {"tracker", "pex", "resume_data"}, seed \in BOOLEAN :
         AddPeer(ep, src, seed)
    \/ \E c \in Conns, port \in {ep[2] : ep \in Endpoints} : UpdatePeerPort(c, port)
    \/ \E c \in Conns, b \in BOOLEAN : SetSeed(c, b)
    \/ \E i \in 1 .. Len(list.peers) : BanPeer(i)
    \/ \E c \in Conns : ResetFailcount(c)
    \/ RecalculateConnectCandidates
    \/ \E a \in Addresses : IpFilterUpdated(a)

Spec == Init /\ [][Next]_vars

-----------------------------------------------------------------------------
(* Properties. *)

\* check_invariant: the list is sorted and has one entry for an address, or for
\* an endpoint if several connections are allowed, and is not longer than it
\* may be.
ListIsSorted ==
    /\ \A i \in 1 .. Len(list.peers) - 1 : list.peers[i].ep[1] <= list.peers[i + 1].ep[1]
    /\ \A i, j \in DOMAIN list.peers : i # j =>
           ~Matches(list, list.peers[i], list.peers[j].ep) /\ list.peers[i].id # list.peers[j].id
    /\ MaxPeerlistSize # 0 => Len(list.peers) <= MaxPeerlistSize
    /\ list.round_robin <= Len(list.peers)

\* m_num_connect_candidates, by which a torrent decides whether to look for a
\* peer, and m_num_seeds, which the scrape reports, are right however peers
\* were added, connected, banned, updated and erased.
PeersAreCounted ==
    /\ list.candidates = Cardinality({i \in DOMAIN list.peers : IsConnectCandidate(list, list.peers[i])})
    /\ list.seeds = Cardinality({i \in DOMAIN list.peers : list.peers[i].seed})

\* A connection and its entry know each other: none is left with an entry that
\* was erased or that another connection has taken over.
EntriesAreOwn ==
    /\ \A c \in InUse : /\ Known(list, conn[c].info)
                         /\ list.peers[IndexOf(list, conn[c].info)].connection = c
    /\ \A i \in DOMAIN list.peers : LET p == list.peers[i] IN
           p.connection # None => p.connection \in InUse /\ conn[p.connection].info = p.id

PeersAreRight == ListIsSorted /\ PeersAreCounted /\ EntriesAreOwn
=============================================================================
