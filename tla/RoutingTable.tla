---------------------------- MODULE RoutingTable ----------------------------
(***************************************************************************)
(* The DHT's routing table: buckets of live nodes and of replacements, the *)
(* last of which is split when it is full, and the set of addresses that   *)
(* are in it.  An identifier is known by the bucket it belongs to once     *)
(* there are enough buckets, 159 - distance_exp(m_id, id).                 *)
(***************************************************************************)
EXTENDS Integers, Sequences, FiniteSets, SequencesExt

CONSTANTS
    Ids,          \* node identifiers
    OwnId,        \* m_id, one of them
    Depth,        \* Ids -> Nat: 159 - distance_exp(m_id, id)
    Endpoints,    \* pairs of an address and a port
    Near,         \* pairs of addresses that cidr_distance takes for one network
    BucketSize,   \* m_bucket_size
    MaxBuckets,   \* 160
    MaxFailCount  \* settings.max_fail_count

VARIABLE table   \* the routing_table

Unpinged == -1

\* node_entry.  fails is timeout_count: how often the node did not answer
\* since it last did, or Unpinged if it never answered.
Node == [id : Ids, ep : Endpoints, fails : Unpinged .. MaxFailCount]

Addr(n) == n.ep[1]
Pinged(n) == n.fails # Unpinged
FailCount(n) == IF Pinged(n) THEN n.fails ELSE 0
Confirmed(n) == n.fails = 0
CompareIpCidr(n, m) == Addr(n) = Addr(m) \/ <<Addr(n), Addr(m)>> \in Near

EmptyBucket == [live |-> <<>>, replacements |-> <<>>]
EmptyTable == [buckets |-> <<>>, ips |-> {}, routers |-> {}]

Entries(t) == UNION {ToSet(t.buckets[k].live) \cup ToSet(t.buckets[k].replacements)
                     : k \in DOMAIN t.buckets}

\* find_bucket makes the first bucket.
WithBucket(t) == IF t.buckets = <<>> THEN [t EXCEPT !.buckets = <<EmptyBucket>>] ELSE t
BucketOf(t, id) == IF Depth[id] < Len(t.buckets) THEN Depth[id] + 1 ELSE Len(t.buckets)

-----------------------------------------------------------------------------
(* add_node *)

Without(s, Gone(_)) == SelectSeq(s, LAMBDA n : ~Gone(n))
HasId(s, id) == \E n \in ToSet(s) : n.id = id
First(s, P(_)) == s[SelectInSeq(s, P)]

\* The address of n is taken out of m_ips when n leaves, and that of e put in.
Swap(ips, n, e) == (ips \ {Addr(n)}) \cup {Addr(e)}

\* Mutant: m_ips keeps the address of the node that is replaced.
ReplaceKeepingIp(t, k, n, e) ==
    [t EXCEPT !.buckets[k].live = Append(SelectSeq(@, LAMBDA m : m # n), e),
              !.ips = @ \cup {Addr(e)}]

Replace(t, k, n, e) ==
    [t EXCEPT !.buckets[k].live = Append(SelectSeq(@, LAMBDA m : m # n), e),
              !.ips = Swap(@, n, e)]

\* A full replacement cache drops the first node that never answered, or the
\* first one if all did.
Cache(t, k, e) ==
    LET rb   == t.buckets[k].replacements
        drop == IF \E n \in ToSet(rb) : ~Pinged(n)
                THEN First(rb, LAMBDA n : ~Pinged(n)) ELSE rb[1]
    IN  IF Len(rb) < BucketSize
        THEN [t EXCEPT !.buckets[k].replacements = Append(rb, e), !.ips = @ \cup {Addr(e)}]
        ELSE [t EXCEPT !.buckets[k].replacements =
                           Append(SelectSeq(rb, LAMBDA n : n # drop), e),
                       !.ips = Swap(@, drop, e)]

\* The first n elements of s, and the others.
Take(s, n) == SubSeq(s, 1, IF n < Len(s) THEN n ELSE Len(s))
Drop(s, n) == SubSeq(s, n + 1, Len(s))

\* Mutant: the bucket is split one bit too late.
SplitLate(t, e) ==
    LET k    == Len(t.buckets)
        b    == t.buckets[k]
        Stays(n) == Depth[n.id] <= k
        with == [t EXCEPT !.buckets = Front(@) \o
                    <<[live |-> SelectSeq(b.live, Stays),
                       replacements |-> SelectSeq(b.replacements, Stays)],
                      [live |-> Without(b.live, Stays),
                       replacements |-> Without(b.replacements, Stays)]>>]
    IN  Cache(with, BucketOf(with, e.id), e)

\* The last bucket is full: the nodes closer to us get a bucket of their own,
\* replacements fill the room this makes, and e goes where there is room.
Split(t, e) ==
    LET k    == Len(t.buckets)
        b    == t.buckets[k]
        Stays(n) == Depth[n.id] <= k - 1
        old  == SelectSeq(b.live, Stays)
        new  == Without(b.live, Stays)
        oldr == SelectSeq(b.replacements, Stays)
        newr == Without(b.replacements, Stays)
        Filled(live, repl) ==
            LET room == BucketSize - Len(live)
            IN  [live |-> live \o Take(repl, room), replacements |-> Drop(repl, room)]
        with == Front(t.buckets) \o <<Filled(old, oldr), Filled(new, newr)>>
        to   == IF Stays(e) THEN k ELSE k + 1
    IN  CASE Len(with[to].live) < BucketSize ->
               [t EXCEPT !.buckets = [with EXCEPT ![to].live = Append(@, e)],
                         !.ips = @ \cup {Addr(e)}]
          [] Len(with[to].live) >= BucketSize /\ Len(with[to].replacements) < BucketSize ->
               [t EXCEPT !.buckets = [with EXCEPT ![to].replacements = Append(@, e)],
                         !.ips = @ \cup {Addr(e)}]
          [] OTHER -> [t EXCEPT !.buckets = with]

\* Mutant: a node that never answered may push out a stale one too.
InsertUnpinged(t, e) ==
    LET k == BucketOf(t, e.id)
        b == t.buckets[k].live
    IN  CASE HasId(b, e.id) \/ HasId(t.buckets[k].replacements, e.id) -> t
          [] ~HasId(b, e.id) /\ Len(b) < BucketSize ->
               [t EXCEPT !.buckets[k].live = Append(@, e), !.ips = @ \cup {Addr(e)}]
          [] OTHER -> Replace(t, k, b[1], e)

\* A node that is not in its bucket: into the bucket if there is room, instead
\* of a node that never answered or of the one that failed most if e answered,
\* else by splitting the last bucket or into the replacements.
Insert(t, e) ==
    LET k    == BucketOf(t, e.id)
        b    == t.buckets[k].live
        rb   == t.buckets[k].replacements
        worst == First(b, LAMBDA n : \A m \in ToSet(b) : FailCount(m) <= FailCount(n))
    IN  CASE HasId(b, e.id) ->
               [t EXCEPT !.buckets[k].live = [j \in DOMAIN b |->
                   IF b[j].id = e.id /\ b[j].ep = e.ep THEN [b[j] EXCEPT !.fails = 0] ELSE b[j]]]
          [] ~HasId(b, e.id) /\ HasId(rb, e.id) -> t
          [] ~HasId(b \o rb, e.id) /\ (\E n \in ToSet(b \o rb) : CompareIpCidr(n, e)) -> t
          [] ~HasId(b \o rb, e.id) /\ (\A n \in ToSet(b \o rb) : ~CompareIpCidr(n, e)) ->
               IF Len(b) < BucketSize
               THEN [t EXCEPT !.buckets[k].live = Append(@, e), !.ips = @ \cup {Addr(e)}]
               ELSE CASE ~Pinged(e) -> Cache(t, k, e)
                      [] Pinged(e) /\ (\E n \in ToSet(b) : ~Pinged(n)) ->
                           Replace(t, k, First(b, LAMBDA n : ~Pinged(n)), e)
                      [] Pinged(e) /\ (\A n \in ToSet(b) : Pinged(n)) ->
                           IF FailCount(worst) > 0 THEN Replace(t, k, worst, e)
                           ELSE IF k = Len(t.buckets) /\ k < MaxBuckets
                           THEN Split(t, e) ELSE Cache(t, k, e)

\* Every entry with the endpoint ep, changed by F or taken out.
MapEntries(t, F(_)) ==
    [k \in DOMAIN t.buckets |->
        [live |-> [j \in DOMAIN t.buckets[k].live |-> F(t.buckets[k].live[j])],
         replacements |-> [j \in DOMAIN t.buckets[k].replacements |->
                               F(t.buckets[k].replacements[j])]]]
Erase(t, ep) ==
    [t EXCEPT !.buckets = [k \in DOMAIN t.buckets |->
                  [live |-> SelectSeq(t.buckets[k].live, LAMBDA n : n.ep # ep),
                   replacements |-> SelectSeq(t.buckets[k].replacements, LAMBDA n : n.ep # ep)]],
              !.ips = @ \ {ep[1]}]

\* restrict_routing_ips is set, as by default: an address that is in the table
\* comes in again only with the same port and if it answered, with the old
\* identifier forgotten.
AddNode(t, e) ==
    LET seen == {n \in Entries(t) : n.ep = e.ep}
    IN  CASE e.ep \in t.routers \/ e.id = OwnId -> t
          [] e.ep \notin t.routers /\ e.id # OwnId /\ Addr(e) \notin t.ips ->
               Insert(WithBucket(t), e)
          [] e.ep \notin t.routers /\ e.id # OwnId /\ Addr(e) \in t.ips ->
               CASE ~Pinged(e) \/ seen = {} -> t
                 [] Pinged(e) /\ (\E n \in seen : n.id = e.id) ->
                      [t EXCEPT !.buckets = MapEntries(t, LAMBDA n :
                          IF n.ep = e.ep THEN [n EXCEPT !.fails = 0] ELSE n)]
                 [] OTHER -> Insert(Erase(t, e.ep), e)

HeardAbout(t, id, ep) == AddNode(t, [id |-> id, ep |-> ep, fails |-> Unpinged])
NodeSeen(t, id, ep) == AddNode(t, [id |-> id, ep |-> ep, fails |-> 0])

\* A node that did not answer is replaced from the cache, preferably by one
\* that has answered before; without a replacement it gets more chances.
NodeFailed(t0, id, ep) ==
    LET t  == WithBucket(t0)
        k  == BucketOf(t, id)
        b  == t.buckets[k].live
        rb == t.buckets[k].replacements
        n  == First(b, LAMBDA m : m.id = id)
        rest == SelectSeq(b, LAMBDA m : m # n)
        sub  == IF \E m \in ToSet(rb) : Pinged(m) THEN First(rb, Pinged) ELSE rb[1]
        more == [n EXCEPT !.fails = IF Pinged(n) THEN @ + 1 ELSE @]
    IN  CASE id = OwnId -> t0
          [] id # OwnId /\ (~HasId(b, id) \/ n.ep # ep) -> t
          [] OTHER ->
               IF rb # <<>>
               THEN [t EXCEPT !.buckets[k] = [live |-> Append(rest, sub),
                                  replacements |-> SelectSeq(rb, LAMBDA m : m # sub)],
                              !.ips = @ \ {ep[1]}]
               ELSE IF FailCount(more) >= MaxFailCount \/ ~Pinged(more)
               THEN [t EXCEPT !.buckets[k].live = rest, !.ips = @ \ {ep[1]}]
               ELSE [t EXCEPT !.buckets[k].live =
                         [j \in DOMAIN b |-> IF b[j] = n THEN more ELSE b[j]]]

\* find_node without include_failed: count nodes for a reply.  In a closer
\* bucket only as many nodes as are missing are looked at.
FindNode(t0, target, count) ==
    LET t    == WithBucket(t0)
        k    == BucketOf(t, target)
        Good(s) == SelectSeq(s, Confirmed)
        Closer(acc, j) == IF Len(acc) >= count THEN acc
                          ELSE acc \o Good(Take(t.buckets[j].live, count - Len(acc)))
        Further(acc, j) == IF Len(acc) >= count THEN acc
                           ELSE acc \o Take(Good(t.buckets[j].live), count - Len(acc))
        own  == Take(Good(t.buckets[k].live), count)
        near == FoldLeft(Closer, own, [j \in 1 .. Len(t.buckets) - k |-> k + j])
    IN  FoldLeft(Further, near, [j \in 1 .. k - 1 |-> k - j])
-----------------------------------------------------------------------------
Init == table = EmptyTable

Heard(id, ep) == table' = HeardAbout(table, id, ep)
Seen(id, ep) == table' = NodeSeen(table, id, ep)
Failed(id, ep) == table' = NodeFailed(table, id, ep)
AddRouterNode(ep) == table' = [table EXCEPT !.routers = @ \cup {ep}]

Next == \/ \E id \in Ids, ep \in Endpoints : Heard(id, ep) \/ Seen(id, ep) \/ Failed(id, ep)
        \/ \E ep \in Endpoints : table.ips = {} /\ AddRouterNode(ep)

Spec == Init /\ [][Next]_table
-----------------------------------------------------------------------------
(* Properties *)

\* Every node is in the bucket that find_bucket names for it, no identifier is
\* in the table twice and no bucket is too big, whatever was split, replaced or
\* moved from the cache before.
BucketsAreRight ==
    \A k \in DOMAIN table.buckets :
        LET b == table.buckets[k]
            s == b.live \o b.replacements
        IN  /\ \A n \in ToSet(s) : BucketOf(table, n.id) = k /\ n.id # OwnId
            /\ \A i, j \in DOMAIN s : i # j => s[i].id # s[j].id
            /\ Len(b.live) <= BucketSize /\ Len(b.replacements) <= BucketSize

\* m_ips, a set, is exactly the addresses of the nodes in the table, and no
\* address is there twice: a node that leaves can come back, and one that is
\* in does not come in again under another port or identifier.
IpsAreTheTable ==
    /\ table.ips = {Addr(n) : n \in Entries(table)}
    /\ \A n, m \in Entries(table) : Addr(n) = Addr(m) => n = m

\* Buckets and addresses of the table are right, whatever was split, replaced or
\* moved before.
TableIsRight == BucketsAreRight /\ IpsAreTheTable

Live(t) == UNION {ToSet(t.buckets[k].live) : k \in DOMAIN t.buckets}

\* A node that was only heard of, and may not exist, never displaces a live node
\* that has answered.
HearsayDisplacesNone ==
    [][(\E m \in Entries(table') \ Entries(table) : ~Pinged(m)) =>
          \A n \in Live(table) : Pinged(n) => n \in Live(table')]_table

=============================================================================
