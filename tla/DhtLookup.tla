------------------------------ MODULE DhtLookup ------------------------------
(***************************************************************************)
(* Lookups in the DHT: rpc_manager with its list of transactions, the      *)
(* observers, and the traversals that send the queries (find_data, refresh *)
(* and bootstrap).  A node stands for its identifier and its endpoint, and *)
(* is numbered by its distance to the target.  The list of transactions is *)
(* in the order of sending, so that what times out is always a prefix of   *)
(* it.  The routing table is the one of RoutingTable, with one bucket.     *)
(*                                                                         *)
(* Operators take s = [look, trans, table] and return it.  bad is the set  *)
(* of nodes to which the socket fails to send during the step.             *)
(***************************************************************************)
EXTENDS Integers, Sequences, FiniteSets, SequencesExt

CONSTANTS
    Nodes,         \* 1 .. N, nearest first
    Lookups,       \* the traversals that may run at a time
    Dummy,         \* the traversal of pings and announces
    BranchFactor,  \* settings.search_branching
    NumTarget,     \* m_num_target_nodes of a find_data
    BucketSize, MaxFailCount,
    MaxResults,    \* how many results a traversal keeps, 100
    MaxStarts,     \* bound on the number of traversals started
    Malformed      \* may a reply lack "r" or "id"?

VARIABLES
    look,     \* the traversals
    trans,    \* rpc_manager::m_transactions
    table,    \* the routing table
    stopped,  \* rpc_manager::m_destructing
    starts    \* history: the number of traversals started

vars == <<look, trans, table, stopped, starts>>

RT == INSTANCE RoutingTable WITH
          Ids <- Nodes \cup {0}, OwnId <- 0, Depth <- [n \in Nodes \cup {0} |-> 0],
          Endpoints <- {<<n, 1>> : n \in Nodes}, Near <- {}, MaxBuckets <- 1

Kind == {"find_data", "refresh", "bootstrap"}
Flag == {"queried", "short_timeout", "failed", "alive", "no_id"}

\* missed is history: the nodes a lookup that ended should have asked.
Idle == [kind |-> "idle", results |-> {}, flags |-> [n \in Nodes |-> {}],
         invoke |-> 0, branch |-> 0, tokens |-> {}, missed |-> {}]

Target(kind) == IF kind = "bootstrap" THEN 2 * NumTarget ELSE NumTarget
Observer(l, n) == [look |-> l, node |-> n]

Nearer(S, n) == Cardinality({m \in S : m < n})

\* rpc_manager::invoke of each node of S, nearest first.
Invoke(s, l, S, bad) ==
    [s EXCEPT !.trans = @ \o [k \in 1 .. Cardinality(S \ bad) |->
                                 Observer(l, CHOOSE n \in S \ bad : Nearer(S \ bad, n) = k - 1)]]

\* Mutant: enough answers end the queries, however far the nodes are.
AddRequestsAny(s, l, bad) ==
    LET x     == s.look[l]
        fresh == {n \in x.results : "queried" \notin x.flags[n]}
        alive == {n \in x.results : "alive" \in x.flags[n]}
        ask   == {n \in fresh : /\ Cardinality(alive) < Target(x.kind)
                                /\ x.invoke + Nearer(fresh \ bad, n) < x.branch}
    IN  Invoke([s EXCEPT !.look[l] = [x EXCEPT !.invoke = @ + Cardinality(ask \ bad),
                           !.flags = [n \in Nodes |->
                               IF n \notin ask THEN x.flags[n] ELSE x.flags[n] \cup
                                 (IF n \in bad THEN {"queried", "failed"} ELSE {"queried"})]]],
               l, ask, bad)

\* Query the nearest nodes that have not been queried until enough queries are
\* out or enough nodes have answered.
AddRequests(s, l, bad) ==
    LET x     == s.look[l]
        fresh == {n \in x.results : "queried" \notin x.flags[n]}
        alive == {n \in x.results : "alive" \in x.flags[n]}
        ask   == {n \in fresh : /\ Nearer(alive, n) < Target(x.kind)
                                /\ x.invoke + Nearer(fresh \ bad, n) < x.branch}
        told  == [x EXCEPT !.invoke = @ + Cardinality(ask \ bad),
                           !.flags = [n \in Nodes |->
                               CASE n \in ask \ bad -> x.flags[n] \cup {"queried"}
                                 [] n \in ask \cap bad -> x.flags[n] \cup {"queried", "failed"}
                                 [] OTHER -> x.flags[n]]]
    IN  Invoke([s EXCEPT !.look[l] = told], l, ask, bad)

\* Nodes that were not asked although too few nearer ones have answered.
Missed(x) == {n \in x.results : /\ "queried" \notin x.flags[n]
                                /\ Nearer({m \in x.results : "alive" \in x.flags[m]}, n)
                                     < Target(x.kind)}

\* The end of a traversal: an announce goes to the nearest nodes that gave a
\* token, a bootstrap pings the nodes it did not ask.
Done(s, l, bad) ==
    LET x      == s.look[l]
        givers == {n \in x.results \cap x.tokens :
                      "no_id" \notin x.flags[n] /\ "queried" \in x.flags[n]}
        to     == CASE x.kind = "find_data" -> {n \in givers : Nearer(givers, n) < BucketSize}
                    [] x.kind = "bootstrap" -> {n \in x.results : "queried" \notin x.flags[n]}
                    [] OTHER -> {}
    IN  Invoke([s EXCEPT !.look[l] = [Idle EXCEPT !.missed = Missed(x)]], Dummy, to, bad)

\* How start, finished and failed end.
Continue(s, l, bad) ==
    LET t == AddRequests(s, l, bad)
    IN  IF t.look[l].invoke = 0 THEN Done(t, l, bad) ELSE t

\* add_entry of each node of S; only the nearest results are kept.
AddEntries(x, S, flags) ==
    LET all  == x.results \cup S
        kept == {n \in all : Nearer(all, n) < MaxResults}
    IN  [x EXCEPT !.results = kept,
                  !.flags = [n \in Nodes |-> IF n \in kept \ x.results THEN flags ELSE @[n]]]

\* The branch factor that a short timeout took is given back.
GiveBack(x, n) == IF "short_timeout" \in x.flags[n] THEN x.branch - 1 ELSE x.branch

\* Mutant: a reply after the short timeout does not give the branch factor back.
FinishedKeeping(s, l, n, bad) ==
    Continue([s EXCEPT !.look[l].flags[n] = @ \cup {"alive"}, !.look[l].invoke = @ - 1], l, bad)

Finished(s, l, n, bad) ==
    Continue([s EXCEPT !.look[l] = [@ EXCEPT !.branch = GiveBack(s.look[l], n),
                                             !.flags[n] = @ \cup {"alive"},
                                             !.invoke = @ - 1]], l, bad)

\* Mutant: a node that does not answer is not marked as failed.
FailedUnmarked(s, l, n, bad, stop) ==
    LET x == s.look[l]
    IN  IF l = Dummy \/ x.results = {} THEN s
        ELSE Continue([s EXCEPT !.look[l] = [x EXCEPT
                          !.branch = IF stop THEN 1 ELSE GiveBack(x, n), !.invoke = @ - 1]],
                      l, bad)

\* observer::timeout and observer::abort; with stop, prevent_request.
Failed(s, l, n, bad, stop) ==
    LET x     == s.look[l]
        back  == GiveBack(x, n)
        after == IF ~stop THEN back ELSE IF back - 1 <= 0 THEN 1 ELSE back - 1
        heard == IF "no_id" \in x.flags[n] THEN s.table
                 ELSE RT!NodeFailed(s.table, n, <<n, 1>>)
    IN  IF l = Dummy \/ x.results = {} THEN s
        ELSE Continue([s EXCEPT !.table = heard,
                                !.look[l] = [x EXCEPT !.branch = after,
                                                      !.flags[n] = @ \cup {"failed"},
                                                      !.invoke = @ - 1]], l, bad)

ShortTimeout(s, l, n, bad) ==
    IF l = Dummy THEN s
    ELSE IF "short_timeout" \in s.look[l].flags[n] THEN s
    ELSE Continue([s EXCEPT !.look[l].branch = @ + 1,
                            !.look[l].flags[n] = @ \cup {"short_timeout"}], l, bad)

-----------------------------------------------------------------------------
State == [look |-> look, trans |-> trans, table |-> table]
Become(after) == \E s \in {after} : look' = s.look /\ trans' = s.trans /\ table' = s.table

Init ==
    /\ look = [l \in Lookups |-> Idle]
    /\ trans = <<>>
    /\ table = RT!EmptyTable
    /\ stopped = FALSE
    /\ starts = 0

\* A traversal from the live nodes of the table; from given nodes, whose
\* identifiers are not known, when bootstrapping or when the table is empty.
Begin(s, l, kind, given, bad) ==
    LET known == {n.id : n \in RT!Live(s.table)}
        x     == [Idle EXCEPT !.kind = kind, !.branch = BranchFactor]
        with  == AddEntries(x, known, {})
        all   == IF kind = "bootstrap" \/ known = {}
                 THEN AddEntries(with, given, {"no_id"}) ELSE with
    IN  Continue([s EXCEPT !.look[l] = all, !.table = RT!WithBucket(@)], l, bad)

Start(l, kind, given, bad) ==
    /\ ~stopped /\ look[l].kind = "idle" /\ starts < MaxStarts
    /\ Become(Begin(State, l, kind, given, bad))
    /\ starts' = starts + 1
    /\ UNCHANGED stopped

Removed(s, k) == SubSeq(s, 1, k - 1) \o SubSeq(s, k + 1, Len(s))

\* A reply with the transaction id and the address of a query: it names nodes
\* and may carry a token.  An answer to a query that is gone is refused.
Answered(s, k, named, token, bad) ==
    LET o     == s.trans[k]
        less  == [s EXCEPT !.trans = Removed(@, k)]
        told  == [less EXCEPT !.look[o.look] = [AddEntries(@, named, {}) EXCEPT
                                 !.tokens = IF token THEN @ \cup {o.node} ELSE @]]
        after == IF o.look = Dummy THEN less ELSE Finished(told, o.look, o.node, bad)
    IN  [after EXCEPT !.table = RT!NodeSeen(@, o.node, <<o.node, 1>>)]

Incoming(k, named, token, bad) ==
    /\ ~stopped /\ k \in DOMAIN trans
    /\ Become(Answered(State, k, named, token, bad))
    /\ UNCHANGED <<stopped, starts>>

\* A reply without "r" or "id": the transaction is gone and nobody is told.
IncomingMalformed(k) ==
    /\ Malformed /\ ~stopped /\ k \in DOMAIN trans
    /\ trans' = Removed(trans, k)
    /\ UNCHANGED <<look, table, stopped, starts>>

Unreachable(n, bad) ==
    /\ ~stopped /\ \E k \in DOMAIN trans : trans[k].node = n
    /\ LET k == SelectInSeq(trans, LAMBDA o : o.node = n)
       IN  Become(Failed([State EXCEPT !.trans = Removed(trans, k)], trans[k].look, n, bad, FALSE))
    /\ UNCHANGED <<stopped, starts>>

\* Mutant: a query is never given up.
TimedOutNever(s, old, slow, bad) ==
    FoldLeft(LAMBDA acc, o : ShortTimeout(acc, o.look, o.node, bad), s, SubSeq(s.trans, 1, slow))

\* rpc_manager::tick: old queries are past the timeout, slow ones past the short one.
TimedOut(s, old, slow, bad) ==
    LET gone == FoldLeft(LAMBDA acc, o : Failed(acc, o.look, o.node, bad, FALSE),
                         [s EXCEPT !.trans = SubSeq(@, old + 1, Len(@))], SubSeq(s.trans, 1, old))
    IN  FoldLeft(LAMBDA acc, o : ShortTimeout(acc, o.look, o.node, bad),
                 gone, SubSeq(s.trans, old + 1, slow))

Tick(old, slow, bad) ==
    /\ ~stopped /\ old <= slow /\ slow <= Len(trans) /\ slow > 0
    /\ Become(TimedOut(State, old, slow, bad))
    /\ UNCHANGED <<stopped, starts>>

\* Mutant: the transactions are dropped without a word.
StopSilent ==
    /\ ~stopped
    /\ stopped' = TRUE
    /\ UNCHANGED <<look, trans, table, starts>>

\* ~rpc_manager: every query is aborted and no new one is sent.
Stop ==
    /\ ~stopped
    /\ Become(FoldLeft(LAMBDA acc, o : Failed(acc, o.look, o.node, Nodes, TRUE), State, trans))
    /\ stopped' = TRUE
    /\ UNCHANGED starts

Next ==
    \/ Stop
    \/ \E k \in DOMAIN trans : IncomingMalformed(k)
    \/ \E bad \in {{}} \cup {{n} : n \in Nodes} :
         \/ \E l \in Lookups, kind \in Kind, given \in SUBSET Nodes : Start(l, kind, given, bad)
         \/ \E k \in DOMAIN trans, named \in SUBSET Nodes, token \in BOOLEAN :
              Incoming(k, named, token, bad)
         \/ \E n \in Nodes : Unreachable(n, bad)
         \/ \E old, slow \in 0 .. Len(trans) : Tick(old, slow, bad)

\* The connection timer is armed again whenever it fires, so that a query that
\* stays in the list is found to be past its timeout at last.
TimesOut == Tick(1, 1, {})
Spec == Init /\ [][Next]_vars /\ WF_vars(TimesOut)
-----------------------------------------------------------------------------
(* Properties *)

Outstanding(l) == {trans[k].node : k \in {j \in DOMAIN trans : trans[j].look = l}}

\* m_invoke_count is the number of queries of the traversal that are still out,
\* and m_branch_factor is the configured one and one more for each of them that
\* is past its short timeout: whatever order replies, short timeouts, timeouts
\* and errors come in, nothing is given back twice or not at all.
QueriesCounted ==
    ~stopped => \A l \in Lookups : look[l].kind # "idle" =>
        /\ look[l].invoke = Cardinality(Outstanding(l))
        /\ look[l].branch = BranchFactor +
              Cardinality({n \in Outstanding(l) : "short_timeout" \in look[l].flags[n]})

\* A traversal does not end before it has asked every node it knows of that is
\* not farther than the nearest ones that answered.
NearestAsked == ~stopped => \A l \in Lookups : look[l].missed = {}

\* "if the message was sent, it must have been reported back to the
\* traversal_algorithm": a query of a running traversal that is neither
\* answered nor failed is still in the list of transactions.
ReportedBack ==
    \A l \in Lookups : look[l].kind # "idle" => \A n \in Nodes :
        ("queried" \in look[l].flags[n] /\ look[l].flags[n] \cap {"alive", "failed"} = {})
            => n \in Outstanding(l)

\* Stopping the DHT ends every traversal.
StopEndsAll == stopped => \A l \in Lookups : look[l].kind = "idle"

\* A lookup counts its queries, asks the nearest nodes, loses no query and ends
\* with the DHT, whatever order its answers and timeouts come in.
LookupIsRight == QueriesCounted /\ NearestAsked /\ ReportedBack /\ StopEndsAll

\* Every traversal ends, although answers may be lost.
IsWaiting(l) == look[l].kind # "idle"
IsServed(l) == look[l].kind = "idle"
TraversalEnds == \A l \in Lookups : IsWaiting(l) ~> IsServed(l)
=============================================================================
