------------------------------- MODULE MCDht --------------------------------
(***************************************************************************)
(* Where peers come from, for TLC: what the DHT node keeps, and the peer   *)
(* list of a torrent, in one run. A behaviour is one of the part that      *)
(* `part` names, the other components stay as they are.                    *)
(*                                                                         *)
(*   table  three identifiers at two distances and four addresses, two of  *)
(*          them of one network, the last with two ports;                  *)
(*   store  one address, two targets, room for one torrent and one item of *)
(*          each kind;                                                     *)
(*   peers  the peer list of a torrent: three endpoints, two of one        *)
(*          address, and two connections.                                  *)
(***************************************************************************)
EXTENDS DhtStore

CONSTANTS a1, c1, c2, None

\* How many leading bits an identifier has in common with ours.
Depths == [i \in 0 .. 4 |-> IF i = 0 THEN 9 ELSE IF i < 3 THEN 0 ELSE 1]
Eps == {<<1, 1>>, <<2, 1>>, <<3, 1>>, <<4, 1>>, <<4, 2>>}
\* The keys of the two targets have each other's first bytes.
Swapped == <<2, 1>>

VARIABLES
    part,   \* what takes the steps
    \* RoutingTable
    r_table,
    \* PeerList
    p_list, p_conn, p_blocked

tableVars == <<r_table>>
peersVars == <<p_list, p_conn, p_blocked>>

R == INSTANCE RoutingTable WITH
        Ids <- 0 .. 3, OwnId <- 0, Depth <- Depths, Endpoints <- Eps,
        Near <- {<<1, 2>>, <<2, 1>>}, BucketSize <- 2, MaxBuckets <- 3, MaxFailCount <- 2,
        table <- r_table

P == INSTANCE PeerList WITH
        Endpoints <- {<<1, 1>>, <<1, 2>>, <<2, 1>>}, Conns <- {c1, c2}, None <- None,
        MaxPeerlistSize <- 2, MaxFailcount <- 1, FailcountLimit <- 1, MaxConnections <- 2,
        list <- p_list, conn <- p_conn, blocked <- p_blocked

AllVars == <<part, tableVars, vars, peersVars>>

PartInit ==
    /\ part \in {"table", "store", "peers"}
    /\ R!Init
    /\ Init
    /\ P!Init
    /\ part # "peers" => ~p_list.multiple

\* A step of the part p that leaves the other components alone.
InPart(p, step, others) == part = p /\ step /\ UNCHANGED <<part, others>>

notTable == <<vars, peersVars>>
notStore == <<tableVars, peersVars>>
notPeers == <<tableVars, vars>>

PartNext ==
    \/ InPart("table", R!Next, notTable)
    \/ InPart("store", Next, notStore)
    \/ InPart("peers", P!Next, notPeers)

PartSpec == PartInit /\ [][PartNext]_AllVars

-----------------------------------------------------------------------------
\* Buckets and addresses of the routing table are right.
TableIsRight == R!TableIsRight

\* A node we have only heard of displaces none that has answered.
HearsayDisplacesNone == R!HearsayDisplacesNone

\* The peer list is sorted, its counts are what counting anew would give, and it
\* agrees with the connections.
PeersAreRight == part = "peers" => P!PeersAreRight
=============================================================================
