---------------------------- MODULE DhtStoreProofs ----------------------------
(***************************************************************************)
(* What a DHT node stores for others, for any number of addresses, targets *)
(* and secrets and any limits.                                             *)
(***************************************************************************)
EXTENDS DhtStore, RankLemmas

\* Every token that was given away was made with the secret of its time, and of
\* the secrets the last two are known.
TokensAreOld ==
    /\ secret \in Seq(Int) /\ Len(secret) = 2 /\ secret[2] = secret[1] - 1
    /\ tokens \in SUBSET [addr : Addrs, target : Targets, secret : Int]
    /\ \A tok \in tokens : tok.secret <= secret[1]

\* The type of an item, whatever its data.
ItemType == [from : SUBSET Addrs]
MutableType == [seq : Int, from : SUBSET Addrs]

\* f has an entry of the set V for at most max of the targets.
IsTable(f, V, max) ==
    /\ DOMAIN f \in SUBSET Targets
    /\ f = [t \in DOMAIN f |-> f[t]]
    /\ \A t \in DOMAIN f : f[t] \in V
    /\ Cardinality(DOMAIN f) <= max

TablesAreRight ==
    /\ IsTable(map, (SUBSET Addrs) \ {{}}, MaxTorrents)
    /\ IsTable(items, ItemType, MaxItems)
    /\ IsTable(mutable, MutableType, MaxItems)

\* The inductive invariant.
StoreInv == TokensAreOld /\ TablesAreRight

-----------------------------------------------------------------------------
(* Tables. *)

\* A set of targets is finite.
LEMMA TargetsFinite ==
    ASSUME NEW S \in SUBSET Targets
    PROVE  IsFiniteSet(S) /\ Cardinality(S) \in Nat /\ S \in SUBSET Nat
<1>1. PICK n \in Nat : Targets = 1 .. n  BY TargetAssumption, FS_CardinalityType
<1>2. S \in SUBSET (1 .. n)  BY <1>1
<1> QED  BY <1>2, FiniteBounded

\* A set of targets that is not empty has a greatest and a least one.
LEMMA TargetsOrdered ==
    ASSUME NEW S \in SUBSET Targets, S # {}
    PROVE  /\ \E x \in S : \A y \in S : x <= y
           /\ \E x \in S : \A y \in S : y <= x
<1>1. PICK n \in Nat : Targets = 1 .. n  BY TargetAssumption, FS_CardinalityType
<1>2. S \in SUBSET Nat /\ \A s \in S : s <= n  BY <1>1
<1> QED  BY <1>2, LeastNatural, GreatestNatural

\* Taking an entry out leaves room for one.
LEMMA WithoutTable ==
    ASSUME NEW f, NEW V, NEW max \in Nat, IsTable(f, V, max), NEW x \in DOMAIN f
    PROVE  /\ IsTable(Without(f, x), V, max)
           /\ Cardinality(DOMAIN Without(f, x)) < max
           /\ DOMAIN Without(f, x) = DOMAIN f \ {x}
           /\ \A y \in DOMAIN f \ {x} : Without(f, x)[y] = f[y]
<1>1. DOMAIN Without(f, x) = DOMAIN f \ {x}  BY DEF Without
<1>2. \A y \in DOMAIN f \ {x} : Without(f, x)[y] = f[y]  BY DEF Without
<1>3. DOMAIN f \in SUBSET Targets  BY DEF IsTable
<1>4. IsFiniteSet(DOMAIN f) /\ Cardinality(DOMAIN f) \in Nat  BY <1>3, TargetsFinite
<1>5. Cardinality(DOMAIN f \ {x}) = Cardinality(DOMAIN f) - 1  BY <1>4, FS_RemoveElement
<1>6. Cardinality(DOMAIN f) <= max  BY DEF IsTable
<1>7. Cardinality(DOMAIN Without(f, x)) < max  BY <1>1, <1>4, <1>5, <1>6
<1>8. Cardinality(DOMAIN Without(f, x)) <= max  BY <1>1, <1>4, <1>5, <1>6
<1>9. Without(f, x) = [y \in DOMAIN f \ {x} |-> Without(f, x)[y]]  BY <1>1, <1>2 DEF Without
<1> QED  BY <1>1, <1>2, <1>3, <1>7, <1>8, <1>9 DEF IsTable

\* An entry can be put where there is room or where there was one.
LEMMA WithTable ==
    ASSUME NEW f, NEW V, NEW max \in Nat, IsTable(f, V, max), NEW t \in Targets, NEW v \in V,
           t \in DOMAIN f \/ Cardinality(DOMAIN f) < max
    PROVE  /\ IsTable(With(f, t, v), V, max)
           /\ DOMAIN With(f, t, v) = DOMAIN f \cup {t}
           /\ With(f, t, v)[t] = v
           /\ \A y \in DOMAIN f : y # t => With(f, t, v)[y] = f[y]
<1>1. DOMAIN With(f, t, v) = DOMAIN f \cup {t}  BY DEF With
<1>2. With(f, t, v)[t] = v  BY DEF With
<1>3. \A y \in DOMAIN f : y # t => With(f, t, v)[y] = f[y]  BY DEF With
<1>4. DOMAIN f \in SUBSET Targets  BY DEF IsTable
<1>5. IsFiniteSet(DOMAIN f) /\ Cardinality(DOMAIN f) \in Nat  BY <1>4, TargetsFinite
<1>6. Cardinality(DOMAIN f \cup {t}) <= max
  <2>1. CASE t \in DOMAIN f
    <3>1. DOMAIN f \cup {t} = DOMAIN f  BY <2>1
    <3> QED  BY <3>1 DEF IsTable
  <2>2. CASE t \notin DOMAIN f
    <3>1. Cardinality(DOMAIN f \cup {t}) = Cardinality(DOMAIN f) + 1  BY <1>5, <2>2, FS_AddElement
    <3> QED  BY <1>5, <2>2, <3>1
  <2> QED  BY <2>1, <2>2
<1>7. \A y \in DOMAIN f \cup {t} : With(f, t, v)[y] \in V  BY <1>2, <1>3 DEF IsTable
<1>8. With(f, t, v) = [y \in DOMAIN f \cup {t} |-> With(f, t, v)[y]]  BY DEF With
<1> QED  BY <1>1, <1>2, <1>3, <1>4, <1>6, <1>7, <1>8 DEF IsTable

\* There is room for t once an item has made it, and the entries that are left
\* are as they were.
LEMMA RoomTable ==
    ASSUME NEW f, NEW V, IsTable(f, V, MaxItems), NEW t \in Targets,
           NEW goes \in SUBSET DOMAIN f, NEW room \in Room(f, t, goes)
    PROVE  /\ IsTable(room, V, MaxItems)
           /\ t \in DOMAIN room \/ Cardinality(DOMAIN room) < MaxItems
           /\ DOMAIN room \in SUBSET DOMAIN f
           /\ t \in DOMAIN f => t \in DOMAIN room
           /\ \A y \in DOMAIN room : room[y] = f[y]
<1>1. CASE t \in DOMAIN f \/ Cardinality(DOMAIN f) < MaxItems
  BY <1>1 DEF Room
<1>2. CASE ~(t \in DOMAIN f \/ Cardinality(DOMAIN f) < MaxItems)
  <2>1. PICK x \in goes : room = Without(f, x)  BY <1>2 DEF Room
  <2>2. x \in DOMAIN f  OBVIOUS
  <2>3. MaxItems \in Nat  BY LimitAssumption
  <2> QED  BY <1>2, <2>1, <2>2, <2>3, WithoutTable
<1> QED  BY <1>1, <1>2

\* The torrent that makes room is one of those that are stored.
LEMMA CandidateStored ==
    ASSUME NEW t, DOMAIN map \in SUBSET Targets, DOMAIN map # {}
    PROVE  Candidate(t) \in DOMAIN map
<1> DEFINE first == Least(DOMAIN map)
           few == {x \in DOMAIN map \ {t} : /\ Cardinality(map[x]) <= Cardinality(map[first])
                                            /\ \A y \in DOMAIN map \ {t} :
                                                 Cardinality(map[x]) <= Cardinality(map[y])}
<1>1. first \in DOMAIN map
  <2>1. \E x \in DOMAIN map : \A y \in DOMAIN map : x <= y  BY TargetsOrdered
  <2> QED  BY <2>1 DEF Least
<1>2. few \in SUBSET Targets /\ few \in SUBSET DOMAIN map  OBVIOUS
<1>3. Candidate(t) = IF few = {} THEN first ELSE CHOOSE x \in few : \A y \in few : y <= x
  BY DEF Candidate
<1> HIDE DEF few, first
<1>4. few # {} => \E x \in few : \A y \in few : y <= x  BY <1>2, TargetsOrdered
<1> QED  BY <1>1, <1>2, <1>3, <1>4

\* Room for a torrent.
LEMMA MakeRoomTable ==
    ASSUME StoreInv, NEW t \in Targets
    PROVE  /\ IsTable(MakeRoom(t), (SUBSET Addrs) \ {{}}, MaxTorrents)
           /\ Cardinality(DOMAIN MakeRoom(t)) < MaxTorrents
           /\ DOMAIN MakeRoom(t) \in SUBSET DOMAIN map
           /\ \A y \in DOMAIN MakeRoom(t) : MakeRoom(t)[y] = map[y]
<1>1. IsTable(map, (SUBSET Addrs) \ {{}}, MaxTorrents)  BY DEF StoreInv, TablesAreRight
<1>2. MaxTorrents \in Nat /\ MaxTorrents > 0  BY LimitAssumption
<1>3. DOMAIN map \in SUBSET Targets  BY <1>1 DEF IsTable
<1>4. Cardinality(DOMAIN map) \in Nat  BY <1>3, TargetsFinite
<1>5. CASE DOMAIN map # {} /\ Cardinality(DOMAIN map) >= MaxTorrents
  <2>1. Candidate(t) \in DOMAIN map  BY <1>3, <1>5, CandidateStored
  <2>2. MakeRoom(t) = Without(map, Candidate(t))  BY <1>5 DEF MakeRoom
  <2> DEFINE left == Without(map, Candidate(t))
  <2>3. /\ IsTable(left, (SUBSET Addrs) \ {{}}, MaxTorrents)
        /\ Cardinality(DOMAIN left) < MaxTorrents
        /\ DOMAIN left = DOMAIN map \ {Candidate(t)}
        /\ \A y \in DOMAIN map \ {Candidate(t)} : left[y] = map[y]
    BY <1>1, <1>2, <2>1, WithoutTable
  <2> HIDE DEF left
  <2>4. DOMAIN left \in SUBSET DOMAIN map  BY <2>3
  <2>5. \A y \in DOMAIN left : left[y] = map[y]  BY <2>3
  <2> QED  BY <2>2, <2>3, <2>4, <2>5 DEF left
<1>6. CASE ~(DOMAIN map # {} /\ Cardinality(DOMAIN map) >= MaxTorrents)
  <2>1. MakeRoom(t) = map  BY <1>6 DEF MakeRoom
  <2>2. DOMAIN map = {} => Cardinality(DOMAIN map) = 0  BY FS_EmptySet
  <2>3. Cardinality(DOMAIN map) < MaxTorrents  BY <1>2, <1>4, <1>6, <2>2
  <2> QED  BY <1>1, <2>1, <2>3
<1> QED  BY <1>5, <1>6
-----------------------------------------------------------------------------
(* The steps. *)

\* A token that is accepted was told, for one of the last two secrets.
LEMMA TokenVerified ==
    ASSUME StoreInv, NEW a, NEW t, NEW tok \in tokens, VerifyToken(tok, a, t)
    PROVE  \E n \in {secret[1], secret[1] - 1} : Token(a, t, n) \in tokens
  BY DEF StoreInv, TokensAreOld, VerifyToken

\* announce_peer keeps the table of torrents right, and adds one peer.
LEMMA AnnounceStep ==
    ASSUME StoreInv, NEW a \in Addrs, NEW t \in Targets, NEW tok \in tokens,
           AnnouncePeer(a, t, tok)
    PROVE  /\ IsTable(map', (SUBSET Addrs) \ {{}}, MaxTorrents)
           /\ \A y \in DOMAIN map' : \A b \in map'[y] :
                 (y \in DOMAIN map /\ b \in map[y]) \/ (y = t /\ b = a)
<1> DEFINE room == MakeRoom(t)
           old == IF t \in DOMAIN room THEN room[t] ELSE {}
<1>1. map' = With(room, t, old \cup {a})  BY DEF AnnouncePeer
<1>2. /\ IsTable(room, (SUBSET Addrs) \ {{}}, MaxTorrents)
      /\ Cardinality(DOMAIN room) < MaxTorrents
      /\ DOMAIN room \in SUBSET DOMAIN map
      /\ \A y \in DOMAIN room : room[y] = map[y]
  BY MakeRoomTable
<1> HIDE DEF room
<1>3. old \cup {a} \in (SUBSET Addrs) \ {{}}  BY <1>2 DEF IsTable
<1>4. \A b \in old : t \in DOMAIN map /\ b \in map[t]  BY <1>2
<1> DEFINE new == old \cup {a}
           V == (SUBSET Addrs) \ {{}}
<1>5. MaxTorrents \in Nat  BY LimitAssumption
<1>6. /\ IsTable(map', (SUBSET Addrs) \ {{}}, MaxTorrents)
      /\ DOMAIN map' = DOMAIN room \cup {t}
      /\ map'[t] = old \cup {a}
      /\ \A y \in DOMAIN room : y # t => map'[y] = room[y]
  <2>1. new \in V /\ IsTable(room, V, MaxTorrents)  BY <1>2, <1>3
  <2> HIDE DEF new, V, old
  <2>2. /\ IsTable(With(room, t, new), V, MaxTorrents)
        /\ DOMAIN With(room, t, new) = DOMAIN room \cup {t}
        /\ With(room, t, new)[t] = new
        /\ \A y \in DOMAIN room : y # t => With(room, t, new)[y] = room[y]
    BY <1>2, <1>5, <2>1, WithTable
  <2>3. map' = With(room, t, new)  BY <1>1 DEF new
  <2> QED  BY <2>2, <2>3 DEF new, V
<1> HIDE DEF old
<1>7. ASSUME NEW y \in DOMAIN map', NEW b \in map'[y]
      PROVE  (y \in DOMAIN map /\ b \in map[y]) \/ (y = t /\ b = a)
  <2>1. CASE y = t  BY <1>4, <1>6, <2>1
  <2>2. CASE y # t  BY <1>2, <1>6, <2>2
  <2> QED  BY <2>1, <2>2
<1> QED  BY <1>6, <1>7

\* put keeps the table of immutable items right.
LEMMA PutStep ==
    ASSUME StoreInv, NEW a \in Addrs, NEW t \in Targets, NEW tok, PutImmutable(a, t, tok)
    PROVE  IsTable(items', ItemType, MaxItems)
<1>1. PICK room \in Room(items, t, FirstFewest(items)) :
         items' = With(room, t, [from |-> (IF t \in DOMAIN room THEN room[t].from ELSE {}) \cup {a}])
  BY DEF PutImmutable
<1>2. IsTable(items, ItemType, MaxItems)  BY DEF StoreInv, TablesAreRight
<1>3. /\ IsTable(room, ItemType, MaxItems)
      /\ t \in DOMAIN room \/ Cardinality(DOMAIN room) < MaxItems
  <2>1. FirstFewest(items) \in SUBSET DOMAIN items  BY DEF FirstFewest
  <2> QED  BY <1>2, <2>1, RoomTable
<1> DEFINE item == [from |-> (IF t \in DOMAIN room THEN room[t].from ELSE {}) \cup {a}]
<1>4. item \in ItemType  BY <1>3 DEF IsTable, ItemType
<1> HIDE DEF item
<1>5. MaxItems \in Nat  BY LimitAssumption
<1>6. IsTable(With(room, t, item), ItemType, MaxItems)  BY <1>3, <1>4, <1>5, WithTable
<1> QED  BY <1>1, <1>6 DEF item

\* put of a mutable item keeps the table right and no sequence number goes back.
LEMMA PutMutableStep ==
    ASSUME StoreInv, NEW a \in Addrs, NEW t \in Targets, NEW seq \in Int, NEW tok,
           PutMutable(a, t, seq, tok)
    PROVE  /\ IsTable(mutable', MutableType, MaxItems)
           /\ \A x \in DOMAIN mutable \cap DOMAIN mutable' : mutable[x].seq <= mutable'[x].seq
<1>1. PICK room \in Room(mutable, t, LastOf(mutable)) :
         mutable' = With(room, t, [seq |-> seq,
                         from |-> (IF t \in DOMAIN room THEN room[t].from ELSE {}) \cup {a}])
  BY DEF PutMutable
<1>2. IsTable(mutable, MutableType, MaxItems)  BY DEF StoreInv, TablesAreRight
<1>3. /\ IsTable(room, MutableType, MaxItems)
      /\ t \in DOMAIN room \/ Cardinality(DOMAIN room) < MaxItems
      /\ \A y \in DOMAIN room : room[y] = mutable[y]
  <2>1. LastOf(mutable) \in SUBSET DOMAIN mutable  BY DEF LastOf
  <2> QED  BY <1>2, <2>1, RoomTable
<1> DEFINE item == [seq |-> seq,
                    from |-> (IF t \in DOMAIN room THEN room[t].from ELSE {}) \cup {a}]
<1>4. item \in MutableType /\ item.seq = seq  BY <1>3 DEF IsTable, MutableType
<1> HIDE DEF item
<1>5. MaxItems \in Nat  BY LimitAssumption
<1>6. /\ IsTable(With(room, t, item), MutableType, MaxItems)
      /\ DOMAIN With(room, t, item) = DOMAIN room \cup {t}
      /\ With(room, t, item)[t] = item
      /\ \A y \in DOMAIN room : y # t => With(room, t, item)[y] = room[y]
  <2>1. item \in MutableType /\ IsTable(room, MutableType, MaxItems)  BY <1>3, <1>4
  <2>2. t \in DOMAIN room \/ Cardinality(DOMAIN room) < MaxItems  BY <1>3
  <2>3. IsTable(With(room, t, item), MutableType, MaxItems)  BY <1>5, <2>1, <2>2, WithTable
  <2>4. DOMAIN With(room, t, item) = DOMAIN room \cup {t}  BY DEF With
  <2>5. With(room, t, item)[t] = item  BY DEF With
  <2>6. \A y \in DOMAIN room : y # t => With(room, t, item)[y] = room[y]  BY DEF With
  <2> QED  BY <2>3, <2>4, <2>5, <2>6
<1>7. mutable' = With(room, t, item)  BY <1>1 DEF item
<1>8. ASSUME NEW x \in DOMAIN mutable \cap DOMAIN mutable'
      PROVE  mutable[x].seq <= mutable'[x].seq
  <2>1. mutable[x].seq \in Int  BY <1>2 DEF IsTable, MutableType
  <2>2. CASE x = t
    <3>1. mutable[t].seq <= seq  BY <2>2 DEF PutMutable
    <3> QED  BY <1>4, <1>6, <1>7, <2>2, <3>1
  <2>3. CASE x # t  BY <1>3, <1>6, <1>7, <2>1, <2>3
  <2> QED  BY <2>2, <2>3
<1> QED  BY <1>6, <1>7, <1>8

\* connection_timeout only takes things out.
LEMMA PurgeStep ==
    ASSUME StoreInv, NEW peers, NEW old, Purge(peers, old)
    PROVE  /\ IsTable(map', (SUBSET Addrs) \ {{}}, MaxTorrents)
           /\ IsTable(items', ItemType, MaxItems)
           /\ \A y \in DOMAIN map' : y \in DOMAIN map /\ map'[y] \in SUBSET map[y]
<1>1. /\ IsTable(map, (SUBSET Addrs) \ {{}}, MaxTorrents)
      /\ IsTable(items, ItemType, MaxItems)
  BY DEF StoreInv, TablesAreRight
<1>2. MaxTorrents \in Nat /\ MaxItems \in Nat  BY LimitAssumption
<1>3. IsTable(items', ItemType, MaxItems)
  <2>1. items' = [t \in DOMAIN items \ old |-> items[t]]  BY DEF Purge
  <2>2. DOMAIN items' = DOMAIN items \ old /\ \A t \in DOMAIN items' : items'[t] = items[t]
    BY <2>1
  <2>3. IsFiniteSet(DOMAIN items) /\ Cardinality(DOMAIN items) \in Nat
    BY <1>1, TargetsFinite DEF IsTable
  <2>4. /\ Cardinality(DOMAIN items') \in Nat
        /\ Cardinality(DOMAIN items') <= Cardinality(DOMAIN items)
    BY <2>2, <2>3, FS_Subset, FS_CardinalityType
  <2>5. Cardinality(DOMAIN items') <= MaxItems  BY <1>1, <1>2, <2>3, <2>4 DEF IsTable
  <2>6. items' = [t \in DOMAIN items' |-> items'[t]]  BY <2>1
  <2> QED  BY <1>1, <2>2, <2>5, <2>6 DEF IsTable
<1> DEFINE left == [t \in DOMAIN map |-> map[t] \ peers]
<1>4. map' = [t \in {x \in DOMAIN map : left[x] # {}} |-> left[t]]  BY DEF Purge
<1>5. /\ DOMAIN map' = {x \in DOMAIN map : left[x] # {}}
      /\ \A t \in DOMAIN map' : map'[t] = map[t] \ peers /\ map'[t] # {}
  BY <1>4
<1> HIDE DEF left
<1>6. DOMAIN map' \in SUBSET DOMAIN map  BY <1>5
<1>7. IsFiniteSet(DOMAIN map) /\ Cardinality(DOMAIN map) \in Nat
  BY <1>1, TargetsFinite DEF IsTable
<1>8. /\ Cardinality(DOMAIN map') \in Nat
      /\ Cardinality(DOMAIN map') <= Cardinality(DOMAIN map)
  BY <1>6, <1>7, FS_Subset, FS_CardinalityType
<1>9. Cardinality(DOMAIN map') <= MaxTorrents  BY <1>1, <1>2, <1>7, <1>8 DEF IsTable
<1>10. map' = [t \in DOMAIN map' |-> map'[t]]  BY <1>4
<1>11. DOMAIN map' \in SUBSET Targets  BY <1>1, <1>6 DEF IsTable
<1>12. \A t \in DOMAIN map' : map'[t] \in (SUBSET Addrs) \ {{}}
  BY <1>1, <1>5, <1>6 DEF IsTable
<1>13. IsTable(map', (SUBSET Addrs) \ {{}}, MaxTorrents)  BY <1>9, <1>10, <1>11, <1>12 DEF IsTable
<1> QED  BY <1>3, <1>5, <1>6, <1>13

\* The invariant holds at first: nothing is stored, no token was told.
LEMMA StoreInvInit == Init => StoreInv
<1> SUFFICES ASSUME Init PROVE StoreInv  OBVIOUS
<1>1. TokensAreOld  BY DEF Init, TokensAreOld
<1>2. DOMAIN map = {} /\ DOMAIN items = {} /\ DOMAIN mutable = {}  BY DEF Init
<1>3. Cardinality({}) = 0  BY FS_EmptySet
<1>4. MaxTorrents \in Nat /\ MaxItems \in Nat  BY LimitAssumption
<1>5. 0 <= MaxTorrents /\ 0 <= MaxItems  BY <1>4
<1>6. /\ map = [t \in DOMAIN map |-> map[t]] /\ items = [t \in DOMAIN items |-> items[t]]
      /\ mutable = [t \in DOMAIN mutable |-> mutable[t]]
  BY DEF Init
<1>7. TablesAreRight  BY <1>2, <1>3, <1>5, <1>6 DEF TablesAreRight, IsTable
<1> QED  BY <1>1, <1>7 DEF StoreInv

\* What StoredIsEarned says of a step.
Earned ==
    /\ \A x \in Stored(map') \ Stored(map) :
         \E n \in {secret[1], secret[1] - 1} : Token(x[1], x[2], n) \in tokens
    /\ \A t \in DOMAIN mutable \cap DOMAIN mutable' : mutable[t].seq <= mutable'[t].seq

\* A step that leaves both tables alone, or only takes peers out, earns nothing.
LEMMA NothingStored ==
    ASSUME StoreInv, mutable' = mutable,
           \A y \in DOMAIN map' : y \in DOMAIN map /\ map'[y] \in SUBSET map[y]
    PROVE  Earned
<1>1. Stored(map') \in SUBSET Stored(map)  BY DEF Stored
<1>2. \A t \in DOMAIN mutable : mutable[t].seq \in Int
  BY DEF StoreInv, TablesAreRight, IsTable, MutableType
<1>3. \A t \in DOMAIN mutable : mutable[t].seq <= mutable[t].seq  BY <1>2
<1> QED  BY <1>1, <1>3 DEF Earned

\* Every step keeps the invariant, and what it stores is earned.
LEMMA StoreInvStep ==
    ASSUME StoreInv, [Next]_vars
    PROVE  StoreInv' /\ Earned
<1>0. /\ IsTable(map, (SUBSET Addrs) \ {{}}, MaxTorrents)
      /\ IsTable(items, ItemType, MaxItems)
      /\ IsTable(mutable, MutableType, MaxItems)
      /\ TokensAreOld
  BY DEF StoreInv, TablesAreRight
<1>1. ASSUME UNCHANGED vars PROVE StoreInv' /\ Earned
  <2>1. UNCHANGED <<secret, tokens, map, items, mutable>>  BY <1>1 DEF vars
  <2>2. StoreInv'  BY <2>1, <1>0 DEF StoreInv, TablesAreRight, TokensAreOld, IsTable
  <2> QED  BY <2>1, <2>2, NothingStored
<1>2. ASSUME NewWriteKey PROVE StoreInv' /\ Earned
  <2>1. UNCHANGED <<tokens, map, items, mutable>> /\ secret' = <<secret[1] + 1, secret[1]>>
    BY <1>2 DEF NewWriteKey
  <2>2. secret[1] \in Int  BY DEF StoreInv, TokensAreOld
  <2>3. /\ secret' \in Seq(Int) /\ Len(secret') = 2 /\ secret'[1] = secret[1] + 1
        /\ secret'[2] = secret'[1] - 1
    BY <2>1, <2>2
  <2>4. \A tok \in tokens : tok.secret \in Int /\ tok.secret <= secret[1]
    BY DEF StoreInv, TokensAreOld
  <2>5. \A tok \in tokens : tok.secret <= secret'[1]  BY <2>2, <2>3, <2>4
  <2>6. tokens \in SUBSET [addr : Addrs, target : Targets, secret : Int]
    BY DEF StoreInv, TokensAreOld
  <2>7. TokensAreOld'  BY <2>1, <2>3, <2>5, <2>6 DEF TokensAreOld
  <2>8. TablesAreRight'  BY <1>0, <2>1 DEF TablesAreRight, IsTable
  <2> QED  BY <2>1, <2>7, <2>8, NothingStored DEF StoreInv
<1>3. ASSUME NEW peers, NEW old, Purge(peers, old) PROVE StoreInv' /\ Earned
  <2>1. UNCHANGED <<secret, tokens, mutable>>  BY <1>3 DEF Purge
  <2>2. TokensAreOld'  BY <1>0, <2>1 DEF TokensAreOld
  <2>3. TablesAreRight'  BY <1>0, <1>3, <2>1, PurgeStep DEF TablesAreRight, IsTable
  <2> QED  BY <1>3, <2>1, <2>2, <2>3, PurgeStep, NothingStored DEF StoreInv
<1>4. ASSUME NEW a \in Addrs, NEW t \in Targets, Get(a, t) PROVE StoreInv' /\ Earned
  <2>1. /\ UNCHANGED <<secret, map, items, mutable>>
        /\ tokens' = tokens \cup {Token(a, t, secret[1])}
    BY <1>4 DEF Get
  <2>2. secret[1] \in Int  BY DEF StoreInv, TokensAreOld
  <2>3. /\ Token(a, t, secret[1]) \in [addr : Addrs, target : Targets, secret : Int]
        /\ Token(a, t, secret[1]).secret <= secret[1]
    BY <2>2 DEF Token
  <2>4. TokensAreOld'  BY <1>0, <2>1, <2>3 DEF TokensAreOld
  <2>5. TablesAreRight'  BY <1>0, <2>1 DEF TablesAreRight, IsTable
  <2> QED  BY <2>1, <2>4, <2>5, NothingStored DEF StoreInv
<1>5. ASSUME NEW a \in Addrs, NEW t \in Targets, NEW tok \in tokens, AnnouncePeer(a, t, tok)
      PROVE  StoreInv' /\ Earned
  <2>1. UNCHANGED <<secret, tokens, items, mutable>> /\ VerifyToken(tok, a, t)
    BY <1>5 DEF AnnouncePeer
  <2>2. /\ IsTable(map', (SUBSET Addrs) \ {{}}, MaxTorrents)
        /\ \A y \in DOMAIN map' : \A b \in map'[y] :
              (y \in DOMAIN map /\ b \in map[y]) \/ (y = t /\ b = a)
    BY <1>5, AnnounceStep
  <2>3. TokensAreOld'  BY <1>0, <2>1 DEF TokensAreOld
  <2>4. TablesAreRight'  BY <1>0, <2>1, <2>2 DEF TablesAreRight, IsTable
  <2>5. ASSUME NEW x \in Stored(map') \ Stored(map)
        PROVE  \E n \in {secret[1], secret[1] - 1} : Token(x[1], x[2], n) \in tokens
    <3>1. PICK y \in DOMAIN map' : x \in {<<b, y>> : b \in map'[y]}  BY DEF Stored
    <3>2. PICK b \in map'[y] : x = <<b, y>>  BY <3>1
    <3>3. ~(y \in DOMAIN map /\ b \in map[y])  BY <3>2 DEF Stored
    <3>4. y = t /\ b = a  BY <2>2, <3>3
    <3> QED  BY <2>1, <3>2, <3>4, TokenVerified
  <2>6. \A z \in DOMAIN mutable : mutable[z].seq \in Int
    BY <1>0 DEF IsTable, MutableType
  <2>7. \A z \in DOMAIN mutable : mutable[z].seq <= mutable[z].seq  BY <2>6
  <2>8. Earned  BY <2>1, <2>5, <2>7 DEF Earned
  <2> QED  BY <2>3, <2>4, <2>8 DEF StoreInv
<1>6. ASSUME NEW a \in Addrs, NEW t \in Targets, NEW tok \in tokens, PutImmutable(a, t, tok)
      PROVE  StoreInv' /\ Earned
  <2>1. UNCHANGED <<secret, tokens, map, mutable>>  BY <1>6 DEF PutImmutable
  <2>2. TokensAreOld'  BY <1>0, <2>1 DEF TokensAreOld
  <2>3. IsTable(items', ItemType, MaxItems)  BY <1>6, PutStep
  <2>4. TablesAreRight'  BY <1>0, <2>1, <2>3 DEF TablesAreRight, IsTable
  <2> QED  BY <2>1, <2>2, <2>4, NothingStored DEF StoreInv
<1>7. ASSUME NEW a \in Addrs, NEW t \in Targets, NEW tok \in tokens, NEW seq \in 1 .. MaxSeq,
             PutMutable(a, t, seq, tok)
      PROVE  StoreInv' /\ Earned
  <2>1. UNCHANGED <<secret, tokens, map, items>>  BY <1>7 DEF PutMutable
  <2>2. seq \in Int  OBVIOUS
  <2>3. /\ IsTable(mutable', MutableType, MaxItems)
        /\ \A x \in DOMAIN mutable \cap DOMAIN mutable' : mutable[x].seq <= mutable'[x].seq
    BY <1>7, <2>2, PutMutableStep
  <2>4. TokensAreOld'  BY <1>0, <2>1 DEF TokensAreOld
  <2>5. TablesAreRight'  BY <1>0, <2>1, <2>3 DEF TablesAreRight, IsTable
  <2>6. Stored(map') = Stored(map)  BY <2>1
  <2> QED  BY <2>3, <2>4, <2>5, <2>6 DEF StoreInv, Earned
<1> QED  BY <1>1, <1>2, <1>3, <1>4, <1>5, <1>6, <1>7 DEF Next

-----------------------------------------------------------------------------
\* The invariant implies that tokens are good for a whole period and that the
\* tables stay within their limits.
LEMMA StoreInvImplies == StoreInv => StoreIsRight
<1> SUFFICES ASSUME StoreInv PROVE StoreIsRight  OBVIOUS
<1>0. secret[1] \in Int  BY DEF StoreInv, TokensAreOld
<1>1. TokenIsGood
  <2> SUFFICES ASSUME NEW tok \in tokens, tok.secret >= secret[1] - 1
               PROVE  VerifyToken(tok, tok.addr, tok.target)
    BY DEF TokenIsGood
  <2>1. /\ tok \in [addr : Addrs, target : Targets, secret : Int]
        /\ tok.secret <= secret[1] /\ secret[2] = secret[1] - 1
    BY DEF StoreInv, TokensAreOld
  <2>2. tok.secret \in Int  BY <2>1
  <2>3. tok.secret = secret[1] \/ tok.secret = secret[2]  BY <1>0, <2>1, <2>2
  <2>4. tok = [addr |-> tok.addr, target |-> tok.target, secret |-> tok.secret]  BY <2>1
  <2> QED  BY <2>3, <2>4 DEF VerifyToken, Token
<1>2. StoreIsBounded  BY DEF StoreInv, TablesAreRight, IsTable, StoreIsBounded
<1> QED  BY <1>1, <1>2 DEF StoreIsRight

\* node_impl's write tokens are good for a whole period of the secret, and what
\* others make the node store stays within max_torrents and max_dht_items, for any
\* addresses, targets and limits of at least one.
THEOREM StoreTheorem == Spec => []StoreIsRight
<1>1. StoreInv /\ [Next]_vars => StoreInv'  BY StoreInvStep
<1> QED  BY <1>1, StoreInvInit, StoreInvImplies, PTL DEF Spec

\* A peer is stored only by someone who was told a token for its torrent at most
\* one secret ago, and the sequence number of a mutable item never goes back.
THEOREM EarnedTheorem == Spec => StoredIsEarned
<1>1. StoreInv /\ [Next]_vars => StoreInv'  BY StoreInvStep
<1>2. StoreInv /\ [Next]_vars => [Earned]_vars  BY StoreInvStep
<1>3. Spec => [][Earned]_vars  BY <1>1, <1>2, StoreInvInit, PTL DEF Spec
<1> QED  BY <1>3 DEF StoredIsEarned, Earned
=============================================================================
