------------------------------ MODULE DhtStore ------------------------------
(***************************************************************************)
(* What a DHT node stores for others: peers of torrents, immutable and     *)
(* mutable items, and the write tokens that guard it (node_impl).  A token *)
(* is the hash of an address, a secret and a target, and is modelled as    *)
(* that triple.  Secrets are numbered in the order they are drawn.         *)
(***************************************************************************)
EXTENDS Integers, FiniteSets

CONSTANTS
    Addrs,        \* the addresses of other nodes
    Targets,      \* 1 .. N: info-hashes and keys of items, in their order
    KeyPrefix,    \* Targets -> Targets: the first 20 bytes of the public key whose
                  \*     hash is the target
    MaxTorrents, MaxItems,  \* settings.max_torrents, max_dht_items
    MaxSeq,       \* bound on sequence numbers
    MaxKeys       \* bound on the number of secrets drawn

ASSUME TargetAssumption == IsFiniteSet(Targets) /\ Targets = 1 .. Cardinality(Targets)
ASSUME KeyAssumption == KeyPrefix \in [Targets -> Targets]
ASSUME LimitAssumption == MaxTorrents \in Nat \ {0} /\ MaxItems \in Nat \ {0}
ASSUME BoundAssumption == MaxSeq \in Nat /\ MaxKeys \in Nat

VARIABLES
    secret,   \* m_secret
    tokens,   \* history: the tokens given away
    map,      \* m_map: torrents and the addresses of their peers
    items,    \* m_immutable_table: items and who announced them
    mutable   \* m_mutable_table: items, their sequence numbers and announcers

vars == <<secret, tokens, map, items, mutable>>

Token(a, t, n) == [addr |-> a, target |-> t, secret |-> n]

\* Mutant: a token is good for every target.
VerifyTokenAny(tok, a, t) == tok.addr = a /\ tok.secret \in {secret[1], secret[2]}

VerifyToken(tok, a, t) == tok \in {Token(a, t, secret[1]), Token(a, t, secret[2])}

Without(f, x) == [y \in DOMAIN f \ {x} |-> f[y]]
With(f, x, v) == [y \in DOMAIN f \cup {x} |-> IF y = x THEN v ELSE f[y]]
Least(S) == CHOOSE x \in S : \A y \in S : x <= y

Init ==
    /\ secret = <<2, 1>>
    /\ tokens = {}
    /\ map = [t \in {} |-> {}]
    /\ items = [t \in {} |-> {}]
    /\ mutable = [t \in {} |-> {}]

\* get_peers and get: the reply has a token for the target that was asked for.
Get(a, t) ==
    /\ tokens' = tokens \cup {Token(a, t, secret[1])}
    /\ UNCHANGED <<secret, map, items, mutable>>

\* Mutant: the old secret is forgotten when a new one is drawn.
NewWriteKeyOnly ==
    /\ secret[1] < MaxKeys
    /\ secret' = <<secret[1] + 1, secret[1] + 1>>
    /\ UNCHANGED <<tokens, map, items, mutable>>

NewWriteKey ==
    /\ secret[1] < MaxKeys
    /\ secret' = <<secret[1] + 1, secret[1]>>
    /\ UNCHANGED <<tokens, map, items, mutable>>

\* The torrent with the fewest peers makes room, the last of them, and not the
\* one being announced unless it is the first of all and has the fewest.
Candidate(t) ==
    LET first == Least(DOMAIN map)
        few   == {x \in DOMAIN map \ {t} : /\ Cardinality(map[x]) <= Cardinality(map[first])
                                           /\ \A y \in DOMAIN map \ {t} :
                                                Cardinality(map[x]) <= Cardinality(map[y])}
    IN  IF few = {} THEN first ELSE CHOOSE x \in few : \A y \in few : y <= x

\* Mutant: room is made only once there are too many torrents.
MakeRoomLate(t) == IF Cardinality(DOMAIN map) > MaxTorrents THEN Without(map, Candidate(t)) ELSE map

MakeRoom(t) ==
    IF DOMAIN map # {} /\ Cardinality(DOMAIN map) >= MaxTorrents
    THEN Without(map, Candidate(t)) ELSE map

AnnouncePeer(a, t, tok) ==
    /\ VerifyToken(tok, a, t)
    /\ LET room == MakeRoom(t)
           old  == IF t \in DOMAIN room THEN room[t] ELSE {}
       IN  map' = With(room, t, old \cup {a})
    /\ UNCHANGED <<secret, tokens, items, mutable>>

\* In a full table of immutable items the first with the fewest announcers makes
\* room.  In one of mutable items it is the last: the comparison there looks only at
\* whether the later of two items has announcers, which it has.
FirstFewest(f) ==
    {x \in DOMAIN f : \A y \in DOMAIN f :
        LET n == Cardinality(f[x].from)
            m == Cardinality(f[y].from)
        IN  n < m \/ (n = m /\ x <= y)}
LastOf(f) == {x \in DOMAIN f : \A y \in DOMAIN f : y <= x}
Room(f, t, goes) ==
    IF t \in DOMAIN f \/ Cardinality(DOMAIN f) < MaxItems THEN {f}
    ELSE {Without(f, x) : x \in goes}

PutImmutable(a, t, tok) ==
    /\ VerifyToken(tok, a, t)
    /\ \E room \in Room(items, t, FirstFewest(items)) :
         items' = With(room, t, [from |-> (IF t \in DOMAIN room THEN room[t].from ELSE {}) \cup {a}])
    /\ UNCHANGED <<secret, tokens, map, mutable>>

\* Mutant: an older value may replace a newer one.
PutMutableAny(a, t, seq, tok) ==
    /\ VerifyToken(tok, a, KeyPrefix[t])
    /\ \E room \in Room(mutable, t, LastOf(mutable)) : mutable' = With(room, t, [seq |-> seq, from |-> {a}])
    /\ UNCHANGED <<secret, tokens, map, items>>

\* The token is checked against the first bytes of the key, the item is kept
\* under the hash of the key.
PutMutable(a, t, seq, tok) ==
    /\ VerifyToken(tok, a, KeyPrefix[t])
    /\ t \in DOMAIN mutable => mutable[t].seq <= seq
    /\ \E room \in Room(mutable, t, LastOf(mutable)) :
         mutable' = With(room, t, [seq |-> seq,
                         from |-> (IF t \in DOMAIN room THEN room[t].from ELSE {}) \cup {a}])
    /\ UNCHANGED <<secret, tokens, map, items>>

\* connection_timeout: peers that have not announced again, and immutable items
\* that have not been put again, are dropped; torrents without peers too.
Purge(peers, old) ==
    /\ map' = LET left == [t \in DOMAIN map |-> map[t] \ peers]
              IN  [t \in {x \in DOMAIN map : left[x] # {}} |-> left[t]]
    /\ items' = [t \in DOMAIN items \ old |-> items[t]]
    /\ UNCHANGED <<secret, tokens, mutable>>

Next ==
    \/ NewWriteKey
    \/ \E peers \in SUBSET Addrs, old \in SUBSET Targets :
         Purge(peers, old)
    \/ \E a \in Addrs, t \in Targets :
         \/ Get(a, t)
         \/ \E tok \in tokens :
              \/ AnnouncePeer(a, t, tok)
              \/ PutImmutable(a, t, tok)
              \/ \E seq \in 1 .. MaxSeq : PutMutable(a, t, seq, tok)

Spec == Init /\ [][Next]_vars
-----------------------------------------------------------------------------
(* Properties *)

Stored(m) == UNION {{<<a, t>> : a \in m[t]} : t \in DOMAIN m}

\* A peer is stored only if its address was told a token for that torrent, and
\* at most one new secret has been drawn since; and as long as a mutable item
\* is stored its sequence number does not go back.
StoredIsEarned ==
    [][/\ \A x \in Stored(map') \ Stored(map) :
            \E n \in {secret[1], secret[1] - 1} : Token(x[1], x[2], n) \in tokens
       /\ \A t \in DOMAIN mutable \cap DOMAIN mutable' : mutable[t].seq <= mutable'[t].seq]_vars

\* A token is good for a whole period of the secret, whenever in it the secret
\* changed: with one told since the last but one change a peer can announce.
TokenIsGood ==
    \A tok \in tokens : tok.secret >= secret[1] - 1 => VerifyToken(tok, tok.addr, tok.target)

\* The torrents and items that others make us store stay within their limits,
\* at a limit of one too.
StoreIsBounded ==
    /\ Cardinality(DOMAIN map) <= MaxTorrents
    /\ Cardinality(DOMAIN items) <= MaxItems /\ Cardinality(DOMAIN mutable) <= MaxItems
    /\ \A t \in DOMAIN map : map[t] # {}

\* Whoever was told a token can use it, and what is stored stays bounded.
StoreIsRight == TokenIsGood /\ StoreIsBounded
=============================================================================
