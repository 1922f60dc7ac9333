---------------------------- MODULE ChokerProofs ----------------------------
(***************************************************************************)
(* Proofs about Choker, for any number of peers and torrents: the slots    *)
(* that the session and the torrents count are those in use.               *)
(***************************************************************************)
EXTENDS Choker, RankLemmas

PeerRec == [up : BOOLEAN, interested : BOOLEAN, choked : BOOLEAN, optimistic : BOOLEAN]
State == [peer : [Peers -> PeerRec], uploads : [Torrents -> Int], unchoked : Int]

\* What peer p takes of the slots when it is x.
Use(x, p) == IF ~x.choked /\ p \notin Exempt THEN 1 ELSE 0

Users(s) == {p \in Peers : Using(s, p)}
UsersOf(s, t) == {p \in Peers : TorrentOf[p] = t /\ Using(s, p)}
Opts(s) == {p \in Peers : s.peer[p].optimistic}

\* A peer that is not connected is as good as new, an optimistic slot is a slot
\* that is counted, and the peers of the torrents in out have none of those.
PeerRight(p, x, out) ==
    /\ ~x.up => x = Gone
    /\ p \in Exempt => ~x.optimistic
    /\ x.optimistic => ~x.choked
    /\ x.up /\ TorrentOf[p] \in out => ~x.optimistic

\* All of that, and the counts of the torrents; the count of the session is wrong
\* while a round is under way.
Sound(s, out) ==
    /\ s \in State
    /\ \A p \in Peers : PeerRight(p, s.peer[p], out)
    /\ \A t \in Torrents : s.uploads[t] = Cardinality(UsersOf(s, t))

\* The inductive invariant.
ChokerInv ==
    /\ Sound(Now, paused)
    /\ unchoked = Cardinality(Users(Now))
    /\ Optimistic # 0 => Cardinality(Opts(Now)) <= Optimistic
    /\ slots \in Int /\ setting.limit \in Int

-----------------------------------------------------------------------------
(* One peer. *)

\* Sets of peers are finite.
LEMMA PeersFinite ==
    ASSUME NEW S \in SUBSET Peers
    PROVE  /\ IsFiniteSet(S) /\ Cardinality(S) \in Nat
           /\ \A T \in SUBSET S : Cardinality(T) <= Cardinality(S)
  BY PeersAssumption, FS_Subset, FS_CardinalityType

\* A set that gains or loses one peer.
LEMMA OnePeer ==
    ASSUME NEW A \in SUBSET Peers, NEW B \in SUBSET Peers, NEW p \in Peers,
           \A q \in Peers \ {p} : q \in A <=> q \in B
    PROVE  Cardinality(B) = Cardinality(A) + (IF p \in B THEN 1 ELSE 0) - (IF p \in A THEN 1 ELSE 0)
<1>1. IsFiniteSet(A) /\ Cardinality(A) \in Nat  BY PeersFinite
<1>2. CASE p \in A <=> p \in B
  <2>1. A = B  BY <1>2
  <2> QED  BY <1>1, <2>1
<1>3. CASE p \notin A /\ p \in B
  <2>1. B = A \cup {p}  BY <1>3
  <2> QED  BY <1>1, <1>3, <2>1, FS_AddElement
<1>4. CASE p \in A /\ p \notin B
  <2>1. B = A \ {p}  BY <1>4
  <2> QED  BY <1>1, <1>4, <2>1, FS_RemoveElement
<1> QED  BY <1>2, <1>3, <1>4

\* What Put changes.
LEMMA PutFields ==
    ASSUME NEW s \in State, NEW p \in Peers, NEW x \in PeerRec, NEW n \in Int, NEW m \in Int
    PROVE  LET t == Put(s, p, x, n, m)
           IN  /\ t \in State /\ t.peer[p] = x /\ t.unchoked = s.unchoked + m
               /\ \A q \in Peers \ {p} : t.peer[q] = s.peer[q]
               /\ t.uploads[TorrentOf[p]] = s.uploads[TorrentOf[p]] + n
               /\ \A v \in Torrents \ {TorrentOf[p]} : t.uploads[v] = s.uploads[v]
<1> DEFINE t == Put(s, p, x, n, m)
<1>1. s.peer \in [Peers -> PeerRec] /\ s.uploads \in [Torrents -> Int] /\ s.unchoked \in Int
  BY DEF State
<1>2. TorrentOf[p] \in Torrents  BY PeersAssumption
<1>3. /\ t.peer = [s.peer EXCEPT ![p] = x] /\ t.unchoked = s.unchoked + m
      /\ t.uploads = [s.uploads EXCEPT ![TorrentOf[p]] = s.uploads[TorrentOf[p]] + n]
      /\ t = [peer |-> t.peer, uploads |-> t.uploads, unchoked |-> t.unchoked]
  BY DEF Put
<1> HIDE DEF t
<1>4. /\ t.peer \in [Peers -> PeerRec] /\ t.peer[p] = x
      /\ \A q \in Peers \ {p} : t.peer[q] = s.peer[q]
  BY <1>1, <1>3
<1>5. s.uploads[TorrentOf[p]] + n \in Int /\ t.unchoked \in Int  BY <1>1, <1>2, <1>3
<1>6. /\ t.uploads \in [Torrents -> Int] /\ t.uploads[TorrentOf[p]] = s.uploads[TorrentOf[p]] + n
      /\ \A v \in Torrents \ {TorrentOf[p]} : t.uploads[v] = s.uploads[v]
  BY <1>1, <1>2, <1>3, <1>5
<1>7. t \in State  BY <1>3, <1>4, <1>5, <1>6 DEF State
<1> QED  BY <1>3, <1>4, <1>6, <1>7 DEF t

\* A change of one peer that the torrent counts.
LEMMA PutRight ==
    ASSUME NEW out, NEW s, Sound(s, out), NEW p \in Peers, NEW x \in PeerRec, NEW n \in Int, NEW m \in Int,
           PeerRight(p, x, out), n = Use(x, p) - Use(s.peer[p], p)
    PROVE  LET t == Put(s, p, x, n, m)
           IN  /\ Sound(t, out) /\ t.peer[p] = x /\ t.unchoked = s.unchoked + m
               /\ \A q \in Peers \ {p} : t.peer[q] = s.peer[q]
               /\ Cardinality(Users(t)) = Cardinality(Users(s)) + n
               /\ Cardinality(Opts(t)) = Cardinality(Opts(s)) + (IF x.optimistic THEN 1 ELSE 0)
                                           - (IF s.peer[p].optimistic THEN 1 ELSE 0)
<1> DEFINE t == Put(s, p, x, n, m)
<1>1. s \in State /\ (\A q \in Peers : PeerRight(q, s.peer[q], out))
      /\ \A v \in Torrents : s.uploads[v] = Cardinality(UsersOf(s, v))
  BY DEF Sound
<1>2. /\ t \in State /\ t.peer[p] = x /\ t.unchoked = s.unchoked + m
      /\ \A q \in Peers \ {p} : t.peer[q] = s.peer[q]
      /\ t.uploads[TorrentOf[p]] = s.uploads[TorrentOf[p]] + n
      /\ \A v \in Torrents \ {TorrentOf[p]} : t.uploads[v] = s.uploads[v]
  BY <1>1, PutFields
<1> HIDE DEF t
<1>3. \A q \in Peers : PeerRight(q, t.peer[q], out)  BY <1>1, <1>2
<1>4. /\ \A q \in Peers \ {p} : Using(t, q) <=> Using(s, q)
      /\ (IF Using(t, p) THEN 1 ELSE 0) = Use(x, p)
      /\ (IF Using(s, p) THEN 1 ELSE 0) = Use(s.peer[p], p)
      /\ Use(x, p) \in Int /\ Use(s.peer[p], p) \in Int
  BY <1>2 DEF Using, Use
<1>5. TorrentOf[p] \in Torrents  BY PeersAssumption
<1>6. ASSUME NEW v \in Torrents
      PROVE  t.uploads[v] = Cardinality(UsersOf(t, v))
  <2>1. \A q \in Peers \ {p} : q \in UsersOf(s, v) <=> q \in UsersOf(t, v)  BY <1>4 DEF UsersOf
  <2>2. UsersOf(s, v) \in SUBSET Peers /\ UsersOf(t, v) \in SUBSET Peers  BY DEF UsersOf
  <2>3. Cardinality(UsersOf(s, v)) \in Nat  BY <2>2, PeersFinite
  <2>4. Cardinality(UsersOf(t, v)) = Cardinality(UsersOf(s, v))
            + (IF p \in UsersOf(t, v) THEN 1 ELSE 0) - (IF p \in UsersOf(s, v) THEN 1 ELSE 0)
    BY <2>1, <2>2, OnePeer
  <2>5. CASE v = TorrentOf[p]
    <3>1. /\ (IF p \in UsersOf(t, v) THEN 1 ELSE 0) = Use(x, p)
          /\ (IF p \in UsersOf(s, v) THEN 1 ELSE 0) = Use(s.peer[p], p)
      BY <1>4, <2>5 DEF UsersOf
    <3>2. t.uploads[v] = Cardinality(UsersOf(s, v)) + n  BY <1>1, <1>2, <2>5
    <3> QED  BY <1>4, <2>3, <2>4, <3>1, <3>2
  <2>6. CASE v # TorrentOf[p]
    <3>1. p \notin UsersOf(t, v) /\ p \notin UsersOf(s, v)  BY <2>6 DEF UsersOf
    <3>2. t.uploads[v] = Cardinality(UsersOf(s, v))  BY <1>1, <1>2, <2>6
    <3> QED  BY <2>3, <2>4, <3>1, <3>2
  <2> QED  BY <2>5, <2>6
<1>7. Cardinality(Users(t)) = Cardinality(Users(s)) + n
  <2>1. \A q \in Peers \ {p} : q \in Users(s) <=> q \in Users(t)  BY <1>4 DEF Users
  <2>2. Users(s) \in SUBSET Peers /\ Users(t) \in SUBSET Peers  BY DEF Users
  <2>3. Cardinality(Users(s)) \in Nat  BY <2>2, PeersFinite
  <2>4. Cardinality(Users(t)) = Cardinality(Users(s))
            + (IF p \in Users(t) THEN 1 ELSE 0) - (IF p \in Users(s) THEN 1 ELSE 0)
    BY <2>1, <2>2, OnePeer
  <2>5. /\ (IF p \in Users(t) THEN 1 ELSE 0) = Use(x, p)
        /\ (IF p \in Users(s) THEN 1 ELSE 0) = Use(s.peer[p], p)
    BY <1>4 DEF Users
  <2> QED  BY <1>4, <2>3, <2>4, <2>5
<1>8. Cardinality(Opts(t)) = Cardinality(Opts(s)) + (IF x.optimistic THEN 1 ELSE 0)
                                - (IF s.peer[p].optimistic THEN 1 ELSE 0)
  <2>1. \A q \in Peers \ {p} : q \in Opts(s) <=> q \in Opts(t)  BY <1>2 DEF Opts
  <2>2. Opts(s) \in SUBSET Peers /\ Opts(t) \in SUBSET Peers  BY DEF Opts
  <2>3. (p \in Opts(t) <=> x.optimistic) /\ (p \in Opts(s) <=> s.peer[p].optimistic)
    BY <1>2 DEF Opts
  <2>4. Cardinality(Opts(t)) = Cardinality(Opts(s))
            + (IF p \in Opts(t) THEN 1 ELSE 0) - (IF p \in Opts(s) THEN 1 ELSE 0)
    BY <2>1, <2>2, OnePeer
  <2> QED  BY <2>3, <2>4
<1>9. Sound(t, out)  BY <1>2, <1>3, <1>6 DEF Sound
<1> QED  BY <1>2, <1>7, <1>8, <1>9 DEF t

\* From s to t peer p may have changed, and neither side has forgotten a slot: the
\* session has counted m.
Changed(s, t, p, m, out) ==
    /\ Sound(t, out) /\ t.unchoked = s.unchoked + m
    /\ \A q \in Peers \ {p} : t.peer[q] = s.peer[q]

\* choke_peer.
LEMMA ChokeRight ==
    ASSUME NEW out, NEW s, Sound(s, out), NEW p \in Peers \ Exempt, NEW m \in Int
    PROVE  LET t == ChokePeer(s, p, m)
           IN  /\ Changed(s, t, p, m, out)
               /\ t.peer[p].choked /\ ~t.peer[p].optimistic
               /\ t.peer[p].up = s.peer[p].up
               /\ Cardinality(Users(t)) = Cardinality(Users(s)) - Slot(s, p)
               /\ Cardinality(Opts(t)) = Cardinality(Opts(s)) - (IF s.peer[p].optimistic THEN 1 ELSE 0)
<1> DEFINE x == [s.peer[p] EXCEPT !.choked = TRUE, !.optimistic = FALSE]
           n == 0 - Slot(s, p)
           t == Put(s, p, x, n, m)
<1>1. s.peer[p] \in PeerRec /\ PeerRight(p, s.peer[p], out)  BY DEF Sound, State
<1>2. x \in PeerRec /\ x.choked /\ ~x.optimistic /\ x.up = s.peer[p].up  BY <1>1 DEF PeerRec
<1>3. PeerRight(p, x, out)
  <2>1. ASSUME ~x.up  PROVE x = Gone
    <3>1. s.peer[p] = Gone  BY <1>1, <1>2, <2>1 DEF PeerRight
    <3>2. Gone \in PeerRec /\ Gone.choked = TRUE /\ Gone.optimistic = FALSE  BY DEF Gone, PeerRec
    <3>3. [Gone EXCEPT !.choked = TRUE, !.optimistic = FALSE] = Gone  BY <3>2 DEF PeerRec
    <3> QED  BY <3>1, <3>3
  <2> HIDE DEF x
  <2> QED  BY <1>2, <2>1 DEF PeerRight
<1> HIDE DEF x
<1>4. n \in Int /\ n = Use(x, p) - Use(s.peer[p], p) /\ Slot(s, p) \in Int
  BY <1>2 DEF Use, Slot
<1> HIDE DEF n
<1>5. /\ Sound(t, out) /\ t.peer[p] = x /\ t.unchoked = s.unchoked + m
      /\ \A q \in Peers \ {p} : t.peer[q] = s.peer[q]
      /\ Cardinality(Users(t)) = Cardinality(Users(s)) + n
      /\ Cardinality(Opts(t)) = Cardinality(Opts(s)) + (IF x.optimistic THEN 1 ELSE 0)
                                  - (IF s.peer[p].optimistic THEN 1 ELSE 0)
  BY <1>2, <1>3, <1>4, PutRight
<1>6. ChokePeer(s, p, m) = t  BY DEF ChokePeer, t, x, n
<1> HIDE DEF t
<1>7. Users(s) \in SUBSET Peers /\ Opts(s) \in SUBSET Peers  BY DEF Users, Opts
<1>8. Cardinality(Users(s)) \in Nat /\ Cardinality(Opts(s)) \in Nat  BY <1>7, PeersFinite
<1>9. Cardinality(Users(t)) = Cardinality(Users(s)) - Slot(s, p)  BY <1>4, <1>5, <1>8 DEF n
<1>10. Cardinality(Opts(t)) = Cardinality(Opts(s)) - (IF s.peer[p].optimistic THEN 1 ELSE 0)
  BY <1>2, <1>5, <1>8
<1>11. Changed(s, t, p, m, out)  BY <1>5 DEF Changed
<1> QED  BY <1>2, <1>5, <1>6, <1>9, <1>10, <1>11

\* unchoke_peer, of a peer that is choked.
LEMMA UnchokeRight ==
    ASSUME NEW out, NEW s, Sound(s, out), NEW p \in Peers \ Exempt,
           s.peer[p].up, s.peer[p].choked
    PROVE  LET t == UnchokePeer(s, p, FALSE)
           IN  /\ Changed(s, t, p, 1, out)
               /\ ~t.peer[p].choked /\ ~t.peer[p].optimistic
               /\ t.peer[p].up = s.peer[p].up
               /\ Cardinality(Users(t)) = Cardinality(Users(s)) + 1
               /\ Cardinality(Opts(t)) = Cardinality(Opts(s))
<1> DEFINE x == [s.peer[p] EXCEPT !.choked = FALSE, !.optimistic = FALSE]
           t == Put(s, p, x, 1, 1)
<1>1. s.peer[p] \in PeerRec /\ PeerRight(p, s.peer[p], out)  BY DEF Sound, State
<1>2. x \in PeerRec /\ ~x.choked /\ ~x.optimistic /\ x.up = s.peer[p].up
  BY <1>1 DEF PeerRec
<1> HIDE DEF x
<1>3. PeerRight(p, x, out) /\ ~s.peer[p].optimistic  BY <1>1, <1>2 DEF PeerRight
<1>4. 1 \in Int /\ 1 = Use(x, p) - Use(s.peer[p], p)  BY <1>2 DEF Use
<1>5. /\ Sound(t, out) /\ t.peer[p] = x /\ t.unchoked = s.unchoked + 1
      /\ \A q \in Peers \ {p} : t.peer[q] = s.peer[q]
      /\ Cardinality(Users(t)) = Cardinality(Users(s)) + 1
      /\ Cardinality(Opts(t)) = Cardinality(Opts(s)) + (IF x.optimistic THEN 1 ELSE 0)
                                  - (IF s.peer[p].optimistic THEN 1 ELSE 0)
  BY <1>2, <1>3, <1>4, PutRight
<1>6. UnchokePeer(s, p, FALSE) = t  BY DEF UnchokePeer, t, x
<1> HIDE DEF t
<1>7. Opts(s) \in SUBSET Peers  BY DEF Opts
<1>8. Cardinality(Opts(s)) \in Nat  BY <1>7, PeersFinite
<1>9. Cardinality(Opts(t)) = Cardinality(Opts(s))
  BY <1>2, <1>3, <1>5, <1>8
<1>10. Changed(s, t, p, 1, out)  BY <1>5 DEF Changed
<1> QED  BY <1>2, <1>5, <1>6, <1>9, <1>10

\* The same for an optimistic slot.
LEMMA OptimisticRight ==
    ASSUME NEW out, NEW s, Sound(s, out), NEW p \in Peers \ Exempt,
           s.peer[p].up, s.peer[p].choked, TorrentOf[p] \notin out
    PROVE  LET t == UnchokePeer(s, p, TRUE)
           IN  /\ Changed(s, t, p, 1, out)
               /\ ~t.peer[p].choked /\ t.peer[p].optimistic
               /\ t.peer[p].up = s.peer[p].up
               /\ Cardinality(Users(t)) = Cardinality(Users(s)) + 1
               /\ Cardinality(Opts(t)) = Cardinality(Opts(s)) + 1
<1> DEFINE x == [s.peer[p] EXCEPT !.choked = FALSE, !.optimistic = TRUE]
           t == Put(s, p, x, 1, 1)
<1>1. s.peer[p] \in PeerRec /\ PeerRight(p, s.peer[p], out)  BY DEF Sound, State
<1>2. x \in PeerRec /\ ~x.choked /\ x.optimistic /\ x.up = s.peer[p].up
  BY <1>1 DEF PeerRec
<1> HIDE DEF x
<1>3. PeerRight(p, x, out) /\ ~s.peer[p].optimistic  BY <1>1, <1>2 DEF PeerRight
<1>4. 1 \in Int /\ 1 = Use(x, p) - Use(s.peer[p], p)  BY <1>2 DEF Use
<1>5. /\ Sound(t, out) /\ t.peer[p] = x /\ t.unchoked = s.unchoked + 1
      /\ \A q \in Peers \ {p} : t.peer[q] = s.peer[q]
      /\ Cardinality(Users(t)) = Cardinality(Users(s)) + 1
      /\ Cardinality(Opts(t)) = Cardinality(Opts(s)) + (IF x.optimistic THEN 1 ELSE 0)
                                  - (IF s.peer[p].optimistic THEN 1 ELSE 0)
  BY <1>2, <1>3, <1>4, PutRight
<1>6. UnchokePeer(s, p, TRUE) = t  BY DEF UnchokePeer, t, x
<1> HIDE DEF t
<1>7. Opts(s) \in SUBSET Peers  BY DEF Opts
<1>8. Cardinality(Opts(s)) \in Nat  BY <1>7, PeersFinite
<1>9. Cardinality(Opts(t)) = Cardinality(Opts(s)) + 1
  BY <1>2, <1>3, <1>5, <1>8
<1>10. Changed(s, t, p, 1, out)  BY <1>5 DEF Changed
<1> QED  BY <1>2, <1>5, <1>6, <1>9, <1>10

\* A peer whose slot stays what it is; the session counts m.
LEMMA SameSlot ==
    ASSUME NEW out, NEW s, Sound(s, out), NEW p \in Peers, NEW x \in PeerRec, NEW m \in Int,
           PeerRight(p, x, out), p \in Exempt \/ x.choked = s.peer[p].choked
    PROVE  LET t == Put(s, p, x, 0, m)
           IN  /\ Changed(s, t, p, m, out) /\ t.peer[p] = x
               /\ Cardinality(Users(t)) = Cardinality(Users(s))
               /\ (x.optimistic => s.peer[p].optimistic) => Cardinality(Opts(t)) <= Cardinality(Opts(s))
<1> DEFINE t == Put(s, p, x, 0, m)
<1>1. 0 \in Int /\ 0 = Use(x, p) - Use(s.peer[p], p)  BY DEF Use
<1>2. /\ Sound(t, out) /\ t.peer[p] = x /\ t.unchoked = s.unchoked + m
      /\ \A q \in Peers \ {p} : t.peer[q] = s.peer[q]
      /\ Cardinality(Users(t)) = Cardinality(Users(s)) + 0
      /\ Cardinality(Opts(t)) = Cardinality(Opts(s)) + (IF x.optimistic THEN 1 ELSE 0)
                                  - (IF s.peer[p].optimistic THEN 1 ELSE 0)
  BY <1>1, PutRight
<1> HIDE DEF t
<1>3. Users(s) \in SUBSET Peers /\ Opts(s) \in SUBSET Peers  BY DEF Users, Opts
<1>4. Cardinality(Users(s)) \in Nat /\ Cardinality(Opts(s)) \in Nat  BY <1>3, PeersFinite
<1>5. (x.optimistic => s.peer[p].optimistic) => Cardinality(Opts(t)) <= Cardinality(Opts(s))
  BY <1>2, <1>4
<1>6. Cardinality(Users(t)) = Cardinality(Users(s))  BY <1>2, <1>4
<1> QED  BY <1>2, <1>5, <1>6 DEF t, Changed

\* disconnect.
LEMMA DropRight ==
    ASSUME NEW out, NEW s, Sound(s, out), NEW p \in Peers
    PROVE  LET t == Disconnected(s, p)
               n == IF Using(s, p) THEN 0 - 1 ELSE 0
           IN  /\ Changed(s, t, p, n, out) /\ t.peer[p] = Gone
               /\ Cardinality(Users(t)) = Cardinality(Users(s)) + n
               /\ Cardinality(Opts(t)) <= Cardinality(Opts(s))
<1> DEFINE n == IF Using(s, p) THEN 0 - 1 ELSE 0
           t == Put(s, p, Gone, n, n)
<1>1. s.peer[p] \in PeerRec /\ s.peer[p].choked \in BOOLEAN  BY DEF Sound, State, PeerRec
<1>2. Gone \in PeerRec /\ Gone.choked = TRUE /\ Gone.optimistic = FALSE /\ Gone.up = FALSE
  BY DEF Gone, PeerRec
<1>3. PeerRight(p, Gone, out)  BY <1>2 DEF PeerRight
<1>4. n \in Int /\ n = Use(Gone, p) - Use(s.peer[p], p)  BY <1>2 DEF Use, Using
<1>5. Disconnected(s, p) = t  BY DEF Disconnected
<1> HIDE DEF n
<1>6. /\ Sound(t, out) /\ t.peer[p] = Gone /\ t.unchoked = s.unchoked + n
      /\ \A q \in Peers \ {p} : t.peer[q] = s.peer[q]
      /\ Cardinality(Users(t)) = Cardinality(Users(s)) + n
      /\ Cardinality(Opts(t)) = Cardinality(Opts(s)) + (IF Gone.optimistic THEN 1 ELSE 0)
                                  - (IF s.peer[p].optimistic THEN 1 ELSE 0)
  BY <1>2, <1>3, <1>4, PutRight
<1> HIDE DEF t
<1>7. Opts(s) \in SUBSET Peers  BY DEF Opts
<1>8. Cardinality(Opts(s)) \in Nat  BY <1>7, PeersFinite
<1>9. Cardinality(Opts(t)) <= Cardinality(Opts(s))  BY <1>2, <1>6, <1>8
<1>10. Changed(s, t, p, n, out)  BY <1>6 DEF Changed
<1> QED  BY <1>5, <1>6, <1>9, <1>10 DEF n

-----------------------------------------------------------------------------
(* What is done peer by peer. *)

\* A property that the first value has and every step keeps, holds of all.
LEMMA FoldKeeps ==
    ASSUME NEW N \in Nat, NEW r, NEW good, r[0] \in good[0],
           \A n \in 1 .. N : r[n - 1] \in good[n - 1] => r[n] \in good[n]
    PROVE  \A n \in 0 .. N : r[n] \in good[n]
<1> DEFINE Bad == {n \in 0 .. N : r[n] \notin good[n]}
<1> SUFFICES ASSUME Bad # {}  PROVE FALSE  OBVIOUS
<1>1. Bad \in SUBSET Nat  OBVIOUS
<1>2. PICK n \in Bad : \A m \in Bad : n <= m
  <2> HIDE DEF Bad
  <2> QED  BY <1>1, LeastNatural
<1>3. n \in 0 .. N /\ r[n] \notin good[n] /\ n # 0  BY <1>2
<1>4. n \in 1 .. N /\ n - 1 \in 0 .. N /\ ~(n <= n - 1)  BY <1>3
<1>5. n - 1 \notin Bad  BY <1>2, <1>4
<1> QED  BY <1>3, <1>4, <1>5

Follows(r, N, s, f) == r = [n \in 0 .. N |-> IF n = 0 THEN s ELSE f[<<n, r[n - 1]>>]]
Within(r, N, good) == \A n \in 0 .. N : r[n] \in good[n]
Stays(N, s, f, good) ==
    s \in good[0] /\ \A n \in 1 .. N : \A v \in good[n - 1] : f[<<n, v>>] \in good[n]

\* If the steps that f takes keep such a property, there are values as the
\* recursive definition of Over wants them.
LEMMA FoldExists ==
    ASSUME NEW N \in Nat, NEW s, NEW f, NEW good, Stays(N, s, f, good)
    PROVE  \E r : Follows(r, N, s, f) /\ Within(r, N, good)
<1>0. s \in good[0] /\ \A n \in 1 .. N : \A v \in good[n - 1] : f[<<n, v>>] \in good[n]  BY DEF Stays
<1> DEFINE Fits(r, m) == /\ r = [n \in 0 .. m |-> r[n]] /\ r[0] = s
                         /\ \A n \in 1 .. m : r[n] = f[<<n, r[n - 1]>>]
                         /\ \A n \in 0 .. m : r[n] \in good[n]
           Bad == {m \in 0 .. N : ~ \E r : Fits(r, m)}
<1>1. Bad = {}
  <2> SUFFICES ASSUME Bad # {}  PROVE FALSE  OBVIOUS
  <2>1. Bad \in SUBSET Nat  OBVIOUS
  <2>2. PICK m \in Bad : \A k \in Bad : m <= k
    <3> HIDE DEF Bad
    <3> QED  BY <2>1, LeastNatural
  <2>3. m \in 0 .. N /\ ~ \E r : Fits(r, m)  BY <2>2
  <2>4. CASE m = 0
    <3> DEFINE r == [n \in 0 .. 0 |-> s]
    <3>1. Fits(r, 0)  BY <1>0
    <3> QED  BY <2>3, <2>4, <3>1
  <2>5. CASE m # 0
    <3>1. m - 1 \in 0 .. N /\ ~(m <= m - 1) /\ m \in 1 .. N /\ m - 1 \in 0 .. (m - 1)  BY <2>3, <2>5
    <3>2. m - 1 \notin Bad  BY <2>2, <3>1
    <3>3. PICK q : Fits(q, m - 1)  BY <3>1, <3>2
    <3> DEFINE r == [n \in 0 .. m |-> IF n = m THEN f[<<m, q[m - 1]>>] ELSE q[n]]
    <3>4. q[m - 1] \in good[m - 1]  BY <3>1, <3>3
    <3>5. f[<<m, q[m - 1]>>] \in good[m]  BY <1>0, <3>1, <3>4
    <3>6. r[m] = f[<<m, q[m - 1]>>] /\ \A n \in 0 .. (m - 1) : r[n] = q[n]  BY <3>1
    <3>7. r = [n \in 0 .. m |-> r[n]]  OBVIOUS
    <3> HIDE DEF r
    <3>8. r[0] = s  BY <3>1, <3>3, <3>6, SMTT(60)
    <3>9. ASSUME NEW n \in 1 .. m  PROVE r[n] = f[<<n, r[n - 1]>>]
      <4>1. CASE n = m  BY <3>1, <3>6, <4>1
      <4>2. CASE n # m
        <5>1. n \in 1 .. (m - 1) /\ n - 1 \in 0 .. (m - 1) /\ n \in 0 .. (m - 1)  BY <3>1, <4>2
        <5> QED  BY <3>3, <3>6, <5>1
      <4> QED  BY <4>1, <4>2
    <3>10. ASSUME NEW n \in 0 .. m  PROVE r[n] \in good[n]
      <4>1. CASE n = m  BY <3>5, <3>6, <4>1
      <4>2. CASE n # m
        <5>1. n \in 0 .. (m - 1)  BY <3>1, <4>2
        <5> QED  BY <3>3, <3>6, <5>1
      <4> QED  BY <4>1, <4>2
    <3>11. Fits(r, m)  BY <3>7, <3>8, <3>9, <3>10
    <3> QED  BY <2>3, <3>11
  <2> QED  BY <2>4, <2>5
<1>2. N \in 0 .. N  OBVIOUS
<1>3. PICK r : Fits(r, N)  BY <1>1, <1>2
<1>4. r = [n \in 0 .. N |-> r[n]] /\ \A n \in 0 .. N : r[n] \in good[n]  BY <1>3
<1>5. ASSUME NEW n \in 0 .. N
      PROVE  r[n] = IF n = 0 THEN s ELSE f[<<n, r[n - 1]>>]
  <2>1. CASE n = 0  BY <1>3, <2>1
  <2>2. CASE n # 0
    <3>1. n \in 1 .. N  BY <2>2
    <3> QED  BY <1>3, <2>2, <3>1
  <2> QED  BY <2>1, <2>2
<1>6. r = [n \in 0 .. N |-> IF n = 0 THEN s ELSE f[<<n, r[n - 1]>>]]
  <2> HIDE DEF Fits
  <2> QED  BY <1>4, <1>5
<1> QED  BY <1>4, <1>6 DEF Follows, Within

\* An order of a set of peers goes through all of them, once, and there is one.
LEMMA OrderRight ==
    ASSUME NEW S \in SUBSET Peers
    PROVE  /\ Orders(S) # {}
           /\ \A o \in Orders(S) :
                /\ o \in [1 .. Len(o) -> S] /\ Len(o) \in Nat /\ Len(o) = Cardinality(S)
                /\ \A p \in S : \E n \in 1 .. Len(o) : o[n] = p
                /\ \A m, n \in 1 .. Len(o) : o[m] = o[n] => m = n
<1> DEFINE N == Cardinality(S)
<1>1. IsFiniteSet(S) /\ N \in Nat /\ ExistsBijection(1 .. N, S)
  BY PeersFinite, FS_CardinalityType
<1>2. Orders(S) # {}
  <2>1. PICK o : o \in Bijection(1 .. N, S)  BY <1>1 DEF ExistsBijection
  <2>2. o \in [1 .. N -> S] /\ \A i, j \in 1 .. N : o[i] = o[j] => i = j
    BY <2>1 DEF Bijection, Injection, IsInjective
  <2>3. DOMAIN o = 1 .. N  BY <2>2
  <2>4. o \in Orders(S)  BY <2>2, <2>3 DEF Orders
  <2> QED  BY <2>4
<1>3. ASSUME NEW o \in Orders(S)
      PROVE  /\ o \in [1 .. Len(o) -> S] /\ Len(o) = N
             /\ \A p \in S : \E n \in 1 .. Len(o) : o[n] = p
             /\ \A m, n \in 1 .. Len(o) : o[m] = o[n] => m = n
  <2>1. o \in [1 .. N -> S] /\ \A i, j \in DOMAIN o : o[i] = o[j] => i = j  BY DEF Orders
  <2>2. DOMAIN o = 1 .. N  BY <2>1
  <2>3. Len(o) = N  BY <1>1, <2>1, <2>2
  <2>4. o \in Injection(1 .. N, S)  BY <2>1, <2>2 DEF Injection, IsInjective
  <2>5. Cardinality(1 .. N) = N
    <3>1. 1 \in Int /\ N \in Int  BY <1>1
    <3>2. Cardinality(1 .. N) = IF 1 > N THEN 0 ELSE N - 1 + 1
      <4> HIDE DEF N
      <4> QED  BY <3>1, FS_Interval
    <3> QED  BY <1>1, <3>2
  <2>6. o \in Surjection(1 .. N, S)  BY <1>1, <2>4, <2>5, FS_Injection
  <2>7. \A p \in S : \E n \in 1 .. N : o[n] = p  BY <2>6 DEF Surjection
  <2> HIDE DEF N
  <2> QED  BY <2>1, <2>2, <2>3, <2>7
<1> QED  BY <1>1, <1>2, <1>3

\* The first n peers of an order.
Done(o, n) == {o[i] : i \in 1 .. n}

\* Such a set grows by one peer at a time.
LEMMA DoneGrows ==
    ASSUME NEW o, NEW n \in Nat, n > 0, \A i, j \in 1 .. n : o[i] = o[j] => i = j
    PROVE  Done(o, n) = Done(o, n - 1) \cup {o[n]} /\ o[n] \notin Done(o, n - 1)
<1>1. 1 .. n = (1 .. (n - 1)) \cup {n} /\ n \notin 1 .. (n - 1) /\ n \in 1 .. n  OBVIOUS
<1>2. \A i \in 1 .. (n - 1) : i \in 1 .. n  BY <1>1
<1> QED  BY <1>1, <1>2 DEF Done

\* From s to t the peers in D have been choked.
ChokedIn(s, t, D, out) ==
    /\ Sound(t, out)
    /\ \A q \in Peers : t.peer[q].up = s.peer[q].up
    /\ \A q \in Peers \ D : t.peer[q] = s.peer[q]
    /\ \A q \in D : t.peer[q].choked
    /\ Cardinality(Opts(t)) <= Cardinality(Opts(s))

\* All peers of an order.
LEMMA ChokeAllRight ==
    ASSUME NEW out, NEW s, Sound(s, out), NEW C \in SUBSET (Peers \ Exempt), NEW o \in Orders(C)
    PROVE  ChokedIn(s, ChokeAll(o, s), C, out)
<1> DEFINE N == Len(o)
           good == [n \in 0 .. N |-> {t \in State : ChokedIn(s, t, Done(o, n), out)}]
           f == [x \in (1 .. N) \X State |-> ChokePeer(x[2], o[x[1]], 0)]
<1>1. /\ o \in [1 .. N -> C] /\ N \in Nat
      /\ \A p \in C : \E n \in 1 .. N : o[n] = p
      /\ \A m, n \in 1 .. N : o[m] = o[n] => m = n
  BY OrderRight
<1> HIDE DEF N
<1>2. ASSUME NEW n \in 1 .. N, NEW v \in good[n - 1]
      PROVE  ChokePeer(v, o[n], 0) \in good[n]
  <2> DEFINE t == ChokePeer(v, o[n], 0)
             p == o[n]
  <2>1. n - 1 \in 0 .. N /\ n \in 0 .. N /\ n \in Nat /\ n > 0  BY <1>1
  <2>2. v \in State /\ ChokedIn(s, v, Done(o, n - 1), out)  BY <2>1
  <2>3. p \in Peers \ Exempt  BY <1>1
  <2>4. \A i, j \in 1 .. n : o[i] = o[j] => i = j  BY <1>1, <2>1
  <2>5. Done(o, n) = Done(o, n - 1) \cup {p}  BY <2>1, <2>4, DoneGrows
  <2> HIDE DEF p
  <2>6. /\ Changed(v, t, p, 0, out) /\ t.peer[p].choked /\ t.peer[p].up = v.peer[p].up
        /\ Cardinality(Opts(t)) = Cardinality(Opts(v)) - (IF v.peer[p].optimistic THEN 1 ELSE 0)
    BY <2>2, <2>3, ChokeRight DEF ChokedIn, p
  <2> HIDE DEF t
  <2>7. /\ Cardinality(Opts(s)) \in Nat /\ Cardinality(Opts(v)) \in Nat
    <3>1. Opts(s) \in SUBSET Peers /\ Opts(v) \in SUBSET Peers  BY DEF Opts
    <3> QED  BY <3>1, PeersFinite
  <2>8. Cardinality(Opts(v)) <= Cardinality(Opts(s))  BY <2>2 DEF ChokedIn
  <2>9. Cardinality(Opts(t)) <= Cardinality(Opts(s))  BY <2>6, <2>7, <2>8
  <2>10. Sound(t, out) /\ \A q \in Peers \ {p} : t.peer[q] = v.peer[q]  BY <2>6 DEF Changed
  <2>11. ChokedIn(s, t, Done(o, n), out)
    <3>1. \A q \in Peers : t.peer[q].up = s.peer[q].up  BY <2>2, <2>6, <2>10 DEF ChokedIn
    <3>2. \A q \in Peers \ Done(o, n) : t.peer[q] = s.peer[q]  BY <2>2, <2>5, <2>10 DEF ChokedIn
    <3>3. Done(o, n - 1) \subseteq Peers  BY <1>1, <2>1 DEF Done
    <3>4. \A q \in Done(o, n) : t.peer[q].choked  BY <2>2, <2>5, <2>6, <2>10, <3>3 DEF ChokedIn
    <3> QED  BY <2>9, <2>10, <3>1, <3>2, <3>4 DEF ChokedIn
  <2>12. t \in State  BY <2>10 DEF Sound
  <2> QED  BY <2>1, <2>11, <2>12 DEF t
<1>3. s \in good[0]
  <2>1. Done(o, 0) = {}  BY DEF Done
  <2>2. Opts(s) \in SUBSET Peers  BY DEF Opts
  <2>3. Cardinality(Opts(s)) <= Cardinality(Opts(s))  BY <2>2, PeersFinite
  <2>4. s \in State /\ 0 \in 0 .. N  BY <1>1 DEF Sound
  <2> QED  BY <2>1, <2>3, <2>4 DEF ChokedIn
<1>4. \A n \in 0 .. N : good[n] \in SUBSET State  OBVIOUS
<1>5. \A n \in 1 .. N : n - 1 \in 0 .. N  BY <1>1
<1>6. \A n \in 1 .. N : \A v \in good[n - 1] : f[<<n, v>>] = ChokePeer(v, o[n], 0)
  BY <1>4, <1>5
<1> HIDE DEF good, f
<1>7. Stays(N, s, f, good)  BY <1>2, <1>3, <1>6 DEF Stays
<1>15. PICK r : Follows(r, N, s, f) /\ Within(r, N, good)  BY <1>1, <1>7, FoldExists
<1>8. /\ r = [n \in 0 .. N |-> IF n = 0 THEN s ELSE f[<<n, r[n - 1]>>]]
      /\ \A n \in 0 .. N : r[n] \in good[n]
  BY <1>15 DEF Follows, Within
<1>9. r = [n \in 0 .. N |-> IF n = 0 THEN s ELSE ChokePeer(r[n - 1], o[n], 0)]
  <2>1. \A n \in 0 .. N : n # 0 => n \in 1 .. N /\ n - 1 \in 0 .. N  BY <1>1
  <2>2. \A n \in 0 .. N : n # 0 => f[<<n, r[n - 1]>>] = ChokePeer(r[n - 1], o[n], 0)
    BY <1>6, <1>8, <2>1
  <2> QED  BY <1>8, <2>2
<1> DEFINE R == CHOOSE u : u = [n \in 0 .. N |-> IF n = 0 THEN s ELSE ChokePeer(u[n - 1], o[n], 0)]
<1>10. R = [n \in 0 .. N |-> IF n = 0 THEN s ELSE ChokePeer(R[n - 1], o[n], 0)]  BY <1>9
<1>11. ChokeAll(o, s) = R[N]  BY DEF ChokeAll, Over, N
<1> HIDE DEF R
<1>12. \A n \in 0 .. N : R[n] \in good[n]
  <2>1. R[0] \in good[0]  BY <1>1, <1>3, <1>10
  <2>2. \A n \in 1 .. N : R[n] = ChokePeer(R[n - 1], o[n], 0)  BY <1>1, <1>10
  <2>3. \A n \in 1 .. N : R[n - 1] \in good[n - 1] => R[n] \in good[n]  BY <1>2, <2>2
  <2> QED  BY <1>1, <2>1, <2>3, FoldKeeps
<1>13. ChokedIn(s, R[N], Done(o, N), out)  BY <1>1, <1>12 DEF good
<1>14. Done(o, N) = C  BY <1>1 DEF Done
<1> QED  BY <1>11, <1>13, <1>14

\* The rounds have a state and a number of slots that are left.
Round == [s : State, left : Int]

\* Peers that give up an optimistic slot at most.
Fewer(s, t) == Cardinality(Opts(t)) <= Cardinality(Opts(s))

\* A peer that is granted a slot or not: the session counts what it has then.
LEMMA GrantRight ==
    ASSUME NEW out, NEW v \in Round, NEW p \in Peers \ Exempt, NEW keep \in BOOLEAN,
           Sound(v.s, out), v.s.peer[p].up, TorrentOf[p] \notin out
    PROVE  LET w == Grant(v, p, keep)
           IN  /\ w \in Round /\ Changed(v.s, w.s, p, Use(w.s.peer[p], p), out)
               /\ w.s.peer[p].up /\ Fewer(v.s, w.s)
<1> DEFINE w == Grant(v, p, keep)
           s == v.s
           x == [s.peer[p] EXCEPT !.optimistic = FALSE]
<1>1. s \in State /\ v.left \in Int /\ s.unchoked \in Int /\ s.peer[p] \in PeerRec
  BY DEF Round, State
<1>2. PeerRight(p, s.peer[p], out)  BY DEF Sound
<1>0. Sound(s, out) /\ s.peer[p].up  OBVIOUS
<1>11. 0 \in Int /\ FALSE \in BOOLEAN /\ p \in Peers \ Exempt  OBVIOUS
<1> HIDE DEF s
<1>3. Cardinality(Opts(s)) \in Nat
  <2>1. Opts(s) \in SUBSET Peers  BY DEF Opts
  <2> QED  BY <2>1, PeersFinite
<1>4. \A t, k : t \in State /\ k \in Int => [s |-> t, left |-> k] \in Round  BY DEF Round
<1>5. v.left - 1 \in Int  BY <1>1
<1>6. CASE keep /\ s.peer[p].choked /\ ~CanUnchoke(s, p, FALSE)
  <2>1. w = v  BY <1>6 DEF Grant, s
  <2>2. Use(s.peer[p], p) = 0  BY <1>6 DEF Use
  <2>3. Changed(s, s, p, 0, out)  BY <1>0, <1>1 DEF Changed
  <2>4. Fewer(s, s)  BY <1>3 DEF Fewer
  <2> QED  BY <1>0, <2>1, <2>2, <2>3, <2>4 DEF s
<1>7. CASE keep /\ s.peer[p].choked /\ CanUnchoke(s, p, FALSE)
  <2> DEFINE t == UnchokePeer(s, p, FALSE)
  <2>1. w = [s |-> t, left |-> v.left - 1]  BY <1>7 DEF Grant, s
  <2>2. /\ Changed(s, t, p, 1, out) /\ ~t.peer[p].choked /\ t.peer[p].up = s.peer[p].up
        /\ Cardinality(Opts(t)) = Cardinality(Opts(s))
    BY <1>0, <1>7, <1>11, UnchokeRight
  <2> HIDE DEF t, w
  <2>3. Use(t.peer[p], p) = 1 /\ Fewer(s, t)  BY <1>3, <2>2 DEF Use, Fewer
  <2>4. t \in State  BY <2>2 DEF Changed, Sound
  <2>5. w.s = t /\ w \in Round  BY <1>4, <1>5, <2>1, <2>4
  <2> QED  BY <1>0, <2>2, <2>3, <2>5 DEF w, s
<1>8. CASE keep /\ ~s.peer[p].choked
  <2> DEFINE t == Put(s, p, x, 0, 1)
  <2>1. w = [s |-> t, left |-> v.left - 1]  BY <1>8 DEF Grant, Keep, s
  <2>2. /\ x \in PeerRec /\ x.choked = s.peer[p].choked /\ ~x.optimistic /\ x.up = s.peer[p].up
    BY <1>1 DEF PeerRec
  <2> HIDE DEF x
  <2>3. PeerRight(p, x, out)  BY <1>0, <1>2, <2>2 DEF PeerRight
  <2>4. Changed(s, t, p, 1, out) /\ t.peer[p] = x /\ Fewer(s, t)
    BY <1>0, <2>2, <2>3, SameSlot DEF Fewer
  <2> HIDE DEF t, w
  <2>5. Use(t.peer[p], p) = 1  BY <1>8, <2>2, <2>4 DEF Use
  <2>6. t \in State  BY <2>4 DEF Changed, Sound
  <2>7. w.s = t /\ w \in Round  BY <1>4, <1>5, <2>1, <2>6
  <2> QED  BY <1>0, <2>2, <2>4, <2>5, <2>7 DEF w, s
<1>9. CASE ~keep /\ s.peer[p].optimistic
  <2> DEFINE t == Put(s, p, s.peer[p], 0, Slot(s, p))
  <2>1. w = [s |-> t, left |-> v.left]  BY <1>9 DEF Grant, s
  <2>2. Slot(s, p) = 1  BY <1>2, <1>9 DEF Slot, PeerRight
  <2>3. Changed(s, t, p, 1, out) /\ t.peer[p] = s.peer[p] /\ Fewer(s, t)
    BY <1>0, <1>1, <1>2, <2>2, SameSlot DEF Fewer
  <2> HIDE DEF t, w
  <2>5. Use(t.peer[p], p) = 1  BY <1>2, <1>9, <2>3 DEF Use, PeerRight
  <2>6. t \in State  BY <2>3 DEF Changed, Sound
  <2>7. w.s = t /\ w \in Round  BY <1>1, <1>4, <2>1, <2>6
  <2> QED  BY <1>0, <2>3, <2>5, <2>7 DEF w, s
<1>10. CASE ~keep /\ ~s.peer[p].optimistic
  <2> DEFINE t == ChokePeer(s, p, 0)
  <2>1. w = [s |-> t, left |-> v.left]  BY <1>10 DEF Grant, s
  <2>2. /\ Changed(s, t, p, 0, out) /\ t.peer[p].choked /\ t.peer[p].up = s.peer[p].up
        /\ Cardinality(Opts(t)) = Cardinality(Opts(s)) - (IF s.peer[p].optimistic THEN 1 ELSE 0)
    BY <1>0, <1>11, ChokeRight, ZenonT(60)
  <2> HIDE DEF t, w
  <2>3. Use(t.peer[p], p) = 0 /\ Fewer(s, t)  BY <1>3, <1>10, <2>2 DEF Use, Fewer
  <2>4. t \in State  BY <2>2 DEF Changed, Sound
  <2>5. w.s = t /\ w \in Round  BY <1>1, <1>4, <2>1, <2>4
  <2> QED  BY <1>0, <2>2, <2>3, <2>5 DEF w, s
<1> QED  BY <1>6, <1>7, <1>8, <1>9, <1>10

\* From s to t the peers in D have been gone through, and the session has counted
\* those that have a slot now.
GrantedIn(s, t, D, out) ==
    /\ Sound(t, out)
    /\ \A q \in Peers : t.peer[q].up = s.peer[q].up
    /\ \A q \in Peers \ D : t.peer[q] = s.peer[q]
    /\ t.unchoked = Cardinality({q \in D : Using(t, q)})
    /\ Fewer(s, t)

\* One more peer.
LEMMA GrantStep ==
    ASSUME NEW out, NEW s, NEW v \in Round, NEW D \in SUBSET Peers, NEW p \in Peers \ Exempt, p \notin D,
           NEW keep \in BOOLEAN, GrantedIn(s, v.s, D, out), s \in State, s.peer[p].up, TorrentOf[p] \notin out
    PROVE  LET w == Grant(v, p, keep)
           IN  w \in Round /\ GrantedIn(s, w.s, D \cup {p}, out)
<1> DEFINE w == Grant(v, p, keep)
           t == w.s
           A == {q \in D : Using(v.s, q)}
           B == {q \in D \cup {p} : Using(t, q)}
<1>1. Sound(v.s, out) /\ v.s.peer[p].up /\ v.s.unchoked = Cardinality(A)
  BY DEF GrantedIn
<1>2. /\ w \in Round /\ Changed(v.s, t, p, Use(t.peer[p], p), out)
      /\ t.peer[p].up /\ Fewer(v.s, t)
  BY <1>1, GrantRight
<1> HIDE DEF w
<1>3. /\ Sound(t, out) /\ t.unchoked = v.s.unchoked + Use(t.peer[p], p)
      /\ \A q \in Peers \ {p} : t.peer[q] = v.s.peer[q]
  BY <1>2 DEF Changed
<1> HIDE DEF t
<1>4. \A q \in Peers : t.peer[q].up = s.peer[q].up
  <2>1. v.s.peer[p] \in PeerRec /\ t.peer[p] \in PeerRec /\ s.peer[p] \in PeerRec
    BY <1>1, <1>3 DEF Sound, State
  <2>2. t.peer[p].up = s.peer[p].up  BY <1>2, <2>1 DEF PeerRec
  <2> QED  BY <1>3, <2>2 DEF GrantedIn
<1>5. \A q \in Peers \ (D \cup {p}) : t.peer[q] = s.peer[q]  BY <1>3 DEF GrantedIn
<1>6. t.unchoked = Cardinality(B)
  <2>1. A \in SUBSET Peers /\ B \in SUBSET Peers /\ p \notin A  OBVIOUS
  <2>2. \A q \in Peers \ {p} : q \in A <=> q \in B  BY <1>3 DEF Using
  <2>3. (IF p \in B THEN 1 ELSE 0) = Use(t.peer[p], p) /\ Use(t.peer[p], p) \in Int
    BY DEF Using, Use
  <2> HIDE DEF A, B
  <2>4. Cardinality(A) \in Nat  BY <2>1, PeersFinite
  <2>5. Cardinality(B) = Cardinality(A) + (IF p \in B THEN 1 ELSE 0) - (IF p \in A THEN 1 ELSE 0)
    BY <2>1, <2>2, OnePeer
  <2> QED  BY <1>1, <1>3, <2>1, <2>3, <2>4, <2>5
<1>7. Fewer(s, t)
  <2>1. Opts(s) \in SUBSET Peers /\ Opts(v.s) \in SUBSET Peers /\ Opts(t) \in SUBSET Peers  BY DEF Opts
  <2>2. /\ Cardinality(Opts(s)) \in Nat /\ Cardinality(Opts(v.s)) \in Nat
        /\ Cardinality(Opts(t)) \in Nat
    BY <2>1, PeersFinite
  <2>3. Fewer(s, v.s)  BY DEF GrantedIn
  <2> QED  BY <1>2, <2>2, <2>3 DEF Fewer
<1>8. GrantedIn(s, t, D \cup {p}, out)  BY <1>3, <1>4, <1>5, <1>6, <1>7 DEF GrantedIn
<1> QED  BY <1>2, <1>8 DEF w, t

\* All peers of an order.
LEMMA GrantAllRight ==
    ASSUME NEW out, NEW v \in Round, Sound(v.s, out), v.s.unchoked = 0, NEW E \in SUBSET (Peers \ Exempt),
           \A p \in E : v.s.peer[p].up /\ TorrentOf[p] \notin out, NEW o \in Orders(E), NEW rich
    PROVE  GrantedIn(v.s, GrantAll(o, v, rich).s, E, out)
<1> DEFINE N == Len(o)
           s == v.s
           keep(u, p) == IF setting.algorithm = "bittyrant" THEN p \in rich ELSE u.left > 0
           good == [n \in 0 .. N |-> {w \in Round : GrantedIn(s, w.s, Done(o, n), out)}]
           f == [x \in (1 .. N) \X Round |-> Grant(x[2], o[x[1]], keep(x[2], o[x[1]]))]
<1>1. /\ o \in [1 .. N -> E] /\ N \in Nat
      /\ \A p \in E : \E n \in 1 .. N : o[n] = p
      /\ \A m, n \in 1 .. N : o[m] = o[n] => m = n
  BY OrderRight
<1> HIDE DEF N
<1>2. ASSUME NEW n \in 1 .. N, NEW u \in good[n - 1]
      PROVE  Grant(u, o[n], keep(u, o[n])) \in good[n]
  <2> DEFINE p == o[n]
             k == keep(u, p)
             w == Grant(u, p, k)
  <2>1. n - 1 \in 0 .. N /\ n \in 0 .. N /\ n \in Nat /\ n > 0  BY <1>1
  <2>2. u \in Round /\ GrantedIn(s, u.s, Done(o, n - 1), out)  BY <2>1
  <2>3. p \in Peers \ Exempt /\ s.peer[p].up /\ TorrentOf[p] \notin out  BY <1>1
  <2>4. \A i, j \in 1 .. n : o[i] = o[j] => i = j  BY <1>1, <2>1
  <2>5. Done(o, n) = Done(o, n - 1) \cup {p} /\ p \notin Done(o, n - 1)  BY <2>1, <2>4, DoneGrows
  <2>6. Done(o, n - 1) \in SUBSET Peers  BY <1>1, <2>1 DEF Done
  <2>7. k \in BOOLEAN
    <3>1. u.left \in Int  BY <2>2 DEF Round
    <3>2. (u.left > 0) \in BOOLEAN /\ (p \in rich) \in BOOLEAN  BY <3>1
    <3>3. CASE setting.algorithm = "bittyrant"  BY <3>2, <3>3
    <3>4. CASE setting.algorithm # "bittyrant"  BY <3>2, <3>4
    <3> QED  BY <3>3, <3>4
  <2>8. s \in State  BY DEF Round
  <2> HIDE DEF p, k, s, good
  <2>9. w \in Round /\ GrantedIn(s, w.s, Done(o, n - 1) \cup {p}, out)
    BY <2>2, <2>3, <2>5, <2>6, <2>7, <2>8, GrantStep
  <2> HIDE DEF w
  <2>10. w \in good[n]  BY <2>1, <2>5, <2>9 DEF good
  <2> QED  BY <2>10 DEF w, k, p
<1>3. v \in good[0]
  <2>1. Done(o, 0) = {}  BY DEF Done
  <2>2. Opts(s) \in SUBSET Peers  BY DEF Opts
  <2>3. Fewer(s, s)  BY <2>2, PeersFinite DEF Fewer
  <2>4. {q \in {} : Using(s, q)} = {} /\ Cardinality({}) = 0  BY FS_EmptySet
  <2>5. GrantedIn(s, s, {}, out)  BY <2>3, <2>4 DEF GrantedIn
  <2>6. 0 \in 0 .. N  BY <1>1
  <2> QED  BY <2>1, <2>5, <2>6
<1>4. \A n \in 0 .. N : good[n] \in SUBSET Round  OBVIOUS
<1>5. \A n \in 1 .. N : n - 1 \in 0 .. N  BY <1>1
<1>6. \A n \in 1 .. N : \A u \in good[n - 1] : f[<<n, u>>] = Grant(u, o[n], keep(u, o[n]))
  <2> HIDE DEF good, keep
  <2> QED  BY <1>4, <1>5
<1> HIDE DEF good, f, s, keep
<1>7. Stays(N, v, f, good)  BY <1>2, <1>3, <1>6 DEF Stays
<1>8. PICK r : Follows(r, N, v, f) /\ Within(r, N, good)  BY <1>1, <1>7, FoldExists
<1>9. r = [n \in 0 .. N |-> IF n = 0 THEN v ELSE Grant(r[n - 1], o[n], keep(r[n - 1], o[n]))]
  <2>0. /\ r = [n \in 0 .. N |-> IF n = 0 THEN v ELSE f[<<n, r[n - 1]>>]]
        /\ \A n \in 0 .. N : r[n] \in good[n]
    BY <1>8 DEF Follows, Within
  <2>1. \A n \in 0 .. N : n # 0 => n \in 1 .. N /\ n - 1 \in 0 .. N  BY <1>1
  <2>2. \A n \in 0 .. N : n # 0 =>
            f[<<n, r[n - 1]>>] = Grant(r[n - 1], o[n], keep(r[n - 1], o[n]))
    BY <1>6, <2>0, <2>1
  <2> QED  BY <2>0, <2>2
<1> DEFINE R == CHOOSE u : u = [n \in 0 .. N |-> IF n = 0 THEN v
                                                 ELSE Grant(u[n - 1], o[n], keep(u[n - 1], o[n]))]
<1>10. R = [n \in 0 .. N |-> IF n = 0 THEN v ELSE Grant(R[n - 1], o[n], keep(R[n - 1], o[n]))]
  BY <1>9
<1>11. GrantAll(o, v, rich) = R[N]  BY DEF GrantAll, Over, N, keep
<1> HIDE DEF R
<1>12. \A n \in 0 .. N : R[n] \in good[n]
  <2>1. R[0] \in good[0]  BY <1>1, <1>3, <1>10
  <2>2. \A n \in 1 .. N : R[n] = Grant(R[n - 1], o[n], keep(R[n - 1], o[n]))  BY <1>1, <1>10
  <2>3. \A n \in 1 .. N : R[n - 1] \in good[n - 1] => R[n] \in good[n]  BY <1>2, <2>2
  <2> QED  BY <1>1, <2>1, <2>3, FoldKeeps
<1>13. GrantedIn(s, R[N].s, Done(o, N), out)  BY <1>1, <1>12 DEF good
<1>14. Done(o, N) = E  BY <1>1 DEF Done
<1> QED  BY <1>11, <1>13, <1>14 DEF s

-----------------------------------------------------------------------------
(* The optimistic slots. *)

\* In the round v that began with s the peers in D have been gone through: those
\* of them that have an optimistic slot and the slots that are left make up what
\* there may be.
PassedIn(s, v, D, out) ==
    /\ Sound(v.s, out)
    /\ \A q \in Peers : v.s.peer[q].up = s.peer[q].up
    /\ \A q \in Peers \ D : v.s.peer[q] = s.peer[q]
    /\ v.s.unchoked = Cardinality(Users(v.s))
    /\ Optimistic # 0 => /\ v.left >= 0
                         /\ Cardinality({q \in D : v.s.peer[q].optimistic}) + v.left = Optimistic

\* A step of such a round that changes one peer and takes what it has now from
\* the slots that are left.
LEMMA PassMoves ==
    ASSUME NEW out, NEW s, NEW v, NEW w, NEW D \in SUBSET Peers, NEW p \in Peers, p \notin D,
           v.left \in Int, PassedIn(s, v, D, out), Sound(w.s, out),
           \A q \in Peers \ {p} : w.s.peer[q] = v.s.peer[q],
           w.s.peer[p].up = v.s.peer[p].up, w.s.unchoked = Cardinality(Users(w.s)),
           w.left = v.left - (IF w.s.peer[p].optimistic THEN 1 ELSE 0),
           w.s.peer[p].optimistic => v.left > 0
    PROVE  PassedIn(s, w, D \cup {p}, out)
<1> DEFINE A == {q \in D : v.s.peer[q].optimistic}
           B == {q \in D \cup {p} : w.s.peer[q].optimistic}
<1>1. \A q \in Peers : w.s.peer[q].up = s.peer[q].up  BY DEF PassedIn
<1>2. \A q \in Peers \ (D \cup {p}) : w.s.peer[q] = s.peer[q]  BY DEF PassedIn
<1>3. ASSUME Optimistic # 0
      PROVE  w.left >= 0 /\ Cardinality(B) + w.left = Optimistic
  <2>1. v.left >= 0 /\ Cardinality(A) + v.left = Optimistic  BY <1>3 DEF PassedIn
  <2>2. A \in SUBSET Peers /\ B \in SUBSET Peers /\ p \notin A  OBVIOUS
  <2>3. (\A q \in Peers \ {p} : q \in A <=> q \in B) /\ (p \in B <=> w.s.peer[p].optimistic)  OBVIOUS
  <2> HIDE DEF A, B
  <2>4. Cardinality(A) \in Nat  BY <2>2, PeersFinite
  <2>5. Cardinality(B) = Cardinality(A) + (IF p \in B THEN 1 ELSE 0) - (IF p \in A THEN 1 ELSE 0)
    BY <2>2, <2>3, OnePeer
  <2>6. CASE p \in B
    <3>1. Cardinality(B) = Cardinality(A) + 1 /\ w.left = v.left - 1 /\ v.left > 0
      BY <2>2, <2>3, <2>4, <2>5, <2>6
    <3> QED  BY <2>1, <2>4, <3>1
  <2>7. CASE p \notin B
    <3>1. Cardinality(B) = Cardinality(A) /\ w.left = v.left
      BY <2>2, <2>3, <2>4, <2>5, <2>7
    <3> QED  BY <2>1, <2>4, <3>1
  <2> QED  BY <2>6, <2>7
<1> QED  BY <1>1, <1>2, <1>3 DEF PassedIn

\* One more peer.
LEMMA PassStep ==
    ASSUME NEW out, NEW s, NEW v \in Round, NEW D \in SUBSET Peers, NEW p \in Peers \ Exempt, p \notin D,
           PassedIn(s, v, D, out), s.peer[p].up, TorrentOf[p] \notin out
    PROVE  LET w == Pass(v, p)
           IN  w \in Round /\ PassedIn(s, w, D \cup {p}, out)
<1> DEFINE w == Pass(v, p)
           u == v.s
<1>1. u \in State /\ v.left \in Int /\ u.unchoked \in Int /\ u.peer[p] \in PeerRec
  BY DEF Round, State
<1>2. Sound(u, out) /\ u.peer[p].up /\ u.unchoked = Cardinality(Users(u))  BY DEF PassedIn
<1>3. PeerRight(p, u.peer[p], out)  BY <1>2 DEF Sound
<1>4. \A t, k : t \in State /\ k \in Int => [s |-> t, left |-> k] \in Round  BY DEF Round
<1>5. v.left - 1 \in Int /\ -1 \in Int /\ p \in Peers \ Exempt  BY <1>1
<1>6. Cardinality(Users(u)) \in Nat
  <2>1. Users(u) \in SUBSET Peers  BY DEF Users
  <2> QED  BY <2>1, PeersFinite
<1> HIDE DEF u
<1>7. CASE v.left > 0 /\ u.peer[p].optimistic
  <2>1. w = [s |-> u, left |-> v.left - 1]  BY <1>7 DEF Pass, u
  <2> HIDE DEF w
  <2>2. w \in Round /\ w.s = u /\ w.left = v.left - 1  BY <1>1, <1>4, <1>5, <2>1
  <2>3. PassedIn(s, w, D \cup {p}, out)  BY <1>1, <1>2, <1>7, <2>2, PassMoves DEF u
  <2> QED  BY <2>2, <2>3 DEF w
<1>8. CASE v.left > 0 /\ ~u.peer[p].optimistic /\ ~CanUnchoke(u, p, TRUE)
  <2>1. w = v  BY <1>8 DEF Pass, u
  <2> HIDE DEF w
  <2>2. w \in Round /\ w.s = u /\ w.left = v.left - 0  BY <1>1, <2>1 DEF u
  <2>3. PassedIn(s, w, D \cup {p}, out)  BY <1>1, <1>2, <1>8, <2>2, PassMoves DEF u
  <2> QED  BY <2>2, <2>3 DEF w
<1>9. CASE v.left > 0 /\ ~u.peer[p].optimistic /\ CanUnchoke(u, p, TRUE)
  <2> DEFINE t == UnchokePeer(u, p, TRUE)
  <2>1. w = [s |-> t, left |-> v.left - 1] /\ u.peer[p].choked  BY <1>9 DEF Pass, u, CanUnchoke
  <2>2. /\ Changed(u, t, p, 1, out) /\ t.peer[p].optimistic /\ t.peer[p].up = u.peer[p].up
        /\ Cardinality(Users(t)) = Cardinality(Users(u)) + 1
    BY <1>2, <1>5, <2>1, OptimisticRight
  <2> HIDE DEF w, t
  <2>3. /\ Sound(t, out) /\ t \in State /\ t.unchoked = Cardinality(Users(t))
        /\ \A q \in Peers \ {p} : t.peer[q] = u.peer[q]
    BY <1>2, <2>2 DEF Changed, Sound
  <2>4. w \in Round /\ w.s = t /\ w.left = v.left - 1  BY <1>4, <1>5, <2>1, <2>3
  <2>5. PassedIn(s, w, D \cup {p}, out)  BY <1>1, <1>9, <2>2, <2>3, <2>4, PassMoves DEF u
  <2> QED  BY <2>4, <2>5 DEF w
<1>10. CASE ~(v.left > 0) /\ u.peer[p].optimistic
  <2> DEFINE m == 0 - 1
             t == ChokePeer(u, p, m)
  <2>1. w = [s |-> t, left |-> v.left]  BY <1>10 DEF Pass, u
  <2>2. m = 0 - 1  OBVIOUS
  <2>8. m \in Int  OBVIOUS
  <2>3. Slot(u, p) = 1  BY <1>3, <1>10 DEF Slot, PeerRight
  <2> HIDE DEF w, m
  <2>4. /\ Changed(u, t, p, m, out) /\ ~t.peer[p].optimistic /\ t.peer[p].up = u.peer[p].up
        /\ Cardinality(Users(t)) = Cardinality(Users(u)) - Slot(u, p)
    <3>1. Sound(u, out)  BY <1>2
    <3> QED  BY <3>1, <2>8, ChokeRight, ZenonT(60)
  <2> HIDE DEF t
  <2>5. /\ Sound(t, out) /\ t \in State /\ t.unchoked = Cardinality(Users(t))
        /\ \A q \in Peers \ {p} : t.peer[q] = u.peer[q]
    BY <1>2, <1>6, <2>2, <2>3, <2>4 DEF Changed, Sound
  <2>6. w \in Round /\ w.s = t /\ w.left = v.left - 0  BY <1>1, <1>4, <2>1, <2>5
  <2>7. PassedIn(s, w, D \cup {p}, out)  BY <1>1, <1>10, <2>4, <2>5, <2>6, PassMoves DEF u
  <2> QED  BY <2>6, <2>7 DEF w
<1>11. CASE ~(v.left > 0) /\ ~u.peer[p].optimistic
  <2>1. w = v  BY <1>11 DEF Pass, u
  <2> HIDE DEF w
  <2>2. w \in Round /\ w.s = u /\ w.left = v.left - 0  BY <1>1, <2>1 DEF u
  <2>3. PassedIn(s, w, D \cup {p}, out)  BY <1>1, <1>2, <1>11, <2>2, PassMoves DEF u
  <2> QED  BY <2>2, <2>3 DEF w
<1> QED  BY <1>7, <1>8, <1>9, <1>10, <1>11

\* All peers of an order.
LEMMA PassAllRight ==
    ASSUME NEW out, NEW v \in Round, Sound(v.s, out), v.s.unchoked = Cardinality(Users(v.s)),
           Optimistic # 0 => v.left = Optimistic, NEW E \in SUBSET (Peers \ Exempt),
           \A p \in E : v.s.peer[p].up /\ TorrentOf[p] \notin out, NEW o \in Orders(E)
    PROVE  PassAll(o, v) \in Round /\ PassedIn(v.s, PassAll(o, v), E, out)
<1> DEFINE N == Len(o)
           s == v.s
           good == [n \in 0 .. N |-> {w \in Round : PassedIn(s, w, Done(o, n), out)}]
           f == [x \in (1 .. N) \X Round |-> Pass(x[2], o[x[1]])]
<1>1. /\ o \in [1 .. N -> E] /\ N \in Nat
      /\ \A p \in E : \E n \in 1 .. N : o[n] = p
      /\ \A m, n \in 1 .. N : o[m] = o[n] => m = n
  BY OrderRight
<1> HIDE DEF N
<1>2. ASSUME NEW n \in 1 .. N, NEW u \in good[n - 1]
      PROVE  Pass(u, o[n]) \in good[n]
  <2> DEFINE p == o[n]
             w == Pass(u, p)
  <2>1. n - 1 \in 0 .. N /\ n \in 0 .. N /\ n \in Nat /\ n > 0  BY <1>1
  <2>2. u \in Round /\ PassedIn(s, u, Done(o, n - 1), out)  BY <2>1
  <2>3. p \in Peers \ Exempt /\ s.peer[p].up /\ TorrentOf[p] \notin out  BY <1>1
  <2>4. \A i, j \in 1 .. n : o[i] = o[j] => i = j  BY <1>1, <2>1
  <2>5. Done(o, n) = Done(o, n - 1) \cup {p} /\ p \notin Done(o, n - 1)  BY <2>1, <2>4, DoneGrows
  <2>6. Done(o, n - 1) \in SUBSET Peers  BY <1>1, <2>1 DEF Done
  <2> HIDE DEF p, s, good
  <2>9. w \in Round /\ PassedIn(s, w, Done(o, n - 1) \cup {p}, out)
    BY <2>2, <2>3, <2>5, <2>6, PassStep
  <2> HIDE DEF w
  <2>10. w \in good[n]  BY <2>1, <2>5, <2>9 DEF good
  <2> QED  BY <2>10 DEF w, p
<1>3. v \in good[0]
  <2>1. Done(o, 0) = {}  BY DEF Done
  <2>2. {q \in {} : s.peer[q].optimistic} = {} /\ Cardinality({}) = 0  BY FS_EmptySet
  <2>3. Optimistic # 0 => v.left >= 0 /\ 0 + v.left = Optimistic
    <3>1. Optimistic \in Nat  BY PeersAssumption
    <3> QED  BY <3>1
  <2>4. PassedIn(s, v, {}, out)  BY <2>2, <2>3 DEF PassedIn
  <2>5. 0 \in 0 .. N  BY <1>1
  <2> QED  BY <2>1, <2>4, <2>5
<1>4. \A n \in 0 .. N : good[n] \in SUBSET Round  OBVIOUS
<1>5. \A n \in 1 .. N : n - 1 \in 0 .. N  BY <1>1
<1>6. \A n \in 1 .. N : \A u \in good[n - 1] : f[<<n, u>>] = Pass(u, o[n])
  <2> HIDE DEF good
  <2> QED  BY <1>4, <1>5
<1> HIDE DEF good, f, s
<1>7. Stays(N, v, f, good)  BY <1>2, <1>3, <1>6 DEF Stays
<1>8. PICK r : Follows(r, N, v, f) /\ Within(r, N, good)  BY <1>1, <1>7, FoldExists
<1>9. r = [n \in 0 .. N |-> IF n = 0 THEN v ELSE Pass(r[n - 1], o[n])]
  <2>0. /\ r = [n \in 0 .. N |-> IF n = 0 THEN v ELSE f[<<n, r[n - 1]>>]]
        /\ \A n \in 0 .. N : r[n] \in good[n]
    BY <1>8 DEF Follows, Within
  <2>1. \A n \in 0 .. N : n # 0 => n \in 1 .. N /\ n - 1 \in 0 .. N  BY <1>1
  <2>2. \A n \in 0 .. N : n # 0 => f[<<n, r[n - 1]>>] = Pass(r[n - 1], o[n])
    BY <1>6, <2>0, <2>1
  <2> QED  BY <2>0, <2>2
<1> DEFINE R == CHOOSE u : u = [n \in 0 .. N |-> IF n = 0 THEN v ELSE Pass(u[n - 1], o[n])]
<1>10. R = [n \in 0 .. N |-> IF n = 0 THEN v ELSE Pass(R[n - 1], o[n])]  BY <1>9
<1>11. PassAll(o, v) = R[N]  BY DEF PassAll, Over, N
<1> HIDE DEF R
<1>12. \A n \in 0 .. N : R[n] \in good[n]
  <2>1. R[0] \in good[0]  BY <1>1, <1>3, <1>10
  <2>2. \A n \in 1 .. N : R[n] = Pass(R[n - 1], o[n])  BY <1>1, <1>10
  <2>3. \A n \in 1 .. N : R[n - 1] \in good[n - 1] => R[n] \in good[n]  BY <1>2, <2>2
  <2> QED  BY <1>1, <2>1, <2>3, FoldKeeps
<1>13. R[N] \in Round /\ PassedIn(s, R[N], Done(o, N), out)  BY <1>1, <1>12 DEF good
<1>14. Done(o, N) = E  BY <1>1 DEF Done
<1> QED  BY <1>11, <1>13, <1>14 DEF s

-----------------------------------------------------------------------------
(* A graceful pause. *)

\* What is done to one peer.
Quiet(u, p, kept) ==
    IF p \in kept THEN (IF u.peer[p].choked THEN u ELSE SessionChoke(u, p)) ELSE Disconnected(u, p)

\* From s to t the peers in D have been choked or disconnected.
QuietIn(s, t, D, out) ==
    /\ Sound(t, out) /\ t.unchoked = Cardinality(Users(t))
    /\ \A q \in D : t.peer[q].up => t.peer[q].choked
    /\ \A q \in Peers \ D : t.peer[q] = s.peer[q]
    /\ Fewer(s, t)

\* A change of one peer that leaves it quiet.
LEMMA QuietMoves ==
    ASSUME NEW out, NEW s, NEW u, NEW t, NEW D \in SUBSET Peers, NEW p \in Peers,
           QuietIn(s, u, D, out), Sound(t, out), t.unchoked = Cardinality(Users(t)),
           \A q \in Peers \ {p} : t.peer[q] = u.peer[q],
           t.peer[p].up => t.peer[p].choked, Fewer(u, t)
    PROVE  QuietIn(s, t, D \cup {p}, out)
<1>1. \A q \in D \cup {p} : t.peer[q].up => t.peer[q].choked  BY DEF QuietIn
<1>2. \A q \in Peers \ (D \cup {p}) : t.peer[q] = s.peer[q]  BY DEF QuietIn
<1>3. Fewer(s, t)
  <2>1. Opts(s) \in SUBSET Peers /\ Opts(u) \in SUBSET Peers /\ Opts(t) \in SUBSET Peers  BY DEF Opts
  <2>2. /\ Cardinality(Opts(s)) \in Nat /\ Cardinality(Opts(u)) \in Nat
        /\ Cardinality(Opts(t)) \in Nat
    BY <2>1, PeersFinite
  <2>3. Fewer(s, u)  BY DEF QuietIn
  <2> QED  BY <2>2, <2>3 DEF Fewer
<1> QED  BY <1>1, <1>2, <1>3 DEF QuietIn

\* One more peer.
LEMMA QuietStep ==
    ASSUME NEW out, NEW s, NEW u, NEW D \in SUBSET Peers, NEW p \in Peers \ D, NEW kept \in SUBSET Peers,
           QuietIn(s, u, D, out), \A q \in kept : q \in Exempt => s.peer[q].choked
    PROVE  QuietIn(s, Quiet(u, p, kept), D \cup {p}, out)
<1> DEFINE t == Quiet(u, p, kept)
<1>1. Sound(u, out) /\ u.unchoked = Cardinality(Users(u))  BY DEF QuietIn
<1>2. Cardinality(Users(u)) \in Nat /\ Cardinality(Opts(u)) \in Nat
  <2>1. Users(u) \in SUBSET Peers /\ Opts(u) \in SUBSET Peers  BY DEF Users, Opts
  <2> QED  BY <2>1, PeersFinite
<1>3. CASE p \in kept /\ u.peer[p].choked
  <2>1. t = u  BY <1>3 DEF Quiet
  <2>2. Fewer(u, u)  BY <1>2 DEF Fewer
  <2> HIDE DEF t
  <2>3. QuietIn(s, t, D \cup {p}, out)  BY <1>1, <1>3, <2>1, <2>2, QuietMoves
  <2> QED  BY <2>3 DEF t
<1>4. CASE p \in kept /\ ~u.peer[p].choked
  <2> DEFINE m == 0 - Slot(u, p)
             z == ChokePeer(u, p, m)
  <2>1. t = z  BY <1>4 DEF Quiet, SessionChoke
  <2>2. Slot(u, p) = 1  BY <1>4 DEF Slot
  <2>3. m = 0 - 1  BY <2>2
  <2>4. m \in Int  BY <2>2
  <2> HIDE DEF m
  <2>5. p \in Peers \ Exempt  BY <1>4 DEF QuietIn
  <2>6. /\ Changed(u, z, p, m, out) /\ z.peer[p].choked
        /\ Cardinality(Users(z)) = Cardinality(Users(u)) - Slot(u, p)
        /\ Cardinality(Opts(z)) = Cardinality(Opts(u)) - (IF u.peer[p].optimistic THEN 1 ELSE 0)
    BY <1>1, <2>4, <2>5, ChokeRight
  <2> HIDE DEF z
  <2>7. /\ Sound(z, out) /\ z.unchoked = Cardinality(Users(z))
        /\ \A q \in Peers \ {p} : z.peer[q] = u.peer[q]
    BY <1>1, <1>2, <2>2, <2>3, <2>6 DEF Changed
  <2>8. Fewer(u, z)  BY <1>2, <2>6 DEF Fewer
  <2> HIDE DEF t
  <2>9. QuietIn(s, z, D \cup {p}, out)  BY <2>6, <2>7, <2>8, QuietMoves
  <2> QED  BY <2>1, <2>9 DEF t
<1>5. CASE p \notin kept
  <2> DEFINE z == Disconnected(u, p)
             n == IF Using(u, p) THEN 0 - 1 ELSE 0
  <2>1. t = z  BY <1>5 DEF Quiet
  <2>2. /\ Changed(u, z, p, n, out) /\ z.peer[p] = Gone
        /\ Cardinality(Users(z)) = Cardinality(Users(u)) + n
        /\ Cardinality(Opts(z)) <= Cardinality(Opts(u))
    BY <1>1, DropRight
  <2> HIDE DEF z, n
  <2>3. /\ Sound(z, out) /\ z.unchoked = Cardinality(Users(z))
        /\ \A q \in Peers \ {p} : z.peer[q] = u.peer[q]
    BY <1>1, <2>2 DEF Changed
  <2>4. Fewer(u, z) /\ ~z.peer[p].up  BY <2>2 DEF Fewer, Gone
  <2> HIDE DEF t
  <2>5. QuietIn(s, z, D \cup {p}, out)  BY <2>3, <2>4, QuietMoves
  <2> QED  BY <2>1, <2>5 DEF t
<1> QED  BY <1>3, <1>4, <1>5

\* All peers of an order.
LEMMA QuietAllRight ==
    ASSUME NEW out, NEW s, Sound(s, out), s.unchoked = Cardinality(Users(s)), NEW E \in SUBSET Peers,
           NEW kept \in SUBSET Peers, NEW o \in Orders(E),
           \A q \in kept : q \in Exempt => s.peer[q].choked
    PROVE  QuietIn(s, QuietAll(o, s, kept), E, out)
<1> DEFINE N == Len(o)
           good == [n \in 0 .. N |-> {t \in State : QuietIn(s, t, Done(o, n), out)}]
           f == [x \in (1 .. N) \X State |-> Quiet(x[2], o[x[1]], kept)]
<1>1. /\ o \in [1 .. N -> E] /\ N \in Nat
      /\ \A p \in E : \E n \in 1 .. N : o[n] = p
      /\ \A m, n \in 1 .. N : o[m] = o[n] => m = n
  BY OrderRight
<1> HIDE DEF N
<1>2. ASSUME NEW n \in 1 .. N, NEW u \in good[n - 1]
      PROVE  Quiet(u, o[n], kept) \in good[n]
  <2> DEFINE p == o[n]
             t == Quiet(u, p, kept)
  <2>1. n - 1 \in 0 .. N /\ n \in 0 .. N /\ n \in Nat /\ n > 0  BY <1>1
  <2>2. u \in State /\ QuietIn(s, u, Done(o, n - 1), out)  BY <2>1
  <2>3. p \in Peers  BY <1>1
  <2>4. \A i, j \in 1 .. n : o[i] = o[j] => i = j  BY <1>1, <2>1
  <2>5. Done(o, n) = Done(o, n - 1) \cup {p}  BY <2>1, <2>4, DoneGrows
  <2>6. Done(o, n - 1) \in SUBSET Peers  BY <1>1, <2>1 DEF Done
  <2>10. p \notin Done(o, n - 1)  BY <1>1, <2>1 DEF Done
  <2> HIDE DEF p, good
  <2>7. QuietIn(s, t, Done(o, n - 1) \cup {p}, out)  BY <2>2, <2>3, <2>6, <2>10, QuietStep
  <2> HIDE DEF t
  <2>8. t \in State  BY <2>7 DEF QuietIn, Sound
  <2>9. t \in good[n]  BY <2>1, <2>5, <2>7, <2>8 DEF good
  <2> QED  BY <2>9 DEF t, p
<1>3. s \in good[0]
  <2>1. Done(o, 0) = {}  BY DEF Done
  <2>2. Opts(s) \in SUBSET Peers  BY DEF Opts
  <2>3. Fewer(s, s)  BY <2>2, PeersFinite DEF Fewer
  <2>4. s \in State /\ 0 \in 0 .. N  BY <1>1 DEF Sound
  <2> QED  BY <2>1, <2>3, <2>4 DEF QuietIn
<1>4. \A n \in 0 .. N : good[n] \in SUBSET State  OBVIOUS
<1>5. \A n \in 1 .. N : n - 1 \in 0 .. N  BY <1>1
<1>6. \A n \in 1 .. N : \A u \in good[n - 1] : f[<<n, u>>] = Quiet(u, o[n], kept)
  <2> HIDE DEF good
  <2> QED  BY <1>4, <1>5
<1> HIDE DEF good, f
<1>7. Stays(N, s, f, good)  BY <1>2, <1>3, <1>6 DEF Stays
<1>8. PICK r : Follows(r, N, s, f) /\ Within(r, N, good)  BY <1>1, <1>7, FoldExists
<1>9. r = [n \in 0 .. N |-> IF n = 0 THEN s ELSE Quiet(r[n - 1], o[n], kept)]
  <2>0. /\ r = [n \in 0 .. N |-> IF n = 0 THEN s ELSE f[<<n, r[n - 1]>>]]
        /\ \A n \in 0 .. N : r[n] \in good[n]
    BY <1>8 DEF Follows, Within
  <2>1. \A n \in 0 .. N : n # 0 => n \in 1 .. N /\ n - 1 \in 0 .. N  BY <1>1
  <2>2. \A n \in 0 .. N : n # 0 => f[<<n, r[n - 1]>>] = Quiet(r[n - 1], o[n], kept)
    BY <1>6, <2>0, <2>1
  <2> QED  BY <2>0, <2>2
<1> DEFINE R == CHOOSE u : u = [n \in 0 .. N |-> IF n = 0 THEN s ELSE Quiet(u[n - 1], o[n], kept)]
<1>10. R = [n \in 0 .. N |-> IF n = 0 THEN s ELSE Quiet(R[n - 1], o[n], kept)]  BY <1>9
<1>11. QuietAll(o, s, kept) = R[N]  BY DEF QuietAll, Over, N, Quiet
<1> HIDE DEF R
<1>12. \A n \in 0 .. N : R[n] \in good[n]
  <2>1. R[0] \in good[0]  BY <1>1, <1>3, <1>10
  <2>2. \A n \in 1 .. N : R[n] = Quiet(R[n - 1], o[n], kept)  BY <1>1, <1>10
  <2>3. \A n \in 1 .. N : R[n - 1] \in good[n - 1] => R[n] \in good[n]  BY <1>2, <2>2
  <2> QED  BY <1>1, <2>1, <2>3, FoldKeeps
<1>13. QuietIn(s, R[N], Done(o, N), out)  BY <1>1, <1>12 DEF good
<1>14. Done(o, N) = E  BY <1>1 DEF Done
<1> QED  BY <1>11, <1>13, <1>14

-----------------------------------------------------------------------------
(* The actions. *)

\* What has to be shown of the slots s that an action makes of the slots as they are.
Goes(s, out) ==
    /\ Sound(s, out) /\ s.unchoked = Cardinality(Users(s))
    /\ Optimistic # 0 => Cardinality(Opts(s)) <= Optimistic

\* An action that does so keeps the invariant, if it does not change which peers
\* need no slot, or those have none to give up.
LEMMA KeptBy ==
    ASSUME NEW s, Become(s), Goes(s, paused'), slots' \in Int, setting'.limit \in Int,
           setting'.ignore = setting.ignore \/ \A p \in Local : s.peer[p].choked
    PROVE  ChokerInv'
<1>0. /\ Sound(s, paused') /\ s.unchoked = Cardinality(Users(s))
      /\ Optimistic # 0 => Cardinality(Opts(s)) <= Optimistic
  BY DEF Goes
<1>1. s \in State  BY <1>0 DEF Sound
<1>2. s = [peer |-> s.peer, uploads |-> s.uploads, unchoked |-> s.unchoked]  BY <1>1 DEF State
<1>3. Now' = s /\ unchoked' = s.unchoked  BY <1>2 DEF Now, Become
<1>4. \A p \in Peers : Using(Now, p)' <=> Using(s, p)  BY <1>3 DEF Using, Exempt
<1>5. Users(Now)' = Users(s) /\ Opts(Now)' = Opts(s) /\ \A t : UsersOf(Now, t)' = UsersOf(s, t)
  BY <1>3, <1>4 DEF Users, Opts, UsersOf
<1>6. \A p \in Peers : PeerRight(p, Now.peer[p], paused)'
  <2>1. \A p \in Peers : PeerRight(p, s.peer[p], paused')  BY <1>0 DEF Sound
  <2> QED  BY <1>3, <2>1 DEF PeerRight, Exempt
<1>7. Sound(Now, paused)'  BY <1>0, <1>1, <1>3, <1>5, <1>6 DEF Sound
<1> QED  BY <1>0, <1>3, <1>5, <1>7 DEF ChokerInv

\* Slots that go stay so when none is taken and the session counts what the
\* torrents count.
LEMMA GoesOn ==
    ASSUME NEW out, NEW s, Goes(s, out), NEW t, Sound(t, out), NEW n \in Int,
           t.unchoked = s.unchoked + n, Cardinality(Users(t)) = Cardinality(Users(s)) + n,
           Cardinality(Opts(t)) <= Cardinality(Opts(s))
    PROVE  Goes(t, out)
<1>1. Opts(s) \in SUBSET Peers /\ Opts(t) \in SUBSET Peers  BY DEF Opts
<1>2. Cardinality(Opts(s)) \in Nat /\ Cardinality(Opts(t)) \in Nat  BY <1>1, PeersFinite
<1>3. Optimistic \in Nat  BY PeersAssumption
<1> QED  BY <1>2, <1>3 DEF Goes

\* A peer changes and keeps its slot.
LEMMA SameKeeps ==
    ASSUME NEW out, NEW s, Goes(s, out), NEW p \in Peers, NEW x \in PeerRec, PeerRight(p, x, out),
           p \in Exempt \/ x.choked = s.peer[p].choked, x.optimistic => s.peer[p].optimistic
    PROVE  LET t == Put(s, p, x, 0, 0)
           IN  Goes(t, out) /\ t.peer[p] = x
<1> DEFINE t == Put(s, p, x, 0, 0)
<1>1. Sound(s, out) /\ 0 \in Int  BY DEF Goes
<1>2. /\ Changed(s, t, p, 0, out) /\ t.peer[p] = x
      /\ Cardinality(Users(t)) = Cardinality(Users(s))
      /\ (x.optimistic => s.peer[p].optimistic) => Cardinality(Opts(t)) <= Cardinality(Opts(s))
  BY <1>1, SameSlot
<1> HIDE DEF t
<1>3. Sound(t, out) /\ t.unchoked = s.unchoked + 0  BY <1>2 DEF Changed
<1>4. Cardinality(Users(t)) = Cardinality(Users(s)) + 0
  <2>1. Users(s) \in SUBSET Peers  BY DEF Users
  <2>2. Cardinality(Users(s)) \in Nat  BY <2>1, PeersFinite
  <2> QED  BY <1>2, <2>2
<1>5. Goes(t, out)  BY <1>1, <1>2, <1>3, <1>4, GoesOn
<1> QED  BY <1>2, <1>5 DEF t

\* What the invariant says, of the slots as they are.
LEMMA InvNow ==
    ASSUME ChokerInv
    PROVE  /\ Goes(Now, paused) /\ Sound(Now, paused) /\ Now \in State
           /\ Now.peer = peer /\ Now.uploads = uploads /\ Now.unchoked = unchoked
           /\ slots \in Int /\ setting.limit \in Int
           /\ \A p \in Peers : peer[p] \in PeerRec /\ PeerRight(p, peer[p], paused)
<1>1. Now.peer = peer /\ Now.uploads = uploads /\ Now.unchoked = unchoked  BY DEF Now
<1> QED  BY <1>1 DEF ChokerInv, Goes, Sound, State

\* A new connection has no slot.
LEMMA ConnectKeeps ==
    ASSUME ChokerInv, NEW p \in Peers, Connect(p)
    PROVE  ChokerInv'
<1> DEFINE x == [Gone EXCEPT !.up = TRUE]
           s == Now
           t == Put(s, p, x, 0, 0)
<1>0. x \in PeerRec /\ x.up /\ x.choked /\ ~x.optimistic  BY DEF Gone, PeerRec
<1>1. /\ Goes(s, paused) /\ s \in State /\ slots \in Int /\ setting.limit \in Int
      /\ s.peer = peer /\ s.uploads = uploads /\ s.unchoked = unchoked
  BY InvNow
<1>2. PeerRight(p, peer[p], paused) /\ ~peer[p].up /\ peer[p] \in PeerRec  BY InvNow DEF Connect, Up
<1>3. peer[p].choked  BY <1>2 DEF PeerRight, Gone
<1>6. Become(t) /\ UNCHANGED <<slots, setting, paused>>
  <2>1. uploads \in [Torrents -> Int] /\ unchoked \in Int  BY <1>1 DEF State
  <2>2. TorrentOf[p] \in Torrents  BY PeersAssumption
  <2>3. [uploads EXCEPT ![TorrentOf[p]] = uploads[TorrentOf[p]] + 0] = uploads  BY <2>1, <2>2
  <2>4. t.peer = peer' /\ t.uploads = uploads /\ t.unchoked = unchoked
    BY <1>1, <2>1, <2>3 DEF Put, Connect
  <2> QED  BY <2>4 DEF Become, Connect
<1> HIDE DEF x, s
<1>5. x.choked = s.peer[p].choked  BY <1>0, <1>1, <1>2, <1>3 DEF PeerRec
<1>7. PeerRight(p, x, paused)  BY <1>0 DEF PeerRight
<1>8. Goes(t, paused)  BY <1>0, <1>1, <1>5, <1>7, SameKeeps
<1> HIDE DEF t
<1> QED  BY <1>1, <1>6, <1>8, KeptBy

\* A lost connection gives its slot back.
LEMMA DisconnectKeeps ==
    ASSUME ChokerInv, NEW p \in Peers, Disconnect(p)
    PROVE  ChokerInv'
<1> DEFINE s == Now
           t == Disconnected(s, p)
           n == IF Using(s, p) THEN 0 - 1 ELSE 0
<1>1. Goes(s, paused) /\ Sound(s, paused) /\ slots \in Int /\ setting.limit \in Int  BY InvNow
<1>2. Become(t) /\ UNCHANGED <<slots, setting, paused>>  BY DEF Disconnect
<1>3. n \in Int  OBVIOUS
<1> HIDE DEF s
<1>4. /\ Changed(s, t, p, n, paused) /\ Cardinality(Users(t)) = Cardinality(Users(s)) + n
      /\ Cardinality(Opts(t)) <= Cardinality(Opts(s))
  BY <1>1, DropRight
<1> HIDE DEF t, n
<1>5. Sound(t, paused) /\ t.unchoked = s.unchoked + n  BY <1>4 DEF Changed
<1>6. Goes(t, paused)  BY <1>1, <1>3, <1>4, <1>5, GoesOn
<1> QED  BY <1>1, <1>2, <1>6, KeptBy

\* A peer that gets interested gets a free slot at once.
LEMMA InterestedKeeps ==
    ASSUME ChokerInv, NEW p \in Peers, NEW fair \in BOOLEAN, IncomingInterested(p, fair)
    PROVE  ChokerInv'
<1> DEFINE x == [peer[p] EXCEPT !.interested = TRUE]
           y == [x EXCEPT !.choked = FALSE]
           s == Now
           t == Put(s, p, x, 0, 0)
           l == Put(s, p, y, 0, 0)
           u == UnchokePeer(t, p, FALSE)
<1>1. /\ Goes(s, paused) /\ s.peer = peer /\ slots \in Int /\ setting.limit \in Int
      /\ peer[p] \in PeerRec /\ PeerRight(p, peer[p], paused)
  BY InvNow
<1>2. peer[p].up /\ UNCHANGED <<slots, setting, paused>>
  BY DEF IncomingInterested, Up
<1>3. /\ x \in PeerRec /\ x.up = peer[p].up /\ x.choked = peer[p].choked /\ x.optimistic = peer[p].optimistic
      /\ y \in PeerRec /\ y.up = peer[p].up /\ ~y.choked /\ y.optimistic = peer[p].optimistic
  BY <1>1 DEF PeerRec
<1>4. Become(t) \/ (p \in Exempt /\ Become(l)) \/ (p \notin Exempt /\ peer[p].choked /\ Become(SessionUnchoke(t, p)))
  BY DEF IncomingInterested
<1> HIDE DEF x, y, s
<1>5. PeerRight(p, x, paused) /\ (p \in Exempt => PeerRight(p, y, paused))
  BY <1>1, <1>2, <1>3 DEF PeerRight
<1>6. Goes(t, paused) /\ t.peer[p] = x  BY <1>1, <1>3, <1>5, SameKeeps
<1>7. p \in Exempt => Goes(l, paused)  BY <1>1, <1>3, <1>5, SameKeeps
<1>8. ASSUME p \notin Exempt, peer[p].choked  PROVE Goes(SessionUnchoke(t, p), paused)
  <2>1. ~x.optimistic  BY <1>1, <1>3, <1>8 DEF PeerRight
  <2>2. x.optimistic = FALSE  BY <1>3, <2>1 DEF PeerRec
  <2>3. SessionUnchoke(t, p) = t \/ SessionUnchoke(t, p) = u  BY <1>6, <2>2 DEF SessionUnchoke
  <2>4. /\ Sound(t, paused) /\ t.peer[p].up /\ t.peer[p].choked /\ p \in Peers \ Exempt
    BY <1>2, <1>3, <1>6, <1>8 DEF Goes
  <2> HIDE DEF t
  <2>5. /\ Changed(t, u, p, 1, paused) /\ Cardinality(Users(u)) = Cardinality(Users(t)) + 1
        /\ Cardinality(Opts(u)) = Cardinality(Opts(t))
    BY <1>2, <2>4, UnchokeRight
  <2> HIDE DEF u
  <2>6. Sound(u, paused) /\ u.unchoked = t.unchoked + 1 /\ 1 \in Int  BY <2>5 DEF Changed
  <2>7. Cardinality(Opts(u)) <= Cardinality(Opts(t))
    <3>1. Opts(t) \in SUBSET Peers  BY DEF Opts
    <3> QED  BY <2>5, <3>1, PeersFinite
  <2>8. Goes(u, paused)  BY <1>6, <2>5, <2>6, <2>7, GoesOn
  <2> QED  BY <1>6, <2>3, <2>8
<1> HIDE DEF t, l
<1>9. CASE Become(t)  BY <1>1, <1>2, <1>6, <1>9, KeptBy
<1>10. CASE p \in Exempt /\ Become(l)  BY <1>1, <1>2, <1>7, <1>10, KeptBy
<1>11. CASE p \notin Exempt /\ peer[p].choked /\ Become(SessionUnchoke(t, p))
  BY <1>1, <1>2, <1>8, <1>11, KeptBy
<1> QED  BY <1>4, <1>9, <1>10, <1>11

\* A peer that is not interested any more gives its slot back.
LEMMA NotInterestedKeeps ==
    ASSUME ChokerInv, NEW p \in Peers, IncomingNotInterested(p)
    PROVE  ChokerInv'
<1> DEFINE x == [peer[p] EXCEPT !.interested = FALSE]
           y == [x EXCEPT !.choked = TRUE, !.optimistic = FALSE]
           s == Now
           t == Put(s, p, x, 0, 0)
           l == Put(s, p, y, 0, 0)
           m == 0 - Slot(t, p)
           u == ChokePeer(t, p, m)
<1>1. /\ Goes(s, paused) /\ s.peer = peer /\ slots \in Int /\ setting.limit \in Int
      /\ peer[p] \in PeerRec /\ PeerRight(p, peer[p], paused)
  BY InvNow
<1>2. peer[p].up /\ UNCHANGED <<slots, setting, paused>>
  BY DEF IncomingNotInterested, Up
<1>3. /\ x \in PeerRec /\ x.up = peer[p].up /\ x.choked = peer[p].choked /\ x.optimistic = peer[p].optimistic
      /\ y \in PeerRec /\ y.up = peer[p].up /\ y.choked /\ ~y.optimistic
  BY <1>1 DEF PeerRec
<1>4. Become(t) \/ (p \in Exempt /\ Become(l)) \/ (p \notin Exempt /\ Become(u))
  BY DEF IncomingNotInterested, SessionChoke
<1> HIDE DEF x, y, s
<1>5. PeerRight(p, x, paused) /\ PeerRight(p, y, paused)  BY <1>1, <1>2, <1>3 DEF PeerRight
<1>6. Goes(t, paused)  BY <1>1, <1>3, <1>5, SameKeeps
<1>7. p \in Exempt => Goes(l, paused)  BY <1>1, <1>3, <1>5, SameKeeps
<1> HIDE DEF t, l
<1>8. ASSUME p \notin Exempt  PROVE Goes(u, paused)
  <2>1. Slot(t, p) \in {0, 1}  BY DEF Slot
  <2>2. m \in Int /\ m = 0 - Slot(t, p)  BY <2>1
  <2>3. m \in Int  BY <2>2
  <2> HIDE DEF m
  <2>4. Sound(t, paused) /\ p \in Peers \ Exempt  BY <1>6, <1>8 DEF Goes
  <2>5. /\ Changed(t, u, p, m, paused) /\ Cardinality(Users(u)) = Cardinality(Users(t)) - Slot(t, p)
        /\ Cardinality(Opts(u)) = Cardinality(Opts(t)) - (IF t.peer[p].optimistic THEN 1 ELSE 0)
    BY <2>3, <2>4, ChokeRight
  <2> HIDE DEF u
  <2>6. Sound(u, paused) /\ u.unchoked = t.unchoked + m  BY <2>5 DEF Changed
  <2>7. Cardinality(Users(t)) \in Nat /\ Cardinality(Opts(t)) \in Nat
    <3>1. Users(t) \in SUBSET Peers /\ Opts(t) \in SUBSET Peers  BY DEF Users, Opts
    <3> QED  BY <3>1, PeersFinite
  <2>8. Cardinality(Users(u)) = Cardinality(Users(t)) + m  BY <2>1, <2>2, <2>5, <2>7
  <2>9. Cardinality(Opts(u)) <= Cardinality(Opts(t))  BY <2>5, <2>7
  <2> QED  BY <1>6, <2>3, <2>6, <2>8, <2>9, GoesOn
<1> HIDE DEF u
<1>9. CASE Become(t)  BY <1>1, <1>2, <1>6, <1>9, KeptBy
<1>10. CASE p \in Exempt /\ Become(l)  BY <1>1, <1>2, <1>7, <1>10, KeptBy
<1>11. CASE p \notin Exempt /\ Become(u)  BY <1>1, <1>2, <1>8, <1>11, KeptBy
<1> QED  BY <1>4, <1>9, <1>10, <1>11

\* Fewer torrents that must be quiet.
LEMMA SoundLess ==
    ASSUME NEW out, NEW less \in SUBSET out, NEW s, Goes(s, out)
    PROVE  Goes(s, less)
  BY DEF Goes, Sound, PeerRight

\* The actions that leave the peers alone.
LEMMA SettingsKeep ==
    ASSUME ChokerInv, miscounted' = FALSE,
           \/ \E a \in Algorithms, limit \in SlotLimits, ignore \in BOOLEAN : SetSettings(a, limit, ignore)
           \/ \E t \in Torrents : Resume(t)
           \/ \E t \in Torrents : FilesChecked(t)
           \/ UNCHANGED vars
    PROVE  ChokerInv'
<1> DEFINE s == Now
<1>1. Goes(s, paused) /\ slots \in Int /\ setting.limit \in Int  BY InvNow
<1>2. UNCHANGED <<peer, uploads, unchoked>>
  BY DEF SetSettings, Resume, FilesChecked, vars
<1>3. Become(s)  BY <1>2 DEF Become, Now
<1>4. paused' \in SUBSET paused  BY DEF SetSettings, Resume, FilesChecked, vars
<1>5. slots' \in Int /\ setting'.limit \in Int
  <2>1. CASE UNCHANGED <<slots, setting>>  BY <1>1, <2>1
  <2>2. ASSUME NEW a \in Algorithms, NEW limit \in SlotLimits, NEW ignore \in BOOLEAN,
               SetSettings(a, limit, ignore)
        PROVE  slots' \in Int /\ setting'.limit \in Int
    <3>1. limit \in Int /\ MaxSlots \in Int  BY PeersAssumption
    <3> QED  BY <1>1, <2>2, <3>1 DEF SetSettings
  <2> QED  BY <2>1, <2>2 DEF Resume, FilesChecked, vars
<1>7. setting'.ignore = setting.ignore \/ \A p \in Local : s.peer[p].choked
  <2>1. CASE UNCHANGED setting  BY <2>1
  <2>2. ASSUME NEW a \in Algorithms, NEW limit \in SlotLimits, NEW ignore \in BOOLEAN,
               SetSettings(a, limit, ignore)
        PROVE  setting'.ignore = setting.ignore \/ \A p \in Local : s.peer[p].choked
    <3>1. setting'.ignore = ignore /\ s.peer = peer  BY <2>2 DEF SetSettings, Now
    <3>2. ~(ignore # setting.ignore /\ \E p \in Local : ~peer[p].choked)  BY <2>2 DEF SetSettings
    <3> QED  BY <3>1, <3>2
  <2> QED  BY <2>1, <2>2 DEF Resume, FilesChecked, vars
<1> HIDE DEF s
<1>6. Goes(s, paused')  BY <1>1, <1>4, SoundLess
<1> QED  BY <1>3, <1>5, <1>6, <1>7, KeptBy

\* A graceful pause takes back all slots of the torrent, unless it chokes a peer
\* that had none.
LEMMA PauseKeeps ==
    ASSUME ChokerInv, miscounted' = FALSE, NEW t \in Torrents, NEW kept, GracefulPause(t, kept)
    PROVE  ChokerInv'
<1> DEFINE mine == {p \in Up : TorrentOf[p] = t}
           o == CHOOSE o \in Orders(mine) : TRUE
           s == Now
           w == QuietAll(o, s, kept)
<1>1. /\ Goes(s, paused) /\ Sound(s, paused) /\ s.peer = peer /\ slots \in Int /\ setting.limit \in Int
      /\ s.unchoked = Cardinality(Users(s))
  BY InvNow DEF Goes
<1>2. /\ mine \in SUBSET Peers /\ kept \in SUBSET Peers
      /\ \A q \in kept : q \in Exempt => s.peer[q].choked
  BY DEF GracefulPause, Up, Now
<1>3. Become(w) /\ paused' = paused \cup {t} /\ UNCHANGED <<slots, setting>>  BY DEF GracefulPause
<1>4. o \in Orders(mine)
  <2>1. Orders(mine) # {}  BY <1>2, OrderRight
  <2> QED  BY <2>1
<1>5. \A q \in Peers \ mine : TorrentOf[q] = t => ~peer[q].up  BY DEF Up
<1> HIDE DEF mine, o, s
<1>6. QuietIn(s, w, mine, paused)  BY <1>1, <1>2, <1>4, QuietAllRight
<1> HIDE DEF w
<1>7. /\ Sound(w, paused) /\ w.unchoked = Cardinality(Users(w)) /\ Fewer(s, w)
      /\ \A q \in mine : w.peer[q].up => w.peer[q].choked
      /\ \A q \in Peers \ mine : w.peer[q] = s.peer[q]
  BY <1>6 DEF QuietIn
<1>8. \A q \in Peers : TorrentOf[q] = t => (w.peer[q].up => w.peer[q].choked)  BY <1>1, <1>5, <1>7
<1>9. Sound(w, paused')  BY <1>3, <1>7, <1>8 DEF Sound, PeerRight
<1>10. Goes(w, paused')
  <2>1. Opts(s) \in SUBSET Peers /\ Opts(w) \in SUBSET Peers  BY DEF Opts
  <2>2. Cardinality(Opts(s)) \in Nat /\ Cardinality(Opts(w)) \in Nat /\ Optimistic \in Nat
    BY <2>1, PeersFinite, PeersAssumption
  <2> QED  BY <1>1, <1>7, <1>9, <2>2 DEF Goes, Fewer
<1> QED  BY <1>1, <1>3, <1>10, KeptBy

\* The number of optimistic slots.
LEMMA OptimisticType ==
    ASSUME NEW n \in Int
    PROVE  OptimisticSlots(n) \in Int /\ (Optimistic # 0 => OptimisticSlots(n) = Optimistic)
<1>1. Optimistic \in Nat  BY PeersAssumption
<1>2. n \div 5 \in Int  OBVIOUS
<1> QED  BY <1>1, <1>2 DEF OptimisticSlots

\* The optimistic slots go round, and there are not more of them than there may be.
LEMMA OptimisticKeeps ==
    ASSUME ChokerInv, RecalculateOptimistic
    PROVE  ChokerInv'
<1> DEFINE wants(p) == /\ peer[p].interested /\ peer[p].choked
                       /\ uploads[TorrentOf[p]] < MaxUploads /\ TorrentOf[p] \in ready
           E == {p \in Up : TorrentOf[p] \notin paused /\ (peer[p].optimistic \/ (wants(p) /\ p \notin Exempt))}
           s == Now
           v == [s |-> s, left |-> OptimisticSlots(slots)]
<1>1. /\ Goes(s, paused) /\ Sound(s, paused) /\ s.peer = peer /\ s \in State
      /\ slots \in Int /\ setting.limit \in Int /\ s.unchoked = Cardinality(Users(s))
  BY InvNow DEF Goes
<1>2. \A q \in Peers : PeerRight(q, peer[q], paused)  BY InvNow
<1>3. PICK o \in Orders(E) : Become(PassAll(o, v).s)  BY DEF RecalculateOptimistic
<1>4. UNCHANGED <<slots, setting, paused>>  BY DEF RecalculateOptimistic
<1>5. E \in SUBSET (Peers \ Exempt)  BY <1>2 DEF Up, PeerRight
<1>6. \A q \in E : peer[q].up /\ TorrentOf[q] \notin paused  BY DEF Up
<1>7. \A q \in Peers \ E : ~peer[q].optimistic
  <2> SUFFICES ASSUME NEW q \in Peers \ E, peer[q].optimistic  PROVE FALSE  OBVIOUS
  <2>1. PeerRight(q, peer[q], paused)  BY <1>2
  <2>2. peer[q].up /\ TorrentOf[q] \notin paused  BY <2>1 DEF PeerRight, Gone
  <2> QED  BY <2>2 DEF Up
<1> HIDE DEF E, s
<1>8. OptimisticSlots(slots) \in Int /\ (Optimistic # 0 => OptimisticSlots(slots) = Optimistic)
  BY <1>1, OptimisticType
<1>9. v \in Round /\ v.s = s /\ v.left = OptimisticSlots(slots)  BY <1>1, <1>8 DEF Round
<1> HIDE DEF v
<1> DEFINE w == PassAll(o, v)
<1>10. w \in Round /\ PassedIn(v.s, w, E, paused)
  BY <1>1, <1>3, <1>5, <1>6, <1>8, <1>9, PassAllRight
<1> HIDE DEF w
<1> DEFINE t == w.s
           A == {q \in E : t.peer[q].optimistic}
<1>11. /\ Sound(t, paused) /\ t.unchoked = Cardinality(Users(t))
       /\ \A q \in Peers \ E : t.peer[q] = peer[q]
       /\ Optimistic # 0 => w.left >= 0 /\ Cardinality(A) + w.left = Optimistic
  BY <1>1, <1>9, <1>10 DEF PassedIn
<1>12. Opts(t) = A  BY <1>5, <1>7, <1>11 DEF Opts
<1>13. ASSUME Optimistic # 0  PROVE Cardinality(Opts(t)) <= Optimistic
  <2>1. A \in SUBSET Peers  BY <1>5
  <2> HIDE DEF A, t
  <2>2. Cardinality(A) \in Nat /\ Optimistic \in Nat  BY <2>1, PeersFinite, PeersAssumption
  <2>3. w.left >= 0 /\ Cardinality(A) + w.left = Optimistic  BY <1>11, <1>13
  <2>4. w.left \in Int  BY <1>10 DEF Round
  <2> QED  BY <1>12, <2>2, <2>3, <2>4
<1>14. Goes(t, paused)  BY <1>11, <1>13 DEF Goes
<1> HIDE DEF t
<1>15. Become(t)  BY <1>3 DEF t, w
<1> QED  BY <1>1, <1>4, <1>14, <1>15, KeptBy

\* The count of the session starts anew.
LEMMA ResetRight ==
    ASSUME NEW out, NEW s, Sound(s, out)
    PROVE  LET t == [s EXCEPT !.unchoked = 0]
           IN  Sound(t, out) /\ t \in State /\ t.peer = s.peer /\ t.unchoked = 0
<1> DEFINE t == [s EXCEPT !.unchoked = 0]
<1>1. s \in State  BY DEF Sound
<1>2. t \in State /\ t.peer = s.peer /\ t.unchoked = 0 /\ t.uploads = s.uploads  BY <1>1 DEF State
<1> HIDE DEF t
<1>3. \A v : UsersOf(t, v) = UsersOf(s, v)  BY <1>2 DEF UsersOf, Using
<1>4. Sound(t, out)  BY <1>2, <1>3 DEF Sound
<1> QED  BY <1>2, <1>4 DEF t

\* The number of slots a round may end with.
LEMMA NewSlotsType ==
    ASSUME ChokerInv, NEW E \in SUBSET Peers, NEW n \in NewSlots(E)
    PROVE  n \in Int
<1>1. slots \in Int /\ Cardinality(E) \in Nat  BY InvNow, PeersFinite
<1>2. 1 .. 1 + Cardinality(E) \subseteq Int  BY <1>1
<1>3. CASE setting.algorithm = "rate_based"  BY <1>2, <1>3 DEF NewSlots
<1>4. CASE setting.algorithm = "auto_expand"
  <2>1. n = slots \/ n = slots + 1 \/ n = slots - 1  BY <1>4 DEF NewSlots
  <2> QED  BY <1>1, <2>1
<1>5. CASE setting.algorithm \notin {"rate_based", "auto_expand"}
  BY <1>1, <1>5 DEF NewSlots
<1> QED  BY <1>3, <1>4, <1>5

\* After a round the peers that use a slot are those the round has gone through.
LEMMA RoundUsers ==
    ASSUME NEW out, NEW s, Sound(s, out), NEW t, NEW z, NEW w, NEW C \in SUBSET Peers, NEW E \in SUBSET (Peers \ Exempt),
           ChokedIn(s, t, C, out), z.peer = t.peer, GrantedIn(z, w, E, out),
           \A q \in Peers \ (Exempt \cup E) : s.peer[q].up /\ ~s.peer[q].choked => q \in C
    PROVE  Users(w) = {q \in E : Using(w, q)}
<1> SUFFICES ASSUME NEW q \in Peers \ E, Using(w, q)
             PROVE  FALSE
  BY DEF Users
<1>1. w.peer[q] = t.peer[q] /\ ~w.peer[q].choked /\ q \notin Exempt  BY DEF GrantedIn, Using
<1>2. q \notin C  BY <1>1 DEF ChokedIn
<1>3. t.peer[q] = s.peer[q]  BY <1>2 DEF ChokedIn
<1>4. PeerRight(q, s.peer[q], out)  BY DEF Sound
<1>5. s.peer[q].up  BY <1>1, <1>3, <1>4 DEF PeerRight, Gone
<1> QED  BY <1>1, <1>2, <1>3, <1>5

\* A round gives out the slots anew, and counts them, unless a peer of a paused
\* torrent has one.
LEMMA RoundKeeps ==
    ASSUME ChokerInv, miscounted' = FALSE, RecalculateUnchokeSlots
    PROVE  ChokerInv'
<1> DEFINE counted == {p \in Up \ Exempt : TorrentOf[p] \notin paused}
           no(greedy) == {p \in counted : ~peer[p].interested} \cup greedy
           bad(greedy) == {p \in no(greedy) : ~peer[p].choked}
           left(greedy) == counted \ no(greedy)
           first(greedy) == ChokeAll(CHOOSE o \in Orders(bad(greedy)) : TRUE, Now)
<1>1. PICK greedy \in SUBSET counted :
        \E n \in NewSlots(left(greedy)), o \in Orders(left(greedy)), rich \in SUBSET left(greedy) :
          /\ Become(GrantAll(o, [s |-> [first(greedy) EXCEPT !.unchoked = 0], left |-> n - OptimisticSlots(n)], rich).s)
          /\ slots' = n /\ UNCHANGED <<setting, paused>>
  BY Zenon DEF RecalculateUnchokeSlots
<1>0. \A p \in Up \ counted : peer[p].choked \/ p \in Exempt  BY DEF RecalculateUnchokeSlots
<1> DEFINE C == bad(greedy)
           E == left(greedy)
           order == CHOOSE o \in Orders(C) : TRUE
           s == Now
           t == ChokeAll(order, s)
           z == [t EXCEPT !.unchoked = 0]
<1>2. PICK n \in NewSlots(E), o \in Orders(E), rich \in SUBSET E :
        /\ Become(GrantAll(o, [s |-> z, left |-> n - OptimisticSlots(n)], rich).s)
        /\ slots' = n /\ UNCHANGED <<setting, paused>>
  BY <1>1
<1>3. C \in SUBSET (Peers \ Exempt) /\ E \in SUBSET (Peers \ Exempt) /\ E \in SUBSET Peers /\ C \in SUBSET Peers
  BY DEF Up
<1>4. /\ Goes(s, paused) /\ Sound(s, paused) /\ s.peer = peer /\ setting.limit \in Int
      /\ Optimistic # 0 => Cardinality(Opts(s)) <= Optimistic
  BY InvNow DEF Goes
<1>5. \A q \in E : peer[q].up /\ TorrentOf[q] \notin paused  BY DEF Up
<1>6. \A q \in Peers \ (Exempt \cup E) : peer[q].up /\ ~peer[q].choked => q \in C
  BY <1>0 DEF Up
<1>7. order \in Orders(C)
  <2>1. Orders(C) # {}
    <3> HIDE DEF C
    <3> QED  BY <1>3, OrderRight
  <2> HIDE DEF C
  <2> QED  BY <2>1
<1> HIDE DEF C, E, s, order
<1>8. ChokedIn(s, t, C, paused)  BY <1>3, <1>4, <1>7, ChokeAllRight
<1> HIDE DEF t
<1>9. Sound(t, paused) /\ Cardinality(Opts(t)) <= Cardinality(Opts(s))
      /\ \A q \in Peers : t.peer[q].up = peer[q].up
  BY <1>4, <1>8 DEF ChokedIn
<1>10. Sound(z, paused) /\ z \in State /\ z.peer = t.peer /\ z.unchoked = 0  BY <1>9, ResetRight
<1> HIDE DEF z
<1>11. n \in Int /\ OptimisticSlots(n) \in Int  BY <1>3, NewSlotsType, OptimisticType
<1> DEFINE v == [s |-> z, left |-> n - OptimisticSlots(n)]
           w == GrantAll(o, v, rich).s
<1>12. v \in Round /\ v.s = z
  <2>1. n - OptimisticSlots(n) \in Int  BY <1>11
  <2> QED  BY <1>10, <2>1 DEF Round
<1>13. Become(w) /\ slots' \in Int /\ setting' = setting /\ setting'.limit \in Int /\ paused' = paused  BY <1>2, <1>4, <1>11
<1> HIDE DEF v
<1>14. \A q \in E : z.peer[q].up /\ TorrentOf[q] \notin paused  BY <1>3, <1>5, <1>9, <1>10
<1>15. GrantedIn(z, w, E, paused)  BY <1>2, <1>3, <1>10, <1>12, <1>14, GrantAllRight
<1> HIDE DEF w
<1>16. Users(w) = {q \in E : Using(w, q)}
  BY <1>3, <1>4, <1>6, <1>8, <1>10, <1>15, RoundUsers
<1>17. Sound(w, paused) /\ w.unchoked = Cardinality(Users(w)) /\ Fewer(z, w)  BY <1>15, <1>16 DEF GrantedIn
<1>18. Goes(w, paused)
  <2>1. Opts(z) = Opts(t)  BY <1>10 DEF Opts
  <2>2. Opts(s) \in SUBSET Peers /\ Opts(t) \in SUBSET Peers /\ Opts(w) \in SUBSET Peers  BY DEF Opts
  <2>3. /\ Cardinality(Opts(s)) \in Nat /\ Cardinality(Opts(t)) \in Nat
        /\ Cardinality(Opts(w)) \in Nat /\ Optimistic \in Nat
    BY <2>2, PeersFinite, PeersAssumption
  <2>4. Cardinality(Opts(w)) <= Cardinality(Opts(t))  BY <1>17, <2>1 DEF Fewer
  <2>5. Cardinality(Opts(w)) <= Cardinality(Opts(s))  BY <1>9, <2>3, <2>4
  <2> QED  BY <1>4, <1>17, <2>3, <2>5 DEF Goes
<1> QED  BY <1>13, <1>18, KeptBy

-----------------------------------------------------------------------------
(* The theorem. *)

\* The invariant holds at first.
LEMMA ChokerStarts == Init => ChokerInv
<1> SUFFICES ASSUME Init  PROVE ChokerInv  OBVIOUS
<1>1. Gone \in PeerRec /\ Gone.choked /\ ~Gone.optimistic /\ ~Gone.up  BY DEF Gone, PeerRec
<1>2. /\ peer \in [Peers -> PeerRec] /\ uploads \in [Torrents -> Int] /\ unchoked = 0
      /\ \A p \in Peers : peer[p] = Gone
      /\ \A t \in Torrents : uploads[t] = 0
  BY <1>1 DEF Init
<1>3. Now \in State /\ Now.peer = peer /\ Now.uploads = uploads  BY <1>2 DEF Now, State
<1>4. /\ Users(Now) = {} /\ Opts(Now) = {} /\ (\A t \in Torrents : UsersOf(Now, t) = {})
  BY <1>1, <1>2, <1>3 DEF Users, UsersOf, Opts, Using
<1>5. Cardinality({}) = 0  BY FS_EmptySet
<1>6. Sound(Now, paused)  BY <1>1, <1>2, <1>3, <1>4, <1>5 DEF Sound, PeerRight
<1>7. slots \in Int /\ setting.limit \in Int
  <2>1. PICK limit \in SlotLimits, ignore \in BOOLEAN :
          /\ setting = [algorithm |-> "fixed_slots", limit |-> limit, ignore |-> ignore]
          /\ slots = IF limit < 0 THEN MaxSlots ELSE limit
    BY DEF Init
  <2>2. limit \in Int /\ MaxSlots \in Int  BY PeersAssumption
  <2> QED  BY <2>1, <2>2
<1>8. Optimistic # 0 => Cardinality(Opts(Now)) <= Optimistic  BY <1>4, <1>5, PeersAssumption
<1> QED  BY <1>2, <1>4, <1>5, <1>6, <1>7, <1>8 DEF ChokerInv

\* Every step keeps it that does not make the counts wrong.
LEMMA ChokerStep ==
    ASSUME ChokerInv, miscounted' = FALSE, [Next]_vars
    PROVE  ChokerInv'
<1>1. CASE \E p \in Peers : Connect(p)  BY <1>1, ConnectKeeps
<1>2. CASE \E p \in Peers : Disconnect(p)  BY <1>2, DisconnectKeeps
<1>3. CASE \E p \in Peers, fair \in BOOLEAN : IncomingInterested(p, fair)  BY <1>3, InterestedKeeps
<1>4. CASE \E p \in Peers : IncomingNotInterested(p)  BY <1>4, NotInterestedKeeps
<1>5. CASE RecalculateUnchokeSlots  BY <1>5, RoundKeeps
<1>6. CASE RecalculateOptimistic  BY <1>6, OptimisticKeeps
<1>7. CASE \E t \in Torrents : \E kept \in SUBSET Up : GracefulPause(t, kept)  BY <1>7, PauseKeeps
<1>8. CASE \/ \E a \in Algorithms, limit \in SlotLimits, ignore \in BOOLEAN : SetSettings(a, limit, ignore)
           \/ \E t \in Torrents : Resume(t)
           \/ \E t \in Torrents : FilesChecked(t)
           \/ UNCHANGED vars
  BY <1>8, SettingsKeep
<1> QED  BY <1>1, <1>2, <1>3, <1>4, <1>5, <1>6, <1>7, <1>8 DEF Next

\* The invariant says what the run checks.
LEMMA ChokerEnds == ChokerInv => SlotsAreCounted
<1> SUFFICES ASSUME ChokerInv  PROVE SlotsAreCounted  OBVIOUS
<1>1. /\ Sound(Now, paused) /\ Now.peer = peer /\ Now.uploads = uploads
      /\ \A p \in Peers : PeerRight(p, peer[p], paused)
  BY InvNow
<1>2. \A p \in Peers : Using(Now, p) => p \in Up  BY <1>1 DEF Using, Up, PeerRight, Gone
<1>3. {p \in Up : Using(Now, p)} = Users(Now)  BY <1>2 DEF Users, Up
<1>4. \A t : {p \in Up : TorrentOf[p] = t /\ Using(Now, p)} = UsersOf(Now, t)  BY <1>2 DEF UsersOf, Up
<1>5. \A t \in Torrents : uploads[t] = Cardinality(UsersOf(Now, t))  BY <1>1 DEF Sound
<1>6. {p \in Peers : peer[p].optimistic} = Opts(Now)  BY <1>1 DEF Opts
<1>7. \A p \in Peers : peer[p].optimistic => ~peer[p].choked  BY <1>1 DEF PeerRight
<1> QED  BY <1>3, <1>4, <1>5, <1>6, <1>7 DEF SlotsAreCounted, ChokerInv

\* Counts that are wrong stay so.
LEMMA MiscountedStays ==
    ASSUME miscounted \in BOOLEAN, [Next]_vars
    PROVE  miscounted' \in BOOLEAN /\ (miscounted => miscounted')
  BY DEF Next, vars, Connect, Disconnect, IncomingInterested, IncomingNotInterested,
         RecalculateUnchokeSlots, RecalculateOptimistic, SetSettings, GracefulPause, Resume, FilesChecked

\* The slots that the session and every torrent count are those in use, and there
\* are not more optimistic slots than there may be, for any peers and torrents,
\* any settings and any order the rounds go through the peers in, until one of
\* three things happens: set_settings changes whether local peers need slots
\* while one is unchoked (peer_connection::ignore_unchoke_slots); do_pause chokes
\* a peer that needs none by session_impl::choke_peer; recalculate_unchoke_slots
\* passes over a peer of a paused torrent that incoming_interested unchoked.
THEOREM ChokerTheorem == Spec => []SlotsAreCounted
<1> DEFINE Inv == miscounted \in BOOLEAN /\ (miscounted \/ ChokerInv)
<1>1. Init => Inv  BY ChokerStarts DEF Init
<1>2. ASSUME Inv, [Next]_vars  PROVE Inv'
  <2>1. miscounted' \in BOOLEAN /\ (miscounted => miscounted')  BY <1>2, MiscountedStays
  <2>2. CASE miscounted'  BY <2>1, <2>2
  <2>3. CASE ~miscounted'
    <3>1. miscounted' = FALSE /\ ChokerInv  BY <1>2, <2>1, <2>3
    <3> QED  BY <1>2, <2>1, <3>1, ChokerStep
  <2> QED  BY <2>2, <2>3
<1>3. Inv => SlotsAreCounted  BY ChokerEnds DEF SlotsAreCounted
<1> QED  BY <1>1, <1>2, <1>3, PTL DEF Spec
=============================================================================
