----------------------------- MODULE DiskProofs -----------------------------
(***************************************************************************)
(* The picker and the request queues of the connections agree, and while   *)
(* no disk operation fails, the two threads do: the picker, the request    *)
(* queues, the job queue, the write cache and the completions together     *)
(* keep the promise of VerifiedStore, for any number of peers, pieces and  *)
(* blocks.                                                                 *)
(***************************************************************************)
EXTENDS BlockDownloadProofs

-----------------------------------------------------------------------------
(* Counting blocks. *)

\* Blocks of one set and of another that has none of them are counted together.
LEMMA InUnion ==
    ASSUME NEW A \in SUBSET Block, NEW B \in SUBSET Block, A \cap B = {}, NEW p
    PROVE  In(A \cup B, p) = In(A, p) + In(B, p)
<1> DEFINE a == {b \in A : PieceOf(b) = p}
           c == {b \in B : PieceOf(b) = p}
<1>1. {b \in A \cup B : PieceOf(b) = p} = a \cup c  OBVIOUS
<1>2. IsFiniteSet(a) /\ IsFiniteSet(c)  BY BlockFinite, FS_Subset
<1>3. a \cap c = {}  OBVIOUS
<1>4. Cardinality(a) \in Nat /\ Cardinality(c) \in Nat  BY BlockCount
<1>5. In(A, p) = Cardinality(a) /\ In(B, p) = Cardinality(c)
      /\ In(A \cup B, p) = Cardinality(a \cup c)
  BY <1>1 DEF In
<1> HIDE DEF a, c
<1>6. Cardinality(a \cup c) = Cardinality(a) + Cardinality(c) - Cardinality({})
  BY <1>2, <1>3, FS_Union
<1>7. Cardinality({}) = 0  BY FS_EmptySet
<1> QED  BY <1>4, <1>5, <1>6, <1>7

\* Taking blocks away takes away their count.
LEMMA InMinus ==
    ASSUME NEW A \in SUBSET Block, NEW B \in SUBSET A, NEW p
    PROVE  In(A \ B, p) = In(A, p) - In(B, p)
<1>1. A \ B \in SUBSET Block /\ B \in SUBSET Block /\ (A \ B) \cap B = {} /\ (A \ B) \cup B = A
  OBVIOUS
<1>2. In(A, p) = In(A \ B, p) + In(B, p)  BY <1>1, InUnion
<1>3. In(A \ B, p) \in Nat /\ In(B, p) \in Nat  BY <1>1, InType
<1> QED  BY <1>2, <1>3

\* One block counts for its piece.
LEMMA InOne ==
    ASSUME NEW b \in Block, NEW p
    PROVE  In({b}, p) = IF PieceOf(b) = p THEN 1 ELSE 0
<1>1. CASE PieceOf(b) = p
  <2>1. {x \in {b} : PieceOf(x) = p} = {b}  BY <1>1
  <2>2. Cardinality({b}) = 1  BY FS_Singleton
  <2> QED  BY <1>1, <2>1, <2>2 DEF In
<1>2. CASE PieceOf(b) # p
  <2>1. {x \in {b} : PieceOf(x) = p} = {}  BY <1>2
  <2>2. Cardinality({}) = 0  BY FS_EmptySet
  <2> QED  BY <1>2, <2>1, <2>2 DEF In
<1> QED  BY <1>1, <1>2

\* The count is zero if there is no such block.
LEMMA InZero ==
    ASSUME NEW A \in SUBSET Block, NEW p
    PROVE  In(A, p) = 0 <=> \A b \in A : PieceOf(b) # p
<1> DEFINE a == {b \in A : PieceOf(b) = p}
<1>1. IsFiniteSet(a)  BY BlockFinite, FS_Subset
<1>2. a = {} <=> \A b \in A : PieceOf(b) # p  OBVIOUS
<1>3. In(A, p) = Cardinality(a)  BY DEF In
<1> HIDE DEF a
<1> QED  BY <1>1, <1>2, <1>3, FS_EmptySet

\* Sets with the same blocks of p have the same count for p.
LEMMA InSame ==
    ASSUME NEW A, NEW B, NEW p, \A b : PieceOf(b) = p => (b \in A <=> b \in B)
    PROVE  In(A, p) = In(B, p)
<1>1. {b \in A : PieceOf(b) = p} = {b \in B : PieceOf(b) = p}  OBVIOUS
<1> QED  BY <1>1 DEF In

\* What the counters are after some are added.
LEMMA AddFields ==
    ASSUME NEW c, NEW r, NEW w, NEW f
    PROVE  /\ Add(c, r, w, f).requested = c.requested + r
           /\ Add(c, r, w, f).writing = c.writing + w
           /\ Add(c, r, w, f).finished = c.finished + f
  BY DEF Add

-----------------------------------------------------------------------------
(* The picker. *)

StateIn(pk, st) == {b \in Block : pk.info[b].state = st}

\* The counters are the numbers of blocks in each state.
CntRight(pk) ==
    \A p \in Piece :
        /\ pk.cnt[p].requested = In(StateIn(pk, "requested"), p)
        /\ pk.cnt[p].writing = In(StateIn(pk, "writing"), p)
        /\ pk.cnt[p].finished = In(StateIn(pk, "finished"), p)

\* Some block of p is not free.
Touched(pk, p) == \E b \in Block : PieceOf(b) = p /\ pk.info[b].state # "none"

\* A piece has an entry if one of its blocks is not free.
OpenRight(pk) == \A p \in Piece : p \in pk.downloading <=> Touched(pk, p)

\* A block that is requested has a peer, and no other block is counted for one.
NumRight(pk) ==
    \A b \in Block : /\ pk.info[b].state = "requested" => pk.info[b].num_peers > 0
                     /\ pk.info[b].state # "requested" => pk.info[b].num_peers = 0

Books(pk) == pk \in Picker /\ CntRight(pk) /\ OpenRight(pk) /\ NumRight(pk)

\* pk2 has the same pieces, and the same blocks on the way to the disk.
Stays(pk, pk2) ==
    /\ pk2.have = pk.have
    /\ \A b \in Block : /\ pk2.info[b].state = "writing" <=> pk.info[b].state = "writing"
                        /\ pk2.info[b].state = "finished" <=> pk.info[b].state = "finished"

\* The sum of the counters is zero if and only if no block is touched.
LEMMA ActiveMeans ==
    ASSUME NEW pk \in Picker, CntRight(pk), NEW p \in Piece
    PROVE  /\ Active(pk.cnt[p]) \in Nat
           /\ Active(pk.cnt[p]) = 0 <=> ~Touched(pk, p)
<1> DEFINE r == StateIn(pk, "requested")
           w == StateIn(pk, "writing")
           f == StateIn(pk, "finished")
<1>1. r \in SUBSET Block /\ w \in SUBSET Block /\ f \in SUBSET Block  BY DEF StateIn
<1>2. In(r, p) \in Nat /\ In(w, p) \in Nat /\ In(f, p) \in Nat  BY <1>1, InType
<1>3. Active(pk.cnt[p]) = In(r, p) + In(w, p) + In(f, p)  BY DEF CntRight, Active
<1>4. \A b \in Block : pk.info[b].state # "none" <=> b \in r \/ b \in w \/ b \in f
  BY InfoFields DEF StateIn, BlockState
<1> HIDE DEF r, w, f
<1>5. In(r, p) = 0 /\ In(w, p) = 0 /\ In(f, p) = 0 <=> ~Touched(pk, p)
  <2>1. In(r, p) = 0 <=> \A b \in r : PieceOf(b) # p  BY <1>1, InZero
  <2>2. In(w, p) = 0 <=> \A b \in w : PieceOf(b) # p  BY <1>1, InZero
  <2>3. In(f, p) = 0 <=> \A b \in f : PieceOf(b) # p  BY <1>1, InZero
  <2> QED  BY <1>1, <1>4, <2>1, <2>2, <2>3 DEF Touched
<1> QED  BY <1>2, <1>3, <1>5

\* What erase_download_piece() leaves.
LEMMA EraseFields ==
    ASSUME NEW pk \in Picker, NEW ps
    PROVE  /\ Erase(pk, ps).have = pk.have
           /\ Erase(pk, ps).downloading = pk.downloading \ ps
           /\ \A b \in Block : Erase(pk, ps).info[b] =
                 IF PieceOf(b) \in ps THEN FreshInfo ELSE pk.info[b]
           /\ \A p \in Piece : Erase(pk, ps).cnt[p] = IF p \in ps THEN ZeroCount ELSE pk.cnt[p]
  BY DEF Erase

\* Erasing entries keeps the counters and the numbers of peers, and the entries of
\* the other pieces.
LEMMA EraseHalf ==
    ASSUME NEW pk \in Picker, CntRight(pk), NumRight(pk), NEW ps
    PROVE  /\ Erase(pk, ps) \in Picker
           /\ CntRight(Erase(pk, ps))
           /\ NumRight(Erase(pk, ps))
           /\ \A p \in Piece : Touched(Erase(pk, ps), p) <=> p \notin ps /\ Touched(pk, p)
<1> DEFINE new == Erase(pk, ps)
<1>1. /\ \A b \in Block : new.info[b] = IF PieceOf(b) \in ps THEN FreshInfo ELSE pk.info[b]
      /\ \A p \in Piece : new.cnt[p] = IF p \in ps THEN ZeroCount ELSE pk.cnt[p]
  BY EraseFields
<1>2. new \in Picker  BY EraseType
<1>3. FreshInfo.state = "none" /\ FreshInfo.num_peers = 0  BY DEF FreshInfo
<1> HIDE DEF new
<1>4. ASSUME NEW p \in Piece, NEW st, st # "none"
      PROVE  In(StateIn(new, st), p) = IF p \in ps THEN 0 ELSE In(StateIn(pk, st), p)
  <2>1. CASE p \in ps
    <3>1. StateIn(new, st) \in SUBSET Block  BY DEF StateIn
    <3>2. \A b \in StateIn(new, st) : PieceOf(b) # p  BY <1>1, <1>3, <1>4, <2>1 DEF StateIn
    <3> QED  BY <2>1, <3>1, <3>2, InZero
  <2>2. CASE p \notin ps
    <3>1. \A b : PieceOf(b) = p => (b \in StateIn(new, st) <=> b \in StateIn(pk, st))
      BY <1>1, <2>2 DEF StateIn
    <3> QED  BY <2>2, <3>1, InSame
  <2> QED  BY <2>1, <2>2
<1>5. CntRight(new)
  <2>1. ZeroCount.requested = 0 /\ ZeroCount.writing = 0 /\ ZeroCount.finished = 0
    BY DEF ZeroCount
  <2> QED  BY <1>1, <1>4, <2>1 DEF CntRight
<1>6. NumRight(new)  BY <1>1, <1>3 DEF NumRight
<1>7. \A p \in Piece : Touched(new, p) <=> p \notin ps /\ Touched(pk, p)
  BY <1>1, <1>3 DEF Touched
<1> QED  BY <1>2, <1>5, <1>6, <1>7 DEF new

\* erase_download_piece() keeps the books.
LEMMA EraseBooks ==
    ASSUME NEW pk, Books(pk), NEW ps
    PROVE  Books(Erase(pk, ps))
<1>1. /\ Erase(pk, ps) \in Picker /\ CntRight(Erase(pk, ps)) /\ NumRight(Erase(pk, ps))
      /\ \A p \in Piece : Touched(Erase(pk, ps), p) <=> p \notin ps /\ Touched(pk, p)
  BY EraseHalf DEF Books
<1>2. Erase(pk, ps).downloading = pk.downloading \ ps  BY EraseFields DEF Books
<1> QED  BY <1>1, <1>2 DEF Books, OpenRight

\* Dropping the idle entries among ps closes the books that some of ps have open
\* without a block, and changes nothing else.
LEMMA EraseIdleBooks ==
    ASSUME NEW pk \in Picker, CntRight(pk), NumRight(pk), NEW ps \in SUBSET Piece,
           \A p \in Piece \ ps : p \in pk.downloading <=> Touched(pk, p),
           \A p \in ps : p \in pk.downloading
    PROVE  /\ Books(EraseIdle(pk, ps))
           /\ Stays(pk, EraseIdle(pk, ps))
           /\ \A b \in Block : /\ EraseIdle(pk, ps).info[b].state = pk.info[b].state
                               /\ EraseIdle(pk, ps).info[b].num_peers = pk.info[b].num_peers
<1> DEFINE idle == {p \in ps : Active(pk.cnt[p]) = 0}
           new == EraseIdle(pk, ps)
<1>1. new = Erase(pk, idle)  BY DEF EraseIdle
<1>2. \A p \in Piece : p \in idle <=> p \in ps /\ ~Touched(pk, p)  BY ActiveMeans
<1> HIDE DEF idle, new
<1>3. /\ new \in Picker /\ CntRight(new) /\ NumRight(new)
      /\ \A p \in Piece : Touched(new, p) <=> p \notin idle /\ Touched(pk, p)
  BY <1>1, EraseHalf
<1>4. /\ new.have = pk.have /\ new.downloading = pk.downloading \ idle
      /\ \A b \in Block : new.info[b] = IF PieceOf(b) \in idle THEN FreshInfo ELSE pk.info[b]
  BY <1>1, EraseFields
<1>5. OpenRight(new)  BY <1>2, <1>3, <1>4 DEF OpenRight
<1>6. ASSUME NEW b \in Block
      PROVE  new.info[b].state = pk.info[b].state /\ new.info[b].num_peers = pk.info[b].num_peers
  <2>1. CASE PieceOf(b) \in idle
    <3>1. PieceOf(b) \in Piece  BY DEF Block, PieceOf
    <3>2. pk.info[b].state = "none"  BY <1>2, <2>1, <3>1 DEF Touched
    <3>3. pk.info[b].num_peers = 0  BY <3>2 DEF NumRight
    <3> QED  BY <1>4, <2>1, <3>2, <3>3 DEF FreshInfo
  <2>2. CASE PieceOf(b) \notin idle  BY <1>4, <2>2
  <2> QED  BY <2>1, <2>2
<1>7. Books(new)  BY <1>3, <1>5 DEF Books
<1>8. Stays(pk, new)  BY <1>4, <1>6 DEF Stays
<1> QED  BY <1>6, <1>7, <1>8 DEF new

\* mark_as_downloading() counts the new requests.
LEMMA MarkAsDownloadingBooks ==
    ASSUME NEW pk, Books(pk), NEW from \in [Block -> SUBSET Peer]
    PROVE  LET pk2 == MarkAsDownloading(pk, from)
           IN  /\ Books(pk2) /\ Stays(pk, pk2)
               /\ \A b \in Block : pk.info[b].state \in {"none", "requested"} =>
                     pk2.info[b].num_peers = pk.info[b].num_peers + Cardinality(from[b])
<1> DEFINE new == {b \in Block : /\ from[b] # {}
                                 /\ pk.info[b].state \in {"none", "requested"}}
           opened == {b \in new : pk.info[b].state = "none"}
           pk2 == MarkAsDownloading(pk, from)
<1>0. pk \in Picker  BY DEF Books
<1>1. pk2 \in Picker  BY <1>0, MarkAsDownloadingType
<1>2. /\ pk2.have = pk.have /\ pk2.downloading = pk.downloading \cup Pieces(new)
      /\ \A p \in Piece : pk2.cnt[p] = Add(pk.cnt[p], In(opened, p), 0, 0)
      /\ \A b \in Block : b \notin new => pk2.info[b] = pk.info[b]
      /\ \A b \in new : /\ pk2.info[b].state = "requested"
                        /\ pk2.info[b].num_peers = pk.info[b].num_peers + Cardinality(from[b])
  BY DEF MarkAsDownloading
<1>3. /\ \A b \in Block : b \in new <=> from[b] # {} /\ pk.info[b].state \in {"none", "requested"}
      /\ new \in SUBSET Block
  OBVIOUS
<1>4. opened \in SUBSET Block /\ \A b \in Block : b \in opened <=> b \in new /\ pk.info[b].state = "none"
  OBVIOUS
<1>5. \A b \in Block : /\ Cardinality(from[b]) \in Nat
                       /\ from[b] # {} => Cardinality(from[b]) > 0
                       /\ from[b] = {} => Cardinality(from[b]) = 0
  <2>1. SUFFICES ASSUME NEW b \in Block
                 PROVE  /\ Cardinality(from[b]) \in Nat
                        /\ from[b] # {} => Cardinality(from[b]) > 0
                        /\ from[b] = {} => Cardinality(from[b]) = 0
    OBVIOUS
  <2>2. from[b] \in SUBSET Peer  OBVIOUS
  <2>3. Cardinality(from[b]) \in Nat /\ IsFiniteSet(from[b])
    BY <2>2, PeerCount, PeerAssumption, FS_Subset
  <2> QED  BY <2>3, FS_EmptySet
<1> HIDE DEF new, opened, pk2
<1>6. CntRight(pk2)
  <2> SUFFICES ASSUME NEW p \in Piece
               PROVE  /\ pk2.cnt[p].requested = In(StateIn(pk2, "requested"), p)
                      /\ pk2.cnt[p].writing = In(StateIn(pk2, "writing"), p)
                      /\ pk2.cnt[p].finished = In(StateIn(pk2, "finished"), p)
    BY DEF CntRight
  <2>1. StateIn(pk2, "requested") = StateIn(pk, "requested") \cup opened
    BY <1>2, <1>3, <1>4 DEF StateIn
  <2>2. StateIn(pk2, "writing") = StateIn(pk, "writing")  BY <1>2, <1>3 DEF StateIn
  <2>3. StateIn(pk2, "finished") = StateIn(pk, "finished")  BY <1>2, <1>3 DEF StateIn
  <2>4. StateIn(pk, "requested") \cap opened = {}  BY <1>4 DEF StateIn
  <2>5. StateIn(pk, "requested") \in SUBSET Block  BY DEF StateIn
  <2>6. In(StateIn(pk2, "requested"), p) = In(StateIn(pk, "requested"), p) + In(opened, p)
    BY <1>4, <2>1, <2>4, <2>5, InUnion
  <2>7. /\ pk2.cnt[p].requested = pk.cnt[p].requested + In(opened, p)
        /\ pk2.cnt[p].writing = pk.cnt[p].writing + 0
        /\ pk2.cnt[p].finished = pk.cnt[p].finished + 0
    BY <1>2, AddFields
  <2>8. pk.cnt[p].writing \in Int /\ pk.cnt[p].finished \in Int
    BY <1>0, PickerFields DEF Counters
  <2> QED  BY <2>2, <2>3, <2>6, <2>7, <2>8 DEF Books, CntRight
<1>7. OpenRight(pk2)
  <2>1. \A p \in Piece : Touched(pk2, p) <=> Touched(pk, p) \/ \E b \in new : PieceOf(b) = p
    BY <1>2, <1>3 DEF Touched
  <2>2. \A p \in Piece : p \in Pieces(new) <=> \E b \in new : PieceOf(b) = p  BY DEF Pieces
  <2> QED  BY <1>2, <2>1, <2>2 DEF Books, OpenRight
<1>8. ASSUME NEW b \in Block
      PROVE  /\ pk2.info[b].state = "requested" => pk2.info[b].num_peers > 0
             /\ pk2.info[b].state # "requested" => pk2.info[b].num_peers = 0
             /\ pk.info[b].state \in {"none", "requested"} =>
                   pk2.info[b].num_peers = pk.info[b].num_peers + Cardinality(from[b])
  <2>1. /\ pk.info[b].num_peers \in Int
        /\ pk.info[b].state = "requested" => pk.info[b].num_peers > 0
        /\ pk.info[b].state # "requested" => pk.info[b].num_peers = 0
    BY <1>0, InfoFields DEF Books, NumRight
  <2>2. CASE b \in new  BY <1>2, <1>3, <1>5, <2>1, <2>2
  <2>3. CASE b \notin new  BY <1>2, <1>3, <1>5, <2>1, <2>3
  <2> QED  BY <2>2, <2>3
<1>9. Stays(pk, pk2)  BY <1>2, <1>3 DEF Stays
<1>10. Books(pk2)  BY <1>1, <1>6, <1>7, <1>8 DEF Books, NumRight
<1> QED  BY <1>8, <1>9, <1>10 DEF pk2

\* abort_download() takes the requests off the count; a block nobody is left for is
\* free again.
LEMMA AbortDownloadBooks ==
    ASSUME NEW pk, Books(pk), NEW from \in [Block -> SUBSET Peer]
    PROVE  LET pk2 == AbortDownload(pk, from)
           IN  /\ Books(pk2) /\ Stays(pk, pk2)
               /\ \A b \in Block :
                     IF pk.info[b].state = "requested"
                     THEN pk2.info[b].num_peers =
                            IF pk.info[b].num_peers <= Cardinality(from[b]) THEN 0
                            ELSE pk.info[b].num_peers - Cardinality(from[b])
                     ELSE pk2.info[b].num_peers = pk.info[b].num_peers
<1> DEFINE hit == {b \in Block : from[b] # {} /\ pk.info[b].state = "requested"}
           freed == {b \in hit : pk.info[b].num_peers <= Cardinality(from[b])}
           fewer(i, ps) == [state     |-> i.state,
                            peer      |-> IF i.peer \in ps THEN NoPeer ELSE i.peer,
                            num_peers |-> i.num_peers - Cardinality(ps)]
           info == [b \in Block |->
                      IF b \in freed THEN FreshInfo
                      ELSE IF b \in hit THEN fewer(pk.info[b], from[b])
                      ELSE pk.info[b]]
           cnt == [p \in Piece |-> Add(pk.cnt[p], -In(freed, p), 0, 0)]
           next == [info |-> info, cnt |-> cnt, downloading |-> pk.downloading,
                    have |-> pk.have]
           pk2 == AbortDownload(pk, from)
<1>0. pk \in Picker  BY DEF Books
<1>1. pk2 = IF hit = {} THEN pk ELSE EraseIdle(next, Pieces(freed))
  BY Zenon DEF AbortDownload
<1>2. /\ \A b \in freed : info[b].state = "none" /\ info[b].num_peers = 0
      /\ \A b \in hit \ freed :
            /\ info[b].state = "requested"
            /\ info[b].num_peers = pk.info[b].num_peers - Cardinality(from[b])
      /\ \A b \in Block \ hit : info[b] = pk.info[b]
  BY DEF FreshInfo
<1>3. /\ \A b \in Block : b \in hit <=> from[b] # {} /\ pk.info[b].state = "requested"
      /\ \A b \in Block : b \in freed <=>
            b \in hit /\ pk.info[b].num_peers <= Cardinality(from[b])
      /\ hit \in SUBSET Block /\ freed \in SUBSET hit
  OBVIOUS
<1>4. ASSUME NEW b \in Block
      PROVE  /\ Cardinality(from[b]) \in Nat
             /\ from[b] # {} => Cardinality(from[b]) > 0
             /\ from[b] = {} => Cardinality(from[b]) = 0
  <2>1. from[b] \in SUBSET Peer  OBVIOUS
  <2>2. Cardinality(from[b]) \in Nat /\ IsFiniteSet(from[b])
    BY <2>1, PeerCount, PeerAssumption, FS_Subset
  <2> QED  BY <2>2, FS_EmptySet
<1>5. ASSUME NEW b \in Block
      PROVE  /\ pk.info[b] \in BlockInfo /\ pk.info[b].num_peers \in Int
             /\ pk.info[b].peer \in Peer \cup {NoPeer}
             /\ pk.info[b].state \in BlockState
             /\ pk.info[b].state = "requested" => pk.info[b].num_peers > 0
             /\ pk.info[b].state # "requested" => pk.info[b].num_peers = 0
  BY <1>0, InfoFields DEF Books, NumRight
<1>6. CASE hit = {}
  <2>1. pk2 = pk  BY <1>1, <1>6
  <2>2. \A b \in Block : pk.info[b].state = "requested" =>
            Cardinality(from[b]) = 0 /\ ~(pk.info[b].num_peers <= 0)
    BY <1>3, <1>4, <1>5, <1>6
  <2> HIDE DEF pk2, hit, freed
  <2>3. Stays(pk, pk)  BY DEF Stays
  <2> QED  BY <1>5, <2>1, <2>2, <2>3 DEF pk2
<1>7. CASE hit # {}
  <2>1. next \in Picker
    <3>1. ASSUME NEW b \in Block  PROVE info[b] \in BlockInfo
      <4>1. CASE b \in freed  BY <4>1, FreshType
      <4>2. CASE b \in hit /\ b \notin freed
        <5>1. pk.info[b].num_peers - Cardinality(from[b]) \in Int  BY <1>4, <1>5
        <5>2. (IF pk.info[b].peer \in from[b] THEN NoPeer ELSE pk.info[b].peer)
                 \in Peer \cup {NoPeer}
          BY <1>5
        <5>3. fewer(pk.info[b], from[b]) \in BlockInfo  BY <1>5, <5>1, <5>2, InfoType
        <5> QED  BY <4>2, <5>3
      <4>3. CASE b \notin hit  BY <1>5, <4>3
      <4> QED  BY <4>1, <4>2, <4>3
    <3>2. info \in [Block -> BlockInfo]
      <4> HIDE DEF fewer, freed, hit
      <4> QED  BY <3>1
    <3>3. cnt \in [Piece -> Counters]
      <4>1. ASSUME NEW p \in Piece  PROVE -In(freed, p) \in Int
        BY <1>3, InType
      <4>2. ASSUME NEW p \in Piece  PROVE Add(pk.cnt[p], -In(freed, p), 0, 0) \in Counters
        <5> HIDE DEF freed
        <5> QED  BY <1>0, <4>1, PickerFields, AddType
      <4> HIDE DEF freed
      <4> QED  BY <4>2
    <3> HIDE DEF info, cnt
    <3> QED  BY <1>0, <3>2, <3>3, PickerFields, PickerIntro
  <2>2. /\ next.info = info /\ next.downloading = pk.downloading /\ next.have = pk.have
        /\ \A p \in Piece : next.cnt[p] = Add(pk.cnt[p], -In(freed, p), 0, 0)
    OBVIOUS
  <2>3. pk2 = EraseIdle(next, Pieces(freed))  BY <1>1, <1>7
  <2> HIDE DEF next, info, cnt, hit, freed, pk2
  <2>4. CntRight(next)
    <3> SUFFICES ASSUME NEW p \in Piece
                 PROVE  /\ next.cnt[p].requested = In(StateIn(next, "requested"), p)
                        /\ next.cnt[p].writing = In(StateIn(next, "writing"), p)
                        /\ next.cnt[p].finished = In(StateIn(next, "finished"), p)
      BY DEF CntRight
    <3>1. StateIn(next, "requested") = StateIn(pk, "requested") \ freed
      BY <1>2, <1>3, <2>2 DEF StateIn
    <3>2. StateIn(next, "writing") = StateIn(pk, "writing")  BY <1>2, <1>3, <2>2 DEF StateIn
    <3>3. StateIn(next, "finished") = StateIn(pk, "finished")  BY <1>2, <1>3, <2>2 DEF StateIn
    <3>4. StateIn(pk, "requested") \in SUBSET Block /\ freed \in SUBSET StateIn(pk, "requested")
      BY <1>3 DEF StateIn
    <3>5. In(StateIn(next, "requested"), p) = In(StateIn(pk, "requested"), p) - In(freed, p)
      BY <3>1, <3>4, InMinus
    <3>6. /\ next.cnt[p].requested = pk.cnt[p].requested + (-In(freed, p))
          /\ next.cnt[p].writing = pk.cnt[p].writing + 0
          /\ next.cnt[p].finished = pk.cnt[p].finished + 0
      BY <2>2, AddFields
    <3>7. /\ pk.cnt[p].writing \in Int /\ pk.cnt[p].finished \in Int
          /\ pk.cnt[p].requested \in Int /\ In(freed, p) \in Nat
      BY <1>0, <1>3, PickerFields, InType DEF Counters
    <3> QED  BY <3>2, <3>3, <3>5, <3>6, <3>7 DEF Books, CntRight
  <2>5. NumRight(next)
    <3>1. ASSUME NEW b \in Block
          PROVE  /\ info[b].state = "requested" => info[b].num_peers > 0
                 /\ info[b].state # "requested" => info[b].num_peers = 0
      <4>1. CASE b \in freed  BY <1>2, <4>1
      <4>2. CASE b \in hit \ freed  BY <1>2, <1>3, <1>4, <1>5, <4>2
      <4>3. CASE b \in Block \ hit  BY <1>2, <1>5, <4>3
      <4> QED  BY <4>1, <4>2, <4>3
    <3> QED  BY <2>2, <3>1 DEF NumRight
  <2>6. Pieces(freed) \in SUBSET Piece  BY <1>3, PiecesType
  <2>7. \A p \in Piece \ Pieces(freed) : p \in next.downloading <=> Touched(next, p)
    <3>1. \A p \in Piece \ Pieces(freed) : Touched(next, p) <=> Touched(pk, p)
      BY <1>2, <1>3, <2>2 DEF Touched, Pieces
    <3> QED  BY <2>2, <3>1 DEF Books, OpenRight
  <2>8. \A p \in Pieces(freed) : p \in next.downloading
    <3>1. \A p \in Pieces(freed) : p \in Piece /\ Touched(pk, p)
      BY <1>3, <2>6 DEF Touched, Pieces
    <3> QED  BY <2>2, <3>1 DEF Books, OpenRight
  <2>9. /\ Books(pk2) /\ Stays(next, pk2)
        /\ \A b \in Block : pk2.info[b].num_peers = info[b].num_peers
    BY <2>1, <2>2, <2>3, <2>4, <2>5, <2>6, <2>7, <2>8, EraseIdleBooks
  <2>10. Stays(pk, next)  BY <1>2, <1>3, <2>2 DEF Stays
  <2>11. Stays(pk, pk2)  BY <2>9, <2>10 DEF Stays
  <2>12. ASSUME NEW b \in Block
         PROVE  IF pk.info[b].state = "requested"
                THEN info[b].num_peers =
                       IF pk.info[b].num_peers <= Cardinality(from[b]) THEN 0
                       ELSE pk.info[b].num_peers - Cardinality(from[b])
                ELSE info[b].num_peers = pk.info[b].num_peers
    <3>1. CASE b \in freed  BY <1>2, <1>3, <3>1
    <3>2. CASE b \in hit \ freed  BY <1>2, <1>3, <3>2
    <3>3. CASE b \in Block \ hit  BY <1>2, <1>3, <1>4, <1>5, <3>3
    <3> QED  BY <3>1, <3>2, <3>3
  <2> QED  BY <2>9, <2>11, <2>12 DEF pk2
<1> HIDE DEF pk2
<1> QED  BY <1>6, <1>7 DEF pk2

\* mark_as_writing() on a block that has not arrived before.
LEMMA MarkAsWritingBooks ==
    ASSUME NEW pk, Books(pk), NEW b \in Block, NEW peer \in Peer, ~IsDownloaded(pk, b)
    PROVE  LET pk2 == MarkAsWriting(pk, b, peer)
           IN  /\ Books(pk2) /\ pk2.have = pk.have
               /\ pk2.info[b].state = "writing"
               /\ \A x \in Block \ {b} : pk2.info[x] = pk.info[x]
<1> DEFINE p == PieceOf(b)
           was == pk.info[b].state
           new == [state |-> "writing", peer |-> peer, num_peers |-> 0]
           d == IF was = "requested" THEN -1 ELSE 0
           pk2 == MarkAsWriting(pk, b, peer)
<1>0. pk \in Picker /\ p \in Piece  BY DEF Books, PieceOf, Block
<1>1. p \notin pk.have /\ was \in {"none", "requested"}
  BY <1>0, InfoFields DEF IsDownloaded, BlockState
<1>2. pk2 \in Picker  BY <1>0, MarkAsWritingType
<1>3. pk2 = [info |-> [pk.info EXCEPT ![b] = new],
             cnt |-> [pk.cnt EXCEPT ![p] = Add(pk.cnt[p], d, 1, 0)],
             downloading |-> pk.downloading \cup {p}, have |-> pk.have]
  BY <1>1 DEF MarkAsWriting
<1>4. /\ pk2.have = pk.have /\ pk2.downloading = pk.downloading \cup {p}
      /\ pk2.info[b].state = "writing" /\ pk2.info[b].num_peers = 0
      /\ \A x \in Block \ {b} : pk2.info[x] = pk.info[x]
      /\ pk2.cnt[p] = Add(pk.cnt[p], d, 1, 0)
      /\ \A q \in Piece \ {p} : pk2.cnt[q] = pk.cnt[q]
  BY <1>0, <1>3, PickerFields
<1> HIDE DEF pk2, new
<1>5. CntRight(pk2)
  <2> SUFFICES ASSUME NEW q \in Piece
               PROVE  /\ pk2.cnt[q].requested = In(StateIn(pk2, "requested"), q)
                      /\ pk2.cnt[q].writing = In(StateIn(pk2, "writing"), q)
                      /\ pk2.cnt[q].finished = In(StateIn(pk2, "finished"), q)
    BY DEF CntRight
  <2> DEFINE R == StateIn(pk, "requested")
             W == StateIn(pk, "writing")
             r == R \cap {b}
  <2>1. StateIn(pk2, "requested") = R \ r  BY <1>4 DEF StateIn
  <2>2. StateIn(pk2, "writing") = W \cup {b}  BY <1>4 DEF StateIn
  <2>3. StateIn(pk2, "finished") = StateIn(pk, "finished")  BY <1>1, <1>4 DEF StateIn
  <2>4. W \cap {b} = {} /\ R \in SUBSET Block /\ r \in SUBSET R /\ W \in SUBSET Block
        /\ {b} \in SUBSET Block
    BY <1>1 DEF StateIn
  <2>5. In(StateIn(pk2, "writing"), q) = In(W, q) + In({b}, q)  BY <2>2, <2>4, InUnion
  <2>6. In(StateIn(pk2, "requested"), q) = In(R, q) - In(r, q)  BY <2>1, <2>4, InMinus
  <2>12. In(StateIn(pk2, "finished"), q) = In(StateIn(pk, "finished"), q)  BY <2>3
  <2>7. In({b}, q) = IF p = q THEN 1 ELSE 0  BY InOne
  <2>8. In(r, q) = IF was = "requested" /\ p = q THEN 1 ELSE 0
    <3>1. CASE was = "requested"
      <4>1. r = {b}  BY <3>1 DEF StateIn
      <4> QED  BY <3>1, <4>1, <2>7
    <3>2. CASE was # "requested"
      <4>1. r = {}  BY <3>2 DEF StateIn
      <4>2. In({}, q) = 0  BY InZero
      <4> QED  BY <3>2, <4>1, <4>2
    <3> QED  BY <3>1, <3>2
  <2>9. /\ pk.cnt[q].writing \in Int /\ pk.cnt[q].finished \in Int /\ pk.cnt[q].requested \in Int
        /\ pk.cnt[q].requested = In(R, q) /\ pk.cnt[q].writing = In(W, q)
        /\ pk.cnt[q].finished = In(StateIn(pk, "finished"), q)
    BY <1>0, PickerFields DEF Counters, Books, CntRight
  <2> HIDE DEF R, W, r
  <2>10. CASE q = p
    <3>1. /\ pk2.cnt[q].requested = pk.cnt[q].requested + d
          /\ pk2.cnt[q].writing = pk.cnt[q].writing + 1
          /\ pk2.cnt[q].finished = pk.cnt[q].finished + 0
      BY <1>4, <2>10, AddFields
    <3> QED  BY <2>5, <2>6, <2>7, <2>8, <2>9, <2>10, <2>12, <3>1
  <2>11. CASE q # p
    BY <1>4, <2>5, <2>6, <2>7, <2>8, <2>9, <2>11, <2>12
  <2> QED  BY <2>10, <2>11
<1>6. OpenRight(pk2)
  <2>1. \A q \in Piece : Touched(pk2, q) <=> q = p \/ Touched(pk, q)
    BY <1>1, <1>4 DEF Touched
  <2> QED  BY <1>4, <2>1 DEF Books, OpenRight
<1>7. NumRight(pk2)  BY <1>4 DEF Books, NumRight
<1> QED  BY <1>2, <1>4, <1>5, <1>6, <1>7 DEF Books, pk2

\* mark_as_finished() on blocks that are being written.
LEMMA MarkAsFinishedBooks ==
    ASSUME NEW pk, Books(pk), NEW bs \in SUBSET Block, NEW who \in [bs -> Peer \cup {NoPeer}],
           \A b \in bs : pk.info[b].state = "writing"
    PROVE  LET pk2 == MarkAsFinished(pk, bs, who)
           IN  /\ Books(pk2) /\ pk2.have = pk.have
               /\ \A b \in Block : pk2.info[b].num_peers = pk.info[b].num_peers
               /\ \A b \in bs : pk2.info[b].state = "finished"
               /\ \A b \in Block \ bs : pk2.info[b] = pk.info[b]
<1> DEFINE pk2 == MarkAsFinished(pk, bs, who)
           new == {b \in bs : /\ PieceOf(b) \in pk.downloading \/ PieceOf(b) \notin pk.have
                              /\ pk.info[b].state # "finished"}
           written == {b \in new : pk.info[b].state = "writing"}
<1>0. pk \in Picker  BY DEF Books
<1>1. pk2 \in Picker  BY <1>0, MarkAsFinishedType
<1>2. \A b \in bs : PieceOf(b) \in Piece /\ PieceOf(b) \in pk.downloading
  BY DEF PieceOf, Block, Books, OpenRight, Touched
<1>3. new = bs /\ written = bs  BY <1>2
<1>4. /\ pk2.have = pk.have /\ pk2.downloading = pk.downloading \cup Pieces(new)
      /\ \A p \in Piece : pk2.cnt[p] = Add(pk.cnt[p], 0, -In(written, p), In(new, p))
      /\ \A b \in Block : b \notin new => pk2.info[b] = pk.info[b]
      /\ \A b \in new : /\ pk2.info[b].state = "finished"
                        /\ pk2.info[b].num_peers = pk.info[b].num_peers
  BY DEF MarkAsFinished
<1> HIDE DEF pk2, new, written
<1>5. CntRight(pk2)
  <2> SUFFICES ASSUME NEW q \in Piece
               PROVE  /\ pk2.cnt[q].requested = In(StateIn(pk2, "requested"), q)
                      /\ pk2.cnt[q].writing = In(StateIn(pk2, "writing"), q)
                      /\ pk2.cnt[q].finished = In(StateIn(pk2, "finished"), q)
    BY DEF CntRight
  <2> DEFINE W == StateIn(pk, "writing")
             F == StateIn(pk, "finished")
  <2>1. StateIn(pk2, "requested") = StateIn(pk, "requested")  BY <1>3, <1>4 DEF StateIn
  <2>2. StateIn(pk2, "writing") = W \ bs  BY <1>3, <1>4 DEF StateIn
  <2>3. StateIn(pk2, "finished") = F \cup bs  BY <1>3, <1>4 DEF StateIn
  <2>4. F \cap bs = {} /\ F \in SUBSET Block /\ bs \in SUBSET W /\ W \in SUBSET Block
    BY DEF StateIn
  <2>5. In(StateIn(pk2, "writing"), q) = In(W, q) - In(bs, q)  BY <2>2, <2>4, InMinus
  <2>6. In(StateIn(pk2, "finished"), q) = In(F, q) + In(bs, q)  BY <2>3, <2>4, InUnion
  <2>7. /\ pk2.cnt[q].requested = pk.cnt[q].requested + 0
        /\ pk2.cnt[q].writing = pk.cnt[q].writing + (-In(bs, q))
        /\ pk2.cnt[q].finished = pk.cnt[q].finished + In(bs, q)
    BY <1>3, <1>4, AddFields
  <2>8. /\ pk.cnt[q].writing \in Int /\ pk.cnt[q].finished \in Int /\ pk.cnt[q].requested \in Int
        /\ In(bs, q) \in Nat
        /\ pk.cnt[q].requested = In(StateIn(pk, "requested"), q) /\ pk.cnt[q].writing = In(W, q)
        /\ pk.cnt[q].finished = In(F, q)
    BY <1>0, PickerFields, InType DEF Counters, Books, CntRight
  <2> HIDE DEF W, F
  <2>9. In(StateIn(pk2, "requested"), q) = In(StateIn(pk, "requested"), q)  BY <2>1
  <2> QED  BY <2>5, <2>6, <2>7, <2>8, <2>9
<1>6. OpenRight(pk2)
  <2>1. \A q \in Piece : Touched(pk2, q) <=> Touched(pk, q)
    BY <1>3, <1>4 DEF Touched
  <2>2. pk2.downloading = pk.downloading  BY <1>2, <1>3, <1>4 DEF Pieces
  <2> QED  BY <2>1, <2>2 DEF Books, OpenRight
<1>7. NumRight(pk2)  BY <1>3, <1>4 DEF Books, NumRight
<1> QED  BY <1>1, <1>3, <1>4, <1>5, <1>6, <1>7 DEF Books, pk2

\* we_have() keeps the books of the other pieces.
LEMMA WeHaveBooks ==
    ASSUME NEW pk, Books(pk), NEW p \in Piece
    PROVE  LET pk2 == WeHave(pk, p)
           IN  /\ Books(pk2) /\ pk2.have = pk.have \cup {p}
               /\ \A b \in Block : pk2.info[b] = IF PieceOf(b) = p THEN FreshInfo ELSE pk.info[b]
<1> DEFINE e == Erase(pk, {p})
           pk2 == WeHave(pk, p)
<1>1. Books(e)  BY EraseBooks
<1>2. pk2 = [info |-> e.info, cnt |-> e.cnt, downloading |-> e.downloading,
             have |-> pk.have \cup {p}]
  BY DEF WeHave
<1>3. pk2 \in Picker  BY WeHaveType DEF Books
<1>4. \A b \in Block : e.info[b] = IF PieceOf(b) = p THEN FreshInfo ELSE pk.info[b]
  BY EraseFields DEF Books
<1> HIDE DEF e
<1>5. pk2.info = e.info /\ pk2.cnt = e.cnt /\ pk2.downloading = e.downloading
      /\ pk2.have = pk.have \cup {p}
  BY <1>2
<1> HIDE DEF pk2
<1>6. CntRight(pk2)  BY <1>1, <1>5 DEF Books, CntRight, StateIn
<1>7. OpenRight(pk2) /\ NumRight(pk2)  BY <1>1, <1>5 DEF Books, OpenRight, NumRight, Touched
<1> QED  BY <1>3, <1>4, <1>5, <1>6, <1>7 DEF Books, pk2

\* is_piece_finished() is true if every block has arrived.
LEMMA FinishedMeans ==
    ASSUME NEW pk, Books(pk), NEW p \in Piece
    PROVE  IsPieceFinished(pk, p) <=>
             \A b \in Block : PieceOf(b) = p => pk.info[b].state \in {"writing", "finished"}
<1> DEFINE W == StateIn(pk, "writing")
           F == StateIn(pk, "finished")
           all == BlocksIn(p)
           got == {b \in W \cup F : PieceOf(b) = p}
<1>1. pk.cnt[p].writing = In(W, p) /\ pk.cnt[p].finished = In(F, p)  BY DEF Books, CntRight
<1>2. W \in SUBSET Block /\ F \in SUBSET Block /\ W \cap F = {}  BY DEF StateIn
<1>3. In(W \cup F, p) = In(W, p) + In(F, p)  BY <1>2, InUnion
<1>4. In(W \cup F, p) = Cardinality(got)  BY DEF In
<1>5. \A b : b \in all <=> b \in Block /\ PieceOf(b) = p  BY DEF BlocksIn, Block, PieceOf
<1>6. IsFiniteSet(all) /\ Cardinality(all) = Cardinality(Index) /\ Cardinality(Index) \in Nat
  <2>1. IsFiniteSet({p}) /\ Cardinality({p}) = 1  BY FS_Singleton
  <2>2. IsFiniteSet(Index) /\ Cardinality(Index) \in Nat  BY BlockAssumption, FS_CardinalityType
  <2>3. IsFiniteSet({p} \X Index) /\ Cardinality({p} \X Index) = 1 * Cardinality(Index)
    BY <2>1, <2>2, FS_Product
  <2> QED  BY <2>2, <2>3 DEF BlocksIn
<1>7. got \in SUBSET all  BY <1>2, <1>5
<1>8. In(W, p) \in Nat /\ In(F, p) \in Nat  BY <1>2, InType
<1>9. got = all <=> \A b \in Block : PieceOf(b) = p => pk.info[b].state \in {"writing", "finished"}
  <2>1. \A b : b \in got <=> b \in Block /\ PieceOf(b) = p /\ pk.info[b].state \in {"writing", "finished"}
    BY DEF StateIn
  <2> HIDE DEF got, all
  <2> QED  BY <1>5, <1>7, <2>1
<1>10. p \in pk.downloading <=> Touched(pk, p)  BY DEF Books, OpenRight
<1>11. got = all => Touched(pk, p)
  <2>1. PICK i \in Index : TRUE  BY BlockAssumption
  <2>2. <<p, i>> \in Block /\ PieceOf(<<p, i>>) = p  BY DEF Block, PieceOf
  <2> QED  BY <1>9, <2>2 DEF Touched
<1> HIDE DEF got, all, W, F
<1>12. Cardinality(got) \in Nat /\ Cardinality(got) <= Cardinality(all)
       /\ (Cardinality(got) = Cardinality(all) => got = all)
  BY <1>6, <1>7, FS_Subset, FS_CardinalityType
<1>13. IsPieceFinished(pk, p) <=> p \in pk.downloading /\ In(F, p) + In(W, p) >= Cardinality(Index)
  BY <1>1 DEF IsPieceFinished
<1> QED  BY <1>3, <1>4, <1>6, <1>8, <1>9, <1>10, <1>11, <1>12, <1>13
-----------------------------------------------------------------------------
(* The record a handler works on. *)

\* The peers the picker should have counted for block b.
Askers(s, b) == {p \in Peer : s.queue[p][b] \in Counted}

\* The count of a block that has not arrived is the number of those peers.
ReqRight(s) ==
    \A b \in Block : ~IsDownloaded(s.picker, b) =>
        s.picker.info[b].num_peers = Cardinality(Askers(s, b))

\* A peer that is not connected has no request.
IdleDown(s) ==
    \A p \in Peer : s.conn[p] # "up" => \A b \in Block : s.queue[p][b] = "idle"

Sound(s) == Fine(s) /\ Books(s.picker) /\ ReqRight(s) /\ IdleDown(s)

\* t is sound, and no block has arrived or was written, or given up, since s.
Moves(s, t) == Sound(t) /\ Stays(s.picker, t.picker)

\* A block has then arrived in the one if it has in the other.
LEMMA StaysDownloaded ==
    ASSUME NEW pk, NEW pk2, Stays(pk, pk2), NEW b \in Block
    PROVE  IsDownloaded(pk2, b) <=> IsDownloaded(pk, b)
  BY DEF Stays, IsDownloaded

\* Moves can be chained.
LEMMA MovesOn ==
    ASSUME NEW s, NEW t, NEW u, Stays(s.picker, t.picker), Stays(t.picker, u.picker)
    PROVE  Stays(s.picker, u.picker)
  BY DEF Stays

\* The peers counted for a block are finitely many.
LEMMA AskersCount ==
    ASSUME NEW s, NEW b
    PROVE  /\ IsFiniteSet(Askers(s, b)) /\ Cardinality(Askers(s, b)) \in Nat
           /\ Cardinality(Askers(s, b)) = 0 <=> Askers(s, b) = {}
<1>1. Askers(s, b) \in SUBSET Peer  BY DEF Askers
<1>2. IsFiniteSet(Askers(s, b))  BY <1>1, PeerAssumption, FS_Subset
<1> QED  BY <1>2, FS_CardinalityType, FS_EmptySet

\* An update that leaves the picker and the counted peers as they are is sound.
LEMMA QuietMoves ==
    ASSUME NEW s, Sound(s), NEW t, t \in NetType, t.picker = s.picker, IdleDown(t),
           \A b \in Block : ~IsDownloaded(s.picker, b) => Askers(t, b) = Askers(s, b)
    PROVE  Moves(s, t)
<1>1. Fine(t)  BY DEF Sound, Fine
<1>2. ReqRight(t)  BY DEF Sound, ReqRight
<1>3. Stays(s.picker, t.picker)  BY DEF Stays
<1> QED  BY <1>1, <1>2, <1>3 DEF Moves, Sound

\* The parts of the record once requests were taken off the queues.
LEMMA DequeueFields ==
    ASSUME NEW s \in NetType, NEW bs \in Blocks
    PROVE  /\ Dequeue(s, bs).conn = s.conn
           /\ Dequeue(s, bs).receiving = s.receiving
           /\ Dequeue(s, bs).parole = s.parole
           /\ \A p \in Peer, b \in Block :
                 Dequeue(s, bs).queue[p][b] = IF b \in bs[p] THEN "idle" ELSE s.queue[p][b]
           /\ Dequeue(s, bs).picker =
                 AbortDownload(s.picker, [b \in Block |->
                     {p \in Peer : b \in bs[p] /\ s.queue[p][b] \in Counted}])
<1> DEFINE q == [p \in Peer |-> [b \in Block |-> IF b \in bs[p] THEN "idle" ELSE s.queue[p][b]]]
           from == [b \in Block |-> {p \in Peer : b \in bs[p] /\ s.queue[p][b] \in Counted}]
           pk == AbortDownload(s.picker, from)
           t == [s EXCEPT !.queue = q, !.picker = pk]
<1>1. \A p \in Peer, b \in Block : q[p][b] = IF b \in bs[p] THEN "idle" ELSE s.queue[p][b]
  OBVIOUS
<1> HIDE DEF q, pk
<1>2. /\ t.conn = s.conn /\ t.receiving = s.receiving /\ t.parole = s.parole
      /\ t.queue = q /\ t.picker = pk
  BY DEF NetType
<1>3. Dequeue(s, bs) = t  BY Zenon DEF Dequeue, q, from, pk
<1> HIDE DEF t
<1> QED  BY <1>1, <1>2, <1>3 DEF pk

\* Taking requests off the queues is sound.
LEMMA DequeueMoves ==
    ASSUME NEW s, Sound(s), NEW bs \in Blocks
    PROVE  Moves(s, Dequeue(s, bs))
<1> DEFINE from == [b \in Block |-> {p \in Peer : b \in bs[p] /\ s.queue[p][b] \in Counted}]
           t == Dequeue(s, bs)
<1>0. s \in NetType /\ Fine(s)  BY DEF Sound, Fine
<1>1. from \in [Block -> SUBSET Peer]  OBVIOUS
<1>2. /\ t.conn = s.conn
      /\ \A p \in Peer, b \in Block : t.queue[p][b] = IF b \in bs[p] THEN "idle" ELSE s.queue[p][b]
      /\ t.picker = AbortDownload(s.picker, from)
  BY <1>0, DequeueFields
<1>3. Fine(t)  BY <1>0, DequeueSame DEF Same
<1>4. \A b \in Block : /\ from[b] \in SUBSET Askers(s, b)
                       /\ Askers(t, b) = Askers(s, b) \ from[b]
  <2>1. "idle" \notin Counted  BY DEF Counted
  <2> HIDE DEF t
  <2> QED  BY <1>2, <2>1 DEF Askers
<1> HIDE DEF from, t
<1>5. /\ Books(t.picker) /\ Stays(s.picker, t.picker)
      /\ \A b \in Block :
            IF s.picker.info[b].state = "requested"
            THEN t.picker.info[b].num_peers =
                   IF s.picker.info[b].num_peers <= Cardinality(from[b]) THEN 0
                   ELSE s.picker.info[b].num_peers - Cardinality(from[b])
            ELSE t.picker.info[b].num_peers = s.picker.info[b].num_peers
  BY <1>1, <1>2, AbortDownloadBooks DEF Sound
<1>6. IdleDown(t)  BY <1>2 DEF Sound, IdleDown
<1>7. ReqRight(t)
  <2> SUFFICES ASSUME NEW b \in Block, ~IsDownloaded(t.picker, b)
               PROVE  t.picker.info[b].num_peers = Cardinality(Askers(t, b))
    BY DEF ReqRight
  <2>1. ~IsDownloaded(s.picker, b)  BY <1>5, StaysDownloaded
  <2>2. s.picker.info[b].num_peers = Cardinality(Askers(s, b))  BY <2>1 DEF Sound, ReqRight
  <2>3. /\ IsFiniteSet(Askers(s, b)) /\ Cardinality(Askers(s, b)) \in Nat
        /\ Cardinality(Askers(s, b)) = 0 <=> Askers(s, b) = {}
    BY AskersCount
  <2>4. /\ Cardinality(from[b]) \in Nat /\ Cardinality(from[b]) <= Cardinality(Askers(s, b))
        /\ IsFiniteSet(from[b])
    BY <1>4, <2>3, FS_Subset, FS_CardinalityType
  <2>5. Cardinality(Askers(t, b)) = Cardinality(Askers(s, b)) - Cardinality(from[b])
    <3>1. Askers(s, b) \cap from[b] = from[b]  BY <1>4
    <3>2. Cardinality(Askers(s, b) \ from[b])
            = Cardinality(Askers(s, b)) - Cardinality(Askers(s, b) \cap from[b])
      BY <2>3, FS_Difference
    <3> QED  BY <1>4, <3>1, <3>2
  <2>6. CASE s.picker.info[b].state = "requested"
    BY <1>5, <2>2, <2>3, <2>4, <2>5, <2>6
  <2>7. CASE s.picker.info[b].state # "requested"
    <3>1. s.picker.info[b].num_peers = 0  BY <2>7 DEF Sound, Books, NumRight
    <3> QED  BY <1>5, <2>2, <2>3, <2>4, <2>5, <2>7, <3>1
  <2> QED  BY <2>6, <2>7
<1> QED  BY <1>3, <1>5, <1>6, <1>7 DEF Moves, Sound, t

\* Moving entries between the queues is sound if the counted ones of the blocks
\* that have not arrived stay counted.
LEMMA SetQueueMoves ==
    ASSUME NEW s, Sound(s), NEW q \in QueueType,
           \A p \in Peer, b \in Block :
              /\ s.conn[p] # "up" => q[p][b] = "idle"
              /\ ~IsDownloaded(s.picker, b) =>
                    (q[p][b] \in Counted <=> s.queue[p][b] \in Counted)
    PROVE  /\ Moves(s, [s EXCEPT !.queue = q])
           /\ [s EXCEPT !.queue = q].queue = q
           /\ [s EXCEPT !.queue = q].picker = s.picker
           /\ [s EXCEPT !.queue = q].conn = s.conn
<1> DEFINE t == [s EXCEPT !.queue = q]
<1>0. s \in NetType  BY DEF Sound, Fine
<1>1. t \in NetType  BY <1>0, SetQueue
<1>2. t.picker = s.picker /\ t.conn = s.conn /\ t.queue = q  BY <1>0 DEF NetType
<1> HIDE DEF t
<1>3. IdleDown(t)  BY <1>2 DEF IdleDown
<1>4. \A b \in Block : ~IsDownloaded(s.picker, b) => Askers(t, b) = Askers(s, b)
  BY <1>2 DEF Askers
<1>5. Moves(s, t)  BY <1>1, <1>2, <1>3, <1>4, QuietMoves
<1> QED  BY <1>2, <1>5 DEF t

\* Closing connections is sound.
LEMMA DisconnectMoves ==
    ASSUME NEW s, Sound(s), NEW ps
    PROVE  Moves(s, Disconnect(s, ps))
<1> DEFINE off == ps \cap Up(s)
           bs == [p \in Peer |-> IF p \in off THEN Block ELSE {}]
           next == Dequeue(s, bs)
           c == [p \in Peer |-> IF p \in off THEN "gone" ELSE next.conn[p]]
           r == [p \in Peer |-> IF p \in off THEN NoBlock ELSE next.receiving[p]]
           t == [next EXCEPT !.conn = c, !.receiving = r]
<1>0. s \in NetType  BY DEF Sound, Fine
<1>1. bs \in Blocks  BY DEF Blocks
<1>2. Moves(s, next)  BY <1>1, DequeueMoves
<1>3. \A p \in Peer, b \in Block : p \in off => next.queue[p][b] = "idle"
  BY <1>0, <1>1, DequeueFields
<1>4. \A p \in Peer : c[p] # "up" => p \in off \/ next.conn[p] # "up"  OBVIOUS
<1>5. Disconnect(s, ps) = t  BY Zenon DEF Disconnect, off, next, c, r, bs
<1>6. t \in NetType  BY <1>0, <1>5, DisconnectType
<1> HIDE DEF off, bs, next, c, r
<1>7. next \in NetType  BY <1>2 DEF Moves, Sound, Fine
<1>8. t.picker = next.picker /\ t.queue = next.queue /\ t.conn = c  BY <1>7 DEF NetType
<1> HIDE DEF t
<1>9. IdleDown(t)  BY <1>2, <1>3, <1>4, <1>8 DEF IdleDown, Moves, Sound
<1>10. \A b \in Block : Askers(t, b) = Askers(next, b)  BY <1>8 DEF Askers
<1>11. Moves(next, t)  BY <1>2, <1>6, <1>8, <1>9, <1>10, QuietMoves DEF Moves
<1> QED  BY <1>2, <1>5, <1>11, MovesOn DEF Moves

\* Rejected requests: one that is kept is counted before and after.
LEMMA RejectMoves ==
    ASSUME NEW s, Sound(s), NEW bs \in Blocks
    PROVE  Moves(s, Reject(s, bs))
<1> DEFINE kept(p) == {b \in bs[p] : s.parole[p] /\ s.queue[p][b] = "download"}
           keep == [p \in Peer |-> kept(p)]
           out == [p \in Peer |-> (bs[p] \cap InQueue(s, p, Sent)) \ kept(p)]
           next == Dequeue(s, out)
           q == [p \in Peer |-> [b \in Block |->
                    IF b \in kept(p) THEN "request" ELSE next.queue[p][b]]]
<1>0. s \in NetType  BY DEF Sound, Fine
<1>1. out \in Blocks /\ keep \in Blocks  BY InQueueType DEF Blocks
<1>2. \A p \in Peer : kept(p) = keep[p]  OBVIOUS
<1>3. \A p \in Peer, b \in Block : b \in kept(p) => s.queue[p][b] = "download" /\ b \notin out[p]
  OBVIOUS
<1> HIDE DEF out, kept, keep
<1>4. Moves(s, next)  BY <1>1, DequeueMoves
<1>5. /\ next.conn = s.conn
      /\ \A p \in Peer, b \in Block : next.queue[p][b] = IF b \in out[p] THEN "idle" ELSE s.queue[p][b]
  BY <1>0, <1>1, DequeueFields
<1> HIDE DEF next
<1>6. q \in QueueType
  <2>1. q = [p \in Peer |-> [b \in Block |->
                    IF b \in keep[p] THEN "request" ELSE next.queue[p][b]]]
    BY <1>2
  <2> QED  BY <1>1, <1>4, <2>1, QueueUpdate, NetFields, ZenonT(60) DEF Place, Moves, Sound, Fine
<1>7. ASSUME NEW p \in Peer, NEW b \in Block
      PROVE  /\ next.conn[p] # "up" => q[p][b] = "idle"
             /\ q[p][b] \in Counted <=> next.queue[p][b] \in Counted
  <2>1. CASE b \in kept(p)
    <3>1. next.queue[p][b] = "download" /\ q[p][b] = "request"  BY <1>3, <1>5, <2>1
    <3>2. next.conn[p] = "up"  BY <1>4, <3>1 DEF Moves, Sound, IdleDown
    <3> QED  BY <3>1, <3>2 DEF Counted
  <2>2. CASE b \notin kept(p)
    <3>1. q[p][b] = next.queue[p][b]  BY <2>2
    <3> QED  BY <1>4, <3>1 DEF Moves, Sound, IdleDown
  <2> QED  BY <2>1, <2>2
<1> HIDE DEF q
<1>8. Moves(next, [next EXCEPT !.queue = q])  BY <1>4, <1>6, <1>7, SetQueueMoves DEF Moves
<1>9. Reject(s, bs) = [next EXCEPT !.queue = q]  BY Zenon DEF Reject, out, next, q, kept
<1> QED  BY <1>4, <1>8, <1>9, MovesOn DEF Moves

\* Requests rejected on behalf of a peer without FAST.
LEMMA ImplicitRejectMoves ==
    ASSUME NEW s, Sound(s), NEW bs \in Blocks
    PROVE  Moves(s, ImplicitReject(s, bs))
<1>1. [p \in Peer |-> IF p \in FastPeer THEN {} ELSE bs[p]] \in Blocks  BY DEF Blocks
<1> QED  BY <1>1, RejectMoves DEF ImplicitReject

\* The switch alone changes nothing.
LEMMA SetUploadMoves ==
    ASSUME NEW s, Sound(s), NEW u \in BOOLEAN
    PROVE  /\ Moves(s, [s EXCEPT !.upload_mode = u])
           /\ [s EXCEPT !.upload_mode = u].queue = s.queue
<1> DEFINE t == [s EXCEPT !.upload_mode = u]
<1>0. s \in NetType  BY DEF Sound, Fine
<1>1. t \in NetType  BY <1>0, SetUpload
<1>2. t.picker = s.picker /\ t.conn = s.conn /\ t.queue = s.queue  BY <1>0 DEF NetType
<1> HIDE DEF t
<1>3. IdleDown(t)  BY <1>2 DEF IdleDown, Sound
<1>4. \A b \in Block : Askers(t, b) = Askers(s, b)  BY <1>2 DEF Askers
<1>5. Moves(s, t)  BY <1>1, <1>2, <1>3, <1>4, QuietMoves
<1> QED  BY <1>2, <1>5 DEF t

\* set_upload_mode(true).
LEMMA EnterUploadModeMoves ==
    ASSUME NEW s, Sound(s)
    PROVE  Moves(s, EnterUploadMode(s))
<1> DEFINE t == [s EXCEPT !.upload_mode = TRUE]
           sent == [p \in Peer |-> InQueue(s, p, Sent) \ {s.receiving[p]}]
           d == Dequeue(t, Unsent(s, Up(s)))
<1>1. Moves(s, t)  BY SetUploadMoves
<1>2. sent \in Blocks  BY InQueueType DEF Blocks
<1> HIDE DEF t, sent
<1>3. Moves(t, d)  BY <1>1, UnsentType, DequeueMoves DEF Moves
<1> HIDE DEF d
<1>4. Moves(d, ImplicitReject(d, sent))  BY <1>2, <1>3, ImplicitRejectMoves DEF Moves
<1>5. Moves(s, ImplicitReject(d, sent))
  <2>1. Stays(s.picker, d.picker)  BY <1>1, <1>3, MovesOn DEF Moves
  <2> QED  BY <1>4, <2>1, MovesOn DEF Moves
<1>6. EnterUploadMode(s) = s \/ EnterUploadMode(s) = ImplicitReject(d, sent)
  BY Zenon DEF EnterUploadMode, d, t, sent
<1>7. Moves(s, s)  BY DEF Moves, Stays
<1> QED  BY <1>5, <1>6, <1>7

\* cancel_block.
LEMMA CancelBlockMoves ==
    ASSUME NEW s, Sound(s), NEW b
    PROVE  Moves(s, CancelBlock(s, b))
<1> DEFINE here(places) == [p \in Peer |-> {b} \cap InQueue(s, p, places)]
           d == Dequeue(s, here({"request"}))
<1>1. ASSUME NEW places  PROVE here(places) \in Blocks  BY InQueueType DEF Blocks
<1> HIDE DEF here
<1>2. Moves(s, d)  BY <1>1, DequeueMoves
<1> HIDE DEF d
<1>3. Moves(d, ImplicitReject(d, here(Sent)))  BY <1>1, <1>2, ImplicitRejectMoves DEF Moves
<1>4. Moves(s, ImplicitReject(d, here(Sent)))  BY <1>2, <1>3, MovesOn DEF Moves
<1>5. CancelBlock(s, b) = s \/ CancelBlock(s, b) = ImplicitReject(d, here(Sent))
  BY Zenon DEF CancelBlock, d, here
<1>6. Moves(s, s)  BY DEF Moves, Stays
<1> QED  BY <1>4, <1>5, <1>6

\* A piece has then all its blocks in the one if it has them in the other.
LEMMA StaysFinished ==
    ASSUME NEW pk, NEW pk2, Books(pk), Books(pk2), Stays(pk, pk2), NEW p \in Piece
    PROVE  IsPieceFinished(pk2, p) <=> IsPieceFinished(pk, p)
<1>1. IsPieceFinished(pk, p) <=>
        \A b \in Block : PieceOf(b) = p => pk.info[b].state \in {"writing", "finished"}
  BY FinishedMeans
<1>2. IsPieceFinished(pk2, p) <=>
        \A b \in Block : PieceOf(b) = p => pk2.info[b].state \in {"writing", "finished"}
  BY FinishedMeans
<1> QED  BY <1>1, <1>2 DEF Stays

\* What request_a_block may ask p for: blocks of pieces we lack, which have not
\* arrived, and which p has in none of its queues.
LEMMA PicksFacts ==
    ASSUME NEW s, s \in NetType, NEW p \in Peer, NEW size, NEW pick \in Picks(s, p, size)
    PROVE  /\ pick \in SUBSET Block
           /\ \A b \in pick : /\ PieceOf(b) \notin s.picker.have
                              /\ ~IsDownloaded(s.picker, b)
                              /\ s.queue[p][b] = "idle"
                              /\ s.conn[p] = "up"
<1> DEFINE held == InQueue(s, p, Place \ {"idle"})
<1>1. pick \in SUBSET Block
      /\ \A b \in pick : PieceOf(b) \notin s.picker.have /\ ~IsDownloaded(s.picker, b)
  BY DEF Picks, Free, Busy, Pickable
<1>2. \A b \in pick : b \notin held /\ s.conn[p] = "up"
  BY DEF Picks, CanRequest
<1>3. \A b \in Block : s.queue[p][b] \in Place  BY NetFields DEF QueueType
<1>4. \A b \in Block : b \notin held => s.queue[p][b] = "idle"  BY <1>3 DEF InQueue
<1> QED  BY <1>1, <1>2, <1>4

\* add_request, of such blocks.
LEMMA AddRequestMoves ==
    ASSUME NEW s, Sound(s), NEW p \in Peer, NEW size, NEW pick \in Picks(s, p, size)
    PROVE  Moves(s, AddRequest(s, p, pick))
<1> DEFINE from == [b \in Block |-> IF b \in pick THEN {p} ELSE {}]
           pk == MarkAsDownloading(s.picker, from)
           f == [b \in Block |-> IF b \in pick THEN "request" ELSE s.queue[p][b]]
           q == [s.queue EXCEPT ![p] = f]
           t == [s EXCEPT !.picker = pk, !.queue = q]
<1>0. s \in NetType /\ Fine(s)  BY DEF Sound, Fine
<1>1. /\ pick \in SUBSET Block
      /\ \A b \in pick : /\ PieceOf(b) \notin s.picker.have
                         /\ ~IsDownloaded(s.picker, b)
                         /\ s.queue[p][b] = "idle"
                         /\ s.conn[p] = "up"
  BY <1>0, PicksFacts
<1>2. from \in [Block -> SUBSET Peer]  OBVIOUS
<1>3. \A b \in Block : from[b] = IF b \in pick THEN {p} ELSE {}  OBVIOUS
<1> HIDE DEF from
<1>4. /\ Books(pk) /\ Stays(s.picker, pk)
      /\ \A b \in Block : s.picker.info[b].state \in {"none", "requested"} =>
            pk.info[b].num_peers = s.picker.info[b].num_peers + Cardinality(from[b])
  BY <1>2, MarkAsDownloadingBooks DEF Sound
<1>5. \A x \in Peer, b \in Block :
         q[x][b] = IF x = p /\ b \in pick THEN "request" ELSE s.queue[x][b]
  BY <1>0, NetFields DEF QueueType
<1>6. AddRequest(s, p, pick) = t  BY Zenon DEF AddRequest, t, q, f, pk, from
<1>7. Fine(t)
  <2>1. Same(s, AddRequest(s, p, pick))  BY <1>0, <1>1, AddRequestSame
  <2> QED  BY <1>6, <2>1 DEF Same
<1> HIDE DEF pk, q
<1>8. t.picker = pk /\ t.queue = q /\ t.conn = s.conn  BY <1>0 DEF NetType
<1> HIDE DEF t
<1>9. IdleDown(t)  BY <1>1, <1>5, <1>8 DEF IdleDown, Sound
<1>10. ReqRight(t)
  <2> SUFFICES ASSUME NEW b \in Block, ~IsDownloaded(t.picker, b)
               PROVE  t.picker.info[b].num_peers = Cardinality(Askers(t, b))
    BY DEF ReqRight
  <2>1. ~IsDownloaded(s.picker, b)  BY <1>4, <1>8, StaysDownloaded
  <2>2. s.picker.info[b].state \in {"none", "requested"}
    BY <1>0, <2>1, NetFields, InfoFields DEF IsDownloaded, BlockState
  <2>3. t.picker.info[b].num_peers = Cardinality(Askers(s, b)) + Cardinality(from[b])
    BY <1>4, <1>8, <2>1, <2>2 DEF Sound, ReqRight
  <2>4. IsFiniteSet(Askers(s, b)) /\ Cardinality(Askers(s, b)) \in Nat  BY AskersCount
  <2>5. CASE b \in pick
    <3>1. p \notin Askers(s, b)  BY <1>1, <2>5 DEF Askers, Counted
    <3>2. Askers(t, b) = Askers(s, b) \cup {p}  BY <1>5, <1>8, <2>5 DEF Askers, Counted
    <3>3. Cardinality(Askers(s, b) \cup {p}) = Cardinality(Askers(s, b)) + 1
      BY <2>4, <3>1, FS_AddElement
    <3>4. Cardinality({p}) = 1  BY FS_Singleton
    <3> QED  BY <1>3, <2>3, <2>5, <3>2, <3>3, <3>4
  <2>6. CASE b \notin pick
    <3>1. Askers(t, b) = Askers(s, b)  BY <1>5, <1>8, <2>6 DEF Askers
    <3>2. Cardinality({}) = 0  BY FS_EmptySet
    <3> QED  BY <1>3, <2>3, <2>4, <2>6, <3>1, <3>2
  <2> QED  BY <2>5, <2>6
<1> QED  BY <1>4, <1>6, <1>7, <1>8, <1>9, <1>10 DEF Moves, Sound

\* send_block_requests, of requests that have not been sent.
LEMMA SendMoves ==
    ASSUME NEW s, Sound(s), NEW bs \in Blocks,
           \A p \in Peer : bs[p] \subseteq InQueue(s, p, {"request"})
    PROVE  Moves(s, Send(s, bs))
<1> DEFINE late(p) == {b \in bs[p] : IsDownloaded(s.picker, b)}
           out == [p \in Peer |-> late(p)]
           rest == [p \in Peer |-> bs[p] \ late(p)]
           next == Dequeue(s, out)
           q == [p \in Peer |-> [b \in Block |->
                    IF b \in bs[p] \ late(p) THEN "download" ELSE next.queue[p][b]]]
<1>0. s \in NetType  BY DEF Sound, Fine
<1>1. out \in Blocks /\ rest \in Blocks  BY DEF Blocks
<1>2. \A p \in Peer : rest[p] = bs[p] \ late(p)  OBVIOUS
<1>3. \A p \in Peer, b \in Block : b \in rest[p] => s.queue[p][b] = "request" /\ b \notin out[p]
  BY DEF InQueue
<1> HIDE DEF late, out, rest
<1>4. Moves(s, next)  BY <1>1, DequeueMoves
<1>5. /\ next.conn = s.conn
      /\ \A p \in Peer, b \in Block : next.queue[p][b] = IF b \in out[p] THEN "idle" ELSE s.queue[p][b]
  BY <1>0, <1>1, DequeueFields
<1> HIDE DEF next
<1>6. q = [p \in Peer |-> [b \in Block |->
              IF b \in rest[p] THEN "download" ELSE next.queue[p][b]]]
  BY <1>2
<1>7. q \in QueueType
  BY <1>1, <1>4, <1>6, QueueUpdate, NetFields, ZenonT(60) DEF Place, Moves, Sound, Fine
<1>8. ASSUME NEW p \in Peer, NEW b \in Block
      PROVE  /\ next.conn[p] # "up" => q[p][b] = "idle"
             /\ q[p][b] \in Counted <=> next.queue[p][b] \in Counted
  <2>1. CASE b \in rest[p]
    <3>1. next.queue[p][b] = "request" /\ q[p][b] = "download"  BY <1>3, <1>5, <1>6, <2>1
    <3>2. next.conn[p] = "up"  BY <1>4, <3>1 DEF Moves, Sound, IdleDown
    <3> QED  BY <3>1, <3>2 DEF Counted
  <2>2. CASE b \notin rest[p]
    <3>1. q[p][b] = next.queue[p][b]  BY <1>6, <2>2
    <3> QED  BY <1>4, <3>1 DEF Moves, Sound, IdleDown
  <2> QED  BY <2>1, <2>2
<1>9. Send(s, bs) = [next EXCEPT !.queue = q]  BY Zenon DEF Send, late, out, next, q
<1> HIDE DEF q
<1>10. Moves(next, [next EXCEPT !.queue = q])  BY <1>4, <1>7, <1>8, SetQueueMoves DEF Moves
<1> QED  BY <1>4, <1>9, <1>10, MovesOn DEF Moves

\* send_block_requests for one peer.
LEMMA SendOneMoves ==
    ASSUME NEW s, Sound(s), NEW p \in Peer, NEW size, NEW bs \in Sends(s, p, size)
    PROVE  Moves(s, Send(s, Only(p, bs)))
<1>1. bs \in SUBSET InQueue(s, p, {"request"})  BY DEF Sends
<1>2. bs \in SUBSET Block  BY <1>1, InQueueType
<1>3. Only(p, bs) \in Blocks  BY <1>2, OnlyType
<1>4. \A x \in Peer : Only(p, bs)[x] \subseteq InQueue(s, x, {"request"})  BY <1>1 DEF Only
<1> QED  BY <1>3, <1>4, SendMoves

\* The handler ends in a state that s moves to.
Ends(s) == \E t : Become(t) /\ Moves(s, t)

\* request_a_block and send_block_requests do.
LEMMA RefillMoves ==
    ASSUME NEW s, Sound(s), NEW p \in Peer, Refill(s, p)
    PROVE  Ends(s)
<1>1. PICK pick \in Picks(s, p, MaxQueue) :
         \E bs \in Sends(AddRequest(s, p, pick), p, MaxQueue) :
             Become(Send(AddRequest(s, p, pick), Only(p, bs)))
  BY DEF Refill
<1> DEFINE asked == AddRequest(s, p, pick)
<1>2. Moves(s, asked)  BY AddRequestMoves
<1>3. PICK bs \in Sends(asked, p, MaxQueue) : Become(Send(asked, Only(p, bs)))
  BY <1>1
<1> HIDE DEF asked
<1>4. Moves(asked, Send(asked, Only(p, bs)))  BY <1>2, <1>3, SendOneMoves DEF Moves
<1>5. Moves(s, Send(asked, Only(p, bs)))  BY <1>2, <1>4, MovesOn DEF Moves
<1> QED  BY <1>3, <1>5 DEF Ends

-----------------------------------------------------------------------------
(* Blocks and pieces change their state in four ways. *)

\* Block b has arrived and is being written.
Arrives(pk, pk2, b) ==
    /\ pk2.have = pk.have
    /\ \A x \in Block :
          /\ pk2.info[x].state = "writing" <=> pk.info[x].state = "writing" \/ x = b
          /\ pk2.info[x].state = "finished" <=> pk.info[x].state = "finished"

\* The blocks bs have been written.
Lands(pk, pk2, bs) ==
    /\ pk2.have = pk.have
    /\ \A x \in Block :
          /\ pk2.info[x].state = "writing" <=> pk.info[x].state = "writing" /\ x \notin bs
          /\ pk2.info[x].state = "finished" <=> pk.info[x].state = "finished" \/ x \in bs

\* Piece p starts over, or becomes ours if `more` is {p}.
Clears(pk, pk2, p, more) ==
    /\ pk2.have = pk.have \cup more
    /\ \A x \in Block :
          /\ pk2.info[x].state = "writing" <=> pk.info[x].state = "writing" /\ PieceOf(x) # p
          /\ pk2.info[x].state = "finished" <=> pk.info[x].state = "finished" /\ PieceOf(x) # p

\* restore_piece: the requests for the blocks of the piece that are still
\* outstanding are counted again.
LEMMA RestorePieceMoves ==
    ASSUME NEW s, Sound(s), NEW p \in Piece, p \notin s.picker.have
    PROVE  /\ Sound(RestorePiece(s, p))
           /\ Clears(s.picker, RestorePiece(s, p).picker, p, {})
<1> DEFINE from == [b \in Block |->
                      IF PieceOf(b) = p THEN {q \in Up(s) : b \in Wanted(s, q)} ELSE {}]
           erased == Erase(s.picker, {p})
           pk == MarkAsDownloading(erased, from)
           t == [s EXCEPT !.picker = pk]
<1>0. s \in NetType /\ Fine(s) /\ s.picker \in Picker  BY NetFields DEF Sound, Fine
<1>1. from \in [Block -> SUBSET Peer]  BY DEF Up
<1>2. \A b \in Block : /\ PieceOf(b) = p => from[b] = Askers(s, b)
                       /\ PieceOf(b) # p => from[b] = {}
  <2> SUFFICES ASSUME NEW b \in Block, PieceOf(b) = p  PROVE from[b] = Askers(s, b)
    OBVIOUS
  <2>1. from[b] = {q \in Up(s) : b \in Wanted(s, q)}  OBVIOUS
  <2>2. \A q \in Peer : s.queue[q][b] \in Counted => s.conn[q] = "up"
    BY DEF Sound, IdleDown, Counted
  <2>3. \A q : b \in Wanted(s, q) <=> s.queue[q][b] \in Counted  BY DEF Wanted, InQueue
  <2> HIDE DEF from
  <2> QED  BY <2>1, <2>2, <2>3 DEF Askers, Up
<1> HIDE DEF from
<1>3. Books(erased)  BY EraseBooks DEF Sound
<1>4. /\ erased.have = s.picker.have
      /\ \A b \in Block : erased.info[b] = IF PieceOf(b) = p THEN FreshInfo ELSE s.picker.info[b]
  BY <1>0, EraseFields
<1> HIDE DEF erased
<1>5. /\ Books(pk) /\ Stays(erased, pk)
      /\ \A b \in Block : erased.info[b].state \in {"none", "requested"} =>
            pk.info[b].num_peers = erased.info[b].num_peers + Cardinality(from[b])
  BY <1>1, <1>3, MarkAsDownloadingBooks
<1> HIDE DEF pk
<1>6. RestorePiece(s, p) = t  BY Zenon DEF RestorePiece, t, pk, erased, from
<1>7. Fine(t)
  <2>1. Same(s, RestorePiece(s, p))  BY <1>0, RestorePieceSame
  <2> QED  BY <1>6, <2>1 DEF Same
<1>8. t.picker = pk /\ t.queue = s.queue /\ t.conn = s.conn  BY <1>0 DEF NetType
<1> HIDE DEF t
<1>9. IdleDown(t)  BY <1>8 DEF IdleDown, Sound
<1>10. FreshInfo.state = "none" /\ FreshInfo.num_peers = 0  BY DEF FreshInfo
<1>11. Clears(s.picker, pk, p, {})  BY <1>4, <1>5, <1>10 DEF Clears, Stays
<1>12. ReqRight(t)
  <2> SUFFICES ASSUME NEW b \in Block, ~IsDownloaded(t.picker, b)
               PROVE  t.picker.info[b].num_peers = Cardinality(Askers(t, b))
    BY DEF ReqRight
  <2>1. Askers(t, b) = Askers(s, b)  BY <1>8 DEF Askers
  <2>2. Cardinality(Askers(s, b)) \in Nat  BY AskersCount
  <2>3. CASE PieceOf(b) = p  BY <1>2, <1>4, <1>5, <1>8, <1>10, <2>1, <2>2, <2>3
  <2>4. CASE PieceOf(b) # p
    <3>1. ~IsDownloaded(s.picker, b)  BY <1>8, <1>11, <2>4 DEF Clears, IsDownloaded
    <3>2. erased.info[b] = s.picker.info[b]  BY <1>4, <2>4
    <3>3. s.picker.info[b].state \in {"none", "requested"}
      BY <1>0, <3>1, InfoFields DEF IsDownloaded, BlockState
    <3>4. Cardinality({}) = 0  BY FS_EmptySet
    <3>5. s.picker.info[b].num_peers = Cardinality(Askers(s, b))  BY <3>1 DEF Sound, ReqRight
    <3>6. pk.info[b].num_peers = s.picker.info[b].num_peers + Cardinality(from[b])
      BY <1>5, <3>2, <3>3
    <3>7. Cardinality(from[b]) = 0  BY <1>2, <2>4, <3>4
    <3> QED  BY <1>8, <2>1, <2>2, <3>5, <3>6, <3>7
  <2> QED  BY <2>3, <2>4
<1> QED  BY <1>5, <1>6, <1>7, <1>8, <1>9, <1>11, <1>12 DEF Sound

\* piece_failed.
LEMMA PieceFailedMoves ==
    ASSUME NEW s, Sound(s), NEW p \in Piece, p \notin s.picker.have, NEW ban
    PROVE  /\ Sound(PieceFailed(s, p, ban))
           /\ Clears(s.picker, PieceFailed(s, p, ban).picker, p, {})
<1> DEFINE f == [q \in Peer |-> s.parole[q] \/ q \in Downloaders(s, p)]
           t == [s EXCEPT !.parole = f]
           d == Disconnect(t, ban)
<1>0. s \in NetType  BY DEF Sound, Fine
<1>1. f \in FlagType  BY DEF FlagType
<1> HIDE DEF f
<1>2. t \in NetType  BY <1>0, <1>1, SetParole
<1>3. t.picker = s.picker /\ t.queue = s.queue /\ t.conn = s.conn  BY <1>0 DEF NetType
<1> HIDE DEF t
<1>4. IdleDown(t) /\ \A b \in Block : Askers(t, b) = Askers(s, b)
  BY <1>3 DEF IdleDown, Sound, Askers
<1>5. Moves(s, t)  BY <1>2, <1>3, <1>4, QuietMoves
<1>6. Moves(t, d)  BY <1>5, DisconnectMoves DEF Moves
<1> HIDE DEF d
<1>7. Moves(s, d)  BY <1>5, <1>6, MovesOn DEF Moves
<1>8. Sound(RestorePiece(d, p)) /\ Clears(d.picker, RestorePiece(d, p).picker, p, {})
  <2>1. p \notin d.picker.have  BY <1>7 DEF Moves, Stays
  <2> QED  BY <1>7, <2>1, RestorePieceMoves DEF Moves
<1>9. PieceFailed(s, p, ban) = RestorePiece(d, p)  BY Zenon DEF PieceFailed, d, t, f
<1> QED  BY <1>7, <1>8, <1>9 DEF Moves, Stays, Clears

\* piece_passed.
LEMMA PiecePassedMoves ==
    ASSUME NEW s, Sound(s), NEW p \in Piece
    PROVE  /\ Sound(PiecePassed(s, p))
           /\ Clears(s.picker, PiecePassed(s, p).picker, p, {p})
<1> DEFINE f == [q \in Peer |-> s.parole[q] /\ q \notin Downloaders(s, p)]
           pk == WeHave(s.picker, p)
           t == [s EXCEPT !.parole = f, !.picker = pk]
<1>0. s \in NetType /\ Fine(s)  BY DEF Sound, Fine
<1>1. /\ Books(pk) /\ pk.have = s.picker.have \cup {p}
      /\ \A b \in Block : pk.info[b] = IF PieceOf(b) = p THEN FreshInfo ELSE s.picker.info[b]
  BY WeHaveBooks DEF Sound
<1> HIDE DEF pk, f
<1>2. PiecePassed(s, p) = t  BY Zenon DEF PiecePassed, t, f, pk
<1>3. Fine(t)  BY <1>0, <1>2, PiecePassedGrows
<1>4. t.picker = pk /\ t.queue = s.queue /\ t.conn = s.conn  BY <1>0 DEF NetType
<1> HIDE DEF t
<1>5. IdleDown(t) /\ \A b \in Block : Askers(t, b) = Askers(s, b)
  BY <1>4 DEF IdleDown, Sound, Askers
<1>6. Clears(s.picker, pk, p, {p})
  <2>1. FreshInfo.state = "none"  BY DEF FreshInfo
  <2> QED  BY <1>1, <2>1 DEF Clears
<1>7. ReqRight(t)
  <2> SUFFICES ASSUME NEW b \in Block, ~IsDownloaded(t.picker, b)
               PROVE  t.picker.info[b].num_peers = Cardinality(Askers(t, b))
    BY DEF ReqRight
  <2>1. PieceOf(b) # p /\ PieceOf(b) \notin s.picker.have  BY <1>1, <1>4 DEF IsDownloaded
  <2>2. t.picker.info[b] = s.picker.info[b]  BY <1>1, <1>4, <2>1
  <2>3. ~IsDownloaded(s.picker, b)  BY <2>1, <2>2 DEF IsDownloaded
  <2> QED  BY <1>5, <2>2, <2>3 DEF Sound, ReqRight
<1> QED  BY <1>1, <1>2, <1>3, <1>4, <1>5, <1>6, <1>7 DEF Sound

\* on_disk_write_complete, of blocks that are being written.
LEMMA OnWrittenMoves ==
    ASSUME NEW s, Sound(s), NEW ws \in SUBSET Write,
           \A w \in ws : s.picker.info[w.block].state = "writing"
    PROVE  /\ Sound(OnWritten(s, ws, "ok"))
           /\ Lands(s.picker, OnWritten(s, ws, "ok").picker, {w.block : w \in ws})
<1> DEFINE bs == {w.block : w \in ws}
           peer(b) == (CHOOSE w \in ws : w.block = b).peer
           who == [b \in bs |-> IF s.conn[peer(b)] = "up" THEN peer(b) ELSE NoPeer]
           pk == MarkAsFinished(s.picker, bs, who)
           t == [s EXCEPT !.picker = pk]
<1>0. s \in NetType /\ Fine(s) /\ s.picker \in Picker  BY NetFields DEF Sound, Fine
<1>1. bs \in SUBSET Block  BY WriteFields
<1>2. who \in [bs -> Peer \cup {NoPeer}]
  <2>1. ASSUME NEW b \in bs  PROVE peer(b) \in Peer
    <3>1. PICK w \in ws : w.block = b  OBVIOUS
    <3>2. (CHOOSE v \in ws : v.block = b) \in ws  BY <3>1
    <3> QED  BY <3>2, WriteFields
  <2> HIDE DEF peer, bs
  <2> QED  BY <2>1
<1>3. \A b \in bs : s.picker.info[b].state = "writing"  OBVIOUS
<1>4. bs = {} <=> ws = {}  OBVIOUS
<1> HIDE DEF bs, who
<1>5. CASE ws = {}
  <2>1. OnWritten(s, ws, "ok") = s  BY <1>5 DEF OnWritten
  <2>2. Lands(s.picker, s.picker, bs)  BY <1>4, <1>5 DEF Lands
  <2> QED  BY <2>1, <2>2 DEF bs
<1>6. CASE ws # {}
  <2>1. ~IsSeed(s)
    <3>1. PICK b \in bs : TRUE  BY <1>4, <1>6
    <3>2. PieceOf(b) \in Piece  BY <1>1 DEF Block, PieceOf
    <3>3. PieceOf(b) \notin s.picker.have  BY <1>0, <1>1, <1>3 DEF Fine, Closed
    <3> QED  BY <3>2, <3>3 DEF IsSeed
  <2>2. /\ Books(pk) /\ pk.have = s.picker.have
        /\ \A b \in Block : pk.info[b].num_peers = s.picker.info[b].num_peers
        /\ \A b \in bs : pk.info[b].state = "finished"
        /\ \A b \in Block \ bs : pk.info[b] = s.picker.info[b]
    <3>1. Books(s.picker)  BY DEF Sound
    <3> QED  BY <1>1, <1>2, <1>3, <3>1, MarkAsFinishedBooks, SMTT(60)
  <2> HIDE DEF pk
  <2>3. OnWritten(s, ws, "ok") = t  BY <1>6, <2>1, Zenon DEF OnWritten, t, pk, bs, who
  <2>4. Fine(t)
    <3>1. Same(s, OnWritten(s, ws, "ok"))  BY <1>0, OnWrittenSame
    <3> QED  BY <2>3, <3>1 DEF Same
  <2>5. t.picker = pk /\ t.queue = s.queue /\ t.conn = s.conn  BY <1>0 DEF NetType
  <2> HIDE DEF t
  <2>6. IdleDown(t) /\ \A b \in Block : Askers(t, b) = Askers(s, b)
    BY <2>5 DEF IdleDown, Sound, Askers
  <2>7. Lands(s.picker, pk, bs)
    <3>1. ASSUME NEW x \in Block
          PROVE  /\ pk.info[x].state = "writing" <=> s.picker.info[x].state = "writing" /\ x \notin bs
                 /\ pk.info[x].state = "finished" <=> s.picker.info[x].state = "finished" \/ x \in bs
      BY <1>3, <2>2
    <3> QED  BY <2>2, <3>1 DEF Lands
  <2>8. ReqRight(t)
    <3> SUFFICES ASSUME NEW b \in Block, ~IsDownloaded(t.picker, b)
                 PROVE  t.picker.info[b].num_peers = Cardinality(Askers(t, b))
      BY DEF ReqRight
    <3>1. b \notin bs  BY <2>2, <2>5 DEF IsDownloaded
    <3>2. ~IsDownloaded(s.picker, b)  BY <2>2, <2>5, <3>1 DEF IsDownloaded
    <3> QED  BY <2>2, <2>5, <2>6, <3>2 DEF Sound, ReqRight
  <2>9. Sound(t)  BY <2>2, <2>4, <2>5, <2>6, <2>8 DEF Sound
  <2> QED  BY <2>3, <2>5, <2>7, <2>9 DEF bs
<1> QED  BY <1>5, <1>6

-----------------------------------------------------------------------------
(* The handlers of the network thread. *)

\* The handlers of what a peer sends, but for a whole piece message.
LEMMA MessageMoves ==
    ASSUME Sound(Net), NEW p \in Peer, NEW b \in Block,
           \/ Connect(p) \/ IncomingChoke(p) \/ IncomingUnchoke(p)
           \/ IncomingReject(p, b) \/ StartReceivePiece(p, b)
    PROVE  Ends(Net)
<1>0. Net \in NetType  BY DEF Sound, Fine
<1>1. CASE Connect(p)
  <2> DEFINE c == [Net.conn EXCEPT ![p] = "up"]
             t == [Net EXCEPT !.conn = c]
  <2>1. c \in ConnType /\ \A x \in Peer : c[x] # "up" => Net.conn[x] # "up"
    BY <1>0, NetFields DEF ConnType
  <2>2. Become(t)  BY <1>1, Zenon DEF Connect, t, c
  <2> HIDE DEF c
  <2>3. t \in NetType  BY <1>0, <2>1, SetConn
  <2>4. t.picker = Net.picker /\ t.queue = Net.queue /\ t.conn = c  BY <1>0 DEF NetType
  <2> HIDE DEF t
  <2>5. IdleDown(t) /\ \A x \in Block : Askers(t, x) = Askers(Net, x)
    BY <2>1, <2>4 DEF IdleDown, Sound, Askers
  <2>6. Moves(Net, t)  BY <2>3, <2>4, <2>5, QuietMoves
  <2> QED  BY <2>2, <2>6 DEF Ends
<1>2. ASSUME NEW u \in BOOLEAN
      PROVE  Moves(Net, [Net EXCEPT !.choked[p] = u])
  <2> DEFINE f == [Net.choked EXCEPT ![p] = u]
             t == [Net EXCEPT !.choked = f]
  <2>1. f \in FlagType  BY <1>0, NetFields DEF FlagType
  <2>2. [Net EXCEPT !.choked[p] = u] = t  BY Zenon DEF t, f
  <2> HIDE DEF f
  <2>3. t \in NetType  BY <1>0, <2>1, SetChoked
  <2>4. t.picker = Net.picker /\ t.queue = Net.queue /\ t.conn = Net.conn  BY <1>0 DEF NetType
  <2> HIDE DEF t
  <2>5. IdleDown(t) /\ \A x \in Block : Askers(t, x) = Askers(Net, x)
    BY <2>4 DEF IdleDown, Sound, Askers
  <2> QED  BY <2>2, <2>3, <2>4, <2>5, QuietMoves
<1>3. CASE IncomingChoke(p)
  <2> DEFINE s == [Net EXCEPT !.choked[p] = TRUE]
             cleared == IF parole[p] THEN s ELSE Dequeue(s, Unsent(s, {p}))
             end == ImplicitReject(cleared, Only(p, InQueue(s, p, Sent)))
  <2>1. Moves(Net, s)  BY <1>2
  <2>2. Become(end)  BY <1>3, Zenon DEF IncomingChoke, end, cleared, s
  <2> HIDE DEF s
  <2>3. Moves(s, cleared)
    <3>1. Moves(s, Dequeue(s, Unsent(s, {p})))  BY <2>1, UnsentType, DequeueMoves DEF Moves
    <3>2. Moves(s, s)  BY <2>1 DEF Moves, Stays
    <3> QED  BY <3>1, <3>2
  <2> HIDE DEF cleared
  <2>4. Moves(cleared, end)
    BY <2>3, InQueueType, OnlyType, ImplicitRejectMoves DEF Moves
  <2> HIDE DEF end
  <2>5. Stays(Net.picker, cleared.picker)  BY <2>1, <2>3, MovesOn DEF Moves
  <2>6. Moves(Net, end)  BY <2>4, <2>5, MovesOn DEF Moves
  <2> QED  BY <2>2, <2>6 DEF Ends
<1>4. CASE IncomingUnchoke(p)
  <2> DEFINE s == [Net EXCEPT !.choked[p] = FALSE]
  <2>1. Moves(Net, s)  BY <1>2
  <2>2. Refill(s, p)  BY <1>4, Zenon DEF IncomingUnchoke, s
  <2> HIDE DEF s
  <2>3. Ends(s)  BY <2>1, <2>2, RefillMoves DEF Moves
  <2> QED  BY <2>1, <2>3, MovesOn DEF Ends, Moves
<1>5. CASE IncomingReject(p, b)
  <2> DEFINE s == Reject(Net, Only(p, {b}))
  <2>1. Moves(Net, s)  BY OnlyType, RejectMoves
  <2>2. Refill(s, p) \/ Become(s)  BY <1>5, Zenon DEF IncomingReject
  <2> HIDE DEF s
  <2>3. Ends(s)
    <3>1. Moves(s, s)  BY <2>1 DEF Moves, Stays
    <3> QED  BY <2>1, <2>2, <3>1, RefillMoves DEF Moves, Ends
  <2> QED  BY <2>1, <2>3, MovesOn DEF Ends, Moves
<1>6. CASE StartReceivePiece(p, b)
  <2> DEFINE was == Net.queue[p][b]
             now == CASE was = "idle" -> "not_wanted"
                      [] was = "request" -> "download"
                      [] OTHER -> was
             q == [Net.queue EXCEPT ![p][b] = now]
             r == [Net.receiving EXCEPT ![p] = b]
             t == [Net EXCEPT !.receiving = r, !.queue = q]
  <2>1. was \in Place  BY <1>0, NetFields DEF QueueType
  <2>2. now \in Place /\ (now \in Counted <=> was \in Counted)
    BY <2>1 DEF Place, Counted
  <2>3. Become(t)
    <3>1. Become([Net EXCEPT !.receiving[p] = b,
                             !.queue[p][b] = CASE @ = "idle" -> "not_wanted"
                                               [] @ = "request" -> "download"
                                               [] OTHER -> @])
      BY <1>6, Zenon DEF StartReceivePiece
    <3> QED  BY <3>1, Zenon DEF t, q, r, now, was
  <2>4. Net.conn[p] = "up"  BY <1>6 DEF StartReceivePiece, Listening, Net
  <2> HIDE DEF now, was
  <2>5. q \in QueueType /\ r \in ReceivingType
    BY <1>0, <2>2, NetFields DEF QueueType, ReceivingType
  <2>6. \A x \in Peer, y \in Block :
           q[x][y] = IF x = p /\ y = b THEN now ELSE Net.queue[x][y]
    BY <1>0, NetFields DEF QueueType
  <2> HIDE DEF q, r
  <2>7. t \in NetType  BY <1>0, <2>5, SetReceivingQueue
  <2>8. t.picker = Net.picker /\ t.queue = q /\ t.conn = Net.conn  BY <1>0 DEF NetType
  <2> HIDE DEF t
  <2>9. IdleDown(t)  BY <2>4, <2>6, <2>8 DEF IdleDown, Sound
  <2>10. \A y \in Block : Askers(t, y) = Askers(Net, y)
    <3>1. \A x \in Peer, y \in Block : t.queue[x][y] \in Counted <=> Net.queue[x][y] \in Counted
      BY <2>2, <2>6, <2>8 DEF was
    <3> QED  BY <3>1 DEF Askers
  <2>11. Moves(Net, t)  BY <2>7, <2>8, <2>9, <2>10, QuietMoves
  <2> QED  BY <2>3, <2>11 DEF Ends
<1> QED  BY <1>1, <1>3, <1>4, <1>5, <1>6

\* The jobs a block b from p starts: its write, and the hash of its piece if that
\* is then complete.
NewJobs(pk, p, b, good) ==
    <<[op |-> "write", w |-> [block |-> b, peer |-> p, good |-> good]]>>
    \o (IF IsPieceFinished(pk, PieceOf(b)) THEN <<[op |-> "hash", piece |-> PieceOf(b)]>>
                                           ELSE <<>>)

\* The handler ends in a sound state with block b on its way to the disk.
Takes(p, b, good) ==
    \E t : /\ Become(t) /\ Sound(t)
           /\ ~IsDownloaded(picker, b)
           /\ Arrives(picker, t.picker, b)
           /\ jobs' = jobs \o NewJobs(t.picker, p, b, good)

\* A block that is of use.
LEMMA AcceptBlockMoves ==
    ASSUME NEW s, Sound(s), Stays(picker, s.picker), NEW p \in Peer,
           NEW b \in Block, ~IsDownloaded(picker, b), NEW good, jobs \in Seq(Job),
           AcceptBlock(s, p, b, good)
    PROVE  Takes(p, b, good)
<1> DEFINE q == [s.queue EXCEPT ![p][b] = "idle"]
           pk == MarkAsWriting(s.picker, b, p)
           taken == [s EXCEPT !.queue = q, !.picker = pk]
           multi == s.picker.info[b].num_peers > 1
           next == IF multi THEN CancelBlock(taken, b) ELSE taken
           write == <<[op |-> "write", w |-> [block |-> b, peer |-> p, good |-> good]]>>
           hash == IF /\ IsPieceFinished(next.picker, PieceOf(b))
                      /\ ~IsPieceFinished(s.picker, PieceOf(b))
                   THEN <<[op |-> "hash", piece |-> PieceOf(b)]>>
                   ELSE <<>>
<1>0. s \in NetType /\ s.picker \in Picker /\ Fine(s) /\ Books(s.picker)
  BY NetFields DEF Sound, Fine
<1>1. q \in QueueType  BY <1>0, NetFields DEF QueueType, Place
<1>2. \A x \in Peer, y \in Block : q[x][y] = IF x = p /\ y = b THEN "idle" ELSE s.queue[x][y]
  BY <1>0, NetFields DEF QueueType
<1>3. ~IsDownloaded(s.picker, b)  BY StaysDownloaded
<1>4. /\ Books(pk) /\ pk.have = s.picker.have /\ pk.info[b].state = "writing"
      /\ \A x \in Block \ {b} : pk.info[x] = s.picker.info[x]
  BY <1>0, <1>3, MarkAsWritingBooks
<1>5. pk \in Picker /\ Closed(pk)
  BY <1>0, MarkAsWritingType, MarkAsWritingKeeps DEF Keeps, Fine
<1>6. Refill(next, p)  BY Zenon DEF AcceptBlock, next, multi, taken, q, pk
<1>7. jobs' = jobs \o write \o hash
  BY Zenon DEF AcceptBlock, next, multi, taken, q, pk, write, hash
<1> HIDE DEF q, pk
<1>8. taken \in NetType  BY <1>0, <1>1, <1>5, SetQueuePicker
<1>9. taken.picker = pk /\ taken.queue = q /\ taken.conn = s.conn  BY <1>0 DEF NetType
<1> HIDE DEF taken, multi
<1>10. Sound(taken)
  <2>1. Fine(taken)  BY <1>5, <1>8, <1>9 DEF Fine
  <2>2. IdleDown(taken)  BY <1>2, <1>9 DEF IdleDown, Sound
  <2>3. ReqRight(taken)
    <3> SUFFICES ASSUME NEW y \in Block, ~IsDownloaded(taken.picker, y)
                 PROVE  taken.picker.info[y].num_peers = Cardinality(Askers(taken, y))
      BY DEF ReqRight
    <3>1. y # b  BY <1>4, <1>9 DEF IsDownloaded
    <3>2. pk.info[y] = s.picker.info[y]  BY <1>4, <3>1
    <3>3. ~IsDownloaded(s.picker, y)  BY <1>4, <1>9, <3>2 DEF IsDownloaded
    <3>4. Askers(taken, y) = Askers(s, y)  BY <1>2, <1>9, <3>1 DEF Askers
    <3> QED  BY <1>9, <3>2, <3>3, <3>4 DEF Sound, ReqRight
  <2> QED  BY <1>4, <1>9, <2>1, <2>2, <2>3 DEF Sound
<1>11. Moves(taken, next)
  <2>1. Moves(taken, CancelBlock(taken, b))  BY <1>10, CancelBlockMoves
  <2>2. Moves(taken, taken)  BY <1>10 DEF Moves, Stays
  <2> QED  BY <2>1, <2>2
<1> HIDE DEF next
<1>12. PICK t : Become(t) /\ Moves(next, t)  BY <1>6, <1>11, RefillMoves DEF Moves, Ends
<1>13. Stays(pk, t.picker)  BY <1>9, <1>11, <1>12, MovesOn DEF Moves
<1>14. Arrives(picker, t.picker, b)
  <2>1. s.picker.info[b].state \notin {"writing", "finished"}  BY <1>3 DEF IsDownloaded
  <2>2. Arrives(s.picker, pk, b)  BY <1>4, <2>1 DEF Arrives
  <2> QED  BY <1>13, <2>2 DEF Arrives, Stays
<1>15. PieceOf(b) \in Piece  BY DEF PieceOf, Block
<1>16. ~IsPieceFinished(s.picker, PieceOf(b))
  <2>1. s.picker.info[b].state \notin {"writing", "finished"}  BY <1>3 DEF IsDownloaded
  <2> QED  BY <1>0, <1>15, <2>1, FinishedMeans
<1>17. IsPieceFinished(t.picker, PieceOf(b)) <=> IsPieceFinished(next.picker, PieceOf(b))
  BY <1>11, <1>12, <1>15, StaysFinished DEF Moves, Sound
<1>18. hash = IF IsPieceFinished(t.picker, PieceOf(b))
              THEN <<[op |-> "hash", piece |-> PieceOf(b)]>> ELSE <<>>
  BY <1>16, <1>17
<1>19. jobs' = jobs \o NewJobs(t.picker, p, b, good)
  <2> DEFINE x == [op |-> "write", w |-> [block |-> b, peer |-> p, good |-> good]]
             y == [op |-> "hash", piece |-> PieceOf(b)]
             X == {x, y} \cup Job
  <2>1. write = <<x>> /\ (hash = <<y>> \/ hash = <<>>)  OBVIOUS
  <2>2. x \in X /\ y \in X /\ jobs \in Seq(X)  OBVIOUS
  <2>3. NewJobs(t.picker, p, b, good) = write \o hash  BY <1>18, Zenon DEF NewJobs, write
  <2> HIDE DEF write, hash, X, x, y
  <2>4. write \in Seq(X) /\ hash \in Seq(X)
    <3>1. <<x>> \in Seq(X) /\ <<y>> \in Seq(X) /\ <<>> \in Seq(X)  BY <2>2
    <3> QED  BY <2>1, <3>1
  <2>5. jobs \o write \o hash = jobs \o (write \o hash)  BY <2>2, <2>4
  <2> QED  BY <1>7, <2>3, <2>5
<1> QED  BY <1>12, <1>14, <1>19 DEF Takes, Moves

\* incoming_piece: the block is taken, or it is of no use and nothing happens but to
\* the queues.
LEMMA IncomingPieceMoves ==
    ASSUME Sound(Net), jobs \in Seq(Job), NEW p \in Peer, NEW drop \in SUBSET Block,
           NEW good \in BOOLEAN, IncomingPiece(p, drop, good)
    PROVE  \/ Ends(Net) /\ UNCHANGED jobs
           \/ \E b \in Block : Takes(p, b, good)
<1>0. Net \in NetType /\ Net.picker = picker  BY DEF Sound, Fine, Net
<1> DEFINE b == receiving[p]
           r == [Net.receiving EXCEPT ![p] = NoBlock]
           here == [Net EXCEPT !.receiving = r]
           s == Dequeue(here, Only(p, drop))
           q == [s.queue EXCEPT ![p][b] = "idle"]
           late == [s EXCEPT !.queue = q]
<1>1. b \in Block
  <2>1. Net.receiving = receiving  BY DEF Net
  <2>2. b # NoBlock  BY Zenon DEF IncomingPiece
  <2> QED  BY <1>0, <2>1, <2>2, NetFields DEF ReceivingType
<1>2. Moves(Net, here)
  <2>1. r \in ReceivingType  BY <1>0, NetFields DEF ReceivingType
  <2> HIDE DEF r
  <2>2. here \in NetType  BY <1>0, <2>1, SetReceiving
  <2>3. here.picker = Net.picker /\ here.queue = Net.queue /\ here.conn = Net.conn
    BY <1>0 DEF NetType
  <2> HIDE DEF here
  <2>4. IdleDown(here) /\ \A x \in Block : Askers(here, x) = Askers(Net, x)
    BY <2>3 DEF IdleDown, Sound, Askers
  <2> QED  BY <2>2, <2>3, <2>4, QuietMoves
<1>3. \/ /\ \E first \in InQueue(Net, p, Sent) : Become(Dequeue(here, Only(p, {first})))
         /\ UNCHANGED jobs
      \/ IsDownloaded(picker, b) /\ Refill(late, p) /\ UNCHANGED jobs
      \/ ~IsDownloaded(picker, b) /\ AcceptBlock(s, p, b, good)
  <2> DEFINE first == \E x \in InQueue(Net, p, Sent) : Become(Dequeue(here, Only(p, {x})))
             took == AcceptBlock(s, p, b, good)
             fill == Refill([s EXCEPT !.queue[p][b] = "idle"], p)
  <2>1. (CASE IsSeed(Net) -> first /\ UNCHANGED jobs
           [] IsDownloaded(picker, b) /\ ~IsSeed(Net) -> fill /\ UNCHANGED jobs
           [] OTHER -> took)
    BY Zenon DEF IncomingPiece, here, s, b, r, first, took, fill
  <2>2. fill => Refill(late, p)  BY Zenon DEF fill, late, q
  <2> HIDE DEF fill, took, late, here, s, b, first
  <2>3. \/ first /\ UNCHANGED jobs
        \/ IsDownloaded(picker, b) /\ fill /\ UNCHANGED jobs
        \/ ~IsDownloaded(picker, b) /\ took
    BY <2>1
  <2> QED  BY <2>2, <2>3 DEF first, took
<1> HIDE DEF here
<1>4. Moves(here, s)  BY <1>2, OnlyType, DequeueMoves DEF Moves
<1>5. Moves(Net, s)  BY <1>2, <1>4, MovesOn DEF Moves
<1> HIDE DEF s, b
<1>6. CASE /\ \E first \in InQueue(Net, p, Sent) : Become(Dequeue(here, Only(p, {first})))
           /\ UNCHANGED jobs
  <2>1. PICK first \in InQueue(Net, p, Sent) : Become(Dequeue(here, Only(p, {first})))
    BY <1>6
  <2>2. {first} \in SUBSET Block  BY InQueueType
  <2>3. Moves(here, Dequeue(here, Only(p, {first})))
    BY <1>2, <2>2, OnlyType, DequeueMoves DEF Moves
  <2>4. Moves(Net, Dequeue(here, Only(p, {first})))  BY <1>2, <2>3, MovesOn DEF Moves
  <2> QED  BY <1>6, <2>1, <2>4 DEF Ends
<1>7. CASE IsDownloaded(picker, b) /\ Refill(late, p) /\ UNCHANGED jobs
  <2>0. s \in NetType  BY <1>5 DEF Moves, Sound, Fine
  <2>1. q \in QueueType  BY <1>1, <2>0, NetFields DEF QueueType, Place
  <2>2. \A x \in Peer, y \in Block : q[x][y] = IF x = p /\ y = b THEN "idle" ELSE s.queue[x][y]
    BY <2>0, NetFields DEF QueueType
  <2>3. IsDownloaded(s.picker, b)  BY <1>0, <1>1, <1>5, <1>7, StaysDownloaded DEF Moves
  <2> HIDE DEF q
  <2>4. \A x \in Peer, y \in Block :
              /\ s.conn[x] # "up" => q[x][y] = "idle"
              /\ ~IsDownloaded(s.picker, y) =>
                    (q[x][y] \in Counted <=> s.queue[x][y] \in Counted)
    BY <1>5, <2>2, <2>3 DEF Moves, Sound, IdleDown
  <2>5. Moves(s, late)  BY <1>5, <2>1, <2>4, SetQueueMoves DEF Moves
  <2> HIDE DEF late
  <2>6. Ends(late)  BY <1>7, <2>5, RefillMoves DEF Moves
  <2>7. Stays(Net.picker, late.picker)  BY <1>5, <2>5, MovesOn DEF Moves
  <2> QED  BY <1>7, <2>6, <2>7, MovesOn DEF Ends, Moves
<1>8. CASE ~IsDownloaded(picker, b) /\ AcceptBlock(s, p, b, good)
  BY <1>0, <1>1, <1>5, <1>8, AcceptBlockMoves DEF Moves
<1> QED  BY <1>3, <1>6, <1>7, <1>8

\* snub_peer: a request given up is no longer counted.
LEMMA SnubPeerMoves ==
    ASSUME Sound(Net), NEW p \in Peer, SnubPeer(p)
    PROVE  Ends(Net)
<1> DEFINE cleared == Dequeue(Net, Unsent(Net, {p}))
<1>1. Moves(Net, cleared)  BY UnsentType, DequeueMoves
<1> HIDE DEF cleared
<1> DEFINE s(pick) == AddRequest(cleared, p, pick)
           giveUp(pick, b) ==
               [Dequeue(s(pick), Only(p, {b})) EXCEPT !.queue[p][b] = "timed_out"]
<1>2. PICK pick \in Picks(cleared, p, 2) :
         \/ \E bs \in Sends(s(pick), p, 1) : Become(Send(s(pick), Only(p, bs)))
         \/ Become(s(pick))
         \/ \E b \in InQueue(s(pick), p, {"download"}) :
               \E bs \in Sends(giveUp(pick, b), p, 1) :
                  Become(Send(giveUp(pick, b), Only(p, bs)))
  BY Zenon DEF SnubPeer, cleared
<1>3. Moves(cleared, s(pick))  BY <1>1, AddRequestMoves DEF Moves
<1>4. ASSUME NEW b \in InQueue(s(pick), p, {"download"})  PROVE Moves(s(pick), giveUp(pick, b))
  <2>1. b \in Block /\ {b} \in SUBSET Block  BY InQueueType
  <2> DEFINE u == s(pick)
             t == Dequeue(u, Only(p, {b}))
             q == [t.queue EXCEPT ![p][b] = "timed_out"]
  <2>2. giveUp(pick, b) = [t EXCEPT !.queue = q]  BY Zenon DEF giveUp, t, q
  <2>3. u.queue[p][b] = "download"  BY DEF InQueue
  <2> HIDE DEF u
  <2>4. Sound(u)  BY <1>3 DEF Moves, u
  <2>5. Moves(u, t)  BY <2>1, <2>4, OnlyType, DequeueMoves
  <2>6. u \in NetType /\ Only(p, {b}) \in Blocks  BY <2>1, <2>4, OnlyType DEF Sound, Fine
  <2>7. t.conn = u.conn /\ t.queue[p][b] = "idle"
    <3>1. Only(p, {b})[p] = {b}  BY DEF Only
    <3> QED  BY <2>1, <2>6, <3>1, DequeueFields
  <2>8. t.conn[p] = "up"  BY <2>1, <2>3, <2>4, <2>7 DEF Sound, IdleDown
  <2> HIDE DEF t
  <2>9. t \in NetType  BY <2>5 DEF Moves, Sound, Fine
  <2>10. q \in QueueType  BY <2>1, <2>9, NetFields DEF QueueType, Place
  <2>11. \A x \in Peer, y \in Block : q[x][y] = IF x = p /\ y = b THEN "timed_out" ELSE t.queue[x][y]
    BY <2>9, NetFields DEF QueueType
  <2> HIDE DEF q
  <2>12. \A x \in Peer, y \in Block :
              /\ t.conn[x] # "up" => q[x][y] = "idle"
              /\ q[x][y] \in Counted <=> t.queue[x][y] \in Counted
    BY <2>5, <2>7, <2>8, <2>11 DEF Moves, Sound, IdleDown, Counted
  <2>13. Moves(t, [t EXCEPT !.queue = q])  BY <2>5, <2>10, <2>12, SetQueueMoves DEF Moves
  <2>14. Moves(u, giveUp(pick, b))  BY <2>2, <2>5, <2>13, MovesOn DEF Moves
  <2> QED  BY <2>14 DEF u
<1> HIDE DEF s, giveUp
<1>5. Moves(Net, s(pick))  BY <1>1, <1>3, MovesOn DEF Moves
<1>6. ASSUME NEW t, Moves(Net, t), NEW bs \in Sends(t, p, 1), Become(Send(t, Only(p, bs)))
      PROVE  Ends(Net)
  <2>1. Moves(t, Send(t, Only(p, bs)))  BY <1>6, SendOneMoves DEF Moves
  <2>2. Moves(Net, Send(t, Only(p, bs)))  BY <1>6, <2>1, MovesOn DEF Moves
  <2> QED  BY <1>6, <2>2 DEF Ends
<1>7. CASE \E bs \in Sends(s(pick), p, 1) : Become(Send(s(pick), Only(p, bs)))
  BY <1>5, <1>6, <1>7
<1>8. CASE Become(s(pick))  BY <1>5, <1>8 DEF Ends
<1>9. CASE \E b \in InQueue(s(pick), p, {"download"}) :
             \E bs \in Sends(giveUp(pick, b), p, 1) :
                Become(Send(giveUp(pick, b), Only(p, bs)))
  <2>1. PICK b \in InQueue(s(pick), p, {"download"}) :
             \E bs \in Sends(giveUp(pick, b), p, 1) :
                Become(Send(giveUp(pick, b), Only(p, bs)))
    BY <1>9
  <2>2. Moves(Net, giveUp(pick, b))  BY <1>4, <1>5, MovesOn DEF Moves
  <2> QED  BY <1>6, <2>1, <2>2
<1> QED  BY <1>2, <1>7, <1>8, <1>9

\* set_upload_mode.
LEMMA SetUploadModeMoves ==
    ASSUME Sound(Net), SetUploadMode
    PROVE  Ends(Net)
<1>1. CASE upload_mode
  <2> DEFINE s == [Net EXCEPT !.upload_mode = FALSE]
  <2>1. Moves(Net, s)  BY SetUploadMoves
  <2>2. PICK bs \in [Peer -> SUBSET Block] :
           (\A p \in Peer : bs[p] \in Sends(s, p, MaxQueue)) /\ Become(Send(s, bs))
    BY <1>1, Zenon DEF SetUploadMode, s
  <2> HIDE DEF s
  <2>3. \A p \in Peer : bs[p] \subseteq InQueue(s, p, {"request"})  BY <2>2 DEF Sends
  <2>4. Moves(s, Send(s, bs))  BY <2>1, <2>3, SendMoves DEF Blocks, Moves
  <2>5. Moves(Net, Send(s, bs))  BY <2>1, <2>4, MovesOn DEF Moves
  <2> QED  BY <2>2, <2>5 DEF Ends
<1>2. CASE ~upload_mode
  <2>1. Become(EnterUploadMode(Net))  BY <1>2, Zenon DEF SetUploadMode
  <2> QED  BY <2>1, EnterUploadModeMoves DEF Ends
<1> QED  BY <1>1, <1>2

\* Every handler but the completions of the disk thread: at most one block arrives.
LEMMA HandlerMoves ==
    ASSUME Sound(Net), jobs \in Seq(Job), (\E p \in Peer : PeerStep(p)) \/ SetUploadMode
    PROVE  /\ UNCHANGED <<diskVars, done>>
           /\ \/ Ends(Net) /\ UNCHANGED jobs
              \/ \E p \in Peer, b \in Block, good \in BOOLEAN : Takes(p, b, good)
<1>1. CASE SetUploadMode  BY <1>1, SetUploadModeMoves DEF SetUploadMode
<1>2. ASSUME NEW p \in Peer, PeerStep(p)
      PROVE  /\ UNCHANGED <<diskVars, done>>
             /\ \/ Ends(Net) /\ UNCHANGED jobs
                \/ \E b \in Block, good \in BOOLEAN : Takes(p, b, good)
  <2>1. CASE \/ Connect(p) \/ IncomingChoke(p) \/ IncomingUnchoke(p)
             \/ \E b \in Block : IncomingReject(p, b) \/ StartReceivePiece(p, b)
    <3>1. PICK x \in Piece, i \in Index : TRUE  BY BlockAssumption
    <3>2. <<x, i>> \in Block  BY DEF Block
    <3>3. Ends(Net)  BY <2>1, <3>2, MessageMoves
    <3> QED  BY <2>1, <3>3 DEF Connect, IncomingChoke, IncomingUnchoke, IncomingReject, StartReceivePiece
  <2>2. CASE \E drop \in SUBSET Block, good \in BOOLEAN : IncomingPiece(p, drop, good)
    <3>1. UNCHANGED <<diskVars, done>>  BY <2>2 DEF IncomingPiece
    <3> QED  BY <2>2, <3>1, IncomingPieceMoves
  <2>3. CASE SnubPeer(p)  BY <2>3, SnubPeerMoves DEF SnubPeer
  <2>4. CASE PeerLost(p)
    <3>1. Become(Disconnect(Net, {p}))  BY <2>4 DEF PeerLost
    <3>2. Ends(Net)  BY <3>1, DisconnectMoves DEF Ends
    <3> QED  BY <2>4, <3>2 DEF PeerLost
  <2> QED  BY <1>2, <2>1, <2>2, <2>3, <2>4 DEF PeerStep
<1> QED  BY <1>1, <1>2

-----------------------------------------------------------------------------
(* What the queues of the disk thread hold. *)

\* The piece a job is about.
JobPiece(j) == IF j.op = "write" THEN PieceOf(j.w.block) ELSE j.piece
\* A completion that is about p.
Touches(c, p) ==
    \/ \E w \in c.ws : PieceOf(w.block) = p
    \/ c.op = "hash" /\ c.piece = p

\* Piece p is to be hashed, or has been, with this verdict.
HashJob(js, p) == \E i \in DOMAIN js : js[i].op = "hash" /\ js[i].piece = p
HashDone(dn, p, verdicts) ==
    \E i \in DOMAIN dn : dn[i].op = "hash" /\ dn[i].piece = p /\ dn[i].verdict \in verdicts
Verdicts == {"passed", "failed"}

\* There is a job, a cached block for piece p.
JobOn(js, p) == \E i \in DOMAIN js : JobPiece(js[i]) = p
CacheOn(ca, p) == \E w \in ca : PieceOf(w.block) = p

\* No block is written twice, and nothing about a piece follows its hash job.
JobsFine(js) ==
    /\ js \in Seq(Job)
    /\ \A i, j \in DOMAIN js : i < j =>
          /\ js[i].op = "write" /\ js[j].op = "write" => js[i].w.block # js[j].w.block
          /\ js[i].op = "hash" => JobPiece(js[j]) # js[i].piece

\* The same of the completions, none of which reports an error.
DoneFine(dn) ==
    /\ dn \in Seq(Completion)
    /\ \A i \in DOMAIN dn : dn[i].ret = "ok" /\ (dn[i].op = "hash" => dn[i].verdict \in Verdicts)
    /\ \A i, j \in DOMAIN dn : i < j =>
          /\ \A v \in dn[i].ws, w \in dn[j].ws : v.block # w.block
          /\ dn[i].op = "hash" => ~Touches(dn[j], dn[i].piece)

\* One or two elements are added.
LEMMA ConcatParts ==
    ASSUME NEW S, NEW s \in Seq(S), NEW x \in S, NEW y \in S
    PROVE  /\ s \o (<<x>> \o <<>>) = Append(s, x)
           /\ s \o (<<x>> \o <<y>>) = Append(Append(s, x), y)
<1>1. <<x>> \in Seq(S) /\ <<y>> \in Seq(S) /\ <<>> \in Seq(S)  OBVIOUS
<1> DEFINE a == <<x>>
           b == <<y>>
           e == <<>>
<1>2. a = <<x>> /\ b = <<y>> /\ e = <<>> /\ a \in Seq(S) /\ b \in Seq(S) /\ e \in Seq(S)  BY <1>1
<1>3. \A t \in Seq(S) : t \o a = Append(t, x) /\ t \o b = Append(t, y)  OBVIOUS
<1> HIDE DEF a, b, e
<1>4. a \o e = a  BY <1>2
<1>5. s \o (a \o b) = (s \o a) \o b  BY <1>2
<1>6. s \o a \in Seq(S)  BY <1>2
<1> QED  BY <1>2, <1>3, <1>4, <1>5, <1>6

\* The first job is done.
LEMMA TailJobs ==
    ASSUME NEW js, JobsFine(js), js # <<>>
    PROVE  LET h == Head(js)
               r == Tail(js)
           IN  /\ h \in Job /\ JobsFine(r)
               /\ \A b : InJobs(js, b) <=> (h.op = "write" /\ h.w.block = b) \/ InJobs(r, b)
               /\ h.op = "write" => ~InJobs(r, h.w.block)
               /\ \A p : HashJob(js, p) <=> (h.op = "hash" /\ h.piece = p) \/ HashJob(r, p)
               /\ \A p : JobOn(js, p) <=> JobPiece(h) = p \/ JobOn(r, p)
               /\ h.op = "hash" => ~JobOn(r, h.piece)
<1> DEFINE h == Head(js)
           r == Tail(js)
<1>1. /\ r \in Seq(Job) /\ h \in Job
      /\ 1 \in DOMAIN js /\ js[1] = h
      /\ \A i \in DOMAIN r : i \in Nat \ {0} /\ i + 1 \in DOMAIN js /\ r[i] = js[i + 1]
      /\ \A i \in DOMAIN js : i \in Nat \ {0} /\ (i = 1 \/ (i - 1 \in DOMAIN r /\ js[i] = r[i - 1]))
  BY TailParts DEF JobsFine
<1> HIDE DEF h, r
<1>2. \A i \in DOMAIN r : 1 < i + 1  BY <1>1
<1>3. \A i, j \in DOMAIN r : i < j => i + 1 < j + 1  BY <1>1
<1>4. JobsFine(r)
  <2>1. ASSUME NEW i \in DOMAIN r, NEW j \in DOMAIN r, i < j
        PROVE  /\ r[i].op = "write" /\ r[j].op = "write" => r[i].w.block # r[j].w.block
               /\ r[i].op = "hash" => JobPiece(r[j]) # r[i].piece
    <3>1. i + 1 \in DOMAIN js /\ j + 1 \in DOMAIN js /\ i + 1 < j + 1  BY <1>1, <1>3, <2>1
    <3> QED  BY <1>1, <3>1, SMTT(60) DEF JobsFine
  <2> QED  BY <1>1, <2>1 DEF JobsFine
<1>5. \A b : InJobs(js, b) <=> (h.op = "write" /\ h.w.block = b) \/ InJobs(r, b)
  BY <1>1 DEF InJobs
<1>6. h.op = "write" => ~InJobs(r, h.w.block)
  <2>1. ASSUME NEW i \in DOMAIN r, h.op = "write", r[i].op = "write"
        PROVE  r[i].w.block # h.w.block
    BY <1>1, <1>2, <2>1 DEF JobsFine
  <2> QED  BY <2>1 DEF InJobs
<1>7. \A p : HashJob(js, p) <=> (h.op = "hash" /\ h.piece = p) \/ HashJob(r, p)
  BY <1>1 DEF HashJob
<1>8. \A p : JobOn(js, p) <=> JobPiece(h) = p \/ JobOn(r, p)
  BY <1>1 DEF JobOn
<1>9. h.op = "hash" => ~JobOn(r, h.piece)
  <2>1. ASSUME NEW i \in DOMAIN r, h.op = "hash"
        PROVE  JobPiece(r[i]) # h.piece
    BY <1>1, <1>2, <2>1 DEF JobsFine
  <2> QED  BY <2>1 DEF JobOn
<1> QED  BY <1>1, <1>4, <1>5, <1>6, <1>7, <1>8, <1>9 DEF h, r

\* A job is added.
LEMMA AppendJob ==
    ASSUME NEW js, JobsFine(js), NEW j \in Job,
           j.op = "write" => ~InJobs(js, j.w.block),
           ~HashJob(js, JobPiece(j))
    PROVE  /\ JobsFine(Append(js, j))
           /\ \A b : InJobs(Append(js, j), b) <=> InJobs(js, b) \/ (j.op = "write" /\ j.w.block = b)
           /\ \A p : HashJob(Append(js, j), p) <=> HashJob(js, p) \/ (j.op = "hash" /\ j.piece = p)
           /\ \A p : JobOn(Append(js, j), p) <=> JobOn(js, p) \/ JobPiece(j) = p
<1> DEFINE n == Append(js, j)
           k == Len(js) + 1
<1>1. /\ n \in Seq(Job)
      /\ \A i \in DOMAIN js : i \in Nat /\ i < k /\ i \in DOMAIN n /\ n[i] = js[i]
      /\ k \in DOMAIN n /\ n[k] = j
      /\ \A i \in DOMAIN n : i \in DOMAIN js \/ i = k
      /\ k \in Nat
  BY AppendParts DEF JobsFine
<1> HIDE DEF n, k
<1>2. \A b : InJobs(n, b) <=> InJobs(js, b) \/ (j.op = "write" /\ j.w.block = b)
  BY <1>1 DEF InJobs
<1>3. \A p : HashJob(n, p) <=> HashJob(js, p) \/ (j.op = "hash" /\ j.piece = p)
  BY <1>1 DEF HashJob
<1>4. \A p : JobOn(n, p) <=> JobOn(js, p) \/ JobPiece(j) = p
  BY <1>1 DEF JobOn
<1>5. JobsFine(n)
  <2>1. ASSUME NEW x \in DOMAIN n, NEW y \in DOMAIN n, x < y
        PROVE  /\ n[x].op = "write" /\ n[y].op = "write" => n[x].w.block # n[y].w.block
               /\ n[x].op = "hash" => JobPiece(n[y]) # n[x].piece
    <3>1. CASE x \in DOMAIN js /\ y \in DOMAIN js  BY <1>1, <2>1, <3>1 DEF JobsFine
    <3>2. CASE x \in DOMAIN js /\ y = k  BY <1>1, <3>2 DEF InJobs, HashJob
    <3>3. CASE x = k
      <4>1. y <= k  BY <1>1
      <4> QED  BY <1>1, <2>1, <3>3, <4>1
    <3> QED  BY <1>1, <3>1, <3>2, <3>3
  <2> QED  BY <1>1, <2>1 DEF JobsFine
<1> QED  BY <1>2, <1>3, <1>4, <1>5 DEF n

\* The first completion is run.
LEMMA TailDone ==
    ASSUME NEW dn, DoneFine(dn), dn # <<>>
    PROVE  LET h == Head(dn)
               r == Tail(dn)
           IN  /\ h \in Completion /\ DoneFine(r)
               /\ h.ret = "ok" /\ (h.op = "hash" => h.verdict \in Verdicts)
               /\ \A b : InDone(dn, b) <=> (\E w \in h.ws : w.block = b) \/ InDone(r, b)
               /\ \A w \in h.ws : ~InDone(r, w.block)
               /\ \A p, V : HashDone(dn, p, V) <=>
                    (h.op = "hash" /\ h.piece = p /\ h.verdict \in V) \/ HashDone(r, p, V)
               /\ h.op = "hash" => /\ ~HashDone(r, h.piece, Verdicts)
                                   /\ \A b : InDone(r, b) => PieceOf(b) # h.piece
<1> DEFINE h == Head(dn)
           r == Tail(dn)
<1>1. /\ r \in Seq(Completion) /\ h \in Completion
      /\ 1 \in DOMAIN dn /\ dn[1] = h
      /\ \A i \in DOMAIN r : i \in Nat \ {0} /\ i + 1 \in DOMAIN dn /\ r[i] = dn[i + 1]
      /\ \A i \in DOMAIN dn : i \in Nat \ {0} /\ (i = 1 \/ (i - 1 \in DOMAIN r /\ dn[i] = r[i - 1]))
  BY TailParts DEF DoneFine
<1> HIDE DEF h, r
<1>2. \A i \in DOMAIN r : 1 < i + 1  BY <1>1
<1>3. \A i, j \in DOMAIN r : i < j => i + 1 < j + 1  BY <1>1
<1>4. DoneFine(r)
  <2>1. ASSUME NEW i \in DOMAIN r, NEW j \in DOMAIN r, i < j
        PROVE  /\ \A v \in r[i].ws, w \in r[j].ws : v.block # w.block
               /\ r[i].op = "hash" => ~Touches(r[j], r[i].piece)
    <3>1. i + 1 \in DOMAIN dn /\ j + 1 \in DOMAIN dn /\ i + 1 < j + 1  BY <1>1, <1>3, <2>1
    <3> QED  BY <1>1, <3>1, SMTT(60) DEF DoneFine
  <2> QED  BY <1>1, <2>1 DEF DoneFine
<1>5. h.ret = "ok" /\ (h.op = "hash" => h.verdict \in Verdicts)  BY <1>1 DEF DoneFine
<1>6. \A b : InDone(dn, b) <=> (\E w \in h.ws : w.block = b) \/ InDone(r, b)
  BY <1>1 DEF InDone
<1>7. \A i \in DOMAIN r : /\ \A v \in h.ws, w \in r[i].ws : v.block # w.block
                          /\ h.op = "hash" => ~Touches(r[i], h.piece)
  BY <1>1, <1>2 DEF DoneFine
<1>8. \A w \in h.ws : ~InDone(r, w.block)  BY <1>7 DEF InDone
<1>9. \A p, V : HashDone(dn, p, V) <=>
         (h.op = "hash" /\ h.piece = p /\ h.verdict \in V) \/ HashDone(r, p, V)
  BY <1>1 DEF HashDone
<1>10. h.op = "hash" => /\ ~HashDone(r, h.piece, Verdicts)
                        /\ \A b : InDone(r, b) => PieceOf(b) # h.piece
  BY <1>7 DEF HashDone, InDone, Touches
<1> QED  BY <1>1, <1>4, <1>5, <1>6, <1>8, <1>9, <1>10 DEF h, r

\* A completion is posted.
LEMMA AppendDone ==
    ASSUME NEW dn, DoneFine(dn), NEW c \in Completion, c.ret = "ok",
           c.op = "hash" => c.verdict \in Verdicts,
           \A w \in c.ws : ~InDone(dn, w.block),
           \A p : HashDone(dn, p, Verdicts) => ~Touches(c, p)
    PROVE  /\ DoneFine(Append(dn, c))
           /\ \A b : InDone(Append(dn, c), b) <=> InDone(dn, b) \/ \E w \in c.ws : w.block = b
           /\ \A p, V : HashDone(Append(dn, c), p, V) <=>
                HashDone(dn, p, V) \/ (c.op = "hash" /\ c.piece = p /\ c.verdict \in V)
<1> DEFINE n == Append(dn, c)
           k == Len(dn) + 1
<1>1. /\ n \in Seq(Completion)
      /\ \A i \in DOMAIN dn : i \in Nat /\ i < k /\ i \in DOMAIN n /\ n[i] = dn[i]
      /\ k \in DOMAIN n /\ n[k] = c
      /\ \A i \in DOMAIN n : i \in DOMAIN dn \/ i = k
      /\ k \in Nat
  BY AppendParts DEF DoneFine
<1> HIDE DEF n, k
<1>2. \A b : InDone(n, b) <=> InDone(dn, b) \/ \E w \in c.ws : w.block = b
  BY <1>1 DEF InDone
<1>3. \A p, V : HashDone(n, p, V) <=>
         HashDone(dn, p, V) \/ (c.op = "hash" /\ c.piece = p /\ c.verdict \in V)
  BY <1>1 DEF HashDone
<1>4. \A i \in DOMAIN dn : dn[i].op = "hash" => HashDone(dn, dn[i].piece, Verdicts)
  BY DEF HashDone, DoneFine
<1>5. DoneFine(n)
  <2>1. ASSUME NEW x \in DOMAIN n, NEW y \in DOMAIN n, x < y
        PROVE  /\ \A v \in n[x].ws, w \in n[y].ws : v.block # w.block
               /\ n[x].op = "hash" => ~Touches(n[y], n[x].piece)
    <3>1. CASE x \in DOMAIN dn /\ y \in DOMAIN dn  BY <1>1, <2>1, <3>1 DEF DoneFine
    <3>2. CASE x \in DOMAIN dn /\ y = k
      <4>1. \A v \in dn[x].ws, w \in c.ws : v.block # w.block  BY <3>2 DEF InDone
      <4> QED  BY <1>1, <1>4, <3>2, <4>1
    <3>3. CASE x = k
      <4>1. y <= k  BY <1>1
      <4> QED  BY <1>1, <2>1, <3>3, <4>1
    <3> QED  BY <1>1, <3>1, <3>2, <3>3
  <2>2. \A i \in DOMAIN n : n[i].ret = "ok" /\ (n[i].op = "hash" => n[i].verdict \in Verdicts)
    BY <1>1 DEF DoneFine
  <2> QED  BY <1>1, <2>1, <2>2 DEF DoneFine
<1> QED  BY <1>2, <1>3, <1>5 DEF n

-----------------------------------------------------------------------------
(* The two threads agree. *)

\* A block is in at most one of the three places,
Apart(js, ca, dn) ==
    /\ \A v, w \in ca : v.block = w.block => v = w
    /\ \A b \in Block : /\ ~(InJobs(js, b) /\ InCache(ca, b))
                        /\ ~(InJobs(js, b) /\ InDone(dn, b))
                        /\ ~(InCache(ca, b) /\ InDone(dn, b))

\* exactly while it is being written,
Owed(js, ca, dn, pk) ==
    \A b \in Block : pk.info[b].state = "writing" <=>
        InJobs(js, b) \/ InCache(ca, b) \/ InDone(dn, b)

\* and a piece is being hashed exactly while all its blocks have arrived.
Hashed(js, dn, pk) ==
    \A p \in Piece : IsPieceFinished(pk, p) <=> HashJob(js, p) \/ HashDone(dn, p, Verdicts)

\* Nothing about a piece is left once its hash is known.
Settled(js, ca, dn) ==
    \A p \in Piece : HashDone(dn, p, Verdicts) => ~JobOn(js, p) /\ ~CacheOn(ca, p)

\* A piece that passed, and one that we have, is right on disk.
Stored(dn, pk, dk) ==
    \A b \in Block : HashDone(dn, PieceOf(b), {"passed"}) \/ PieceOf(b) \in pk.have => dk[b]

Agree(js, ca, dn, pk, dk) ==
    /\ JobsFine(js) /\ DoneFine(dn) /\ ca \in SUBSET Write /\ dk \in [Block -> BOOLEAN]
    /\ Apart(js, ca, dn)
    /\ Owed(js, ca, dn, pk)
    /\ Hashed(js, dn, pk)
    /\ Settled(js, ca, dn)
    /\ Stored(dn, pk, dk)

\* A passed piece is a hashed one.
LEMMA PassedHashed ==
    ASSUME NEW dn, NEW p, HashDone(dn, p, {"passed"})
    PROVE  HashDone(dn, p, Verdicts)
  BY DEF HashDone, Verdicts

\* A block that is being written, or waits for it, is of no piece that has been
\* hashed or that we have.
LEMMA WrittenIsOpen ==
    ASSUME NEW js, NEW ca, NEW dn, NEW pk, NEW dk, Agree(js, ca, dn, pk, dk), Closed(pk),
           NEW b \in Block, InJobs(js, b) \/ InCache(ca, b)
    PROVE  ~HashDone(dn, PieceOf(b), Verdicts) /\ PieceOf(b) \notin pk.have
<1>1. PieceOf(b) \in Piece  BY DEF PieceOf, Block
<1>2. pk.info[b].state = "writing"  BY DEF Agree, Owed
<1>3. JobOn(js, PieceOf(b)) \/ CacheOn(ca, PieceOf(b))
  BY DEF InJobs, InCache, JobOn, CacheOn, JobPiece
<1> QED  BY <1>1, <1>2, <1>3 DEF Agree, Settled, Closed

\* Handlers that move no block change nothing here.
LEMMA StaysAgree ==
    ASSUME NEW js, NEW ca, NEW dn, NEW pk, NEW dk, Agree(js, ca, dn, pk, dk),
           NEW pk2, Books(pk), Books(pk2), Stays(pk, pk2)
    PROVE  Agree(js, ca, dn, pk2, dk)
<1>1. Owed(js, ca, dn, pk2)  BY DEF Agree, Owed, Stays
<1>2. Hashed(js, dn, pk2)  BY StaysFinished DEF Agree, Hashed
<1>3. Stored(dn, pk2, dk)  BY DEF Agree, Stored, Stays
<1> QED  BY <1>1, <1>2, <1>3 DEF Agree

\* A block arrives: its write, and maybe the hash of its piece, joins the jobs.
LEMMA TakesAgree ==
    ASSUME NEW js, NEW ca, NEW dn, NEW pk, NEW dk, Agree(js, ca, dn, pk, dk),
           NEW pk2, Books(pk), Books(pk2), NEW b \in Block, ~IsDownloaded(pk, b),
           Arrives(pk, pk2, b), NEW p \in Peer, NEW good \in BOOLEAN
    PROVE  Agree(js \o NewJobs(pk2, p, b, good), ca, dn, pk2, dk)
<1> DEFINE q == PieceOf(b)
           j == [op |-> "write", w |-> [block |-> b, peer |-> p, good |-> good]]
           h == [op |-> "hash", piece |-> q]
           one == Append(js, j)
           two == Append(one, h)
           end == IF IsPieceFinished(pk2, q) THEN two ELSE one
<1>1. q \in Piece  BY DEF PieceOf, Block
<1>2. j \in Job /\ h \in Job /\ j.op = "write" /\ h.op = "hash" /\ j.w.block = b /\ h.piece = q
      /\ JobPiece(j) = q /\ JobPiece(h) = q
  BY <1>1 DEF Job, Write, JobPiece
<1>3. js \in Seq(Job)  BY DEF Agree, JobsFine
<1>4. js \o NewJobs(pk2, p, b, good) = end
  <2> HIDE DEF j, h
  <2>1. NewJobs(pk2, p, b, good) = <<j>> \o (IF IsPieceFinished(pk2, q) THEN <<h>> ELSE <<>>)
    BY DEF NewJobs, j, h
  <2>2. js \o (<<j>> \o <<>>) = one /\ js \o (<<j>> \o <<h>>) = two
    BY <1>2, <1>3, ConcatParts
  <2> HIDE DEF one, two
  <2> QED  BY <2>1, <2>2
<1>5. pk.info[b].state \notin {"writing", "finished"} /\ q \notin pk.have  BY DEF IsDownloaded
<1>6. ~InJobs(js, b) /\ ~InCache(ca, b) /\ ~InDone(dn, b)  BY <1>5 DEF Agree, Owed
<1>7. ~IsPieceFinished(pk, q)  BY <1>1, <1>5, FinishedMeans
<1>8. ~HashJob(js, q) /\ ~HashDone(dn, q, Verdicts)  BY <1>1, <1>7 DEF Agree, Hashed
<1> HIDE DEF j, h, one
<1>9. /\ JobsFine(one)
      /\ \A x : InJobs(one, x) <=> InJobs(js, x) \/ x = b
      /\ \A x : HashJob(one, x) <=> HashJob(js, x)
      /\ \A x : JobOn(one, x) <=> JobOn(js, x) \/ x = q
  <2>1. JobsFine(js)  BY DEF Agree
  <2> QED  BY <1>2, <1>6, <1>8, <2>1, AppendJob DEF one
<1> HIDE DEF two
<1>10. /\ JobsFine(two)
       /\ \A x : InJobs(two, x) <=> InJobs(js, x) \/ x = b
       /\ \A x : HashJob(two, x) <=> HashJob(js, x) \/ x = q
       /\ \A x : JobOn(two, x) <=> JobOn(js, x) \/ x = q
  BY <1>2, <1>8, <1>9, AppendJob DEF two
<1>11. /\ JobsFine(end)
       /\ \A x : InJobs(end, x) <=> InJobs(js, x) \/ x = b
       /\ \A x : HashJob(end, x) <=> HashJob(js, x) \/ (x = q /\ IsPieceFinished(pk2, q))
       /\ \A x : JobOn(end, x) <=> JobOn(js, x) \/ x = q
  BY <1>9, <1>10
<1> HIDE DEF end
<1>12. Apart(end, ca, dn)  BY <1>6, <1>11 DEF Agree, Apart
<1>13. Owed(end, ca, dn, pk2)  BY <1>11 DEF Agree, Owed, Arrives
<1>14. Hashed(end, dn, pk2)
  <2>1. ASSUME NEW x \in Piece, x # q  PROVE IsPieceFinished(pk2, x) <=> IsPieceFinished(pk, x)
    <3>1. \A y \in Block : PieceOf(y) = x =>
             (pk2.info[y].state \in {"writing", "finished"} <=> pk.info[y].state \in {"writing", "finished"})
      BY <2>1 DEF Arrives
    <3> QED  BY <3>1, FinishedMeans
  <2> QED  BY <1>8, <1>11, <2>1 DEF Agree, Hashed
<1>15. Settled(end, ca, dn)  BY <1>8, <1>11 DEF Agree, Settled
<1>16. Stored(dn, pk2, dk)  BY DEF Agree, Stored, Arrives
<1> QED  BY <1>4, <1>11, <1>12, <1>13, <1>14, <1>15, <1>16 DEF Agree

\* The callbacks of a completion: its blocks are written.
LEMMA LandsFinished ==
    ASSUME NEW pk, NEW pk2, Books(pk), Books(pk2), NEW bs, Lands(pk, pk2, bs),
           \A b \in bs : pk.info[b].state = "writing", NEW p \in Piece
    PROVE  IsPieceFinished(pk2, p) <=> IsPieceFinished(pk, p)
<1>1. \A y \in Block : pk2.info[y].state \in {"writing", "finished"}
                          <=> pk.info[y].state \in {"writing", "finished"}
  BY DEF Lands
<1> QED  BY <1>1, FinishedMeans

\* A completion of writes is run.
LEMMA LandsAgree ==
    ASSUME NEW js, NEW ca, NEW dn, NEW pk, NEW dk, Agree(js, ca, dn, pk, dk),
           dn # <<>>, Head(dn).op = "write",
           NEW pk2, Books(pk), Books(pk2), Lands(pk, pk2, {w.block : w \in Head(dn).ws})
    PROVE  Agree(js, ca, Tail(dn), pk2, dk)
<1> DEFINE h == Head(dn)
           r == Tail(dn)
           bs == {w.block : w \in h.ws}
<1>1. DoneFine(dn)  BY DEF Agree
<1>2. /\ h \in Completion /\ DoneFine(r)
      /\ \A b : InDone(dn, b) <=> (\E w \in h.ws : w.block = b) \/ InDone(r, b)
      /\ \A w \in h.ws : ~InDone(r, w.block)
      /\ \A p, V : HashDone(dn, p, V) <=>
            (h.op = "hash" /\ h.piece = p /\ h.verdict \in V) \/ HashDone(r, p, V)
  BY <1>1, TailDone
<1>3. \A b : b \in bs <=> \E w \in h.ws : w.block = b  OBVIOUS
<1>4. \A p, V : HashDone(dn, p, V) <=> HashDone(r, p, V)  BY <1>2
<1>5. bs \in SUBSET Block
  <2>1. h.ws \in SUBSET Write  BY <1>2, CompletionFields
  <2> QED  BY <2>1, WriteFields
<1>6. Lands(pk, pk2, bs)  OBVIOUS
<1> HIDE DEF h, r, bs
<1>7. \A b \in Block : InDone(dn, b) <=> b \in bs \/ InDone(r, b)  BY <1>2, <1>3
<1>8. \A b \in bs : ~InDone(r, b) /\ pk.info[b].state = "writing" /\ ~InJobs(js, b) /\ ~InCache(ca, b)
  BY <1>2, <1>3, <1>5, <1>7 DEF Agree, Owed, Apart
<1>9. Apart(js, ca, r)  BY <1>7 DEF Agree, Apart
<1>10. Owed(js, ca, r, pk2)  BY <1>6, <1>7, <1>8 DEF Agree, Owed, Lands
<1>11. Hashed(js, r, pk2)
  <2>1. \A p \in Piece : IsPieceFinished(pk2, p) <=> IsPieceFinished(pk, p)
    BY <1>6, <1>8, LandsFinished
  <2> QED  BY <1>4, <2>1 DEF Agree, Hashed
<1>12. Settled(js, ca, r)  BY <1>4 DEF Agree, Settled
<1>13. Stored(r, pk2, dk)  BY <1>4, <1>6 DEF Agree, Stored, Lands
<1> QED  BY <1>2, <1>9, <1>10, <1>11, <1>12, <1>13 DEF Agree, r

\* A hash completion is run: the callbacks of its blocks, and then the piece becomes
\* ours or starts over.
LEMMA ClearsAgree ==
    ASSUME NEW js, NEW ca, NEW dn, NEW pk, NEW dk, Agree(js, ca, dn, pk, dk),
           dn # <<>>, Head(dn).op = "hash",
           NEW pk1, NEW pk2, Books(pk), Books(pk1), Books(pk2),
           Lands(pk, pk1, {w.block : w \in Head(dn).ws}),
           NEW more \in SUBSET {Head(dn).piece}, Clears(pk1, pk2, Head(dn).piece, more),
           more # {} => Head(dn).verdict = "passed"
    PROVE  Agree(js, ca, Tail(dn), pk2, dk)
<1> DEFINE h == Head(dn)
           r == Tail(dn)
           p == h.piece
           bs == {w.block : w \in h.ws}
<1>1. DoneFine(dn)  BY DEF Agree
<1>2. /\ h \in Completion /\ DoneFine(r) /\ h.op = "hash" /\ h.verdict \in Verdicts
      /\ \A b : InDone(dn, b) <=> (\E w \in h.ws : w.block = b) \/ InDone(r, b)
      /\ \A w \in h.ws : ~InDone(r, w.block)
      /\ \A x, V : HashDone(dn, x, V) <=> (p = x /\ h.verdict \in V) \/ HashDone(r, x, V)
      /\ ~HashDone(r, p, Verdicts)
      /\ \A b : InDone(r, b) => PieceOf(b) # p
  BY <1>1, TailDone
<1>3. \A b : b \in bs <=> \E w \in h.ws : w.block = b  OBVIOUS
<1>4. bs \in SUBSET Block /\ p \in Piece
  <2>1. h.ws \in SUBSET Write /\ h.piece \in Piece  BY <1>2, CompletionFields
  <2> QED  BY <2>1, WriteFields
<1>5. Lands(pk, pk1, bs) /\ Clears(pk1, pk2, p, more) /\ more \in SUBSET {p}
      /\ (more # {} => h.verdict = "passed")
  OBVIOUS
<1> HIDE DEF h, r, bs, p
<1>6. ~JobOn(js, p) /\ ~CacheOn(ca, p)  BY <1>2, <1>4 DEF Agree, Settled
<1>7. /\ \A b : InJobs(js, b) \/ InCache(ca, b) => PieceOf(b) # p
      /\ ~HashJob(js, p)
  BY <1>6 DEF InJobs, InCache, HashJob, JobOn, CacheOn, JobPiece
<1>8. \A b \in Block : InDone(dn, b) <=> b \in bs \/ InDone(r, b)  BY <1>2, <1>3
<1>9. \A b \in bs : ~InDone(r, b) /\ pk.info[b].state = "writing" /\ ~InJobs(js, b) /\ ~InCache(ca, b)
  BY <1>2, <1>3, <1>4, <1>8 DEF Agree, Owed, Apart
<1>10. Apart(js, ca, r)  BY <1>8 DEF Agree, Apart
<1>11. Owed(js, ca, r, pk2)
  <2>1. ASSUME NEW b \in Block
        PROVE  pk2.info[b].state = "writing" <=> InJobs(js, b) \/ InCache(ca, b) \/ InDone(r, b)
    <3>1. pk2.info[b].state = "writing"
            <=> pk.info[b].state = "writing" /\ b \notin bs /\ PieceOf(b) # p
      BY <1>5 DEF Lands, Clears
    <3>2. pk.info[b].state = "writing" <=> InJobs(js, b) \/ InCache(ca, b) \/ InDone(dn, b)
      BY DEF Agree, Owed
    <3> QED  BY <1>2, <1>7, <1>8, <1>9, <3>1, <3>2
  <2> QED  BY <2>1 DEF Owed
<1>12. Hashed(js, r, pk2)
  <2>1. ASSUME NEW x \in Piece, x # p  PROVE IsPieceFinished(pk2, x) <=> IsPieceFinished(pk, x)
    <3>1. IsPieceFinished(pk1, x) <=> IsPieceFinished(pk, x)  BY <1>5, <1>9, LandsFinished
    <3>2. \A y \in Block : PieceOf(y) = x =>
             (pk2.info[y].state \in {"writing", "finished"} <=> pk1.info[y].state \in {"writing", "finished"})
      BY <1>5, <2>1 DEF Clears
    <3> QED  BY <3>1, <3>2, FinishedMeans
  <2>2. ~IsPieceFinished(pk2, p)
    <3>1. PICK i \in Index : TRUE  BY BlockAssumption
    <3>2. <<p, i>> \in Block /\ PieceOf(<<p, i>>) = p  BY <1>4 DEF Block, PieceOf
    <3>3. pk2.info[<<p, i>>].state \notin {"writing", "finished"}  BY <1>5, <3>2 DEF Clears
    <3> QED  BY <1>4, <3>2, <3>3, FinishedMeans
  <2> QED  BY <1>2, <1>7, <2>1, <2>2 DEF Agree, Hashed
<1>13. Settled(js, ca, r)  BY <1>2 DEF Agree, Settled
<1>14. Stored(r, pk2, dk)
  <2>1. ASSUME NEW b \in Block, HashDone(r, PieceOf(b), {"passed"}) \/ PieceOf(b) \in pk2.have
        PROVE  dk[b]
    <3>1. HashDone(dn, PieceOf(b), {"passed"}) \/ PieceOf(b) \in pk.have
      BY <1>2, <1>5, <2>1 DEF Lands, Clears
    <3> QED  BY <3>1 DEF Agree, Stored
  <2> QED  BY <2>1 DEF Stored
<1> QED  BY <1>2, <1>10, <1>11, <1>12, <1>13, <1>14 DEF Agree, r

-----------------------------------------------------------------------------
(* The disk thread. *)

\* No file is changed under a piece that we have.
Untouched(pk, dk, dk2) == \A b \in Block : PieceOf(b) \in pk.have => dk2[b] = dk[b]

\* The disk thread writes the blocks of c.ws, which were in the jobs or in the cache,
\* and posts c.
LEMMA PostAgree ==
    ASSUME NEW js, NEW ca, NEW dn, NEW pk, NEW dk, Agree(js, ca, dn, pk, dk), Closed(pk),
           NEW js2, NEW ca2, NEW c \in Completion, NEW dk2 \in [Block -> BOOLEAN],
           JobsFine(js2), ca2 \in SUBSET ca,
           c.ret = "ok", c.op = "hash" => c.verdict \in Verdicts,
           \A b \in Block : (\E w \in c.ws : w.block = b) =>
              /\ InJobs(js, b) \/ InCache(ca, b)
              /\ ~InJobs(js2, b) /\ ~InCache(ca2, b),
           \A b \in Block : ~(\E w \in c.ws : w.block = b) =>
              /\ InJobs(js2, b) <=> InJobs(js, b)
              /\ InCache(ca2, b) <=> InCache(ca, b)
              /\ dk2[b] = dk[b],
           \A p \in Piece : JobOn(js2, p) => JobOn(js, p),
           \A p \in Piece : HashJob(js, p) <=> HashJob(js2, p) \/ (c.op = "hash" /\ c.piece = p),
           c.op = "hash" => /\ JobOn(js, c.piece)
                            /\ ~JobOn(js2, c.piece) /\ ~CacheOn(ca2, c.piece),
           c.op = "hash" /\ c.verdict = "passed" =>
              \A b \in Block : PieceOf(b) = c.piece => dk2[b]
    PROVE  Agree(js2, ca2, Append(dn, c), pk, dk2) /\ Untouched(pk, dk, dk2)
<1> DEFINE n == Append(dn, c)
           bs == {w.block : w \in c.ws}
<1>1. \A b : b \in bs <=> \E w \in c.ws : w.block = b  OBVIOUS
<1>2. /\ bs \in SUBSET Block
      /\ c.op = "hash" => c.piece \in Piece
  <2>1. c.ws \in SUBSET Write  BY CompletionFields
  <2> QED  BY <2>1, WriteFields, CompletionFields
<1> HIDE DEF bs
<1>3. \A b \in bs : /\ InJobs(js, b) \/ InCache(ca, b)
                    /\ ~InJobs(js2, b) /\ ~InCache(ca2, b)
                    /\ ~InDone(dn, b)
  BY <1>1, <1>2 DEF Agree, Apart
<1>4. \A b \in Block \ bs : /\ InJobs(js2, b) <=> InJobs(js, b)
                            /\ InCache(ca2, b) <=> InCache(ca, b)
                            /\ dk2[b] = dk[b]
  BY <1>1
<1>5. \A b \in bs : ~HashDone(dn, PieceOf(b), Verdicts) /\ PieceOf(b) \notin pk.have
  BY <1>2, <1>3, WrittenIsOpen
<1>6. c.op = "hash" => ~HashDone(dn, c.piece, Verdicts)
  BY <1>2 DEF Agree, Settled
<1>7. /\ DoneFine(n)
      /\ \A b : InDone(n, b) <=> InDone(dn, b) \/ b \in bs
      /\ \A p, V : HashDone(n, p, V) <=>
           HashDone(dn, p, V) \/ (c.op = "hash" /\ c.piece = p /\ c.verdict \in V)
  <2>1. \A w \in c.ws : ~InDone(dn, w.block)  BY <1>1, <1>3
  <2>2. \A p : HashDone(dn, p, Verdicts) => ~Touches(c, p)
    BY <1>1, <1>5, <1>6 DEF Touches
  <2>3. DoneFine(dn)  BY DEF Agree
  <2>4. /\ DoneFine(n)
        /\ \A b : InDone(n, b) <=> InDone(dn, b) \/ \E w \in c.ws : w.block = b
        /\ \A p, V : HashDone(n, p, V) <=>
             HashDone(dn, p, V) \/ (c.op = "hash" /\ c.piece = p /\ c.verdict \in V)
    BY <2>1, <2>2, <2>3, AppendDone
  <2> QED  BY <1>1, <2>4
<1> HIDE DEF n
<1>8. Apart(js2, ca2, n)
  <2>1. \A v, w \in ca2 : v.block = w.block => v = w  BY DEF Agree, Apart
  <2>2. ASSUME NEW b \in Block
        PROVE  /\ ~(InJobs(js2, b) /\ InCache(ca2, b))
               /\ ~(InJobs(js2, b) /\ InDone(n, b))
               /\ ~(InCache(ca2, b) /\ InDone(n, b))
    <3>1. CASE b \in bs  BY <1>3, <3>1
    <3>2. CASE b \notin bs  BY <1>4, <1>7, <3>2 DEF Agree, Apart
    <3> QED  BY <3>1, <3>2
  <2> QED  BY <2>1, <2>2 DEF Apart
<1>9. Owed(js2, ca2, n, pk)
  <2>1. ASSUME NEW b \in Block
        PROVE  pk.info[b].state = "writing" <=> InJobs(js2, b) \/ InCache(ca2, b) \/ InDone(n, b)
    <3>1. pk.info[b].state = "writing" <=> InJobs(js, b) \/ InCache(ca, b) \/ InDone(dn, b)
      BY DEF Agree, Owed
    <3>2. CASE b \in bs  BY <1>3, <1>7, <3>1, <3>2
    <3>3. CASE b \notin bs  BY <1>4, <1>7, <3>1, <3>3
    <3> QED  BY <3>2, <3>3
  <2> QED  BY <2>1 DEF Owed
<1>10. Hashed(js2, n, pk)  BY <1>7 DEF Agree, Hashed
<1>11. Settled(js2, ca2, n)
  <2>1. \A p : CacheOn(ca2, p) => CacheOn(ca, p)  BY DEF CacheOn
  <2> QED  BY <1>7, <2>1 DEF Agree, Settled
<1>12. Stored(n, pk, dk2)
  <2>1. ASSUME NEW b \in Block, HashDone(n, PieceOf(b), {"passed"}) \/ PieceOf(b) \in pk.have
        PROVE  dk2[b]
    <3>1. CASE c.op = "hash" /\ c.piece = PieceOf(b) /\ c.verdict \in {"passed"}
      BY <3>1
    <3>2. CASE HashDone(dn, PieceOf(b), {"passed"}) \/ PieceOf(b) \in pk.have
      <4>1. dk[b]  BY <3>2 DEF Agree, Stored
      <4>2. b \notin bs  BY <1>5, <3>2, PassedHashed
      <4> QED  BY <1>4, <4>1, <4>2
    <3> QED  BY <1>7, <2>1, <3>1, <3>2
  <2> QED  BY <2>1 DEF Stored
<1>13. ca2 \in SUBSET Write  BY DEF Agree
<1>14. Untouched(pk, dk, dk2)  BY <1>4, <1>5 DEF Untouched
<1>15. Agree(js2, ca2, n, pk, dk2)
  BY <1>7, <1>8, <1>9, <1>10, <1>11, <1>12, <1>13 DEF Agree
<1> QED  BY <1>14, <1>15 DEF n

\* No disk operation fails.
LEMMA NoFailure ==
    ASSUME PossibleErrors = {}, NEW rs, Fail(rs)
    PROVE  rs \cap DiskError = {}
  BY DEF Fail

\* flush_range writes its blocks and nothing else.
LEMMA FlushAll ==
    ASSUME NEW ws, FlushRange(ws, "ok")
    PROVE  /\ cache' = cache \ ws
           /\ \A b \in Block : ~(\E w \in ws : w.block = b) => disk'[b] = disk[b]
<1>1. PICK ok \in SUBSET ws :
         /\ "ok" = "ok" <=> ok = ws
         /\ disk' = [b \in Block |-> IF \E w \in ok : w.block = b
                                     THEN \E w \in ok : w.block = b /\ w.good
                                     ELSE disk[b]]
  BY DEF FlushRange
<1>2. ok = ws  BY <1>1
<1> QED  BY <1>1, <1>2 DEF FlushRange

\* The two threads agree now.
Now == Agree(jobs, cache, done, picker, disk)

\* The blocks ws of the cache are written and leave it.
LEMMA LeavesCache ==
    ASSUME NEW js, NEW ca \in SUBSET Write, NEW dn, Apart(js, ca, dn),
           NEW ws \in SUBSET ca, NEW b \in Block
    PROVE  /\ (\E w \in ws : w.block = b) => InCache(ca, b) /\ ~InJobs(js, b) /\ ~InCache(ca \ ws, b)
           /\ ~(\E w \in ws : w.block = b) => (InCache(ca \ ws, b) <=> InCache(ca, b))
  BY DEF Apart, InCache

\* flush_cache_blocks and its like.
LEMMA FlushAgrees ==
    ASSUME PossibleErrors = {}, TypeOK, TypeOK', Now, Closed(picker), NEW p \in Piece, DiskFlush(p)
    PROVE  Now' /\ Untouched(picker, disk, disk') /\ UNCHANGED netVars
<1>1. PICK ws \in SUBSET Cached(p) \ {{}}, ret \in DiskError \cup {"ok"} :
         /\ FlushRange(ws, ret) /\ Fail({ret})
         /\ done' = Append(done, [op |-> "write", ws |-> ws, ret |-> ret])
  BY DEF DiskFlush
<1>2. ret = "ok"
  <2>1. {ret} \cap DiskError = {}  BY <1>1, NoFailure
  <2> QED  BY <2>1
<1>3. ws \in SUBSET cache /\ ws \in SUBSET Write  BY DEF Cached, TypeOK
<1> DEFINE c == [op |-> "write", ws |-> ws, ret |-> "ok"]
<1>4. c \in Completion /\ c.op = "write" /\ c.ret = "ok" /\ c.ws = ws
  BY <1>3, CompletionIntro, BlockAssumption
<1> HIDE DEF c
<1>5. done' = Append(done, c)  BY <1>1, <1>2 DEF c
<1>6. /\ cache' = cache \ ws
      /\ \A b \in Block : ~(\E w \in ws : w.block = b) => disk'[b] = disk[b]
  BY <1>1, <1>2, FlushAll
<1>7. jobs' = jobs /\ UNCHANGED netVars  BY DEF DiskFlush
<1>8. JobsFine(jobs) /\ Apart(jobs, cache, done) /\ cache \in SUBSET Write  BY DEF Now, Agree
<1>9. \A b \in Block :
        /\ (\E w \in ws : w.block = b) =>
              InCache(cache, b) /\ ~InJobs(jobs, b) /\ ~InCache(cache', b)
        /\ ~(\E w \in ws : w.block = b) => (InCache(cache', b) <=> InCache(cache, b))
  BY <1>3, <1>6, <1>8, LeavesCache, ZenonT(60)
<1>10. disk' \in [Block -> BOOLEAN] /\ cache' \in SUBSET cache  BY <1>6 DEF TypeOK
<1>11. Agree(jobs, cache', Append(done, c), picker, disk') /\ Untouched(picker, disk, disk')
  <2>1. Agree(jobs, cache, done, picker, disk)  BY DEF Now
  <2>2. \A b \in Block : (\E w \in c.ws : w.block = b) =>
              /\ InJobs(jobs, b) \/ InCache(cache, b)
              /\ ~InJobs(jobs, b) /\ ~InCache(cache', b)
    BY <1>4, <1>9
  <2>3. \A b \in Block : ~(\E w \in c.ws : w.block = b) =>
              /\ InJobs(jobs, b) <=> InJobs(jobs, b)
              /\ InCache(cache', b) <=> InCache(cache, b)
              /\ disk'[b] = disk[b]
    BY <1>4, <1>6, <1>9
  <2> QED  BY <1>4, <1>8, <1>10, <2>1, <2>2, <2>3, PostAgree
<1>12. picker' = picker  BY <1>7 DEF netVars
<1> QED  BY <1>5, <1>7, <1>11, <1>12 DEF Now

\* A piece of one block is written at once.
LEMMA DirectAgrees ==
    ASSUME PossibleErrors = {}, TypeOK, TypeOK', Now, Closed(picker), DiskWriteDirect
    PROVE  Now' /\ Untouched(picker, disk, disk') /\ UNCHANGED netVars
<1> DEFINE h == Head(jobs)
           r == Tail(jobs)
           v == h.w
<1>1. PICK ret \in DiskError \cup {"ok"} :
         /\ FlushRange({v}, ret) /\ Fail({ret})
         /\ done' = Append(done, [op |-> "write", ws |-> {v}, ret |-> ret])
  BY DEF DiskWriteDirect
<1>2. ret = "ok"
  <2>1. {ret} \cap DiskError = {}  BY <1>1, NoFailure
  <2> QED  BY <2>1
<1>3. jobs # <<>> /\ h.op = "write" /\ jobs' = r /\ UNCHANGED netVars  BY DEF DiskWriteDirect
<1>4. JobsFine(jobs) /\ Apart(jobs, cache, done)  BY DEF Now, Agree
<1>5. /\ h \in Job /\ JobsFine(r)
      /\ \A b : InJobs(jobs, b) <=> (h.op = "write" /\ h.w.block = b) \/ InJobs(r, b)
      /\ h.op = "write" => ~InJobs(r, h.w.block)
      /\ \A p : HashJob(jobs, p) <=> (h.op = "hash" /\ h.piece = p) \/ HashJob(r, p)
      /\ \A p : JobOn(jobs, p) <=> JobPiece(h) = p \/ JobOn(r, p)
  BY <1>3, <1>4, TailJobs
<1>6. v \in Write /\ v.block \in Block  BY <1>3, <1>5, JobFields, WriteFields
<1> DEFINE c == [op |-> "write", ws |-> {v}, ret |-> "ok"]
<1>7. c \in Completion /\ c.op = "write" /\ c.ret = "ok" /\ c.ws = {v}
  BY <1>6, CompletionIntro, BlockAssumption
<1>8. done' = Append(done, c)  BY <1>1, <1>2
<1> HIDE DEF c
<1>9. /\ cache' = cache \ {v}
      /\ \A b \in Block : ~(\E w \in {v} : w.block = b) => disk'[b] = disk[b]
  BY <1>1, <1>2, FlushAll
<1>10. InJobs(jobs, v.block) /\ ~InJobs(r, v.block) /\ ~InCache(cache, v.block)
  BY <1>3, <1>4, <1>5, <1>6 DEF Apart
<1>11. cache' = cache  BY <1>9, <1>10 DEF InCache
<1>12. disk' \in [Block -> BOOLEAN]  BY DEF TypeOK
<1>13. Agree(jobs, cache, done, picker, disk)  BY DEF Now
<1>14. \A b \in Block : (\E w \in c.ws : w.block = b) =>
              /\ InJobs(jobs, b) \/ InCache(cache, b)
              /\ ~InJobs(r, b) /\ ~InCache(cache, b)
  BY <1>7, <1>10
<1>15. \A b \in Block : ~(\E w \in c.ws : w.block = b) =>
              /\ InJobs(r, b) <=> InJobs(jobs, b)
              /\ InCache(cache, b) <=> InCache(cache, b)
              /\ disk'[b] = disk[b]
  BY <1>5, <1>7, <1>9
<1>16. \A p \in Piece : /\ JobOn(r, p) => JobOn(jobs, p)
                        /\ HashJob(jobs, p) <=> HashJob(r, p) \/ (c.op = "hash" /\ c.piece = p)
  BY <1>3, <1>5, <1>7
<1> HIDE DEF h, r, v
<1>17. Agree(r, cache, Append(done, c), picker, disk') /\ Untouched(picker, disk, disk')
  BY <1>5, <1>7, <1>12, <1>13, <1>14, <1>15, <1>16, PostAgree
<1>18. picker' = picker  BY <1>3 DEF netVars
<1> QED  BY <1>3, <1>8, <1>11, <1>17, <1>18 DEF Now

\* Any other block goes to the cache, which does not hold it yet.
LEMMA CacheAgrees ==
    ASSUME Now, Closed(picker), DiskWrite
    PROVE  Now' /\ Untouched(picker, disk, disk') /\ UNCHANGED netVars
<1> DEFINE h == Head(jobs)
           r == Tail(jobs)
           v == h.w
           old == {x \in cache : x.block = v.block}
<1>1. jobs # <<>> /\ h.op = "write" /\ jobs' = r /\ UNCHANGED netVars /\ disk' = disk
  BY DEF DiskWrite
<1>2. /\ cache' = (cache \ old) \cup {v}
      /\ done' = IF old = {} THEN done ELSE Append(done, [op |-> "write", ws |-> old, ret |-> "ok"])
  BY DEF DiskWrite
<1>3. JobsFine(jobs) /\ Apart(jobs, cache, done) /\ cache \in SUBSET Write  BY DEF Now, Agree
<1>4. /\ h \in Job /\ JobsFine(r)
      /\ \A b : InJobs(jobs, b) <=> (h.op = "write" /\ h.w.block = b) \/ InJobs(r, b)
      /\ h.op = "write" => ~InJobs(r, h.w.block)
      /\ \A p : HashJob(jobs, p) <=> (h.op = "hash" /\ h.piece = p) \/ HashJob(r, p)
      /\ \A p : JobOn(jobs, p) <=> JobPiece(h) = p \/ JobOn(r, p)
  BY <1>1, <1>3, TailJobs
<1>5. v \in Write /\ v.block \in Block /\ JobPiece(h) = PieceOf(v.block)
  BY <1>1, <1>4, JobFields, WriteFields DEF JobPiece
<1>6. /\ \A b : InJobs(jobs, b) <=> v.block = b \/ InJobs(r, b)
      /\ ~InJobs(r, v.block)
      /\ \A p : HashJob(jobs, p) <=> HashJob(r, p)
      /\ \A p : JobOn(jobs, p) <=> PieceOf(v.block) = p \/ JobOn(r, p)
  BY <1>1, <1>4, <1>5
<1> HIDE DEF h, r, v
<1>7. InJobs(jobs, v.block) /\ ~InCache(cache, v.block) /\ ~InDone(done, v.block)
  BY <1>3, <1>5, <1>6 DEF Apart
<1>8. old = {}  BY <1>7 DEF InCache
<1>9. cache' = cache \cup {v} /\ done' = done  BY <1>2, <1>8
<1> HIDE DEF old
<1>10. /\ \A b : InCache(cache', b) <=> InCache(cache, b) \/ b = v.block
       /\ \A p : CacheOn(cache', p) <=> CacheOn(cache, p) \/ p = PieceOf(v.block)
  BY <1>9 DEF InCache, CacheOn
<1>11. Apart(r, cache', done)
  <2>1. \A x, y \in cache' : x.block = y.block => x = y
    BY <1>3, <1>7, <1>9 DEF Apart, InCache
  <2> QED  BY <1>3, <1>6, <1>7, <1>10, <2>1 DEF Apart
<1>12. Owed(r, cache', done, picker)  BY <1>6, <1>10 DEF Now, Agree, Owed
<1>13. Hashed(r, done, picker)  BY <1>6 DEF Now, Agree, Hashed
<1>14. Settled(r, cache', done)  BY <1>6, <1>10 DEF Now, Agree, Settled
<1>15. cache' \in SUBSET Write  BY <1>3, <1>5, <1>9
<1>16. Agree(r, cache', done, picker, disk)
  BY <1>4, <1>11, <1>12, <1>13, <1>14, <1>15 DEF Now, Agree
<1>17. picker' = picker  BY <1>1 DEF netVars
<1> QED  BY <1>1, <1>9, <1>16, <1>17 DEF Now, Untouched

\* A piece is flushed and hashed.
LEMMA HashAgrees ==
    ASSUME PossibleErrors = {}, TypeOK, TypeOK', Now, Closed(picker), DiskHash
    PROVE  Now' /\ Untouched(picker, disk, disk') /\ UNCHANGED netVars
<1> DEFINE h == Head(jobs)
           r == Tail(jobs)
           p == h.piece
           ws == Cached(p)
<1>1. PICK ret \in DiskError \cup {"ok"}, verdict \in {"passed", "failed", "no_memory", "other"} :
         /\ FlushRange(ws, ret) /\ Fail({ret} \cup {verdict})
         /\ verdict = "passed" => \A b \in BlocksIn(p) : disk'[b]
         /\ done' = Append(done, [op |-> "hash", ws |-> ws, ret |-> ret,
                                  piece |-> p, verdict |-> verdict])
  BY DEF DiskHash
<1>2. ret = "ok" /\ verdict \in Verdicts
  <2>1. ({ret} \cup {verdict}) \cap DiskError = {}  BY <1>1, NoFailure
  <2> QED  BY <2>1 DEF DiskError, Verdicts
<1>3. jobs # <<>> /\ h.op = "hash" /\ jobs' = r /\ UNCHANGED netVars  BY DEF DiskHash
<1>4. JobsFine(jobs) /\ Apart(jobs, cache, done) /\ cache \in SUBSET Write  BY DEF Now, Agree
<1>5. /\ h \in Job /\ JobsFine(r)
      /\ \A b : InJobs(jobs, b) <=> (h.op = "write" /\ h.w.block = b) \/ InJobs(r, b)
      /\ \A x : HashJob(jobs, x) <=> (h.op = "hash" /\ h.piece = x) \/ HashJob(r, x)
      /\ \A x : JobOn(jobs, x) <=> JobPiece(h) = x \/ JobOn(r, x)
      /\ h.op = "hash" => ~JobOn(r, h.piece)
  BY <1>3, <1>4, TailJobs
<1>6. p \in Piece /\ JobPiece(h) = p  BY <1>3, <1>5, JobFields DEF JobPiece
<1>7. /\ \A b : InJobs(jobs, b) <=> InJobs(r, b)
      /\ \A x : HashJob(jobs, x) <=> p = x \/ HashJob(r, x)
      /\ \A x : JobOn(jobs, x) <=> p = x \/ JobOn(r, x)
      /\ ~JobOn(r, p)
  BY <1>3, <1>5, <1>6
<1>8. ws \in SUBSET cache /\ ws \in SUBSET Write  BY <1>4 DEF Cached
<1> DEFINE c == [op |-> "hash", ws |-> ws, ret |-> "ok", piece |-> p, verdict |-> verdict]
<1>9. /\ c \in Completion /\ c.op = "hash" /\ c.ret = "ok" /\ c.ws = ws
      /\ c.piece = p /\ c.verdict = verdict
  BY <1>6, <1>8, CompletionIntro
<1>10. done' = Append(done, c)  BY <1>1, <1>2
<1> HIDE DEF c, h, r, p
<1>11. /\ cache' = cache \ ws
       /\ \A b \in Block : ~(\E w \in ws : w.block = b) => disk'[b] = disk[b]
  BY <1>1, <1>2, FlushAll
<1>12. ~CacheOn(cache', p)  BY <1>11 DEF CacheOn, Cached
<1> HIDE DEF ws
<1>13. \A b \in Block :
        /\ (\E w \in ws : w.block = b) =>
              InCache(cache, b) /\ ~InJobs(jobs, b) /\ ~InCache(cache', b)
        /\ ~(\E w \in ws : w.block = b) => (InCache(cache', b) <=> InCache(cache, b))
  BY <1>4, <1>8, <1>11, LeavesCache
<1>14. disk' \in [Block -> BOOLEAN] /\ cache' \in SUBSET cache  BY <1>11 DEF TypeOK
<1>15. verdict = "passed" => \A b \in Block : PieceOf(b) = p => disk'[b]
  BY <1>1 DEF BlocksIn, Block, PieceOf
<1>16. Agree(jobs, cache, done, picker, disk)  BY DEF Now
<1>17. \A b \in Block : (\E w \in c.ws : w.block = b) =>
              /\ InJobs(jobs, b) \/ InCache(cache, b)
              /\ ~InJobs(r, b) /\ ~InCache(cache', b)
  BY <1>7, <1>9, <1>13
<1>18. \A b \in Block : ~(\E w \in c.ws : w.block = b) =>
              /\ InJobs(r, b) <=> InJobs(jobs, b)
              /\ InCache(cache', b) <=> InCache(cache, b)
              /\ disk'[b] = disk[b]
  BY <1>7, <1>9, <1>11, <1>13
<1>19. \A x \in Piece : /\ JobOn(r, x) => JobOn(jobs, x)
                        /\ HashJob(jobs, x) <=> HashJob(r, x) \/ (c.op = "hash" /\ c.piece = x)
  BY <1>7, <1>9
<1>20. c.op = "hash" => /\ JobOn(jobs, c.piece)
                        /\ ~JobOn(r, c.piece) /\ ~CacheOn(cache', c.piece)
  BY <1>7, <1>9, <1>12
<1>21. c.op = "hash" /\ c.verdict = "passed" => \A b \in Block : PieceOf(b) = c.piece => disk'[b]
  BY <1>9, <1>15
<1>22. c.op = "hash" => c.verdict \in Verdicts  BY <1>2, <1>9
<1>23. Agree(r, cache', Append(done, c), picker, disk') /\ Untouched(picker, disk, disk')
  BY <1>5, <1>9, <1>14, <1>16, <1>17, <1>18, <1>19, <1>20, <1>21, <1>22, PostAgree
<1>24. picker' = picker  BY <1>3 DEF netVars
<1> QED  BY <1>3, <1>10, <1>23, <1>24 DEF Now

-----------------------------------------------------------------------------
(* Completions, and every step. *)

\* The inductive invariant.
DiskInv == TypeOK /\ Sound(Net) /\ Now

\* The network thread is where its handler ended.
LEMMA BecomeNet ==
    ASSUME NEW t, Sound(t), Become(t)
    PROVE  Net' = t /\ picker' = t.picker
<1>1. t \in NetType  BY DEF Sound, Fine
<1>2. t = [conn |-> t.conn, choked |-> t.choked, parole |-> t.parole, queue |-> t.queue,
           receiving |-> t.receiving, picker |-> t.picker, upload_mode |-> t.upload_mode]
  BY <1>1 DEF NetType
<1> QED  BY <1>2 DEF Become, Net

\* Every block of p has been written, or is one that the completion at hand wrote.
Written(p) ==
    \A b \in BlocksIn(p) : \/ picker.info[b].state = "finished"
                           \/ /\ picker.info[b].state = "writing"
                              /\ Head(done).ret = "ok"
                              /\ \E w \in Head(done).ws : w.block = b

\* Piece p becomes ours.
Gains(p) ==
    /\ p \notin picker.have /\ picker'.have = picker.have \cup {p}
    /\ \A b \in BlocksIn(p) : disk[b]
    /\ Written(p)

\* The blocks of the completion at hand are being written.
LEMMA HeadWriting ==
    ASSUME DiskInv, done # <<>>
    PROVE  /\ Head(done) \in Completion /\ Head(done).ws \in SUBSET Write
           /\ \A w \in Head(done).ws : picker.info[w.block].state = "writing"
           /\ Head(done).ret = "ok"
           /\ Head(done).op = "hash" => Head(done).verdict \in Verdicts
<1>1. DoneFine(done) /\ Owed(jobs, cache, done, picker)  BY DEF DiskInv, Now, Agree
<1>2. /\ Head(done) \in Completion /\ Head(done).ret = "ok"
      /\ Head(done).op = "hash" => Head(done).verdict \in Verdicts
      /\ \A b : (\E w \in Head(done).ws : w.block = b) => InDone(done, b)
  BY <1>1, TailDone
<1>3. Head(done).ws \in SUBSET Write  BY <1>2, CompletionFields
<1>4. ASSUME NEW w \in Head(done).ws  PROVE picker.info[w.block].state = "writing"
  <2>1. w.block \in Block  BY <1>3, WriteFields
  <2> QED  BY <1>1, <1>2, <2>1 DEF Owed
<1> QED  BY <1>2, <1>3, <1>4

\* The callbacks of a flush.
LEMMA CompleteWriteAgrees ==
    ASSUME DiskInv, CompleteWrite
    PROVE  Sound(Net') /\ Now' /\ picker'.have = picker.have /\ disk' = disk
<1> DEFINE c == Head(done)
           t == OnWritten(Net, c.ws, "ok")
<1>1. /\ done # <<>> /\ c.op = "write" /\ done' = Tail(done) /\ jobs' = jobs
      /\ cache' = cache /\ disk' = disk /\ Become(OnWritten(Net, c.ws, c.ret))
  BY DEF CompleteWrite, diskVars
<1>2. /\ c.ws \in SUBSET Write /\ c.ret = "ok"
      /\ \A w \in c.ws : picker.info[w.block].state = "writing"
  BY <1>1, HeadWriting
<1>3. Sound(Net) /\ Net.picker = picker  BY DEF DiskInv, Net
<1>4. Sound(t) /\ Lands(picker, t.picker, {w.block : w \in c.ws})
  <2>1. \A w \in c.ws : Net.picker.info[w.block].state = "writing"  BY <1>2, <1>3
  <2> HIDE DEF c
  <2> QED  BY <1>2, <1>3, <2>1, OnWrittenMoves
<1>5. Become(t)  BY <1>1, <1>2
<1> HIDE DEF t
<1>6. Net' = t /\ picker' = t.picker  BY <1>4, <1>5, BecomeNet
<1>7. Books(picker) /\ Books(t.picker)  BY <1>3, <1>4 DEF Sound
<1>8. Agree(jobs, cache, done, picker, disk)  BY DEF DiskInv, Now
<1>9. Agree(jobs, cache, Tail(done), t.picker, disk)  BY <1>1, <1>4, <1>7, <1>8, LandsAgree
<1>10. t.picker.have = picker.have  BY <1>4 DEF Lands
<1> QED  BY <1>1, <1>4, <1>6, <1>9, <1>10 DEF Now

\* When the hash of a piece is reported, each of its blocks has been written.
LEMMA HashedIsWritten ==
    ASSUME DiskInv, done # <<>>, Head(done).op = "hash"
    PROVE  IsPieceFinished(picker, Head(done).piece) /\ Written(Head(done).piece)
<1> DEFINE c == Head(done)
           p == c.piece
<1>1. DoneFine(done) /\ Now  BY DEF DiskInv, Now, Agree
<1>2. /\ c \in Completion /\ c.ret = "ok" /\ c.verdict \in Verdicts
      /\ \A b : InDone(done, b) <=> (\E w \in c.ws : w.block = b) \/ InDone(Tail(done), b)
      /\ HashDone(done, p, Verdicts)
      /\ \A b : InDone(Tail(done), b) => PieceOf(b) # p
  BY <1>1, TailDone
<1>3. p \in Piece  BY <1>2, CompletionFields
<1>4. Books(picker)  BY DEF DiskInv, Sound, Net
<1> HIDE DEF c, p
<1>5. IsPieceFinished(picker, p)  BY <1>1, <1>2, <1>3 DEF Now, Agree, Hashed
<1>6. ASSUME NEW b \in BlocksIn(p), picker.info[b].state # "finished"
      PROVE  picker.info[b].state = "writing" /\ \E w \in c.ws : w.block = b
  <2>1. b \in Block /\ PieceOf(b) = p  BY <1>3 DEF BlocksIn, Block, PieceOf
  <2>2. picker.info[b].state = "writing"  BY <1>3, <1>4, <1>5, <1>6, <2>1, FinishedMeans
  <2>3. InJobs(jobs, b) \/ InCache(cache, b) \/ InDone(done, b)
    BY <1>1, <2>1, <2>2 DEF Now, Agree, Owed
  <2>4. ~JobOn(jobs, p) /\ ~CacheOn(cache, p)  BY <1>1, <1>2, <1>3 DEF Now, Agree, Settled
  <2>5. ~InJobs(jobs, b) /\ ~InCache(cache, b)
    BY <2>1, <2>4 DEF InJobs, InCache, JobOn, CacheOn, JobPiece
  <2> QED  BY <1>2, <2>1, <2>2, <2>3, <2>5
<1> QED  BY <1>2, <1>5, <1>6 DEF Written, c, p

\* on_piece_verified, after the callbacks of the same job.
LEMMA CompleteHashAgrees ==
    ASSUME DiskInv, CompleteHash
    PROVE  /\ Sound(Net') /\ Now' /\ disk' = disk
           /\ picker'.have = picker.have \/ \E p \in Piece : Gains(p)
<1> DEFINE c == Head(done)
           p == c.piece
           s == OnWritten(Net, c.ws, "ok")
<1>1. /\ done # <<>> /\ c.op = "hash" /\ done' = Tail(done) /\ jobs' = jobs
      /\ cache' = cache /\ disk' = disk
  BY DEF CompleteHash, diskVars
<1>2. /\ c \in Completion /\ c.ws \in SUBSET Write /\ c.ret = "ok" /\ c.verdict \in Verdicts
      /\ \A w \in c.ws : picker.info[w.block].state = "writing"
  BY <1>1, HeadWriting
<1>3. p \in Piece /\ c.verdict \notin DiskError  BY <1>1, <1>2, CompletionFields DEF Verdicts, DiskError
<1>4. PieceFinished(s, p, c.verdict)
  <2>1. PieceFinished(IF c.verdict \in DiskError
                      THEN HandleDiskError(OnWritten(Net, c.ws, c.ret), c.verdict, {})
                      ELSE OnWritten(Net, c.ws, c.ret), p, c.verdict)
    BY Zenon DEF CompleteHash
  <2> QED  BY <1>2, <1>3, <2>1
<1>5. IsPieceFinished(picker, p) /\ Written(p)  BY <1>1, HashedIsWritten
<1>6. Sound(Net) /\ Net.picker = picker  BY DEF DiskInv, Net
<1> DEFINE bs == {w.block : w \in c.ws}
<1>7. Sound(s) /\ Lands(picker, s.picker, bs)
  <2>1. \A w \in c.ws : Net.picker.info[w.block].state = "writing"  BY <1>2, <1>6
  <2> HIDE DEF c
  <2> QED  BY <1>2, <1>6, <2>1, OnWrittenMoves
<1>8. \A b \in bs : picker.info[b].state = "writing"  BY <1>2
<1>9. Books(picker) /\ Books(s.picker) /\ Closed(s.picker)  BY <1>6, <1>7 DEF Sound, Fine
<1> HIDE DEF s
<1>10. IsPieceFinished(s.picker, p)
  <2> HIDE DEF bs, p
  <2> QED  BY <1>3, <1>5, <1>7, <1>8, <1>9, LandsFinished
<1>11. p \notin s.picker.have /\ s.picker.have = picker.have
  <2> HIDE DEF p, bs
  <2>1. PICK i \in Index : TRUE  BY BlockAssumption
  <2>2. <<p, i>> \in Block /\ PieceOf(<<p, i>>) = p  BY <1>3 DEF Block, PieceOf
  <2>3. s.picker.info[<<p, i>>].state \in {"writing", "finished"}
    BY <1>3, <1>9, <1>10, <2>2, FinishedMeans
  <2> QED  BY <1>7, <1>9, <2>2, <2>3 DEF Closed, Lands
<1>12. ~IsSeed(s)  BY <1>3, <1>11 DEF IsSeed
<1>13. Agree(jobs, cache, done, picker, disk)  BY DEF DiskInv, Now
<1>14. CASE c.verdict = "passed"
  <2> DEFINE t == PiecePassed(s, p)
  <2>1. Become(t)  BY <1>4, <1>10, <1>12, <1>14 DEF PieceFinished
  <2>2. Sound(t) /\ Clears(s.picker, t.picker, p, {p})  BY <1>3, <1>7, PiecePassedMoves
  <2> HIDE DEF t
  <2>3. Net' = t /\ picker' = t.picker  BY <2>1, <2>2, BecomeNet
  <2>4. Books(t.picker)  BY <2>2 DEF Sound
  <2>5. Agree(jobs, cache, Tail(done), t.picker, disk)
    <3>1. {p} \in SUBSET {c.piece}  OBVIOUS
    <3> QED  BY <1>1, <1>7, <1>9, <1>13, <1>14, <2>2, <2>4, <3>1, ClearsAgree
  <2>6. Gains(p)
    <3>1. HashDone(done, p, {"passed"})
      <4>1. DoneFine(done)  BY <1>13 DEF Agree
      <4> QED  BY <1>1, <1>14, <4>1, TailDone
    <3>2. \A b \in BlocksIn(p) : disk[b]
      <4> HIDE DEF p
      <4> QED  BY <1>3, <1>13, <3>1 DEF Agree, Stored, BlocksIn, Block, PieceOf
    <3> QED  BY <1>5, <1>11, <2>2, <2>3, <3>2 DEF Gains, Clears
  <2> QED  BY <1>1, <1>3, <2>2, <2>3, <2>5, <2>6 DEF Now
<1>15. CASE c.verdict = "failed"
  <2>1. PICK ban \in Bans(s, p) : Become(PieceFailed(s, p, ban))
    BY <1>4, <1>10, <1>12, <1>15 DEF PieceFinished
  <2> DEFINE t == PieceFailed(s, p, ban)
  <2>2. Sound(t) /\ Clears(s.picker, t.picker, p, {})  BY <1>3, <1>7, <1>11, PieceFailedMoves
  <2>0. Become(t)  BY <2>1
  <2> HIDE DEF t
  <2>3. Net' = t /\ picker' = t.picker  BY <2>0, <2>2, BecomeNet
  <2>4. Books(t.picker)  BY <2>2 DEF Sound
  <2>5. Agree(jobs, cache, Tail(done), t.picker, disk)
    <3>1. {} \in SUBSET {c.piece}  OBVIOUS
    <3> QED  BY <1>1, <1>7, <1>9, <1>13, <2>2, <2>4, <3>1, ClearsAgree
  <2>6. picker'.have = picker.have  BY <1>11, <2>2, <2>3 DEF Clears
  <2> QED  BY <1>1, <2>2, <2>3, <2>5, <2>6 DEF Now
<1> QED  BY <1>2, <1>14, <1>15 DEF Verdicts

\* The disk thread takes a step.
LEMMA DiskAgrees ==
    ASSUME PossibleErrors = {}, DiskInv, TypeOK', DiskStep \/ \E p \in Piece : DiskFlush(p)
    PROVE  Sound(Net') /\ Now' /\ Untouched(picker, disk, disk') /\ picker' = picker
<1>1. TypeOK /\ Now /\ Sound(Net) /\ Closed(picker)  BY DEF DiskInv, Sound, Fine, Net
<1>2. Now' /\ Untouched(picker, disk, disk') /\ UNCHANGED netVars
  <2>1. CASE DiskWriteDirect  BY <1>1, <2>1, DirectAgrees
  <2>2. CASE DiskWrite  BY <1>1, <2>2, CacheAgrees
  <2>3. CASE DiskHash  BY <1>1, <2>3, HashAgrees
  <2>4. CASE \E p \in Piece : DiskFlush(p)  BY <1>1, <2>4, FlushAgrees
  <2> QED  BY <2>1, <2>2, <2>3, <2>4 DEF DiskStep, DiskWriteJob
<1>3. Net' = Net /\ picker' = picker  BY <1>2 DEF netVars, Net
<1> QED  BY <1>1, <1>2, <1>3

\* A handler of the network thread, other than a completion, runs.
LEMMA HandlerAgrees ==
    ASSUME DiskInv, (\E p \in Peer : PeerStep(p)) \/ SetUploadMode
    PROVE  Sound(Net') /\ Now' /\ disk' = disk /\ picker'.have = picker.have
<1>1. Sound(Net) /\ jobs \in Seq(Job) /\ Net.picker = picker  BY DEF DiskInv, TypeOK, Net
<1>2. /\ UNCHANGED <<diskVars, done>>
      /\ \/ Ends(Net) /\ UNCHANGED jobs
         \/ \E p \in Peer, b \in Block, good \in BOOLEAN : Takes(p, b, good)
  BY <1>1, HandlerMoves
<1>3. cache' = cache /\ disk' = disk /\ done' = done  BY <1>2 DEF diskVars
<1>4. Agree(jobs, cache, done, picker, disk) /\ Books(picker)  BY <1>1 DEF DiskInv, Now, Sound
<1>5. CASE Ends(Net) /\ UNCHANGED jobs
  <2>1. PICK t : Become(t) /\ Moves(Net, t)  BY <1>5 DEF Ends
  <2>2. Sound(t) /\ Stays(picker, t.picker) /\ Books(t.picker)  BY <1>1, <2>1 DEF Moves, Sound
  <2>3. Net' = t /\ picker' = t.picker  BY <2>1, <2>2, BecomeNet
  <2>4. Agree(jobs, cache, done, t.picker, disk)  BY <1>4, <2>2, StaysAgree
  <2>5. picker'.have = picker.have  BY <2>2, <2>3 DEF Stays
  <2> QED  BY <1>3, <1>5, <2>2, <2>3, <2>4, <2>5 DEF Now
<1>6. CASE \E p \in Peer, b \in Block, good \in BOOLEAN : Takes(p, b, good)
  <2>1. PICK p \in Peer, b \in Block, good \in BOOLEAN : Takes(p, b, good)  BY <1>6
  <2>2. PICK t : /\ Become(t) /\ Sound(t) /\ ~IsDownloaded(picker, b)
                 /\ Arrives(picker, t.picker, b)
                 /\ jobs' = jobs \o NewJobs(t.picker, p, b, good)
    BY <2>1 DEF Takes
  <2>3. Books(t.picker)  BY <2>2 DEF Sound
  <2>4. Net' = t /\ picker' = t.picker  BY <2>2, BecomeNet
  <2>5. Agree(jobs \o NewJobs(t.picker, p, b, good), cache, done, t.picker, disk)
    BY <1>4, <2>2, <2>3, TakesAgree
  <2>6. picker'.have = picker.have  BY <2>2, <2>4 DEF Arrives
  <2> QED  BY <1>3, <2>2, <2>4, <2>5, <2>6 DEF Now
<1> QED  BY <1>2, <1>5, <1>6

\* What every step shows: only the files of missing pieces change, and a piece is
\* gained when its blocks are right and written.
Honest ==
    /\ Untouched(picker, disk, disk')
    /\ \/ picker'.have = picker.have
       \/ disk' = disk /\ \E p \in Piece : Gains(p)

LEMMA NextAgrees ==
    ASSUME PossibleErrors = {}, DiskInv, [Next]_vars
    PROVE  DiskInv' /\ Honest
<1>1. TypeOK'  BY NextOK DEF DiskInv
<1>2. disk' = disk => Untouched(picker, disk, disk')  BY DEF Untouched
<1>3. CASE (\E p \in Peer : PeerStep(p)) \/ SetUploadMode
  BY <1>1, <1>2, <1>3, HandlerAgrees DEF DiskInv, Honest
<1>4. CASE DiskStep \/ \E p \in Piece : DiskFlush(p)
  BY <1>1, <1>4, DiskAgrees DEF DiskInv, Honest
<1>5. CASE CompleteWrite
  BY <1>1, <1>2, <1>5, CompleteWriteAgrees DEF DiskInv, Honest
<1>6. CASE CompleteHash
  BY <1>1, <1>2, <1>6, CompleteHashAgrees DEF DiskInv, Honest
<1>7. CASE UNCHANGED vars
  <2>1. /\ Net' = Net /\ picker' = picker /\ jobs' = jobs /\ cache' = cache
        /\ done' = done /\ disk' = disk
    BY <1>7 DEF vars, netVars, diskVars, Net
  <2> QED  BY <1>1, <1>2, <2>1 DEF DiskInv, Now, Honest
<1> QED  BY <1>3, <1>4, <1>5, <1>6, <1>7 DEF Next, CompletionStep

\* The books of an empty picker are right.
LEMMA EmptyBooks == Books(EmptyPicker)
<1>1. EmptyPicker \in Picker  BY EmptyType
<1>2. \A b \in Block : EmptyPicker.info[b] = FreshInfo  BY DEF EmptyPicker
<1>3. \A b \in Block : EmptyPicker.info[b].state = "none" /\ EmptyPicker.info[b].num_peers = 0
  BY <1>2 DEF FreshInfo
<1>4. ASSUME NEW st \in {"requested", "writing", "finished"}, NEW p
      PROVE  In(StateIn(EmptyPicker, st), p) = 0
  <2>1. StateIn(EmptyPicker, st) = {}  BY <1>3 DEF StateIn
  <2>2. {b \in {} : PieceOf(b) = p} = {}  OBVIOUS
  <2> QED  BY <2>1, <2>2, FS_EmptySet DEF In
<1>5. CntRight(EmptyPicker)
  <2>1. \A p \in Piece : EmptyPicker.cnt[p] = ZeroCount  BY DEF EmptyPicker
  <2> QED  BY <1>4, <2>1 DEF CntRight, ZeroCount
<1>6. OpenRight(EmptyPicker)
  <2>1. EmptyPicker.downloading = {}  BY DEF EmptyPicker
  <2> QED  BY <1>3, <2>1 DEF OpenRight, Touched
<1>7. NumRight(EmptyPicker)  BY <1>3 DEF NumRight
<1> QED  BY <1>1, <1>5, <1>6, <1>7 DEF Books

LEMMA InitAgrees == Init => DiskInv
<1> SUFFICES ASSUME Init  PROVE DiskInv
  OBVIOUS
<1>1. TypeOK  BY InitOK
<1>2. /\ picker = EmptyPicker /\ jobs = <<>> /\ done = <<>> /\ cache = {}
      /\ queue = [p \in Peer |-> [b \in Block |-> "idle"]]
  BY DEF Init
<1>3. picker.have = {} /\ picker.downloading = {}  BY <1>2 DEF EmptyPicker
<1>4. \A b \in Block : picker.info[b].state = "none" /\ picker.info[b].num_peers = 0
  BY <1>2 DEF EmptyPicker, FreshInfo
<1>5. Net.picker = picker /\ Net.queue = queue  BY DEF Net
<1>6. Fine(Net)
  <2>1. Net \in NetType  BY <1>1, TypeHalves DEF NetOK
  <2> QED  BY <1>3, <1>5, <2>1 DEF Fine, Closed
<1>7. \A p \in Peer, b \in Block : Net.queue[p][b] = "idle"  BY <1>2, <1>5
<1>8. ReqRight(Net)
  <2>1. \A b \in Block : Askers(Net, b) = {}  BY <1>7 DEF Askers, Counted
  <2> QED  BY <1>4, <1>5, <2>1, FS_EmptySet DEF ReqRight
<1>9. IdleDown(Net)  BY <1>7 DEF IdleDown
<1>10. Sound(Net)  BY <1>2, <1>5, <1>6, <1>8, <1>9, EmptyBooks DEF Sound
<1>11. DOMAIN jobs = {} /\ DOMAIN done = {}  BY <1>2
<1>12. /\ \A b : ~InJobs(jobs, b) /\ ~InCache(cache, b) /\ ~InDone(done, b)
       /\ \A p : ~HashJob(jobs, p) /\ ~JobOn(jobs, p)
       /\ \A p, V : ~HashDone(done, p, V)
  BY <1>2, <1>11 DEF InJobs, InCache, InDone, HashJob, JobOn, HashDone
<1>13. JobsFine(jobs) /\ DoneFine(done)  BY <1>1, <1>11 DEF JobsFine, DoneFine, TypeOK
<1>14. Apart(jobs, cache, done)  BY <1>2, <1>12 DEF Apart
<1>15. Owed(jobs, cache, done, picker)  BY <1>4, <1>12 DEF Owed
<1>16. Hashed(jobs, done, picker)  BY <1>3, <1>12 DEF Hashed, IsPieceFinished
<1>17. Settled(jobs, cache, done)  BY <1>12 DEF Settled
<1>18. Stored(done, picker, disk)  BY <1>3, <1>12 DEF Stored
<1>19. Now  BY <1>1, <1>13, <1>14, <1>15, <1>16, <1>17, <1>18 DEF Now, Agree, TypeOK
<1> QED  BY <1>1, <1>10, <1>19 DEF DiskInv

-----------------------------------------------------------------------------
(* Theorems. *)

\* DiskInv is an invariant while no disk operation fails.
LEMMA DiskInvariant ==
    ASSUME PossibleErrors = {}
    PROVE  Spec => []DiskInv
<1>1. Init => DiskInv  BY InitAgrees
<1>2. DiskInv /\ [Next]_vars => DiskInv'  BY NextAgrees
<1> QED  BY <1>1, <1>2, PTL DEF Spec

\* What is in BooksAgree.
LEMMA SoundBooks == Sound(Net) => BooksAgree
<1> SUFFICES ASSUME Sound(Net)  PROVE BooksAgree
  OBVIOUS
<1>1. Net.picker = picker /\ Net.queue = queue  BY DEF Net
<1>2. Books(picker) /\ ReqRight(Net)  BY <1>1 DEF Sound
<1>3. RequestsCounted
  <2>1. \A b \in Block : {p \in Peer : b \in Wanted(Net, p)} = Askers(Net, b)
    BY DEF Wanted, InQueue, Askers
  <2> QED  BY <1>1, <1>2, <2>1 DEF RequestsCounted, ReqRight
<1>4. ASSUME NEW p \in Piece
      PROVE  LET in(st) == Cardinality({b \in BlocksIn(p) : picker.info[b].state = st})
             IN /\ picker.cnt[p] = [requested |-> in("requested"), writing |-> in("writing"),
                                    finished |-> in("finished")]
                /\ p \in picker.downloading <=> Active(picker.cnt[p]) > 0
  <2> DEFINE in(st) == Cardinality({b \in BlocksIn(p) : picker.info[b].state = st})
  <2>1. ASSUME NEW st  PROVE in(st) = In(StateIn(picker, st), p)
    <3>1. {b \in BlocksIn(p) : picker.info[b].state = st} = {b \in StateIn(picker, st) : PieceOf(b) = p}
      BY DEF BlocksIn, Block, PieceOf, StateIn
    <3> QED  BY <3>1 DEF In
  <2> HIDE DEF in
  <2>2. picker.cnt[p] \in Counters  BY <1>2 DEF Books, Picker
  <2>3. picker.cnt[p] = [requested |-> picker.cnt[p].requested, writing |-> picker.cnt[p].writing,
                         finished |-> picker.cnt[p].finished]
    BY <2>2 DEF Counters
  <2>4. /\ picker.cnt[p].requested = in("requested") /\ picker.cnt[p].writing = in("writing")
        /\ picker.cnt[p].finished = in("finished")
    BY <1>2, <2>1 DEF Books, CntRight
  <2>5. picker.cnt[p] = [requested |-> in("requested"), writing |-> in("writing"),
                         finished |-> in("finished")]
    BY <2>3, <2>4
  <2>6. Active(picker.cnt[p]) \in Nat /\ (Active(picker.cnt[p]) = 0 <=> ~Touched(picker, p))
    BY <1>2, ActiveMeans DEF Books
  <2>7. p \in picker.downloading <=> Active(picker.cnt[p]) > 0
    <3>1. p \in picker.downloading <=> Touched(picker, p)  BY <1>2 DEF Books, OpenRight
    <3> HIDE DEF Active
    <3> QED  BY <2>6, <3>1
  <2> QED  BY <2>5, <2>7 DEF in
<1>5. \A b \in Block : picker.info[b].state = "requested" <=> picker.info[b].num_peers > 0
  BY <1>2 DEF Books, NumRight
<1> QED  BY <1>3, <1>4, <1>5 DEF BooksAgree, PickerConsistent

\* The books of the picker agree with the request queues of all connections, for
\* any numbers of peers, pieces and blocks: chokes, rejects, time-outs, cancels,
\* lost peers and failed pieces never make a block look free that somebody was
\* asked for, or asked for when nobody was.  (A disk error does: write_failed
\* makes a block free that is still outstanding at a peer.)
THEOREM BooksTheorem ==
    ASSUME PossibleErrors = {}
    PROVE  Spec => []BooksAgree
<1>1. Spec => []DiskInv  BY DiskInvariant
<1>2. DiskInv => BooksAgree  BY SoundBooks DEF DiskInv
<1> QED  BY <1>1, <1>2, PTL

\* Each step of the two threads is one of VerifiedStore, or none.
LEMMA StepKeepsPromise ==
    ASSUME TypeOK', Honest
    PROVE  [Promise!Next]_(Promise!vars)
<1>1. Promise!Block = Block  BY DEF Promise!Block, Block
<1>2. CASE picker'.have = picker.have
  <2>1. disk' \in [Promise!Block -> BOOLEAN]  BY <1>1 DEF TypeOK
  <2>2. \A b \in Promise!Block : b[1] \in picker.have => disk'[b] = disk[b]
    BY <1>1 DEF Honest, Untouched, PieceOf
  <2>3. Promise!Store  BY <1>2, <2>1, <2>2 DEF Promise!Store
  <2> QED  BY <2>3 DEF Promise!Next
<1>3. CASE disk' = disk /\ \E p \in Piece : Gains(p)
  <2>1. PICK p \in Piece : Gains(p)  BY <1>3
  <2>2. \A i \in Index : disk[<<p, i>>]  BY <2>1 DEF Gains, BlocksIn
  <2>3. Promise!Verify(p)  BY <1>3, <2>1, <2>2 DEF Promise!Verify, Gains
  <2> QED  BY <2>3 DEF Promise!Next
<1> QED  BY <1>2, <1>3 DEF Honest

\* The download path implements VerifiedStore, for any numbers of peers, pieces
\* and blocks: requests, late and repeated blocks, the write cache and the two
\* queues between the threads never make a piece ours whose blocks are not all
\* right on disk, nor write to one that is.
THEOREM PromiseTheorem ==
    ASSUME PossibleErrors = {}
    PROVE  Spec => KeepsPromise
<1>1. Init => Promise!Init
  <2> SUFFICES ASSUME Init  PROVE Promise!Init
    OBVIOUS
  <2>1. picker.have = {}  BY DEF Init, EmptyPicker
  <2>2. disk \in [Promise!Block -> BOOLEAN]  BY DEF Init, Promise!Block, Block
  <2> QED  BY <2>1, <2>2 DEF Promise!Init
<1>2. DiskInv /\ [Next]_vars => [Promise!Next]_(Promise!vars)
  <2> SUFFICES ASSUME DiskInv, [Next]_vars  PROVE [Promise!Next]_(Promise!vars)
    OBVIOUS
  <2>1. DiskInv' /\ Honest  BY NextAgrees
  <2> QED  BY <2>1, StepKeepsPromise DEF DiskInv
<1>3. Spec => []DiskInv  BY DiskInvariant
<1> QED  BY <1>1, <1>2, <1>3, PTL DEF Spec, KeepsPromise, Promise!Spec

\* HaveIsRight with what a step of VerifiedStore needs to know of the pieces.
RightInv == picker.have \subseteq Piece /\ Promise!HaveIsRight

\* The promise in one sentence, of VerifiedStore alone: a piece that was
\* announced can be served.  Neither a write to a missing piece nor a verdict
\* on one changes that.
THEOREM StoreIsRight == Promise!Spec => []Promise!HaveIsRight
<1>1. Promise!Init => RightInv  BY DEF Promise!Init, RightInv, Promise!HaveIsRight
<1>2. RightInv /\ [Promise!Next]_(Promise!vars) => RightInv'
  <2> SUFFICES ASSUME RightInv, [Promise!Next]_(Promise!vars)  PROVE RightInv'
    OBVIOUS
  <2>1. CASE Promise!Store
    <3>1. ASSUME NEW p \in picker.have, NEW i \in Index  PROVE disk'[<<p, i>>]
      <4>1. <<p, i>> \in Promise!Block /\ <<p, i>>[1] = p  BY DEF Promise!Block, RightInv
      <4> QED  BY <2>1, <4>1 DEF Promise!Store, RightInv, Promise!HaveIsRight
    <3> QED  BY <2>1, <3>1 DEF Promise!Store, RightInv, Promise!HaveIsRight
  <2>2. CASE \E q \in Piece : Promise!Verify(q)
    BY <2>2 DEF Promise!Verify, RightInv, Promise!HaveIsRight
  <2>3. CASE UNCHANGED Promise!vars
    BY <2>3 DEF Promise!vars, RightInv, Promise!HaveIsRight
  <2> QED  BY <2>1, <2>2, <2>3 DEF Promise!Next
<1>3. RightInv => Promise!HaveIsRight  BY DEF RightInv
<1> QED  BY <1>1, <1>2, <1>3, PTL DEF Promise!Spec

\* A piece that is ours can be read from the files: whoever trusts the bitfield
\* gets the right bytes.
THEOREM HaveIsOnDisk ==
    ASSUME PossibleErrors = {}
    PROVE  Spec => []Promise!HaveIsRight
<1>1. Spec => Promise!Spec  BY PromiseTheorem DEF KeepsPromise
<1> QED  BY <1>1, StoreIsRight, PTL

\* piece_passed makes a piece ours only when every block of it was written, each
\* of them now or before: the hash job, the cache and the callbacks are never out
\* of step.
THEOREM WrittenTheorem ==
    ASSUME PossibleErrors = {}
    PROVE  Spec => PassedIsWritten
<1>1. DiskInv /\ [Next]_vars =>
        [\A p \in picker'.have \ picker.have :
          \A b \in BlocksIn(p) : \/ picker.info[b].state = "finished"
                                 \/ /\ picker.info[b].state = "writing"
                                    /\ Head(done).ret = "ok"
                                    /\ \E w \in Head(done).ws : w.block = b]_vars
  <2> SUFFICES ASSUME DiskInv, [Next]_vars, NEW p \in picker'.have \ picker.have
               PROVE  Written(p)
    BY DEF Written
  <2>1. Honest  BY NextAgrees
  <2>2. PICK q \in Piece : Gains(q)  BY <2>1 DEF Honest
  <2>3. p = q  BY <2>2 DEF Gains
  <2> QED  BY <2>2, <2>3 DEF Gains
<1>2. Spec => []DiskInv  BY DiskInvariant
<1> QED  BY <1>1, <1>2, PTL DEF Spec, PassedIsWritten

\* Nothing waits for what does not come: a hash job, or its result, is on its
\* way for each piece that is complete.
THEOREM PendingTheorem ==
    ASSUME PossibleErrors = {}
    PROVE  Spec => []FinishedIsVerified
<1>1. ASSUME DiskInv  PROVE FinishedIsVerified
  <2>1. \A p \in Piece : IsPieceFinished(picker, p) => HashJob(jobs, p) \/ HashDone(done, p, Verdicts)
    BY <1>1 DEF DiskInv, Now, Agree, Hashed
  <2> QED  BY <2>1 DEF FinishedIsVerified, HashPending, HashJob, HashDone
<1>2. Spec => []DiskInv  BY DiskInvariant
<1> QED  BY <1>1, <1>2, PTL
=============================================================================
