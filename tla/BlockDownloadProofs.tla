------------------------- MODULE BlockDownloadProofs -------------------------
(***************************************************************************)
(* What the operations of the piece picker return for any picker, and type *)
(* correctness of the download path, for any number of peers, pieces,      *)
(* blocks and disk errors: whatever the interleaving of the two threads,   *)
(* every handler of the network thread leaves queues and a picker the next *)
(* one can work on; a piece that passed its hash check stays ours and      *)
(* closed; and no block waits for a write that is not to come.             *)
(***************************************************************************)
EXTENDS BlockDownload, FiniteSetTheorems, TLAPS

-----------------------------------------------------------------------------
(* Sets of blocks and of peers are finite, so they have a size. *)

\* A torrent has finitely many blocks.
LEMMA BlockFinite == IsFiniteSet(Block)
  BY BlockAssumption, FS_Product DEF Block

\* The size of a set of blocks is a natural number.
LEMMA BlockCount ==
    ASSUME NEW S \in SUBSET Block
    PROVE  Cardinality(S) \in Nat
  BY BlockFinite, FS_Subset, FS_CardinalityType

\* The size of a set of peers is a natural number.
LEMMA PeerCount ==
    ASSUME NEW S \in SUBSET Peer
    PROVE  Cardinality(S) \in Nat
  BY PeerAssumption, FS_Subset, FS_CardinalityType

\* Counting the blocks of a piece gives a natural number.
LEMMA InType ==
    ASSUME NEW S \in SUBSET Block, NEW p
    PROVE  In(S, p) \in Nat
  BY BlockCount DEF In

\* Blocks lie in pieces of the torrent.
LEMMA PiecesType ==
    ASSUME NEW S \in SUBSET Block
    PROVE  Pieces(S) \in SUBSET Piece
  BY DEF Pieces, PieceOf, Block

\* Adding integers to counters gives counters.
LEMMA AddType ==
    ASSUME NEW c \in Counters, NEW r \in Int, NEW w \in Int, NEW f \in Int
    PROVE  Add(c, r, w, f) \in Counters
  BY DEF Add, Counters

\* A block_info is made of a state, a peer and a number.
LEMMA InfoType ==
    ASSUME NEW st \in BlockState, NEW peer \in Peer \cup {NoPeer}, NEW n \in Int
    PROVE  [state |-> st, peer |-> peer, num_peers |-> n] \in BlockInfo
  BY DEF BlockInfo

\* ... and has them.
LEMMA InfoFields ==
    ASSUME NEW pk \in Picker, NEW b \in Block
    PROVE  /\ pk.info[b] \in BlockInfo
           /\ pk.info[b].state \in BlockState
           /\ pk.info[b].peer \in Peer \cup {NoPeer}
           /\ pk.info[b].num_peers \in Int
  BY DEF Picker, BlockInfo

\* A picker is made of its four parts.
LEMMA PickerIntro ==
    ASSUME NEW info \in [Block -> BlockInfo], NEW cnt \in [Piece -> Counters],
           NEW downloading \in SUBSET Piece, NEW have \in SUBSET Piece
    PROVE  [info |-> info, cnt |-> cnt, downloading |-> downloading, have |-> have] \in Picker
  BY DEF Picker

\* ... and has them.
LEMMA PickerFields ==
    ASSUME NEW pk \in Picker
    PROVE  /\ pk.info \in [Block -> BlockInfo]
           /\ pk.cnt \in [Piece -> Counters]
           /\ pk.downloading \in SUBSET Piece
           /\ pk.have \in SUBSET Piece
  BY DEF Picker

\* A new entry is well formed.
LEMMA FreshType == FreshInfo \in BlockInfo /\ ZeroCount \in Counters
  BY DEF FreshInfo, ZeroCount, BlockInfo, BlockState, Counters

-----------------------------------------------------------------------------
(* Every operation maps pickers to pickers. *)

\* init() leaves a picker.
LEMMA EmptyType == EmptyPicker \in Picker
  BY FreshType, PickerIntro DEF EmptyPicker

\* erase_download_piece() leaves a picker.
LEMMA EraseType ==
    ASSUME NEW pk \in Picker, NEW ps
    PROVE  Erase(pk, ps) \in Picker
<1> DEFINE info == [b \in Block |-> IF PieceOf(b) \in ps THEN FreshInfo ELSE pk.info[b]]
           cnt == [p \in Piece |-> IF p \in ps THEN ZeroCount ELSE pk.cnt[p]]
<1>1. info \in [Block -> BlockInfo]  BY FreshType, PickerFields
<1>2. cnt \in [Piece -> Counters]  BY FreshType, PickerFields
<1> HIDE DEF info, cnt
<1>3. [info |-> info, cnt |-> cnt, downloading |-> pk.downloading \ ps,
       have |-> pk.have] \in Picker
  BY <1>1, <1>2, PickerFields, PickerIntro
<1> QED  BY <1>3 DEF Erase, info, cnt

\* So does dropping the entries without an active block.
LEMMA EraseIdleType ==
    ASSUME NEW pk \in Picker, NEW ps
    PROVE  EraseIdle(pk, ps) \in Picker
  BY EraseType DEF EraseIdle

\* mark_as_downloading() leaves a picker.
LEMMA MarkAsDownloadingType ==
    ASSUME NEW pk \in Picker, NEW from \in [Block -> SUBSET Peer]
    PROVE  MarkAsDownloading(pk, from) \in Picker
<1> DEFINE new == {b \in Block : /\ from[b] # {}
                                 /\ pk.info[b].state \in {"none", "requested"}}
           opened == {b \in new : pk.info[b].state = "none"}
           req(b) == [state     |-> "requested",
                      peer      |-> CHOOSE peer \in from[b] : TRUE,
                      num_peers |-> pk.info[b].num_peers + Cardinality(from[b])]
           info == [b \in Block |-> IF b \in new THEN req(b) ELSE pk.info[b]]
           cnt == [p \in Piece |-> Add(pk.cnt[p], In(opened, p), 0, 0)]
<1>1. info \in [Block -> BlockInfo]
  <2>1. ASSUME NEW b \in new  PROVE req(b) \in BlockInfo
    <3>1. (CHOOSE peer \in from[b] : TRUE) \in Peer  OBVIOUS
    <3>2. pk.info[b].num_peers + Cardinality(from[b]) \in Int
      BY PeerCount, InfoFields
    <3> QED  BY <3>1, <3>2, InfoType DEF BlockState
  <2> HIDE DEF req, new
  <2> QED  BY <2>1, PickerFields
<1>2. cnt \in [Piece -> Counters]  BY InType, AddType, PickerFields
<1>3. Pieces(new) \in SUBSET Piece  BY PiecesType
<1> HIDE DEF info, cnt, new
<1>4. [info |-> info, cnt |-> cnt, downloading |-> pk.downloading \cup Pieces(new),
       have |-> pk.have] \in Picker
  BY <1>1, <1>2, <1>3, PickerFields, PickerIntro
<1> QED  BY <1>4 DEF MarkAsDownloading, info, cnt, new

\* abort_download() leaves a picker.
LEMMA AbortDownloadType ==
    ASSUME NEW pk \in Picker, NEW from \in [Block -> SUBSET Peer]
    PROVE  AbortDownload(pk, from) \in Picker
<1> DEFINE hit == {b \in Block : from[b] # {} /\ pk.info[b].state = "requested"}
           freed == {b \in hit : pk.info[b].num_peers <= Cardinality(from[b])}
           fewer(i, ps) == [state     |-> i.state,
                            peer      |-> IF i.peer \in ps THEN NoPeer ELSE i.peer,
                            num_peers |-> i.num_peers - Cardinality(ps)]
           info == [b \in Block |->
                      IF b \in freed THEN FreshInfo
                      ELSE IF b \in hit THEN fewer(pk.info[b], from[b])
                      ELSE pk.info[b]]
           cnt == [p \in Piece |-> Add(pk.cnt[p], -In(freed, p), 0, 0)]
           next == [info |-> info, cnt |-> cnt, downloading |-> pk.downloading,
                    have |-> pk.have]
<1>1. info \in [Block -> BlockInfo]
  <2>1. ASSUME NEW b \in Block  PROVE fewer(pk.info[b], from[b]) \in BlockInfo
    <3>1. pk.info[b].num_peers - Cardinality(from[b]) \in Int
      BY PeerCount, InfoFields
    <3> QED  BY <3>1, InfoType, InfoFields
  <2> HIDE DEF fewer, hit, freed
  <2> QED  BY <2>1, PickerFields, FreshType
<1>2. cnt \in [Piece -> Counters]
  <2>1. ASSUME NEW p \in Piece  PROVE Add(pk.cnt[p], -In(freed, p), 0, 0) \in Counters
    <3>1. -In(freed, p) \in Int  BY InType
    <3> QED  BY <3>1, AddType, PickerFields
  <2> QED  BY <2>1
<1> HIDE DEF info, cnt
<1>3. next \in Picker  BY <1>1, <1>2, PickerFields, PickerIntro
<1> HIDE DEF next
<1>4. EraseIdle(next, Pieces(freed)) \in Picker  BY <1>3, EraseIdleType
<1> QED  BY <1>4 DEF AbortDownload, info, cnt, next

\* mark_as_writing() leaves a picker.
LEMMA MarkAsWritingType ==
    ASSUME NEW pk \in Picker, NEW b \in Block, NEW peer \in Peer
    PROVE  MarkAsWriting(pk, b, peer) \in Picker
<1> DEFINE p == PieceOf(b)
           was == pk.info[b].state
           info(st, n) == [state |-> st, peer |-> peer, num_peers |-> n]
           set(i, c, d) == [info |-> [pk.info EXCEPT ![b] = i],
                            cnt |-> [pk.cnt EXCEPT ![p] = c],
                            downloading |-> d, have |-> pk.have]
<1>1. p \in Piece  BY DEF PieceOf, Block
<1>2. ASSUME NEW i \in BlockInfo, NEW c \in Counters, NEW d \in SUBSET Piece
      PROVE  set(i, c, d) \in Picker
  <2>1. [pk.info EXCEPT ![b] = i] \in [Block -> BlockInfo]  BY PickerFields
  <2>2. [pk.cnt EXCEPT ![p] = c] \in [Piece -> Counters]  BY <1>1, PickerFields
  <2> QED  BY <2>1, <2>2, PickerFields, PickerIntro
<1>3. info(was, pk.info[b].num_peers) \in BlockInfo  BY InfoType, InfoFields
<1>4. info("writing", 0) \in BlockInfo  BY InfoType DEF BlockState
<1>5. Add(pk.cnt[p], IF was = "requested" THEN -1 ELSE 0, 1, 0) \in Counters
  BY <1>1, AddType, PickerFields
<1>6. pk.cnt[p] \in Counters /\ pk.downloading \in SUBSET Piece  BY <1>1, PickerFields
<1>7. set(info(was, pk.info[b].num_peers), pk.cnt[p], pk.downloading) \in Picker
  BY <1>2, <1>3, <1>6
<1>8. set(info("writing", 0), Add(pk.cnt[p], IF was = "requested" THEN -1 ELSE 0, 1, 0),
          pk.downloading \cup {p}) \in Picker
  <2>1. pk.downloading \cup {p} \in SUBSET Piece  BY <1>1, <1>6
  <2> QED  BY <1>2, <1>4, <1>5, <2>1
<1> QED  BY <1>7, <1>8 DEF MarkAsWriting

\* mark_as_finished() leaves a picker.
LEMMA MarkAsFinishedType ==
    ASSUME NEW pk \in Picker, NEW bs \in SUBSET Block,
           NEW who \in [bs -> Peer \cup {NoPeer}]
    PROVE  MarkAsFinished(pk, bs, who) \in Picker
<1> DEFINE new == {b \in bs : /\ PieceOf(b) \in pk.downloading \/ PieceOf(b) \notin pk.have
                              /\ pk.info[b].state # "finished"}
           written == {b \in new : pk.info[b].state = "writing"}
           fin(b) == [state |-> "finished", peer |-> who[b],
                      num_peers |-> pk.info[b].num_peers]
           info == [b \in Block |-> IF b \in new THEN fin(b) ELSE pk.info[b]]
           cnt == [p \in Piece |-> Add(pk.cnt[p], 0, -In(written, p), In(new, p))]
<1>1. info \in [Block -> BlockInfo]
  <2>1. ASSUME NEW b \in new  PROVE fin(b) \in BlockInfo
    <3>1. b \in Block /\ who[b] \in Peer \cup {NoPeer}  OBVIOUS
    <3> QED  BY <3>1, InfoType, InfoFields DEF BlockState
  <2> HIDE DEF fin, new
  <2> QED  BY <2>1, PickerFields
<1>2. cnt \in [Piece -> Counters]
  <2>1. ASSUME NEW p \in Piece
        PROVE  Add(pk.cnt[p], 0, -In(written, p), In(new, p)) \in Counters
    <3>1. -In(written, p) \in Int /\ In(new, p) \in Int  BY InType
    <3> QED  BY <3>1, AddType, PickerFields
  <2> QED  BY <2>1
<1>3. Pieces(new) \in SUBSET Piece  BY PiecesType
<1> HIDE DEF info, cnt, new
<1>4. [info |-> info, cnt |-> cnt, downloading |-> pk.downloading \cup Pieces(new),
       have |-> pk.have] \in Picker
  BY <1>1, <1>2, <1>3, PickerFields, PickerIntro
<1> QED  BY <1>4 DEF MarkAsFinished, info, cnt, new

\* write_failed() leaves a picker.
LEMMA WriteFailedType ==
    ASSUME NEW pk \in Picker, NEW bs \in SUBSET Block
    PROVE  WriteFailed(pk, bs) \in Picker
<1> DEFINE hit == {b \in bs : /\ PieceOf(b) \in pk.downloading
                              /\ pk.info[b].state # "finished"}
           lost == {b \in hit : pk.info[b].state = "writing"}
           free(b) == [state |-> "none", peer |-> NoPeer,
                       num_peers |-> pk.info[b].num_peers]
           info == [b \in Block |-> IF b \in hit THEN free(b) ELSE pk.info[b]]
           cnt == [p \in Piece |-> Add(pk.cnt[p], 0, -In(lost, p), 0)]
           next == [info |-> info, cnt |-> cnt, downloading |-> pk.downloading,
                    have |-> pk.have]
<1>1. info \in [Block -> BlockInfo]
  <2>1. ASSUME NEW b \in Block  PROVE free(b) \in BlockInfo
    BY InfoType, InfoFields DEF BlockState
  <2> HIDE DEF free, hit
  <2> QED  BY <2>1, PickerFields
<1>2. cnt \in [Piece -> Counters]
  <2>1. ASSUME NEW p \in Piece  PROVE Add(pk.cnt[p], 0, -In(lost, p), 0) \in Counters
    <3>1. -In(lost, p) \in Int  BY InType
    <3> QED  BY <3>1, AddType, PickerFields
  <2> QED  BY <2>1
<1> HIDE DEF info, cnt
<1>3. next \in Picker  BY <1>1, <1>2, PickerFields, PickerIntro
<1> HIDE DEF next
<1>4. EraseIdle(next, Pieces(hit)) \in Picker  BY <1>3, EraseIdleType
<1> QED  BY <1>4 DEF WriteFailed, info, cnt, next

\* we_have() leaves a picker.
LEMMA WeHaveType ==
    ASSUME NEW pk \in Picker, NEW p \in Piece
    PROVE  WeHave(pk, p) \in Picker
<1>1. Erase(pk, {p}) \in Picker  BY EraseType
<1>2. pk.have \cup {p} \in SUBSET Piece  BY PickerFields
<1> QED  BY <1>1, <1>2, PickerFields, PickerIntro DEF WeHave

-----------------------------------------------------------------------------
(* The record a handler works on, part by part. *)

ConnType == [Peer -> {"new", "up", "gone"}]
FlagType == [Peer -> BOOLEAN]
QueueType == [Peer -> [Block -> Place]]
ReceivingType == [Peer -> Block \cup {NoBlock}]
NetType == [conn : ConnType, choked : FlagType, parole : FlagType, queue : QueueType,
            receiving : ReceivingType, picker : Picker, upload_mode : BOOLEAN]
\* Blocks of each peer, as the operators on several peers take them.
Blocks == [Peer -> SUBSET Block]

\* What the parts of such a record are.
LEMMA NetFields ==
    ASSUME NEW s \in NetType
    PROVE  /\ s.conn \in ConnType /\ s.choked \in FlagType /\ s.parole \in FlagType
           /\ s.queue \in QueueType /\ s.receiving \in ReceivingType
           /\ s.picker \in Picker /\ s.upload_mode \in BOOLEAN
  BY DEF NetType

\* Closing connections replaces two parts of the record by others of their type.
LEMMA SetConnReceiving ==
    ASSUME NEW s \in NetType, NEW c \in ConnType, NEW r \in ReceivingType
    PROVE  [s EXCEPT !.conn = c, !.receiving = r] \in NetType
  BY DEF NetType

\* So does taking blocks off the queues,
LEMMA SetQueuePicker ==
    ASSUME NEW s \in NetType, NEW q \in QueueType, NEW pk \in Picker
    PROVE  [s EXCEPT !.queue = q, !.picker = pk] \in NetType
  BY DEF NetType

\* adding requests to them,
LEMMA SetPickerQueue ==
    ASSUME NEW s \in NetType, NEW q \in QueueType, NEW pk \in Picker
    PROVE  [s EXCEPT !.picker = pk, !.queue = q] \in NetType
  BY DEF NetType

\* and piece_passed.
LEMMA SetParolePicker ==
    ASSUME NEW s \in NetType, NEW f \in FlagType, NEW pk \in Picker
    PROVE  [s EXCEPT !.parole = f, !.picker = pk] \in NetType
  BY DEF NetType

\* A piece header sets the block being received and its place.
LEMMA SetReceivingQueue ==
    ASSUME NEW s \in NetType, NEW r \in ReceivingType, NEW q \in QueueType
    PROVE  [s EXCEPT !.receiving = r, !.queue = q] \in NetType
  BY DEF NetType

\* The other updates are of one part: the queues,
LEMMA SetQueue ==
    ASSUME NEW s \in NetType, NEW q \in QueueType
    PROVE  [s EXCEPT !.queue = q] \in NetType
  BY DEF NetType

\* the connections,
LEMMA SetConn ==
    ASSUME NEW s \in NetType, NEW c \in ConnType
    PROVE  [s EXCEPT !.conn = c] \in NetType
  BY DEF NetType

\* the choke flags,
LEMMA SetChoked ==
    ASSUME NEW s \in NetType, NEW f \in FlagType
    PROVE  [s EXCEPT !.choked = f] \in NetType
  BY DEF NetType

\* the parole flags,
LEMMA SetParole ==
    ASSUME NEW s \in NetType, NEW f \in FlagType
    PROVE  [s EXCEPT !.parole = f] \in NetType
  BY DEF NetType

\* the blocks being received,
LEMMA SetReceiving ==
    ASSUME NEW s \in NetType, NEW r \in ReceivingType
    PROVE  [s EXCEPT !.receiving = r] \in NetType
  BY DEF NetType

\* the picker,
LEMMA SetPicker ==
    ASSUME NEW s \in NetType, NEW pk \in Picker
    PROVE  [s EXCEPT !.picker = pk] \in NetType
  BY DEF NetType

\* or the upload mode.
LEMMA SetUpload ==
    ASSUME NEW s \in NetType, NEW u \in BOOLEAN
    PROVE  [s EXCEPT !.upload_mode = u] \in NetType
  BY DEF NetType

\* What is set in a queue is a place.
LEMMA QueueUpdate ==
    ASSUME NEW q \in QueueType, NEW bs \in Blocks, NEW pl \in Place
    PROVE  [p \in Peer |-> [b \in Block |-> IF b \in bs[p] THEN pl ELSE q[p][b]]] \in QueueType
  BY DEF QueueType, Blocks

\* The blocks in some queue are blocks.
LEMMA InQueueType ==
    ASSUME NEW s, NEW p, NEW places
    PROVE  InQueue(s, p, places) \in SUBSET Block
  BY DEF InQueue

\* Singling out a peer gives blocks of each peer.
LEMMA OnlyType ==
    ASSUME NEW p, NEW bs \in SUBSET Block
    PROVE  Only(p, bs) \in Blocks
  BY DEF Only, Blocks

-----------------------------------------------------------------------------
(* Every operator of the network thread maps such records to such records. *)

\* Taking requests off the queues.
LEMMA DequeueType ==
    ASSUME NEW s \in NetType, NEW bs \in Blocks
    PROVE  Dequeue(s, bs) \in NetType
<1> DEFINE q == [p \in Peer |-> [b \in Block |-> IF b \in bs[p] THEN "idle" ELSE s.queue[p][b]]]
           from == [b \in Block |-> {p \in Peer : b \in bs[p] /\ s.queue[p][b] \in Counted}]
<1>1. q \in QueueType  BY QueueUpdate, NetFields DEF Place
<1>2. from \in [Block -> SUBSET Peer]  OBVIOUS
<1> HIDE DEF q, from
<1>3. AbortDownload(s.picker, from) \in Picker  BY <1>2, NetFields, AbortDownloadType
<1>4. [s EXCEPT !.queue = q, !.picker = AbortDownload(s.picker, from)] \in NetType
  BY <1>1, <1>3, SetQueuePicker
<1> QED  BY <1>4 DEF Dequeue, q, from

\* Which requests have not been sent.
LEMMA UnsentType ==
    ASSUME NEW s, NEW ps
    PROVE  Unsent(s, ps) \in Blocks
  BY InQueueType DEF Unsent, Blocks

\* Closing connections.
LEMMA DisconnectType ==
    ASSUME NEW s \in NetType, NEW ps
    PROVE  Disconnect(s, ps) \in NetType
<1> DEFINE off == ps \cap Up(s)
           next == Dequeue(s, [p \in Peer |-> IF p \in off THEN Block ELSE {}])
           c == [p \in Peer |-> IF p \in off THEN "gone" ELSE next.conn[p]]
           r == [p \in Peer |-> IF p \in off THEN NoBlock ELSE next.receiving[p]]
<1>1. next \in NetType
  <2>1. [p \in Peer |-> IF p \in off THEN Block ELSE {}] \in Blocks  BY DEF Blocks
  <2> QED  BY <2>1, DequeueType
<1> HIDE DEF next, off
<1>2. c \in ConnType  BY <1>1, NetFields DEF ConnType
<1>3. r \in ReceivingType  BY <1>1, NetFields DEF ReceivingType
<1> HIDE DEF c, r
<1>4. [next EXCEPT !.conn = c, !.receiving = r] \in NetType  BY <1>1, <1>2, <1>3, SetConnReceiving
<1> QED  BY <1>4 DEF Disconnect, off, next, c, r

\* Rejected requests.
LEMMA RejectType ==
    ASSUME NEW s \in NetType, NEW bs \in Blocks
    PROVE  Reject(s, bs) \in NetType
<1> DEFINE kept(p) == {b \in bs[p] : s.parole[p] /\ s.queue[p][b] = "download"}
           keep == [p \in Peer |-> kept(p)]
           out == [p \in Peer |-> (bs[p] \cap InQueue(s, p, Sent)) \ kept(p)]
           next == Dequeue(s, out)
           q == [p \in Peer |-> [b \in Block |->
                    IF b \in kept(p) THEN "request" ELSE next.queue[p][b]]]
<1>1. out \in Blocks  BY InQueueType DEF Blocks
<1>2. keep \in Blocks  BY DEF Blocks
<1> HIDE DEF out
<1>3. next \in NetType  BY <1>1, DequeueType
<1> HIDE DEF next
<1>4. q \in QueueType
  <2>1. \A p \in Peer : kept(p) = keep[p]  OBVIOUS
  <2> HIDE DEF kept, keep
  <2>2. q = [p \in Peer |-> [b \in Block |->
                    IF b \in keep[p] THEN "request" ELSE next.queue[p][b]]]
    BY <2>1
  <2> QED  BY <1>2, <1>3, <2>2, QueueUpdate, NetFields, ZenonT(60) DEF Place
<1> HIDE DEF q
<1>5. [next EXCEPT !.queue = q] \in NetType  BY <1>3, <1>4, SetQueue
<1> QED  BY <1>5 DEF Reject, out, next, q

\* Requests rejected on behalf of a peer without FAST.
LEMMA ImplicitRejectType ==
    ASSUME NEW s \in NetType, NEW bs \in Blocks
    PROVE  ImplicitReject(s, bs) \in NetType
<1>1. [p \in Peer |-> IF p \in FastPeer THEN {} ELSE bs[p]] \in Blocks  BY DEF Blocks
<1> QED  BY <1>1, RejectType DEF ImplicitReject

\* set_upload_mode(true).
LEMMA EnterUploadModeType ==
    ASSUME NEW s \in NetType
    PROVE  EnterUploadMode(s) \in NetType
<1> DEFINE t == [s EXCEPT !.upload_mode = TRUE]
           sent == [p \in Peer |-> InQueue(s, p, Sent) \ {s.receiving[p]}]
<1>1. t \in NetType  BY SetUpload
<1>2. sent \in Blocks  BY InQueueType DEF Blocks
<1> HIDE DEF t, sent
<1>3. Dequeue(t, Unsent(s, Up(s))) \in NetType  BY <1>1, UnsentType, DequeueType
<1>4. ImplicitReject(Dequeue(t, Unsent(s, Up(s))), sent) \in NetType
  BY <1>2, <1>3, ImplicitRejectType
<1> QED  BY <1>4 DEF EnterUploadMode, t, sent

\* cancel_block.
LEMMA CancelBlockType ==
    ASSUME NEW s \in NetType, NEW b
    PROVE  CancelBlock(s, b) \in NetType
<1> DEFINE here(places) == [p \in Peer |-> {b} \cap InQueue(s, p, places)]
<1>1. ASSUME NEW places  PROVE here(places) \in Blocks  BY InQueueType DEF Blocks
<1> HIDE DEF here
<1>2. Dequeue(s, here({"request"})) \in NetType  BY <1>1, DequeueType
<1>3. ImplicitReject(Dequeue(s, here({"request"})), here(Sent)) \in NetType
  BY <1>1, <1>2, ImplicitRejectType
<1> QED  BY <1>3 DEF CancelBlock, here

\* add_request.
LEMMA AddRequestType ==
    ASSUME NEW s \in NetType, NEW p \in Peer, NEW bs
    PROVE  AddRequest(s, p, bs) \in NetType
<1> DEFINE from == [b \in Block |-> IF b \in bs THEN {p} ELSE {}]
           pk == MarkAsDownloading(s.picker, from)
           f == [b \in Block |-> IF b \in bs THEN "request" ELSE s.queue[p][b]]
           q == [s.queue EXCEPT ![p] = f]
<1>1. from \in [Block -> SUBSET Peer]  OBVIOUS
<1> HIDE DEF from
<1>2. pk \in Picker  BY <1>1, NetFields, MarkAsDownloadingType
<1>3. f \in [Block -> Place]  BY NetFields DEF QueueType, Place
<1> HIDE DEF f, pk
<1>4. q \in QueueType  BY <1>3, NetFields DEF QueueType
<1> HIDE DEF q
<1>5. [s EXCEPT !.picker = pk, !.queue = q] \in NetType  BY <1>2, <1>4, SetPickerQueue
<1> QED  BY <1>5 DEF AddRequest, from, pk, q, f

\* send_block_requests.
LEMMA SendType ==
    ASSUME NEW s \in NetType, NEW bs \in Blocks
    PROVE  Send(s, bs) \in NetType
<1> DEFINE late(p) == {b \in bs[p] : IsDownloaded(s.picker, b)}
           out == [p \in Peer |-> late(p)]
           rest == [p \in Peer |-> bs[p] \ late(p)]
           next == Dequeue(s, out)
           q == [p \in Peer |-> [b \in Block |->
                    IF b \in bs[p] \ late(p) THEN "download" ELSE next.queue[p][b]]]
<1>1. out \in Blocks /\ rest \in Blocks  BY DEF Blocks
<1>2. \A p \in Peer : rest[p] = bs[p] \ late(p)  OBVIOUS
<1> HIDE DEF late, out, rest
<1>3. next \in NetType  BY <1>1, DequeueType
<1> HIDE DEF next
<1>4. q = [p \in Peer |-> [b \in Block |->
              IF b \in rest[p] THEN "download" ELSE next.queue[p][b]]]
  BY <1>2
<1>5. q \in QueueType  BY <1>1, <1>3, <1>4, QueueUpdate, NetFields, ZenonT(60) DEF Place
<1> HIDE DEF q
<1>6. [next EXCEPT !.queue = q] \in NetType  BY <1>3, <1>5, SetQueue
<1> QED  BY <1>6 DEF Send, late, out, next, q

-----------------------------------------------------------------------------
(* What the completions do. *)

\* What a write is made of.
LEMMA WriteFields ==
    ASSUME NEW w \in Write
    PROVE  w.block \in Block /\ w.peer \in Peer /\ w.good \in BOOLEAN
  BY DEF Write

\* What a completion is made of.
LEMMA CompletionFields ==
    ASSUME NEW c \in Completion
    PROVE  /\ c.ws \in SUBSET Write
           /\ c.ret \in DiskError \cup {"ok"}
           /\ c.op = "hash" => /\ c.piece \in Piece
                               /\ c.verdict \in {"passed", "failed", "no_memory", "other"}
  BY DEF Completion

\* handle_disk_error.
LEMMA HandleDiskErrorType ==
    ASSUME NEW s \in NetType, NEW error \in DiskError, NEW ps
    PROVE  HandleDiskError(s, error, ps) \in NetType
  BY DisconnectType, EnterUploadModeType DEF HandleDiskError, DiskError

\* on_disk_write_complete.
LEMMA OnWrittenType ==
    ASSUME NEW s \in NetType, NEW ws \in SUBSET Write, NEW ret \in DiskError \cup {"ok"}
    PROVE  OnWritten(s, ws, ret) \in NetType
<1> DEFINE bs == {w.block : w \in ws}
           peer(b) == (CHOOSE w \in ws : w.block = b).peer
           who == [b \in bs |-> IF s.conn[peer(b)] = "up" THEN peer(b) ELSE NoPeer]
           failed == [s EXCEPT !.picker = WriteFailed(s.picker, bs)]
           written == [s EXCEPT !.picker = MarkAsFinished(s.picker, bs, who)]
<1>1. bs \in SUBSET Block  BY WriteFields
<1>2. who \in [bs -> Peer \cup {NoPeer}]
  <2>1. ASSUME NEW b \in bs  PROVE peer(b) \in Peer
    <3>1. PICK w \in ws : w.block = b  OBVIOUS
    <3>2. (CHOOSE v \in ws : v.block = b) \in ws  BY <3>1
    <3> QED  BY <3>2, WriteFields
  <2> HIDE DEF peer, bs
  <2> QED  BY <2>1
<1> HIDE DEF bs, who
<1>3. WriteFailed(s.picker, bs) \in Picker  BY <1>1, NetFields, WriteFailedType
<1>4. MarkAsFinished(s.picker, bs, who) \in Picker  BY <1>1, <1>2, NetFields, MarkAsFinishedType
<1>5. failed \in NetType  BY <1>3, SetPicker
<1>6. written \in NetType  BY <1>4, SetPicker
<1> HIDE DEF failed
<1>7. ASSUME ret # "ok"
      PROVE  HandleDiskError(failed, ret, {w.peer : w \in ws}) \in NetType
  BY <1>5, <1>7, HandleDiskErrorType
<1> HIDE DEF written
<1>8. CASE ws = {}  BY <1>8 DEF OnWritten
<1>9. CASE ws # {} /\ ret # "ok"
  <2>1. OnWritten(s, ws, ret) = HandleDiskError(failed, ret, {w.peer : w \in ws})
    BY <1>9, Zenon DEF OnWritten, failed, bs
  <2> QED  BY <1>7, <1>9, <2>1
<1>10. CASE ws # {} /\ ret = "ok" /\ IsSeed(s)  BY <1>10, Zenon DEF OnWritten
<1>11. CASE ws # {} /\ ret = "ok" /\ ~IsSeed(s)
  <2>1. OnWritten(s, ws, ret) = written
    BY <1>11, Zenon DEF OnWritten, written, bs, who
  <2> QED  BY <1>6, <2>1
<1> QED  BY <1>8, <1>9, <1>10, <1>11

\* restore_piece_state.
LEMMA RestorePieceType ==
    ASSUME NEW s \in NetType, NEW p
    PROVE  RestorePiece(s, p) \in NetType
<1> DEFINE from == [b \in Block |->
                      IF PieceOf(b) = p THEN {q \in Up(s) : b \in Wanted(s, q)} ELSE {}]
           pk == MarkAsDownloading(Erase(s.picker, {p}), from)
<1>1. from \in [Block -> SUBSET Peer]  BY DEF Up
<1> HIDE DEF from
<1>2. Erase(s.picker, {p}) \in Picker  BY NetFields, EraseType
<1>3. pk \in Picker  BY <1>1, <1>2, MarkAsDownloadingType
<1> HIDE DEF pk
<1>4. [s EXCEPT !.picker = pk] \in NetType  BY <1>3, SetPicker
<1> QED  BY <1>4 DEF RestorePiece, from, pk

\* piece_passed.
LEMMA PiecePassedType ==
    ASSUME NEW s \in NetType, NEW p \in Piece
    PROVE  PiecePassed(s, p) \in NetType
<1> DEFINE f == [q \in Peer |-> s.parole[q] /\ q \notin Downloaders(s, p)]
<1>1. f \in FlagType  BY DEF FlagType
<1> HIDE DEF f
<1>2. WeHave(s.picker, p) \in Picker  BY NetFields, WeHaveType
<1>3. [s EXCEPT !.parole = f, !.picker = WeHave(s.picker, p)] \in NetType
  BY <1>1, <1>2, SetParolePicker
<1> QED  BY <1>3 DEF PiecePassed, f

\* piece_failed.
LEMMA PieceFailedType ==
    ASSUME NEW s \in NetType, NEW p, NEW ban
    PROVE  PieceFailed(s, p, ban) \in NetType
<1> DEFINE f == [q \in Peer |-> s.parole[q] \/ q \in Downloaders(s, p)]
           t == [s EXCEPT !.parole = f]
<1>1. f \in FlagType  BY DEF FlagType
<1> HIDE DEF f
<1>2. t \in NetType  BY <1>1, SetParole
<1> HIDE DEF t
<1>3. RestorePiece(Disconnect(t, ban), p) \in NetType
  BY <1>2, DisconnectType, RestorePieceType
<1> QED  BY <1>3 DEF PieceFailed, t, f

-----------------------------------------------------------------------------
(* The two halves of the type invariant. *)

NetOK == Net \in NetType
DiskOK ==
    /\ jobs \in Seq(Job)
    /\ cache \in SUBSET Write
    /\ disk \in [Block -> BOOLEAN]
    /\ done \in Seq(Completion)
    /\ errors \in 0 .. MaxDiskErrors

\* TypeOK is what the halves say together.
LEMMA TypeHalves == TypeOK <=> NetOK /\ DiskOK
<1>1. NetOK <=> /\ conn \in ConnType /\ choked \in FlagType /\ parole \in FlagType
                /\ queue \in QueueType /\ receiving \in ReceivingType
                /\ picker \in Picker /\ upload_mode \in BOOLEAN
  BY DEF NetOK, Net, NetType
<1> QED  BY <1>1 DEF TypeOK, DiskOK, ConnType, FlagType, QueueType, ReceivingType

\* A handler that ends in a record of the type preserves the first half.
LEMMA BecomeOK ==
    ASSUME NEW s \in NetType, Become(s)
    PROVE  NetOK'
<1>1. /\ conn' \in ConnType /\ choked' \in FlagType /\ parole' \in FlagType
      /\ queue' \in QueueType /\ receiving' \in ReceivingType
      /\ picker' \in Picker /\ upload_mode' \in BOOLEAN
  BY NetFields DEF Become
<1> QED  BY <1>1 DEF NetOK, Net, NetType

\* request_a_block and send_block_requests do.
LEMMA RefillOK ==
    ASSUME NEW s \in NetType, NEW p \in Peer, Refill(s, p)
    PROVE  NetOK'
<1>1. PICK pick \in Picks(s, p, MaxQueue) :
         \E bs \in Sends(AddRequest(s, p, pick), p, MaxQueue) :
             Become(Send(AddRequest(s, p, pick), Only(p, bs)))
  BY DEF Refill
<1> DEFINE asked == AddRequest(s, p, pick)
<1>2. asked \in NetType  BY AddRequestType
<1> HIDE DEF asked
<1>3. PICK bs \in Sends(asked, p, MaxQueue) : Become(Send(asked, Only(p, bs)))
  BY <1>1 DEF asked
<1>4. bs \in SUBSET Block  BY <1>3, InQueueType DEF Sends
<1>5. Send(asked, Only(p, bs)) \in NetType  BY <1>2, <1>4, OnlyType, SendType
<1> QED  BY <1>3, <1>5, BecomeOK

-----------------------------------------------------------------------------
(* One lemma per action of the network thread that needs more than a line. *)

\* The handlers of what a peer sends, but for a whole piece message.
LEMMA MessageOK ==
    ASSUME NetOK, NEW p \in Peer, NEW b \in Block,
           \/ Connect(p) \/ IncomingChoke(p) \/ IncomingUnchoke(p)
           \/ IncomingReject(p, b) \/ StartReceivePiece(p, b)
    PROVE  NetOK'
<1>0. Net \in NetType  BY DEF NetOK
<1>1. CASE Connect(p)
  <2> DEFINE c == [Net.conn EXCEPT ![p] = "up"]
             s == [Net EXCEPT !.conn = c]
  <2>1. c \in ConnType  BY <1>0, NetFields DEF ConnType
  <2> HIDE DEF c
  <2>2. s \in NetType  BY <1>0, <2>1, SetConn
  <2> HIDE DEF s
  <2>3. Become(s)  BY <1>1, Zenon DEF Connect, s, c
  <2> QED  BY <2>2, <2>3, BecomeOK
<1>2. CASE IncomingChoke(p)
  <2> DEFINE f == [Net.choked EXCEPT ![p] = TRUE]
             s == [Net EXCEPT !.choked = f]
             cleared == IF parole[p] THEN s ELSE Dequeue(s, Unsent(s, {p}))
             end == ImplicitReject(cleared, Only(p, InQueue(s, p, Sent)))
  <2>1. f \in FlagType  BY <1>0, NetFields DEF FlagType
  <2> HIDE DEF f
  <2>2. s \in NetType  BY <1>0, <2>1, SetChoked
  <2> HIDE DEF s
  <2>3. cleared \in NetType  BY <2>2, DequeueType, UnsentType
  <2> HIDE DEF cleared
  <2>4. end \in NetType  BY <2>3, InQueueType, OnlyType, ImplicitRejectType
  <2> HIDE DEF end
  <2>5. Become(end)  BY <1>2, Zenon DEF IncomingChoke, end, cleared, s, f
  <2> QED  BY <2>4, <2>5, BecomeOK
<1>3. CASE IncomingUnchoke(p)
  <2> DEFINE f == [Net.choked EXCEPT ![p] = FALSE]
             s == [Net EXCEPT !.choked = f]
  <2>1. f \in FlagType  BY <1>0, NetFields DEF FlagType
  <2> HIDE DEF f
  <2>2. s \in NetType  BY <1>0, <2>1, SetChoked
  <2> HIDE DEF s
  <2>3. Refill(s, p)  BY <1>3, Zenon DEF IncomingUnchoke, s, f
  <2> QED  BY <2>2, <2>3, RefillOK
<1>4. CASE IncomingReject(p, b)
  <2> DEFINE s == Reject(Net, Only(p, {b}))
  <2>1. s \in NetType  BY <1>0, OnlyType, RejectType
  <2>2. Refill(s, p) \/ Become(s)  BY <1>4, Zenon DEF IncomingReject
  <2> HIDE DEF s
  <2> QED  BY <2>1, <2>2, RefillOK, BecomeOK
<1>5. CASE StartReceivePiece(p, b)
  <2> DEFINE old == Net.queue[p][b]
             pl == CASE old = "idle" -> "not_wanted"
                     [] old = "request" -> "download"
                     [] OTHER -> old
             q == [Net.queue EXCEPT ![p][b] = pl]
             r == [Net.receiving EXCEPT ![p] = b]
             s == [Net EXCEPT !.receiving = r, !.queue = q]
  <2>1. pl \in Place  BY <1>0, NetFields DEF QueueType, Place
  <2> HIDE DEF pl
  <2>2. q \in QueueType  BY <1>0, <2>1, NetFields DEF QueueType
  <2>3. r \in ReceivingType  BY <1>0, NetFields DEF ReceivingType
  <2> HIDE DEF q, r
  <2>4. s \in NetType  BY <1>0, <2>2, <2>3, SetReceivingQueue
  <2> HIDE DEF s
  <2>5. Become(s)  BY <1>5, Zenon DEF StartReceivePiece, s, r, q, pl
  <2> QED  BY <2>4, <2>5, BecomeOK
<1> QED  BY <1>1, <1>2, <1>3, <1>4, <1>5

\* A block that is of use goes to the disk thread.
LEMMA AcceptBlockOK ==
    ASSUME NEW s \in NetType, NEW p \in Peer, NEW b \in Block, NEW good \in BOOLEAN,
           jobs \in Seq(Job), AcceptBlock(s, p, b, good)
    PROVE  NetOK' /\ jobs' \in Seq(Job)
<1> DEFINE q == [s.queue EXCEPT ![p][b] = "idle"]
           taken == [s EXCEPT !.queue = q, !.picker = MarkAsWriting(s.picker, b, p)]
           multi == s.picker.info[b].num_peers > 1
           next == IF multi THEN CancelBlock(taken, b) ELSE taken
           write == <<[op |-> "write", w |-> [block |-> b, peer |-> p, good |-> good]]>>
           finished == /\ IsPieceFinished(next.picker, PieceOf(b))
                       /\ ~IsPieceFinished(s.picker, PieceOf(b))
           hash == IF finished THEN <<[op |-> "hash", piece |-> PieceOf(b)]>> ELSE <<>>
<1>1. q \in QueueType  BY NetFields DEF QueueType, Place
<1>2. MarkAsWriting(s.picker, b, p) \in Picker  BY NetFields, MarkAsWritingType
<1> HIDE DEF q
<1>3. taken \in NetType  BY <1>1, <1>2, SetQueuePicker
<1> HIDE DEF taken, multi
<1>4. next \in NetType  BY <1>3, CancelBlockType
<1> HIDE DEF next
<1>5. Refill(next, p) /\ jobs' = jobs \o write \o hash
  BY Zenon DEF AcceptBlock, next, multi, taken, q
<1>6. write \in Seq(Job)
  <2>1. [block |-> b, peer |-> p, good |-> good] \in Write  BY DEF Write
  <2> QED  BY <2>1 DEF Job
<1>7. hash \in Seq(Job)
  <2>1. [op |-> "hash", piece |-> PieceOf(b)] \in Job  BY DEF Job, PieceOf, Block
  <2> HIDE DEF finished
  <2> QED  BY <2>1
<1> HIDE DEF write, hash
<1> QED  BY <1>4, <1>5, <1>6, <1>7, RefillOK

\* incoming_piece.
LEMMA IncomingPieceOK ==
    ASSUME NetOK, jobs \in Seq(Job), NEW p \in Peer, NEW drop \in SUBSET Block,
           NEW good \in BOOLEAN, IncomingPiece(p, drop, good)
    PROVE  NetOK' /\ jobs' \in Seq(Job)
<1>0. Net \in NetType  BY DEF NetOK
<1> DEFINE b == receiving[p]
           r == [Net.receiving EXCEPT ![p] = NoBlock]
           here == [Net EXCEPT !.receiving = r]
           s == Dequeue(here, Only(p, drop))
           q == [s.queue EXCEPT ![p][b] = "idle"]
           late == [s EXCEPT !.queue = q]
<1>1. b \in Block
  <2>1. Net.receiving = receiving  BY DEF Net
  <2>2. b # NoBlock  BY Zenon DEF IncomingPiece
  <2> QED  BY <1>0, <2>1, <2>2, NetFields DEF ReceivingType
<1>2. here \in NetType
  <2>1. r \in ReceivingType  BY <1>0, NetFields DEF ReceivingType
  <2> HIDE DEF r
  <2> QED  BY <1>0, <2>1, SetReceiving
<1>3. ASSUME NEW first \in InQueue(Net, p, Sent)
      PROVE  Dequeue(here, Only(p, {first})) \in NetType
  <2>1. {first} \in SUBSET Block  BY InQueueType
  <2> HIDE DEF here
  <2> QED  BY <1>2, <2>1, OnlyType, DequeueType
<1>4. s \in NetType
  <2> HIDE DEF here
  <2> QED  BY <1>2, OnlyType, DequeueType
<1>5. late \in NetType
  <2>1. q \in QueueType
    <3> HIDE DEF s, b
    <3> QED  BY <1>1, <1>4, NetFields DEF QueueType, Place
  <2> HIDE DEF q, s
  <2> QED  BY <1>4, <2>1, SetQueue
<1>6. \/ /\ \E first \in InQueue(Net, p, Sent) : Become(Dequeue(here, Only(p, {first})))
         /\ jobs' = jobs
      \/ /\ Refill(late, p)
         /\ jobs' = jobs
      \/ AcceptBlock(s, p, b, good)
  BY Zenon DEF IncomingPiece
<1> HIDE DEF here, s, late, b
<1>7. CASE /\ \E first \in InQueue(Net, p, Sent) : Become(Dequeue(here, Only(p, {first})))
           /\ jobs' = jobs
  BY <1>3, <1>7, BecomeOK
<1>8. CASE Refill(late, p) /\ jobs' = jobs  BY <1>5, <1>8, RefillOK
<1>9. CASE AcceptBlock(s, p, b, good)  BY <1>1, <1>4, <1>9, AcceptBlockOK
<1> QED  BY <1>6, <1>7, <1>8, <1>9

\* snub_peer.
LEMMA SnubPeerOK ==
    ASSUME NetOK, NEW p \in Peer, SnubPeer(p)
    PROVE  NetOK'
<1>0. Net \in NetType  BY DEF NetOK
<1> DEFINE cleared == Dequeue(Net, Unsent(Net, {p}))
<1>1. cleared \in NetType  BY <1>0, UnsentType, DequeueType
<1> HIDE DEF cleared
<1> DEFINE s(pick) == AddRequest(cleared, p, pick)
           giveUp(pick, b) ==
               [Dequeue(s(pick), Only(p, {b})) EXCEPT !.queue[p][b] = "timed_out"]
<1>2. PICK pick \in Picks(cleared, p, 2) :
         \/ \E bs \in Sends(s(pick), p, 1) : Become(Send(s(pick), Only(p, bs)))
         \/ Become(s(pick))
         \/ \E b \in InQueue(s(pick), p, {"download"}) :
               \E bs \in Sends(giveUp(pick, b), p, 1) :
                  Become(Send(giveUp(pick, b), Only(p, bs)))
  BY Zenon DEF SnubPeer, cleared
<1>3. s(pick) \in NetType  BY <1>1, AddRequestType
<1>4. ASSUME NEW b \in InQueue(s(pick), p, {"download"})  PROVE giveUp(pick, b) \in NetType
  <2>1. b \in Block /\ {b} \in SUBSET Block  BY InQueueType
  <2> DEFINE t == Dequeue(s(pick), Only(p, {b}))
             q == [t.queue EXCEPT ![p][b] = "timed_out"]
             u == [t EXCEPT !.queue = q]
  <2>2. t \in NetType
    <3> HIDE DEF s
    <3> QED  BY <1>3, <2>1, OnlyType, DequeueType
  <2> HIDE DEF t
  <2>3. q \in QueueType  BY <2>1, <2>2, NetFields DEF QueueType, Place
  <2> HIDE DEF q
  <2>4. u \in NetType  BY <2>2, <2>3, SetQueue
  <2>5. giveUp(pick, b) = u  BY Zenon DEF giveUp, u, t, q
  <2> QED  BY <2>4, <2>5
<1>5. ASSUME NEW t \in NetType, NEW bs \in Sends(t, p, 1), Become(Send(t, Only(p, bs)))
      PROVE  NetOK'
  <2>1. bs \in SUBSET Block  BY InQueueType DEF Sends
  <2>2. Send(t, Only(p, bs)) \in NetType  BY <2>1, OnlyType, SendType
  <2> QED  BY <1>5, <2>2, BecomeOK
<1> HIDE DEF s, giveUp
<1>6. CASE \E bs \in Sends(s(pick), p, 1) : Become(Send(s(pick), Only(p, bs)))
  BY <1>3, <1>5, <1>6
<1>7. CASE Become(s(pick))  BY <1>3, <1>7, BecomeOK
<1>8. CASE \E b \in InQueue(s(pick), p, {"download"}) :
             \E bs \in Sends(giveUp(pick, b), p, 1) :
                Become(Send(giveUp(pick, b), Only(p, bs)))
  BY <1>4, <1>5, <1>8
<1> QED  BY <1>2, <1>6, <1>7, <1>8

\* set_upload_mode.
LEMMA SetUploadModeOK ==
    ASSUME NetOK, SetUploadMode
    PROVE  NetOK'
<1>0. Net \in NetType  BY DEF NetOK
<1>1. CASE upload_mode
  <2> DEFINE s == [Net EXCEPT !.upload_mode = FALSE]
  <2>1. s \in NetType  BY <1>0, SetUpload
  <2> HIDE DEF s
  <2>2. PICK bs \in [Peer -> SUBSET Block] : Become(Send(s, bs))
    BY <1>1, Zenon DEF SetUploadMode, s
  <2>3. Send(s, bs) \in NetType  BY <2>1, SendType DEF Blocks
  <2> QED  BY <2>2, <2>3, BecomeOK
<1>2. CASE ~upload_mode
  <2>1. Become(EnterUploadMode(Net))  BY <1>2, Zenon DEF SetUploadMode
  <2> QED  BY <1>0, <2>1, EnterUploadModeType, BecomeOK
<1> QED  BY <1>1, <1>2

\* The completions of the disk thread.
LEMMA CompletionOK ==
    ASSUME NetOK, DiskOK, CompletionStep
    PROVE  NetOK' /\ DiskOK'
<1>0. Net \in NetType  BY DEF NetOK
<1> DEFINE c == Head(done)
<1>1. c \in Completion /\ Tail(done) \in Seq(Completion)
  BY DEF CompletionStep, CompleteWrite, CompleteHash, DiskOK
<1>2. DiskOK'
  <2>1. done' = Tail(done) /\ UNCHANGED <<jobs, diskVars>>
    BY DEF CompletionStep, CompleteWrite, CompleteHash
  <2> QED  BY <1>1, <2>1 DEF DiskOK, diskVars
<1> HIDE DEF c
<1> DEFINE written == OnWritten(Net, c.ws, c.ret)
<1>3. written \in NetType  BY <1>0, <1>1, CompletionFields, OnWrittenType
<1> HIDE DEF written
<1>4. CASE CompleteWrite
  <2>1. Become(written)  BY <1>4, Zenon DEF CompleteWrite, written, c
  <2> QED  BY <1>2, <1>3, <2>1, BecomeOK
<1>5. CASE CompleteHash
  <2> DEFINE s == IF c.verdict \in DiskError THEN HandleDiskError(written, c.verdict, {})
                                             ELSE written
  <2>1. c.op = "hash"  BY <1>5 DEF CompleteHash, c
  <2>2. s \in NetType  BY <1>3, HandleDiskErrorType
  <2>3. PieceFinished(s, c.piece, c.verdict)  BY <1>5, Zenon DEF CompleteHash, written, c
  <2> HIDE DEF s
  <2>4. c.piece \in Piece  BY <1>1, <2>1, CompletionFields
  <2>5. \/ Become(s)
        \/ Become(PiecePassed(s, c.piece))
        \/ \E ban \in Bans(s, c.piece) : Become(PieceFailed(s, c.piece, ban))
        \/ Become(RestorePiece(s, c.piece))
    BY <2>3 DEF PieceFinished
  <2> QED
    BY <1>2, <2>2, <2>4, <2>5, PiecePassedType, PieceFailedType, RestorePieceType, BecomeOK
<1> QED  BY <1>4, <1>5 DEF CompletionStep

-----------------------------------------------------------------------------
(* The disk thread. *)

\* flush_range and the count of failures.
LEMMA FlushOK ==
    ASSUME DiskOK, NEW ws \in SUBSET Write, NEW ret, NEW rs, FlushRange(ws, ret), Fail(rs)
    PROVE  /\ cache' \in SUBSET Write
           /\ disk' \in [Block -> BOOLEAN]
           /\ errors' \in 0 .. MaxDiskErrors
<1>1. cache' \in SUBSET Write  BY DEF FlushRange, DiskOK
<1>2. disk' \in [Block -> BOOLEAN]
  <2>1. PICK ok \in SUBSET ws :
           disk' = [b \in Block |-> IF \E w \in ok : w.block = b
                                    THEN \E w \in ok : w.block = b /\ w.good
                                    ELSE disk[b]]
    BY DEF FlushRange
  <2>2. ASSUME NEW b \in Block
        PROVE  (\E w \in ok : w.block = b /\ w.good) \in BOOLEAN
    OBVIOUS
  <2> QED  BY <2>1, <2>2 DEF DiskOK
<1>3. errors' \in 0 .. MaxDiskErrors
  <2>1. rs \cap DiskError \in SUBSET {"no_memory", "no_space", "other"}  BY DEF DiskError
  <2>2. IsFiniteSet({"no_memory", "no_space", "other"})
    <3>1. {"no_memory", "no_space", "other"} = ({"no_memory"} \cup {"no_space"}) \cup {"other"}
      OBVIOUS
    <3>2. /\ IsFiniteSet({"no_memory"}) /\ IsFiniteSet({"no_space"}) /\ IsFiniteSet({"other"})
      BY FS_Singleton
    <3>3. IsFiniteSet({"no_memory"} \cup {"no_space"})  BY <3>2, FS_Union
    <3>4. IsFiniteSet(({"no_memory"} \cup {"no_space"}) \cup {"other"})
      BY <3>2, <3>3, FS_Union
    <3> QED  BY <3>1, <3>4, Zenon
  <2>3. Cardinality(rs \cap DiskError) \in Nat
    BY <2>1, <2>2, FS_Subset, FS_CardinalityType
  <2> QED  BY <2>3, ConfigAssumption DEF Fail, DiskOK
<1> QED  BY <1>1, <1>2, <1>3

\* What a write or a hash job is made of.
LEMMA JobFields ==
    ASSUME NEW j \in Job
    PROVE  /\ j.op = "write" => j.w \in Write
           /\ j.op = "hash" => j.piece \in Piece
  BY DEF Job

\* The completions the disk thread posts are completions.
LEMMA CompletionIntro ==
    ASSUME NEW ws \in SUBSET Write, NEW ret \in DiskError \cup {"ok"}, NEW p \in Piece,
           NEW verdict \in {"passed", "failed", "no_memory", "other"}
    PROVE  /\ [op |-> "write", ws |-> ws, ret |-> ret] \in Completion
           /\ [op |-> "hash", ws |-> ws, ret |-> ret, piece |-> p, verdict |-> verdict]
                 \in Completion
  BY DEF Completion

\* The steps of the disk thread.
LEMMA DiskStepOK ==
    ASSUME DiskOK, NEW p \in Piece, DiskStep \/ DiskFlush(p)
    PROVE  DiskOK'
<1>1. CASE DiskWriteDirect
  <2> DEFINE w == Head(jobs).w
  <2>1. w \in Write /\ Tail(jobs) \in Seq(Job)
    BY <1>1, JobFields DEF DiskWriteDirect, DiskOK
  <2> HIDE DEF w
  <2>2. PICK ret \in DiskError \cup {"ok"} :
           /\ FlushRange({w}, ret) /\ Fail({ret})
           /\ done' = Append(done, [op |-> "write", ws |-> {w}, ret |-> ret])
    BY <1>1 DEF DiskWriteDirect, w
  <2>3. {w} \in SUBSET Write  BY <2>1
  <2>4. [op |-> "write", ws |-> {w}, ret |-> ret] \in Completion
    BY <2>3, CompletionIntro
  <2>5. done' \in Seq(Completion)  BY <2>2, <2>4 DEF DiskOK
  <2>6. jobs' = Tail(jobs)  BY <1>1 DEF DiskWriteDirect
  <2> QED  BY <2>1, <2>2, <2>3, <2>5, <2>6, FlushOK DEF DiskOK
<1>2. CASE DiskWrite
  <2> DEFINE w == Head(jobs).w
             old == {x \in cache : x.block = w.block}
             c == [op |-> "write", ws |-> old, ret |-> "ok"]
  <2>1. w \in Write /\ Tail(jobs) \in Seq(Job)
    BY <1>2, JobFields DEF DiskWrite, DiskOK
  <2>2. old \in SUBSET Write  BY DEF DiskOK
  <2>3. c \in Completion  BY <2>2, CompletionIntro
  <2>4. /\ cache' = (cache \ old) \cup {w}
        /\ done' = done \/ done' = Append(done, c)
        /\ jobs' = Tail(jobs) /\ disk' = disk /\ errors' = errors
    BY <1>2 DEF DiskWrite
  <2> HIDE DEF w, old, c
  <2> QED  BY <2>1, <2>2, <2>3, <2>4, SMTT(60) DEF DiskOK
<1>3. CASE DiskFlush(p)
  <2>1. PICK ws \in SUBSET Cached(p) \ {{}}, ret \in DiskError \cup {"ok"} :
           /\ FlushRange(ws, ret) /\ Fail({ret})
           /\ done' = Append(done, [op |-> "write", ws |-> ws, ret |-> ret])
    BY <1>3 DEF DiskFlush
  <2>2. ws \in SUBSET Write  BY DEF Cached, DiskOK
  <2>3. [op |-> "write", ws |-> ws, ret |-> ret] \in Completion  BY <2>2, CompletionIntro
  <2>4. done' \in Seq(Completion)  BY <2>1, <2>3 DEF DiskOK
  <2>5. jobs' = jobs  BY <1>3 DEF DiskFlush
  <2> QED  BY <2>1, <2>2, <2>4, <2>5, FlushOK DEF DiskOK
<1>4. CASE DiskHash
  <2> DEFINE q == Head(jobs).piece
  <2>1. q \in Piece /\ Tail(jobs) \in Seq(Job)  BY <1>4, JobFields DEF DiskHash, DiskOK
  <2> HIDE DEF q
  <2>2. PICK ret \in DiskError \cup {"ok"}, verdict \in {"passed", "failed", "no_memory", "other"} :
           /\ FlushRange(Cached(q), ret) /\ Fail({ret} \cup {verdict})
           /\ done' = Append(done, [op |-> "hash", ws |-> Cached(q), ret |-> ret,
                                    piece |-> q, verdict |-> verdict])
    BY <1>4 DEF DiskHash, q
  <2>3. Cached(q) \in SUBSET Write  BY DEF Cached, DiskOK
  <2>4. [op |-> "hash", ws |-> Cached(q), ret |-> ret, piece |-> q, verdict |-> verdict]
           \in Completion
    BY <2>1, <2>3, CompletionIntro
  <2>5. done' \in Seq(Completion)  BY <2>2, <2>4 DEF DiskOK
  <2>6. jobs' = Tail(jobs)  BY <1>4 DEF DiskHash
  <2> QED  BY <2>1, <2>2, <2>3, <2>5, <2>6, FlushOK DEF DiskOK
<1> QED  BY <1>1, <1>2, <1>3, <1>4 DEF DiskStep, DiskWriteJob

-----------------------------------------------------------------------------
(* The theorem. *)

\* The program starts in a state of the type.
LEMMA InitOK == Init => TypeOK
<1> SUFFICES ASSUME Init  PROVE TypeOK
  OBVIOUS
<1>1. queue \in [Peer -> [Block -> Place]]
  <2>1. [b \in Block |-> "idle"] \in [Block -> Place]  BY DEF Place
  <2> QED  BY <2>1 DEF Init
<1>2. picker \in Picker  BY EmptyType DEF Init
<1>3. jobs \in Seq(Job) /\ done \in Seq(Completion)  BY DEF Init
<1>4. errors \in 0 .. MaxDiskErrors  BY ConfigAssumption DEF Init
<1>5. disk \in [Block -> BOOLEAN]  BY DEF Init
<1>6. /\ conn \in [Peer -> {"new", "up", "gone"}]
      /\ choked \in [Peer -> BOOLEAN] /\ parole \in [Peer -> BOOLEAN]
      /\ receiving \in [Peer -> Block \cup {NoBlock}]
      /\ upload_mode \in BOOLEAN /\ cache \in SUBSET Write
  BY DEF Init
<1> QED  BY <1>1, <1>2, <1>3, <1>4, <1>5, <1>6 DEF TypeOK

\* Every step of either thread, or none, leads to a state of the type.
LEMMA NextOK == TypeOK /\ [Next]_vars => TypeOK'
<1> SUFFICES ASSUME NetOK, DiskOK, [Next]_vars  PROVE NetOK' /\ DiskOK'
  BY TypeHalves, PTL
<1>1. ASSUME NEW p \in Peer, PeerStep(p)  PROVE NetOK' /\ DiskOK'
  <2>1. CASE \/ Connect(p) \/ IncomingChoke(p) \/ IncomingUnchoke(p)
             \/ \E b \in Block : IncomingReject(p, b) \/ StartReceivePiece(p, b)
    <3>1. DiskOK'
      BY <2>1 DEF Connect, IncomingChoke, IncomingUnchoke, IncomingReject, StartReceivePiece,
                  DiskOK, diskVars
    <3>2. PICK b \in Block : TRUE
      <4>1. PICK x \in Piece, i \in Index : TRUE  BY BlockAssumption
      <4>2. <<x, i>> \in Block  BY DEF Block
      <4> QED  BY <4>2
    <3> QED  BY <2>1, <3>1, <3>2, MessageOK
  <2>2. CASE \E drop \in SUBSET Block, good \in BOOLEAN : IncomingPiece(p, drop, good)
    <3>1. cache' = cache /\ disk' = disk /\ errors' = errors /\ done' = done
      BY <2>2, Zenon DEF IncomingPiece, diskVars
    <3>2. jobs \in Seq(Job)  BY DEF DiskOK
    <3>3. NetOK' /\ jobs' \in Seq(Job)  BY <2>2, <3>2, IncomingPieceOK
    <3> QED  BY <3>1, <3>3 DEF DiskOK
  <2>3. CASE SnubPeer(p)
    <3>1. DiskOK'  BY <2>3 DEF SnubPeer, DiskOK, diskVars
    <3> QED  BY <2>3, <3>1, SnubPeerOK
  <2>4. CASE PeerLost(p)
    <3>1. DiskOK'  BY <2>4 DEF PeerLost, DiskOK, diskVars
    <3>2. Become(Disconnect(Net, {p}))  BY <2>4 DEF PeerLost
    <3>3. Disconnect(Net, {p}) \in NetType  BY DisconnectType DEF NetOK
    <3> QED  BY <3>1, <3>2, <3>3, BecomeOK
  <2> QED  BY <1>1, <2>1, <2>2, <2>3, <2>4 DEF PeerStep
<1>2. ASSUME SetUploadMode  PROVE NetOK' /\ DiskOK'
  <2>1. DiskOK'  BY <1>2 DEF SetUploadMode, DiskOK, diskVars
  <2> QED  BY <1>2, <2>1, SetUploadModeOK
<1>3. ASSUME NEW p \in Piece, DiskStep \/ DiskFlush(p)  PROVE NetOK' /\ DiskOK'
  <2>1. UNCHANGED netVars
    BY <1>3 DEF DiskStep, DiskWriteJob, DiskWriteDirect, DiskWrite, DiskHash, DiskFlush
  <2>2. NetOK'  BY <2>1 DEF NetOK, Net, netVars
  <2> QED  BY <1>3, <2>2, DiskStepOK
<1>4. ASSUME DiskStep  PROVE NetOK' /\ DiskOK'
  <2>1. PICK p \in Piece : TRUE  BY BlockAssumption
  <2> QED  BY <1>3, <1>4, <2>1
<1>5. ASSUME UNCHANGED vars  PROVE NetOK' /\ DiskOK'
  BY <1>5 DEF vars, netVars, diskVars, NetOK, Net, DiskOK
<1> QED  BY <1>1, <1>2, <1>3, <1>4, <1>5, CompletionOK DEF Next

\* Every state of the two threads has its type, for any numbers of peers,
\* pieces and blocks and any settings: no sequence of messages, timeouts and
\* disk errors leaves a queue, the picker or a job malformed.
THEOREM TypeCorrect == Spec => []TypeOK
<1>1. Init => TypeOK  BY InitOK
<1>2. TypeOK /\ [Next]_vars => TypeOK'  BY NextOK
<1> QED  BY <1>1, <1>2, PTL DEF Spec

-----------------------------------------------------------------------------
(* The picker. *)

\* HaveIsClosed, of any picker.
Closed(pk) ==
    \A b \in Block : PieceOf(b) \in pk.have =>
        PieceOf(b) \notin pk.downloading /\ pk.info[b].state = "none"

\* pk is as closed as it was and has the same pieces.
Keeps(old, pk) == Closed(pk) /\ pk.have = old.have

\* erase_download_piece() opens no piece.
LEMMA EraseKeeps ==
    ASSUME NEW pk, Closed(pk), NEW ps
    PROVE  Keeps(pk, Erase(pk, ps))
<1> DEFINE new == Erase(pk, ps)
<1>1. new.have = pk.have /\ new.downloading = pk.downloading \ ps  BY DEF Erase
<1>2. ASSUME NEW b \in Block
      PROVE  new.info[b] = IF PieceOf(b) \in ps THEN FreshInfo ELSE pk.info[b]
  BY DEF Erase
<1>3. FreshInfo.state = "none"  BY DEF FreshInfo
<1> HIDE DEF new
<1>4. Closed(new)  BY <1>1, <1>2, <1>3 DEF Closed
<1> QED  BY <1>1, <1>4 DEF Keeps, new

\* Neither does dropping idle entries.
LEMMA EraseIdleKeeps ==
    ASSUME NEW pk, Closed(pk), NEW ps
    PROVE  Keeps(pk, EraseIdle(pk, ps))
  BY EraseKeeps DEF EraseIdle

\* mark_as_downloading() opens only pieces it is asked to.
LEMMA MarkAsDownloadingKeeps ==
    ASSUME NEW pk \in Picker, Closed(pk), NEW from \in [Block -> SUBSET Peer],
           \A b \in Block : from[b] # {} => PieceOf(b) \notin pk.have
    PROVE  Keeps(pk, MarkAsDownloading(pk, from))
<1> DEFINE new == {b \in Block : /\ from[b] # {}
                                 /\ pk.info[b].state \in {"none", "requested"}}
           next == MarkAsDownloading(pk, from)
<1>1. next.have = pk.have /\ next.downloading = pk.downloading \cup Pieces(new)
  BY DEF MarkAsDownloading
<1>2. ASSUME NEW b \in Block, b \notin new  PROVE next.info[b] = pk.info[b]
  BY <1>2 DEF MarkAsDownloading
<1>3. \A b \in new : PieceOf(b) \notin pk.have  OBVIOUS
<1> HIDE DEF new, next
<1>4. \A p \in Pieces(new) : p \notin pk.have  BY <1>3 DEF Pieces
<1>5. Closed(next)  BY <1>1, <1>2, <1>3, <1>4, SMTT(60) DEF Closed
<1> QED  BY <1>1, <1>5 DEF Keeps, next

\* abort_download() opens none.
LEMMA AbortDownloadKeeps ==
    ASSUME NEW pk \in Picker, Closed(pk), NEW from \in [Block -> SUBSET Peer]
    PROVE  Keeps(pk, AbortDownload(pk, from))
<1> DEFINE hit == {b \in Block : from[b] # {} /\ pk.info[b].state = "requested"}
           freed == {b \in hit : pk.info[b].num_peers <= Cardinality(from[b])}
           fewer(i, ps) == [state     |-> i.state,
                            peer      |-> IF i.peer \in ps THEN NoPeer ELSE i.peer,
                            num_peers |-> i.num_peers - Cardinality(ps)]
           info == [b \in Block |->
                      IF b \in freed THEN FreshInfo
                      ELSE IF b \in hit THEN fewer(pk.info[b], from[b])
                      ELSE pk.info[b]]
           cnt == [p \in Piece |-> Add(pk.cnt[p], -In(freed, p), 0, 0)]
           next == [info |-> info, cnt |-> cnt, downloading |-> pk.downloading,
                    have |-> pk.have]
<1>1. ASSUME NEW b \in Block, PieceOf(b) \in pk.have  PROVE info[b].state = "none"
  <2>1. b \notin hit  BY <1>1 DEF Closed
  <2>2. info[b] = pk.info[b]  BY <2>1
  <2> QED  BY <1>1, <2>2 DEF Closed
<1> HIDE DEF info, cnt
<1>2. Keeps(pk, next)  BY <1>1 DEF Keeps, Closed
<1> HIDE DEF next
<1>3. Keeps(pk, EraseIdle(next, Pieces(freed)))  BY <1>2, EraseIdleKeeps DEF Keeps
<1> QED  BY <1>3 DEF AbortDownload, Keeps, info, cnt, next

\* mark_as_writing() leaves a piece alone that we have.
LEMMA MarkAsWritingKeeps ==
    ASSUME NEW pk \in Picker, Closed(pk), NEW b \in Block, NEW peer \in Peer
    PROVE  Keeps(pk, MarkAsWriting(pk, b, peer))
<1> DEFINE p == PieceOf(b)
           was == pk.info[b].state
           info(st, n) == [state |-> st, peer |-> peer, num_peers |-> n]
           set(i, c, d) == [info |-> [pk.info EXCEPT ![b] = i],
                            cnt |-> [pk.cnt EXCEPT ![p] = c],
                            downloading |-> d, have |-> pk.have]
<1>1. CASE p \in pk.have
  <2>1. p \notin pk.downloading  BY <1>1 DEF Closed
  <2>2. MarkAsWriting(pk, b, peer) = pk  BY <1>1, <2>1 DEF MarkAsWriting
  <2> QED  BY <2>2 DEF Keeps
<1>2. CASE p \notin pk.have
  <2>1. ASSUME NEW i, NEW c, NEW d, d \subseteq pk.downloading \cup {p}
        PROVE  Keeps(pk, set(i, c, d))
    <3> DEFINE f == [pk.info EXCEPT ![b] = i]
               g == [pk.cnt EXCEPT ![p] = c]
    <3>1. ASSUME NEW x \in Block, PieceOf(x) \in pk.have  PROVE f[x] = pk.info[x]
      BY <1>2, <3>1, PickerFields
    <3> HIDE DEF f, g
    <3>2. Keeps(pk, [info |-> f, cnt |-> g, downloading |-> d, have |-> pk.have])
      BY <1>2, <2>1, <3>1 DEF Keeps, Closed
    <3> QED  BY <3>2 DEF f, g
  <2> HIDE DEF set, info
  <2>2. Keeps(pk, set(info(was, pk.info[b].num_peers), pk.cnt[p], pk.downloading))
    BY <2>1
  <2>3. Keeps(pk, set(info("writing", 0),
                      Add(pk.cnt[p], IF was = "requested" THEN -1 ELSE 0, 1, 0),
                      pk.downloading \cup {p}))
    BY <2>1
  <2>4. \/ MarkAsWriting(pk, b, peer)
             = set(info(was, pk.info[b].num_peers), pk.cnt[p], pk.downloading)
        \/ MarkAsWriting(pk, b, peer)
             = set(info("writing", 0),
                   Add(pk.cnt[p], IF was = "requested" THEN -1 ELSE 0, 1, 0),
                   pk.downloading \cup {p})
    BY <1>2, Zenon DEF MarkAsWriting, set, info
  <2> QED  BY <2>2, <2>3, <2>4
<1> QED  BY <1>1, <1>2

\* So does mark_as_finished().
LEMMA MarkAsFinishedKeeps ==
    ASSUME NEW pk \in Picker, Closed(pk), NEW bs \in SUBSET Block, NEW who
    PROVE  Keeps(pk, MarkAsFinished(pk, bs, who))
<1> DEFINE new == {b \in bs : /\ PieceOf(b) \in pk.downloading \/ PieceOf(b) \notin pk.have
                              /\ pk.info[b].state # "finished"}
           next == MarkAsFinished(pk, bs, who)
<1>1. next.have = pk.have /\ next.downloading = pk.downloading \cup Pieces(new)
  BY DEF MarkAsFinished
<1>2. ASSUME NEW b \in Block, b \notin new  PROVE next.info[b] = pk.info[b]
  BY <1>2 DEF MarkAsFinished
<1>3. \A b \in new : PieceOf(b) \notin pk.have  BY DEF Closed
<1> HIDE DEF new, next
<1>4. \A p \in Pieces(new) : p \notin pk.have  BY <1>3 DEF Pieces
<1>5. Closed(next)  BY <1>1, <1>2, <1>3, <1>4 DEF Closed
<1> QED  BY <1>1, <1>5 DEF Keeps, next

\* And write_failed().
LEMMA WriteFailedKeeps ==
    ASSUME NEW pk \in Picker, Closed(pk), NEW bs \in SUBSET Block
    PROVE  Keeps(pk, WriteFailed(pk, bs))
<1> DEFINE hit == {b \in bs : /\ PieceOf(b) \in pk.downloading
                              /\ pk.info[b].state # "finished"}
           lost == {b \in hit : pk.info[b].state = "writing"}
           info == [b \in Block |-> IF b \in hit
                                    THEN [state |-> "none", peer |-> NoPeer,
                                          num_peers |-> pk.info[b].num_peers]
                                    ELSE pk.info[b]]
           cnt == [p \in Piece |-> Add(pk.cnt[p], 0, -In(lost, p), 0)]
           next == [info |-> info, cnt |-> cnt, downloading |-> pk.downloading,
                    have |-> pk.have]
<1>1. ASSUME NEW b \in Block, PieceOf(b) \in pk.have  PROVE info[b].state = "none"
  <2>1. b \notin hit  BY <1>1 DEF Closed
  <2>2. info[b] = pk.info[b]  BY <2>1
  <2> QED  BY <1>1, <2>2 DEF Closed
<1> HIDE DEF info, cnt
<1>2. Keeps(pk, next)  BY <1>1 DEF Keeps, Closed
<1> HIDE DEF next
<1>3. Keeps(pk, EraseIdle(next, Pieces(hit)))  BY <1>2, EraseIdleKeeps DEF Keeps
<1> QED  BY <1>3 DEF WriteFailed, info, cnt, next

\* we_have() closes the piece it adds.
LEMMA WeHaveCloses ==
    ASSUME NEW pk \in Picker, Closed(pk), NEW p
    PROVE  Closed(WeHave(pk, p)) /\ WeHave(pk, p).have = pk.have \cup {p}
<1> DEFINE next == Erase(pk, {p})
           new == WeHave(pk, p)
<1>1. /\ new.info = next.info /\ new.downloading = next.downloading
      /\ new.have = pk.have \cup {p}
  BY DEF WeHave
<1>2. Keeps(pk, next)  BY EraseKeeps
<1>3. p \notin next.downloading  BY DEF Erase
<1>4. ASSUME NEW b \in Block, PieceOf(b) = p  PROVE next.info[b].state = "none"
  BY <1>4 DEF Erase, FreshInfo
<1> HIDE DEF next, new
<1>5. Closed(new)  BY <1>1, <1>2, <1>3, <1>4 DEF Closed, Keeps
<1> QED  BY <1>1, <1>5 DEF new

-----------------------------------------------------------------------------
(* The record a handler works on: what its updates do to the picker. *)

\* What the handlers keep: the type, the pieces, and that they are closed.
Fine(s) == s \in NetType /\ Closed(s.picker)
Same(s, t) == Fine(t) /\ t.picker.have = s.picker.have

\* Taking requests off the queues.
LEMMA DequeueSame ==
    ASSUME NEW s, Fine(s), NEW bs \in Blocks
    PROVE  Same(s, Dequeue(s, bs))
<1> DEFINE q == [p \in Peer |-> [b \in Block |-> IF b \in bs[p] THEN "idle" ELSE s.queue[p][b]]]
           from == [b \in Block |-> {p \in Peer : b \in bs[p] /\ s.queue[p][b] \in Counted}]
<1>1. from \in [Block -> SUBSET Peer]  OBVIOUS
<1> HIDE DEF from, q
<1>2. Keeps(s.picker, AbortDownload(s.picker, from))
  BY <1>1, NetFields, AbortDownloadKeeps DEF Fine
<1>3. Dequeue(s, bs).picker = AbortDownload(s.picker, from)
  <2>1. [s EXCEPT !.queue = q, !.picker = AbortDownload(s.picker, from)].picker
           = AbortDownload(s.picker, from)
    BY DEF Fine, NetType
  <2> QED  BY <2>1, Zenon DEF Dequeue, q, from
<1>4. Dequeue(s, bs) \in NetType  BY DequeueType DEF Fine
<1> QED  BY <1>2, <1>3, <1>4 DEF Same, Fine, Keeps

\* Closing connections.
LEMMA DisconnectSame ==
    ASSUME NEW s, Fine(s), NEW ps
    PROVE  Same(s, Disconnect(s, ps))
<1> DEFINE off == ps \cap Up(s)
           next == Dequeue(s, [p \in Peer |-> IF p \in off THEN Block ELSE {}])
           c == [p \in Peer |-> IF p \in off THEN "gone" ELSE next.conn[p]]
           r == [p \in Peer |-> IF p \in off THEN NoBlock ELSE next.receiving[p]]
<1>1. Same(s, next)
  <2>1. [p \in Peer |-> IF p \in off THEN Block ELSE {}] \in Blocks  BY DEF Blocks
  <2> QED  BY <2>1, DequeueSame
<1> HIDE DEF next, off, c, r
<1>2. [next EXCEPT !.conn = c, !.receiving = r].picker = next.picker
  BY <1>1 DEF Same, Fine, NetType
<1>3. Disconnect(s, ps).picker = next.picker  BY <1>2, Zenon DEF Disconnect, off, next, c, r
<1>4. Disconnect(s, ps) \in NetType  BY DisconnectType DEF Fine
<1> QED  BY <1>1, <1>3, <1>4 DEF Same, Fine

\* Rejected requests.
LEMMA RejectSame ==
    ASSUME NEW s, Fine(s), NEW bs \in Blocks
    PROVE  Same(s, Reject(s, bs))
<1> DEFINE kept(p) == {b \in bs[p] : s.parole[p] /\ s.queue[p][b] = "download"}
           out == [p \in Peer |-> (bs[p] \cap InQueue(s, p, Sent)) \ kept(p)]
           next == Dequeue(s, out)
           q == [p \in Peer |-> [b \in Block |->
                    IF b \in kept(p) THEN "request" ELSE next.queue[p][b]]]
<1>1. out \in Blocks  BY InQueueType DEF Blocks
<1> HIDE DEF out
<1>2. Same(s, next)  BY <1>1, DequeueSame
<1> HIDE DEF next, q
<1>3. [next EXCEPT !.queue = q].picker = next.picker  BY <1>2 DEF Same, Fine, NetType
<1>4. Reject(s, bs).picker = next.picker  BY <1>3, Zenon DEF Reject, out, next, q
<1>5. Reject(s, bs) \in NetType  BY RejectType DEF Fine
<1> QED  BY <1>2, <1>4, <1>5 DEF Same, Fine

\* Requests rejected on behalf of a peer without FAST.
LEMMA ImplicitRejectSame ==
    ASSUME NEW s, Fine(s), NEW bs \in Blocks
    PROVE  Same(s, ImplicitReject(s, bs))
<1>1. [p \in Peer |-> IF p \in FastPeer THEN {} ELSE bs[p]] \in Blocks  BY DEF Blocks
<1> QED  BY <1>1, RejectSame DEF ImplicitReject

\* set_upload_mode(true).
LEMMA EnterUploadModeSame ==
    ASSUME NEW s, Fine(s)
    PROVE  Same(s, EnterUploadMode(s))
<1> DEFINE t == [s EXCEPT !.upload_mode = TRUE]
           sent == [p \in Peer |-> InQueue(s, p, Sent) \ {s.receiving[p]}]
           d == Dequeue(t, Unsent(s, Up(s)))
<1>1. t \in NetType  BY SetUpload DEF Fine
<1>2. t.picker = s.picker  BY DEF Fine, NetType
<1>3. sent \in Blocks  BY InQueueType DEF Blocks
<1> HIDE DEF t, sent
<1>4. Same(s, t)  BY <1>1, <1>2 DEF Same, Fine
<1>5. Same(t, d)  BY <1>4, UnsentType, DequeueSame DEF Same
<1> HIDE DEF d
<1>6. Same(d, ImplicitReject(d, sent))  BY <1>3, <1>5, ImplicitRejectSame DEF Same
<1>7. Same(s, ImplicitReject(d, sent))  BY <1>4, <1>5, <1>6 DEF Same
<1>8. EnterUploadMode(s) = s \/ EnterUploadMode(s) = ImplicitReject(d, sent)
  BY Zenon DEF EnterUploadMode, d, t, sent
<1>9. Same(s, s)  BY DEF Same
<1> QED  BY <1>7, <1>8, <1>9

\* cancel_block.
LEMMA CancelBlockSame ==
    ASSUME NEW s, Fine(s), NEW b
    PROVE  Same(s, CancelBlock(s, b))
<1> DEFINE here(places) == [p \in Peer |-> {b} \cap InQueue(s, p, places)]
           d == Dequeue(s, here({"request"}))
<1>1. ASSUME NEW places  PROVE here(places) \in Blocks  BY InQueueType DEF Blocks
<1> HIDE DEF here
<1>2. Same(s, d)  BY <1>1, DequeueSame
<1> HIDE DEF d
<1>3. Same(d, ImplicitReject(d, here(Sent)))  BY <1>1, <1>2, ImplicitRejectSame DEF Same
<1>4. Same(s, ImplicitReject(d, here(Sent)))  BY <1>2, <1>3 DEF Same
<1>5. CancelBlock(s, b) = s \/ CancelBlock(s, b) = ImplicitReject(d, here(Sent))
  BY Zenon DEF CancelBlock, d, here
<1>6. Same(s, s)  BY DEF Same
<1> QED  BY <1>4, <1>5, <1>6

\* add_request, of blocks of pieces we do not have.
LEMMA AddRequestSame ==
    ASSUME NEW s, Fine(s), NEW p \in Peer, NEW bs \in SUBSET Block,
           \A b \in bs : PieceOf(b) \notin s.picker.have
    PROVE  Same(s, AddRequest(s, p, bs))
<1> DEFINE from == [b \in Block |-> IF b \in bs THEN {p} ELSE {}]
           pk == MarkAsDownloading(s.picker, from)
           q == [s.queue EXCEPT ![p] =
                    [b \in Block |-> IF b \in bs THEN "request" ELSE s.queue[p][b]]]
<1>1. from \in [Block -> SUBSET Peer]  OBVIOUS
<1>2. \A b \in Block : from[b] # {} => PieceOf(b) \notin s.picker.have  OBVIOUS
<1> HIDE DEF from
<1>3. Keeps(s.picker, pk)  BY <1>1, <1>2, NetFields, MarkAsDownloadingKeeps DEF Fine
<1> HIDE DEF pk, q
<1>4. [s EXCEPT !.picker = pk, !.queue = q].picker = pk  BY DEF Fine, NetType
<1>5. AddRequest(s, p, bs).picker = pk  BY <1>4, Zenon DEF AddRequest, from, pk, q
<1>6. AddRequest(s, p, bs) \in NetType  BY AddRequestType DEF Fine
<1> QED  BY <1>3, <1>5, <1>6 DEF Same, Fine, Keeps

\* send_block_requests.
LEMMA SendSame ==
    ASSUME NEW s, Fine(s), NEW bs \in Blocks
    PROVE  Same(s, Send(s, bs))
<1> DEFINE late(p) == {b \in bs[p] : IsDownloaded(s.picker, b)}
           out == [p \in Peer |-> late(p)]
           next == Dequeue(s, out)
           q == [p \in Peer |-> [b \in Block |->
                    IF b \in bs[p] \ late(p) THEN "download" ELSE next.queue[p][b]]]
<1>1. out \in Blocks  BY DEF Blocks
<1> HIDE DEF out
<1>2. Same(s, next)  BY <1>1, DequeueSame
<1> HIDE DEF next, q
<1>3. [next EXCEPT !.queue = q].picker = next.picker  BY <1>2 DEF Same, Fine, NetType
<1>4. Send(s, bs).picker = next.picker  BY <1>3, Zenon DEF Send, late, out, next, q
<1>5. Send(s, bs) \in NetType  BY SendType DEF Fine
<1> QED  BY <1>2, <1>4, <1>5 DEF Same, Fine

\* restore_piece_state, for a piece we do not have.
LEMMA RestorePieceSame ==
    ASSUME NEW s, Fine(s), NEW p, p \notin s.picker.have
    PROVE  Same(s, RestorePiece(s, p))
<1> DEFINE from == [b \in Block |->
                      IF PieceOf(b) = p THEN {q \in Up(s) : b \in Wanted(s, q)} ELSE {}]
           erased == Erase(s.picker, {p})
           pk == MarkAsDownloading(erased, from)
<1>1. from \in [Block -> SUBSET Peer]  BY DEF Up
<1>2. \A b \in Block : from[b] # {} => PieceOf(b) = p  OBVIOUS
<1> HIDE DEF from
<1>3. erased \in Picker /\ Keeps(s.picker, erased)
  BY NetFields, EraseType, EraseKeeps DEF Fine
<1> HIDE DEF erased
<1>4. Keeps(erased, pk)  BY <1>1, <1>2, <1>3, MarkAsDownloadingKeeps DEF Keeps
<1> HIDE DEF pk
<1>5. [s EXCEPT !.picker = pk].picker = pk  BY DEF Fine, NetType
<1>6. RestorePiece(s, p).picker = pk  BY <1>5, Zenon DEF RestorePiece, from, erased, pk
<1>7. RestorePiece(s, p) \in NetType  BY RestorePieceType DEF Fine
<1> QED  BY <1>3, <1>4, <1>6, <1>7 DEF Same, Fine, Keeps

\* handle_disk_error.
LEMMA HandleDiskErrorSame ==
    ASSUME NEW s, Fine(s), NEW error \in DiskError, NEW ps
    PROVE  Same(s, HandleDiskError(s, error, ps))
  BY DisconnectSame, EnterUploadModeSame DEF HandleDiskError, DiskError

\* on_disk_write_complete.
LEMMA OnWrittenSame ==
    ASSUME NEW s, Fine(s), NEW ws \in SUBSET Write, NEW ret \in DiskError \cup {"ok"}
    PROVE  Same(s, OnWritten(s, ws, ret))
<1> DEFINE bs == {w.block : w \in ws}
           peer(b) == (CHOOSE w \in ws : w.block = b).peer
           who == [b \in bs |-> IF s.conn[peer(b)] = "up" THEN peer(b) ELSE NoPeer]
           failed == [s EXCEPT !.picker = WriteFailed(s.picker, bs)]
           written == [s EXCEPT !.picker = MarkAsFinished(s.picker, bs, who)]
<1>1. bs \in SUBSET Block  BY WriteFields
<1> HIDE DEF bs, who
<1>2. s.picker \in Picker /\ Closed(s.picker)  BY NetFields DEF Fine
<1>3. Same(s, failed)
  <2> DEFINE pk == WriteFailed(s.picker, bs)
  <2>1. pk \in Picker /\ Keeps(s.picker, pk)  BY <1>1, <1>2, WriteFailedType, WriteFailedKeeps
  <2> HIDE DEF pk
  <2>2. [s EXCEPT !.picker = pk].picker = pk  BY DEF Fine, NetType
  <2>3. [s EXCEPT !.picker = pk] \in NetType  BY <2>1, SetPicker DEF Fine
  <2>4. failed.picker = pk /\ failed \in NetType  BY <2>2, <2>3, Zenon DEF pk
  <2> HIDE DEF failed
  <2> QED  BY <2>1, <2>4 DEF Same, Fine, Keeps
<1>4. ASSUME ret = "ok", ws # {}, ~IsSeed(s)  PROVE Same(s, written)
  <2> DEFINE pk == MarkAsFinished(s.picker, bs, who)
  <2>1. Keeps(s.picker, pk)  BY <1>1, <1>2, MarkAsFinishedKeeps
  <2> HIDE DEF pk
  <2>2. [s EXCEPT !.picker = pk].picker = pk  BY DEF Fine, NetType
  <2>3. written.picker = pk  BY <2>2, Zenon DEF pk
  <2>4. OnWritten(s, ws, ret) = written  BY <1>4, Zenon DEF OnWritten, bs, who
  <2> HIDE DEF written
  <2>5. written \in NetType  BY <2>4, OnWrittenType DEF Fine
  <2> QED  BY <2>1, <2>3, <2>5 DEF Same, Fine, Keeps
<1>5. Same(s, s)  BY DEF Same
<1> HIDE DEF failed, written
<1>6. CASE ws = {}  BY <1>5, <1>6 DEF OnWritten
<1>7. CASE ws # {} /\ ret # "ok"
  <2>1. OnWritten(s, ws, ret) = HandleDiskError(failed, ret, {w.peer : w \in ws})
    BY <1>7, Zenon DEF OnWritten, failed, bs
  <2>2. Same(failed, HandleDiskError(failed, ret, {w.peer : w \in ws}))
    BY <1>3, <1>7, HandleDiskErrorSame DEF Same
  <2> QED  BY <1>3, <2>1, <2>2 DEF Same
<1>8. CASE ws # {} /\ ret = "ok" /\ IsSeed(s)
  <2>1. OnWritten(s, ws, ret) = s  BY <1>8, Zenon DEF OnWritten
  <2> QED  BY <1>5, <2>1
<1>9. CASE ws # {} /\ ret = "ok" /\ ~IsSeed(s)
  <2>1. OnWritten(s, ws, ret) = written  BY <1>9, Zenon DEF OnWritten, written, bs, who
  <2> QED  BY <1>4, <1>9, <2>1
<1> QED  BY <1>6, <1>7, <1>8, <1>9

\* piece_failed, for a piece we do not have.
LEMMA PieceFailedSame ==
    ASSUME NEW s, Fine(s), NEW p, p \notin s.picker.have, NEW ban
    PROVE  Same(s, PieceFailed(s, p, ban))
<1> DEFINE f == [q \in Peer |-> s.parole[q] \/ q \in Downloaders(s, p)]
           t == [s EXCEPT !.parole = f]
           d == Disconnect(t, ban)
<1>1. f \in FlagType  BY DEF FlagType
<1> HIDE DEF f
<1>2. t \in NetType  BY <1>1, SetParole DEF Fine
<1>3. t.picker = s.picker  BY DEF Fine, NetType
<1> HIDE DEF t
<1>4. Same(s, t)  BY <1>2, <1>3 DEF Same, Fine
<1>5. Same(t, d)  BY <1>4, DisconnectSame DEF Same
<1> HIDE DEF d
<1>6. Same(d, RestorePiece(d, p))  BY <1>4, <1>5, RestorePieceSame DEF Same
<1>7. PieceFailed(s, p, ban) = RestorePiece(d, p)  BY Zenon DEF PieceFailed, d, t, f
<1> QED  BY <1>4, <1>5, <1>6, <1>7 DEF Same

\* piece_passed adds the piece.
LEMMA PiecePassedGrows ==
    ASSUME NEW s, Fine(s), NEW p \in Piece
    PROVE  /\ Fine(PiecePassed(s, p))
           /\ PiecePassed(s, p).picker.have = s.picker.have \cup {p}
<1> DEFINE f == [q \in Peer |-> s.parole[q] /\ q \notin Downloaders(s, p)]
           pk == WeHave(s.picker, p)
<1>1. Closed(pk) /\ pk.have = s.picker.have \cup {p}  BY NetFields, WeHaveCloses DEF Fine
<1> HIDE DEF f, pk
<1>2. [s EXCEPT !.parole = f, !.picker = pk].picker = pk  BY DEF Fine, NetType
<1>3. PiecePassed(s, p).picker = pk  BY <1>2, Zenon DEF PiecePassed, f, pk
<1>4. PiecePassed(s, p) \in NetType  BY PiecePassedType DEF Fine
<1> QED  BY <1>1, <1>3, <1>4 DEF Fine

-----------------------------------------------------------------------------
(* The handlers. *)

\* What every step shows.
Good ==
    /\ HaveIsClosed'
    /\ picker.have \subseteq picker'.have
    /\ \A p \in picker'.have \ picker.have : PassesNow(p)

\* A handler that ends in t, with the same pieces, shows it if t does.
LEMMA BecomeGood ==
    ASSUME NEW t, Fine(t), t.picker.have = picker.have, Become(t)
    PROVE  Good
<1>1. picker' = t.picker  BY DEF Become
<1> QED  BY <1>1 DEF Good, HaveIsClosed, Fine, Closed

\* request_a_block picks no block of a piece we have, so it shows it.
LEMMA RefillGood ==
    ASSUME NEW s, Fine(s), s.picker.have = picker.have, NEW p \in Peer, Refill(s, p)
    PROVE  Good
<1>1. PICK pick \in Picks(s, p, MaxQueue) :
         \E bs \in Sends(AddRequest(s, p, pick), p, MaxQueue) :
             Become(Send(AddRequest(s, p, pick), Only(p, bs)))
  BY DEF Refill
<1> DEFINE asked == AddRequest(s, p, pick)
<1>2. pick \in SUBSET Block /\ \A b \in pick : PieceOf(b) \notin s.picker.have
  BY <1>1 DEF Picks, Free, Busy, Pickable
<1>3. Same(s, asked)  BY <1>2, AddRequestSame
<1> HIDE DEF asked
<1>4. PICK bs \in Sends(asked, p, MaxQueue) : Become(Send(asked, Only(p, bs)))
  BY <1>1 DEF asked
<1>5. bs \in SUBSET Block  BY <1>4, InQueueType DEF Sends
<1>6. Same(asked, Send(asked, Only(p, bs)))  BY <1>3, <1>5, OnlyType, SendSame DEF Same
<1> QED  BY <1>3, <1>4, <1>6, BecomeGood DEF Same

\* The handlers of what a peer sends, but for a whole piece message.
LEMMA MessageGood ==
    ASSUME Fine(Net), NEW p \in Peer, NEW b \in Block,
           \/ Connect(p) \/ IncomingChoke(p) \/ IncomingUnchoke(p)
           \/ IncomingReject(p, b) \/ StartReceivePiece(p, b)
    PROVE  Good
<1>0. Net \in NetType /\ Closed(Net.picker) /\ Net.picker = picker  BY DEF Fine, Net
<1>1. CASE Connect(p)
  <2>1. picker' = picker  BY <1>1 DEF Connect, Become, Net
  <2> QED  BY <1>0, <2>1 DEF Good, HaveIsClosed, Closed
<1>2. CASE IncomingChoke(p)
  <2> DEFINE f == [Net.choked EXCEPT ![p] = TRUE]
             s == [Net EXCEPT !.choked = f]
             cleared == IF parole[p] THEN s ELSE Dequeue(s, Unsent(s, {p}))
             end == ImplicitReject(cleared, Only(p, InQueue(s, p, Sent)))
  <2>1. f \in FlagType  BY <1>0, NetFields DEF FlagType
  <2> HIDE DEF f
  <2>2. s \in NetType  BY <1>0, <2>1, SetChoked
  <2>3. s.picker = Net.picker  BY <1>0 DEF NetType
  <2> HIDE DEF s
  <2>4. Same(Net, s)  BY <1>0, <2>2, <2>3 DEF Same, Fine
  <2>5. Same(s, cleared)  BY <2>4, DequeueSame, UnsentType DEF Same
  <2> HIDE DEF cleared
  <2>6. Same(cleared, end)  BY <2>5, InQueueType, OnlyType, ImplicitRejectSame DEF Same
  <2> HIDE DEF end
  <2>7. Become(end)  BY <1>2, Zenon DEF IncomingChoke, end, cleared, s, f
  <2> QED  BY <1>0, <2>4, <2>5, <2>6, <2>7, BecomeGood DEF Same
<1>3. CASE IncomingUnchoke(p)
  <2> DEFINE f == [Net.choked EXCEPT ![p] = FALSE]
             s == [Net EXCEPT !.choked = f]
  <2>1. f \in FlagType  BY <1>0, NetFields DEF FlagType
  <2> HIDE DEF f
  <2>2. s \in NetType  BY <1>0, <2>1, SetChoked
  <2>3. s.picker = Net.picker  BY <1>0 DEF NetType
  <2> HIDE DEF s
  <2>4. Refill(s, p)  BY <1>3, Zenon DEF IncomingUnchoke, s, f
  <2> QED  BY <1>0, <2>2, <2>3, <2>4, RefillGood DEF Fine
<1>4. CASE IncomingReject(p, b)
  <2> DEFINE s == Reject(Net, Only(p, {b}))
  <2>1. Same(Net, s)  BY OnlyType, RejectSame
  <2>2. Refill(s, p) \/ Become(s)  BY <1>4, Zenon DEF IncomingReject
  <2> HIDE DEF s
  <2> QED  BY <1>0, <2>1, <2>2, RefillGood, BecomeGood DEF Same
<1>5. CASE StartReceivePiece(p, b)
  <2>1. picker' = picker  BY <1>5 DEF StartReceivePiece, Become, Net
  <2> QED  BY <1>0, <2>1 DEF Good, HaveIsClosed, Closed
<1> QED  BY <1>1, <1>2, <1>3, <1>4, <1>5

\* A block that is of use: its piece is not one we have, or nothing happens.
LEMMA AcceptBlockGood ==
    ASSUME NEW s, Fine(s), s.picker.have = picker.have, NEW p \in Peer,
           NEW b \in Block, NEW good, AcceptBlock(s, p, b, good)
    PROVE  Good
<1> DEFINE q == [s.queue EXCEPT ![p][b] = "idle"]
           pk == MarkAsWriting(s.picker, b, p)
           taken == [s EXCEPT !.queue = q, !.picker = pk]
           multi == s.picker.info[b].num_peers > 1
           next == IF multi THEN CancelBlock(taken, b) ELSE taken
<1>0. s \in NetType /\ s.picker \in Picker /\ Closed(s.picker)  BY NetFields DEF Fine
<1>1. q \in QueueType  BY <1>0, NetFields DEF QueueType, Place
<1>2. pk \in Picker /\ Keeps(s.picker, pk)  BY <1>0, MarkAsWritingType, MarkAsWritingKeeps
<1> HIDE DEF q, pk
<1>3. taken \in NetType  BY <1>0, <1>1, <1>2, SetQueuePicker
<1>4. taken.picker = pk  BY <1>0 DEF NetType
<1> HIDE DEF taken, multi
<1>5. Same(s, taken)  BY <1>2, <1>3, <1>4 DEF Same, Fine, Keeps
<1>6. Same(taken, next)  BY <1>5, CancelBlockSame DEF Same
<1> HIDE DEF next
<1>7. Refill(next, p)  BY Zenon DEF AcceptBlock, next, multi, taken, q, pk
<1> QED  BY <1>5, <1>6, <1>7, RefillGood DEF Same

\* incoming_piece.
LEMMA IncomingPieceGood ==
    ASSUME Fine(Net), NEW p \in Peer, NEW drop \in SUBSET Block, NEW good,
           IncomingPiece(p, drop, good)
    PROVE  Good
<1>0. Net \in NetType /\ Closed(Net.picker) /\ Net.picker = picker  BY DEF Fine, Net
<1> DEFINE b == receiving[p]
           r == [Net.receiving EXCEPT ![p] = NoBlock]
           here == [Net EXCEPT !.receiving = r]
           s == Dequeue(here, Only(p, drop))
           q == [s.queue EXCEPT ![p][b] = "idle"]
           late == [s EXCEPT !.queue = q]
<1>1. b \in Block
  <2>1. Net.receiving = receiving  BY DEF Net
  <2>2. b # NoBlock  BY Zenon DEF IncomingPiece
  <2> QED  BY <1>0, <2>1, <2>2, NetFields DEF ReceivingType
<1>2. Same(Net, here)
  <2>1. r \in ReceivingType  BY <1>0, NetFields DEF ReceivingType
  <2> HIDE DEF r
  <2>2. here \in NetType  BY <1>0, <2>1, SetReceiving
  <2>3. here.picker = Net.picker  BY <1>0 DEF NetType
  <2> HIDE DEF here
  <2> QED  BY <1>0, <2>2, <2>3 DEF Same, Fine
<1> HIDE DEF here
<1>3. ASSUME NEW first \in InQueue(Net, p, Sent)
      PROVE  Same(here, Dequeue(here, Only(p, {first})))
  <2>1. {first} \in SUBSET Block  BY InQueueType
  <2> QED  BY <1>2, <2>1, OnlyType, DequeueSame DEF Same
<1>4. Same(here, s)  BY <1>2, OnlyType, DequeueSame DEF Same
<1> HIDE DEF s, b
<1>5. Same(s, late)
  <2>1. q \in QueueType  BY <1>1, <1>4, NetFields DEF QueueType, Place, Same, Fine
  <2> HIDE DEF q
  <2>2. late \in NetType  BY <1>4, <2>1, SetQueue DEF Same, Fine
  <2>3. late.picker = s.picker  BY <1>4 DEF Same, Fine, NetType
  <2> HIDE DEF late
  <2> QED  BY <1>4, <2>2, <2>3 DEF Same, Fine
<1>6. \/ \E first \in InQueue(Net, p, Sent) : Become(Dequeue(here, Only(p, {first})))
      \/ Refill(late, p)
      \/ AcceptBlock(s, p, b, good)
  BY Zenon DEF IncomingPiece, here, s, b
<1> HIDE DEF late
<1>7. CASE \E first \in InQueue(Net, p, Sent) : Become(Dequeue(here, Only(p, {first})))
  <2>1. PICK first \in InQueue(Net, p, Sent) : Become(Dequeue(here, Only(p, {first})))
    BY <1>7
  <2>2. Same(here, Dequeue(here, Only(p, {first})))  BY <1>3
  <2> QED  BY <1>0, <1>2, <2>1, <2>2, BecomeGood DEF Same
<1>8. CASE Refill(late, p)  BY <1>0, <1>2, <1>4, <1>5, <1>8, RefillGood DEF Same
<1>9. CASE AcceptBlock(s, p, b, good)
  BY <1>0, <1>1, <1>2, <1>4, <1>9, AcceptBlockGood DEF Same
<1> QED  BY <1>6, <1>7, <1>8, <1>9

\* snub_peer.
LEMMA SnubPeerGood ==
    ASSUME Fine(Net), NEW p \in Peer, SnubPeer(p)
    PROVE  Good
<1>0. Net.picker = picker  BY DEF Net
<1> DEFINE cleared == Dequeue(Net, Unsent(Net, {p}))
<1>1. Same(Net, cleared)  BY UnsentType, DequeueSame
<1> HIDE DEF cleared
<1> DEFINE s(pick) == AddRequest(cleared, p, pick)
           giveUp(pick, b) ==
               [Dequeue(s(pick), Only(p, {b})) EXCEPT !.queue[p][b] = "timed_out"]
<1>2. PICK pick \in Picks(cleared, p, 2) :
         \/ \E bs \in Sends(s(pick), p, 1) : Become(Send(s(pick), Only(p, bs)))
         \/ Become(s(pick))
         \/ \E b \in InQueue(s(pick), p, {"download"}) :
               \E bs \in Sends(giveUp(pick, b), p, 1) :
                  Become(Send(giveUp(pick, b), Only(p, bs)))
  BY Zenon DEF SnubPeer, cleared
<1>3. Same(cleared, s(pick))
  <2>1. pick \in SUBSET Block /\ \A b \in pick : PieceOf(b) \notin cleared.picker.have
    BY <1>2 DEF Picks, Free, Busy, Pickable
  <2> QED  BY <1>1, <2>1, AddRequestSame DEF Same
<1>4. ASSUME NEW b \in InQueue(s(pick), p, {"download"})  PROVE Same(s(pick), giveUp(pick, b))
  <2>1. b \in Block /\ {b} \in SUBSET Block  BY InQueueType
  <2> DEFINE t == Dequeue(s(pick), Only(p, {b}))
             q == [t.queue EXCEPT ![p][b] = "timed_out"]
             u == [t EXCEPT !.queue = q]
  <2>2. Same(s(pick), t)
    <3> HIDE DEF s
    <3> QED  BY <1>3, <2>1, OnlyType, DequeueSame DEF Same
  <2> HIDE DEF t
  <2>3. q \in QueueType  BY <2>1, <2>2, NetFields DEF QueueType, Place, Same, Fine
  <2> HIDE DEF q
  <2>4. u \in NetType  BY <2>2, <2>3, SetQueue DEF Same, Fine
  <2>5. u.picker = t.picker  BY <2>2 DEF Same, Fine, NetType
  <2>6. giveUp(pick, b) = u  BY Zenon DEF giveUp, u, t, q
  <2> HIDE DEF u, s, giveUp
  <2>7. Same(s(pick), u)  BY <2>2, <2>4, <2>5 DEF Same, Fine
  <2> QED  BY <2>6, <2>7
<1>5. ASSUME NEW t, Fine(t), t.picker.have = picker.have, NEW bs \in Sends(t, p, 1),
             Become(Send(t, Only(p, bs)))
      PROVE  Good
  <2>1. bs \in SUBSET Block  BY InQueueType DEF Sends
  <2>2. Same(t, Send(t, Only(p, bs)))  BY <1>5, <2>1, OnlyType, SendSame
  <2> QED  BY <1>5, <2>2, BecomeGood DEF Same
<1> HIDE DEF s, giveUp
<1>6. Fine(s(pick)) /\ s(pick).picker.have = picker.have  BY <1>0, <1>1, <1>3 DEF Same
<1>7. CASE \E bs \in Sends(s(pick), p, 1) : Become(Send(s(pick), Only(p, bs)))
  BY <1>5, <1>6, <1>7
<1>8. CASE Become(s(pick))  BY <1>6, <1>8, BecomeGood
<1>9. CASE \E b \in InQueue(s(pick), p, {"download"}) :
             \E bs \in Sends(giveUp(pick, b), p, 1) :
                Become(Send(giveUp(pick, b), Only(p, bs)))
  BY <1>4, <1>5, <1>6, <1>9 DEF Same
<1> QED  BY <1>2, <1>7, <1>8, <1>9

\* set_upload_mode.
LEMMA SetUploadModeGood ==
    ASSUME Fine(Net), SetUploadMode
    PROVE  Good
<1>0. Net \in NetType /\ Closed(Net.picker) /\ Net.picker = picker  BY DEF Fine, Net
<1>1. CASE upload_mode
  <2> DEFINE s == [Net EXCEPT !.upload_mode = FALSE]
  <2>1. s \in NetType  BY <1>0, SetUpload
  <2>2. s.picker = Net.picker  BY <1>0 DEF NetType
  <2> HIDE DEF s
  <2>3. PICK bs \in [Peer -> SUBSET Block] : Become(Send(s, bs))
    BY <1>1, Zenon DEF SetUploadMode, s
  <2>4. Fine(s)  BY <1>0, <2>1, <2>2 DEF Fine
  <2>5. Same(s, Send(s, bs))  BY <2>4, SendSame DEF Blocks
  <2> QED  BY <1>0, <2>2, <2>3, <2>5, BecomeGood DEF Same
<1>2. CASE ~upload_mode
  <2>1. Become(EnterUploadMode(Net))  BY <1>2, Zenon DEF SetUploadMode
  <2> QED  BY <1>0, <2>1, EnterUploadModeSame, BecomeGood DEF Same
<1> QED  BY <1>1, <1>2

\* The completions of the disk thread: a piece that is finished is being
\* downloaded, so it is not one we have.
LEMMA CompletionGood ==
    ASSUME Fine(Net), done \in Seq(Completion), CompletionStep
    PROVE  Good
<1>0. Net.picker = picker  BY DEF Net
<1> DEFINE c == Head(done)
<1>1. c \in Completion  BY DEF CompletionStep, CompleteWrite, CompleteHash
<1> HIDE DEF c
<1> DEFINE written == OnWritten(Net, c.ws, c.ret)
<1>2. Same(Net, written)  BY <1>1, CompletionFields, OnWrittenSame
<1> HIDE DEF written
<1>3. CASE CompleteWrite
  <2>1. Become(written)  BY <1>3, Zenon DEF CompleteWrite, written, c
  <2> QED  BY <1>0, <1>2, <2>1, BecomeGood DEF Same
<1>4. CASE CompleteHash
  <2> DEFINE s == IF c.verdict \in DiskError THEN HandleDiskError(written, c.verdict, {})
                                             ELSE written
             p == c.piece
  <2>1. c.op = "hash"  BY <1>4 DEF CompleteHash, c
  <2>2. PieceFinished(s, p, c.verdict)  BY <1>4, Zenon DEF CompleteHash, written, c
  <2>3. Same(written, s)  BY <1>2, HandleDiskErrorSame DEF Same
  <2> HIDE DEF s
  <2>4. p \in Piece  BY <1>1, <2>1, CompletionFields
  <2> HIDE DEF p
  <2>5. Fine(s) /\ s.picker.have = picker.have  BY <1>0, <1>2, <2>3 DEF Same
  <2>6. CASE ~IsPieceFinished(s.picker, p) \/ IsSeed(s)
    <3>1. Become(s)  BY <2>2, <2>6 DEF PieceFinished
    <3> QED  BY <2>5, <3>1, BecomeGood
  <2>7. CASE IsPieceFinished(s.picker, p) /\ ~IsSeed(s)
    <3>1. p \notin s.picker.have
      <4>1. p \in s.picker.downloading  BY <2>7 DEF IsPieceFinished
      <4>2. PICK i \in Index : TRUE  BY BlockAssumption
      <4>3. <<p, i>> \in Block /\ PieceOf(<<p, i>>) = p  BY <2>4 DEF Block, PieceOf
      <4> QED  BY <2>5, <4>1, <4>3 DEF Fine, Closed
    <3>2. \/ c.verdict = "passed" /\ Become(PiecePassed(s, p))
          \/ \E ban \in Bans(s, p) : Become(PieceFailed(s, p, ban))
          \/ Become(RestorePiece(s, p))
      BY <2>2, <2>7 DEF PieceFinished
    <3>3. CASE c.verdict = "passed" /\ Become(PiecePassed(s, p))
      <4> DEFINE t == PiecePassed(s, p)
      <4>1. Fine(t) /\ t.picker.have = picker.have \cup {p}  BY <2>4, <2>5, PiecePassedGrows
      <4>2. PassesNow(p)  BY <1>4, <2>1, <3>3 DEF PassesNow, CompleteHash, c, p
      <4> HIDE DEF t
      <4>3. picker' = t.picker  BY <3>3 DEF Become, t
      <4> QED  BY <4>1, <4>2, <4>3 DEF Good, HaveIsClosed, Fine, Closed
    <3>4. CASE \E ban \in Bans(s, p) : Become(PieceFailed(s, p, ban))
      BY <2>5, <3>1, <3>4, PieceFailedSame, BecomeGood DEF Same
    <3>5. CASE Become(RestorePiece(s, p))
      BY <2>5, <3>1, <3>5, RestorePieceSame, BecomeGood DEF Same
    <3> QED  BY <3>2, <3>3, <3>4, <3>5
  <2> QED  BY <2>6, <2>7
<1> QED  BY <1>3, <1>4 DEF CompletionStep

-----------------------------------------------------------------------------
(* The theorems. *)

\* What holds in every state.
HaveInv == TypeOK /\ HaveIsClosed

\* Every step keeps a closed piece closed and ours.
LEMMA NextGood ==
    ASSUME HaveInv, [Next]_vars
    PROVE  Good
<1>1. Fine(Net) /\ done \in Seq(Completion)
  <2>1. NetOK /\ DiskOK  BY TypeHalves DEF HaveInv
  <2>2. Net.picker = picker  BY DEF Net
  <2> QED  BY <2>1, <2>2 DEF NetOK, DiskOK, HaveInv, HaveIsClosed, Fine, Closed
<1>2. ASSUME picker' = picker  PROVE Good
  BY <1>2 DEF HaveInv, Good, HaveIsClosed
<1>3. ASSUME NEW p \in Peer, PeerStep(p)  PROVE Good
  <2>1. CASE \/ Connect(p) \/ IncomingChoke(p) \/ IncomingUnchoke(p)
             \/ \E b \in Block : IncomingReject(p, b) \/ StartReceivePiece(p, b)
    <3>1. PICK x \in Piece, i \in Index : TRUE  BY BlockAssumption
    <3>2. <<x, i>> \in Block  BY DEF Block
    <3> QED  BY <1>1, <2>1, <3>2, MessageGood
  <2>2. CASE \E drop \in SUBSET Block, good \in BOOLEAN : IncomingPiece(p, drop, good)
    BY <1>1, <2>2, IncomingPieceGood
  <2>3. CASE SnubPeer(p)  BY <1>1, <2>3, SnubPeerGood
  <2>4. CASE PeerLost(p)
    <3>1. Become(Disconnect(Net, {p}))  BY <2>4 DEF PeerLost
    <3>2. Same(Net, Disconnect(Net, {p}))  BY <1>1, DisconnectSame
    <3>3. Net.picker = picker  BY DEF Net
    <3> QED  BY <3>1, <3>2, <3>3, BecomeGood DEF Same
  <2> QED  BY <1>3, <2>1, <2>2, <2>3, <2>4 DEF PeerStep
<1>4. ASSUME DiskStep \/ \E p \in Piece : DiskFlush(p)  PROVE Good
  BY <1>2, <1>4 DEF DiskStep, DiskWriteJob, DiskWriteDirect, DiskWrite, DiskHash, DiskFlush, netVars
<1>5. ASSUME UNCHANGED vars  PROVE Good
  BY <1>2, <1>5 DEF vars, netVars
<1> QED  BY <1>1, <1>3, <1>4, <1>5, SetUploadModeGood, CompletionGood DEF Next

\* The first half of the invariant starts and goes on as TypeCorrect says, the
\* second starts with no piece at all.
LEMMA HaveInvariant == Spec => []HaveInv
<1>1. Init => HaveInv
  <2>1. Init => HaveIsClosed  BY DEF Init, HaveIsClosed, EmptyPicker
  <2> QED  BY <2>1, InitOK DEF HaveInv
<1>2. HaveInv /\ [Next]_vars => HaveInv'
  <2> SUFFICES ASSUME HaveInv, [Next]_vars  PROVE HaveInv'
    OBVIOUS
  <2>1. TypeOK'  BY NextOK DEF HaveInv
  <2>2. HaveIsClosed'  BY NextGood DEF Good
  <2> QED  BY <2>1, <2>2 DEF HaveInv
<1> QED  BY <1>1, <1>2, PTL DEF Spec

\* Nothing opens a piece that we have, in any torrent, with any peers and any
\* disk errors: no late block, callback or verdict.
THEOREM HaveStaysClosed == Spec => []HaveIsClosed
<1>1. HaveInv => HaveIsClosed  BY DEF HaveInv
<1> QED  BY <1>1, HaveInvariant, PTL

\* No piece that we have is taken back, and only a passed hash adds one.
THEOREM HaveStaysEarned == Spec => HaveIsEarned
<1>1. HaveInv /\ [Next]_vars =>
          [/\ picker.have \subseteq picker'.have
           /\ \A p \in picker'.have \ picker.have : PassesNow(p)]_vars
  BY NextGood DEF Good
<1> QED  BY <1>1, HaveInvariant, PTL DEF Spec, HaveIsEarned

-----------------------------------------------------------------------------
(* The blocks that wait for the disk, with any disk errors. *)

\* Block b is to be written, is in the cache, has been written.
InJobs(js, b) == \E i \in DOMAIN js : js[i].op = "write" /\ js[i].w.block = b
InCache(ca, b) == \E w \in ca : w.block = b
InDone(dn, b) == \E i \in DOMAIN dn : \E w \in dn[i].ws : w.block = b

\* The blocks in the writing state.
Writing(pk) == {b \in Block : pk.info[b].state = "writing"}

\* They have an entry in m_downloads, without which write_failed() would pass
\* over them, and are among W.
Within(pk, W) == Writing(pk) \subseteq W /\ Pieces(Writing(pk)) \subseteq pk.downloading

\* What an operation has to show of each block.
LEMMA WithinIntro ==
    ASSUME NEW pk, NEW W,
           \A b \in Block : pk.info[b].state = "writing" =>
               b \in W /\ PieceOf(b) \in pk.downloading
    PROVE  Within(pk, W)
  BY DEF Within, Writing, Pieces

\* And what it knows.
LEMMA WithinElim ==
    ASSUME NEW pk, NEW W, Within(pk, W), NEW b \in Block, pk.info[b].state = "writing"
    PROVE  b \in W /\ PieceOf(b) \in pk.downloading
  BY DEF Within, Writing, Pieces

\* erase_download_piece() forgets the blocks of the entries it takes away.
LEMMA EraseWithin ==
    ASSUME NEW pk, NEW W, Within(pk, W), NEW ps
    PROVE  Within(Erase(pk, ps), W)
<1> DEFINE new == Erase(pk, ps)
<1>1. new.downloading = pk.downloading \ ps  BY DEF Erase
<1>2. ASSUME NEW b \in Block
      PROVE  new.info[b] = IF PieceOf(b) \in ps THEN FreshInfo ELSE pk.info[b]
  BY DEF Erase
<1>3. FreshInfo.state # "writing"  BY DEF FreshInfo
<1> HIDE DEF new
<1>4. ASSUME NEW b \in Block, new.info[b].state = "writing"
      PROVE  b \in W /\ PieceOf(b) \in new.downloading
  BY <1>1, <1>2, <1>3, <1>4, WithinElim
<1>5. Within(new, W)  BY <1>4, WithinIntro
<1> QED  BY <1>5 DEF new

\* mark_as_downloading() touches no block that is being written.
LEMMA MarkAsDownloadingWithin ==
    ASSUME NEW pk \in Picker, NEW W, Within(pk, W), NEW from \in [Block -> SUBSET Peer]
    PROVE  Within(MarkAsDownloading(pk, from), W)
<1> DEFINE new == {b \in Block : /\ from[b] # {}
                                 /\ pk.info[b].state \in {"none", "requested"}}
           next == MarkAsDownloading(pk, from)
<1>1. next.downloading = pk.downloading \cup Pieces(new)
  BY DEF MarkAsDownloading
<1>2. ASSUME NEW b \in Block, b \notin new  PROVE next.info[b] = pk.info[b]
  BY <1>2 DEF MarkAsDownloading
<1>3. ASSUME NEW b \in new  PROVE next.info[b].state = "requested"
  BY <1>3 DEF MarkAsDownloading
<1> HIDE DEF new, next
<1>4. ASSUME NEW b \in Block, next.info[b].state = "writing"
      PROVE  b \in W /\ PieceOf(b) \in next.downloading
  BY <1>1, <1>2, <1>3, <1>4, WithinElim
<1>5. Within(next, W)  BY <1>4, WithinIntro
<1> QED  BY <1>5 DEF next

\* Nor does abort_download().
LEMMA AbortDownloadWithin ==
    ASSUME NEW pk \in Picker, NEW W, Within(pk, W), NEW from \in [Block -> SUBSET Peer]
    PROVE  Within(AbortDownload(pk, from), W)
<1> DEFINE hit == {b \in Block : from[b] # {} /\ pk.info[b].state = "requested"}
           freed == {b \in hit : pk.info[b].num_peers <= Cardinality(from[b])}
           fewer(i, ps) == [state     |-> i.state,
                            peer      |-> IF i.peer \in ps THEN NoPeer ELSE i.peer,
                            num_peers |-> i.num_peers - Cardinality(ps)]
           info == [b \in Block |->
                      IF b \in freed THEN FreshInfo
                      ELSE IF b \in hit THEN fewer(pk.info[b], from[b])
                      ELSE pk.info[b]]
           cnt == [p \in Piece |-> Add(pk.cnt[p], -In(freed, p), 0, 0)]
           next == [info |-> info, cnt |-> cnt, downloading |-> pk.downloading,
                    have |-> pk.have]
<1>1. ASSUME NEW b \in Block, info[b].state = "writing"  PROVE pk.info[b].state = "writing"
  <2>1. FreshInfo.state = "none"  BY DEF FreshInfo
  <2> QED  BY <1>1, <2>1
<1> HIDE DEF info, cnt
<1>2. next.info = info /\ next.downloading = pk.downloading  OBVIOUS
<1> HIDE DEF next
<1>3. ASSUME NEW b \in Block, next.info[b].state = "writing"
      PROVE  b \in W /\ PieceOf(b) \in next.downloading
  BY <1>1, <1>2, <1>3, WithinElim
<1>4. Within(next, W)  BY <1>3, WithinIntro
<1>5. Within(EraseIdle(next, Pieces(freed)), W)  BY <1>4, EraseWithin DEF EraseIdle
<1> QED  BY <1>5 DEF AbortDownload, info, cnt, next

\* mark_as_writing() adds the one block, and its entry.
LEMMA MarkAsWritingWithin ==
    ASSUME NEW pk \in Picker, NEW W, Within(pk, W), NEW b \in Block, NEW peer \in Peer
    PROVE  Within(MarkAsWriting(pk, b, peer), W \cup {b})
<1> DEFINE p == PieceOf(b)
           was == pk.info[b].state
           info(st, n) == [state |-> st, peer |-> peer, num_peers |-> n]
           set(i, c, d) == [info |-> [pk.info EXCEPT ![b] = i],
                            cnt |-> [pk.cnt EXCEPT ![p] = c],
                            downloading |-> d, have |-> pk.have]
<1>1. ASSUME NEW i, NEW c, NEW d, pk.downloading \subseteq d,
             i.state = "writing" => p \in d
      PROVE  Within(set(i, c, d), W \cup {b})
  <2> DEFINE f == [pk.info EXCEPT ![b] = i]
             g == [pk.cnt EXCEPT ![p] = c]
             next == [info |-> f, cnt |-> g, downloading |-> d, have |-> pk.have]
  <2>1. f[b] = i /\ \A x \in Block \ {b} : f[x] = pk.info[x]  BY PickerFields
  <2> HIDE DEF f, g
  <2>2. next.info = f /\ next.downloading = d  OBVIOUS
  <2> HIDE DEF next
  <2>3. ASSUME NEW x \in Block, next.info[x].state = "writing"
        PROVE  x \in W \cup {b} /\ PieceOf(x) \in next.downloading
    BY <1>1, <2>1, <2>2, <2>3, WithinElim
  <2>4. Within(next, W \cup {b})  BY <2>3, WithinIntro
  <2> QED  BY <2>4 DEF next, f, g
<1>2. info(was, pk.info[b].num_peers).state = was  OBVIOUS
<1>3. was = "writing" => p \in pk.downloading  BY WithinElim
<1> HIDE DEF set, info
<1>4. Within(set(info(was, pk.info[b].num_peers), pk.cnt[p], pk.downloading), W \cup {b})
  BY <1>1, <1>2, <1>3
<1>5. Within(set(info("writing", 0),
                 Add(pk.cnt[p], IF was = "requested" THEN -1 ELSE 0, 1, 0),
                 pk.downloading \cup {p}), W \cup {b})
  BY <1>1
<1>6. Within(pk, W \cup {b})  BY DEF Within
<1>7. \/ MarkAsWriting(pk, b, peer) = pk
      \/ MarkAsWriting(pk, b, peer)
           = set(info(was, pk.info[b].num_peers), pk.cnt[p], pk.downloading)
      \/ MarkAsWriting(pk, b, peer)
           = set(info("writing", 0),
                 Add(pk.cnt[p], IF was = "requested" THEN -1 ELSE 0, 1, 0),
                 pk.downloading \cup {p})
  BY Zenon DEF MarkAsWriting, set, info
<1> QED  BY <1>4, <1>5, <1>6, <1>7

\* mark_as_finished() takes every block out of that state it is called for.
LEMMA MarkAsFinishedWithin ==
    ASSUME NEW pk \in Picker, NEW W, Within(pk, W), NEW bs \in SUBSET Block, NEW who
    PROVE  Within(MarkAsFinished(pk, bs, who), W \ bs)
<1> DEFINE new == {b \in bs : /\ PieceOf(b) \in pk.downloading \/ PieceOf(b) \notin pk.have
                              /\ pk.info[b].state # "finished"}
           next == MarkAsFinished(pk, bs, who)
<1>1. next.downloading = pk.downloading \cup Pieces(new)
  BY DEF MarkAsFinished
<1>2. ASSUME NEW b \in Block, b \notin new  PROVE next.info[b] = pk.info[b]
  BY <1>2 DEF MarkAsFinished
<1>3. ASSUME NEW b \in new  PROVE next.info[b].state = "finished"
  BY <1>3 DEF MarkAsFinished
<1>4. ASSUME NEW b \in bs, pk.info[b].state = "writing"  PROVE b \in new
  BY <1>4, WithinElim
<1> HIDE DEF new, next
<1>5. ASSUME NEW b \in Block, next.info[b].state = "writing"
      PROVE  b \in W \ bs /\ PieceOf(b) \in next.downloading
  BY <1>1, <1>2, <1>3, <1>4, <1>5, WithinElim
<1>6. Within(next, W \ bs)  BY <1>5, WithinIntro
<1> QED  BY <1>6 DEF next

\* write_failed() does, since their entries are there.
LEMMA WriteFailedWithin ==
    ASSUME NEW pk \in Picker, NEW W, Within(pk, W), NEW bs \in SUBSET Block
    PROVE  Within(WriteFailed(pk, bs), W \ bs)
<1> DEFINE hit == {b \in bs : /\ PieceOf(b) \in pk.downloading
                              /\ pk.info[b].state # "finished"}
           lost == {b \in hit : pk.info[b].state = "writing"}
           info == [b \in Block |-> IF b \in hit
                                    THEN [state |-> "none", peer |-> NoPeer,
                                          num_peers |-> pk.info[b].num_peers]
                                    ELSE pk.info[b]]
           cnt == [p \in Piece |-> Add(pk.cnt[p], 0, -In(lost, p), 0)]
           next == [info |-> info, cnt |-> cnt, downloading |-> pk.downloading,
                    have |-> pk.have]
<1>1. ASSUME NEW b \in Block, info[b].state = "writing"
      PROVE  b \notin hit /\ pk.info[b].state = "writing"
  BY <1>1
<1>2. ASSUME NEW b \in bs, pk.info[b].state = "writing"  PROVE b \in hit
  BY <1>2, WithinElim
<1> HIDE DEF info, cnt
<1>3. next.info = info /\ next.downloading = pk.downloading  OBVIOUS
<1> HIDE DEF next, hit
<1>4. ASSUME NEW b \in Block, next.info[b].state = "writing"
      PROVE  b \in W \ bs /\ PieceOf(b) \in next.downloading
  BY <1>1, <1>2, <1>3, <1>4, WithinElim
<1>5. Within(next, W \ bs)  BY <1>4, WithinIntro
<1>6. Within(EraseIdle(next, Pieces(hit)), W \ bs)  BY <1>5, EraseWithin DEF EraseIdle
<1> QED  BY <1>6 DEF WriteFailed, info, cnt, next, hit

\* we_have() forgets the blocks of the piece.
LEMMA WeHaveWithin ==
    ASSUME NEW pk, NEW W, Within(pk, W), NEW p
    PROVE  Within(WeHave(pk, p), W)
<1> DEFINE next == Erase(pk, {p})
           new == WeHave(pk, p)
<1>1. new.info = next.info /\ new.downloading = next.downloading  BY DEF WeHave
<1>2. Within(next, W)  BY EraseWithin
<1> HIDE DEF next, new
<1>3. Within(new, W)  BY <1>1, <1>2 DEF Within, Writing
<1> QED  BY <1>3 DEF new

\* The record a handler works on, of which the same is true.
Few(s, W) == s \in NetType /\ Within(s.picker, W)

\* Taking requests off the queues.
LEMMA DequeueFew ==
    ASSUME NEW s, NEW W, Few(s, W), NEW bs \in Blocks
    PROVE  Few(Dequeue(s, bs), W)
<1> DEFINE q == [p \in Peer |-> [b \in Block |-> IF b \in bs[p] THEN "idle" ELSE s.queue[p][b]]]
           from == [b \in Block |-> {p \in Peer : b \in bs[p] /\ s.queue[p][b] \in Counted}]
<1>1. from \in [Block -> SUBSET Peer]  OBVIOUS
<1> HIDE DEF from, q
<1>2. Within(AbortDownload(s.picker, from), W)
  BY <1>1, NetFields, AbortDownloadWithin DEF Few
<1>3. Dequeue(s, bs).picker = AbortDownload(s.picker, from)
  <2>1. [s EXCEPT !.queue = q, !.picker = AbortDownload(s.picker, from)].picker
           = AbortDownload(s.picker, from)
    BY DEF Few, NetType
  <2> QED  BY <2>1, Zenon DEF Dequeue, q, from
<1>4. Dequeue(s, bs) \in NetType  BY DequeueType DEF Few
<1> QED  BY <1>2, <1>3, <1>4 DEF Few

\* Closing connections.
LEMMA DisconnectFew ==
    ASSUME NEW s, NEW W, Few(s, W), NEW ps
    PROVE  Few(Disconnect(s, ps), W)
<1> DEFINE off == ps \cap Up(s)
           next == Dequeue(s, [p \in Peer |-> IF p \in off THEN Block ELSE {}])
           c == [p \in Peer |-> IF p \in off THEN "gone" ELSE next.conn[p]]
           r == [p \in Peer |-> IF p \in off THEN NoBlock ELSE next.receiving[p]]
<1>1. Few(next, W)
  <2>1. [p \in Peer |-> IF p \in off THEN Block ELSE {}] \in Blocks  BY DEF Blocks
  <2> QED  BY <2>1, DequeueFew
<1> HIDE DEF next, off, c, r
<1>2. [next EXCEPT !.conn = c, !.receiving = r].picker = next.picker  BY <1>1 DEF Few, NetType
<1>3. Disconnect(s, ps).picker = next.picker  BY <1>2, Zenon DEF Disconnect, off, next, c, r
<1>4. Disconnect(s, ps) \in NetType  BY DisconnectType DEF Few
<1> QED  BY <1>1, <1>3, <1>4 DEF Few

\* Rejected requests.
LEMMA RejectFew ==
    ASSUME NEW s, NEW W, Few(s, W), NEW bs \in Blocks
    PROVE  Few(Reject(s, bs), W)
<1> DEFINE kept(p) == {b \in bs[p] : s.parole[p] /\ s.queue[p][b] = "download"}
           out == [p \in Peer |-> (bs[p] \cap InQueue(s, p, Sent)) \ kept(p)]
           next == Dequeue(s, out)
           q == [p \in Peer |-> [b \in Block |->
                    IF b \in kept(p) THEN "request" ELSE next.queue[p][b]]]
<1>1. out \in Blocks  BY InQueueType DEF Blocks
<1> HIDE DEF out
<1>2. Few(next, W)  BY <1>1, DequeueFew
<1> HIDE DEF next, q
<1>3. [next EXCEPT !.queue = q].picker = next.picker  BY <1>2 DEF Few, NetType
<1>4. Reject(s, bs).picker = next.picker  BY <1>3, Zenon DEF Reject, out, next, q
<1>5. Reject(s, bs) \in NetType  BY RejectType DEF Few
<1> QED  BY <1>2, <1>4, <1>5 DEF Few

\* Requests rejected on behalf of a peer without FAST.
LEMMA ImplicitRejectFew ==
    ASSUME NEW s, NEW W, Few(s, W), NEW bs \in Blocks
    PROVE  Few(ImplicitReject(s, bs), W)
<1>1. [p \in Peer |-> IF p \in FastPeer THEN {} ELSE bs[p]] \in Blocks  BY DEF Blocks
<1> QED  BY <1>1, RejectFew DEF ImplicitReject

\* set_upload_mode(true).
LEMMA EnterUploadModeFew ==
    ASSUME NEW s, NEW W, Few(s, W)
    PROVE  Few(EnterUploadMode(s), W)
<1> DEFINE t == [s EXCEPT !.upload_mode = TRUE]
           sent == [p \in Peer |-> InQueue(s, p, Sent) \ {s.receiving[p]}]
           d == Dequeue(t, Unsent(s, Up(s)))
<1>1. t \in NetType  BY SetUpload DEF Few
<1>2. t.picker = s.picker  BY DEF Few, NetType
<1>3. sent \in Blocks  BY InQueueType DEF Blocks
<1> HIDE DEF t, sent
<1>4. Few(t, W)  BY <1>1, <1>2 DEF Few
<1>5. Few(d, W)  BY <1>4, UnsentType, DequeueFew
<1> HIDE DEF d
<1>6. Few(ImplicitReject(d, sent), W)  BY <1>3, <1>5, ImplicitRejectFew
<1>7. EnterUploadMode(s) = s \/ EnterUploadMode(s) = ImplicitReject(d, sent)
  BY Zenon DEF EnterUploadMode, d, t, sent
<1> QED  BY <1>6, <1>7

\* cancel_block.
LEMMA CancelBlockFew ==
    ASSUME NEW s, NEW W, Few(s, W), NEW b
    PROVE  Few(CancelBlock(s, b), W)
<1> DEFINE here(places) == [p \in Peer |-> {b} \cap InQueue(s, p, places)]
           d == Dequeue(s, here({"request"}))
<1>1. ASSUME NEW places  PROVE here(places) \in Blocks  BY InQueueType DEF Blocks
<1> HIDE DEF here
<1>2. Few(d, W)  BY <1>1, DequeueFew
<1> HIDE DEF d
<1>3. Few(ImplicitReject(d, here(Sent)), W)  BY <1>1, <1>2, ImplicitRejectFew
<1>4. CancelBlock(s, b) = s \/ CancelBlock(s, b) = ImplicitReject(d, here(Sent))
  BY Zenon DEF CancelBlock, d, here
<1> QED  BY <1>3, <1>4

\* add_request.
LEMMA AddRequestFew ==
    ASSUME NEW s, NEW W, Few(s, W), NEW p \in Peer, NEW bs \in SUBSET Block
    PROVE  Few(AddRequest(s, p, bs), W)
<1> DEFINE from == [b \in Block |-> IF b \in bs THEN {p} ELSE {}]
           pk == MarkAsDownloading(s.picker, from)
           q == [s.queue EXCEPT ![p] =
                    [b \in Block |-> IF b \in bs THEN "request" ELSE s.queue[p][b]]]
<1>1. from \in [Block -> SUBSET Peer]  OBVIOUS
<1> HIDE DEF from
<1>2. Within(pk, W)  BY <1>1, NetFields, MarkAsDownloadingWithin DEF Few
<1> HIDE DEF pk, q
<1>3. [s EXCEPT !.picker = pk, !.queue = q].picker = pk  BY DEF Few, NetType
<1>4. AddRequest(s, p, bs).picker = pk  BY <1>3, Zenon DEF AddRequest, from, pk, q
<1>5. AddRequest(s, p, bs) \in NetType  BY AddRequestType DEF Few
<1> QED  BY <1>2, <1>4, <1>5 DEF Few

\* send_block_requests.
LEMMA SendFew ==
    ASSUME NEW s, NEW W, Few(s, W), NEW bs \in Blocks
    PROVE  Few(Send(s, bs), W)
<1> DEFINE late(p) == {b \in bs[p] : IsDownloaded(s.picker, b)}
           out == [p \in Peer |-> late(p)]
           next == Dequeue(s, out)
           q == [p \in Peer |-> [b \in Block |->
                    IF b \in bs[p] \ late(p) THEN "download" ELSE next.queue[p][b]]]
<1>1. out \in Blocks  BY DEF Blocks
<1> HIDE DEF out
<1>2. Few(next, W)  BY <1>1, DequeueFew
<1> HIDE DEF next, q
<1>3. [next EXCEPT !.queue = q].picker = next.picker  BY <1>2 DEF Few, NetType
<1>4. Send(s, bs).picker = next.picker  BY <1>3, Zenon DEF Send, late, out, next, q
<1>5. Send(s, bs) \in NetType  BY SendType DEF Few
<1> QED  BY <1>2, <1>4, <1>5 DEF Few

\* restore_piece_state.
LEMMA RestorePieceFew ==
    ASSUME NEW s, NEW W, Few(s, W), NEW p
    PROVE  Few(RestorePiece(s, p), W)
<1> DEFINE from == [b \in Block |->
                      IF PieceOf(b) = p THEN {q \in Up(s) : b \in Wanted(s, q)} ELSE {}]
           erased == Erase(s.picker, {p})
           pk == MarkAsDownloading(erased, from)
<1>1. from \in [Block -> SUBSET Peer]  BY DEF Up
<1> HIDE DEF from
<1>2. erased \in Picker /\ Within(erased, W)  BY NetFields, EraseType, EraseWithin DEF Few
<1> HIDE DEF erased
<1>3. Within(pk, W)  BY <1>1, <1>2, MarkAsDownloadingWithin
<1> HIDE DEF pk
<1>4. [s EXCEPT !.picker = pk].picker = pk  BY DEF Few, NetType
<1>5. RestorePiece(s, p).picker = pk  BY <1>4, Zenon DEF RestorePiece, from, erased, pk
<1>6. RestorePiece(s, p) \in NetType  BY RestorePieceType DEF Few
<1> QED  BY <1>3, <1>5, <1>6 DEF Few

\* handle_disk_error.
LEMMA HandleDiskErrorFew ==
    ASSUME NEW s, NEW W, Few(s, W), NEW error \in DiskError, NEW ps
    PROVE  Few(HandleDiskError(s, error, ps), W)
  BY DisconnectFew, EnterUploadModeFew DEF HandleDiskError, DiskError

\* piece_failed.
LEMMA PieceFailedFew ==
    ASSUME NEW s, NEW W, Few(s, W), NEW p, NEW ban
    PROVE  Few(PieceFailed(s, p, ban), W)
<1> DEFINE f == [q \in Peer |-> s.parole[q] \/ q \in Downloaders(s, p)]
           t == [s EXCEPT !.parole = f]
           d == Disconnect(t, ban)
<1>1. f \in FlagType  BY DEF FlagType
<1> HIDE DEF f
<1>2. t \in NetType  BY <1>1, SetParole DEF Few
<1>3. t.picker = s.picker  BY DEF Few, NetType
<1> HIDE DEF t
<1>4. Few(t, W)  BY <1>2, <1>3 DEF Few
<1>5. Few(d, W)  BY <1>4, DisconnectFew
<1> HIDE DEF d
<1>6. Few(RestorePiece(d, p), W)  BY <1>5, RestorePieceFew
<1>7. PieceFailed(s, p, ban) = RestorePiece(d, p)  BY Zenon DEF PieceFailed, d, t, f
<1> QED  BY <1>6, <1>7

\* piece_passed.
LEMMA PiecePassedFew ==
    ASSUME NEW s, NEW W, Few(s, W), NEW p \in Piece
    PROVE  Few(PiecePassed(s, p), W)
<1> DEFINE f == [q \in Peer |-> s.parole[q] /\ q \notin Downloaders(s, p)]
           pk == WeHave(s.picker, p)
<1>1. Within(pk, W)  BY WeHaveWithin DEF Few
<1> HIDE DEF f, pk
<1>2. [s EXCEPT !.parole = f, !.picker = pk].picker = pk  BY DEF Few, NetType
<1>3. PiecePassed(s, p).picker = pk  BY <1>2, Zenon DEF PiecePassed, f, pk
<1>4. PiecePassed(s, p) \in NetType  BY PiecePassedType DEF Few
<1> QED  BY <1>1, <1>3, <1>4 DEF Few

\* on_disk_write_complete settles every block it is called for, well or badly;
\* it leaves the picker of a seed alone, in which no block waits.
LEMMA OnWrittenFew ==
    ASSUME NEW s, NEW W, Few(s, W), Closed(s.picker), NEW ws \in SUBSET Write,
           NEW ret \in DiskError \cup {"ok"}
    PROVE  Few(OnWritten(s, ws, ret), W \ {w.block : w \in ws})
<1> DEFINE bs == {w.block : w \in ws}
           peer(b) == (CHOOSE w \in ws : w.block = b).peer
           who == [b \in bs |-> IF s.conn[peer(b)] = "up" THEN peer(b) ELSE NoPeer]
           failed == [s EXCEPT !.picker = WriteFailed(s.picker, bs)]
           written == [s EXCEPT !.picker = MarkAsFinished(s.picker, bs, who)]
           end == OnWritten(s, ws, ret)
<1>1. bs \in SUBSET Block  BY WriteFields
<1> HIDE DEF bs, who
<1>2. s \in NetType /\ s.picker \in Picker /\ Within(s.picker, W)  BY NetFields DEF Few
<1>3. Few(failed, W \ bs)
  <2> DEFINE pk == WriteFailed(s.picker, bs)
  <2>1. pk \in Picker /\ Within(pk, W \ bs)  BY <1>1, <1>2, WriteFailedType, WriteFailedWithin
  <2> HIDE DEF pk
  <2>2. [s EXCEPT !.picker = pk].picker = pk  BY <1>2 DEF NetType
  <2>3. [s EXCEPT !.picker = pk] \in NetType  BY <1>2, <2>1, SetPicker
  <2>4. failed.picker = pk /\ failed \in NetType  BY <2>2, <2>3, Zenon DEF pk
  <2> HIDE DEF failed
  <2> QED  BY <2>1, <2>4 DEF Few
<1>4. ASSUME ret = "ok", ws # {}, ~IsSeed(s)  PROVE Few(written, W \ bs)
  <2> DEFINE pk == MarkAsFinished(s.picker, bs, who)
  <2>1. Within(pk, W \ bs)  BY <1>1, <1>2, MarkAsFinishedWithin
  <2> HIDE DEF pk
  <2>2. [s EXCEPT !.picker = pk].picker = pk  BY <1>2 DEF NetType
  <2>3. written.picker = pk  BY <2>2, Zenon DEF pk
  <2>4. OnWritten(s, ws, ret) = written  BY <1>4, Zenon DEF OnWritten, bs, who
  <2> HIDE DEF written
  <2>5. written \in NetType  BY <1>2, <2>4, OnWrittenType
  <2> QED  BY <2>1, <2>3, <2>5 DEF Few
<1> HIDE DEF failed, written
<1>5. Few(end, W \ bs)
  <2>1. CASE ws = {}
    <3>1. bs = {} /\ W \ {} = W  BY <2>1 DEF bs
    <3> QED  BY <2>1, <3>1 DEF OnWritten
  <2>2. CASE ws # {} /\ ret # "ok"
    <3>1. end = HandleDiskError(failed, ret, {w.peer : w \in ws})
      BY <2>2, Zenon DEF OnWritten, failed, bs
    <3> QED  BY <1>3, <2>2, <3>1, HandleDiskErrorFew
  <2>3. CASE ws # {} /\ ret = "ok" /\ IsSeed(s)
    <3>1. end = s  BY <2>3, Zenon DEF OnWritten
    <3>2. ASSUME NEW b \in Block  PROVE s.picker.info[b].state = "none"
      BY <2>3 DEF IsSeed, Closed, Block, PieceOf
    <3>3. Within(s.picker, W \ bs)  BY <3>2, WithinIntro
    <3> QED  BY <1>2, <3>1, <3>3 DEF Few
  <2>4. CASE ws # {} /\ ret = "ok" /\ ~IsSeed(s)
    <3>1. end = written  BY <2>4, Zenon DEF OnWritten, written, bs, who
    <3> QED  BY <1>4, <2>4, <3>1
  <2> QED  BY <2>1, <2>2, <2>3, <2>4
<1> QED  BY <1>5 DEF bs

\* The handlers of the network thread leave no block waiting but those of W
\* and those they hand to the disk thread.
Left(W) == Within(picker', W)
Paid(W) ==
    /\ Left(W \cup {b \in Block : InJobs(jobs', b)})
    /\ \A b \in Block : InJobs(jobs, b) => InJobs(jobs', b)

\* A handler that ends in t leaves what t has.
LEMMA BecomeLeft ==
    ASSUME NEW t, NEW W, Few(t, W), Become(t)
    PROVE  Left(W)
<1>1. picker' = t.picker  BY DEF Become
<1> QED  BY <1>1 DEF Left, Few

\* request_a_block hands nothing to the disk.
LEMMA RefillLeft ==
    ASSUME NEW s, NEW W, Few(s, W), NEW p \in Peer, Refill(s, p)
    PROVE  Left(W)
<1>1. PICK pick \in Picks(s, p, MaxQueue) :
         \E bs \in Sends(AddRequest(s, p, pick), p, MaxQueue) :
             Become(Send(AddRequest(s, p, pick), Only(p, bs)))
  BY DEF Refill
<1> DEFINE asked == AddRequest(s, p, pick)
<1>2. pick \in SUBSET Block  BY <1>1 DEF Picks, Free, Busy, Pickable
<1>3. Few(asked, W)  BY <1>2, AddRequestFew
<1> HIDE DEF asked
<1>4. PICK bs \in Sends(asked, p, MaxQueue) : Become(Send(asked, Only(p, bs)))
  BY <1>1 DEF asked
<1>5. bs \in SUBSET Block  BY <1>4, InQueueType DEF Sends
<1>6. Few(Send(asked, Only(p, bs)), W)  BY <1>3, <1>5, OnlyType, SendFew
<1> QED  BY <1>4, <1>6, BecomeLeft

\* The handlers of what a peer sends, but for a whole piece message.
LEMMA MessageLeft ==
    ASSUME NEW W, Few(Net, W), NEW p \in Peer, NEW b \in Block,
           \/ Connect(p) \/ IncomingChoke(p) \/ IncomingUnchoke(p)
           \/ IncomingReject(p, b) \/ StartReceivePiece(p, b)
    PROVE  Left(W)
<1>0. Net \in NetType /\ Within(picker, W) /\ Net.picker = picker  BY DEF Few, Net
<1>1. CASE Connect(p)
  <2>1. picker' = picker  BY <1>1 DEF Connect, Become, Net
  <2> QED  BY <1>0, <2>1 DEF Left
<1>2. CASE IncomingChoke(p)
  <2> DEFINE f == [Net.choked EXCEPT ![p] = TRUE]
             s == [Net EXCEPT !.choked = f]
             cleared == IF parole[p] THEN s ELSE Dequeue(s, Unsent(s, {p}))
             end == ImplicitReject(cleared, Only(p, InQueue(s, p, Sent)))
  <2>1. f \in FlagType  BY <1>0, NetFields DEF FlagType
  <2> HIDE DEF f
  <2>2. s \in NetType  BY <1>0, <2>1, SetChoked
  <2>3. s.picker = Net.picker  BY <1>0 DEF NetType
  <2> HIDE DEF s
  <2>4. Few(s, W)  BY <1>0, <2>2, <2>3 DEF Few
  <2>5. Few(cleared, W)  BY <2>4, DequeueFew, UnsentType
  <2> HIDE DEF cleared
  <2>6. Few(end, W)  BY <2>5, InQueueType, OnlyType, ImplicitRejectFew
  <2> HIDE DEF end
  <2>7. Become(end)  BY <1>2, Zenon DEF IncomingChoke, end, cleared, s, f
  <2> QED  BY <2>6, <2>7, BecomeLeft
<1>3. CASE IncomingUnchoke(p)
  <2> DEFINE f == [Net.choked EXCEPT ![p] = FALSE]
             s == [Net EXCEPT !.choked = f]
  <2>1. f \in FlagType  BY <1>0, NetFields DEF FlagType
  <2> HIDE DEF f
  <2>2. s \in NetType  BY <1>0, <2>1, SetChoked
  <2>3. s.picker = Net.picker  BY <1>0 DEF NetType
  <2> HIDE DEF s
  <2>4. Refill(s, p)  BY <1>3, Zenon DEF IncomingUnchoke, s, f
  <2>5. Few(s, W)  BY <1>0, <2>2, <2>3 DEF Few
  <2> QED  BY <2>4, <2>5, RefillLeft
<1>4. CASE IncomingReject(p, b)
  <2> DEFINE s == Reject(Net, Only(p, {b}))
  <2>1. Few(s, W)  BY OnlyType, RejectFew
  <2>2. Refill(s, p) \/ Become(s)  BY <1>4, Zenon DEF IncomingReject
  <2> HIDE DEF s
  <2> QED  BY <2>1, <2>2, RefillLeft, BecomeLeft
<1>5. CASE StartReceivePiece(p, b)
  <2>1. picker' = picker  BY <1>5 DEF StartReceivePiece, Become, Net
  <2> QED  BY <1>0, <2>1 DEF Left
<1> QED  BY <1>1, <1>2, <1>3, <1>4, <1>5

\* A block that is of use starts to wait, and its write job is queued.
LEMMA AcceptBlockPaid ==
    ASSUME NEW s, NEW W, Few(s, W), NEW p \in Peer, NEW b \in Block, NEW good \in BOOLEAN,
           jobs \in Seq(Job), AcceptBlock(s, p, b, good)
    PROVE  Paid(W)
<1> DEFINE q == [s.queue EXCEPT ![p][b] = "idle"]
           pk == MarkAsWriting(s.picker, b, p)
           taken == [s EXCEPT !.queue = q, !.picker = pk]
           multi == s.picker.info[b].num_peers > 1
           next == IF multi THEN CancelBlock(taken, b) ELSE taken
           w == [block |-> b, peer |-> p, good |-> good]
           x == [op |-> "write", w |-> w]
           y == [op |-> "hash", piece |-> PieceOf(b)]
           hash == IF /\ IsPieceFinished(next.picker, PieceOf(b))
                      /\ ~IsPieceFinished(s.picker, PieceOf(b))
                   THEN <<y>> ELSE <<>>
           X == W \cup {b}
<1>0. s \in NetType /\ s.picker \in Picker /\ Within(s.picker, W)  BY NetFields DEF Few
<1>1. q \in QueueType  BY <1>0, NetFields DEF QueueType, Place
<1>2. pk \in Picker /\ Within(pk, X)  BY <1>0, MarkAsWritingType, MarkAsWritingWithin
<1>3. x \in Job /\ y \in Job /\ x.op = "write" /\ x.w.block = b
  BY DEF Job, Write, Block, PieceOf
<1> HIDE DEF q, pk, X, x, y
<1>4. taken \in NetType  BY <1>0, <1>1, <1>2, SetQueuePicker
<1>5. taken.picker = pk  BY <1>0 DEF NetType
<1> HIDE DEF taken, multi
<1>6. Few(taken, X)  BY <1>2, <1>4, <1>5 DEF Few
<1>7. Few(next, X)  BY <1>6, CancelBlockFew
<1> HIDE DEF next
<1>8. Refill(next, p) /\ jobs' = jobs \o <<x>> \o hash
  BY Zenon DEF AcceptBlock, next, multi, taken, q, pk, x, y
<1>9. Left(X)  BY <1>7, <1>8, RefillLeft
<1> HIDE DEF hash
<1>10. hash = <<y>> \/ hash = <<>>  BY DEF hash
<1>11. /\ Len(jobs) + 1 \in DOMAIN jobs' /\ jobs'[Len(jobs) + 1] = x
       /\ \A i \in DOMAIN jobs : i \in DOMAIN jobs' /\ jobs'[i] = jobs[i]
  <2>1. CASE hash = <<>>  BY <1>3, <1>8, <2>1
  <2>2. CASE hash = <<y>>  BY <1>3, <1>8, <2>2
  <2> QED  BY <1>10, <2>1, <2>2
<1>12. InJobs(jobs', b)  BY <1>3, <1>11 DEF InJobs
<1>13. \A c \in Block : InJobs(jobs, c) => InJobs(jobs', c)  BY <1>11 DEF InJobs
<1>14. X \subseteq W \cup {c \in Block : InJobs(jobs', c)}  BY <1>12 DEF X
<1>15. Left(W \cup {c \in Block : InJobs(jobs', c)})  BY <1>9, <1>14 DEF Left, Within
<1> QED  BY <1>13, <1>15 DEF Paid

\* A handler without a write job.
LEMMA UnpaidPaid ==
    ASSUME NEW W, Left(W), UNCHANGED jobs
    PROVE  Paid(W)
<1>1. W \subseteq W \cup {b \in Block : InJobs(jobs', b)}  OBVIOUS
<1>2. Left(W \cup {b \in Block : InJobs(jobs', b)})  BY <1>1 DEF Left, Within
<1> QED  BY <1>2 DEF Paid

\* incoming_piece.
LEMMA IncomingPiecePaid ==
    ASSUME NEW W, Few(Net, W), jobs \in Seq(Job), NEW p \in Peer, NEW drop \in SUBSET Block,
           NEW good \in BOOLEAN, IncomingPiece(p, drop, good)
    PROVE  Paid(W)
<1>0. Net \in NetType /\ Net.picker = picker  BY DEF Few, Net
<1> DEFINE b == receiving[p]
           r == [Net.receiving EXCEPT ![p] = NoBlock]
           here == [Net EXCEPT !.receiving = r]
           s == Dequeue(here, Only(p, drop))
           q == [s.queue EXCEPT ![p][b] = "idle"]
           late == [s EXCEPT !.queue = q]
<1>1. b \in Block
  <2>1. Net.receiving = receiving  BY DEF Net
  <2>2. b # NoBlock  BY Zenon DEF IncomingPiece
  <2> QED  BY <1>0, <2>1, <2>2, NetFields DEF ReceivingType
<1>2. Few(here, W)
  <2>1. r \in ReceivingType  BY <1>0, NetFields DEF ReceivingType
  <2> HIDE DEF r
  <2>2. here \in NetType  BY <1>0, <2>1, SetReceiving
  <2>3. here.picker = Net.picker  BY <1>0 DEF NetType
  <2> HIDE DEF here
  <2> QED  BY <2>2, <2>3 DEF Few
<1> HIDE DEF here
<1>3. ASSUME NEW first \in InQueue(Net, p, Sent)
      PROVE  Few(Dequeue(here, Only(p, {first})), W)
  <2>1. {first} \in SUBSET Block  BY InQueueType
  <2> QED  BY <1>2, <2>1, OnlyType, DequeueFew
<1>4. Few(s, W)  BY <1>2, OnlyType, DequeueFew
<1> HIDE DEF s, b
<1>5. Few(late, W)
  <2>1. q \in QueueType  BY <1>1, <1>4, NetFields DEF QueueType, Place, Few
  <2> HIDE DEF q
  <2>2. late \in NetType  BY <1>4, <2>1, SetQueue DEF Few
  <2>3. late.picker = s.picker  BY <1>4 DEF Few, NetType
  <2> HIDE DEF late
  <2> QED  BY <1>4, <2>2, <2>3 DEF Few
<1>6. \/ /\ \E first \in InQueue(Net, p, Sent) : Become(Dequeue(here, Only(p, {first})))
         /\ UNCHANGED jobs
      \/ Refill(late, p) /\ UNCHANGED jobs
      \/ AcceptBlock(s, p, b, good)
  BY Zenon DEF IncomingPiece, here, s, b
<1> HIDE DEF late
<1>7. CASE /\ \E first \in InQueue(Net, p, Sent) : Become(Dequeue(here, Only(p, {first})))
           /\ UNCHANGED jobs
  <2>1. PICK first \in InQueue(Net, p, Sent) : Become(Dequeue(here, Only(p, {first})))
    BY <1>7
  <2>2. Few(Dequeue(here, Only(p, {first})), W)  BY <1>3
  <2> QED  BY <1>7, <2>1, <2>2, BecomeLeft, UnpaidPaid
<1>8. CASE Refill(late, p) /\ UNCHANGED jobs  BY <1>5, <1>8, RefillLeft, UnpaidPaid
<1>9. CASE AcceptBlock(s, p, b, good)  BY <1>1, <1>4, <1>9, AcceptBlockPaid
<1> QED  BY <1>6, <1>7, <1>8, <1>9

\* snub_peer.
LEMMA SnubPeerLeft ==
    ASSUME NEW W, Few(Net, W), NEW p \in Peer, SnubPeer(p)
    PROVE  Left(W)
<1> DEFINE cleared == Dequeue(Net, Unsent(Net, {p}))
<1>1. Few(cleared, W)  BY UnsentType, DequeueFew
<1> HIDE DEF cleared
<1> DEFINE s(pick) == AddRequest(cleared, p, pick)
           giveUp(pick, b) ==
               [Dequeue(s(pick), Only(p, {b})) EXCEPT !.queue[p][b] = "timed_out"]
<1>2. PICK pick \in Picks(cleared, p, 2) :
         \/ \E bs \in Sends(s(pick), p, 1) : Become(Send(s(pick), Only(p, bs)))
         \/ Become(s(pick))
         \/ \E b \in InQueue(s(pick), p, {"download"}) :
               \E bs \in Sends(giveUp(pick, b), p, 1) :
                  Become(Send(giveUp(pick, b), Only(p, bs)))
  BY Zenon DEF SnubPeer, cleared
<1>3. Few(s(pick), W)
  <2>1. pick \in SUBSET Block  BY <1>2 DEF Picks, Free, Busy, Pickable
  <2> QED  BY <1>1, <2>1, AddRequestFew
<1>4. ASSUME NEW b \in InQueue(s(pick), p, {"download"})  PROVE Few(giveUp(pick, b), W)
  <2>1. b \in Block /\ {b} \in SUBSET Block  BY InQueueType
  <2> DEFINE t == Dequeue(s(pick), Only(p, {b}))
             q == [t.queue EXCEPT ![p][b] = "timed_out"]
             u == [t EXCEPT !.queue = q]
  <2>2. Few(t, W)
    <3> HIDE DEF s
    <3> QED  BY <1>3, <2>1, OnlyType, DequeueFew
  <2> HIDE DEF t
  <2>3. q \in QueueType  BY <2>1, <2>2, NetFields DEF QueueType, Place, Few
  <2> HIDE DEF q
  <2>4. u \in NetType  BY <2>2, <2>3, SetQueue DEF Few
  <2>5. u.picker = t.picker  BY <2>2 DEF Few, NetType
  <2>6. giveUp(pick, b) = u  BY Zenon DEF giveUp, u, t, q
  <2> HIDE DEF u, s, giveUp
  <2>7. Few(u, W)  BY <2>2, <2>4, <2>5 DEF Few
  <2> QED  BY <2>6, <2>7
<1>5. ASSUME NEW t, Few(t, W), NEW bs \in Sends(t, p, 1), Become(Send(t, Only(p, bs)))
      PROVE  Left(W)
  <2>1. bs \in SUBSET Block  BY InQueueType DEF Sends
  <2>2. Few(Send(t, Only(p, bs)), W)  BY <1>5, <2>1, OnlyType, SendFew
  <2> QED  BY <1>5, <2>2, BecomeLeft
<1> HIDE DEF s, giveUp
<1>6. CASE \E bs \in Sends(s(pick), p, 1) : Become(Send(s(pick), Only(p, bs)))
  BY <1>3, <1>5, <1>6
<1>7. CASE Become(s(pick))  BY <1>3, <1>7, BecomeLeft
<1>8. CASE \E b \in InQueue(s(pick), p, {"download"}) :
             \E bs \in Sends(giveUp(pick, b), p, 1) :
                Become(Send(giveUp(pick, b), Only(p, bs)))
  BY <1>4, <1>5, <1>8
<1> QED  BY <1>2, <1>6, <1>7, <1>8

\* set_upload_mode.
LEMMA SetUploadModeLeft ==
    ASSUME NEW W, Few(Net, W), SetUploadMode
    PROVE  Left(W)
<1>0. Net \in NetType  BY DEF Few
<1>1. CASE upload_mode
  <2> DEFINE s == [Net EXCEPT !.upload_mode = FALSE]
  <2>1. s \in NetType  BY <1>0, SetUpload
  <2>2. s.picker = Net.picker  BY <1>0 DEF NetType
  <2> HIDE DEF s
  <2>3. PICK bs \in [Peer -> SUBSET Block] : Become(Send(s, bs))
    BY <1>1, Zenon DEF SetUploadMode, s
  <2>4. Few(s, W)  BY <2>1, <2>2 DEF Few
  <2>5. Few(Send(s, bs), W)  BY <2>4, SendFew DEF Blocks
  <2> QED  BY <2>3, <2>5, BecomeLeft
<1>2. CASE ~upload_mode
  <2>1. Become(EnterUploadMode(Net))  BY <1>2, Zenon DEF SetUploadMode
  <2> QED  BY <2>1, EnterUploadModeFew, BecomeLeft
<1> QED  BY <1>1, <1>2

\* A sequence is its head and its tail.
LEMMA TailParts ==
    ASSUME NEW S, NEW s \in Seq(S), s # <<>>
    PROVE  /\ Tail(s) \in Seq(S) /\ Head(s) \in S
           /\ 1 \in DOMAIN s /\ s[1] = Head(s)
           /\ \A i \in DOMAIN Tail(s) : i \in Nat \ {0} /\ i + 1 \in DOMAIN s /\ Tail(s)[i] = s[i + 1]
           /\ \A i \in DOMAIN s : i \in Nat \ {0} /\ (i = 1 \/ (i - 1 \in DOMAIN Tail(s) /\ s[i] = Tail(s)[i - 1]))
  OBVIOUS

\* What one appends is its last element.
LEMMA AppendParts ==
    ASSUME NEW S, NEW s \in Seq(S), NEW x \in S
    PROVE  /\ Append(s, x) \in Seq(S)
           /\ \A i \in DOMAIN s : i \in Nat /\ i < Len(s) + 1 /\ i \in DOMAIN Append(s, x)
                                  /\ Append(s, x)[i] = s[i]
           /\ Len(s) + 1 \in DOMAIN Append(s, x) /\ Append(s, x)[Len(s) + 1] = x
           /\ \A i \in DOMAIN Append(s, x) : i \in DOMAIN s \/ i = Len(s) + 1
           /\ Len(s) \in Nat
  OBVIOUS

\* A completion settles the blocks it is about and makes no other block wait.
LEMMA CompletionLeft ==
    ASSUME NEW W, Few(Net, W), Closed(Net.picker), done \in Seq(Completion), CompletionStep
    PROVE  Left(W \ {w.block : w \in Head(done).ws})
<1> DEFINE c == Head(done)
           R == W \ {w.block : w \in c.ws}
<1>1. c \in Completion  BY DEF CompletionStep, CompleteWrite, CompleteHash
<1> HIDE DEF c
<1> DEFINE written == OnWritten(Net, c.ws, c.ret)
<1>2. Few(written, R)  BY <1>1, CompletionFields, OnWrittenFew
<1> HIDE DEF written
<1>3. ASSUME CompleteWrite  PROVE Left(R)
  <2>1. Become(written)  BY <1>3, Zenon DEF CompleteWrite, written, c
  <2> QED  BY <1>2, <2>1, BecomeLeft
<1>4. ASSUME CompleteHash  PROVE Left(R)
  <2> DEFINE s == IF c.verdict \in DiskError THEN HandleDiskError(written, c.verdict, {})
                                             ELSE written
             p == c.piece
  <2>1. c.op = "hash"  BY <1>4 DEF CompleteHash, c
  <2>2. PieceFinished(s, p, c.verdict)  BY <1>4, Zenon DEF CompleteHash, written, c
  <2> HIDE DEF R
  <2>3. Few(s, R)  BY <1>2, HandleDiskErrorFew
  <2> HIDE DEF s
  <2>4. p \in Piece  BY <1>1, <2>1, CompletionFields
  <2> HIDE DEF p
  <2>5. \/ Become(s)
        \/ Become(PiecePassed(s, p))
        \/ \E ban \in Bans(s, p) : Become(PieceFailed(s, p, ban))
        \/ Become(RestorePiece(s, p))
    BY <2>2 DEF PieceFinished
  <2>6. CASE Become(s)  BY <2>3, <2>6, BecomeLeft
  <2>7. CASE Become(PiecePassed(s, p))  BY <2>3, <2>4, <2>7, PiecePassedFew, BecomeLeft
  <2>8. CASE \E ban \in Bans(s, p) : Become(PieceFailed(s, p, ban))
    BY <2>3, <2>8, PieceFailedFew, BecomeLeft
  <2>9. CASE Become(RestorePiece(s, p))  BY <2>3, <2>9, RestorePieceFew, BecomeLeft
  <2> QED  BY <2>5, <2>6, <2>7, <2>8, <2>9
<1>5. Left(R)  BY <1>3, <1>4 DEF CompletionStep
<1> QED  BY <1>5 DEF c

-----------------------------------------------------------------------------
(* The disk thread. *)

\* The disk thread owes the callback of block b.
Owes(b) == InJobs(jobs, b) \/ InCache(cache, b) \/ InDone(done, b)

\* A completion that is posted comes after those that were.
LEMMA PostOwes ==
    ASSUME NEW c, done \in Seq(Completion), c \in Completion, done' = Append(done, c)
    PROVE  /\ \A b : InDone(done, b) => InDone(done', b)
           /\ \A w \in c.ws : InDone(done', w.block)
<1>1. /\ \A i \in DOMAIN done : i \in DOMAIN done' /\ done'[i] = done[i]
      /\ Len(done) + 1 \in DOMAIN done' /\ done'[Len(done) + 1] = c
  BY AppendParts
<1> QED  BY <1>1 DEF InDone

\* The job the disk thread takes is the first, and the only one it takes.
LEMMA TakeOwes ==
    ASSUME jobs \in Seq(Job), jobs # <<>>, jobs' = Tail(jobs), NEW b, InJobs(jobs, b)
    PROVE  InJobs(jobs', b) \/ (Head(jobs).op = "write" /\ Head(jobs).w.block = b)
<1>1. PICK i \in DOMAIN jobs : jobs[i].op = "write" /\ jobs[i].w.block = b  BY DEF InJobs
<1>2. i = 1 \/ (i - 1 \in DOMAIN jobs' /\ jobs'[i - 1] = jobs[i])  BY TailParts
<1>3. jobs[1] = Head(jobs)  BY TailParts
<1> QED  BY <1>1, <1>2, <1>3 DEF InJobs

\* Whatever the disk thread does with a block, it goes on to owe its callback:
\* the block stays in the queue, goes to the cache or is reported on.
LEMMA DiskOwes ==
    ASSUME TypeOK, DiskStep \/ \E p \in Piece : DiskFlush(p), NEW b \in Block, Owes(b)
    PROVE  Owes(b)'
<1>0. /\ jobs \in Seq(Job) /\ done \in Seq(Completion) /\ cache \in SUBSET Write
      /\ done' \in Seq(Completion)
  <2>1. TypeOK'  BY NextOK DEF Next
  <2> QED  BY <2>1 DEF TypeOK
<1>1. ASSUME NEW c, done' = Append(done, c)  PROVE c \in Completion
  <2>1. Len(done) + 1 \in DOMAIN done' /\ done'[Len(done) + 1] = c  BY <1>0, <1>1
  <2> QED  BY <1>0, <2>1
<1>2. CASE DiskWriteDirect
  <2>1. PICK ret \in DiskError \cup {"ok"} :
          /\ cache' = cache \ {Head(jobs).w}
          /\ done' = Append(done, [op |-> "write", ws |-> {Head(jobs).w}, ret |-> ret])
    BY <1>2 DEF DiskWriteDirect, FlushRange
  <2> DEFINE c == [op |-> "write", ws |-> {Head(jobs).w}, ret |-> ret]
  <2>2. c.ws = {Head(jobs).w} /\ done' = Append(done, c)  BY <2>1
  <2> HIDE DEF c
  <2>3. /\ \A x : InDone(done, x) => InDone(done', x)
        /\ InDone(done', Head(jobs).w.block)
    BY <1>0, <1>1, <2>2, PostOwes
  <2>4. jobs # <<>> /\ jobs' = Tail(jobs)  BY <1>2 DEF DiskWriteDirect
  <2>5. InJobs(jobs, b) => InJobs(jobs', b) \/ Head(jobs).w.block = b  BY <1>0, <2>4, TakeOwes
  <2>6. InCache(cache, b) => InCache(cache', b) \/ Head(jobs).w.block = b
    BY <2>1 DEF InCache
  <2> QED  BY <2>3, <2>5, <2>6 DEF Owes
<1>3. CASE DiskWrite
  <2> DEFINE w == Head(jobs).w
             old == {x \in cache : x.block = w.block}
             c == [op |-> "write", ws |-> old, ret |-> "ok"]
  <2>1. /\ jobs # <<>> /\ jobs' = Tail(jobs) /\ cache' = (cache \ old) \cup {w}
        /\ done' = done \/ done' = Append(done, c)
    BY <1>3 DEF DiskWrite
  <2>2. InJobs(jobs, b) => InJobs(jobs', b) \/ w.block = b  BY <1>0, <2>1, TakeOwes
  <2>3. InCache(cache', w.block)  BY <2>1 DEF InCache
  <2>4. InCache(cache, b) => InCache(cache', b)  BY <2>1 DEF InCache
  <2> HIDE DEF c
  <2>5. InDone(done, b) => InDone(done', b)  BY <1>0, <1>1, <2>1, PostOwes
  <2> QED  BY <2>2, <2>3, <2>4, <2>5 DEF Owes
<1>4. CASE DiskHash
  <2> DEFINE p == Head(jobs).piece
  <2>1. PICK ret, verdict :
          /\ cache' = cache \ Cached(p)
          /\ done' = Append(done, [op |-> "hash", ws |-> Cached(p), ret |-> ret,
                                   piece |-> p, verdict |-> verdict])
    BY <1>4 DEF DiskHash, FlushRange
  <2> DEFINE c == [op |-> "hash", ws |-> Cached(p), ret |-> ret, piece |-> p, verdict |-> verdict]
  <2>2. c.ws = Cached(p) /\ done' = Append(done, c)  BY <2>1
  <2> HIDE DEF c
  <2>3. /\ \A x : InDone(done, x) => InDone(done', x)
        /\ \A w \in Cached(p) : InDone(done', w.block)
    BY <1>0, <1>1, <2>2, PostOwes
  <2>4. jobs # <<>> /\ jobs' = Tail(jobs) /\ Head(jobs).op = "hash"  BY <1>4 DEF DiskHash
  <2>5. InJobs(jobs, b) => InJobs(jobs', b)  BY <1>0, <2>4, TakeOwes
  <2>6. InCache(cache, b) => InCache(cache', b) \/ \E w \in Cached(p) : w.block = b
    BY <2>1 DEF InCache
  <2> QED  BY <2>3, <2>5, <2>6 DEF Owes
<1>5. CASE \E p \in Piece : DiskFlush(p)
  <2>1. PICK ws, ret :
          /\ cache' = cache \ ws
          /\ done' = Append(done, [op |-> "write", ws |-> ws, ret |-> ret])
    BY <1>5 DEF DiskFlush, FlushRange
  <2> DEFINE c == [op |-> "write", ws |-> ws, ret |-> ret]
  <2>2. c.ws = ws /\ done' = Append(done, c)  BY <2>1
  <2> HIDE DEF c
  <2>3. /\ \A x : InDone(done, x) => InDone(done', x)
        /\ \A w \in ws : InDone(done', w.block)
    BY <1>0, <1>1, <2>2, PostOwes
  <2>4. jobs' = jobs  BY <1>5 DEF DiskFlush
  <2>5. InCache(cache, b) => InCache(cache', b) \/ \E w \in ws : w.block = b
    BY <2>1 DEF InCache
  <2> QED  BY <2>3, <2>4, <2>5 DEF Owes
<1> QED  BY <1>2, <1>3, <1>4, <1>5 DEF DiskStep, DiskWriteJob

-----------------------------------------------------------------------------
(* The theorem. *)

\* Every block that waits has an entry in m_downloads and a callback to come.
WaitInv == HaveInv /\ Within(picker, {b \in Block : Owes(b)})

\* Every step keeps it so.
LEMMA NextWaits ==
    ASSUME WaitInv, [Next]_vars
    PROVE  WaitInv'
<1> DEFINE W == {b \in Block : Owes(b)}
<1>1. HaveInv'  BY NextGood, NextOK DEF WaitInv, HaveInv, Good
<1>2. /\ Few(Net, W) /\ Closed(Net.picker)
      /\ jobs \in Seq(Job) /\ done \in Seq(Completion)
  <2>1. NetOK /\ DiskOK  BY TypeHalves DEF HaveInv, WaitInv
  <2>2. Net.picker = picker  BY DEF Net
  <2> QED  BY <2>1, <2>2
           DEF NetOK, DiskOK, WaitInv, HaveInv, HaveIsClosed, Few, Closed
<1>3. SUFFICES Within(picker', {b \in Block : Owes(b)'})  BY <1>1 DEF WaitInv
<1>4. ASSUME Paid(W), UNCHANGED <<cache, done>>
      PROVE  Within(picker', {b \in Block : Owes(b)'})
  <2>1. W \cup {b \in Block : InJobs(jobs', b)} \subseteq {b \in Block : Owes(b)'}
    BY <1>4 DEF Paid, Owes
  <2> QED  BY <1>4, <2>1 DEF Paid, Left, Within
<1> HIDE DEF W
<1>5. ASSUME NEW p \in Peer, PeerStep(p)  PROVE Within(picker', {b \in Block : Owes(b)'})
  <2>0. UNCHANGED <<cache, done>>
    BY <1>5 DEF PeerStep, Connect, IncomingChoke, IncomingUnchoke, IncomingReject,
        StartReceivePiece, IncomingPiece, SnubPeer, PeerLost, diskVars
  <2>1. CASE \/ Connect(p) \/ IncomingChoke(p) \/ IncomingUnchoke(p)
             \/ \E b \in Block : IncomingReject(p, b) \/ StartReceivePiece(p, b)
    <3>1. PICK x \in Piece, i \in Index : TRUE  BY BlockAssumption
    <3>2. <<x, i>> \in Block  BY DEF Block
    <3>3. Left(W)  BY <1>2, <2>1, <3>2, MessageLeft
    <3>4. UNCHANGED jobs
      BY <2>1 DEF Connect, IncomingChoke, IncomingUnchoke, IncomingReject, StartReceivePiece
    <3> QED  BY <1>4, <2>0, <3>3, <3>4, UnpaidPaid
  <2>2. CASE \E drop \in SUBSET Block, good \in BOOLEAN : IncomingPiece(p, drop, good)
    BY <1>2, <1>4, <2>0, <2>2, IncomingPiecePaid
  <2>3. CASE SnubPeer(p)
    <3>1. UNCHANGED jobs  BY <2>3 DEF SnubPeer
    <3> QED  BY <1>2, <1>4, <2>0, <2>3, <3>1, SnubPeerLeft, UnpaidPaid
  <2>4. CASE PeerLost(p)
    <3>1. Become(Disconnect(Net, {p})) /\ UNCHANGED jobs  BY <2>4 DEF PeerLost
    <3>2. Few(Disconnect(Net, {p}), W)  BY <1>2, DisconnectFew
    <3> QED  BY <1>4, <2>0, <3>1, <3>2, BecomeLeft, UnpaidPaid
  <2> QED  BY <1>5, <2>1, <2>2, <2>3, <2>4, SMTT(60) DEF PeerStep
<1>6. ASSUME SetUploadMode  PROVE Within(picker', {b \in Block : Owes(b)'})
  <2>1. UNCHANGED <<jobs, cache, done>>  BY <1>6 DEF SetUploadMode, diskVars
  <2> QED  BY <1>2, <1>4, <1>6, <2>1, SetUploadModeLeft, UnpaidPaid
<1>7. ASSUME DiskStep \/ \E p \in Piece : DiskFlush(p)
      PROVE  Within(picker', {b \in Block : Owes(b)'})
  <2>1. picker' = picker
    BY <1>7 DEF DiskStep, DiskWriteJob, DiskWriteDirect, DiskWrite, DiskHash, DiskFlush, netVars
  <2>2. W \subseteq {b \in Block : Owes(b)'}  BY <1>7, DiskOwes DEF W, WaitInv, HaveInv
  <2> QED  BY <1>2, <2>1, <2>2 DEF Few, Within, Net
<1>8. ASSUME CompletionStep  PROVE Within(picker', {b \in Block : Owes(b)'})
  <2> DEFINE bs == {w.block : w \in Head(done).ws}
  <2>1. Left(W \ bs)  BY <1>2, <1>8, CompletionLeft
  <2>2. done # <<>> /\ done' = Tail(done) /\ UNCHANGED <<jobs, cache>>
    BY <1>8 DEF CompletionStep, CompleteWrite, CompleteHash, diskVars
  <2>3. ASSUME NEW b \in Block, b \notin bs, InDone(done, b)  PROVE InDone(done', b)
    <3>1. PICK i \in DOMAIN done : \E w \in done[i].ws : w.block = b  BY <2>3 DEF InDone
    <3>2. i = 1 \/ (i - 1 \in DOMAIN done' /\ done'[i - 1] = done[i])
      BY <1>2, <2>2, TailParts
    <3>3. i # 1
      <4>1. done[1] = Head(done)  BY <1>2, <2>2, TailParts
      <4> QED  BY <2>3, <3>1, <4>1
    <3> QED  BY <3>1, <3>2, <3>3 DEF InDone
  <2> HIDE DEF bs
  <2>4. W \ bs \subseteq {b \in Block : Owes(b)'}  BY <2>2, <2>3 DEF W, Owes
  <2> QED  BY <2>1, <2>4 DEF Left, Within
<1>9. ASSUME UNCHANGED vars  PROVE Within(picker', {b \in Block : Owes(b)'})
  <2>1. UNCHANGED <<picker, jobs, cache, done>>  BY <1>9 DEF vars, netVars, diskVars
  <2>2. {b \in Block : Owes(b)'} = W  BY <2>1 DEF Owes, W
  <2> QED  BY <1>2, <2>1, <2>2 DEF Few, Net
<1> QED  BY <1>5, <1>6, <1>7, <1>8, <1>9 DEF Next

\* No block is stuck in the writing state, with any peers, any data and any
\* disk errors: its write is in the queue of the disk thread, in its cache or
\* among the completions the network thread has not run.
THEOREM WritingTheorem == Spec => []WritingIsPending
<1>1. Init => WaitInv
  <2>1. ASSUME Init  PROVE \A b \in Block : picker.info[b].state # "writing"
    BY <2>1 DEF Init, EmptyPicker, FreshInfo
  <2>2. Init => Within(picker, {b \in Block : Owes(b)})  BY <2>1, WithinIntro
  <2>3. Init => HaveIsClosed  BY DEF Init, HaveIsClosed, EmptyPicker
  <2> QED  BY <2>2, <2>3, InitOK DEF WaitInv, HaveInv
<1>2. WaitInv /\ [Next]_vars => WaitInv'  BY NextWaits
<1>3. WaitInv => WritingIsPending
  <2> SUFFICES ASSUME WaitInv, NEW b \in Block, picker.info[b].state = "writing"
               PROVE  PendingWrites(b) # {}
    BY DEF WritingIsPending
  <2>1. Owes(b)  BY WithinElim DEF WaitInv
  <2>2. CASE InJobs(jobs, b)
    <3>1. PICK i \in DOMAIN jobs : jobs[i].op = "write" /\ jobs[i].w.block = b
      BY <2>2 DEF InJobs
    <3>2. jobs[i].w \in PendingWrites(b)  BY <3>1 DEF PendingWrites
    <3> QED  BY <3>2
  <2>3. CASE InCache(cache, b)  BY <2>3 DEF InCache, PendingWrites
  <2>4. CASE InDone(done, b)
    <3>0. PICK i \in DOMAIN done : \E w \in done[i].ws : w.block = b  BY <2>4 DEF InDone
    <3>1. PICK w \in done[i].ws : w.block = b  BY <3>0
    <3>2. w \in PendingWrites(b)  BY <3>1 DEF PendingWrites
    <3> QED  BY <3>2
  <2> QED  BY <2>1, <2>2, <2>3, <2>4 DEF Owes
<1> QED  BY <1>1, <1>2, <1>3, PTL DEF Spec
=============================================================================
