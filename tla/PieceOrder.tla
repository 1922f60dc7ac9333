----------------------------- MODULE PieceOrder -----------------------------
(***************************************************************************)
(* The order in which piece_picker offers pieces, and what it is computed  *)
(* from: the pieces each connection has, the priorities, the pieces we     *)
(* have and those being downloaded.  m_pieces is sorted by priority; its   *)
(* buckets are delimited by m_priority_boundries and kept up to date by    *)
(* moving one piece per bucket, unless the picker is dirty.                *)
(*                                                                         *)
(* Operators take a picker and return the picker, or the set of pickers    *)
(* where the code draws a random number.                                   *)
(***************************************************************************)
EXTENDS Integers, Sequences, FiniteSets, FiniteSetsExt, SequencesExt

CONSTANTS
    NumPieces,       \* the number of pieces of the torrent
    Peers,           \* the connections
    Priorities,      \* the piece priorities the user sets, a subset of 0..7
    CloseRedundant,  \* settings().close_redundant_connections
    CountMod,        \* piece_pos::peer_count wraps (2^16)
    MaxSeeds,        \* bound on m_seeds, which a peer can make arbitrarily large
    Mishaps,         \* bound on the mishaps that happen
    MaxRestarts      \* bound on how often a picker forgets pieces it had

VARIABLES
    picker,       \* the piece_picker
    conn,         \* the connections that are up
    bits,         \* m_have_piece of each connection
    upload_mode,  \* torrent::m_upload_mode
    checking,     \* the torrent's files are being checked
    restarts,     \* history: how often the picker forgot pieces it had
    mishaps       \* history: what peers did that the counts are not made for

vars == <<picker, conn, bits, upload_mode, checking, restarts, mishaps>>

AllPieces == 0 .. NumPieces - 1
Places == 0 .. NumPieces

\* piece_pos::we_have_index, and the -1 add pushes on m_pieces.
WeHaveIndex == -1
None == -1

\* The highest priority a piece can have.  The model keeps the boundaries up to
\* it; those the vector does not have yet are what resize would make them, the
\* size of m_pieces.
MaxPriority == 4 * CountMod - 1
Levels == 0 .. MaxPriority

Have(pk, i) == pk.map[i].index = WeHaveIndex
Filtered(pk, i) == pk.map[i].prio = 0
Open(pk, i) == ~Have(pk, i) /\ ~Filtered(pk, i)

\* Mutant: a piece that only seeds have is not listed.
PriorityWhole(pk, i) ==
    LET p == pk.map[i] IN
    CASE Filtered(pk, i) \/ Have(pk, i) \/ p.peer_count = 0 -> -1
      [] OTHER -> p.peer_count * 4 + (IF p.downloading = 1 THEN 0 ELSE 4 - (p.prio % 4))

\* The bucket of a piece: -1 if it is not to be listed, then by availability,
\* within it by the user's priority, pieces being downloaded first.
Priority(pk, i) ==
    LET p     == pk.map[i]
        high  == p.prio >= 4
        avail == IF high THEN p.peer_count \div 2 ELSE p.peer_count
        level == IF high THEN p.prio - 3 ELSE p.prio
    IN  CASE Filtered(pk, i) \/ Have(pk, i) \/ p.peer_count + pk.seeds = 0 -> -1
          [] p.prio = 7 -> 1 - p.downloading
          [] OTHER -> avail * 4 + (IF p.downloading = 1 THEN 0 ELSE 4 - level)

\* A picker that has been marked dirty.  Its order is not read until
\* update_pieces has made it anew, and is left out meanwhile.
Dirty(pk) ==
    [pk EXCEPT !.dirty = TRUE, !.pieces = <<>>, !.bounds = [q \in Levels |-> 0],
               !.map = [i \in AllPieces |-> [pk.map[i] EXCEPT
                            !.index = IF Have(pk, i) THEN WeHaveIndex ELSE 0]]]

-----------------------------------------------------------------------------
(* Moving pieces between buckets.  Positions count from 0. *)

At(s, k) == s[k + 1]

\* s with x at the lowest position of C, and the element of each position of C
\* moved to the next higher one; and the same downwards.
MoveUp(s, C, x) ==
    [j \in 1 .. Len(s) |->
        IF j - 1 \notin C THEN s[j]
        ELSE IF j - 1 = Min(C) THEN x ELSE At(s, Max({c \in C : c < j - 1}))]
MoveDown(s, C, x) ==
    [j \in 1 .. Len(s) |->
        IF j - 1 \notin C THEN s[j]
        ELSE IF j - 1 = Max(C) THEN x ELSE At(s, Min({c \in C : c > j - 1}))]

\* pk with the order s, in which the pieces at the positions C are new.
Place(pk, s, C) ==
    [pk EXCEPT !.pieces = s,
               !.map = [i \in AllPieces |->
                   IF \E c \in C : At(s, c) = i
                   THEN [pk.map[i] EXCEPT !.index = CHOOSE c \in C : At(s, c) = i]
                   ELSE pk.map[i]]]

\* The bounds with d added from a level on.
Shift(bounds, from, to, d) ==
    [q \in Levels |-> IF q \in from .. to THEN bounds[q] + d ELSE bounds[q]]

RangeStart(pk, prio) == IF prio = 0 THEN 0 ELSE pk.bounds[prio - 1]

\* The piece goes to any place of its bucket; the one it displaces goes to the
\* end of the bucket, in the place of the first one of the next, and so on.
Add(pk, i) ==
    LET prio == Priority(pk, i)
        ends == {pk.bounds[q] : q \in prio .. MaxPriority}
    IN  {LET C == ends \cup {new}
         IN  [Place(pk, MoveUp(Append(pk.pieces, None), C, i), C)
                 EXCEPT !.bounds = Shift(pk.bounds, prio, MaxPriority, 1)]
         : new \in RangeStart(pk, prio) .. pk.bounds[prio]}

\* The last piece of the bucket fills the gap, the last one of the next bucket
\* fills that gap, and so on.
TakeOut(pk, prio, elem) ==
    LET C == {pk.bounds[q] - 1 : q \in prio .. MaxPriority} \cup {elem}
    IN  [Place(pk, Front(MoveDown(pk.pieces, C, None)), C \ {Max(C)})
            EXCEPT !.bounds = Shift(pk.bounds, prio, MaxPriority, -1)]

\* Swap the piece at elem with any one of its bucket.
Shuffle(pk, prio, elem) ==
    {Place(pk, [j \in 1 .. Len(pk.pieces) |->
                   CASE j - 1 = elem -> At(pk.pieces, other)
                     [] j - 1 = other /\ j - 1 # elem -> At(pk.pieces, elem)
                     [] OTHER -> pk.pieces[j]],
           {elem, other})
     : other \in RangeStart(pk, prio) .. pk.bounds[prio] - 1}

\* Mutant: update does not move a piece towards the end.
UpdateForwardOnly(pk, prio, elem) ==
    LET i == At(pk.pieces, elem)
        new == Priority(pk, i)
    IN  CASE new = prio \/ new > prio -> {pk}
          [] new = -1 -> {TakeOut(pk, prio, elem)}
          [] OTHER ->
               LET C == {pk.bounds[q] : q \in new .. prio - 1} \cup {elem}
               IN  Shuffle([Place(pk, MoveUp(pk.pieces, C, i), C)
                              EXCEPT !.bounds = Shift(pk.bounds, new, prio - 1, 1)],
                           new, Min(C))

\* Move the piece at elem from the bucket prio to the one it belongs to.
Update(pk, prio, elem) ==
    LET i   == At(pk.pieces, elem)
        new == Priority(pk, i)
    IN  CASE new = prio -> {pk}
          [] new = -1 -> {TakeOut(pk, prio, elem)}
          [] new # -1 /\ new < prio ->
               LET C == {pk.bounds[q] : q \in new .. prio - 1} \cup {elem}
               IN  Shuffle([Place(pk, MoveUp(pk.pieces, C, i), C)
                              EXCEPT !.bounds = Shift(pk.bounds, new, prio - 1, 1)],
                           new, Min(C))
          [] new > prio ->
               LET C == {pk.bounds[q] - 1 : q \in prio .. new - 1} \cup {elem}
               IN  Shuffle([Place(pk, MoveDown(pk.pieces, C, i), C)
                              EXCEPT !.bounds = Shift(pk.bounds, prio, new - 1, -1)],
                           new, Max(C))

\* How every change of a piece ends: prev is the bucket it was in.
Moved(pk, i, prev) ==
    CASE pk.dirty \/ prev = Priority(pk, i) -> {pk}
      [] prev = -1 /\ ~pk.dirty /\ Priority(pk, i) >= 0 -> Add(pk, i)
      [] OTHER -> Update(pk, prev, pk.map[i].index)

\* update_pieces: any order that is sorted by priority.
UpdatePieces(pk) ==
    LET listed == {i \in AllPieces : Priority(pk, i) >= 0}
        n      == Cardinality(listed)
        orders == {s \in [1 .. n -> listed] :
                     /\ \A j, k \in 1 .. n : j # k => s[j] # s[k]
                     /\ \A j \in 1 .. n - 1 : Priority(pk, s[j]) <= Priority(pk, s[j + 1])}
    IN  {[Place(pk, s, 0 .. n - 1)
            EXCEPT !.dirty = FALSE,
                   !.bounds = [q \in Levels |->
                                 Cardinality({i \in listed : Priority(pk, i) <= q})]]
         : s \in orders}
-----------------------------------------------------------------------------
(* Availability. *)

Counted(pk, S, d) ==
    [pk EXCEPT !.map = [i \in AllPieces |->
        IF i \in S THEN [pk.map[i] EXCEPT !.peer_count = (@ + d) % CountMod] ELSE pk.map[i]]]

IncRefcountAll(pk) ==
    LET more == [pk EXCEPT !.seeds = @ + 1]
    IN  IF pk.seeds = 0 THEN Dirty(more) ELSE more

\* Mutant: a seed that leaves is always taken from m_seeds.
DecRefcountAllSeeds(pk) == Dirty([pk EXCEPT !.seeds = IF @ > 0 THEN @ - 1 ELSE 0])

\* A seed that was not a seed when it came is counted piece by piece; which
\* of them leaves makes no difference to the sum.
DecRefcountAll(pk) ==
    CASE pk.seeds > 1 -> [pk EXCEPT !.seeds = @ - 1]
      [] pk.seeds = 1 -> Dirty([pk EXCEPT !.seeds = 0])
      [] OTHER -> Dirty(Counted(pk, AllPieces, -1))

IncRefcount(pk, i) == Moved(Counted(pk, {i}, 1), i, Priority(pk, i))

\* A piece that nobody had is not listed, even if its count wraps.
DecRefcount(pk, i) ==
    LET less == Counted(pk, {i}, -1)
    IN  IF pk.dirty \/ Priority(pk, i) < 0 THEN {less}
        ELSE Update(less, Priority(pk, i), pk.map[i].index)

\* inc_refcount and dec_refcount of a bitfield.
RefcountBits(pk, S, d) == IF S = {} THEN pk ELSE Dirty(Counted(pk, S, d))

\* peer_lost of one piece of S after the other.
LoseEach(pk, S) ==
    LET lost[T \in SUBSET S] ==
            IF T = {} THEN {pk}
            ELSE UNION {DecRefcount(q, Max(T)) : q \in lost[T \ {Max(T)}]}
    IN  lost[S]

-----------------------------------------------------------------------------
(* Cursors: the first wanted piece, and the one after the last. *)

FirstOpen(pk, from) == Min({j \in from .. NumPieces - 1 : Open(pk, j)} \cup {NumPieces})
LastOpen(pk, to) == Max({j + 1 : j \in {k \in 0 .. to : Open(pk, k)}} \cup {0})

\* Mutant: only the first cursor moves.
NarrowFirst(pk, i) == IF pk.cursor = i THEN [pk EXCEPT !.cursor = FirstOpen(pk, i + 1)] ELSE pk

\* Piece i is no longer wanted.
Narrow(pk, i) ==
    CASE pk.cursor = i /\ pk.reverse = i + 1 -> [pk EXCEPT !.cursor = NumPieces, !.reverse = 0]
      [] pk.cursor = i /\ pk.reverse # i + 1 -> [pk EXCEPT !.cursor = FirstOpen(pk, i + 1)]
      [] pk.cursor # i /\ pk.reverse = i + 1 -> [pk EXCEPT !.reverse = LastOpen(pk, i - 1)]
      [] OTHER -> pk

\* Piece i is wanted again.
Widen(pk, i) ==
    LET c == Min({pk.cursor, i})
        r == Max({pk.reverse, i + 1})
    IN  IF c = r THEN [pk EXCEPT !.cursor = NumPieces, !.reverse = 0]
                 ELSE [pk EXCEPT !.cursor = c, !.reverse = r]

\* Mutant: the first piece is taken to have a missing one before it.
SparseAfterEdge(pk, i) ==
    LET before == i > 0 /\ Have(pk, i - 1)
        after  == i = NumPieces - 1 \/ Have(pk, i + 1)
    IN  pk.sparse + (CASE before /\ after -> -1 [] ~before /\ ~after -> 1 [] OTHER -> 0)

\* The regions of missing pieces after piece i has come in.
SparseAfter(pk, i) ==
    LET before == i = 0 \/ Have(pk, i - 1)
        after  == i = NumPieces - 1 \/ Have(pk, i + 1)
    IN  pk.sparse + (CASE before /\ after -> -1 [] ~before /\ ~after -> 1 [] OTHER -> 0)

WeHave(pk, i) ==
    LET prio == Priority(pk, i)
        f    == IF Filtered(pk, i) THEN 1 ELSE 0
        with == Narrow([pk EXCEPT !.map[i].downloading = 0, !.map[i].index = WeHaveIndex,
                                  !.sparse = SparseAfter(pk, i),
                                  !.num_have = @ + 1, !.num_filtered = @ - f,
                                  !.num_have_filtered = @ + f], i)
    IN  CASE Have(pk, i) -> [pk EXCEPT !.map[i].downloading = 0]
          [] ~Have(pk, i) /\ (prio = -1 \/ pk.dirty) -> with
          [] OTHER -> TakeOut(with, prio, pk.map[i].index)

WeDontHave(pk, i) ==
    LET f    == IF Filtered(pk, i) THEN 1 ELSE 0
        lost == [pk EXCEPT !.map[i].index = 0, !.num_have = @ - 1,
                           !.num_filtered = @ + f, !.num_have_filtered = @ - f]
        with == IF f = 1 THEN lost ELSE Widen(lost, i)
    IN  IF with.dirty \/ Priority(with, i) = -1 THEN {with} ELSE Add(with, i)

\* Mutant: a piece we have is counted with those we do not have.
SetPiecePriorityMixed(pk, i, new) ==
    LET d   == CASE new = 0 /\ ~Filtered(pk, i) -> 1
                 [] new # 0 /\ Filtered(pk, i) -> -1
                 [] OTHER -> 0
        set == [pk EXCEPT !.map[i].prio = new, !.num_filtered = @ + d]
    IN  IF Have(pk, i) THEN {set}
        ELSE Moved(CASE d = 1 -> Narrow(set, i) [] d = -1 -> Widen(set, i) [] OTHER -> set,
                   i, Priority(pk, i))

\* The counts of filtered pieces are of those we have and of those we have not.
SetPiecePriority(pk, i, new) ==
    LET d    == CASE new = 0 /\ ~Filtered(pk, i) -> 1
                  [] new # 0 /\ Filtered(pk, i) -> -1
                  [] OTHER -> 0
        set  == [pk EXCEPT !.map[i].prio = new]
        with == CASE Have(pk, i) -> [set EXCEPT !.num_have_filtered = @ + d]
                  [] ~Have(pk, i) /\ d = 1 -> Narrow([set EXCEPT !.num_filtered = @ + 1], i)
                  [] ~Have(pk, i) /\ d = -1 -> Widen([set EXCEPT !.num_filtered = @ - 1], i)
                  [] OTHER -> set
    IN  IF new = pk.map[i].prio THEN {pk} ELSE Moved(with, i, Priority(pk, i))

\* mark_as_downloading or mark_as_writing of a first block; abort_download,
\* write_failed or restore_piece of the last.
SetDownloading(pk, i, d) ==
    Moved([pk EXCEPT !.map[i].downloading = d], i, Priority(pk, i))

NewPicker ==
    [map |-> [i \in AllPieces |-> [peer_count |-> 0, downloading |-> 0, prio |-> 1, index |-> 0]],
     seeds |-> 0, pieces |-> <<>>, bounds |-> [q \in Levels |-> 0], dirty |-> TRUE,
     cursor |-> 0, reverse |-> NumPieces, sparse |-> 1,
     num_have |-> 0, num_filtered |-> 0, num_have_filtered |-> 0]

\* piece_picker::init of a picker in use: priorities and m_sparse_regions stay.
InitAgain(pk) ==
    LET none == Dirty([pk EXCEPT
                    !.map = [i \in AllPieces |-> [pk.map[i] EXCEPT !.peer_count = 0,
                                                !.downloading = 0, !.index = 0]],
                    !.num_have = 0, !.num_have_filtered = 0,
                    !.num_filtered = @ + pk.num_have_filtered])
    IN  [none EXCEPT !.cursor = FirstOpen(none, 0), !.reverse = LastOpen(none, NumPieces - 1)]

-----------------------------------------------------------------------------
(* The torrent and its connections.  A torrent that has every piece drops  *)
(* its picker: num_have = NumPieces stands for that.                       *)

HasPicker == picker.num_have < NumPieces
IsFinished(pk) == NumPieces - pk.num_have - pk.num_filtered = 0
UploadOnly == IsFinished(picker) \/ upload_mode

Init ==
    /\ picker = NewPicker
    /\ conn = {}
    /\ bits = [p \in Peers |-> {}]
    /\ upload_mode = FALSE
    /\ checking = TRUE
    /\ restarts = 0
    /\ mishaps = {}

\* remove_peer: what the picker forgets when a connection with pieces S is gone.
PeerLeaves(pk, S) == IF S = AllPieces THEN DecRefcountAll(pk) ELSE RefcountBits(pk, S, -1)

\* The connections of finished(): seeds are of no use to an upload only torrent.
Leave(pk, gone) ==
    /\ picker' = FoldSet(LAMBDA p, acc : PeerLeaves(acc, bits[p]), pk, gone)
    /\ conn' = conn \ gone
    /\ bits' = [p \in Peers |-> IF p \in gone THEN {} ELSE bits[p]]

\* A change of what we want or have, and finished() if that makes us finished.
Become(pk) ==
    Leave(pk, IF CloseRedundant /\ IsFinished(pk) /\ ~IsFinished(picker)
              THEN {p \in conn : bits[p] = AllPieces} ELSE {})

\* Connection p has the pieces S from now on, or is closed.
Tells(p, S, pk, drop) ==
    /\ picker' = IF drop THEN PeerLeaves(pk, S) ELSE pk
    /\ conn' = IF drop THEN conn \ {p} ELSE conn \cup {p}
    /\ bits' = [bits EXCEPT ![p] = IF drop THEN {} ELSE S]

\* What the counts are not made for: a bitfield that is counted on top of an
\* earlier one, or not at all; a seed, counted in m_seeds, that gives up pieces; a
\* piece lost that nobody was counted for.
Miscounts(p, S) ==
    IF S = AllPieces \/ ~UploadOnly THEN S \cap bits[p] # {} ELSE S # bits[p]
Unlisted(pk, S) == \E i \in S : ~pk.dirty /\ Open(pk, i) /\ pk.map[i].peer_count + pk.seeds = 0
Mishap(name, happens) == IF happens THEN {name} ELSE {}
Happens(new) == mishaps' = mishaps \cup new /\ new \subseteq Mishaps

\* A bitfield, or HAVE_ALL, at any time.  A peer of no interest may be closed,
\* if it is upload only itself.
IncomingBitfield(p, S) ==
    LET full == S = AllPieces
        lost == IF full \/ UploadOnly THEN {} ELSE bits[p] \ S
        more == RefcountBits(picker, S, 1)
        interesting == ~UploadOnly /\ \E i \in S \ bits[p] : Open(picker, i)
    IN  /\ ~checking /\ HasPicker
        /\ full => picker.seeds < MaxSeeds
        /\ Happens(Mishap("miscounted", Miscounts(p, S))
                   \cup Mishap("seed", bits[p] = AllPieces /\ lost # {})
                   \cup Mishap("unlisted", Unlisted(more, lost)))
        /\ \E pk \in CASE full -> {IncRefcountAll(picker)}
                        [] ~full /\ ~UploadOnly -> LoseEach(more, lost)
                        [] OTHER -> {picker},
              drop \in BOOLEAN :
             /\ full => drop = (UploadOnly /\ CloseRedundant)
             /\ ~full /\ interesting => ~drop
             /\ Tells(p, S, pk, drop)
        /\ UNCHANGED <<upload_mode, checking, restarts>>

IncomingHave(p, i) ==
    /\ HasPicker /\ p \in conn /\ i \notin bits[p]
    /\ \E pk \in IncRefcount(picker, i) :
         Tells(p, bits[p] \cup {i}, pk,
               bits[p] \cup {i} = AllPieces /\ UploadOnly /\ CloseRedundant)
    /\ UNCHANGED <<upload_mode, checking, restarts, mishaps>>

IncomingDontHave(p, i) ==
    /\ HasPicker /\ p \in conn /\ i \in bits[p]
    /\ Happens(Mishap("seed", bits[p] = AllPieces) \cup Mishap("unlisted", Unlisted(picker, {i})))
    /\ \E pk \in DecRefcount(picker, i) : Tells(p, bits[p] \ {i}, pk, FALSE)
    /\ UNCHANGED <<upload_mode, checking, restarts>>

RemovePeer(p) ==
    /\ HasPicker /\ p \in conn
    /\ Leave(picker, {p})
    /\ UNCHANGED <<upload_mode, checking, restarts, mishaps>>

StartPiece(i) ==
    /\ ~checking /\ HasPicker /\ Open(picker, i) /\ picker.map[i].downloading = 0
    /\ picker' \in SetDownloading(picker, i, 1)
    /\ UNCHANGED <<conn, bits, upload_mode, checking, restarts, mishaps>>

AbortPiece(i) ==
    /\ HasPicker /\ picker.map[i].downloading = 1
    /\ picker' \in SetDownloading(picker, i, 0)
    /\ UNCHANGED <<conn, bits, upload_mode, checking, restarts, mishaps>>

PiecePassed(i) ==
    /\ ~checking /\ HasPicker /\ picker.map[i].downloading = 1
    /\ Become(WeHave(picker, i))
    /\ UNCHANGED <<upload_mode, checking, restarts, mishaps>>

\* A piece found by the check of the files or listed in the resume data.
PieceChecked(i) ==
    /\ checking /\ HasPicker /\ ~Have(picker, i)
    /\ picker' = WeHave(picker, i)
    /\ UNCHANGED <<conn, bits, upload_mode, checking, restarts, mishaps>>

\* The resume data lists a piece both as complete and as unfinished.
UnfinishedInResumeData(i) ==
    /\ checking /\ HasPicker /\ Have(picker, i)
    /\ picker' \in WeDontHave(picker, i)
    /\ restarts < MaxRestarts /\ restarts' = restarts + 1
    /\ UNCHANGED <<conn, bits, upload_mode, checking, mishaps>>

FilesChecked ==
    /\ checking
    /\ checking' = FALSE
    /\ UNCHANGED <<picker, conn, bits, upload_mode, restarts, mishaps>>

\* The picker forgets the peer_count of every piece, and not m_seeds, in which a
\* seed that gave up pieces is still counted.
ForceRecheck ==
    /\ ~checking
    /\ picker' = IF HasPicker
                 THEN InitAgain(FoldSet(LAMBDA p, acc : PeerLeaves(acc, bits[p]), picker, conn))
                 ELSE NewPicker
    /\ conn' = {}
    /\ bits' = [p \in Peers |-> {}]
    /\ checking' = TRUE
    /\ LET forgets == HasPicker /\ picker.num_have > 0
       IN  /\ forgets => restarts < MaxRestarts
           /\ restarts' = IF forgets THEN restarts + 1 ELSE restarts
    /\ Happens(Mishap("miscounted", "seed" \in mishaps))
    /\ UNCHANGED upload_mode

SetPriority(i, prio) ==
    /\ HasPicker /\ prio # picker.map[i].prio
    /\ \E pk \in SetPiecePriority(picker, i, prio) :
         IF checking THEN picker' = pk /\ UNCHANGED <<conn, bits>> ELSE Become(pk)
    /\ UNCHANGED <<upload_mode, checking, restarts, mishaps>>

\* pick_pieces with rarest_first, which needs the order.
PickRarestFirst ==
    /\ ~checking /\ HasPicker /\ picker.dirty /\ conn # {}
    /\ picker' \in UpdatePieces(picker)
    /\ UNCHANGED <<conn, bits, upload_mode, checking, restarts, mishaps>>

SetUploadMode ==
    /\ upload_mode' = ~upload_mode
    /\ UNCHANGED <<picker, conn, bits, checking, restarts, mishaps>>

\* What becomes of an order that lacks a piece with a priority is not modelled:
\* the next change of that piece moves whatever is in its old place.
Next ==
    /\ "unlisted" \notin mishaps
    /\ \/ \E p \in Peers : \/ \E S \in SUBSET AllPieces : IncomingBitfield(p, S)
                           \/ \E i \in AllPieces : IncomingHave(p, i) \/ IncomingDontHave(p, i)
                           \/ RemovePeer(p)
       \/ \E i \in AllPieces : \/ StartPiece(i) \/ AbortPiece(i) \/ PiecePassed(i)
                              \/ PieceChecked(i) \/ UnfinishedInResumeData(i)
                              \/ \E prio \in Priorities : SetPriority(i, prio)
       \/ FilesChecked \/ ForceRecheck \/ PickRarestFirst \/ SetUploadMode

Spec == Init /\ [][Next]_vars
-----------------------------------------------------------------------------
(* Properties *)

\* The incrementally kept order is what sorting all pieces anew would give:
\* m_pieces lists exactly the pieces with a priority, bucket by bucket, the
\* boundaries delimit the buckets and each piece knows its place
\* (check_invariant, verify_priority).  It is so while counts are wrong, too, until
\* a piece is lost that nobody was counted for.
OrderIsRight ==
    (HasPicker /\ ~picker.dirty /\ "unlisted" \notin mishaps) =>
        LET listed == {i \in AllPieces : Priority(picker, i) >= 0} IN
        /\ Len(picker.pieces) = Cardinality(listed)
        /\ ToSet(picker.pieces) = listed
        /\ \A i \in listed : At(picker.pieces, picker.map[i].index) = i
        /\ \A q \in Levels : picker.bounds[q] =
               Cardinality({i \in listed : Priority(picker, i) <= q})
        /\ \A i \in listed : LET k == picker.map[i].index
                                 q == Priority(picker, i)
                             IN  RangeStart(picker, q) <= k /\ k < picker.bounds[q]

\* Sequential picking looks only between the cursors: they are exactly at the
\* first and after the last wanted piece, whatever pieces came in, were lost,
\* filtered or wanted again, in whatever order.
CursorsAreTight ==
    HasPicker => /\ picker.cursor = FirstOpen(picker, 0)
                 /\ picker.reverse = LastOpen(picker, NumPieces - 1)

\* peer_count and m_seeds together are the number of connections that have the
\* piece, although a connection may come as a leecher and leave as a seed; after a
\* seed has given up pieces they are so only modulo the width of peer_count, and
\* after a bitfield was counted twice or not at all they are not.  No piece is lost
\* that nobody was counted for unless that has happened.
AvailabilityCounted ==
    (HasPicker /\ "miscounted" \notin mishaps) =>
        /\ "unlisted" \notin mishaps
        /\ \A i \in AllPieces :
             LET sum == picker.map[i].peer_count + picker.seeds
                 n   == Cardinality({p \in conn : i \in bits[p]})
             IN  sum % CountMod = n % CountMod /\ ("seed" \in mishaps \/ sum = n)

\* num_want_left, by which a torrent knows that it is finished, is the number of
\* wanted pieces: the counts of filtered pieces follow every change of a piece.
WantedIsCounted ==
    HasPicker => /\ NumPieces - picker.num_have - picker.num_filtered =
                        Cardinality({i \in AllPieces : Open(picker, i)})
                 /\ picker.num_have_filtered =
                        Cardinality({i \in AllPieces : Have(picker, i) /\ Filtered(picker, i)})

\* m_sparse_regions is the number of regions of missing pieces, as long as no
\* piece is lost again: we_dont_have and init do not maintain it.
SparseIsHoles ==
    (HasPicker /\ restarts = 0) =>
        picker.sparse = Cardinality(
            {i \in AllPieces : ~Have(picker, i) /\ (i = 0 \/ Have(picker, i - 1))})

\* What the picker changes step by step is what it would be if computed anew:
\* the order, the cursors, the availability and the counts.
PickerIsRight ==
    OrderIsRight /\ CursorsAreTight /\ AvailabilityCounted /\ WantedIsCounted /\ SparseIsHoles
=============================================================================
