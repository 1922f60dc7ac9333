------------------------------- MODULE Choker -------------------------------
(***************************************************************************)
(* Which peers may download from us: the unchoke slots of the session.     *)
(* Every unchoke interval the best peers get the slots and the others are  *)
(* choked; some slots are optimistic and go round; between two rounds an   *)
(* interested peer gets a free slot at once.  The session counts the slots *)
(* in use (m_num_unchoked), and so does each torrent (m_num_uploads).      *)
(*                                                                         *)
(* Abstracted: the order of the peers, which rates and times decide, is    *)
(* arbitrary, and so is what they and the upload queue say of the number   *)
(* of slots.                                                               *)
(*                                                                         *)
(* Three things make the counts wrong for good: the settings change while  *)
(* a peer that they exempt from the slots is unchoked; a graceful pause    *)
(* chokes such a peer; a round passes over a peer of a paused torrent that *)
(* was unchoked since.  `miscounted` records that one of them happened.    *)
(***************************************************************************)
EXTENDS Integers, FiniteSets, Sequences

CONSTANTS
    Peers, Torrents,
    TorrentOf,       \* the torrent of a peer
    Local,           \* the peers on the local network
    MaxUploads,      \* torrent::m_max_uploads
    SlotLimits,      \* the values of unchoke_slots_limit the user sets
    Optimistic,      \* num_optimistic_unchoke_slots; 0: a fifth of the slots
    MaxSlots         \* bound on m_allowed_upload_slots

ASSUME PeersAssumption ==
    /\ IsFiniteSet(Peers) /\ TorrentOf \in [Peers -> Torrents] /\ Local \in SUBSET Peers
    /\ SlotLimits \in SUBSET Int /\ MaxSlots \in Int /\ Optimistic \in Nat

Algorithms == {"fixed_slots", "auto_expand", "rate_based", "bittyrant"}

VARIABLES
    peer,      \* the connections; interested: m_peer_interested
    uploads,   \* uploads[t]: m_num_uploads
    unchoked,  \* m_num_unchoked
    slots,     \* m_allowed_upload_slots
    setting,   \* the settings choking_algorithm and unchoke_slots_limit; ignore: local
               \* peers are exempt (ignore_limits_on_local_network, and no local rate limit)
    paused,    \* the torrents that are paused, gracefully
    ready,     \* the torrents that are ready_for_connections
    miscounted \* history: the counts went wrong

vars == <<peer, uploads, unchoked, slots, setting, paused, ready, miscounted>>

Gone == [up |-> FALSE, interested |-> FALSE, choked |-> TRUE, optimistic |-> FALSE]
Up == {p \in Peers : peer[p].up}

\* ignore_unchoke_slots: the peers that need no slot.
Exempt == {p \in Local : setting.ignore}
Using(s, p) == ~s.peer[p].choked /\ p \notin Exempt

\* What the operations below change.
Now == [peer |-> peer, uploads |-> uploads, unchoked |-> unchoked]
Become(s) == peer' = s.peer /\ uploads' = s.uploads /\ unchoked' = s.unchoked

\* Peer p becomes x, and the slots its torrent and the session count change by n
\* and m.
Put(s, p, x, n, m) ==
    [peer |-> [s.peer EXCEPT ![p] = x], uploads |-> [s.uploads EXCEPT ![TorrentOf[p]] = @ + n],
     unchoked |-> s.unchoked + m]

Slot(s, p) == IF s.peer[p].choked THEN 0 ELSE 1

\* send_choke and torrent::choke_peer; what becomes of the count of the session, m,
\* is left to the caller.
ChokePeer(s, p, m) ==
    Put(s, p, [s.peer[p] EXCEPT !.choked = TRUE, !.optimistic = FALSE], 0 - Slot(s, p), m)

\* send_unchoke and torrent::unchoke_peer, whether it succeeds and what it does.
CanUnchoke(s, p, optimistic) ==
    /\ optimistic \/ s.uploads[TorrentOf[p]] < MaxUploads
    /\ s.peer[p].choked /\ TorrentOf[p] \in ready
UnchokePeer(s, p, optimistic) ==
    Put(s, p, [s.peer[p] EXCEPT !.choked = FALSE, !.optimistic = optimistic], 1, 1)

\* session_impl::unchoke_peer and choke_peer.
SessionUnchoke(s, p) ==
    IF CanUnchoke(s, p, FALSE) THEN UnchokePeer(s, p, s.peer[p].optimistic) ELSE s
SessionChoke(s, p) == ChokePeer(s, p, 0 - Slot(s, p))

-----------------------------------------------------------------------------
(* What the peers do. *)

Connect(p) ==
    /\ p \notin Up /\ TorrentOf[p] \notin paused
    /\ peer' = [peer EXCEPT ![p] = [Gone EXCEPT !.up = TRUE]]
    /\ UNCHANGED <<uploads, unchoked, slots, setting, paused, ready, miscounted>>

\* Mutant: the slot of the session is not given back.
DisconnectKeepsSlot(s, p) == Put(s, p, Gone, IF Using(s, p) THEN -1 ELSE 0, 0)

\* peer_connection::disconnect: remove_peer and close_connection.
Disconnected(s, p) ==
    LET n == IF Using(s, p) THEN 0 - 1 ELSE 0 IN Put(s, p, Gone, n, n)

Disconnect(p) ==
    /\ p \in Up
    /\ Become(Disconnected(Now, p))
    /\ UNCHANGED <<slots, setting, paused, ready, miscounted>>

\* incoming_interested.  fair: the peer has not taken too much.
IncomingInterested(p, fair) ==
    LET x == [peer[p] EXCEPT !.interested = TRUE]
        s == Put(Now, p, x, 0, 0)
    IN  /\ p \in Up
        /\ Become(IF p \in Exempt
                  THEN IF TorrentOf[p] \in ready THEN Put(Now, p, [x EXCEPT !.choked = FALSE], 0, 0) ELSE s
                  ELSE IF peer[p].choked /\ fair /\ (setting.limit < 0 \/ unchoked < setting.limit)
                  THEN SessionUnchoke(s, p) ELSE s)
        /\ UNCHANGED <<slots, setting, paused, ready, miscounted>>

\* incoming_not_interested.
IncomingNotInterested(p) ==
    LET x == [peer[p] EXCEPT !.interested = FALSE]
        s == Put(Now, p, x, 0, 0)
    IN  /\ p \in Up
        /\ Become(IF peer[p].choked THEN s
                  ELSE IF p \in Exempt
                  THEN Put(Now, p, [x EXCEPT !.choked = TRUE, !.optimistic = FALSE], 0, 0)
                  ELSE SessionChoke(s, p))
        /\ UNCHANGED <<slots, setting, paused, ready, miscounted>>

-----------------------------------------------------------------------------
(* The rounds of the session. *)

OptimisticSlots(n) == IF Optimistic # 0 THEN Optimistic ELSE IF n \div 5 > 1 THEN n \div 5 ELSE 1

\* All orders of the peers in ps.
Orders(ps) == {o \in [1 .. Cardinality(ps) -> ps] : \A i, j \in DOMAIN o : o[i] = o[j] => i = j}

\* What F makes of s, peer by peer in the order o.
Over(o, s, F(_, _)) ==
    LET r[n \in 0 .. Len(o)] == IF n = 0 THEN s ELSE F(r[n - 1], o[n]) IN r[Len(o)]

\* The peers that are not to be served are choked.
ChokeAll(o, s) == LET choke(u, p) == ChokePeer(u, p, 0) IN Over(o, s, choke)

\* A peer keeps its slot, and not as an optimistic one.
Keep(s, p) == Put(s, p, [s.peer[p] EXCEPT !.optimistic = FALSE], 0, 1)

\* Mutant: the slots a full torrent could not use are counted all the same.
GrantBlind(v, p, keep) ==
    [s |-> IF CanUnchoke(v.s, p, FALSE) THEN UnchokePeer(v.s, p, FALSE) ELSE Keep(v.s, p),
     left |-> v.left - 1]

\* The body of the last loop of recalculate_unchoke_slots, for a peer that is to
\* have a slot (keep) or not.
Grant(v, p, keep) ==
    LET s == v.s
    IN  IF keep
        THEN IF s.peer[p].choked /\ ~CanUnchoke(s, p, FALSE) THEN v
             ELSE [s |-> IF s.peer[p].choked THEN UnchokePeer(s, p, FALSE) ELSE Keep(s, p),
                   left |-> v.left - 1]
        ELSE [s |-> IF s.peer[p].optimistic THEN Put(s, p, s.peer[p], 0, Slot(s, p))
                    ELSE ChokePeer(s, p, 0),
              left |-> v.left]

\* The last loop.  rich: the peers that bittyrant serves.
GrantAll(o, v, rich) ==
    LET grant(u, p) == Grant(u, p, IF setting.algorithm = "bittyrant" THEN p \in rich ELSE u.left > 0)
    IN  Over(o, v, grant)

\* How many slots the algorithm allows now.
NewSlots(eligible) ==
    CASE setting.algorithm = "rate_based" -> 1 .. 1 + Cardinality(eligible)
      [] setting.algorithm = "auto_expand" ->
           {slots} \cup (IF slots <= unchoked + 1 /\ slots < MaxSlots THEN {slots + 1} ELSE {})
                   \cup (IF setting.limit >= 0 /\ slots > setting.limit THEN {slots - 1} ELSE {})
      [] OTHER -> {slots}

\* recalculate_unchoke_slots.  out: the peers that are not to be served.
RecalculateUnchokeSlots ==
    LET counted == {p \in Up \ Exempt : TorrentOf[p] \notin paused}
    IN  \E greedy \in SUBSET counted :
          LET out == {p \in counted : ~peer[p].interested} \cup greedy
              eligible == counted \ out
              s == ChokeAll(CHOOSE o \in Orders({p \in out : ~peer[p].choked}) : TRUE, Now)
          IN  \E n \in NewSlots(eligible), o \in Orders(eligible), rich \in SUBSET eligible :
                LET v == [s |-> [s EXCEPT !.unchoked = 0], left |-> n - OptimisticSlots(n)]
                IN  /\ setting.algorithm # "bittyrant" => rich = {}
                    /\ Become(GrantAll(o, v, rich).s) /\ slots' = n
                    /\ miscounted' = (miscounted \/
                           \E p \in Up \ counted : ~peer[p].choked /\ p \notin Exempt)
                    /\ UNCHANGED <<setting, paused, ready>>

\* The body of the loop of recalculate_optimistic_unchoke_slots.
Pass(v, p) ==
    LET s == v.s
    IN  IF v.left > 0
        THEN IF s.peer[p].optimistic THEN [s |-> s, left |-> v.left - 1]
             ELSE IF ~CanUnchoke(s, p, TRUE) THEN v
             ELSE [s |-> UnchokePeer(s, p, TRUE), left |-> v.left - 1]
        ELSE IF s.peer[p].optimistic THEN [s |-> ChokePeer(s, p, 0 - 1), left |-> v.left] ELSE v

PassAll(o, v) == Over(o, v, Pass)

\* recalculate_optimistic_unchoke_slots.
RecalculateOptimistic ==
    LET wants(p) == /\ peer[p].interested /\ peer[p].choked
                    /\ uploads[TorrentOf[p]] < MaxUploads /\ TorrentOf[p] \in ready
        listed == {p \in Up : TorrentOf[p] \notin paused /\ (peer[p].optimistic \/ (wants(p) /\ p \notin Exempt))}
    IN  /\ slots # 0
        /\ \E o \in Orders(listed) : Become(PassAll(o, [s |-> Now, left |-> OptimisticSlots(slots)]).s)
        /\ UNCHANGED <<slots, setting, paused, ready, miscounted>>

-----------------------------------------------------------------------------
(* Torrents and settings. *)

\* set_settings; a negative limit is none.
SetSettings(algorithm, limit, ignore) ==
    /\ setting' = [algorithm |-> algorithm, limit |-> limit, ignore |-> ignore]
    /\ slots' = LET n == IF \/ algorithm = "fixed_slots"
                            \/ algorithm = "auto_expand" /\ slots < limit THEN limit ELSE slots
                IN  IF n < 0 THEN MaxSlots ELSE n
    /\ miscounted' = (miscounted \/ (ignore # setting.ignore /\ \E p \in Local : ~peer[p].choked))
    /\ UNCHANGED <<peer, uploads, unchoked, paused, ready>>

\* The peers of a torrent: those that still owe us data (kept) are choked, and the
\* others are disconnected.
QuietAll(o, s, kept) ==
    LET quiet(u, p) == IF p \in kept THEN (IF u.peer[p].choked THEN u ELSE SessionChoke(u, p))
                       ELSE Disconnected(u, p)
    IN  Over(o, s, quiet)

\* do_pause, gracefully.  The peers that need no slot are choked by way of the
\* session, too, which takes back a slot they do not have.
GracefulPause(t, kept) ==
    LET mine == {p \in Up : TorrentOf[p] = t}
    IN  /\ t \notin paused /\ kept \subseteq mine
        /\ paused' = paused \cup {t}
        /\ Become(QuietAll(CHOOSE o \in Orders(mine) : TRUE, Now, kept))
        /\ miscounted' = (miscounted \/ \E p \in kept : ~peer[p].choked /\ p \in Exempt)
        /\ UNCHANGED <<slots, setting, ready>>

Resume(t) ==
    /\ t \in paused
    /\ paused' = paused \ {t}
    /\ UNCHANGED <<peer, uploads, unchoked, slots, setting, ready, miscounted>>

\* The metadata is there and the files are checked.
FilesChecked(t) ==
    /\ t \notin ready
    /\ ready' = ready \cup {t}
    /\ UNCHANGED <<peer, uploads, unchoked, slots, setting, paused, miscounted>>

-----------------------------------------------------------------------------
Init ==
    /\ peer = [p \in Peers |-> Gone] /\ uploads = [t \in Torrents |-> 0] /\ unchoked = 0
    /\ \E limit \in SlotLimits, ignore \in BOOLEAN :
         /\ setting = [algorithm |-> "fixed_slots", limit |-> limit, ignore |-> ignore]
         /\ slots = IF limit < 0 THEN MaxSlots ELSE limit
    /\ paused = {} /\ ready = {} /\ miscounted = FALSE

Next ==
    \/ \E p \in Peers : Connect(p)
    \/ \E p \in Peers : Disconnect(p)
    \/ \E p \in Peers, fair \in BOOLEAN : IncomingInterested(p, fair)
    \/ \E p \in Peers : IncomingNotInterested(p)
    \/ RecalculateUnchokeSlots
    \/ RecalculateOptimistic
    \/ \E a \in Algorithms, limit \in SlotLimits, ignore \in BOOLEAN : SetSettings(a, limit, ignore)
    \/ \E t \in Torrents : \E kept \in SUBSET Up : GracefulPause(t, kept)
    \/ \E t \in Torrents : Resume(t)
    \/ \E t \in Torrents : FilesChecked(t)

Spec == Init /\ [][Next]_vars

-----------------------------------------------------------------------------
(* Properties. *)

\* The slots that are counted are those in use, in the session and in every
\* torrent (check_invariant of both), although the rounds, the peers, pauses
\* and lost connections give them out and take them back; an optimistic slot
\* is a slot, and there are not more of them than there may be.  It is so until
\* one of the three things happens that make the counts wrong.
SlotsAreCounted ==
    \/ miscounted
    \/ /\ unchoked = Cardinality({p \in Up : Using(Now, p)})
       /\ \A t \in Torrents : uploads[t] = Cardinality({p \in Up : TorrentOf[p] = t /\ Using(Now, p)})
       /\ \A p \in Peers : peer[p].optimistic => ~peer[p].choked
       /\ Optimistic # 0 => Cardinality({p \in Peers : peer[p].optimistic}) <= Optimistic
=============================================================================
