------------------------------ MODULE UtpStream ------------------------------
(***************************************************************************)
(* A uTP connection (utp_stream.cpp, utp_socket_manager.cpp): reliable     *)
(* ordered delivery over UDP packets that are lost, repeated and           *)
(* overtaken.  Side "a" connects and writes, side "b" accepts and reads;   *)
(* either closes when it likes.  (In BitTorrent the connecting side speaks *)
(* first; b sends acks and its FIN here.)                                  *)
(*                                                                         *)
(* Sequence numbers wrap at Mod, 2^16 in the code.  A packet of data is    *)
(* one unit: write buffers, windows and bytes in flight are counted in     *)
(* them, MTU probing and the Nagle test have no part.  The delays LEDBAT   *)
(* measures are an input: the congestion window moves by one unit.         *)
(*                                                                         *)
(* Everything runs on the network thread: one action per call of the user, *)
(* packet or timer.  If sending fails at once it fails for the rest of the *)
(* action, which then does not go on.                                      *)
(***************************************************************************)
EXTENDS Integers, FiniteSets, SequencesExt

CONSTANTS
    Mod,         \* ACK_MASK + 1
    First,       \* First[x]: the random number send_syn or the answer starts at
    Units,       \* what a has to write
    Window,      \* m_in_buf_size
    InitCwnd,    \* the window a socket starts with, TORRENT_ETHERNET_MTU
    MaxCwnd,     \* bound of the congestion window
    MaxPackets,  \* bound of the packets sent
    DupLimit,    \* dup_ack_limit
    Reorder,     \* max_packets_reorder
    Resends,     \* num_resends, syn_resends and fin_resends
    DelayedAck,  \* utp_delayed_ack is not 0
    SendErrors   \* send_packet may fail

VARIABLES
    sock,  \* sock[x]: the utp_socket_impl of side x
    net    \* the packets sent so far: any may be late, repeated or lost

vars == <<sock, net>>

Side == {"a", "b"}
Other(x) == IF x = "a" THEN "b" ELSE "a"
SeqNr == 0 .. Mod - 1
\* Mutant: the sequence number keeps more than its 16 bits.
AddUnwrapped(n, k) == n + k

Add(n, k) == (n + k) % Mod
Dist(from, to) == (to - from) % Mod

\* compare_less_wrap.
Less(l, r) == Dist(l, r) < Dist(r, l)

\* The numbers from, from + 1, .. to.
Span(from, to) == {Add(from, i) : i \in 0 .. Dist(from, to)}

\* m_outbuf: sent and not acknowledged.  The header of a packet stays as it
\* was sent, but for ack_nr.
Outgoing == [seq : SeqNr, type : {"syn", "data", "fin"}, data : 0 .. Units, wnd : Int,
             resend : BOOLEAN, sent : Nat]
Packet == [to : Side, type : {"syn", "data", "fin", "state", "reset"}, seq : SeqNr, ack : SeqNr,
           sack : SUBSET SeqNr, wnd : Int, data : 0 .. Units]

Socket == [
    st       : {"none", "syn_sent", "connected", "fin_sent", "error_wait", "delete", "gone"},
    seq      : SeqNr,             \* m_seq_nr, the next to send
    acked    : SeqNr,             \* m_acked_seq_nr
    ack      : SeqNr,             \* m_ack_nr
    fast     : SeqNr,             \* m_fast_resend_seq_nr
    loss     : SeqNr,             \* m_loss_seq_nr
    dups     : 0 .. DupLimit,     \* m_duplicate_acks, as far as it matters
    out      : SUBSET Outgoing,
    in       : SUBSET [seq : SeqNr, data : 1 .. Units],  \* m_inbuf
    inflight : Int,               \* m_bytes_in_flight
    cwnd     : 0 .. MaxCwnd,
    adv      : Int,               \* m_adv_wnd
    eof      : SeqNr \cup {-1},   \* m_eof_seq_nr when m_eof
    wbuf     : 0 .. Units,        \* m_write_buffer
    written  : 0 .. Units,
    rbuf     : Seq(1 .. Units),   \* m_receive_buffer
    handlers : SUBSET {"read", "write", "connect"},
    attached : BOOLEAN,
    error    : BOOLEAN,
    timeouts : Nat,               \* m_num_timeouts
    owes     : BOOLEAN,           \* m_ack_timer is set to the delayed ack
    todo     : 0 .. Units,        \* what the user has not got into packets
    got      : Seq(1 .. Units)]   \* what the user has read

TypeOK == sock \in [Side -> Socket] /\ net \subseteq Packet

NewSocket(x) ==
    [st |-> "none", seq |-> 0, acked |-> 0, ack |-> 0, fast |-> 0, loss |-> 0, dups |-> 0,
     out |-> {}, in |-> {}, inflight |-> 0, cwnd |-> InitCwnd, adv |-> 1, eof |-> -1, wbuf |-> 0,
     written |-> 0, rbuf |-> <<>>, handlers |-> {}, attached |-> TRUE, error |-> FALSE,
     timeouts |-> 0, owes |-> FALSE, todo |-> IF x = "a" THEN Units ELSE 0, got |-> <<>>]

Init == sock = [x \in Side |-> NewSocket(x)] /\ net = {}

-----------------------------------------------------------------------------
(* The state a handler works on: the socket, the side it is of, what it    *)
(* has sent, and whether sending fails.                                    *)

Now(x, fails) == [me |-> x, tx |-> {}, fails |-> fails] @@ sock[x]
Sending == IF SendErrors THEN BOOLEAN ELSE {FALSE}

Become(x, next) ==
    \E s \in {next} :
        /\ sock' = [sock EXCEPT ![x] = [f \in DOMAIN @ |-> s[f]]]
        /\ net' = net \cup s.tx
        /\ Cardinality(net') <= MaxPackets

Dead(s) == s.st \in {"error_wait", "delete", "gone"}
Data(ps) == {p \in ps : p.type = "data"}

\* cancel_handlers with kill: the stream lets go of the socket.
CancelHandlers(s) ==
    [s EXCEPT !.handlers = {}, !.attached = IF s.handlers = {} THEN @ ELSE FALSE]

\* An error, and test_socket_state.
TestSocketState(s) ==
    IF s.error /\ s.handlers # {} THEN [CancelHandlers(s) EXCEPT !.st = "delete"] ELSE s
Fail(s) == TestSocketState([s EXCEPT !.error = TRUE, !.st = "error_wait"])

WindowSize(s) == Window - Cardinality(s.in) - Len(s.rbuf)

\* Mutant: the bits start one packet too early.
SackEarly(s) == {Add(p.seq, -1) : p \in s.in}

\* write_sack; the bits start at m_ack_nr + 2.
Sack(s) == {p.seq : p \in s.in} \ {s.ack, Add(s.ack, 1)}

Header(s, type, seq) ==
    [to |-> Other(s.me), type |-> type, seq |-> seq, ack |-> s.ack, sack |-> {},
     wnd |-> WindowSize(s), data |-> 0]

Keep(p) == [seq |-> p.seq, type |-> p.type, data |-> p.data, wnd |-> p.wnd,
            resend |-> FALSE, sent |-> 1]

\* resend_packet on the packets of ps.  Its header is sent as it was, with our
\* present ack_nr.  (A packet with an extension would keep the old one; a, which
\* gets no data, sends none.)
Resend(s, ps) ==
    IF ps = {} THEN s
    ELSE IF s.fails THEN Fail(s)
    ELSE [s EXCEPT
            !.out = (@ \ ps) \cup {[p EXCEPT !.resend = FALSE, !.sent = @ + 1] : p \in ps},
            !.inflight = @ + Cardinality({p \in Data(ps) : p.resend}),
            !.tx = @ \cup {[Header(s, p.type, p.seq) EXCEPT !.wnd = p.wnd, !.data = p.data] :
                           p \in ps}]

\* send_syn.
SendSyn(s) ==
    LET p == [Header(s, "syn", First[s.me]) EXCEPT !.ack = 0, !.wnd = 0]
        t == [s EXCEPT !.seq = p.seq, !.acked = Add(p.seq, -1), !.loss = Add(p.seq, -1),
                       !.ack = 0, !.fast = p.seq]
    IN IF s.fails THEN Fail(t)
       ELSE [t EXCEPT !.out = {Keep(p)}, !.seq = Add(@, 1), !.st = "syn_sent", !.tx = @ \cup {p}]

\* send_fin.
SendFin(s) ==
    LET p == Header(s, "fin", s.seq)
    IN IF s.fails THEN Fail(s)
       ELSE [s EXCEPT !.out = @ \cup {Keep(p)}, !.seq = Add(@, 1), !.fast = Add(s.seq, 1),
                      !.st = "fin_sent", !.tx = @ \cup {p}]

\* The first part of send_pkt: of the packets that need it, in their order, as
\* many are resent as the window takes.
Lost(s) == {p \in s.out : p.resend}
Before(s, p, ps) == {q \in ps : Dist(s.acked, q.seq) <= Dist(s.acked, p.seq)}
Fitting(s) ==
    LET room == Min({s.cwnd, s.adv}) - s.inflight
    IN {p \in Lost(s) : room >= Cardinality(Data(Before(s, p, Lost(s))))}
ResendLost(s) ==
    LET seqs == {p.seq : p \in Fitting(s)}
        run == {i \in 0 .. Mod - 1 : \A j \in 0 .. i : Add(s.fast, j) \in seqs}
    IN [Resend(s, Fitting(s)) EXCEPT !.fast = Add(@, Cardinality(run))]

\* One packet of data from the write buffer.
SendPayload(s) ==
    LET p == [Header(s, "data", s.seq) EXCEPT !.data = Units - s.todo + 1, !.sack = Sack(s)]
    IN IF s.fails THEN Fail(s)
       ELSE [s EXCEPT !.out = @ \cup {Keep(p)}, !.seq = Add(@, 1), !.inflight = @ + 1,
                      !.wbuf = @ - 1, !.written = @ + 1, !.todo = @ - 1, !.owes = FALSE,
                      !.tx = @ \cup {p}]

HasRoom(s) == s.inflight + 1 <= Min({s.cwnd, s.adv - s.inflight})

\* send_pkt: what is lost, then a packet of the write buffer, if the windows take
\* it, or only an ack.
SendPkt(s, ack) ==
    LET r == ResendLost(s)
    IN IF Dead(r) \/ (Lost(r) # {} /\ ~ack) THEN r
       ELSE IF r.wbuf > 0 /\ HasRoom(r) THEN SendPayload(r)
       ELSE IF ~ack THEN r
       ELSE IF r.fails THEN Fail(r)
       ELSE [r EXCEPT !.owes = FALSE,
                      !.tx = @ \cup {[Header(r, "state", r.seq) EXCEPT !.sack = Sack(r)]}]

\* send_pkt, called again as long as it has more to send; the windows take no more
\* than three packets.
SendPkts(s, ack) ==
    LET more(t) == IF ~Dead(t) /\ Lost(t) = {} /\ t.wbuf > 0 /\ HasRoom(t) THEN SendPayload(t) ELSE t
    IN more(more(SendPkt(s, ack)))

\* maybe_trigger_send_callback: what was not written by then is given back.
SendCallback(s, late) ==
    IF s.written > 0 /\ "write" \in s.handlers /\ (3 * s.written > 2 * s.wbuf \/ late)
    THEN [s EXCEPT !.handlers = @ \ {"write"}, !.written = 0, !.wbuf = 0] ELSE s

\* experienced_loss.
ExperiencedLoss(s, seq) ==
    IF Less(seq, s.loss) THEN s ELSE [s EXCEPT !.cwnd = Max({@ \div 2, 1}), !.loss = s.seq]

\* maybe_inc_acked_seq_nr.
MaybeIncAckedSeqNr(s) ==
    LET free(n) == n # s.seq /\ \A p \in s.out : p.seq # n
        k == Cardinality({i \in 1 .. Mod - 1 : \A j \in 1 .. i : free(Add(s.acked, j))})
        acked == Add(s.acked, k)
    IN IF k = 0 THEN s
       ELSE [s EXCEPT !.acked = acked, !.dups = 0,
                      !.fast = IF Dist(s.acked, @) < k THEN acked ELSE @,
                      !.loss = IF Less(@, acked) THEN acked ELSE @]

\* Mutant: a packet that is to be resent was taken off the count before.
AckPacketsAgain(s, seqs) ==
    LET ps == {p \in s.out : p.seq \in seqs}
    IN MaybeIncAckedSeqNr([s EXCEPT !.out = @ \ ps, !.inflight = @ - Cardinality(Data(ps))])

\* ack_packet on the outstanding packets with these numbers.
AckPackets(s, seqs) ==
    LET ps == {p \in s.out : p.seq \in seqs}
    IN MaybeIncAckedSeqNr(
         [s EXCEPT !.out = @ \ ps,
                   !.inflight = @ - Cardinality({p \in Data(ps) : ~p.resend})])

\* The cumulative ack of a packet.
TakeAck(s, p) ==
    LET seqs == Span(Add(s.acked, 1), p.ack)
    IN IF p.ack = s.acked /\ s.out # {} THEN [s EXCEPT !.dups = Min({@ + 1, DupLimit})]
       ELSE IF ~Less(s.acked, p.ack) THEN s
       ELSE AckPackets([s EXCEPT !.fast = IF @ \in seqs THEN Add(p.ack, 1) ELSE @], seqs)

\* parse_sack.  What lies before the last packet acknowledged is resent when
\* enough came after it.  (sack_resend_limit is more than Units here.)
ParseSack(s, p) ==
    LET bits == {q \in p.sack : Dist(p.ack, q) < Dist(p.ack, s.seq)}
        last == CHOOSE q \in bits : \A r \in bits : Dist(p.ack, r) <= Dist(p.ack, q)
        run == {i \in 0 .. Mod - 1 : \A j \in 0 .. i : Add(s.fast, j) \in bits}
        t == AckPackets([s EXCEPT !.fast = Add(@, Cardinality(run))], bits)
        missing == {q \in t.out : ~Less(q.seq, t.fast) /\ Less(q.seq, last)}
        r == Resend(ExperiencedLoss(t, t.fast), missing)
    IN IF bits = {} THEN s
       ELSE IF Cardinality({q \in bits : Less(t.fast, q)}) >= DupLimit /\ Less(t.fast, last)
       THEN [r EXCEPT !.fast = last, !.dups = IF missing = {} THEN @ ELSE 0]
       ELSE t

\* Enough packets acknowledge the same: the next one is resent.
FastResend(s) ==
    LET ps == {p \in s.out : p.seq = s.fast}
    IN IF s.dups < DupLimit \/ Add(s.acked, 1) # s.fast THEN s
       ELSE IF ps = {} THEN [s EXCEPT !.fast = Add(@, 1)]
       ELSE [Resend(ExperiencedLoss(s, s.fast), ps) EXCEPT !.fast = Add(@, 1)]

\* incoming: data goes to the read in progress or to the receive buffer.
Incoming(s, data) ==
    IF "read" \in s.handlers
    THEN [s EXCEPT !.got = Append(@, data), !.handlers = @ \ {"read"}]
    ELSE [s EXCEPT !.rbuf = Append(@, data)]

\* The data of consume_incoming_data is old.
IsOld(s, p) ==
    \/ s.eof # -1 /\ s.ack = s.eof
    \/ p.seq # Add(s.ack, 1) /\ (~Less(s.ack, p.seq) \/ \E q \in s.in : q.seq = p.seq)

\* Mutant: whatever is not old is taken for the next packet.
ConsumeAny(s, p) ==
    IF p.type # "data" \/ IsOld(s, p) THEN s
    ELSE [Incoming(s, p.data) EXCEPT !.ack = p.seq]

\* consume_incoming_data: the next packet, with those behind it that wait in
\* the reorder buffer, or one that has to wait.
Consume(s, p) ==
    LET at(n) == {q \in s.in : q.seq = n}
        k == Cardinality({i \in 1 .. Mod - 1 : \A j \in 1 .. i : at(Add(p.seq, j)) # {}})
        ready == [i \in 1 .. k |-> (CHOOSE q \in at(Add(p.seq, i)) : TRUE).data]
        first == Incoming(s, p.data)
    IN IF p.type # "data" \/ IsOld(s, p) THEN s
       ELSE IF p.seq # Add(s.ack, 1)
       THEN [s EXCEPT !.in = @ \cup {[seq |-> p.seq, data |-> p.data]}]
       ELSE [first EXCEPT !.ack = Add(p.seq, k), !.rbuf = @ \o ready,
                          !.in = {q \in @ : q.seq \notin Span(p.seq, Add(p.seq, k))}]

\* The FIN of the other side; ours follows.
TakeFin(s, p) ==
    IF p.type # "fin" THEN s
    ELSE LET next == p.seq \in {s.ack, Add(s.ack, 1)}
             t == [s EXCEPT !.ack = p.seq]
             r == IF ~next THEN s ELSE IF s.st = "fin_sent" THEN SendPkt(t, TRUE) ELSE SendFin(t)
         IN IF Dead(r) \/ r.eof # -1 THEN r ELSE [r EXCEPT !.eof = p.seq]

\* do_ledbat: the window grows or shrinks by what the measured delay makes of it.
DoLedbat(s, gain) == [s EXCEPT !.cwnd = Max({0, Min({@ + gain, MaxCwnd})})]

\* incoming_packet in state CONNECTED.
Connected(s, p, gain) ==
    LET t == Consume(DoLedbat(s, gain), p)
        acks == p.type \in {"data", "fin"}
        r == SendCallback(IF acks /\ DelayedAck
                          THEN SendPkts([t EXCEPT !.owes = TRUE], FALSE)
                          ELSE SendPkts(t, acks), FALSE)
    IN IF ~Dead(r) /\ r.eof # -1 /\ r.ack = Add(r.eof, -1) THEN SendFin(r) ELSE r

\* incoming_packet in state FIN_SENT: over once the other side has it all.
FinSent(s, p) ==
    LET t == Consume(s, p)
    IN IF (p.type = "data" /\ IsOld(s, p)) \/ t.acked # Add(t.seq, -1) THEN t
       ELSE TestSocketState([t EXCEPT !.error = TRUE,
                                      !.st = IF t.attached THEN "error_wait" ELSE "delete"])

\* incoming_packet, from where the packet is accepted.
IncomingPacket(s, p, gain) ==
    LET k == ParseSack(TakeAck([s EXCEPT !.timeouts = 0, !.adv = p.wnd], p), p)
        f == FastResend(k)
        n == TakeFin(f, p)
        g == IF s.inflight > 0 /\ Cardinality(Data(k.out)) < Cardinality(Data(s.out))
             THEN gain ELSE 0
        up == [n EXCEPT !.st = "connected", !.handlers = @ \ {"connect"},
                        !.ack = IF p.type = "data" THEN p.seq ELSE Add(p.seq, -1)]
    IN IF Dead(k) THEN k
       ELSE IF Dead(f) THEN f
       ELSE IF Dead(n) \/ (p.type = "fin" /\ f.eof # -1) THEN n
       ELSE CASE n.st = "syn_sent" -> IF p.ack # Add(n.seq, -1) THEN n ELSE Connected(up, p, g)
              [] n.st = "connected" -> Connected(n, p, g)
              [] n.st = "fin_sent" -> FinSent(n, p)

-----------------------------------------------------------------------------
(* The network. *)

\* A packet arrives that is not too far ahead.
Deliver(x) ==
    \E p \in {q \in net : q.to = x /\ q.type # "syn"}, fails \in Sending, gain \in -1 .. 1 :
        LET s == sock[x]
            sent == IF s.st = "syn_sent" /\ p.type = "state" THEN s.seq ELSE Add(s.seq, -1)
        IN /\ s.st \notin {"none", "gone"}
           /\ ~Less(sent, p.ack)
           /\ s.st = "syn_sent" \/ ~Less(Add(s.ack, Reorder), p.seq)
           /\ Become(x, IncomingPacket(Now(x, fails), p, gain))

\* utp_socket_manager::incoming_packet with a SYN: a new socket.  One that
\* comes again is ignored.
Accept(x) ==
    \E p \in {q \in net : q.to = x /\ q.type = "syn"}, fails \in Sending :
        LET s == [Now(x, fails) EXCEPT
                    !.st = "connected", !.adv = p.wnd, !.ack = p.seq, !.seq = First[x],
                    !.acked = Add(First[x], -1), !.loss = Add(First[x], -1), !.fast = First[x]]
        IN sock[x].st = "none" /\ Become(x, SendPkt(s, TRUE))

\* A RESET arrives.
Reset(x) ==
    /\ SendErrors
    /\ sock[x].st \notin {"none", "gone"}
    /\ Become(x, Fail(Now(x, FALSE)))

-----------------------------------------------------------------------------
(* The user. *)

\* async_connect and do_connect.
Connect(x) ==
    /\ x = "a" /\ sock[x].st = "none"
    /\ \E fails \in Sending :
         Become(x, SendSyn([Now(x, fails) EXCEPT !.handlers = {"connect"}]))

IsOpen(s) == s.attached /\ s.st \notin {"none", "gone"} /\ "connect" \notin s.handlers

\* async_write_some and set_write_handler.
Write(x) ==
    /\ IsOpen(sock[x]) /\ "write" \notin sock[x].handlers /\ sock[x].todo > 0
    /\ \E fails \in Sending :
         LET s == [Now(x, fails) EXCEPT !.handlers = @ \cup {"write"}, !.wbuf = sock[x].todo,
                                        !.written = 0]
         IN Become(x, IF s.error THEN TestSocketState(s) ELSE SendCallback(SendPkts(s, FALSE), FALSE))

\* async_read_some and set_read_handler, for one unit.
Read(x) ==
    LET s == [Now(x, FALSE) EXCEPT !.handlers = @ \cup {"read"}]
    IN /\ IsOpen(sock[x]) /\ "read" \notin sock[x].handlers
       /\ Become(x, IF s.error THEN TestSocketState(s)
                    ELSE IF s.rbuf = <<>> THEN s
                    ELSE Incoming([s EXCEPT !.rbuf = Tail(@)], Head(s.rbuf)))

\* close: destroy and detach.
Close(x) ==
    /\ sock[x].attached /\ sock[x].st \notin {"none", "gone"}
    /\ \E fails \in Sending :
         LET s == IF sock[x].st = "connected" THEN SendFin(Now(x, fails)) ELSE Now(x, fails)
             over == s.st \in {"error_wait", "syn_sent"} /\ s.handlers # {}
         IN Become(x, [s EXCEPT !.handlers = {}, !.attached = FALSE, !.wbuf = 0,
                                !.st = IF over THEN "delete" ELSE @])

-----------------------------------------------------------------------------
(* utp_socket_manager::tick. *)

\* Mutant: a socket whose connection ended by itself is not deleted.
ReapDeleted(x) ==
    /\ sock[x].st = "delete" /\ ~sock[x].attached
    /\ Become(x, [Now(x, FALSE) EXCEPT !.st = "gone"])

\* should_delete.
Reap(x) ==
    /\ sock[x].st \in {"error_wait", "delete"} /\ ~sock[x].attached
    /\ Become(x, [Now(x, FALSE) EXCEPT !.st = "gone"])

\* The part of tick after m_timeout: all that is outstanding counts as lost.
TimedOut(s) ==
    LET t == [s EXCEPT
                !.cwnd = IF s.inflight = 0 THEN Max({(@ * 2) \div 3, 1}) ELSE 1,
                !.timeouts = IF s.out = {} THEN @ ELSE @ + 1,
                !.loss = s.seq,
                !.out = {[p EXCEPT !.resend = TRUE] : p \in @},
                !.inflight = @ - Cardinality({p \in Data(s.out) : ~p.resend})]
        next == {p \in t.out : p.seq = Add(t.acked, 1)}
        fits == \A p \in next : Cardinality(Data({p})) <= Min({t.cwnd, t.adv}) - t.inflight
        fast == IF t.fast = Add(t.acked, 1) THEN Add(t.fast, 1) ELSE t.fast
    IN IF t.timeouts > Resends \/ \E p \in next : p.sent >= Resends THEN Fail(t)
       ELSE IF next # {} THEN [IF fits THEN Resend(t, next) ELSE t EXCEPT !.fast = fast]
       ELSE IF t.st = "fin_sent" THEN Fail(t)
       ELSE SendPkt(t, FALSE)

\* Mutant: the timer runs on established connections only.
OnTimeoutUp(x) ==
    /\ sock[x].st \in {"connected", "fin_sent"}
    /\ \E fails \in Sending : Become(x, TimedOut(Now(x, fails)))

OnTimeout(x) ==
    /\ sock[x].st \in {"syn_sent", "connected", "fin_sent"}
    /\ \E fails \in Sending : Become(x, TimedOut(Now(x, fails)))

\* The delayed ack is due.
AckTimer(x) ==
    /\ sock[x].owes /\ sock[x].st \in {"connected", "fin_sent"}
    /\ \E fails \in Sending : Become(x, SendPkt(Now(x, fails), TRUE))

\* m_write_timeout: the user hears of what was written so far.
WriteTimeout(x) ==
    /\ sock[x].written > 0 /\ "write" \in sock[x].handlers
    /\ Become(x, SendCallback(Now(x, FALSE), TRUE))

TickStep(x) == Reap(x) \/ OnTimeout(x) \/ AckTimer(x) \/ WriteTimeout(x)

Next ==
    \E x \in Side :
        \/ Deliver(x) \/ Accept(x) \/ Reset(x)
        \/ Connect(x) \/ Write(x) \/ Read(x) \/ Close(x)
        \/ TickStep(x)

Spec == Init /\ [][Next]_vars

\* The session ticks the sockets; nothing is assumed of the network or the user.
FairSpec == Spec /\ \A x \in Side : WF_vars(Reap(x)) /\ WF_vars(OnTimeout(x))

-----------------------------------------------------------------------------
(* Properties. *)

Arrived(s) == s.got \o s.rbuf

\* What was written arrives in order, once and without a gap, whatever is
\* lost, repeated or overtaken, and also where the sequence numbers wrap.
InOrder == \A x \in Side : \A i \in DOMAIN Arrived(sock[x]) : Arrived(sock[x])[i] = i

\* A unit that the sender has dropped from m_outbuf has arrived, or waits in
\* the reorder buffer of the other side: no ack covers a packet that is missing.
AckedArrived ==
    \A n \in 1 .. Units - sock["a"].todo :
        (\A p \in sock["a"].out : p.data # n) =>
            \/ n <= Len(Arrived(sock["b"]))
            \/ \E q \in sock["b"].in : q.data = n

\* m_bytes_in_flight, which the window is compared with, is what is outstanding
\* and not to be resent: a resent, timed out or acknowledged packet is counted
\* neither twice nor for good.
InFlightCounted ==
    \A x \in Side : ~Dead(sock[x]) =>
        sock[x].inflight = Cardinality({p \in Data(sock[x].out) : ~p.resend})

\* The stream delivers what was written, and takes for acknowledged and for in
\* flight exactly what is.
StreamIsRight == InOrder /\ AckedArrived /\ InFlightCounted

\* A socket the user has closed is deleted in the end, whether the other side
\* answers or not, and a connection attempt succeeds or fails.
IsWaiting(x) == IF x = "attempt" THEN sock["a"].st = "syn_sent" ELSE ~sock[x].attached
IsServed(x) == IF x = "attempt" THEN sock["a"].st # "syn_sent" ELSE sock[x].st = "gone"
SocketsEnd == \A x \in Side \cup {"attempt"} : IsWaiting(x) ~> IsServed(x)
=============================================================================
