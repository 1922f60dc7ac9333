------------------------------- MODULE PeerIO -------------------------------
(***************************************************************************)
(* The two channels of peer connections.  A channel waits for the socket   *)
(* (bw_network), for quota from the bandwidth manager (bw_limit) or for    *)
(* the disk (bw_disk), and whoever ends the wait must start the next one:  *)
(* setup_send and setup_receive.  The disk thread holds all connections    *)
(* back while too many bytes wait to be written, and tells the session     *)
(* when that is over.                                                      *)
(*                                                                         *)
(* Abstracted: bytes are counted in units; what a message says is left     *)
(* out; the bandwidth manager gives any amount, at once or later.          *)
(***************************************************************************)
EXTENDS Integers, FiniteSets, Functions

CONSTANTS
    Conns,
    Readers,       \* the connections whose peer requests blocks of us
    MaxQuota,      \* bound on what the bandwidth manager gives at a time
    MaxBuffer,     \* bound on the send buffer, and on the reads under way
    MaxWrites,     \* bound on the writes that are queued or not heard of
    MaxPosted,     \* bound on the on_disk_queue that wait to run
    MaxQueued,     \* max_queued_disk_bytes
    LowWatermark   \* max_queued_disk_bytes_low_watermark

ASSUME ConnsAssumption == IsFiniteSet(Conns)

\* The low watermark the disk thread uses is not 0: a setting of 0, or one that is not
\* below the limit, stands for 7/8 of the limit.
ASSUME BoundsAssumption ==
    /\ MaxQuota \in Nat /\ MaxBuffer \in Nat /\ MaxWrites \in Nat /\ MaxPosted \in Nat
    /\ MaxQueued \in Nat /\ LowWatermark \in Nat \ {0}

Channels == {"up", "down"}

VARIABLES
    conn,     \* the connections
    writes,   \* writes[c]: blocks of c in the job queue of the disk thread
    written,  \* written[c]: writes the network thread has not heard of
    gate,     \* exceeded: m_exceeded_write_queue; posted: on_disk_queue is posted
    queues    \* m_disk_queues

vars == <<conn, writes, written, gate, queues>>

Idle == [state |-> "none", flags |-> [ch \in Channels |-> {}], quota |-> [ch \in Channels |-> 0],
         buffer |-> 0, reading |-> 0, outstanding |-> 0]

\* What the handlers below change: all of it, and connection c alone.
Now == [conn |-> conn, queues |-> queues]
With(c, p) == [conn |-> [conn EXCEPT ![c] = p], queues |-> queues]
Become(s) == conn' = s.conn /\ queues' = s.queues

\* What request_upload_bandwidth and request_download_bandwidth return; 0: the
\* request is queued.
Grants == 0 .. MaxQuota

\* Flag f of channel ch goes up or down, and so does the count of the session.
SetDisk(s, c, ch) ==
    IF "disk" \in s.conn[c].flags[ch] THEN s
    ELSE [s EXCEPT !.conn[c].flags[ch] = @ \cup {"disk"}, !.queues[ch] = @ + 1]
ClearDisk(s, c, ch) ==
    IF "disk" \notin s.conn[c].flags[ch] THEN s
    ELSE [s EXCEPT !.conn[c].flags[ch] = @ \ {"disk"}, !.queues[ch] = @ - 1]

\* The quota there is, or else the grant g.
Quota(s, c, ch, wants, g) ==
    IF s.conn[c].quota[ch] = 0 /\ wants /\ s.conn[c].state = "up"
    THEN IF g = 0 THEN [s EXCEPT !.conn[c].flags[ch] = @ \cup {"limit"}]
         ELSE [s EXCEPT !.conn[c].quota[ch] = g]
    ELSE s

Busy(s, c, ch) == s.conn[c].state = "closed" \/ s.conn[c].flags[ch] \cap {"network", "limit"} # {}

\* setup_send.
SetupSend(s, c, g) ==
    LET t == Quota(s, c, "up", s.conn[c].buffer > 0, g)
        p == t.conn[c]
        u == IF p.buffer = 0 /\ p.reading > 0 /\ p.quota["up"] > 0
             THEN SetDisk(t, c, "up") ELSE ClearDisk(t, c, "up")
        canWrite == p.buffer > 0 /\ p.quota["up"] > 0 /\ p.state = "up"
    IN  IF Busy(s, c, "up") THEN s
        ELSE IF "limit" \in p.flags["up"] THEN t
        ELSE IF canWrite THEN [u EXCEPT !.conn[c].flags["up"] = @ \cup {"network"}] ELSE u

\* can_read, apart from the quota.
DiskAllows(s, c) == ~gate'.exceeded \/ s.conn[c].outstanding = 0

\* Mutant: a connection that the disk holds back does not say so.
SetupReceiveForgets(s, c, g) ==
    LET t == Quota(s, c, "down", TRUE, g)
    IN  IF Busy(s, c, "down") THEN s
        ELSE IF "limit" \in t.conn[c].flags["down"] \/ t.conn[c].quota["down"] = 0 THEN t
        ELSE IF ~DiskAllows(t, c) \/ t.conn[c].state # "up" THEN t
        ELSE [t EXCEPT !.conn[c].flags["down"] = @ \cup {"network"}]

\* setup_receive.
SetupReceive(s, c, g) ==
    LET t == Quota(s, c, "down", TRUE, g)
    IN  IF Busy(s, c, "down") THEN s
        ELSE IF "limit" \in t.conn[c].flags["down"] \/ t.conn[c].quota["down"] = 0 THEN t
        ELSE IF ~DiskAllows(t, c) THEN SetDisk(t, c, "down")
        ELSE IF t.conn[c].state # "up" THEN t
        ELSE [t EXCEPT !.conn[c].flags["down"] = @ \cup {"network"}]

-----------------------------------------------------------------------------
(* The network thread. *)

\* start and on_connection_complete: a connection starts with some quota.
Start(c, q, gu, gd) ==
    /\ conn[c].state = "none"
    /\ UNCHANGED <<writes, written, gate>>
    /\ LET s == With(c, [Idle EXCEPT !.state = "up", !.quota = [ch \in Channels |-> q]])
       IN  Become(SetupReceive(SetupSend(s, c, gu), c, gd))

\* send_buffer: a message goes out; request: it asks for a block.
Send(c, request, g) ==
    /\ conn[c].state = "up" /\ conn[c].buffer < MaxBuffer
    /\ request => conn[c].outstanding < MaxBuffer
    /\ UNCHANGED <<writes, written, gate>>
    /\ LET k == IF request THEN 1 ELSE 0
       IN  Become(SetupSend(With(c, [conn[c] EXCEPT !.buffer = @ + 1, !.outstanding = @ + k]), c, g))

\* fill_send_buffer: a block is read for the peer.
AskRead(c) ==
    /\ c \in Readers
    /\ conn[c].state = "up" /\ conn[c].buffer + conn[c].reading < MaxBuffer
    /\ conn' = [conn EXCEPT ![c].reading = @ + 1]
    /\ UNCHANGED <<writes, written, gate, queues>>

\* on_disk_read_complete: write_piece, or the request is rejected.
OnDiskReadComplete(c, ok, g) ==
    /\ conn[c].reading > 0
    /\ UNCHANGED <<writes, written, gate>>
    /\ LET k == IF ok THEN 1 ELSE 0
           s == With(c, [conn[c] EXCEPT !.reading = @ - 1, !.buffer = @ + k])
       IN  Become(IF s.conn[c].state = "up" THEN SetupSend(s, c, g) ELSE s)

\* Mutant: the session goes on counting a closed connection.
ClosedCounted(s, c) ==
    [s EXCEPT !.conn[c] = [Idle EXCEPT !.state = "closed", !.reading = s.conn[c].reading,
                                       !.flags = [ch \in Channels |-> s.conn[c].flags[ch] \ {"disk"}]]]

\* disconnect.  Buffer and quota of a closed connection are of no consequence.
Closed(s, c) ==
    LET t == ClearDisk(ClearDisk(s, c, "up"), c, "down")
    IN  [t EXCEPT !.conn[c] = [Idle EXCEPT !.state = "closed", !.reading = t.conn[c].reading,
                                           !.flags = t.conn[c].flags]]

Disconnect(c) ==
    /\ conn[c].state = "up"
    /\ UNCHANGED <<writes, written, gate>>
    /\ Become(Closed(Now, c))

\* on_send_data of n units; the write may fail.
OnSendData(c, n, error, g) ==
    LET closed == conn[c].state = "closed"
        s == With(c, [conn[c] EXCEPT !.flags["up"] = @ \ {"network"}, !.buffer = @ - n,
                                     !.quota["up"] = @ - n])
    IN  /\ "network" \in conn[c].flags["up"]
        /\ IF closed \/ error THEN n = 0
           ELSE n \in 1 .. conn[c].buffer /\ n <= conn[c].quota["up"]
        /\ UNCHANGED <<writes, written, gate>>
        /\ Become(IF closed THEN s ELSE IF error THEN Closed(s, c) ELSE SetupSend(s, c, g))

\* assign_bandwidth.
AssignBandwidth(c, ch, n, g) ==
    LET p == [conn[c] EXCEPT !.flags[ch] = @ \ {"limit"}]
        s == With(c, p)
        t == With(c, [p EXCEPT !.quota[ch] = @ + n])
    IN  /\ "limit" \in conn[c].flags[ch]
        /\ UNCHANGED <<writes, written, gate>>
        /\ Become(IF conn[c].state = "closed" THEN s
                  ELSE IF ch = "up" THEN SetupSend(t, c, g) ELSE SetupReceive(t, c, g))

UnderWay == FoldFunction(+, 0, writes) + FoldFunction(+, 0, written)

\* on_receive_data: n units in all, and k whole blocks among them are handed to
\* the disk thread; the loop ends when the socket has no more.
OnReceiveData(c, n, k, error, gu, gd) ==
    LET t == With(c, [conn[c] EXCEPT !.quota["down"] = @ - n, !.outstanding = @ - k,
                                     !.flags["down"] = @ \ {"network"}])
    IN  /\ "network" \in conn[c].flags["down"]
        /\ k <= n
        /\ IF conn[c].state = "closed" \/ error
           THEN /\ n = 0
                /\ UNCHANGED <<writes, written, gate>>
                /\ Become(IF conn[c].state = "closed" THEN t ELSE Closed(t, c))
           ELSE /\ n \in 1 .. conn[c].quota["down"]
                /\ k <= conn[c].outstanding /\ UnderWay + k <= MaxWrites
                /\ writes' = [writes EXCEPT ![c] = @ + k]
                /\ gate' = [gate EXCEPT !.exceeded = @ \/ \E j \in 1 .. k : gate.bytes + j >= MaxQueued,
                                        !.bytes = @ + k]
                /\ UNCHANGED written
                /\ Become(SetupSend(SetupReceive(t, c, gd), c, gu))

\* on_disk_write_complete.
OnDiskWriteComplete(c, g) ==
    /\ written[c] > 0
    /\ written' = [written EXCEPT ![c] = @ - 1]
    /\ UNCHANGED <<writes, gate>>
    /\ Become(IF conn[c].state = "closed" THEN Now ELSE SetupReceive(Now, c, g))

\* session_impl::on_disk_queue: peer_connection::on_disk for every connection
\* that waits for the disk.  None of them touches what another one looks at, and
\* each one gives its count of the session back unless it waits for the disk again.
OnDiskQueue(g) ==
    LET waiting == {c \in Conns : "disk" \in conn[c].flags["down"]}
        resumed(c) == SetupReceive(ClearDisk(Now, c, "down"), c, g[c]).conn[c]
        over == {c \in waiting : "disk" \notin resumed(c).flags["down"]}
    IN  /\ gate.posted > 0
        /\ gate' = [gate EXCEPT !.posted = @ - 1]
        /\ Become(IF gate.exceeded THEN Now
                  ELSE [conn |-> [c \in Conns |-> IF c \in waiting THEN resumed(c) ELSE conn[c]],
                        queues |-> [queues EXCEPT !["down"] = @ - Cardinality(over)]])
        /\ UNCHANGED <<writes, written>>

-----------------------------------------------------------------------------
(* The disk thread takes a write. *)

\* Mutant: a low watermark of 0 is taken as it is.
LowMissed(bytes) == bytes < 0

\* Whether the queue is short enough again.
LowEnough(bytes) == bytes < LowWatermark

TakeWrite(c) ==
    LET bytes == gate.bytes - 1
        over == gate.exceeded /\ LowEnough(bytes)
    IN  /\ writes[c] > 0 /\ gate.posted < MaxPosted
        /\ writes' = [writes EXCEPT ![c] = @ - 1]
        /\ written' = [written EXCEPT ![c] = @ + 1]
        /\ gate' = [bytes |-> bytes, exceeded |-> gate.exceeded /\ ~over,
                    posted |-> gate.posted + (IF over THEN 1 ELSE 0)]
        /\ UNCHANGED <<conn, queues>>

-----------------------------------------------------------------------------
Init ==
    /\ conn = [c \in Conns |-> Idle]
    /\ writes = [c \in Conns |-> 0] /\ written = [c \in Conns |-> 0]
    /\ gate = [exceeded |-> FALSE, posted |-> 0, bytes |-> 0]
    /\ queues = [ch \in Channels |-> 0]

Next ==
    \/ \E c \in Conns, q, g, h \in Grants : Start(c, q, g, h)
    \/ \E c \in Conns, r \in BOOLEAN, g \in Grants : Send(c, r, g)
    \/ \E c \in Conns : AskRead(c)
    \/ \E c \in Conns, ok \in BOOLEAN, g \in Grants : OnDiskReadComplete(c, ok, g)
    \/ \E c \in Conns : Disconnect(c)
    \/ \E c \in Conns, n \in 0 .. MaxBuffer, e \in BOOLEAN, g \in Grants : OnSendData(c, n, e, g)
    \/ \E c \in Conns, ch \in Channels, n \in 1 .. MaxQuota, g \in Grants : AssignBandwidth(c, ch, n, g)
    \/ \E c \in Conns, n, k \in 0 .. MaxQuota, e \in BOOLEAN, g, h \in Grants :
            OnReceiveData(c, n, k, e, g, h)
    \/ \E c \in Conns, g \in Grants : OnDiskWriteComplete(c, g)
    \/ \E g \in [Conns -> Grants] : OnDiskQueue(g)
    \/ \E c \in Conns : TakeWrite(c)

Spec == Init /\ [][Next]_vars

-----------------------------------------------------------------------------
\* A connection that is up always waits for something that comes: the socket,
\* the bandwidth manager, or the disk thread, which has more to write or has
\* told the session that it has not.
NeverStalls ==
    \A c \in Conns : conn[c].state = "up" =>
        /\ \/ conn[c].flags["down"] \cap {"network", "limit"} # {}
           \/ "disk" \in conn[c].flags["down"] /\ (gate.exceeded \/ gate.posted > 0)
        /\ conn[c].buffer > 0 => conn[c].flags["up"] \cap {"network", "limit"} # {}
        /\ gate.exceeded => \E d \in Conns : writes[d] > 0

\* The session counts the connections that wait for the disk, quota is not
\* overdrawn, and no channel waits for quota it has.
WaitsAreCounted ==
    /\ \A ch \in Channels : queues[ch] = Cardinality({c \in Conns : "disk" \in conn[c].flags[ch]})
    /\ \A c \in Conns, ch \in Channels :
        /\ conn[c].quota[ch] >= 0
        /\ ~({"network", "limit"} \subseteq conn[c].flags[ch])
        /\ "limit" \in conn[c].flags[ch] => conn[c].quota[ch] = 0
=============================================================================
