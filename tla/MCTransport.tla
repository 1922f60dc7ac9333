---------------------------- MODULE MCTransport -----------------------------
(***************************************************************************)
(* What goes over the network, for TLC: two protocols over UDP and the     *)
(* channels of peer connections, in one run. A behaviour is one of the     *)
(* part that `part` names, the others stay as they are.                    *)
(*                                                                         *)
(*   tracker    one request to a tracker with two addresses, which may     *)
(*              restart;                                                   *)
(*   stream     a uTP connection that carries two units one way, with a    *)
(*              window of two packets and sequence numbers that wrap;      *)
(*   io         two peer connections that wait for their sockets, for      *)
(*              quota and for the disk; one uploads too;                   *)
(*   handshake  a peer that connects to another one, encrypted or not,     *)
(*              twice;                                                     *)
(*   ports      two ports that are mapped by a NAT-PMP router.             *)
(***************************************************************************)
EXTENDS PeerIO, TLC

CONSTANTS r1, e1, e2, c1, c2, None

\* The extremes of padding, and settings of both ends: every pair of policies and
\* of levels; the preference of the second end where it has a choice.
Paddings == {<<0, 0, 0, 0>>, <<2, 2, 2, 2>>, <<2, 1, 0, 2>>}
Policies == {"forced", "enabled", "disabled"}
Settings ==
    {c \in [out : Policies, in : Policies, a_level : SUBSET {1, 2} \ {{}},
             b_level : SUBSET {1, 2} \ {{}}, prefer_rc4 : BOOLEAN, known : BOOLEAN] :
        /\ c.prefer_rc4 \/ c.a_level = c.b_level
        /\ c.out = "disabled" => c.a_level = {1, 2} /\ c.b_level = {1, 2} /\ c.prefer_rc4
        /\ c.known \/ (c.in = "enabled" /\ c.a_level = {1, 2})}

VARIABLES
    part,   \* what takes the steps
    \* UdpTracker
    t_con, t_shutdown, t_cache, t_expired, t_net, t_epoch, t_announced,
    \* UtpStream
    s_sock, s_net,
    \* PeerHandshake
    h_conf, h_pe_support, h_end, h_wire, h_pad, h_attempts, h_misses,
    \* NatPmp
    p_slots, p_current, p_retry_count, p_send_timer, p_refresh, p_refresh_at, p_abort, p_net,
    p_router, p_endless, p_fate, p_calls

trackerVars == <<t_con, t_shutdown, t_cache, t_expired, t_net, t_epoch, t_announced>>
streamVars == <<s_sock, s_net>>
handshakeVars == <<h_conf, h_pe_support, h_end, h_wire, h_pad, h_attempts, h_misses>>
portsVars == <<p_slots, p_current, p_retry_count, p_send_timer, p_refresh, p_refresh_at,
               p_abort, p_net, p_router, p_endless, p_fate, p_calls>>

T == INSTANCE UdpTracker WITH
        Request <- {r1}, Stopped <- {}, Endpoint <- {e1, e2}, SendErrors <- FALSE,
        MaxRestarts <- 1, con <- t_con, shutdown <- t_shutdown, cache <- t_cache,
        expired <- t_expired, net <- t_net, epoch <- t_epoch, announced <- t_announced

S == INSTANCE UtpStream WITH
        Mod <- 8, First <- "a" :> 6 @@ "b" :> 3, Units <- 2, Window <- 4, InitCwnd <- 2,
        MaxCwnd <- 2, MaxPackets <- 6, DupLimit <- 1, Reorder <- 2, Resends <- 2,
        DelayedAck <- FALSE, SendErrors <- FALSE, sock <- s_sock, net <- s_net

H == INSTANCE PeerHandshake WITH
        KeyLen <- 2, HashLen <- 2, VcLen <- 2, PadLimit <- 3, Paddings <- Paddings,
        Settings <- Settings, MaxAttempts <- 2, conf <- h_conf, pe_support <- h_pe_support,
        end <- h_end, wire <- h_wire, pad <- h_pad, attempts <- h_attempts, misses <- h_misses

P == INSTANCE NatPmp WITH
        Ports <- {1, 2}, MaxSlots <- 2, MaxRetries <- 1, Lease <- 1, GivenUp <- 2,
        MaxCalls <- 2, slots <- p_slots, current <- p_current, retry_count <- p_retry_count,
        send_timer <- p_send_timer, refresh <- p_refresh, refresh_at <- p_refresh_at,
        abort <- p_abort, net <- p_net, router <- p_router, endless <- p_endless,
        fate <- p_fate, calls <- p_calls

AllVars == <<part, trackerVars, streamVars, vars, handshakeVars, portsVars>>

PartInit ==
    /\ part \in {"tracker", "stream", "io", "handshake", "ports"}
    /\ T!Init
    /\ S!Init
    /\ Init
    /\ H!Init
    /\ P!Init
    /\ part # "handshake" => h_conf = CHOOSE c \in Settings : TRUE
    /\ part # "ports" => p_net = {}

\* A step of the part p that leaves the other components alone.
InPart(p, step, others) == part = p /\ step /\ UNCHANGED <<part, others>>

notTracker == <<streamVars, vars, handshakeVars, portsVars>>
notStream == <<trackerVars, vars, handshakeVars, portsVars>>
notIo == <<trackerVars, streamVars, handshakeVars, portsVars>>
notHandshake == <<trackerVars, streamVars, vars, portsVars>>
notPorts == <<trackerVars, streamVars, vars, handshakeVars>>

PartNext ==
    \/ InPart("tracker", T!Next, notTracker)
    \/ InPart("stream", S!Next, notStream)
    \/ InPart("io", Next, notIo)
    \/ InPart("handshake", H!Next, notHandshake)
    \/ InPart("ports", P!Next, notPorts)

PartSpec == PartInit /\ [][PartNext]_AllVars

-----------------------------------------------------------------------------
\* A request is answered at most once, and what is answered was announced, although
\* the tracker restarts and has two addresses.
TrackerIsRight == part = "tracker" => T!TypeOK /\ T!CalledOnce /\ T!AnsweredWasAnnounced

\* What is written into a uTP socket comes out in order, once and without gaps;
\* what is acknowledged has arrived, and what is in flight is counted.
StreamIsRight == part = "stream" => S!TypeOK /\ S!StreamIsRight

\* The handshake of two peers ends as their settings say, whatever the padding
\* and however the stream is split, or fails for a reason of theirs; of two
\* attempts in a row one succeeds if any kind of connection is allowed.
HandshakeIsRight == part = "handshake" => H!HandshakeIsRight

\* A port that is to be mapped, refreshed or given up waits only for a request that
\* is under way, and what was granted is refreshed in time.
PortsAreServed == part = "ports" => P!PortsAreServed
=============================================================================
