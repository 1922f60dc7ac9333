---------------------------- MODULE PeerHandshake ----------------------------
(***************************************************************************)
(* The BitTorrent handshake over an optionally encrypted connection         *)
(* (bt_peer_connection): end "a" connects to end "b", both run this code.   *)
(* An attempt is encrypted or plain according to the settings of "a" and to *)
(* what it remembers of "b" (policy::peer::pe_support); the one that is      *)
(* refused makes the next one be of the other kind.                         *)
(*                                                                         *)
(* A byte is a symbol: what it is, a value, and the place of the RC4 stream  *)
(* it was encrypted with, 0 for a plain one.  Decrypting it at any other     *)
(* place gives junk.  The fields of the protocol are one symbol long, or as  *)
(* long as the search for them needs: a key KeyLen, the hash that ends the    *)
(* padding HashLen, the verification constant VcLen.  The padding has less    *)
(* than PadLimit (512) symbols.  TCP delivers any part of what was sent.      *)
(***************************************************************************)
EXTENDS Integers, Sequences, SequencesExt

CONSTANTS
    KeyLen, HashLen, VcLen, PadLimit,
    Paddings,    \* the lengths of the four paddings of an attempt, below PadLimit
    Settings,    \* pe_settings: the policy (forced, enabled, disabled) for connections
                 \* that "a" makes and "b" accepts (out, in), the levels that each allows
                 \* (a_level, b_level: a set of 1, plaintext, and 2, RC4), what "b" prefers
                 \* (prefer_rc4), and whether it has the torrent (known)
    MaxAttempts

VARIABLES
    conf,        \* the settings of both ends, and whether "b" has the torrent
    pe_support,  \* what "a" remembers of "b"
    end,         \* the two ends of the connection
    wire,        \* what is on the way to each end
    pad,         \* the lengths of the paddings of this attempt
    attempts,
    misses       \* attempts in a row that were refused

vars == <<conf, pe_support, end, wire, pad, attempts, misses>>

Ends == {"a", "b"}
Peer(x) == IF x = "a" THEN "b" ELSE "a"

Sym(t, v) == [t |-> t, v |-> v, n |-> 0]
Symbols(t, k) == [i \in 1 .. k |-> Sym(t, 0)]
Junk == Sym("junk", 0)

\* rc4_handler: the k-th symbol of s takes place at + k of the key stream.
Encrypted(s, at) == [k \in 1 .. Len(s) |-> [s[k] EXCEPT !.n = at + k]]
Decrypted(s, at) == [k \in 1 .. Len(s) |-> IF s[k].n = at + k THEN [s[k] EXCEPT !.n = 0] ELSE Junk]

-----------------------------------------------------------------------------
(* The receive buffer and the send buffer of an end. *)

Closed(why) ==
    [state |-> "closed", enc |-> FALSE, rc4 |-> FALSE, handler |-> FALSE, in |-> 0, out |-> 0,
     buf |-> <<>>, packet |-> 0, sync |-> 0, vc |-> <<>>, sent |-> <<>>, support |-> FALSE,
     why |-> why]
Fresh == [Closed("") EXCEPT !.state = "read_protocol_identifier", !.packet = 1]

\* disconnect: what was put in the send buffer before it is lost or not, which
\* is the same to the other end as a connection that is cut later.
Disconnect(e, why) == [Closed(why) EXCEPT !.sent = e.sent, !.support = e.support]

Finished(e) == Len(e.buf) >= e.packet
Cut(e, k, packet) == [e EXCEPT !.buf = SubSeq(@, k + 1, Len(@)), !.packet = packet]
ResetRecv(e, packet) == Cut(e, IF Len(e.buf) > e.packet THEN e.packet ELSE Len(e.buf), packet)

\* The first k symbols of the buffer from place at on are decrypted.
DecryptBuf(e, from, k) ==
    [e EXCEPT !.buf = [i \in 1 .. Len(@) |->
                          IF i \in from + 1 .. from + k
                          THEN Decrypted(SubSeq(@, from + 1, from + k), e.in)[i - from] ELSE @[i]],
              !.in = @ + k]

\* send_buffer
SendBuffer(e, s) ==
    IF e.enc /\ e.rc4 THEN [e EXCEPT !.sent = @ \o Encrypted(s, e.out), !.out = @ + Len(s)]
    ELSE [e EXCEPT !.sent = @ \o s]

Handshake == <<Sym("id", 0), Sym("info", 0), Sym("pid", 0)>>
WriteHandshake(e) == SendBuffer(e, Handshake)

\* write_pe1_2_dhkey
WriteDhKey(e, p) == SendBuffer(e, Symbols("key", KeyLen) \o Symbols("pad", p))

\* write_pe_vc_cryptofield, encrypted by the caller.
CryptoField(field, p) == Symbols("vc", VcLen) \o <<[t |-> "field", v |-> <<field, p>>, n |-> 0]>> \o Symbols("pad", p)
SendEncrypted(e, s) == [e EXCEPT !.sent = @ \o Encrypted(s, e.out), !.out = @ + Len(s)]

SyncHash == [i \in 1 .. HashLen |-> Sym("hash", i)]
InitRc4(e) == [e EXCEPT !.handler = TRUE, !.in = 0, !.out = 0]

\* write_pe3_sync
WriteSync(e, p) ==
    SendEncrypted([InitRc4(e) EXCEPT !.sent = @ \o SyncHash \o <<Sym("skey", 0)>>],
                  CryptoField(conf.a_level, p) \o <<Sym("ia_len", 3)>>)

\* write_pe4_sync
WriteSelect(e, select, p) ==
    [SendEncrypted(e, CryptoField({select}, p)) EXCEPT !.rc4 = (select = 2)]

\* get_syncoffset: where src starts in target, -1 if it does not.  The last
\* place where it could start is not tried.
SyncOffset(src, target) ==
    LET at == {i \in 0 .. Len(target) - Len(src) - 1 : SubSeq(target, i + 1, i + Len(src)) = src}
    IN  IF at = {} THEN -1 ELSE CHOOSE i \in at : \A j \in at : i <= j

\* Mutant: the padding may be shorter by one than what the sender may send.
TooFar1(e) == e.sync >= PadLimit - 1

\* The padding is longer than it may be.
TooFar(e) == e.sync >= PadLimit

\* A symbol that ends the padding was not found: all but the last Len(src) symbols
\* are done with.
Unsynced(e, len, why) ==
    LET done == Len(e.buf) - len
        s == [e EXCEPT !.sync = @ + done]
        room == PadLimit + len - s.sync
    IN  IF TooFar(s) THEN Disconnect(e, why)
        ELSE Cut(s, done, IF e.packet < room THEN e.packet ELSE room)

-----------------------------------------------------------------------------
(* on_receive: one operator for each state.  One that has not enough to go on *)
(* leaves the end as it is, or waits for more.                               *)

\* read_pe_dhkey
ReadDhKey(x, e) ==
    IF ~Finished(e) THEN e
    ELSE IF x = "a"
    THEN LET s == WriteSync(e, pad[3])
             h == WriteHandshake([s EXCEPT !.enc = TRUE, !.rc4 = TRUE])
         IN  ResetRecv([h EXCEPT !.enc = FALSE, !.rc4 = FALSE, !.state = "read_pe_syncvc"],
                       VcLen + 1 + 3)
    ELSE ResetRecv([WriteDhKey(e, pad[2]) EXCEPT !.state = "read_pe_synchash"],
                   HashLen + 1 + VcLen + 1 + 3)

\* read_pe_synchash
ReadSyncHash(e) ==
    LET at == SyncOffset(SyncHash, e.buf)
    IN  IF Len(e.buf) < HashLen
        THEN IF Finished(e) THEN Disconnect(e, "sync_hash_not_found") ELSE e
        ELSE IF at = -1 THEN Unsynced(e, HashLen, "sync_hash_not_found")
        ELSE [Cut(e, at + HashLen, 1 + VcLen) EXCEPT !.state = "read_pe_skey_vc"]

\* read_pe_skey_vc
ReadSkeyVc(e) ==
    LET d == DecryptBuf(InitRc4(e), 1, VcLen)
    IN  IF ~Finished(e) THEN e
        ELSE IF e.buf[1].t # "skey" \/ ~conf.known THEN Disconnect(e, "invalid_info_hash")
        ELSE IF SubSeq(d.buf, 2, 1 + VcLen) # Symbols("vc", VcLen)
        THEN Disconnect(e, "invalid_encryption_constant")
        ELSE [ResetRecv(d, 1) EXCEPT !.state = "read_pe_cryptofield"]

\* read_pe_syncvc: what the constant looks like is computed once.
ReadSyncVc(e) ==
    LET s == IF e.vc # <<>> THEN e
             ELSE [e EXCEPT !.vc = Encrypted(Symbols("vc", VcLen), e.in), !.in = @ + VcLen]
        at == SyncOffset(s.vc, s.buf)
    IN  IF Len(e.buf) < VcLen
        THEN IF Finished(e) THEN Disconnect(e, "invalid_encryption_constant") ELSE e
        ELSE IF at = -1 THEN Unsynced(s, VcLen, "invalid_encryption_constant")
        ELSE [Cut(s, at + VcLen, 1) EXCEPT !.state = "read_pe_cryptofield", !.vc = <<>>]

\* Mutant: the preference of the one that offers is not restricted to what we allow.
SelectedAny(provide) ==
    IF provide = {} THEN 0 ELSE IF conf.prefer_rc4 /\ 2 \in provide THEN 2
    ELSE IF 1 \in provide THEN 1 ELSE 2

\* Of what both allow, the highest bit or the lowest one; 0 if there is none.
Selected(provide) ==
    LET both == provide \cap conf.b_level
    IN  IF both = {} THEN 0
        ELSE IF conf.prefer_rc4 THEN CHOOSE m \in both : \A k \in both : m >= k
        ELSE CHOOSE m \in both : \A k \in both : m <= k

\* read_pe_cryptofield
ReadCryptoField(x, e) ==
    LET d == DecryptBuf(e, 0, e.packet)
        field == d.buf[1]
        select == Selected(field.v[1])
        mine == field.v[1] \cap conf.a_level
        s == IF x = "b" THEN WriteSelect(d, select, pad[4])
             ELSE [d EXCEPT !.rc4 = IF mine = {1} THEN FALSE ELSE IF mine = {2} THEN TRUE ELSE @]
    IN  IF ~Finished(e) THEN e
        ELSE IF field.t # "field" THEN Disconnect(e, "invalid_pad_size")
        ELSE IF x = "b" /\ select = 0 THEN Disconnect(e, "unsupported_encryption_mode")
        ELSE IF x = "a" /\ mine = {} THEN Disconnect(e, "unsupported_encryption_mode_selected")
        ELSE IF x = "b" THEN [ResetRecv(s, field.v[2] + 1) EXCEPT !.state = "read_pe_pad"]
        ELSE IF field.v[2] = 0 THEN [s EXCEPT !.enc = TRUE, !.state = "init_bt_handshake"]
        ELSE [ResetRecv(s, field.v[2]) EXCEPT !.state = "read_pe_pad"]

\* read_pe_pad
ReadPad(x, e) ==
    LET d == DecryptBuf(e, 0, e.packet)
        ia == d.buf[e.packet]
    IN  IF ~Finished(e) THEN e
        ELSE IF x = "a" THEN [d EXCEPT !.enc = TRUE, !.state = "init_bt_handshake"]
        ELSE IF ia.t # "ia_len" THEN Disconnect(e, "invalid_encrypt_handshake")
        ELSE IF ia.v = 0 THEN [d EXCEPT !.enc = TRUE, !.state = "init_bt_handshake"]
        ELSE [ResetRecv(d, ia.v) EXCEPT !.state = "read_pe_ia"]

\* read_pe_ia
ReadIa(e) ==
    IF ~Finished(e) THEN e
    ELSE LET d == DecryptBuf(e, 0, e.packet)
         IN  [Cut(d, 0, 1) EXCEPT !.handler = d.rc4, !.enc = TRUE, !.state = "read_protocol_identifier"]

\* Mutant: what came along with the padding is not decrypted.
InitBtHandshakeRaw(x, e) ==
    [ResetRecv(e, 1) EXCEPT
        !.handler = e.rc4, !.state = "read_protocol_identifier",
        !.support = @ \/ (x = "a" /\ conf.out = "enabled")]

\* init_bt_handshake: what came along is decrypted.
InitBtHandshake(x, e) ==
    LET d == IF e.rc4 THEN DecryptBuf(e, e.packet, Len(e.buf) - e.packet) ELSE e
    IN  [ResetRecv(d, 1) EXCEPT
            !.handler = d.rc4, !.state = "read_protocol_identifier",
            !.support = @ \/ (x = "a" /\ conf.out = "enabled")]

\* read_protocol_identifier
ReadProtocolIdentifier(x, e) ==
    IF ~Finished(e) THEN e
    ELSE IF e.buf[1].t # "id"
    THEN IF x = "b" /\ conf.in = "disabled" THEN Disconnect(e, "no_incoming_encrypted")
         ELSE IF e.enc \/ x = "a" THEN Disconnect(e, "invalid_info_hash")
         ELSE [Cut(e, 0, KeyLen) EXCEPT !.state = "read_pe_dhkey"]
    ELSE IF x = "b" /\ conf.in = "forced" /\ ~e.enc THEN Disconnect(e, "no_incoming_regular")
    ELSE [ResetRecv(e, 1) EXCEPT !.state = "read_info_hash"]

\* read_info_hash
ReadInfoHash(x, e) ==
    IF ~Finished(e) THEN e
    ELSE IF e.buf[1].t # "info" \/ ~conf.known THEN Disconnect(e, "invalid_info_hash")
    ELSE [ResetRecv(IF x = "b" THEN WriteHandshake(e) ELSE e, 1) EXCEPT !.state = "read_peer_id"]

\* read_peer_id: the handshake is complete, the first messages are sent.
ReadPeerId(x, e) ==
    IF ~Finished(e) THEN e
    ELSE LET s == SendBuffer(e, <<Sym("message", 0)>>)
         IN  [ResetRecv(s, 1) EXCEPT !.state = "read_packet_size",
                 !.support = @ /\ ~(x = "a" /\ ~e.enc /\ conf.out = "enabled")]

\* read_packet_size and read_packet, for the first message
ReadPacket(e) ==
    IF ~Finished(e) THEN e
    ELSE IF e.buf[1].t # "message" THEN Disconnect(e, "packet_too_large")
    ELSE [ResetRecv(e, 1) EXCEPT !.state = "connected"]

Step(x, e) ==
    CASE e.state = "read_pe_dhkey" -> ReadDhKey(x, e)
      [] e.state = "read_pe_synchash" -> ReadSyncHash(e)
      [] e.state = "read_pe_skey_vc" -> ReadSkeyVc(e)
      [] e.state = "read_pe_syncvc" -> ReadSyncVc(e)
      [] e.state = "read_pe_cryptofield" -> ReadCryptoField(x, e)
      [] e.state = "read_pe_pad" -> ReadPad(x, e)
      [] e.state = "read_pe_ia" -> ReadIa(e)
      [] e.state = "init_bt_handshake" -> InitBtHandshake(x, e)
      [] e.state = "read_protocol_identifier" -> ReadProtocolIdentifier(x, e)
      [] e.state = "read_info_hash" -> ReadInfoHash(x, e)
      [] e.state = "read_peer_id" -> ReadPeerId(x, e)
      [] e.state = "read_packet_size" -> ReadPacket(e)
      [] OTHER -> e

\* on_receive of the symbols s.
OnReceive(x, e, s) ==
    LET new == IF e.rc4 /\ e.enc THEN Decrypted(s, e.in) ELSE s
        got == [e EXCEPT !.buf = @ \o new, !.in = IF e.rc4 /\ e.enc THEN @ + Len(s) ELSE @]
        run[k \in 0 .. 13] == IF k = 0 THEN got ELSE Step(x, run[k - 1])
    IN  run[13]

-----------------------------------------------------------------------------
(* What happens. *)

Init ==
    /\ conf \in Settings
    /\ pe_support = TRUE
    /\ end = [x \in Ends |-> Closed("")]
    /\ wire = [x \in Ends |-> <<>>]
    /\ pad = [k \in 1 .. 4 |-> 0]
    /\ attempts = 0 /\ misses = 0

Over == \A x \in Ends : end[x].state = "closed"

\* Whether the next attempt is an encrypted one.
Encrypts == conf.out = "forced" \/ (conf.out = "enabled" /\ pe_support)

\* Mutant: what is remembered of the peer does not change until it answers.
SupportKept == pe_support

\* What "a" remembers for the next attempt, if this one comes to nothing.
SupportNext == IF conf.out = "enabled" THEN ~pe_support ELSE pe_support

\* on_connected, on both sides.
Connect ==
    /\ Over /\ attempts < MaxAttempts
    /\ attempts' = attempts + 1
    /\ pad' \in IF Encrypts THEN Paddings ELSE {[k \in 1 .. 4 |-> 0]}
    /\ LET e == [Fresh EXCEPT !.support = SupportNext]
           s == IF Encrypts
                THEN [WriteDhKey(e, pad'[1]) EXCEPT !.state = "read_pe_dhkey", !.packet = KeyLen]
                ELSE WriteHandshake(e)
       IN  /\ end' = [x \in Ends |-> IF x = "a" THEN [s EXCEPT !.sent = <<>>, !.support = FALSE]
                                     ELSE Fresh]
           /\ wire' = [x \in Ends |-> IF x = "a" THEN <<>> ELSE s.sent]
           /\ pe_support' = s.support
    /\ UNCHANGED <<conf, misses>>

\* Some of what is on the way arrives, no more than the end asked for.
Deliver(x) ==
    \E n \in 1 .. Len(wire[x]) :
        LET e == [end[x] EXCEPT !.support = pe_support]
            r == OnReceive(x, e, SubSeq(wire[x], 1, n))
        IN  /\ e.state # "closed" /\ n <= e.packet - Len(e.buf)
            /\ end' = [end EXCEPT ![x] = [r EXCEPT !.sent = <<>>, !.support = FALSE]]
            /\ wire' = [y \in Ends |->
                            IF y = x
                            THEN IF r.state = "closed" THEN <<>> ELSE SubSeq(wire[x], n + 1, Len(wire[x]))
                            ELSE IF end[y].state = "closed" THEN <<>> ELSE wire[y] \o r.sent]
            /\ pe_support' = r.support
            /\ misses' = IF end'["a"].state = "connected" /\ end'["b"].state = "connected"
                         THEN 0 ELSE misses
            /\ UNCHANGED <<conf, pad, attempts>>

\* An end sees that the other one closed the connection: the attempt was
\* refused, unless it was complete.
SeeClosed(x) ==
    /\ end[x].state # "closed" /\ end[Peer(x)].state = "closed"
    /\ end' = [end EXCEPT ![x] = Closed("closed")]
    /\ wire' = [y \in Ends |-> <<>>]
    /\ misses' = IF end[x].state = "connected" \/ end[Peer(x)].why = "lost" THEN misses ELSE misses + 1
    /\ UNCHANGED <<conf, pe_support, pad, attempts>>

\* The connection is lost, or closed for a reason that has nothing to do with
\* the handshake.
Lose(x) ==
    /\ end[x].state # "closed"
    /\ end' = [end EXCEPT ![x] = Closed("lost")]
    /\ wire' = [wire EXCEPT ![x] = <<>>]
    /\ misses' = 0
    /\ UNCHANGED <<conf, pe_support, pad, attempts>>

Next ==
    \/ Connect
    \/ \E x \in Ends : Deliver(x) \/ SeeClosed(x) \/ Lose(x)

Spec == Init /\ [][Next]_vars

-----------------------------------------------------------------------------

Compatible ==
    /\ conf.known
    /\ \/ conf.out # "forced" /\ conf.in # "forced"
       \/ /\ conf.out # "disabled" /\ conf.in # "disabled"
          /\ conf.a_level \cap conf.b_level # {}

\* What an end may refuse the other one for: its settings, and a torrent that
\* it does not have.
NothingIsGarbled ==
    \A x \in Ends : end[x].state = "closed" =>
        \/ end[x].why \in {"", "closed", "lost", "no_incoming_encrypted", "no_incoming_regular"}
        \/ end[x].why = "unsupported_encryption_mode" /\ conf.a_level \cap conf.b_level = {}
        \/ end[x].why = "invalid_info_hash" /\ ~conf.known

\* Both ends are of the same mind about the connection, and their settings
\* allow it.
ModeIsAllowed ==
    LET a == end["a"]
        b == end["b"]
        up == {"read_packet_size", "connected"}
    IN  (a.state = "connected" /\ b.state \in up) \/ (b.state = "connected" /\ a.state \in up) =>
        /\ a.enc = b.enc /\ a.rc4 = b.rc4 /\ a.rc4 = a.handler /\ b.rc4 = b.handler
        /\ ~a.enc => conf.out # "forced" /\ conf.in # "forced" /\ ~a.rc4
        /\ a.enc => /\ conf.out # "disabled" /\ conf.in # "disabled"
                    /\ (IF a.rc4 THEN 2 ELSE 1) \in conf.a_level \cap conf.b_level

\* The handshake of two ends of this code: nothing that one sends is garbled at the
\* other, whatever the padding and however it is split on its way; the mode that
\* they end up with is one that the settings of both allow; and of two attempts
\* in a row the second one is not refused if any kind of connection is allowed.
HandshakeIsRight == NothingIsGarbled /\ ModeIsAllowed /\ (Compatible => misses <= 1)
=============================================================================
