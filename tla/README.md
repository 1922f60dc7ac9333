# A verification project for libtorrent (rasterbar 0.16.9)

The repository is a home directory; the one program in it with core logic of its
own is the BitTorrent library `libtorrent-rasterbar-0.16.9`. This directory holds
TLA+ models of its parts, TLC configurations that check them on small instances,
and theorems checked by TLAPS. Paths below are relative to
`src/libtorrent-rasterbar-0.16.9/`, file names without a directory to its `src/`.

## 1. The system

libtorrent runs one **network thread** (an io_service: sockets, timers, all torrents
and peers) and one **disk thread**; they exchange jobs and completions. Within the
network thread handlers run to completion, one at a time, and what is hard comes
from their order: messages of many peers, timers, posted calls, and completions
that arrive after the state they refer to has changed.

| Component | State | Operations | Interacts with | Hard behaviour | What makes it correct |
|---|---|---|---|---|---|
| Block bookkeeping (`piece_picker.cpp`) | `m_downloads`: per piece three counters and a `block_info` per block | `mark_as_downloading`, `mark_as_writing`, `mark_as_finished`, `write_failed`, `abort_download`, `restore_piece`, `we_have` | every handler of a connection and of the torrent | several requests for one block; calls that arrive late | counters equal block states; the count per block equals the requests there are |
| Requests and blocks (`peer_connection.cpp`, `policy.cpp`) | request and download queues, choke and parole flags | choke, unchoke, reject, piece, snub, disconnect, `request_a_block` | picker, torrent, disk thread | end game, stray and late blocks, timeouts | queues and picker agree |
| Verification (`torrent.cpp`) | pieces we have, upload mode | `piece_finished`, `piece_passed`, `piece_failed`, `handle_disk_error`, `set_upload_mode` | disk thread, picker, all connections | stale verdicts, disk errors between two steps | a piece we have is on disk and right; a complete piece is decided |
| Disk thread (`disk_io_thread.cpp`, `storage.cpp`) | job queue, write and read cache, partial hashes, files | write, read, hash, flush, release, abort | posts completions | flushing at any time, one result for many blocks, hashing while writing | the hash covers what is written, reads serve what was verified |
| Piece order (`piece_picker.cpp`) | `m_pieces`, boundaries, availability, cursors, counts | availability and priority updates | as above | an order kept incrementally | it equals the order computed anew |
| Uploading (`peer_connection.cpp`) | requests of peers, reads under way, seed mode | request, cancel, choke, `fill_send_buffer`, `on_disk_read_complete` | disk thread | chokes and cancels while reads are under way | each request is answered once |
| Channels (`peer_connection.cpp`) | what each direction waits for, disk back pressure | `setup_send`, `setup_receive`, `assign_bandwidth`, `on_disk_queue` | socket, bandwidth manager, disk | a wait that nobody ends | every wait has something under way that ends it |
| Handshake (`bt_peer_connection.cpp`) | protocol state, RC4 streams, `pe_support` | `on_receive`, fallback to the other kind | the other end | padding of unknown length, split reads | both ends agree, or fail for a reason of theirs |
| Half-open queue (`connection_queue.cpp`) | queue of entries, slot count, one timer | `enqueue`, `done`, `close`, `limit`, `try_connect`, `on_timeout` | peers, HTTP connections, session | re-entrant callbacks, cancelled timers, changing limit | limit kept, slots counted, every attempt watched and served |
| Bandwidth manager (`bandwidth_manager.cpp`) | request queue, channels with quota | `request_bandwidth`, `update_quotas`, `close` | connections | priorities, division, starvation | quota never exceeded, every request served |
| Peer list (`policy.cpp`) | sorted list, counts, round robin index | add, find, connect, erase, ban | torrent, connections | entries erased while they are in use | counts and connections agree with the list |
| Choker (`session_impl.cpp`) | unchoke slots, counts per session and torrent | rounds, interest, pause | torrents, connections | many ways to give out and take back a slot | slots counted |
| Torrent life cycle (`torrent.cpp`, `session_impl.cpp`) | state flags, queue positions, check jobs | pause, resume, recheck, errors, queueing, removal | disk thread | answers of aborted jobs | a paused torrent is quiet, positions are dense, checks are complete |
| Announces (`torrent.cpp`) | trackers in tiers, one timer | announce, answer, error, add, replace | tracker manager | lists that change under requests | no announce is forgotten |
| UDP trackers (`udp_tracker_connection.cpp`) | transaction, cached connection ids | connect, announce, timeout | torrent | lost, late, duplicate answers | an answer is used only for its transaction, the requester is called once |
| DHT (`kademlia/`) | buckets, transactions, traversals, stored items | `add_node`, `invoke`, `incoming`, `tick`, `announce_peer`, `put` | UDP socket | timeouts racing answers, limits | traversals end, tokens are needed, tables are bounded |
| uTP (`utp_stream.cpp`) | connection state, windows, packet buffers | packets, timeouts | sockets | loss, reordering, sequence wrap | delivery in order, once |
| NAT-PMP (`natpmp.cpp`) | mappings, one request, refresh timer | add, delete, reply, resend | router | lost datagrams, expiry | every mapping is served |
| Metadata exchange, session start and shutdown, UPnP, HTTP, proxies, web seeds, storage, alerts, RSS, parsing | | | | | not modelled; `PROJECT.json` says why for each |

The Perl, shell and Ruby files next to libtorrent are short stateless scripts and
configuration; they are not modelled.

## 2. The modules

| Module | Models |
|---|---|
| `PickerBlocks` | the block bookkeeping of `piece_picker`, as operators from one picker to the next |
| `BlockDownload` | the download path: connections, torrent, disk thread, completion queue |
| `VerifiedStore` | the abstract specification of the download path |
| `PieceOrder` | `m_pieces`, priorities, availability, cursors, sparse regions and counts |
| `DiskCache` | read cache, write cache, eviction, flushing and the partial hash |
| `Upload` | requests of peers from queue to answer, and seed mode |
| `PeerIO` | the two channels of a connection and the back pressure of the disk |
| `PeerHandshake` | the BitTorrent handshake, plain or encrypted, and the fallback |
| `ConnectionQueue` | the half-open connection queue with its clients and its timer |
| `BandwidthManager` | the rate limiter of one direction with the connections that ask it |
| `PeerList` | the peers a torrent knows, and its connections to them |
| `Choker` | the unchoke slots of the session |
| `TorrentState` | the life of torrents, their queue and the checks of their files |
| `TrackerAnnounce` | the announces of a torrent to trackers in tiers |
| `UdpTracker` | requests to UDP trackers over an unreliable network |
| `RoutingTable`, `DhtLookup`, `DhtStore` | the DHT: buckets; RPCs and traversals; what is stored for others |
| `UtpStream` | a uTP connection over a network that loses, repeats and reorders |
| `NatPmp` | the NAT-PMP client with its router |
| `MCBlockDownload`, `MCUdpTracker`, `MCTorrentState` | instances of one module; the values are in the `.cfg` files |
| `MCTorrent`, `MCSession`, `MCProgress`, `MCDht`, `MCTransport` | several components in one run, see section 3 |
| `BlockDownloadProofs`, `DiskProofs` | theorems on the download path: with any disk errors, and with none; the second module is on top of the first |
| `PeerIOProofs`, `ChokerProofs`, `ConnectionQueueProofs`, `DhtStoreProofs`, `UdpTrackerProofs` | theorems on these components |
| `RankLemmas` | facts on finite sets of natural numbers the proofs share |

`DhtLookup` instantiates `RoutingTable`, and `BlockDownload` extends `PickerBlocks` and
instantiates `VerifiedStore`. The other components meet through what one assumes of the
other: `PeerIO` lets the bandwidth manager give any amount, `Upload` lets the disk
thread answer in any order, `BlockDownload` lets the picker choose any block.

Definitions called `...Swapped`, `...Early`, `...Forgets` and so on, commented
"Mutant", are plausible mistakes in the definition that follows them. They are used
by nothing in the specifications; `PROJECT.json` says which property detects which.

A handler of the network thread is one action with everything it calls. Most modules
write it as a chain of operators on one record of the state (`Now`, `Net`) that ends in
`Become` of the result, so that calls inside a handler (`disconnect` inside
`handle_disk_error` inside a completion) are part of the action. A job of the disk thread
is one action, and what it posts in one go is one completion.

### PickerBlocks and BlockDownload

`picker` is a record: `info[b]` is the `block_info` (state, peer, `num_peers`),
`cnt[p]` the three counters of a `downloading_piece`, `downloading` the pieces with an
entry in `m_downloads`, `have` the pieces we have. `queue[p][b]` says where block b is
in the queues of connection p: in `m_request_queue` ("request"), in
`m_download_queue` ("download"), there with the flag `timed_out` or `not_wanted`, or
nowhere. `jobs`, `cache`, `disk` and `done` are the disk thread: the job queue, the write
cache, whether the file holds the right bytes of each block, and the completions
posted and not yet run.

| Action | Code |
|---|---|
| `Connect`, `PeerLost` | a connection comes up; `peer_connection::disconnect` |
| `IncomingChoke`, `IncomingUnchoke`, `IncomingReject` | the handlers of that name, with the rejects a peer without FAST implies |
| `StartReceivePiece`, `IncomingPiece` | header and end of a piece message |
| `SnubPeer` | `snub_peer` |
| `SetUploadMode` | `torrent::set_upload_mode` |
| `DiskWrite`, `DiskWriteDirect`, `DiskFlush`, `DiskHash` | the jobs, and the flushing of the cache at any time |
| `CompleteWrite`, `CompleteHash` | `on_disk_write_complete`, `on_piece_verified` |

Abstractions: the order inside a peer's queues (where the code takes the first or
last entry the model takes any); which blocks the picker prefers (any allowed one);
trust points (any of several senders of a bad piece may be banned); what a peer has
(any block may be picked); request sizes; the partial hash (the file is hashed here,
`DiskCache` has the partial hash). Not modelled: time-critical pieces,
`torrent::add_piece`, `we_dont_have`.

`VerifiedStore` says what the path promises: missing pieces may be written, a piece
becomes ours only when all its blocks are right on disk, and then stays as it is. The
refinement maps `have` to `picker.have` and `disk` to itself.

### The other pieces of a torrent

`PieceOrder` keeps the picker's `m_pieces` as a sequence with the boundaries of its
buckets and moves one piece per bucket as `add`, `remove` and `update` do; random draws
are sets of results. Peers send bitfields at any time and may give up any piece; `mishaps` records
what the counts of the picker are not made for: a bitfield counted on top of an earlier one or not at all
("miscounted"), a seed that gives up pieces ("seed"), a piece lost that nobody was counted for ("unlisted",
where the model ends). `DiskCache` has the two caches as functions from pieces to entries
and one action per job of the disk thread; the bytes of a block are good or bad, and
what expires is a choice. `Upload` counts with a ghost (`owed`) the requests that are
neither answered nor dropped.

### Connections

`ConnectionQueue`: `queue`, `connecting`, `left`, `num_connecting`, `num_timers` are `m_queue` with
the fields of its entries and the counters; `timer`, `cancelled` and `expired` are the
pending wait and the handlers of waits that were cancelled or are over, and `posted`
the calls of `on_try_connect` in the io_service. `life` and `ticket` are the clients, each
with one attempt. Each function of the queue is one action together with the
callbacks it makes. Time is the time left until a deadline; handlers take no time, so
`Tick` waits until none is ready.

`BandwidthManager`: `queue`, `queued_bytes` and `abort` are the manager, `limit` and `quota_left`
the channels, `quota` and `state` the connection's side of one direction. `UpdateQuotas` is one
call of `update_quotas` with everything it calls; `bandwidth_channel::tmp` and
`distribute_quota` live only within that call and are the operators `Weight` and `earned`.

`PeerIO` has for each connection and direction what it waits for (`bw_network`, `bw_limit`,
`bw_disk`), and the job queue of the disk with its watermarks. `PeerHandshake` runs the code
of both ends over streams that are delivered in any pieces; a byte is a symbol with the
place of the RC4 stream it was encrypted at, and decrypting it anywhere else gives junk.

`PeerList` and `Choker` keep every counter the code keeps by hand; what rates and times
decide is a choice, also which of two peers that compare alike is erased or connected to. `setting.ignore` of
`Choker` stands for the settings that exempt local peers from the slots (`peer_connection.cpp:3788`), which the
user changes at any time; `miscounted` records that the counts went wrong.

### Session and trackers

`TorrentState` has the flags of `torrent`, the queue of checks of the session, the disk
jobs of the check (one per piece) and their answers, which come late. `TrackerAnnounce` has
`announce_entry` with its counters, the scan over tiers of `announce_with_tracker` and the one
of `update_tracker_timer`, and a bag of requests the tracker manager will answer. `mode` has the flags of the
torrent and the session that decide whether it is paused (`is_paused`) and whether it may announce
(`m_announce_to_trackers`), with every operation that changes them: `pause` and `resume` of both, auto
management, `force_recheck`, `files_checked`, `abort`. `refused` records that an announce returned at
`torrent.cpp:2263` for want of `m_announce_to_trackers`, which is before the timer is set, and that nothing
has set the timer since. One line is left out: `update_tracker_timer` does not issue the timer again for the
expiry it had (7383). That changes nothing while the wait is pending; a wait that fired or was cancelled
is followed by an announce that reads the clock anew, to the microsecond, or by a refused one.

`UdpTracker`: `con[r]` is the `udp_tracker_connection` of request r with its timer, its lookup and
the `start_announce` calls `fail` has posted; `cache` is the static `m_connection_cache`. The
trackers and the network (`TrackerAnswers`, `TrackerRestarts`) are external: `net` holds every
packet sent, and any of them may be delivered or answered at any time, again or never.

`NatPmp` has the mappings in their slots, the two timers and the datagrams; the router is
external. `fate` records of the request under way that its timer was stopped by another datagram,
and that its own was lost.

### DHT and uTP

`RoutingTable` is `add_node`, `node_failed` and the split of the last bucket, literally, on
sequences of nodes; an identifier is known by its bucket. `DhtLookup` numbers nodes by
their distance to the target. In `DhtStore` a token is the triple it is the hash of and
secrets are numbered in the order they are drawn; a full table makes room as the code does, which
for mutable items is by throwing out the last one (section 3). `UtpStream` counts in packets, its
sequence numbers wrap, and `net` holds every packet sent; `SendPkt` is one call of `send_pkt`, `SendPkts` the
loops that call it until it has nothing more to send. Both sides run the same code; only side a, which
connects, has data to write, and the other side sends acknowledgements and its FIN.

## 3. The runs

Runs of several components have a variable `part`: a behaviour is one of the part it
names, and the other components stay as they are. The parts do not interact there, so a
run asks the questions of its parts together. `EXTENDS` brings in the component whose
properties the run checks under their own names, `INSTANCE` the others.

| Run | Parts | Properties |
|---|---|---|
| `download` | 1 piece of 2 blocks, 2 peers (one with FAST, one without; one sends wrong data), no disk errors | `TypeOK`; `BooksAgree`: picker and queues agree; `HaveIsClosed`, `HaveIsEarned`: only a passed hash makes a piece ours, and nothing opens it again; `WritingIsPending`: a block that is being written has a write on its way; `FinishedIsVerified`: a complete piece has a hash job or a verdict; `KeepsPromise`: the refinement; `PassedIsWritten` |
| `torrent` | *disk*: 2 blocks, 1 peer, one disk error; *race*: 1 block, 2 peers, one disk error; *pieces*: 2 pieces, 2 peers, one sends wrong data; *order*: 3 pieces of 3 priorities, 1 peer; *count*: 2 pieces, 2 peers that send bitfields at any time and, as seeds, give up pieces; *upload*: 2 peers, 2 pieces, one wrong on disk; *choker*: 3 peers of 2 torrents, one of them local, 2 slots | `NothingIsStuck` (*disk*, *race*): `WritingIsPending` and `FinishedIsVerified`, with a disk error; `PiecesAgree`; `PickerIsRight` (*order*, *count*): the incremental order, cursors and counts are those computed anew; `UploadIsRight`: each request is answered once; `SlotsAreCounted` (*choker*) |
| `session` | *queue*: 3 attempts; *one*, *two*, *failing*: torrents and what is done to them; *cache*: 2 pieces of 2 blocks, room for 3; *announce*: 1 or 2 trackers of a torrent that is paused, resumed, checked and auto managed | `SlotsAreRight`, `LimitIsKept` (connection queue); `PausedIsQuiet`, `QueuesAreRight`, `PiecesAreKnown` (torrents); `CachesAreRight`; `AnnouncesAreRight` |
| `progress` | *tracker*, *disk*, *stream*, *queue*, *bandwidth*, *lookup*, each as small as its liveness allows | `EverythingEnds`, under fairness; `CalledOnce`, `AnsweredWasAnnounced` (trackers); `SharesAreRight` (bandwidth); `LookupIsRight` (DHT) |
| `dht` | *table*: 3 identifiers, 4 addresses; *store*: 1 address, 2 targets, room for one of each; *peers*: 3 endpoints, 2 connections | `TableIsRight`, `HearsayDisplacesNone`; `StoreIsRight`, `StoredIsEarned`; `PeersAreRight` |
| `transport` | *tracker*: 1 request, 2 addresses, a restart; *stream*: 2 units one way, from the side that connects; *io*: 2 connections; *handshake*: 2 attempts; *ports*: 2 ports | `TrackerIsRight`: `CalledOnce` and `AnsweredWasAnnounced` of its tracker; `StreamIsRight`; `NeverStalls`, `WaitsAreCounted` (channels); `HandshakeIsRight`; `PortsAreServed` |

Bounds. Two peers are what it takes for a block to be asked for twice, to arrive twice
and for one request to outlive the other; two blocks are what it takes for a piece to
be finished by one peer while another still writes to it, and two pieces for a
connection to be a downloader of one piece while the other becomes ours. A single
disk error (`MaxDiskErrors`) already separates the results of two jobs. Three pieces of three
priorities give buckets that are empty, have one piece and have several; two pieces and two
connections, counted modulo 3, give counts that wrap. Both were also checked in one instance of two
pieces, two connections and two priorities. Three attempts with a limit of two have one waiting while another is in progress and a third
one done; the timeout of 2 lets deadlines differ. Two connections with different
priorities are what it takes for one to be starved or overpaid by the other's share; in
a tick of 3 s the channel earns 3 bytes: one request alone, or a part of each of two.
Two requests share a connection id, two addresses make one request leave packets of an
earlier target behind, and a tracker that restarts (`MaxRestarts`) makes a cached id wrong.
Sequence numbers of uTP wrap at 8 and start at 6, so that they wrap within the first
packets. A bucket of two nodes is full, split and refilled with three identifiers; a full
replacement cache, which three identifiers do not make, is not reached. A
store with room for one has to make room for every second target. Two torrents with a
limit of one compete for the check and for running. The state graph of every run is
finite and explored completely, and every action is taken in some passing run.
Deadlock is not checked: a torrent that is complete, or whose peers are gone, really may
stop, and so may a queue when every attempt is over.

Fairness, in `progress` only: weak fairness of the disk thread's next job and of the
completion at the head of the queue (the thread loops over its queue and the io_service
runs what is posted); of the posted calls, the timer and time of the connection queue
together; of the session's tick, whose timer is set again each time; of lookups, timers
and posted calls of the tracker requests; of the timeouts and the reaping of uTP
sockets; of the timeout of DHT queries. Nothing is assumed of peers, users, the network,
routers or trackers. `Must1` to `Must4` are disjunctions over the parts; since one part moves in
a behaviour, fairness of the disjunction is fairness of that part's action. `watch` names
the request, piece or socket the property is about, so that one formula serves all parts.

### Disagreements between the code and what it says of itself

Six runs expect a violation:

- `end_game_cancel`: when a block that was asked for twice arrives, `incoming_piece`
  means to cancel it elsewhere ("if we requested this block from other peers, cancel
  it now", `peer_connection.cpp:2589`). It has marked the block as writing by then, and
  `cancel_request` returns at once for a block that is not in the requested state. No
  cancel is ever sent, and the block is downloaded twice.
- `stale_hash`: `piece_finished` ignores a verdict on a piece that lost a block to a
  failed write by asking `is_piece_finished`. If the block was downloaded again in
  the meantime that is true again, and the verdict of the earlier job declares a
  piece as ours with a block that is not written, against the assertions of `piece_passed`
  (`torrent.cpp:3201`).
- `partial_hash`: when one of the runs of a flush fails, all blocks of the flush are reported
  as failed, also those that were written and fed to the partial hash; what is then
  downloaded in their place is written but not hashed (`storage.cpp:1836` asserts otherwise).
- `seed_mode`: a piece counts as verified when its hash job is queued, so that the answer for
  another piece ends seed mode and the failure of the last hash is ignored, although "if a
  hash fails, the torrent will automatically leave the seed mode and recheck all the files"
  (`docs/manual.rst:576`).
- `late_abort`: a torrent that is paused and resumed while its files are checked takes the
  answer of the aborted job for one of the new check, and stays paused in `checking_files`
  (`torrent.cpp:6469` asserts otherwise).
- `next_address`: when the first address of a tracker times out, `fail` means to "pick another
  target endpoint and try again" (`udp_tracker_connection.cpp:157`), but `on_timeout` has set
  `m_abort`, and everything that would send returns when it is set. No timeout is pending
  any more either: the request never ends.

Some properties hold only where a run checks them, for reasons seen in the code.

- `BooksAgree` needs a disk that does not fail. Since nobody is sent a cancel, another request
  for a block may be outstanding when its write fails, while the picker, which set
  `num_peers` to 0 in `mark_as_writing`, counts nobody; then the assertion of `check_invariant`
  (`peer_connection.cpp:5889`) does not hold. `PassedIsWritten` and the refinement need it because
  of `stale_hash`.
- Connection queue: only an attempt that starts alone sets the timer (`connection_queue.cpp:221`),
  so one with a shorter timeout that starts beside another is timed out with the other
  one. `SlotsAreRight` promises the longest timeout.
- Bandwidth: an old request is answered only if it was assigned at least one byte, and a
  channel with a limit below 5 bytes per second earns (limit * 100 + 500) / 1000 = 0 bytes in
  every tick of 100 ms, although `ttl` "ensures that requests gets responses at very low rate
  limits" (`bandwidth_queue_entry.hpp:55`). A request of low priority can also wait for ever while
  its share rounds to 0; in the run a tick earns as many bytes as there are units of priority, so that
  `EverythingEnds` says nothing of low limits.
- `FinishedIsVerified` is false after three disk errors. A write of a block fails and the block is
  downloaded again; then the hash job of before fails too and restores the piece, while the
  second write of the block and the second hash job are queued. The block is downloaded a
  third time, and the flush of the second hash job fails, so that it is lost again. The other
  block arrives; the piece is not complete, so no hash job starts. Then the callback of the
  third write runs and `mark_as_finished`, which does not look at the state of the block
  (`piece_picker.cpp:2306`), makes the piece complete. Nothing verifies it or asks for it any more.
  `NothingIsStuck` is checked with one error.
- UDP tracker: a `start_announce` that was posted before a request was closed still runs, and if its
  send fails the requester is called again. `transport` therefore checks two addresses with sends that do
  not fail at once (`SendErrors` = FALSE); in `progress` they may fail, but there is one address and
  nothing is posted.
- Piece order: the counts of the picker are not made for three things peers may do. A bitfield that
  arrives while the torrent is upload only is kept but not counted (`peer_connection.cpp:1936`). One that
  arrives later than the first is counted on top of it, bit by bit (1958–1973), and a second full one or
  HAVE_ALL as one more seed (1943, 2807). A seed is counted as a whole; when it gives up a piece (DONT_HAVE,
  1867, or a smaller bitfield), `peer_lost` takes it from `peer_count`, which may wrap, and the sum is right only
  modulo its width. After the first two the sum is wrong for good, and then `dec_refcount` may be called for a
  piece nobody was counted for, which the order does not list: it stays unlisted although its count,
  which wraps, says otherwise (`piece_picker.cpp:919–931`). `AvailabilityCounted` is exact up to these
  things, which all happen in *count*; the order, cursors and counts of pieces hold throughout, up to
  the last of them.
- DHT: a reply without "r" or "id" drops its observer silently (`kademlia/rpc_manager.cpp:301–339` against
  494–498, `Malformed`), and the traversal waits for ever. `find_node` looks at too few nodes of closer
  buckets (`kademlia/routing_table.cpp:825–840`). The token of a mutable put is checked against the first
  bytes of the key and not against the target "get" was asked for (`kademlia/node.cpp:818`, 890). A full table
  of mutable items throws out its last item and not "the one the fewest peers are announcing" (897): the
  comparison given to `min_element` looks only at the first of two items, and at whether it has announcers (899–902).
- Peer list: `max_peerlist_size` = 0 makes every incoming peer that is not known be refused
  (`policy.cpp:959–979`, manual.rst:5020: no limit); `set_port_filter` does not recount the
  candidates (`session_impl.cpp:1855`); with fewer than 10 allowed connections `attach_peer` exceeds them
  (`torrent.cpp:5943–5966`). Of two connections between the same peers both may be closed
  (`bt_peer_connection.cpp:3139–3165`).
- Choker: `SlotsAreCounted` holds until one of three things happens (`miscounted`). The settings that exempt
  local peers change while one is unchoked, and it gives back a slot it did not take, or keeps one
  (`peer_connection.cpp:3788`). A graceful pause chokes local peers with `choke_peer`, too, and takes back slots they
  did not have (`torrent.cpp:7178`, against the assertion at 4286). A peer of such a torrent gets interested meanwhile
  and is unchoked, and the next round, which passes over it and counts anew, misses it (`session_impl.cpp:4480`).
- Disk cache: reads of pieces that are not had (the smart-ban plugin, `smart_ban.cpp:155`, 206, or a bad
  file in seed mode) may leave stale blocks in the read cache (`SmartBan`, `SeedData`). Block 0 written again
  feeds the existing hash again (`storage.cpp:1811`). Further, outside the model: `post_callback`
  without the mutex (`disk_io_thread.cpp:213`), sorted reads never answered at `abort_thread` (1893),
  callbacks of writes flushed at thread exit never posted (1539), a read one past the end of
  `blocks` (537), an erased iterator used with a volatile read cache (1090–1109).
- Channels: with `max_queued_disk_bytes` = 1 the low watermark is 0 and the connections are held
  back for ever (`disk_io_thread.cpp:1606`).
- Uploading: a super seeding torrent drops requests for other pieces without a reject
  (`peer_connection.cpp:2037–2059`); the limit of the request queue is off by one (2092); a read that is
  cancelled by an abort is taken for a failed hash (4627).
- Handshake: `get_syncoffset` never tries the last offset (`bt_peer_connection.cpp:705`), bytes after a part of
  the initial payload are not decrypted (2850–2880).
- Torrents: removing the torrent that is being checked leaves those that wait unstarted
  (`session_impl.cpp:5123`); `resume` in a paused session leaves the graceful pause on (`torrent.cpp:7269`); a check
  after a fatal error reports piece 0 as found (`storage.cpp:2285`); `queue_up` goes from -1 to -2
  (`torrent.cpp:6634`); a fatal `on_force_recheck` leaves `checking_resume_data` (2042).
- Announces: `trackerid` is written through an entry after `prioritize_tracker` has moved it
  (`torrent.cpp:2545`); `add_tracker` is off by one in `last_working` (4275), and announces (4278) in a torrent that is paused
  if the session is, or if auto management has set `m_announce_to_trackers` again. Once an announce is refused because the torrent is
  over `active_tracker_limit` (2263), the timer is not set; nor is it when the torrent is within the limit again,
  since `set_announce_to_trackers` only sets the flag and `start_announcing` returns while `m_announcing` is set. The torrent
  does not announce until it is resumed, forced, completed, given a tracker or answered by one: `AnnouncesAreRight`
  promises the timer only up to a refused announce. A
  tracker with a request in flight is not told "stopped"; copied entries keep a stale `updating`;
  `fails` wraps after 127 failures; a torrent that is finished but no seed never sends "started" (2273).
- NAT-PMP: any datagram stops the resend timer before it is looked at (`natpmp.cpp:456`), so a request that
  is lost then is not sent again, and every mapping waits for it; `PortsAreServed` says that this is the only way for a
  request to be left without its timer. An expired mapping that was deleted makes `try_next_mapping` and
  `update_mapping` call each other for ever (660, `endless`); a delete while an add is in flight is lost
  (578); the retry "in two hours" is never scheduled (562, 603); `rebind` tests the wrong way (134).
- uTP: `send_reset` is never reached, data that arrives in `SYN_SENT` is acknowledged and dropped, a
  lost answer to a SYN is not repeated (`utp_stream.cpp:2169`), what is buffered at EOF is dropped.

## 4. The proofs

All theorems hold for every value of the constants that satisfies the named
assumptions (`PeerAssumption`, `BlockAssumption`, `ConfigAssumption`, `QueueAssumption`, `TrackerAssumption`,
`ConnsAssumption`, `BoundsAssumption`, `PeersAssumption`, and those of `DhtStore`), which TLC evaluates in the runs
of the module. The one that says more than a type is that the low watermark of the disk queue is
not 0 (`BoundsAssumption`): the code replaces a setting of 0 by 7/8 of the limit, which is positive unless the
limit is 1 byte (section 3, channels).

### The download path

`TypeCorrect`, `HaveStaysClosed`, `HaveStaysEarned` and `WritingTheorem` hold with any number and kind of disk errors:

- `TypeCorrect`: `Spec => []TypeOK`. `TypeOK` is inductive. The lemmas follow the layers of the
  model: each picker operator maps a `Picker` to a `Picker`, each operator on the record of
  the network thread keeps its type, each action keeps `TypeOK`.
- `HaveStaysClosed`: `Spec => []HaveIsClosed`. The invariant is `HaveInv`, `TypeOK` with
  `HaveIsClosed`. The picker's operators `Keep` a piece closed: those that open blocks are
  called only for blocks of missing pieces, and those that are called for any block test
  `have`. The one place where that is not visible locally is a verdict: `piece_failed` and
  `restore_piece` open a piece again, so they may run only for a piece that is not ours, which
  follows from `is_piece_finished`: a finished piece is being downloaded, a closed one is not.
- `HaveStaysEarned`: `Spec => HaveIsEarned`, from the same invariant.
- `WritingTheorem`: `Spec => []WritingIsPending`. A block in the state writing has a write in the job queue,
  the cache or the completions, although writes fail, pieces are restored under late writes and
  verdicts, and a block may be written twice at a time. `WaitInv` adds to `HaveInv` that the
  writing blocks are `Within` those with such a write, and that their pieces have an entry in
  `m_downloads`: without the entry `write_failed` would pass over the block, and its last write would be
  gone while it stays in the state writing. `HaveInv` is needed since `on_disk_write_complete` leaves the
  picker of a seed alone: then no block is in that state. A completion that takes away the only
  write of a block also takes the block out of the state, whatever its result.

The others are for a disk that does not fail (`PossibleErrors = {}`, as in the run `download`);
`stale_hash` and `BooksAgree` above show that the hypothesis is needed:

- `BooksTheorem`: `Spec => []BooksAgree`. The picker's three counters equal the states of its blocks,
  a piece is open exactly if one of its blocks is touched, and `num_peers` of a requested block
  is the number of connections that have it in a queue.
- `PromiseTheorem`: `Spec => KeepsPromise`, the refinement of `VerifiedStore`. The initial state maps to
  the initial state; a write or a flush of the disk thread maps to `Store`, since what is in
  jobs or cache belongs to a missing piece; the completion of a passed hash maps to `Verify`, which
  makes the piece ours: the verdict was passed on what is on disk and nothing has been
  written since; every other step maps to a stutter.
- `HaveIsOnDisk`: `Spec => []Promise!HaveIsRight`, from the refinement and a fact about the abstract
  specification alone (`StoreIsRight` of `DiskProofs`).
- `WrittenTheorem`: `Spec => PassedIsWritten`.
- `PendingTheorem`: `Spec => []FinishedIsVerified`; with disk errors it is false (section 3).

They rest on one inductive invariant, `DiskInv`, with three parts:

1. `TypeOK`;
2. `Sound(Net)`, over the network thread: the picker's `Books` are right and `ReqRight`, the count of
   each requested block is the number of its `Askers`. `DiskProofs` shows for each picker
   operator, then for each operator on the record, that it keeps `Books` and `ReqRight`, counting
   with the cardinality of the sets that change (one more asker, one block less in a state);
3. `Agree(jobs, cache, done, picker, disk)`, over the two threads: no block is twice among jobs,
   cache and completions, and nothing about a piece follows its hash job or its verdict
   (`JobsFine`, `DoneFine`, `Apart`); a block is in one of them exactly if the picker says it is being
   written (`Owed`); a finished piece has one hash job or verdict, and only it (`Hashed`); behind a
   verdict nothing of the piece is left to write (`Settled`); a passed verdict is about a piece
   that is right on disk, and so is a piece we have (`Stored`).

The second part alone does not suffice: that a late write callback finds its block in
the writing state, and that a verdict finds its piece as it was when it was hashed, are
facts about the order of jobs and completions.

### The channels of a connection

`StallTheorem`: `Spec => []NeverStalls`, and `CountTheorem`: `Spec => []WaitsAreCounted`, for any number of connections, any
quotas and any limits of buffers and of the disk queue. `IOInv` has two parts. `GateRight` is about the back
pressure of the disk: the bytes it counts are those of the blocks that wait to be written (counted
as a set of units, so that no sum is needed), and it holds connections back only while there are
some. `ConnsRight` says for each connection and direction what it may wait for and what is
then under way (the socket, a request for quota, a read, the disk), that the quota is not overdrawn,
and that `m_disk_queues` counts the connections that wait for the disk. A connection waits for the
disk only while the gate is closed or a wake-up is posted (`Told`); that a closed gate opens again
is where the positive low watermark is used: the last write that completes goes below it.

### The choker

`ChokerTheorem`: `Spec => []SlotsAreCounted`, for any peers, torrents, limits and algorithms, and with no
hypothesis: what makes the counts wrong (section 3) is in the model, and the theorem says that nothing
else does, whatever the order of rounds, interest, pauses, settings and lost connections.
`ChokerInv` says that, until then, every count is the number of peers it stands for, that peers which are gone have
no slot, and that an optimistic slot is a slot. While a round is under way the session's count is
wrong on purpose (the code sets it to 0 and counts again), so `Sound`, the part about peers and torrents, is
kept apart from it. The loops over peers are folds; `FoldKeeps` and `FoldExists` say that what every step keeps, the
fold keeps, by taking the least number of peers for which it would not: no induction with an
operator as a parameter is needed.

### The connection queue

`SlotsTheorem`: `Spec => []SlotsAreRight`, and `LimitTheorem`: `Spec => LimitIsKept`, for any clients, timeouts, priorities
and limits. `QueueInv` says of the record the handlers work on that `num_connecting` counts the
entries that are connecting, `num_timers` the handlers of the timer that will still run
(the pending one, cancelled and expired ones), that one is there whenever an attempt is in
progress (`Watched`), and that the timer expires before any attempt in progress has had the
longest timeout (`InTime`). A queue from which entries are taken out is a subsequence; `RankLemmas` shows what
its elements are without an induction, by the rank of a place among the places kept.

### The DHT store

`StoreTheorem`: `Spec => []StoreIsRight`, and `EarnedTheorem`: `Spec => StoredIsEarned`, for any addresses, targets and
limits of at least one. `StoreInv` adds to the limits that the secrets are two consecutive ones,
that no token is newer than the current secret, and the types of the three tables. What
needs an argument is `MakeRoom`: the torrent it throws out (`Candidate`) is always one that is
stored, also when the one being announced is the only one, so that the table has room
afterwards; it uses that a finite set of numbers has a least and a greatest element.

### UDP trackers

- `AnswersAreOwn`: `Spec => []AnsweredWasAnnounced`, for any requests, addresses and restarts, with or
  without send errors. `TidInv` says that a connection holds only transaction ids it has drawn
  itself, that it holds one whenever it may accept a packet, and that announce responses in
  the network are of transactions a tracker has taken.
- `RequesterCalledOnce`: `~SendErrors => (Spec => []CalledOnce)`. `OnceInv` adds that a requester that was
  called belongs to a closed connection whose timer is off and whose lookup, if it is still
  going on, will be ignored; for that one needs to know that nothing is sent and no address
  known before the lookup is over (`Early`).

### Only model-checked

- Liveness (`EverythingEnds`): out of reach of the prover, like everything about fairness.
- `FinishedIsVerified` with disk errors, as a part of `NothingIsStuck`: it is true with one error and false
  with three, and what a proof for one would have to say is a list of cases rather than an invariant.
- `SharesAreRight`: sums over a queue, which are folds the provers cannot unfold.
- `PickerIsRight`, `TableIsRight`, `PeersAreRight`, `UploadIsRight`: sequences from which elements are selected or into
  which they are inserted; the facts on `SelectSeq` and on scans would need inductions.
- `StreamIsRight`, `HandshakeIsRight`, `CachesAreRight`, `LookupIsRight`, the properties of torrents, of announces and
  of NAT-PMP: no obstacle in principle, not attempted.

## 5. Not modelled, and the plan

Not modelled: UPnP and local discovery, HTTP trackers, web seeds and proxies, the UDP
socket, metadata exchange and peer exchange, start and shutdown of the session, the
mapping of pieces to files, resume data, time-critical pieces, `add_piece`, alerts, RSS;
parsers and encoders; vendored code and wrappers of the operating system. `PROJECT.json` has a
note for each.

Planned, in this order:

1. Proofs: `Upload`; `PausedIsQuiet` of `TorrentState`.
2. `add_piece` as an action of `BlockDownload`; metadata exchange over several peers.
3. HTTP connections as clients of the connection queue, with their timeouts; the UDP socket.
4. UPnP; session start and shutdown; the queue of alerts at its limit.
