------------------------------ MODULE DiskCache ------------------------------
(***************************************************************************)
(* The jobs and the caches of the disk thread (disk_io_thread.cpp): blocks *)
(* wait in the write cache m_pieces until they are flushed, m_read_pieces  *)
(* keeps blocks that were read, both share one budget of buffers, and the  *)
(* storage hashes a piece while it is written from the front               *)
(* (piece_manager::m_piece_hasher).  Reads that miss the cache may be put  *)
(* off and are done in any order (m_sorted_read_jobs).                     *)
(*                                                                         *)
(* Abstracted: the bytes of a block are good or bad; which entry is the    *)
(* oldest and what has expired is arbitrary; a read is of one whole block; *)
(* the network thread takes an answer when it is posted (BlockDownload has *)
(* the answers that wait).  Memory does not run out.                       *)
(***************************************************************************)
EXTENDS Integers, FiniteSets, Sequences

CONSTANTS
    Pieces, N,         \* N: blocks of a piece, at least 2
    CacheSize,         \* session_settings::cache_size
    WriteLine,         \* write_cache_line_size
    ReadLine,          \* read_cache_line_size
    Algorithms,        \* the values of disk_cache_algorithm
    Explicit,          \* explicit_read_cache
    Volatile,          \* volatile_read_cache
    SeedModes,         \* whether the torrent starts in seed mode
    SeedData,          \* what the files hold then
    SmartBan,          \* the smart-ban plugin reads the blocks of failed pieces
    ReadErrors,        \* reads may fail
    MaxJobs, MaxErrors, MaxBad  \* bounds: jobs, failing writes, bad blocks

Blocks == 0 .. N - 1
Empty == "empty"
NoPiece == 0
Content == {"bad", "good"}

VARIABLES
    cache,     \* the caches, what is on disk, and the jobs; see Init
    status,    \* status[p][b]: what the picker knows of a block
    have,      \* the pieces that passed
    failed,    \* the pieces the smart-ban plugin reads
    seed_mode, \* the torrent is in seed mode
    algorithm, \* disk_cache_algorithm
    last       \* the last answer to a read

vars == <<cache, status, have, failed, seed_mode, algorithm, last>>

Held(buf) == {b \in Blocks : buf[b] # Empty}
NoBlocks == [b \in Blocks |-> Empty]
NoEntry == [there |-> FALSE, buf |-> NoBlocks, next |-> 0]
NoHash == [offset |-> 0, fed |-> <<>>]
Nothing == [op |-> "none", piece |-> NoPiece, data |-> Empty]

\* in_use(): the blocks of the caches, of the writes that wait and of the job.
InUse(s) == s.size + s.busy + Cardinality({i \in 1 .. Len(s.jobs) : s.jobs[i].op = "write"})

Most(S) == CHOOSE x \in S : \A y \in S : x >= y

-----------------------------------------------------------------------------
(* Writing. *)

\* The blocks of a run that starts at a and ends before z.
Run(buf, a, z) == [i \in 1 .. z - a |-> buf[a + i - 1]]

\* Mutant: the hash that is under way takes any run that is written.
FeedAnyRun(ph, a, data) == [offset |-> a + Len(data), fed |-> ph.fed \o data]

\* The partial hash in piece_manager::write_impl.  An entry that is there when
\* block 0 is written is not started over.
FeedHash(ph, a, data) ==
    IF a = 0 THEN [offset |-> Len(data), fed |-> ph.fed \o data]
    ELSE IF ph # NoHash /\ ph.offset = a
    THEN [offset |-> a + Len(data), fed |-> ph.fed \o data]
    ELSE ph

\* piece_manager::write_impl of the blocks [a, z), ok: the write succeeded.
WriteRun(s, p, a, z, ok) ==
    LET data == Run(s.w[p].buf, a, z)
    IN  IF ~ok THEN [s EXCEPT !.errors = @ + 1]
        ELSE [s EXCEPT !.disk[p] = [b \in Blocks |-> IF b \in a .. z - 1 THEN s.w[p].buf[b] ELSE @[b]],
                       !.ph[p] = FeedHash(@, a, data)]

\* The runs of blocks in [lo, hi), in order.
Runs(buf, lo, hi) ==
    {<<a, z>> \in (lo .. hi) \X (lo .. hi) :
        /\ a < z /\ a .. z - 1 \subseteq Held(buf)
        /\ a = lo \/ a - 1 \notin Held(buf)
        /\ z = hi \/ z \notin Held(buf)}

\* The callbacks of a flush_range: all of its blocks share one result.
Settle(s, p, gone, ok) ==
    [s EXCEPT !.w[p].buf = [b \in Blocks |-> IF b \in gone THEN Empty ELSE @[b]],
              !.size = @ - Cardinality(gone), !.owed = @ - Cardinality(gone),
              !.answers = @ \cup {<<p, b, ok>> : b \in gone}]

\* flush_range: what it can leave behind.
FlushRange(s, p, lo, hi) ==
    LET buf == s.w[p].buf
        gone == Held(buf) \cap (lo .. hi - 1)
        next[b \in 0 .. N] ==   \* ++next_block_to_hash as the blocks go by
            IF b = N THEN N ELSE IF b \in gone THEN next[b + 1] ELSE b
        counted == [s EXCEPT !.w[p].next = IF @ \in gone THEN next[@] ELSE @]
        write[R \in SUBSET Runs(buf, lo, hi)] ==
            IF R = {} THEN {[s |-> counted, ok |-> TRUE]}
            ELSE LET run == CHOOSE r \in R : \A q \in R : q[1] <= r[1]
                 IN  UNION {{[s |-> WriteRun(t.s, p, run[1], run[2], ok), ok |-> t.ok /\ ok] :
                                ok \in IF t.s.errors < MaxErrors THEN BOOLEAN ELSE {TRUE}} :
                            t \in write[R \ {run}]}
    IN  {Settle(t.s, p, gone, t.ok) : t \in write[Runs(buf, lo, hi)]}

\* contiguous_blocks: the longest run.
Longest(buf) == Runs(buf, 0, N)
ContiguousBlocks(buf) == IF Held(buf) = {} THEN 0 ELSE Most({r[2] - r[1] : r \in Longest(buf)})

\* flush_contiguous_blocks.
FlushContiguous(s, p, limit, front) ==
    LET buf == s.w[p].buf
        from[b \in 0 .. N] == IF b = N \/ b \notin Held(buf) THEN b ELSE from[b + 1]
        len == ContiguousBlocks(buf)
        runs == IF front THEN {<<s.w[p].next, from[s.w[p].next]>>}
                ELSE {r \in Longest(buf) : r[2] - r[1] = len}
        run == CHOOSE r \in runs : \A q \in runs : r[1] <= q[1]
    IN  IF runs = {} \/ run[2] - run[1] < limit \/ run[2] = run[1] THEN {s}
        ELSE FlushRange(s, p, run[1], run[2])

Erase(s, p) == [s EXCEPT !.w[p] = NoEntry]
EraseIf(s, p, cond) == IF cond THEN Erase(s, p) ELSE s
Written(s) == {p \in Pieces : s.w[p].there}

-----------------------------------------------------------------------------
(* Making room. *)

Cached(s) == {p \in Pieces : s.r[p].there}

\* free_piece, and the entry stays.
FreePiece(s, p, gone) ==
    [s EXCEPT !.r[p].buf = [b \in Blocks |-> IF b \in gone THEN Empty ELSE @[b]],
              !.size = @ - Cardinality(gone \cap Held(s.r[p].buf)),
              !.rsize = @ - Cardinality(gone \cap Held(s.r[p].buf))]

\* Mutant: the buffers are freed and the size of the read cache is kept.
DropKeepsSize(s, p) ==
    [s EXCEPT !.r[p] = NoEntry, !.size = @ - Cardinality(Held(s.r[p].buf))]

\* drain_piece_bufs or free_piece, and the entry goes.
DropRead(s, p) == [FreePiece(s, p, Blocks) EXCEPT !.r[p] = NoEntry]

\* clear_oldest_read_piece of n blocks: an entry that has expired, blocks from
\* both of its ends, or from the back if reads take the front.
ClearOldest(s, n, ignore) ==
    {s} \cup UNION {
        LET held == Held(s.r[p].buf)
        IN  IF n >= Cardinality(held) THEN {DropRead(s, p)}
            ELSE {FreePiece(s, p, gone) : gone \in {g \in SUBSET held :
                      /\ Cardinality(g) = n
                      /\ \E lo, hi \in 0 .. N :
                            /\ g = {b \in held : b < lo \/ b >= hi}
                            /\ LET front == Cardinality({b \in held : b < lo})
                               IN  front = IF Volatile THEN 0 ELSE (n + 1) \div 2}}
        : p \in Cached(s) \ {ignore}}

\* The loop over it; room is what is still wanted.
ClearReads(s, n, ignore) ==
    LET clear[k \in 0 .. N * Cardinality(Pieces)] ==
            IF k = 0 THEN {[s |-> s, room |-> n]}
            ELSE UNION {IF t.room <= 0 THEN {t}
                        ELSE {[s |-> u, room |-> t.room - (t.s.size - u.size)] :
                                u \in ClearOldest(t.s, t.room, ignore)}
                        : t \in clear[k - 1]}
    IN  clear[Cardinality(Pieces)]

\* One turn of the rest of flush_cache_blocks: write blocks of one piece, as the
\* algorithm says.
FlushOne(u, alg) ==
    LET s == u.s
        longest == [p \in Written(s) |-> ContiguousBlocks(s.w[p].buf)]
        most == Most({longest[p] : p \in Written(s)})
        front == {p \in Written(s) : s.w[p].next \in Held(s.w[p].buf)}
        after(p, S, done(_)) ==
            {[s |-> EraseIf(v, p, done(v.w[p])), room |-> u.room - (s.size - v.size)] : v \in S}
        always(e) == TRUE
        empty(e) == Held(e.buf) = {}
        hashed(e) == Held(e.buf) = {} /\ e.next = N
    IN  CASE alg = "lru" ->
                UNION {after(p, FlushRange(s, p, 0, N), always) : p \in Written(s)}
          [] alg = "avoid_readback" /\ front # {} ->
                UNION {after(p, FlushContiguous(s, p, 1, TRUE), hashed) : p \in front}
          [] alg = "avoid_readback" /\ most = 0 -> {u}
          [] OTHER ->
                UNION {after(p, FlushContiguous(s, p, 1, FALSE), empty) :
                        p \in {q \in Written(s) : longest[q] = most}}

\* flush_cache_blocks: clears reads, and then writes, until n buffers are free.
MakeRoom(s, n) ==
    LET flush[k \in 0 .. N * Cardinality(Pieces)] ==
            IF k = 0 THEN ClearReads(s, n, NoPiece)
            ELSE UNION {IF u.room <= 0 \/ Written(u.s) = {} THEN {u} ELSE FlushOne(u, algorithm) :
                            u \in flush[k - 1]}
    IN  IF n <= 0 THEN {s} ELSE {u.s : u \in flush[N * Cardinality(Pieces)]}

-----------------------------------------------------------------------------
(* Reading. *)

\* read_into_piece of up to n blocks from a on: the blocks there is room for.
\* An entry that could not be read is emptied and, if it is in the cache, stays.
ReadIntoPiece(s, p, a, n, any) ==
    LET fill[k \in 0 .. n] ==
            IF k = 0 THEN s
            ELSE IF a + k > N \/ ~(any \/ InUse(fill[k - 1]) < CacheSize) THEN fill[k - 1]
            ELSE [fill[k - 1] EXCEPT
                    !.size = @ + (IF s.r[p].buf[a + k - 1] = Empty THEN 1 ELSE 0),
                    !.rsize = @ + (IF s.r[p].buf[a + k - 1] = Empty THEN 1 ELSE 0),
                    !.r[p].buf[a + k - 1] = s.disk[p][a + k - 1]]
        t == fill[n]
    IN  IF n <= 0 \/ ~(any \/ InUse(s) < CacheSize)
        THEN {[s |-> FreePiece(s, p, Blocks), ret |-> "uncached"]}
        ELSE {[s |-> [t EXCEPT !.r[p].there = TRUE], ret |-> "read"]}
             \cup (IF ReadErrors THEN {[s |-> FreePiece(s, p, Blocks), ret |-> "error"]} ELSE {})

Lesser(a, b) == IF a < b THEN a ELSE b
Greater(a, b) == IF a > b THEN a ELSE b

\* cache_read_block, and the part of copy_from_piece that reads what is missing.
ReadBlocks(s, p, b) ==
    LET missing[k \in 0 .. N] == IF k = N \/ k \in Held(s.r[p].buf) THEN k ELSE missing[k + 1]
        n == Lesser(Lesser(missing[b] - b, Greater((CacheSize + s.rsize - InUse(s)) \div 2, 3)), ReadLine)
        clear == InUse(s) + n - CacheSize
    IN  UNION {IF clear > 0 /\ t.room > 0 THEN {[s |-> t.s, ret |-> "uncached"]}
               ELSE ReadIntoPiece(t.s, p, b, n, FALSE) :
                    t \in IF clear > 0 THEN ClearReads(s, clear, p) ELSE {[s |-> s, room |-> 0]}}

\* The end of copy_from_piece and of try_read_from_cache.
CopyFromPiece(s, p, b) ==
    LET buf == s.r[p].buf
        upto == {i \in 0 .. b : \A k \in i .. b : buf[k] # Empty}
        t == IF Volatile THEN FreePiece(s, p, upto) ELSE s
    IN  [s |-> IF Held(t.r[p].buf) = {} THEN [t EXCEPT !.r[p] = NoEntry] ELSE t,
         ret |-> "read", data |-> buf[b]]

\* A read past the caches.
ReadDirect(s, p, b) ==
    {[s |-> s, ret |-> "read", data |-> s.disk[p][b]]}
    \cup (IF ReadErrors THEN {[s |-> s, ret |-> "error", data |-> Empty]} ELSE {})

\* The job read: try_read_from_cache, and else from the file.
Read(s, p, b) ==
    IF s.r[p].buf[b] # Empty THEN {CopyFromPiece(s, p, b)}
    ELSE IF Explicit THEN ReadDirect(s, p, b)
    ELSE UNION {CASE t.ret = "read" /\ t.s.r[p].buf[b] # Empty -> {CopyFromPiece(t.s, p, b)}
                  [] t.ret = "error" -> {[s |-> t.s, ret |-> "error", data |-> Empty]}
                  [] OTHER -> ReadDirect(t.s, p, b)
                : t \in ReadBlocks(s, p, b)}

\* cache_piece: the whole piece, unless it is there.
CachePiece(s, p, any) ==
    IF Held(s.r[p].buf) = Blocks THEN {[s |-> s, ret |-> "hit"]} ELSE ReadIntoPiece(s, p, 0, N, any)

\* The job read_and_hash: read_piece_from_cache_and_hash.
ReadAndHash(s, p, b) ==
    UNION {{LET buf == t.s.r[p].buf
                u == CopyFromPiece(t.s, p, b)
                full == InUse(u.s) >= CacheSize \/ (Explicit /\ t.ret # "hit")
                v == IF full THEN DropRead(u.s, p) ELSE u.s
            IN  IF t.ret = "error" THEN [s |-> t.s, ret |-> "error", data |-> Empty]
                ELSE IF \E i \in Blocks : buf[i] # "good" THEN [s |-> v, ret |-> "failed", data |-> Empty]
                ELSE [s |-> v, ret |-> "read", data |-> u.data]
            : t \in CachePiece(r, p, TRUE)}
           : r \in MakeRoom(s, InUse(s) - CacheSize + N)}

-----------------------------------------------------------------------------
(* The jobs. *)

\* Whether an entry may go once its blocks are written (flush_expired_pieces).
MayGo(e) == algorithm # "avoid_readback" \/ e.next = N
Always(e) == TRUE

\* The write entries W are flushed one by one, and go if they may.
FlushPieces(s, W, mayGo(_)) ==
    LET flush[V \in SUBSET W] ==
            IF V = {} THEN {s}
            ELSE LET p == CHOOSE q \in V : TRUE
                 IN  UNION {{EraseIf(v, p, mayGo(v.w[p])) : v \in FlushRange(u, p, 0, N)} :
                            u \in flush[V \ {p}]}
    IN  flush[W]

DropReads(s, R) ==
    LET drop[Q \in SUBSET R] ==
            IF Q = {} THEN s
            ELSE LET p == CHOOSE q \in Q : TRUE IN DropRead(drop[Q \ {p}], p)
    IN  drop[R]

\* flush_expired_pieces, before every job.
Expire(s) ==
    {DropReads(t, R) : R \in IF Explicit THEN {{}} ELSE SUBSET Cached(s),
                       t \in UNION {FlushPieces(s, W, MayGo) : W \in SUBSET Written(s)}}

\* The job write.
Write(s, p, b, c) ==
    LET put(t) == [t EXCEPT !.w[p].buf[b] = c, !.w[p].there = TRUE, !.size = @ + 1, !.busy = 0]
        line(t) == IF s.w[p].there THEN FlushContiguous(t, p, WriteLine, algorithm = "avoid_readback")
                   ELSE {t}
        tidy(t) == EraseIf(t, p, Held(t.w[p].buf) = {} /\ t.w[p].next = 0)
    IN  UNION {MakeRoom(v, InUse(v) - CacheSize) : v \in
            {tidy(u) : u \in UNION {line(put(t)) :
                t \in MakeRoom(s, InUse(s) - CacheSize + (IF InUse(s) >= CacheSize THEN 1 ELSE 0))}}}

\* What the hash of piece p comes to: what was fed while it was written, and the
\* rest from the file (hash_for_piece_impl, hash_for_slot).
HashOf(s, p) == s.ph[p].fed \o Run(s.disk[p], s.ph[p].offset, N)
AllGood == [i \in 1 .. N |-> "good"]

\* Mutant: the blocks that are still in the cache are not written first.
HashUnflushed(s, p) ==
    {[s |-> [s EXCEPT !.ph[p] = NoHash], passed |-> HashOf(s, p) = AllGood]}

\* The job hash: the piece is flushed, and its entry goes.
Hash(s, p) ==
    {[s |-> [t EXCEPT !.ph[p] = NoHash], passed |-> HashOf(t, p) = AllGood] :
        t \in IF s.w[p].there THEN FlushPieces(s, {p}, Always) ELSE {s}}

Reading == {"read", "read_and_hash", "cache_piece"}    \* should_cancel_on_abort
NotReading(j) == j.op \notin Reading

\* Reads that wait are answered with an error (stop, abort_torrent).
CancelReads(s) ==
    LET rest == SelectSeq(s.jobs, NotReading)
    IN  [s EXCEPT !.jobs = rest, !.owed = @ - (Len(s.jobs) - Len(rest))]

-----------------------------------------------------------------------------
(* The network thread. *)

Waiting == Len(cache.jobs) + Cardinality(cache.sorted)
Ask(s, j) == [s EXCEPT !.jobs = Append(@, j), !.owed = @ + 1]

\* incoming_piece: a block is written, and the piece is hashed after the last.
WriteBlock(p, b, c) ==
    LET hash == \A x \in Blocks \ {b} : status[p][x] # "open"
        s == Ask(cache, [op |-> "write", piece |-> p, block |-> b, data |-> c])
    IN  /\ p \notin have /\ status[p][b] = "open" /\ Waiting < MaxJobs
        /\ c = "bad" => cache.bad < MaxBad
        /\ cache' = [(IF hash THEN Ask(s, [op |-> "hash", piece |-> p]) ELSE s)
                        EXCEPT !.bad = @ + (IF c = "bad" THEN 1 ELSE 0)]
        /\ status' = [status EXCEPT ![p][b] = "writing"]
        /\ UNCHANGED <<have, failed, seed_mode, algorithm, last>>

\* A peer reads a block of a piece we have, or the plugin a failed one.
ReadBlock(p, b) ==
    /\ Waiting < MaxJobs
    /\ p \in have \/ (p \in failed /\ \A x \in Blocks : status[p][x] = "open")
    /\ cache' = Ask(cache, [op |-> IF seed_mode THEN "read_and_hash" ELSE "read",
                            piece |-> p, block |-> b])
    /\ UNCHANGED <<status, have, failed, seed_mode, algorithm, last>>

AskCache(p) ==
    /\ Waiting < MaxJobs /\ p \in have
    /\ cache' = Ask(cache, [op |-> "cache_piece", piece |-> p, block |-> 0])
    /\ UNCHANGED <<status, have, failed, seed_mode, algorithm, last>>

\* async_release_files, async_clear_read_cache.
AskRelease(op) ==
    /\ Waiting < MaxJobs
    /\ cache' = Ask(cache, [op |-> op])
    /\ UNCHANGED <<status, have, failed, seed_mode, algorithm, last>>

\* disk_io_thread::stop.
Stop ==
    /\ Waiting < MaxJobs
    /\ cache' = Ask(CancelReads(cache), [op |-> "abort_torrent"])
    /\ UNCHANGED <<status, have, failed, seed_mode, algorithm, last>>

-----------------------------------------------------------------------------
(* The disk thread. *)

\* The answers to writes, taken by the picker; then those of the job itself.
Answered(s, n) == [s EXCEPT !.owed = @ - n, !.answers = {}, !.busy = 0]
Told(s) ==
    [p \in Pieces |-> [b \in Blocks |->
        IF <<p, b, TRUE>> \in s.answers THEN "done"
        ELSE IF <<p, b, FALSE>> \in s.answers THEN "open" ELSE status[p][b]]]

Quiet(s, n) ==
    /\ cache' = Answered(s, n) /\ status' = Told(s)
    /\ UNCHANGED <<have, failed, seed_mode, algorithm>>

\* A read that misses the cache is put off, if reordering is allowed.
Defer ==
    /\ Len(cache.jobs) > 0
    /\ LET j == Head(cache.jobs)
       IN  /\ j.op \in Reading /\ j \notin cache.sorted
           /\ cache.r[j.piece].buf[j.block] = Empty
           /\ cache' = [cache EXCEPT !.jobs = Tail(@), !.sorted = @ \cup {j}]
    /\ UNCHANGED <<status, have, failed, seed_mode, algorithm, last>>

DoWrite(j, t) ==
    /\ j.op = "write"
    /\ \E s \in Write(t, j.piece, j.block, j.data) : Quiet(s, 0)
    /\ UNCHANGED last

DoRead(j, t) ==
    /\ j.op \in {"read", "read_and_hash"}
    /\ \E r \in IF j.op = "read" THEN Read(t, j.piece, j.block) ELSE ReadAndHash(t, j.piece, j.block) :
        /\ cache' = Answered(r.s, 1)
        /\ IF r.ret = "failed"    \* leave_seed_mode: all files are checked
           THEN /\ seed_mode' = FALSE
                /\ have' = {p \in have : \A b \in Blocks : r.s.disk[p][b] = "good"}
                /\ status' = [p \in Pieces |-> IF p \in have \ have' THEN [b \in Blocks |-> "open"]
                                              ELSE Told(r.s)[p]]
           ELSE status' = Told(r.s) /\ UNCHANGED <<have, seed_mode>>
        /\ UNCHANGED <<failed, algorithm>>
        /\ last' = IF r.ret = "read" THEN [op |-> j.op, piece |-> j.piece, data |-> r.data] ELSE Nothing

DoCachePiece(j, t) ==
    /\ j.op = "cache_piece"
    /\ \E r \in CachePiece(t, j.piece, FALSE) : Quiet(r.s, 1)
    /\ UNCHANGED last

\* on_piece_verified: the piece is ours, or all of it is fetched again.
DoHash(j, t) ==
    /\ j.op = "hash"
    /\ \E r \in Hash(t, j.piece) :
        /\ cache' = Answered(r.s, 1)
        /\ have' = IF r.passed THEN have \cup {j.piece} ELSE have
        /\ failed' = IF r.passed \/ ~SmartBan THEN failed \ {j.piece} ELSE failed \cup {j.piece}
        /\ status' = [Told(r.s) EXCEPT ![j.piece] =
                        IF r.passed THEN @ ELSE [b \in Blocks |-> "open"]]
        /\ last' = [op |-> IF r.passed THEN "passed" ELSE "failed", piece |-> j.piece,
                    data |-> IF \A b \in Blocks : r.s.disk[j.piece][b] = "good" THEN "good" ELSE "bad"]
    /\ UNCHANGED <<seed_mode, algorithm>>

DoRelease(j, t) ==
    /\ j.op = "release_files"
    /\ \E s \in FlushPieces(t, Written(t), Always) : Quiet(s, 1)
    /\ UNCHANGED last

DoClear(j, t) ==
    /\ j.op = "clear_read_cache"
    /\ Quiet(DropReads(t, Cached(t)), 1)
    /\ UNCHANGED last

DoAbort(j, t) ==
    /\ j.op = "abort_torrent"
    /\ LET s == CancelReads(DropReads(t, Cached(t)))
       IN  Quiet([s EXCEPT !.sorted = {}], 1 + Cardinality(s.sorted))
    /\ UNCHANGED last

Do(j, t) ==
    \/ DoWrite(j, t) \/ DoRead(j, t) \/ DoCachePiece(j, t) \/ DoHash(j, t)
    \/ DoRelease(j, t) \/ DoClear(j, t) \/ DoAbort(j, t)

ThreadFun ==
    \/ Defer
    \/ /\ Len(cache.jobs) > 0
       /\ \E t \in Expire([cache EXCEPT !.jobs = Tail(@)]) :
            Do(Head(cache.jobs), [t EXCEPT !.busy = 1])
    \/ \E j \in cache.sorted : \E t \in Expire([cache EXCEPT !.sorted = @ \ {j}]) :
            Do(j, [t EXCEPT !.busy = 1])

-----------------------------------------------------------------------------
Init ==
    /\ seed_mode \in SeedModes
    /\ cache = [w |-> [p \in Pieces |-> NoEntry],     \* m_pieces
                r |-> [p \in Pieces |-> NoEntry],     \* m_read_pieces
                size |-> 0, rsize |-> 0,              \* cache_size, read_cache_size
                ph |-> [p \in Pieces |-> NoHash],     \* m_piece_hasher
                disk |-> [p \in Pieces |-> [b \in Blocks |-> IF seed_mode THEN SeedData ELSE "bad"]],
                jobs |-> <<>>, sorted |-> {},         \* m_jobs, m_sorted_read_jobs
                owed |-> 0,                           \* jobs that are not answered yet
                busy |-> 0,                           \* a buffer the job itself holds
                answers |-> {}, errors |-> 0, bad |-> 0]
    /\ status = [p \in Pieces |-> [b \in Blocks |-> IF seed_mode THEN "done" ELSE "open"]]
    /\ have = (IF seed_mode THEN Pieces ELSE {}) /\ failed = {}
    /\ algorithm \in Algorithms
    /\ last = Nothing

Next ==
    \/ \E p \in Pieces, b \in Blocks, c \in Content : WriteBlock(p, b, c)
    \/ \E p \in Pieces, b \in Blocks : ReadBlock(p, b)
    \/ \E p \in Pieces : AskCache(p)
    \/ \E op \in {"release_files", "clear_read_cache"} : AskRelease(op)
    \/ Stop
    \/ ThreadFun

Spec == Init /\ [][Next]_vars

-----------------------------------------------------------------------------
\* What the two caches hold is counted, every job is answered once, and a block
\* the picker takes to be under way is in the queue or in the write cache.
CachesAreCounted ==
    LET held(c) == {<<p, b>> \in Pieces \X Blocks : c[p].buf[b] # Empty}
        queued == {i \in DOMAIN cache.jobs : cache.jobs[i].op = "write"}
    IN  /\ cache.rsize = Cardinality(held(cache.r))
        /\ cache.size = Cardinality(held(cache.r)) + Cardinality(held(cache.w))
        /\ cache.owed = Waiting + Cardinality(held(cache.w))
        /\ \A p \in Pieces : ~cache.w[p].there => Held(cache.w[p].buf) = {}
        /\ {<<p, b>> \in Pieces \X Blocks : status[p][b] = "writing"}
            = held(cache.w) \cup {<<cache.jobs[i].piece, cache.jobs[i].block>> : i \in queued}

\* A peer gets the bytes that passed the hash.
ReadIsGood == last.op \in Reading /\ last.piece \in have => last.data = "good"

\* The hash of a piece tells whether the file has the right bytes.
HashIsRight ==
    /\ last.op = "passed" => last.data = "good"
    /\ last.op = "failed" => last.data = "bad"

\* The file of a piece we have holds the right bytes.
HaveIsGood == ~seed_mode => \A p \in have : \A b \in Blocks : cache.disk[p][b] = "good"
=============================================================================
