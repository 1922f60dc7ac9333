--------------------------- MODULE TrackerAnnounce ---------------------------
(***************************************************************************)
(* The announces of a torrent to its trackers (torrent.cpp, announce_entry *)
(* of torrent_info.cpp): the list of trackers in tiers, which of them are  *)
(* announced to, with which event, and the one timer that must be set for  *)
(* the next announce.                                                      *)
(*                                                                         *)
(* Times are relative to now and in ticks; what is due has 0 left.  A      *)
(* request is given to the tracker manager, and answered or failed in any  *)
(* order.                                                                  *)
(*                                                                         *)
(* Left out: update_tracker_timer does not issue the timer again for the   *)
(* expiry it had.  While the wait is pending that changes nothing; a wait  *)
(* that fired or was cancelled is followed by an announce, whose times are *)
(* read from the clock anew, to the microsecond, or by a refused one.      *)
(***************************************************************************)
EXTENDS Integers, Sequences, SequencesExt, FiniteSets, Bags

CONSTANTS
    Urls,
    Lists,      \* the lists of trackers to start with, or to be set by the user
    Tier,       \* the tier of a tracker that is added
    Settings,   \* all_trackers, all_tiers, and whether announces must be anonymous
    Exposed,    \* the trackers that cannot be announced to anonymously
    Interval, MinInterval,   \* what trackers answer
    Pending, PendingMin,     \* after a request was sent (20 s, 10 s)
    PutOff,                  \* a tracker that is not anonymous (10 min)
    RetryMax, Retries,       \* tracker_retry_delay_max; what trackers ask for
    FailMod,                 \* announce_entry::fails wraps (2^7)
    MaxRequests,             \* a bound for the model: requests under way
    MaxCalls                 \* a bound for the model: what happens to the torrent

VARIABLES
    conf,
    trackers,      \* m_trackers
    last_working,  \* m_last_working_tracker, from 1 on, 0 for none
    announcing,    \* m_announcing
    mode,          \* allow: m_allow_peers, graceful: m_graceful_pause_mode, session: the
                   \* session is paused, tracks: m_announce_to_trackers, checked:
                   \* m_files_checked, or there is no metadata to check files with
    done,          \* "no", "finished" (all that is wanted) or "seed"
    abort,         \* m_abort
    timer,         \* m_tracker_timer, Never if it is not set
    requests,      \* given to the tracker manager and not answered
    refused,       \* history: an announce was refused, and the timer not set since
    calls          \* what has happened to the torrent so far

vars == <<conf, trackers, last_working, announcing, mode, done, abort, timer, requests, refused,
          calls>>

Never == 99
IsPaused(m) == ~m.allow \/ m.session \/ m.graceful
Working(e) == e.fails = 0
Greater(a, b) == IF a > b THEN a ELSE b

NewEntry(url, tier) ==
    [url |-> url, tier |-> tier, fails |-> 0, fail_limit |-> 0, updating |-> FALSE,
     start_sent |-> FALSE, complete_sent |-> FALSE, next |-> 0, min |-> 0]
Entries(l) == [i \in 1 .. Len(l) |-> NewEntry(l[i].url, l[i].tier)]

Usable(e) == e.fail_limit = 0 \/ e.fails < e.fail_limit
CanAnnounce(e, seed) ==
    /\ e.next = 0 /\ (e.min = 0 \/ (seed /\ ~e.complete_sent))
    /\ Usable(e) /\ ~e.updating

\* announce_entry::failed
Failed(e, retry) ==
    LET n == (e.fails + 1) % FailMod
        delay == IF 1 + n < RetryMax THEN 1 + n ELSE RetryMax
    IN  [e EXCEPT !.fails = n, !.next = Greater(delay, retry), !.updating = FALSE]

Now ==
    [trackers |-> trackers, last |-> last_working, timer |-> timer, requests |-> requests,
     on |-> announcing, mode |-> mode, done |-> done, abort |-> abort, refused |-> refused]
Become(s) ==
    /\ trackers' = s.trackers /\ last_working' = s.last /\ timer' = s.timer
    /\ requests' = s.requests /\ announcing' = s.on /\ mode' = s.mode /\ done' = s.done
    /\ abort' = s.abort /\ refused' = s.refused
    /\ BagCardinality(s.requests) <= MaxRequests
    /\ UNCHANGED conf

Call == calls < MaxCalls /\ calls' = calls + 1 /\ ~abort

-----------------------------------------------------------------------------
(* Which trackers come next. *)

\* Mutant: a tracker that is announced to is waited for, and no other.
TimerAtStalls(l) == IF l = <<>> THEN Never ELSE
    IF l[1].updating THEN Never ELSE Greater(l[1].next, l[1].min)

\* update_tracker_timer: when the next announce is due, Never if none is.
TimerAt(l) ==
    LET step(v, e) ==
            LET tier == IF Working(e) THEN e.tier ELSE v.tier
                found == IF Working(e) THEN FALSE ELSE v.found
                at == Greater(e.next, e.min)
                next == IF ~e.updating /\ at < v.next /\ (~found \/ Working(e)) THEN at ELSE v.next
                now == found \/ e.updating \/ Working(e)
            IN  IF v.stop \/ (conf.all_tiers /\ v.found /\ e.tier <= v.tier /\ v.tier # Never) THEN v
                ELSE IF e.tier > v.tier /\ ~conf.all_tiers THEN [v EXCEPT !.stop = TRUE]
                ELSE IF ~Usable(e) THEN [v EXCEPT !.tier = tier, !.found = found]
                ELSE [next |-> next, tier |-> tier, found |-> now,
                      stop |-> now /\ ~conf.all_trackers /\ ~conf.all_tiers]
        scan[i \in 0 .. Len(l)] ==
            IF i = 0 THEN [next |-> Never, tier |-> Never, found |-> FALSE, stop |-> FALSE]
            ELSE step(scan[i - 1], l[i])
    IN  scan[Len(l)].next

UpdateTimer(s) ==
    IF s.on THEN [s EXCEPT !.timer = TimerAt(s.trackers), !.refused = FALSE] ELSE s

\* The event that the tracker e is told of.
EventFor(e, event, seed) ==
    IF event # "none" THEN event
    ELSE IF ~e.start_sent THEN "started"
    ELSE IF ~e.complete_sent /\ seed THEN "completed" ELSE "none"

\* announce_with_tracker.  Without m_announce_to_trackers only "stopped" is let
\* through, and the others return before the timer is set.
Announce(s, event) ==
    LET seed == s.done = "seed"
        what == IF s.abort THEN "stopped"
                ELSE IF event = "none" /\ s.done = "finished" THEN "paused" ELSE event
        step(v, i) ==
            LET e == v.l[i]
                tier == IF Working(e) THEN e.tier ELSE v.tier
                sent == IF Working(e) THEN FALSE ELSE v.sent
                w == [v EXCEPT !.tier = tier, !.sent = sent]
            IN  IF v.stop \/ (/\ conf.all_tiers /\ ~conf.all_trackers /\ v.sent
                              /\ e.tier <= v.tier /\ v.tier # Never) THEN v
                ELSE IF e.tier > v.tier /\ v.sent /\ ~conf.all_tiers THEN [v EXCEPT !.stop = TRUE]
                ELSE IF ~CanAnnounce(e, seed) THEN [w EXCEPT !.sent = sent \/ Working(e)]
                ELSE IF conf.anonymous /\ e.url \in Exposed THEN [w EXCEPT !.l[i].next = PutOff]
                ELSE [w EXCEPT !.l[i] = [e EXCEPT !.updating = TRUE, !.next = Pending, !.min = PendingMin],
                               !.sent = TRUE,
                               !.r = @ (+) SetToBag({[url |-> e.url, event |-> EventFor(e, what, seed)]}),
                               !.stop = Working(e) /\ ~conf.all_trackers /\ ~conf.all_tiers]
        scan[i \in 0 .. Len(s.trackers)] ==
            IF i = 0 THEN [l |-> s.trackers, r |-> s.requests, tier |-> Never, sent |-> FALSE, stop |-> FALSE]
            ELSE step(scan[i - 1], i)
        v == scan[Len(s.trackers)]
    IN  IF s.trackers = <<>> THEN s
        ELSE IF what # "stopped" /\ ~s.mode.tracks THEN [s EXCEPT !.refused = @ \/ s.on]
        ELSE UpdateTimer([s EXCEPT !.trackers = v.l, !.requests = v.r])

-----------------------------------------------------------------------------
(* The order of the trackers. *)

Swapped(l, i, j) == [l EXCEPT ![i] = l[j], ![j] = l[i]]
SwappedIndex(k, i, j) == IF k = i THEN j ELSE IF k = j THEN i ELSE k

\* Mutant: the tracker goes past the first of its tier.
PrioritizePast(l, last, index) ==
    IF index = 1 THEN <<l, last, 1>>
    ELSE <<Swapped(l, index, index - 1), SwappedIndex(last, index, index - 1), index - 1>>

\* prioritize_tracker: the tracker at index becomes the first of its tier.
Prioritize(l, last, index) ==
    LET go[i \in 1 .. Len(l)] ==   \* the tracker has come down to i
            IF i = index THEN <<l, last, i>>
            ELSE LET v == go[i + 1]
                 IN  IF v[3] = i + 1 /\ v[1][i + 1].tier = v[1][i].tier
                     THEN <<Swapped(v[1], i, i + 1), SwappedIndex(v[2], i, i + 1), i>> ELSE v
    IN  go[1]

\* deprioritize_tracker: it becomes the last of its tier.
Deprioritize(l, last, index) ==
    LET go[i \in 1 .. Len(l)] ==
            IF i = index THEN <<l, last, i>>
            ELSE LET v == go[i - 1]
                 IN  IF v[3] = i - 1 /\ v[1][i - 1].tier = v[1][i].tier
                     THEN <<Swapped(v[1], i - 1, i), SwappedIndex(v[2], i - 1, i), i>> ELSE v
    IN  go[Len(l)]

IndexOf(l, url) ==
    IF \E i \in 1 .. Len(l) : l[i].url = url THEN CHOOSE i \in 1 .. Len(l) : l[i].url = url ELSE 0

-----------------------------------------------------------------------------
(* What happens. *)

Init ==
    /\ conf \in Settings
    /\ \E l \in Lists : trackers = Entries(l)
    /\ mode \in {[allow |-> b, graceful |-> FALSE, session |-> FALSE, tracks |-> b,
                 checked |-> FALSE] : b \in BOOLEAN}
    /\ last_working = 0 /\ announcing = FALSE /\ done = "no" /\ abort = FALSE
    /\ timer = Never /\ requests = EmptyBag /\ refused = FALSE /\ calls = 0

\* start_announcing
Started(s) ==
    IF IsPaused(s.mode) \/ ~s.mode.checked \/ s.on THEN s
    ELSE Announce([s EXCEPT !.on = TRUE, !.trackers = [i \in DOMAIN @ |->
                      [@[i] EXCEPT !.start_sent = FALSE, !.next = 0, !.min = 0]]],
                  "none")

\* stop_announcing
Stopped(s) ==
    IF ~s.on THEN s
    ELSE Announce([s EXCEPT !.on = FALSE, !.timer = Never, !.refused = FALSE, !.trackers =
                      [i \in DOMAIN @ |-> [@[i] EXCEPT !.next = 0, !.min = 0]]],
                  "stopped")

\* do_pause, and do_resume with start_announcing.
DoPause(s) == IF IsPaused(s.mode) THEN Stopped(s) ELSE s
DoResume(s) == Started(s)

\* files_checked; start of a torrent without metadata.
FilesChecked ==
    /\ ~mode.checked /\ ~abort
    /\ Become(Started([Now EXCEPT !.mode.checked = TRUE]))
    /\ UNCHANGED calls

\* force_recheck
ForceRecheck == Call /\ mode.checked /\ Become([Stopped(Now) EXCEPT !.mode.checked = FALSE])

\* pause
Pause(graceful) ==
    LET s == [Now EXCEPT !.mode.allow = graceful, !.mode.tracks = FALSE,
                         !.mode.graceful = graceful]
    IN  /\ Call /\ mode.allow
        /\ Become(IF ~mode.session \/ (mode.graceful /\ ~graceful) THEN DoPause(s) ELSE s)

\* resume.  m_announce_to_dht and m_announce_to_lsd may be off, so the early
\* return for a torrent with all of the flags, which changes nothing, is not a step.
Resume ==
    /\ Call
    /\ Become(DoResume([Now EXCEPT !.mode.allow = TRUE, !.mode.tracks = TRUE,
                                   !.mode.graceful = @ /\ mode.session]))

\* session_impl::pause and resume
SessionPause == Call /\ ~mode.session /\ Become(DoPause([Now EXCEPT !.mode.session = TRUE]))
SessionResume == Call /\ mode.session /\ Become(DoResume([Now EXCEPT !.mode.session = FALSE]))

\* set_allow_peers
SetAllowPeers(s, allow, graceful) ==
    LET m == [s.mode EXCEPT !.allow = allow,
                            !.graceful = IF s.mode.session THEN @ ELSE graceful,
                            !.tracks = @ /\ allow]
        t == [s EXCEPT !.mode = m]
    IN  IF s.mode.allow = allow /\ s.mode.graceful = graceful THEN s
        ELSE IF allow THEN DoResume(t) ELSE DoPause(t)

\* auto_manage_torrents: the torrent is within the limit of those that announce
\* to trackers (tracks) or not; it is left running, started or paused.
AutoManage(tracks, what) ==
    LET s == [Now EXCEPT !.mode.tracks = tracks]
    IN  /\ Call /\ mode.checked
        /\ what = "leave" => ~IsPaused(mode)
        /\ Become(CASE what = "leave" -> s
                    [] what = "start" -> SetAllowPeers(s, TRUE, FALSE)
                    [] what = "pause" -> SetAllowPeers(s, FALSE, TRUE))

\* abort
Abort ==
    LET s == [Now EXCEPT !.abort = TRUE]
    IN  Call /\ Become(IF IsPaused(mode) THEN s ELSE Stopped(s))

\* on_tracker_announce
TimerFires ==
    /\ timer = 0
    /\ Become(IF abort THEN [Now EXCEPT !.timer = Never]
              ELSE Announce([Now EXCEPT !.timer = Never], "none"))
    /\ UNCHANGED calls

\* finished, and completed: the download is complete.
Finished ==
    /\ Call /\ done = "no" /\ Become([Now EXCEPT !.done = "finished"])
Completed ==
    /\ Call /\ done # "seed"
    /\ Become(IF ~announcing THEN [Now EXCEPT !.done = "seed"]
              ELSE Announce([Now EXCEPT !.done = "seed", !.trackers = [i \in DOMAIN @ |->
                       IF @[i].complete_sent THEN @[i] ELSE [@[i] EXCEPT !.next = 0, !.min = 0]]],
                   "none"))

\* tracker_response to the request r.
Response(r) ==
    LET i == IndexOf(trackers, r.url)
        e == trackers[i]
        new == [e EXCEPT !.start_sent = @ \/ r.event = "started",
                         !.complete_sent = @ \/ r.event = "completed",
                         !.updating = FALSE, !.fails = 0, !.next = Interval, !.min = MinInterval]
        p == Prioritize([trackers EXCEPT ![i] = new], last_working, i)
        s == [Now EXCEPT !.requests = @ (-) SetToBag({r})]
    IN  /\ Become(UpdateTimer(IF i = 0 THEN s ELSE [s EXCEPT !.trackers = p[1], !.last = p[3]]))
        /\ UNCHANGED calls

\* tracker_request_error: the request r failed, for good if gone (410).
RequestError(r, retry, gone) ==
    LET i == IndexOf(trackers, r.url)
        f == [Failed(trackers[i], retry) EXCEPT !.fail_limit = IF gone THEN 1 ELSE @]
        p == Deprioritize([trackers EXCEPT ![i] = f], last_working, i)
        s0 == [Now EXCEPT !.requests = @ (-) SetToBag({r})]
        s == IF i = 0 THEN s0 ELSE [s0 EXCEPT !.trackers = p[1], !.last = p[2]]
    IN  /\ Become(UpdateTimer(IF (~abort /\ ~IsPaused(mode)) \/ r.event = "stopped"
                              THEN Announce(s, r.event) ELSE s))
        /\ UNCHANGED calls

\* force_tracker_request
ForceReannounce ==
    /\ Call /\ ~IsPaused(mode)
    /\ Become(UpdateTimer([Now EXCEPT !.trackers =
                  [i \in DOMAIN @ |-> [@[i] EXCEPT !.next = trackers[i].min + 1]]]))

\* Mutant: one that is added goes to the end of the list.
PlaceAtEnd(l, tier) == 1 + Len(l)

PlaceOf(l, tier) == 1 + Cardinality({i \in 1 .. Len(l) : l[i].tier <= tier})

\* add_tracker
AddTracker(url) ==
    LET k == PlaceOf(trackers, Tier)
        s == [Now EXCEPT !.trackers = InsertAt(@, k, NewEntry(url, Tier)),
                         !.last = IF k < last_working THEN @ + 1 ELSE @]
    IN  /\ Call /\ IndexOf(trackers, url) = 0
        /\ Become(Announce(s, "none"))

\* replace_trackers
ReplaceTrackers(l) ==
    /\ Call
    /\ Become(Announce([Now EXCEPT !.trackers = Entries(l), !.last = 0], "none"))

Less(t) == IF t \in {0, Never} THEN t ELSE t - 1

Tick ==
    /\ timer # 0
    /\ Become([Now EXCEPT !.timer = Less(@), !.trackers =
                   [i \in DOMAIN @ |-> [@[i] EXCEPT !.next = Less(@), !.min = Less(@)]]])
    /\ UNCHANGED calls

Next ==
    \/ FilesChecked \/ ForceRecheck \/ Resume \/ SessionPause \/ SessionResume \/ Abort
    \/ \E graceful \in BOOLEAN : Pause(graceful)
    \/ \E tracks \in BOOLEAN, what \in {"leave", "start", "pause"} : AutoManage(tracks, what)
    \/ TimerFires \/ Finished \/ Completed \/ ForceReannounce \/ Tick
    \/ \E r \in BagToSet(requests) : Response(r)
    \/ \E r \in BagToSet(requests), retry \in Retries, gone \in BOOLEAN : RequestError(r, retry, gone)
    \/ \E url \in Urls : AddTracker(url)
    \/ \E l \in Lists : ReplaceTrackers(l)

Spec == Init /\ [][Next]_vars

-----------------------------------------------------------------------------
(* Properties. *)

Due(e) == Greater(e.next, e.min)

\* The announces go on: a tracker that is marked as being announced to has a
\* request of its own under way, so its answer or error (tracker_response,
\* tracker_request_error) clears the mark; the trackers stay in tiers whatever
\* was moved, added or replaced; a torrent that is paused, by the user, the session
\* or auto management in whatever order, does not go on announcing; and while it
\* announces and no request is under way, the timer is set, for no later than any
\* tracker up to the first working one that is not given up is due, unless an
\* announce was refused because the torrent is over the limit of those that
\* announce, after which nothing has set the timer again.
AnnouncesAreRight ==
    /\ \A i \in 1 .. Len(trackers) :
          trackers[i].updating => \E r \in BagToSet(requests) : r.url = trackers[i].url
    /\ \A i, j \in 1 .. Len(trackers) : i < j => trackers[i].tier <= trackers[j].tier
    /\ last_working \in 0 .. Len(trackers)
    /\ IsPaused(mode) => ~announcing
    /\ announcing /\ ~refused /\ (\A i \in 1 .. Len(trackers) : ~trackers[i].updating) =>
          \A i \in 1 .. Len(trackers) :
             Usable(trackers[i]) /\ (\A j \in 1 .. i - 1 : ~Working(trackers[j]))
                => timer <= Due(trackers[i])
=============================================================================
