------------------------ MODULE ConnectionQueueProofs ------------------------
(***************************************************************************)
(* The slots of the connection queue, for any number of clients, any       *)
(* timeouts, priorities and limits.                                        *)
(***************************************************************************)
EXTENDS ConnectionQueue, RankLemmas

\* What a handler works on.
State ==
    [queue : Seq(Client), connecting : SUBSET Client, left : [Client -> Int],
     num_connecting : Nat, num_timers : Nat, timer : (0 .. MaxTimeout) \cup {NoTimer},
     cancelled : Nat, posted : Nat, life : [Client -> Life], ticket : SUBSET Client]

Counted(s) ==
    /\ s.connecting \subseteq ToSet(s.queue)
    /\ s.num_connecting = Cardinality(s.connecting)

\* Every handler of the timer that will run is counted; e have expired.
TimersCounted(s, e) ==
    s.num_timers = s.cancelled + e + (IF s.timer = NoTimer THEN 0 ELSE 1)

\* How long the attempt of c may still take, if every attempt was given MaxTimeout.
Slack(s, c) == s.left[c] + MaxTimeout - Timeout[c]

\* The timer expires before any attempt has had the longest timeout.
InTime(s) ==
    \A c \in s.connecting :
        /\ s.left[c] <= Timeout[c] /\ Slack(s, c) >= 0
        /\ s.timer # NoTimer => Slack(s, c) >= s.timer

Watched(s) == s.connecting # {} => s.num_timers > 0

\* What every function of the queue keeps.  Watched is apart: on_timeout takes
\* its own handler off the count before it looks for another one to be set.
Good(s, e) == s \in State /\ Counted(s) /\ TimersCounted(s, e) /\ InTime(s)

\* The inductive invariant.
QueueInv ==
    /\ Good(Now, expired) /\ Watched(Now)
    /\ limit \in Limits /\ abort \in BOOLEAN /\ expired \in Nat

-----------------------------------------------------------------------------
(* The operators the handlers are made of. *)

\* A set of clients is finite.
LEMMA ClientsFinite ==
    ASSUME NEW S \in SUBSET Client
    PROVE  IsFiniteSet(S) /\ Cardinality(S) \in Nat
<1>1. IsFiniteSet(S)  BY QueueAssumption, FS_Subset
<1> QED  BY <1>1, FS_CardinalityType

\* Taking entries out leaves the others.
LEMMA WithoutType ==
    ASSUME NEW q \in Seq(Client), NEW cs
    PROVE  /\ Without(q, cs) \in Seq(Client)
           /\ ToSet(Without(q, cs)) = ToSet(q) \ cs
<1> DEFINE kept == {i \in DOMAIN q : q[i] \notin cs}
<1>1. kept \in SUBSET DOMAIN q  OBVIOUS
<1>2. {q[i] : i \in kept} = {q[i] : i \in DOMAIN q} \ cs  OBVIOUS
<1>3. Without(q, cs) = Picked(q, kept)  BY DEF Without, Picked
<1>4. Without(q, cs) \in Seq(Client)
  <2> HIDE DEF kept
  <2> QED  BY <1>1, <1>3, PickedType
<1>5. EntriesOf(Without(q, cs)) = {q[i] : i \in kept}
  <2> HIDE DEF kept
  <2> QED  BY <1>1, <1>3, PickedType
<1>6. ToSet(Without(q, cs)) = {q[i] : i \in DOMAIN q} \ cs
  <2> HIDE DEF kept
  <2> QED  BY <1>2, <1>5 DEF ToSet, EntriesOf
<1> QED  BY <1>4, <1>6 DEF ToSet

\* deadline_timer::cancel keeps the count of the handlers.
LEMMA CancelGood ==
    ASSUME NEW s, NEW e \in Nat, Good(s, e)
    PROVE  /\ Good(CancelTimer(s), e)
           /\ CancelTimer(s).timer = NoTimer
           /\ CancelTimer(s).connecting = s.connecting
           /\ CancelTimer(s).num_timers = s.num_timers
           /\ CancelTimer(s).num_connecting = s.num_connecting
           /\ CancelTimer(s).queue = s.queue
           /\ CancelTimer(s).left = s.left
           /\ CancelTimer(s).life = s.life
           /\ CancelTimer(s).ticket = s.ticket
           /\ CancelTimer(s).posted = s.posted
<1> DEFINE r == CancelTimer(s)
<1>1. s \in State  BY DEF Good
<1>0. r \in State
  <2>1. (IF s.timer = NoTimer THEN s.cancelled ELSE s.cancelled + 1) \in Nat  BY <1>1 DEF State
  <2> QED  BY <1>1, <2>1 DEF CancelTimer, State
<1>2. /\ r.queue = s.queue /\ r.connecting = s.connecting /\ r.left = s.left
      /\ r.num_connecting = s.num_connecting /\ r.num_timers = s.num_timers
      /\ r.timer = NoTimer
      /\ r.cancelled = IF s.timer = NoTimer THEN s.cancelled ELSE s.cancelled + 1
      /\ r.posted = s.posted /\ r.life = s.life /\ r.ticket = s.ticket
  BY <1>1 DEF CancelTimer, State
<1>3. Counted(r)  BY <1>2 DEF Good, Counted
<1>4. TimersCounted(r, e)
  <2>1. s.cancelled \in Nat  BY <1>1 DEF State
  <2> QED  BY <1>2, <2>1 DEF Good, TimersCounted
<1>5. InTime(r)  BY <1>2 DEF Good, InTime, Slack
<1> QED  BY <1>0, <1>2, <1>3, <1>4, <1>5 DEF Good

\* Setting the timer to t keeps the count, if no attempt has less time.
LEMMA ArmGood ==
    ASSUME NEW s, NEW e \in Nat, Good(s, e), NEW t \in 0 .. MaxTimeout,
           \A c \in s.connecting : Slack(s, c) >= t
    PROVE  /\ Good(ArmTimer(s, t), e)
           /\ ArmTimer(s, t).num_timers > 0
           /\ ArmTimer(s, t).connecting = s.connecting
           /\ ArmTimer(s, t).num_connecting = s.num_connecting
           /\ ArmTimer(s, t).queue = s.queue
           /\ ArmTimer(s, t).left = s.left
           /\ ArmTimer(s, t).life = s.life
           /\ ArmTimer(s, t).ticket = s.ticket
           /\ ArmTimer(s, t).posted = s.posted
<1> DEFINE q == CancelTimer(s)
           r == ArmTimer(s, t)
<1>1. /\ Good(q, e) /\ q.timer = NoTimer /\ q.connecting = s.connecting
      /\ q.num_connecting = s.num_connecting /\ q.queue = s.queue /\ q.left = s.left
      /\ q.life = s.life /\ q.ticket = s.ticket /\ q.posted = s.posted
  BY CancelGood
<1> HIDE DEF q
<1>2. q \in State /\ q.num_timers \in Nat /\ q.num_timers + 1 \in Nat /\ q.cancelled \in Nat
  BY <1>1 DEF Good, State
<1>3. r = [q EXCEPT !.timer = t, !.num_timers = q.num_timers + 1]  BY DEF ArmTimer, q
<1> HIDE DEF r
<1>4. r \in State  BY <1>2, <1>3 DEF State
<1>5. /\ r.queue = q.queue /\ r.connecting = q.connecting /\ r.left = q.left
      /\ r.num_connecting = q.num_connecting /\ r.num_timers = q.num_timers + 1
      /\ r.timer = t /\ r.cancelled = q.cancelled
      /\ r.life = q.life /\ r.ticket = q.ticket /\ r.posted = q.posted
  BY <1>2, <1>3 DEF State
<1>6. Counted(r)  BY <1>1, <1>5 DEF Good, Counted
<1>7. TimersCounted(r, e)
  <2>1. t # NoTimer  BY QueueAssumption
  <2> QED  BY <1>1, <1>2, <1>5, <2>1 DEF Good, TimersCounted
<1>8. InTime(r)
  <2>1. \A c \in r.connecting : Slack(r, c) >= t  BY <1>1, <1>5 DEF Slack
  <2>2. \A c \in r.connecting : r.left[c] <= Timeout[c] /\ Slack(r, c) >= 0
    BY <1>1, <1>5 DEF Slack, Good, InTime
  <2> QED  BY <2>1, <2>2, <1>5 DEF InTime
<1>9. r.num_timers > 0  BY <1>2, <1>5
<1> QED  BY <1>1, <1>4, <1>5, <1>6, <1>7, <1>8, <1>9 DEF Good, r

\* Entries leave the queue, and those that were connecting give back their slots.
LEMMA RemoveGood ==
    ASSUME NEW s, NEW e \in Nat, Good(s, e), NEW cs, NEW r \in State,
           r.queue = Without(s.queue, cs),
           r.connecting = s.connecting \ cs,
           r.num_connecting = s.num_connecting - Cardinality(cs \cap s.connecting),
           r.left = s.left, r.num_timers = s.num_timers, r.timer = s.timer,
           r.cancelled = s.cancelled
    PROVE  Good(r, e) /\ r.num_connecting <= s.num_connecting
<1>1. /\ s \in State /\ s.queue \in Seq(Client) /\ s.connecting \in SUBSET Client
      /\ s.num_connecting = Cardinality(s.connecting)
      /\ s.connecting \subseteq ToSet(s.queue)
  BY DEF Good, State, Counted
<1>2. /\ IsFiniteSet(s.connecting) /\ Cardinality(s.connecting) \in Nat
      /\ cs \cap s.connecting \in SUBSET Client
  BY <1>1, ClientsFinite
<1>3. Cardinality(cs \cap s.connecting) \in Nat  BY <1>2, ClientsFinite
<1>4. Counted(r)
  <2>1. Cardinality(s.connecting \ cs) =
            Cardinality(s.connecting) - Cardinality(s.connecting \cap cs)
    BY <1>2, FS_Difference
  <2>2. s.connecting \cap cs = cs \cap s.connecting  OBVIOUS
  <2>3. ToSet(r.queue) = ToSet(s.queue) \ cs  BY <1>1, WithoutType
  <2> QED  BY <1>1, <2>1, <2>2, <2>3 DEF Counted
<1>5. TimersCounted(r, e)  BY DEF Good, TimersCounted
<1>6. InTime(r)  BY DEF Good, InTime, Slack
<1> QED  BY <1>1, <1>2, <1>3, <1>4, <1>5, <1>6 DEF Good

\* done() for the tickets of cs.
LEMMA DoneGood ==
    ASSUME NEW s, NEW e \in Nat, Good(s, e), NEW cs
    PROVE  /\ Good(Done(s, cs), e)
           /\ Done(s, cs).connecting \subseteq s.connecting
           /\ Done(s, cs).num_connecting <= s.num_connecting
           /\ Done(s, cs).num_timers = s.num_timers
           /\ Done(s, cs).life = s.life
           /\ Done(s, cs).posted >= s.posted
<1> DEFINE found == cs \cap ToSet(s.queue)
           wakes == {k \in 1 .. Cardinality(found) : ~Full(s.num_connecting - k)}
           r == Done(s, cs)
<1>1. /\ s \in State /\ s.queue \in Seq(Client) /\ s.connecting \in SUBSET Client
      /\ s.num_connecting = Cardinality(s.connecting) /\ s.posted \in Nat
  BY DEF Good, State, Counted
<1>2. found \in SUBSET Client  BY <1>1 DEF ToSet
<1>3. Cardinality(found) \in Nat  BY <1>2, ClientsFinite
<1>4. Cardinality(wakes) \in Nat
  <2> HIDE DEF found
  <2>1. wakes \in SUBSET (1 .. Cardinality(found))  OBVIOUS
  <2> QED  BY <1>3, <2>1, FiniteBounded
<1>5. s.num_connecting - Cardinality(found \cap s.connecting) \in Nat
  <2>1. IsFiniteSet(s.connecting) /\ Cardinality(s.connecting) \in Nat  BY <1>1, ClientsFinite
  <2>2. found \cap s.connecting \in SUBSET s.connecting  OBVIOUS
  <2>3. Cardinality(found \cap s.connecting) \in Nat
    BY <1>2, ClientsFinite
  <2>4. Cardinality(found \cap s.connecting) <= Cardinality(s.connecting)
    BY <2>1, <2>2, FS_Subset
  <2> QED  BY <1>1, <2>1, <2>3, <2>4
<1>6. Without(s.queue, found) \in Seq(Client)  BY <1>1, WithoutType
<1>7. s.posted + Cardinality(wakes) \in Nat  BY <1>1, <1>4
<1>8. r = [s EXCEPT !.queue = Without(s.queue, found),
                    !.connecting = s.connecting \ found,
                    !.num_connecting = s.num_connecting - Cardinality(found \cap s.connecting),
                    !.posted = s.posted + Cardinality(wakes)]
  BY DEF Done
<1> HIDE DEF found, wakes, r
<1>9. r \in State  BY <1>1, <1>5, <1>6, <1>7, <1>8 DEF State
<1>10. /\ r.queue = Without(s.queue, found)
       /\ r.connecting = s.connecting \ found
       /\ r.num_connecting = s.num_connecting - Cardinality(found \cap s.connecting)
       /\ r.left = s.left /\ r.num_timers = s.num_timers /\ r.timer = s.timer
       /\ r.cancelled = s.cancelled /\ r.life = s.life
       /\ r.posted = s.posted + Cardinality(wakes)
  BY <1>1, <1>8 DEF State
<1>11. Good(r, e) /\ r.num_connecting <= s.num_connecting  BY <1>9, <1>10, RemoveGood
<1>12. r.posted >= s.posted  BY <1>1, <1>4, <1>10
<1> QED  BY <1>10, <1>11, <1>12 DEF r

\* What try_connect starts are entries that wait, and not more than there is room for.
LEMMA StartType ==
    ASSUME NEW s, NEW e \in Nat, Good(s, e), limit \in Nat
    PROVE  /\ Start(s) \in SUBSET Client
           /\ Start(s) \cap s.connecting = {}
           /\ Start(s) \subseteq ToSet(s.queue)
           /\ limit > 0 /\ s.num_connecting <= limit =>
                 s.num_connecting + Cardinality(Start(s)) <= limit
           /\ Start(s) # {} => Timeout[s.queue[Min(Waiting(s))]] \in 0 .. MaxTimeout
<1> DEFINE W == Waiting(s)
<1>1. /\ s.queue \in Seq(Client) /\ Len(s.queue) \in Nat /\ DOMAIN s.queue = 1 .. Len(s.queue)
      /\ s.num_connecting \in Nat
  BY DEF Good, State
<1>2. W \in SUBSET (1 .. Len(s.queue))  BY <1>1 DEF Waiting
<1>3. Start(s) \in SUBSET Client /\ Start(s) \cap s.connecting = {} /\ Start(s) \subseteq ToSet(s.queue)
  BY <1>1 DEF Start, Waiting, ToSet
<1>4. ASSUME limit > 0, s.num_connecting <= limit
      PROVE  s.num_connecting + Cardinality(Start(s)) <= limit
  <2> DEFINE m == limit - s.num_connecting
             T == {i \in W : Rank(W, i) <= m}
             f == [i \in T |-> s.queue[i]]
  <2>1. m \in Nat  BY <1>1, <1>4
  <2>2. IsFiniteSet(T) /\ Cardinality(T) <= m
    <3> HIDE DEF W, m
    <3> QED  BY <1>1, <1>2, <2>1, RankBounds
  <2>3. \A i \in W : Rank(W, i) \in Nat
    <3> HIDE DEF W
    <3>1. \A i \in W : Rank(W, i) \in 1 .. Cardinality(W)  BY <1>1, <1>2, RankType
    <3> QED  BY <3>1
  <2>4. \A i \in W : (limit = 0 \/ s.num_connecting + Turn(s, i) <= limit) <=> Rank(W, i) <= m
    BY <1>1, <1>4, <2>3 DEF Turn, Rank
  <2>5. Start(s) = {s.queue[i] : i \in T}  BY <2>4 DEF Start
  <2> HIDE DEF T, m
  <2>6. f \in Surjection(T, Start(s))  BY <2>5 DEF Surjection
  <2>7. Cardinality(Start(s)) <= Cardinality(T)  BY <2>2, <2>6, FS_Surjection
  <2>8. Cardinality(T) \in Nat /\ Cardinality(Start(s)) \in Nat
    BY <2>2, <1>3, FS_CardinalityType, ClientsFinite
  <2> QED  BY <1>1, <2>1, <2>2, <2>7, <2>8 DEF m
<1>5. ASSUME Start(s) # {}
      PROVE  Timeout[s.queue[Min(Waiting(s))]] \in 0 .. MaxTimeout
  <2>1. W # {} /\ W \in SUBSET Nat  BY <1>2, <1>5 DEF Start
  <2>2. \E x \in W : \A y \in W : x <= y
    <3> HIDE DEF W
    <3> QED  BY <2>1, LeastNatural
  <2>3. Min(W) \in W
    <3> HIDE DEF W
    <3> QED  BY <2>2 DEF Min
  <2>4. s.queue[Min(W)] \in Client  BY <1>1, <1>2, <2>3
  <2> HIDE DEF W
  <2>5. Timeout[s.queue[Min(W)]] \in 0 .. MaxTimeout  BY <2>4, QueueAssumption
  <2> QED  BY <2>5 DEF W
<1> QED  BY <1>3, <1>4, <1>5

\* Closing clients and adding entries.
LEMMA CloseGood ==
    ASSUME NEW s, NEW e \in Nat, Good(s, e), NEW cs
    PROVE  /\ Good(Close(s, cs), e)
           /\ Close(s, cs).connecting = s.connecting
           /\ Close(s, cs).num_timers = s.num_timers
           /\ Close(s, cs).num_connecting = s.num_connecting
           /\ Close(s, cs).left = s.left
<1> DEFINE r == Close(s, cs)
           l == [c \in Client |-> IF c \in cs THEN "gone" ELSE s.life[c]]
<1>1. s \in State /\ s.life \in [Client -> Life]  BY DEF Good, State
<1>2. l \in [Client -> Life]  BY <1>1 DEF Life
<1>3. r = [s EXCEPT !.life = l]  BY DEF Close
<1> HIDE DEF l, r
<1>4. r \in State  BY <1>1, <1>2, <1>3 DEF State
<1>5. /\ r.queue = s.queue /\ r.connecting = s.connecting /\ r.left = s.left
      /\ r.num_connecting = s.num_connecting /\ r.num_timers = s.num_timers
      /\ r.timer = s.timer /\ r.cancelled = s.cancelled
  BY <1>1, <1>3 DEF State
<1> QED  BY <1>4, <1>5 DEF Good, Counted, TimersCounted, InTime, Slack, r

\* A new entry is not connecting, and the others stay in the queue.
LEMMA EnqueueGood ==
    ASSUME NEW s, NEW e \in Nat, Good(s, e), NEW c \in Client
    PROVE  /\ Good(Enqueue(s, c), e)
           /\ Enqueue(s, c).connecting = s.connecting
           /\ Enqueue(s, c).num_timers = s.num_timers
           /\ Enqueue(s, c).num_connecting = s.num_connecting
           /\ Enqueue(s, c).left = s.left
<1> DEFINE r == Enqueue(s, c)
           q == IF Priority[c] <= 0 THEN Append(s.queue, c) ELSE <<c>> \o s.queue
           l == [s.life EXCEPT ![c] = "queued"]
           n == IF Full(s.num_connecting) THEN s.posted ELSE s.posted + 1
<1>1. /\ s \in State /\ s.queue \in Seq(Client) /\ s.life \in [Client -> Life] /\ s.posted \in Nat
      /\ s.connecting \subseteq ToSet(s.queue)
  BY DEF Good, State, Counted
<1>2. l \in [Client -> Life] /\ n \in Nat  BY <1>1 DEF Life
<1>3. q \in Seq(Client) /\ ToSet(s.queue) \subseteq ToSet(q)
  <2>1. Append(s.queue, c) \in Seq(Client) /\ <<c>> \o s.queue \in Seq(Client)  BY <1>1
  <2>2. \A i \in DOMAIN s.queue : i \in DOMAIN Append(s.queue, c) /\ Append(s.queue, c)[i] = s.queue[i]
    BY <1>1
  <2>3. \A i \in DOMAIN s.queue :
            i + 1 \in DOMAIN (<<c>> \o s.queue) /\ (<<c>> \o s.queue)[i + 1] = s.queue[i]
    BY <1>1
  <2>4. ToSet(s.queue) \subseteq ToSet(Append(s.queue, c))  BY <2>2 DEF ToSet
  <2>5. ToSet(s.queue) \subseteq ToSet(<<c>> \o s.queue)  BY <2>3 DEF ToSet
  <2> QED  BY <2>1, <2>4, <2>5
<1>4. r = [s EXCEPT !.queue = q, !.life = l, !.posted = n]  BY DEF Enqueue
<1> HIDE DEF q, l, n, r
<1>5. r \in State  BY <1>1, <1>2, <1>3, <1>4 DEF State
<1>6. /\ r.queue = q /\ r.connecting = s.connecting /\ r.left = s.left
      /\ r.num_connecting = s.num_connecting /\ r.num_timers = s.num_timers
      /\ r.timer = s.timer /\ r.cancelled = s.cancelled
  BY <1>1, <1>4 DEF State
<1>7. Counted(r)  BY <1>1, <1>3, <1>6 DEF Good, Counted
<1> QED  BY <1>5, <1>6, <1>7 DEF Good, TimersCounted, InTime, Slack, r

\* Started attempts are counted and have all their time.
LEMMA MarkGood ==
    ASSUME NEW s, NEW e \in Nat, Good(s, e), NEW started \in SUBSET Client,
           started \cap s.connecting = {}, started \subseteq ToSet(s.queue),
           NEW r \in State,
           r.queue = s.queue, r.connecting = s.connecting \cup started,
           r.num_connecting = s.num_connecting + Cardinality(started),
           r.left = [c \in Client |-> IF c \in started THEN Timeout[c] ELSE s.left[c]],
           r.num_timers = s.num_timers, r.timer = s.timer, r.cancelled = s.cancelled
    PROVE  Good(r, e)
<1>1. /\ s \in State /\ s.connecting \in SUBSET Client /\ s.left \in [Client -> Int]
      /\ s.num_connecting = Cardinality(s.connecting) /\ s.connecting \subseteq ToSet(s.queue)
      /\ s.timer \in (0 .. MaxTimeout) \cup {NoTimer}
  BY DEF Good, State, Counted
<1>2. Counted(r)
  <2>1. /\ IsFiniteSet(s.connecting) /\ Cardinality(s.connecting) \in Nat
        /\ IsFiniteSet(started) /\ Cardinality(started) \in Nat
    BY <1>1, ClientsFinite
  <2>2. s.connecting \cap started = {}  OBVIOUS
  <2>3. Cardinality(s.connecting \cup started) =
           Cardinality(s.connecting) + Cardinality(started) - Cardinality({})
    BY <2>1, <2>2, FS_Union
  <2>4. Cardinality({}) = 0  BY FS_EmptySet
  <2> QED  BY <1>1, <2>1, <2>3, <2>4 DEF Counted
<1>3. TimersCounted(r, e)  BY DEF Good, TimersCounted
<1>4. ASSUME NEW c \in r.connecting
      PROVE  /\ r.left[c] <= Timeout[c] /\ Slack(r, c) >= 0
             /\ r.timer # NoTimer => Slack(r, c) >= r.timer
  <2>0. MaxTimeout \in Nat /\ c \in Client /\ Timeout[c] \in 1 .. MaxTimeout
    BY <1>1, QueueAssumption
  <2>1. CASE c \in started
    <3>1. r.left[c] = Timeout[c] /\ Slack(r, c) = MaxTimeout  BY <2>0, <2>1 DEF Slack
    <3> QED  BY <2>0, <3>1, <1>1
  <2>2. CASE c \notin started
    <3>1. c \in s.connecting /\ r.left[c] = s.left[c] /\ Slack(r, c) = Slack(s, c)
      BY <2>0, <2>2 DEF Slack
    <3> QED  BY <3>1 DEF Good, InTime
  <2> QED  BY <2>1, <2>2
<1>5. InTime(r)  BY <1>4 DEF InTime
<1> QED  BY <1>2, <1>3, <1>5 DEF Good

\* try_connect keeps what is right, keeps a timer for what it starts, and starts
\* no more than the limit allows.
LEMMA TryGood ==
    ASSUME NEW s, NEW e \in Nat, Good(s, e), Watched(s), limit \in Nat, NEW failing
    PROVE  /\ Good(TryConnect(s, failing), e)
           /\ Watched(TryConnect(s, failing))
           /\ TryConnect(s, failing).num_connecting > s.num_connecting =>
                 limit = 0 \/ TryConnect(s, failing).num_connecting <= limit
           /\ TryConnect(s, failing).posted >= s.posted
<1> DEFINE started == Start(s)
           first == s.queue[Min(Waiting(s))]
           timed == IF s.num_connecting = 0 THEN ArmTimer(s, Timeout[first]) ELSE s
           l == [c \in Client |-> IF c \in started THEN Timeout[c] ELSE timed.left[c]]
           f == [c \in Client |-> IF c \in started /\ timed.life[c] = "queued"
                                   THEN IF c \in failing THEN "gone" ELSE "trying"
                                   ELSE timed.life[c]]
           marked == [timed EXCEPT !.connecting = timed.connecting \cup started,
                                   !.num_connecting = timed.num_connecting + Cardinality(started),
                                   !.left = l,
                                   !.ticket = timed.ticket \cup started,
                                   !.life = f]
           given == {c \in started \cap failing : s.life[c] = "queued"}
           r == TryConnect(s, failing)
<1>1. /\ s \in State /\ s.num_connecting \in Nat /\ s.posted \in Nat
      /\ s.num_connecting = Cardinality(s.connecting) /\ s.connecting \in SUBSET Client
  BY DEF Good, State, Counted
<1>2. CASE Full(s.num_connecting)
  <2>1. r = s  BY <1>2 DEF TryConnect
  <2> QED  BY <1>1, <2>1
<1>3. CASE ~Full(s.num_connecting) /\ s.queue = <<>>
  <2>1. r = CancelTimer(s)  BY <1>3 DEF TryConnect
  <2>2. /\ Good(CancelTimer(s), e) /\ CancelTimer(s).connecting = s.connecting
        /\ CancelTimer(s).num_timers = s.num_timers
        /\ CancelTimer(s).num_connecting = s.num_connecting
        /\ CancelTimer(s).posted = s.posted
    BY CancelGood
  <2> QED  BY <1>1, <2>1, <2>2 DEF Watched
<1>4. CASE ~Full(s.num_connecting) /\ s.queue # <<>> /\ Start(s) = {}
  <2>1. r = s  BY <1>4 DEF TryConnect
  <2> QED  BY <1>1, <2>1
<1>5. CASE ~Full(s.num_connecting) /\ s.queue # <<>> /\ Start(s) # {}
  <2>1. r = Done(marked, given)  BY <1>5 DEF TryConnect
  <2>2. /\ started \in SUBSET Client /\ started \cap s.connecting = {}
        /\ started \subseteq ToSet(s.queue)
        /\ limit > 0 /\ s.num_connecting <= limit =>
              s.num_connecting + Cardinality(started) <= limit
        /\ Timeout[first] \in 0 .. MaxTimeout
    BY <1>5, StartType
  <2>3. /\ Good(timed, e) /\ timed.connecting = s.connecting /\ timed.queue = s.queue
        /\ timed.num_connecting = s.num_connecting
        /\ timed.num_timers > 0 /\ timed.posted = s.posted
    <3>1. CASE s.num_connecting = 0
      <4>1. s.connecting = {}
        <5>1. IsFiniteSet(s.connecting)  BY <1>1, ClientsFinite
        <5> QED  BY <1>1, <3>1, <5>1, FS_EmptySet
      <4> HIDE DEF first
      <4> QED  BY <2>2, <3>1, <4>1, ArmGood
    <3>2. CASE s.num_connecting # 0
      <4>1. s.connecting # {}  BY <1>1, <3>2, FS_EmptySet
      <4> QED  BY <3>2, <4>1 DEF Watched
    <3> QED  BY <3>1, <3>2
  <2> HIDE DEF timed, started
  <2>4. /\ timed \in State /\ timed.left \in [Client -> Int] /\ timed.life \in [Client -> Life]
        /\ timed.ticket \in SUBSET Client /\ timed.connecting \in SUBSET Client
        /\ timed.num_connecting \in Nat
    BY <2>3 DEF Good, State
  <2>5. Cardinality(started) \in Nat  BY <2>2, ClientsFinite
  <2>6. l \in [Client -> Int]
    <3>1. \A c \in Client : Timeout[c] \in Int  BY QueueAssumption
    <3> QED  BY <2>4, <3>1
  <2>7. f \in [Client -> Life]  BY <2>4 DEF Life
  <2>8. timed.num_connecting + Cardinality(started) \in Nat  BY <2>4, <2>5
  <2> HIDE DEF f
  <2>9. marked \in State
    <3> HIDE DEF l
    <3> QED  BY <2>2, <2>4, <2>6, <2>7, <2>8 DEF State
  <2>10. /\ marked.queue = timed.queue
         /\ marked.connecting = timed.connecting \cup started
         /\ marked.num_connecting = timed.num_connecting + Cardinality(started)
         /\ marked.left = l
         /\ marked.num_timers = timed.num_timers /\ marked.timer = timed.timer
         /\ marked.cancelled = timed.cancelled /\ marked.posted = timed.posted
    <3> HIDE DEF l
    <3> QED  BY <2>4 DEF State
  <2> HIDE DEF marked, given
  <2>11. Good(marked, e)
    BY <2>2, <2>3, <2>9, <2>10, MarkGood DEF l
  <2>12. /\ Good(Done(marked, given), e)
         /\ Done(marked, given).num_connecting <= marked.num_connecting
         /\ Done(marked, given).num_timers = marked.num_timers
         /\ Done(marked, given).posted >= marked.posted
    BY <2>11, DoneGood
  <2>13. Watched(r)  BY <2>1, <2>3, <2>10, <2>12 DEF Watched
  <2>14. limit = 0 \/ r.num_connecting <= limit
    <3>1. limit > 0 => s.num_connecting <= limit  BY <1>1, <1>5 DEF Full
    <3>2. limit > 0 => marked.num_connecting <= limit  BY <2>2, <2>3, <2>10, <3>1
    <3>3. r.num_connecting \in Nat /\ marked.num_connecting \in Nat
      BY <2>1, <2>11, <2>12 DEF Good, State
    <3> QED  BY <2>1, <2>12, <3>2, <3>3
  <2>15. r.posted >= s.posted  BY <2>1, <2>3, <2>10, <2>12
  <2> QED  BY <2>1, <2>12, <2>13, <2>14, <2>15
<1> HIDE DEF r
<1> QED  BY <1>2, <1>3, <1>4, <1>5 DEF r

\* The first part of on_timeout leaves a timer for every attempt that stays, even
\* if there was none.
LEMMA ExpireGood ==
    ASSUME NEW s, NEW e \in Nat, Good(s, e), NEW retry \in SUBSET Client
    PROVE  LET late == {c \in s.connecting : s.left[c] <= 0}
           IN  /\ Good(Expire(s, late, retry), e)
               /\ Watched(Expire(s, late, retry))
               /\ Expire(s, late, retry).num_connecting <= s.num_connecting
<1> DEFINE late == {c \in s.connecting : s.left[c] <= 0}
           kept == [s EXCEPT !.queue = Without(s.queue, late),
                             !.connecting = s.connecting \ late,
                             !.num_connecting = s.num_connecting - Cardinality(late)]
           closed == Close(kept, late)
           more == IF retry = {} THEN closed ELSE Enqueue(closed, CHOOSE c \in retry : TRUE)
           t == Min({s.left[c] : c \in kept.connecting})
           r == Expire(s, late, retry)
<1>1. /\ s \in State /\ s.num_connecting \in Nat /\ s.queue \in Seq(Client)
      /\ s.left \in [Client -> Int]
      /\ s.num_connecting = Cardinality(s.connecting) /\ s.connecting \in SUBSET Client
  BY DEF Good, State, Counted
<1>2. /\ late \in SUBSET s.connecting /\ late \in SUBSET Client /\ late \cap s.connecting = late
      /\ \A c \in s.connecting \ late : s.left[c] > 0
  BY <1>1
<1>3. r = IF kept.connecting = {} THEN more ELSE ArmTimer(more, t)  BY DEF Expire
<1> HIDE DEF late
<1>4. s.num_connecting - Cardinality(late) \in Nat
  <2>1. IsFiniteSet(s.connecting) /\ Cardinality(late) \in Nat  BY <1>1, <1>2, ClientsFinite
  <2>2. Cardinality(late) <= Cardinality(s.connecting)  BY <1>2, <2>1, FS_Subset
  <2> QED  BY <1>1, <2>1, <2>2
<1>5. Without(s.queue, late) \in Seq(Client)  BY <1>1, WithoutType
<1>6. kept \in State  BY <1>1, <1>4, <1>5 DEF State
<1>7. /\ kept.queue = Without(s.queue, late) /\ kept.connecting = s.connecting \ late
      /\ kept.num_connecting = s.num_connecting - Cardinality(late)
      /\ kept.left = s.left /\ kept.num_timers = s.num_timers /\ kept.timer = s.timer
      /\ kept.cancelled = s.cancelled
  BY <1>1 DEF State
<1> HIDE DEF kept
<1>8. Good(kept, e) /\ kept.num_connecting <= s.num_connecting
  BY <1>2, <1>6, <1>7, RemoveGood
<1>9. /\ Good(closed, e) /\ closed.connecting = kept.connecting
      /\ closed.num_connecting = kept.num_connecting /\ closed.left = s.left
  BY <1>7, <1>8, CloseGood
<1> HIDE DEF closed
<1>10. /\ Good(more, e) /\ more.connecting = kept.connecting
       /\ more.num_connecting = kept.num_connecting /\ more.left = s.left
  <2>1. CASE retry = {}  BY <1>9, <2>1
  <2>2. CASE retry # {}
    <3> DEFINE c == CHOOSE c \in retry : TRUE
    <3>1. c \in Client  BY <2>2
    <3> HIDE DEF c
    <3>2. /\ Good(Enqueue(closed, c), e) /\ Enqueue(closed, c).connecting = closed.connecting
          /\ Enqueue(closed, c).num_connecting = closed.num_connecting
          /\ Enqueue(closed, c).left = closed.left
      BY <1>9, <3>1, EnqueueGood
    <3> QED  BY <1>9, <2>2, <3>2 DEF c
  <2> QED  BY <2>1, <2>2
<1> HIDE DEF more, r
<1>11. CASE kept.connecting = {}
  BY <1>3, <1>8, <1>10, <1>11 DEF Watched, late, r
<1>12. CASE kept.connecting # {}
  <2> DEFINE T == {s.left[c] : c \in kept.connecting}
  <2>1. /\ \A c \in kept.connecting : c \in Client /\ s.left[c] \in Int /\ s.left[c] > 0
        /\ \A c \in kept.connecting : s.left[c] <= Timeout[c]
    BY <1>1, <1>2, <1>7 DEF Good, InTime
  <2>2. T \in SUBSET Nat /\ T # {}  BY <2>1, <1>12
  <2>3. \E x \in T : \A y \in T : x <= y
    <3> HIDE DEF T
    <3> QED  BY <2>2, LeastNatural
  <2>4. t \in T /\ \A y \in T : t <= y
    <3>1. t = Min(T)  OBVIOUS
    <3> HIDE DEF T, t
    <3> QED  BY <2>3, <3>1 DEF Min
  <2>5. PICK d \in kept.connecting : t = s.left[d]  BY <2>4
  <2>6. \A c \in kept.connecting : t <= s.left[c]  BY <2>4
  <2> HIDE DEF t
  <2>7. t \in 0 .. MaxTimeout
    <3>1. Timeout[d] \in 1 .. MaxTimeout /\ MaxTimeout \in Nat  BY <2>1, QueueAssumption
    <3>2. t \in Int /\ t > 0 /\ t <= Timeout[d]  BY <2>1, <2>5
    <3> QED  BY <3>1, <3>2
  <2>8. ASSUME NEW c \in more.connecting PROVE Slack(more, c) >= t
    <3>1. c \in kept.connecting /\ more.left[c] = s.left[c]  BY <1>10
    <3>2. Timeout[c] \in 1 .. MaxTimeout /\ MaxTimeout \in Nat  BY <2>1, <3>1, QueueAssumption
    <3>3. s.left[c] \in Int /\ t <= s.left[c] /\ t \in Int  BY <2>1, <2>6, <2>7, <3>1
    <3> QED  BY <3>1, <3>2, <3>3 DEF Slack
  <2>9. /\ Good(ArmTimer(more, t), e) /\ ArmTimer(more, t).num_timers > 0
        /\ ArmTimer(more, t).num_connecting = more.num_connecting
    BY <1>10, <2>7, <2>8, ArmGood
  <2>10. r = ArmTimer(more, t)  BY <1>3, <1>12
  <2> QED  BY <1>8, <1>10, <2>9, <2>10 DEF Watched, late, r
<1> QED  BY <1>11, <1>12

-----------------------------------------------------------------------------
(* The steps. *)

\* What the variables are after Become.
LEMMA Becomes ==
    ASSUME NEW x \in State, Become(x)
    PROVE  Now' = x
BY DEF Become, Now, State

\* The handlers of the timer, which have taken themselves off the count: what they
\* become is right, and what they start is within the limit.
LEMMA TimeoutGood ==
    ASSUME NEW s, NEW e \in Nat, Good(s, e), NEW error \in BOOLEAN, limit \in Nat,
           error /\ s.num_timers > 0 => Watched(s),
           OnTimeout(s, error)
    PROVE  /\ Good(Now', e) /\ Watched(Now')
           /\ num_connecting' > s.num_connecting => limit = 0 \/ num_connecting' <= limit
<1>1. s \in State /\ s.num_connecting \in Nat /\ s.num_connecting = Cardinality(s.connecting)
      /\ s.connecting \in SUBSET Client
  BY DEF Good, State, Counted
<1>2. CASE error /\ (s.num_connecting = 0 \/ s.num_timers > 0)
  <2>1. Become(s)  BY <1>2 DEF OnTimeout
  <2>2. Now' = s  BY <1>1, <2>1, Becomes
  <2>3. s.num_connecting = 0 => s.connecting = {}
    <3>1. IsFiniteSet(s.connecting)  BY <1>1, ClientsFinite
    <3> QED  BY <1>1, <3>1, FS_EmptySet
  <2>4. Watched(s)  BY <1>2, <2>3 DEF Watched
  <2>5. num_connecting' = s.num_connecting  BY <2>1 DEF Become
  <2> QED  BY <1>1, <2>2, <2>4, <2>5
<1>3. CASE ~(error /\ (s.num_connecting = 0 \/ s.num_timers > 0))
  <2> DEFINE late == {c \in s.connecting : s.left[c] <= 0}
  <2>1. PICK retry \in {{}} \cup {{c} : c \in {c \in Client : late # {} /\ life[c] = "new"}} :
            \E next \in {Expire(s, late, retry)} :
            \E failing \in SUBSET {c \in Start(next) : next.life[c] = "queued"} :
               Become(TryConnect(next, failing))
    BY <1>3 DEF OnTimeout
  <2>2. retry \in SUBSET Client  OBVIOUS
  <2> DEFINE next == Expire(s, late, retry)
  <2>3. PICK failing : Become(TryConnect(next, failing))  BY <2>1
  <2>4. Good(next, e) /\ Watched(next) /\ next.num_connecting <= s.num_connecting
    BY <2>2, ExpireGood
  <2> HIDE DEF next
  <2> DEFINE r == TryConnect(next, failing)
  <2>5. /\ Good(r, e) /\ Watched(r)
        /\ r.num_connecting > next.num_connecting => limit = 0 \/ r.num_connecting <= limit
    BY <2>4, TryGood
  <2> HIDE DEF r
  <2>6. r \in State /\ r.num_connecting \in Nat /\ next.num_connecting \in Nat
    BY <2>4, <2>5 DEF Good, State
  <2>7. Now' = r /\ num_connecting' = r.num_connecting
    <3>1. Become(r)  BY <2>3 DEF r
    <3>2. num_connecting' = r.num_connecting  BY <3>1 DEF Become
    <3> QED  BY <2>6, <3>1, <3>2, Becomes
  <2> QED  BY <1>1, <2>4, <2>5, <2>6, <2>7
<1> QED  BY <1>2, <1>3

\* A step keeps the invariant, and starts an attempt only within the limit.
StepKeeps ==
    /\ QueueInv'
    /\ num_connecting' > num_connecting => limit = 0 \/ num_connecting' <= limit

\* What the invariant says of the variables.
LEMMA InvFields ==
    ASSUME QueueInv
    PROVE  /\ Now \in State /\ limit \in Nat /\ expired \in Nat /\ num_connecting \in Nat
           /\ num_timers \in Nat /\ cancelled \in Nat /\ posted \in Nat
           /\ connecting \in SUBSET Client /\ queue \in Seq(Client)
           /\ life \in [Client -> Life] /\ left \in [Client -> Int]
           /\ timer \in (0 .. MaxTimeout) \cup {NoTimer}
           /\ num_connecting = Cardinality(connecting) /\ connecting \subseteq ToSet(queue)
           /\ num_timers = cancelled + expired + (IF timer = NoTimer THEN 0 ELSE 1)
           /\ connecting # {} => num_timers > 0
<1>1. Now \in State /\ limit \in Nat /\ expired \in Nat
  BY QueueAssumption DEF QueueInv, Good
<1>2. /\ num_connecting \in Nat
      /\ num_timers \in Nat /\ cancelled \in Nat /\ posted \in Nat
      /\ connecting \in SUBSET Client /\ queue \in Seq(Client)
      /\ life \in [Client -> Life] /\ left \in [Client -> Int]
      /\ timer \in (0 .. MaxTimeout) \cup {NoTimer}
  BY <1>1 DEF Now, State
<1>3. num_connecting = Cardinality(connecting) /\ connecting \subseteq ToSet(queue)
  BY DEF QueueInv, Good, Counted, Now
<1>4. /\ num_timers = cancelled + expired + (IF timer = NoTimer THEN 0 ELSE 1)
      /\ connecting # {} => num_timers > 0
  BY DEF QueueInv, Good, TimersCounted, Watched, Now
<1> QED  BY <1>1, <1>2, <1>3, <1>4

\* A handler that becomes a state that is right, and starts nothing.
LEMMA BecomeKeeps ==
    ASSUME QueueInv, NEW r, Good(r, expired), Watched(r), Become(r),
           r.num_connecting <= num_connecting,
           limit' = limit, expired' = expired, abort' \in BOOLEAN
    PROVE  StepKeeps
<1>1. r \in State /\ r.num_connecting \in Nat  BY DEF Good, State
<1>2. Now' = r  BY <1>1, Becomes
<1>3. num_connecting' = r.num_connecting  BY DEF Become
<1>4. num_connecting \in Nat  BY InvFields
<1> QED  BY <1>1, <1>2, <1>3, <1>4 DEF StepKeeps, QueueInv

\* enqueue() starts nothing.
LEMMA EnqueueStep ==
    ASSUME QueueInv, NEW c \in Client, ClientEnqueue(c)
    PROVE  StepKeeps
<1> DEFINE s == Now
           r == Enqueue(s, c)
<1>1. Good(s, expired) /\ Watched(s) /\ expired \in Nat /\ s.num_connecting = num_connecting
  BY DEF QueueInv, Now
<1>2. Become(r) /\ limit' = limit /\ expired' = expired /\ abort' \in BOOLEAN
  BY DEF ClientEnqueue, QueueInv
<1> HIDE DEF s
<1>3. /\ Good(r, expired) /\ r.connecting = s.connecting /\ r.num_timers = s.num_timers
      /\ r.num_connecting = s.num_connecting
  BY <1>1, EnqueueGood
<1> HIDE DEF r
<1>4. Watched(r) /\ r.num_connecting <= num_connecting
  <2>1. num_connecting \in Nat  BY InvFields
  <2> QED  BY <1>1, <1>3, <2>1 DEF Watched
<1> QED  BY <1>2, <1>3, <1>4, BecomeKeeps

\* on_connection_complete gives back the slot of c.
LEMMA CompleteStep ==
    ASSUME QueueInv, NEW c \in Client, ConnectionComplete(c)
    PROVE  StepKeeps
<1> DEFINE s == Now
           d == Done(s, {c})
<1>1. Good(s, expired) /\ Watched(s) /\ expired \in Nat /\ s.num_connecting = num_connecting
  BY DEF QueueInv, Now
<1>2. PICK l \in {"up", "gone"} : Become([d EXCEPT !.life[c] = l])
  BY DEF ConnectionComplete
<1>3. limit' = limit /\ expired' = expired /\ abort' \in BOOLEAN
  BY DEF ConnectionComplete, QueueInv
<1> HIDE DEF s
<1>4. /\ Good(d, expired) /\ d.connecting \subseteq s.connecting
      /\ d.num_timers = s.num_timers /\ d.num_connecting <= s.num_connecting
  BY <1>1, DoneGood
<1> HIDE DEF d
<1> DEFINE f == [d.life EXCEPT ![c] = l]
           r == [d EXCEPT !.life[c] = l]
<1>5. d \in State /\ d.life \in [Client -> Life]  BY <1>4 DEF Good, State
<1>6. f \in [Client -> Life]  BY <1>5 DEF Life
<1>7. r = [d EXCEPT !.life = f]  BY <1>5 DEF State
<1> HIDE DEF f, r
<1>8. r \in State  BY <1>5, <1>6, <1>7 DEF State
<1>9. /\ r.queue = d.queue /\ r.connecting = d.connecting /\ r.left = d.left
      /\ r.num_connecting = d.num_connecting /\ r.num_timers = d.num_timers
      /\ r.timer = d.timer /\ r.cancelled = d.cancelled
  BY <1>5, <1>7 DEF State
<1>10. Good(r, expired)
  BY <1>4, <1>8, <1>9 DEF Good, Counted, TimersCounted, InTime, Slack
<1>11. Watched(r) /\ r.num_connecting <= num_connecting
  BY <1>1, <1>4, <1>9 DEF Watched
<1>12. Become(r)  BY <1>2 DEF r
<1> QED  BY <1>3, <1>10, <1>11, <1>12, BecomeKeeps

\* disconnect gives back the slot of c, if it knows its ticket.
LEMMA DisconnectStep ==
    ASSUME QueueInv, NEW c \in Client, Disconnect(c)
    PROVE  StepKeeps
<1> DEFINE s == Now
           d == Done(s, {c} \cap ticket)
           r == Close(d, {c})
<1>1. Good(s, expired) /\ Watched(s) /\ expired \in Nat /\ s.num_connecting = num_connecting
  BY DEF QueueInv, Now
<1>2. Become(r) /\ limit' = limit /\ expired' = expired /\ abort' \in BOOLEAN
  BY DEF Disconnect, QueueInv
<1> HIDE DEF s
<1>3. /\ Good(d, expired) /\ d.connecting \subseteq s.connecting
      /\ d.num_timers = s.num_timers /\ d.num_connecting <= s.num_connecting
  BY <1>1, DoneGood
<1> HIDE DEF d
<1>4. /\ Good(r, expired) /\ r.connecting = d.connecting /\ r.num_timers = d.num_timers
      /\ r.num_connecting = d.num_connecting
  BY <1>1, <1>3, CloseGood
<1> HIDE DEF r
<1>5. Watched(r) /\ r.num_connecting <= num_connecting
  BY <1>1, <1>3, <1>4 DEF Watched
<1> QED  BY <1>2, <1>4, <1>5, BecomeKeeps

\* on_try_connect.
LEMMA TryStep ==
    ASSUME QueueInv, OnTryConnect
    PROVE  StepKeeps
<1> DEFINE s == Now
<1>1. Good(s, expired) /\ Watched(s) /\ expired \in Nat /\ limit \in Nat
      /\ s.num_connecting = num_connecting /\ s.posted = posted /\ posted > 0
  BY InvFields DEF QueueInv, Now, OnTryConnect
<1>2. PICK failing : Become([TryConnect(s, failing) EXCEPT !.posted = @ - 1])
  BY DEF OnTryConnect
<1>3. limit' = limit /\ expired' = expired /\ abort' \in BOOLEAN
  BY DEF OnTryConnect, QueueInv
<1> HIDE DEF s
<1> DEFINE d == TryConnect(s, failing)
           r == [d EXCEPT !.posted = d.posted - 1]
<1>4. /\ Good(d, expired) /\ Watched(d)
      /\ d.num_connecting > s.num_connecting => limit = 0 \/ d.num_connecting <= limit
      /\ d.posted >= s.posted
  BY <1>1, TryGood
<1>6. Become(r)  BY <1>2
<1> HIDE DEF d
<1>5. d.posted - 1 \in Nat
  <2>1. d.posted \in Nat /\ posted \in Nat  BY <1>4, InvFields DEF Good, State
  <2> QED  BY <1>1, <1>4, <2>1
<1>7. d \in State  BY <1>4 DEF Good
<1>8. r \in State  BY <1>5, <1>7 DEF State
<1>9. /\ r.queue = d.queue /\ r.connecting = d.connecting /\ r.left = d.left
      /\ r.num_connecting = d.num_connecting /\ r.num_timers = d.num_timers
      /\ r.timer = d.timer /\ r.cancelled = d.cancelled
  BY <1>7 DEF State
<1> HIDE DEF r
<1>10. Good(r, expired) /\ Watched(r)
  BY <1>4, <1>8, <1>9 DEF Good, Counted, TimersCounted, InTime, Slack, Watched
<1>11. Now' = r  BY <1>6, <1>8, Becomes
<1>12. num_connecting' = d.num_connecting  BY <1>6, <1>9 DEF Become
<1> QED  BY <1>1, <1>3, <1>4, <1>10, <1>11, <1>12 DEF StepKeeps, QueueInv

\* The handler of a cancelled wait, which is one of those that are counted.
LEMMA CancelledStep ==
    ASSUME QueueInv, OnCancelledTimer
    PROVE  StepKeeps
<1> DEFINE s == [Now EXCEPT !.num_timers = num_timers - 1, !.cancelled = cancelled - 1]
<1>1. /\ Now \in State /\ limit \in Nat /\ expired \in Nat /\ num_timers \in Nat /\ cancelled \in Nat
      /\ timer \in (0 .. MaxTimeout) \cup {NoTimer} /\ num_connecting \in Nat
      /\ num_timers = cancelled + expired + (IF timer = NoTimer THEN 0 ELSE 1)
  BY InvFields
<1>2. cancelled > 0 /\ limit' = limit /\ expired' = expired /\ abort' \in BOOLEAN
  BY DEF OnCancelledTimer, QueueInv
<1>3. OnTimeout(s, TRUE)  BY DEF OnCancelledTimer, Now
<1>4. num_timers - 1 \in Nat /\ cancelled - 1 \in Nat  BY <1>1, <1>2
<1>5. s \in State  BY <1>1, <1>4 DEF State
<1>6. /\ s.queue = Now.queue /\ s.connecting = Now.connecting /\ s.left = Now.left
      /\ s.num_connecting = num_connecting /\ s.num_timers = num_timers - 1
      /\ s.timer = timer /\ s.cancelled = cancelled - 1 /\ Now.timer = timer
      /\ Now.num_connecting = num_connecting
  BY DEF Now
<1> HIDE DEF s
<1>7. TimersCounted(s, expired)  BY <1>1, <1>6 DEF TimersCounted
<1>8. Good(s, expired)
  BY <1>5, <1>6, <1>7 DEF QueueInv, Good, Counted, InTime, Slack
<1>9. s.num_timers > 0 => Watched(s)  BY DEF Watched
<1>10. /\ Good(Now', expired) /\ Watched(Now')
       /\ num_connecting' > s.num_connecting => limit = 0 \/ num_connecting' <= limit
  BY <1>1, <1>3, <1>8, <1>9, TimeoutGood
<1> QED  BY <1>2, <1>6, <1>10 DEF StepKeeps, QueueInv

\* The handler of an expired wait.
LEMMA ExpiredStep ==
    ASSUME QueueInv, OnExpiredTimer
    PROVE  StepKeeps
<1> DEFINE s == [Now EXCEPT !.num_timers = num_timers - 1]
           e == expired - 1
<1>1. /\ Now \in State /\ limit \in Nat /\ expired \in Nat /\ num_timers \in Nat /\ cancelled \in Nat
      /\ timer \in (0 .. MaxTimeout) \cup {NoTimer} /\ num_connecting \in Nat
      /\ num_timers = cancelled + expired + (IF timer = NoTimer THEN 0 ELSE 1)
  BY InvFields
<1>2. expired > 0 /\ limit' = limit /\ expired' = e /\ abort' \in BOOLEAN
  BY DEF OnExpiredTimer, QueueInv
<1>3. OnTimeout(s, FALSE)  BY DEF OnExpiredTimer, Now
<1>4. num_timers - 1 \in Nat /\ e \in Nat  BY <1>1, <1>2
<1>5. s \in State  BY <1>1, <1>4 DEF State
<1>6. /\ s.queue = Now.queue /\ s.connecting = Now.connecting /\ s.left = Now.left
      /\ s.num_connecting = num_connecting /\ s.num_timers = num_timers - 1
      /\ s.timer = timer /\ s.cancelled = cancelled /\ Now.timer = timer
      /\ Now.num_connecting = num_connecting
  BY DEF Now
<1> HIDE DEF s
<1>7. TimersCounted(s, e)  BY <1>1, <1>6 DEF TimersCounted
<1> HIDE DEF e
<1>8. Good(s, e)
  BY <1>5, <1>6, <1>7 DEF QueueInv, Good, Counted, InTime, Slack
<1>10. /\ Good(Now', e) /\ Watched(Now')
       /\ num_connecting' > s.num_connecting => limit = 0 \/ num_connecting' <= limit
  BY <1>1, <1>3, <1>4, <1>8, TimeoutGood
<1> QED  BY <1>2, <1>4, <1>6, <1>10 DEF StepKeeps, QueueInv

\* The timer's handler is counted before and after it becomes ready.
LEMMA TimerStep ==
    ASSUME QueueInv, TimerExpires
    PROVE  StepKeeps
<1>1. /\ Now \in State /\ limit \in Nat /\ expired \in Nat /\ num_timers \in Nat /\ cancelled \in Nat
      /\ num_connecting \in Nat
      /\ num_timers = cancelled + expired + (IF timer = NoTimer THEN 0 ELSE 1)
  BY InvFields
<1>2. Now' = [Now EXCEPT !.timer = NoTimer]  BY DEF TimerExpires, Now
<1>3. Now' \in State  BY <1>1, <1>2 DEF State
<1>4. expired' \in Nat  BY <1>1 DEF TimerExpires
<1>5. TimersCounted(Now', expired')
  <2>1. timer # NoTimer  BY QueueAssumption DEF TimerExpires
  <2>2. num_timers = cancelled + (expired + 1)  BY <1>1, <2>1
  <2> QED  BY <1>1, <2>2 DEF TimersCounted, TimerExpires, Now
<1>6. Counted(Now')  BY DEF QueueInv, Good, Counted, TimerExpires, Now
<1>7. InTime(Now')  BY DEF QueueInv, Good, InTime, Slack, TimerExpires, Now
<1>8. Watched(Now')  BY DEF QueueInv, Watched, TimerExpires, Now
<1>9. num_connecting' = num_connecting /\ limit' = limit /\ abort' = abort  BY DEF TimerExpires
<1> QED  BY <1>1, <1>3, <1>4, <1>5, <1>6, <1>7, <1>8, <1>9 DEF StepKeeps, QueueInv, Good

\* close(): the entries that stay are counted again.
LEMMA CloseStep ==
    ASSUME QueueInv, CloseQueue
    PROVE  StepKeeps
<1> DEFINE s == IF num_connecting = 0 THEN CancelTimer(Now) ELSE Now
           low == {c \in Client : Priority[c] <= 1}
           kept == Without(queue, low)
           out == ToSet(queue) \ ToSet(kept)
           left1 == connecting \ out
           r == [s EXCEPT !.queue = kept, !.connecting = s.connecting \ out,
                          !.num_connecting = Cardinality(left1)]
<1>1. /\ Now \in State /\ expired \in Nat /\ num_connecting \in Nat /\ queue \in Seq(Client)
      /\ connecting \in SUBSET Client /\ num_connecting = Cardinality(connecting)
      /\ connecting \subseteq ToSet(queue)
  BY InvFields
<1>2. Become(Close(r, out)) /\ limit' = limit /\ expired' = expired /\ abort' \in BOOLEAN
  BY DEF CloseQueue
<1>3. /\ Good(s, expired) /\ Watched(s) /\ s.queue = queue /\ s.connecting = connecting
      /\ s.num_connecting = num_connecting
  <2>1. Good(Now, expired) /\ Watched(Now)  BY DEF QueueInv
  <2>2. /\ Good(CancelTimer(Now), expired) /\ CancelTimer(Now).connecting = Now.connecting
        /\ CancelTimer(Now).num_timers = Now.num_timers
        /\ CancelTimer(Now).num_connecting = Now.num_connecting
        /\ CancelTimer(Now).queue = Now.queue
    BY <1>1, <2>1, CancelGood
  <2>3. Now.connecting = connecting /\ Now.queue = queue /\ Now.num_connecting = num_connecting
    BY DEF Now
  <2> QED  BY <2>1, <2>2, <2>3 DEF Watched
<1> HIDE DEF s
<1>4. kept \in Seq(Client) /\ ToSet(kept) = ToSet(queue) \ low  BY <1>1, WithoutType
<1>5. out = ToSet(queue) \cap low  BY <1>4
<1> HIDE DEF low
<1>6. Without(queue, out) = kept
  <2>1. \A i \in DOMAIN queue : queue[i] \in out <=> queue[i] \in low
    <3> HIDE DEF out
    <3> QED  BY <1>5 DEF ToSet
  <2> HIDE DEF out
  <2>2. {i \in DOMAIN queue : queue[i] \notin out} = {i \in DOMAIN queue : queue[i] \notin low}
    BY <2>1
  <2>3. Without(queue, out) = Picked(queue, {i \in DOMAIN queue : queue[i] \notin out})
    BY DEF Without, Picked
  <2>4. Without(queue, low) = Picked(queue, {i \in DOMAIN queue : queue[i] \notin low})
    BY DEF Without, Picked
  <2> QED  BY <2>2, <2>3, <2>4
<1> HIDE DEF out, kept
<1>7. Cardinality(left1) = num_connecting - Cardinality(out \cap connecting)
  <2>1. IsFiniteSet(connecting)  BY <1>1, ClientsFinite
  <2>2. out \cap connecting = connecting \cap out  OBVIOUS
  <2>3. Cardinality(connecting \ out) = Cardinality(connecting) - Cardinality(connecting \cap out)
    BY <2>1, FS_Difference
  <2> QED  BY <1>1, <2>2, <2>3
<1>8. Cardinality(left1) \in Nat  BY <1>1, ClientsFinite
<1>9. s \in State  BY <1>3 DEF Good
<1>10. r \in State
  <2> HIDE DEF left1
  <2>1. s.connecting \ out \in SUBSET Client  BY <1>1, <1>3
  <2> QED  BY <1>4, <1>8, <1>9, <2>1 DEF State
<1>11. /\ r.queue = kept /\ r.connecting = s.connecting \ out
       /\ r.num_connecting = Cardinality(left1)
       /\ r.left = s.left /\ r.num_timers = s.num_timers /\ r.timer = s.timer
       /\ r.cancelled = s.cancelled
  BY <1>9 DEF State
<1> HIDE DEF r, left1
<1>12. Good(r, expired) /\ r.num_connecting <= s.num_connecting
  BY <1>1, <1>3, <1>6, <1>7, <1>10, <1>11, RemoveGood
<1>13. /\ Good(Close(r, out), expired) /\ Close(r, out).connecting = r.connecting
       /\ Close(r, out).num_timers = r.num_timers
       /\ Close(r, out).num_connecting = r.num_connecting
  BY <1>1, <1>12, CloseGood
<1>14. Watched(Close(r, out)) /\ Close(r, out).num_connecting <= num_connecting
  BY <1>3, <1>11, <1>12, <1>13 DEF Watched
<1> QED  BY <1>2, <1>13, <1>14, BecomeKeeps

\* Time: when no handler is ready the one that watches the attempts is the timer,
\* and it has not reached zero.
LEMMA TickStep ==
    ASSUME QueueInv, Tick
    PROVE  StepKeeps
<1> DEFINE l == [c \in Client |-> IF c \in connecting THEN left[c] - 1 ELSE left[c]]
           t == IF timer = NoTimer THEN NoTimer ELSE timer - 1
<1>1. /\ Now \in State /\ limit \in Nat /\ expired \in Nat /\ num_timers \in Nat /\ cancelled \in Nat
      /\ num_connecting \in Nat /\ left \in [Client -> Int] /\ connecting \in SUBSET Client
      /\ timer \in (0 .. MaxTimeout) \cup {NoTimer}
      /\ num_timers = cancelled + expired + (IF timer = NoTimer THEN 0 ELSE 1)
      /\ connecting # {} => num_timers > 0
  BY InvFields
<1>2. /\ cancelled = 0 /\ expired = 0 /\ timer # 0
      /\ num_connecting' = num_connecting /\ limit' = limit /\ abort' = abort /\ expired' = expired
  BY DEF Tick
<1>3. MaxTimeout \in Nat /\ NoTimer \notin Int  BY QueueAssumption
<1>4. t \in (0 .. MaxTimeout) \cup {NoTimer}  BY <1>1, <1>2, <1>3
<1>5. l \in [Client -> Int]  BY <1>1
<1>0. /\ left' = l /\ timer' = t
      /\ UNCHANGED <<queue, connecting, num_connecting, num_timers, cancelled, posted, life, ticket>>
  BY DEF Tick
<1>6. Now' = [queue |-> queue, connecting |-> connecting, left |-> l,
              num_connecting |-> num_connecting, num_timers |-> num_timers, timer |-> t,
              cancelled |-> cancelled, posted |-> posted, life |-> life, ticket |-> ticket]
  <2> HIDE DEF l, t
  <2> QED  BY <1>0 DEF Now
<1>7. /\ Now'.queue = queue /\ Now'.connecting = connecting /\ Now'.left = l
      /\ Now'.num_connecting = num_connecting /\ Now'.num_timers = num_timers
      /\ Now'.timer = t /\ Now'.cancelled = cancelled
  BY <1>6
<1>8. Now' \in State
  <2> HIDE DEF l, t
  <2>1. ticket \in SUBSET Client  BY <1>1 DEF Now, State
  <2> QED  BY <1>1, <1>4, <1>5, <1>6, <2>1, InvFields DEF State
<1>9. Counted(Now')  BY <1>7 DEF QueueInv, Good, Counted, Now
<1>10. TimersCounted(Now', expired')
  <2>1. timer # NoTimer => t # NoTimer  BY <1>1, <1>3
  <2>2. timer = NoTimer <=> t = NoTimer  BY <2>1
  <2> QED  BY <1>1, <1>2, <1>7, <2>2 DEF TimersCounted
<1>11. Watched(Now')  BY <1>1, <1>7 DEF Watched
<1>12. ASSUME NEW c \in connecting
       PROVE  /\ l[c] <= Timeout[c] /\ l[c] + MaxTimeout - Timeout[c] >= 0
              /\ l[c] + MaxTimeout - Timeout[c] >= t
  <2>1. timer # NoTimer /\ timer \in 1 .. MaxTimeout  BY <1>1, <1>2, <1>3
  <2>2. t = timer - 1  BY <2>1
  <2>3. c \in Client /\ l[c] = left[c] - 1 /\ left[c] \in Int  BY <1>1
  <2>4. Timeout[c] \in 1 .. MaxTimeout  BY <2>3, QueueAssumption
  <2>5. left[c] <= Timeout[c] /\ left[c] + MaxTimeout - Timeout[c] >= timer
    BY <2>1 DEF QueueInv, Good, InTime, Slack, Now
  <2> QED  BY <1>3, <2>1, <2>2, <2>3, <2>4, <2>5
<1> HIDE DEF l, t
<1>13. InTime(Now')  BY <1>7, <1>12 DEF InTime, Slack
<1> QED  BY <1>1, <1>2, <1>8, <1>9, <1>10, <1>11, <1>13 DEF StepKeeps, QueueInv, Good

-----------------------------------------------------------------------------
(* The theorems. *)

\* An empty queue is right.
LEMMA InitInv == Init => QueueInv
<1> SUFFICES ASSUME Init PROVE QueueInv  OBVIOUS
<1> USE DEF Init
<1>1. Now \in State
  <2>1. Timeout \in [Client -> Int]  BY QueueAssumption
  <2>2. [c \in Client |-> "new"] \in [Client -> Life]  BY DEF Life
  <2>3. <<>> \in Seq(Client)  OBVIOUS
  <2> QED  BY <2>1, <2>2, <2>3 DEF Now, State
<1>2. Counted(Now)
  <2>1. Cardinality({}) = 0  BY FS_EmptySet
  <2> QED  BY <2>1 DEF Now, Counted
<1>3. TimersCounted(Now, expired)  BY DEF Now, TimersCounted
<1>4. InTime(Now) /\ Watched(Now)  BY DEF Now, InTime, Watched
<1> QED  BY <1>1, <1>2, <1>3, <1>4 DEF QueueInv, Good

\* Every action keeps the invariant and the limit.
LEMMA NextKeeps == QueueInv /\ Next => StepKeeps
<1> SUFFICES ASSUME QueueInv, Next PROVE StepKeeps  OBVIOUS
<1>1. ASSUME NEW c \in Client, ClientEnqueue(c) PROVE StepKeeps  BY <1>1, EnqueueStep
<1>2. ASSUME NEW c \in Client, ConnectionComplete(c) PROVE StepKeeps  BY <1>2, CompleteStep
<1>3. ASSUME NEW c \in Client, Disconnect(c) PROVE StepKeeps  BY <1>3, DisconnectStep
<1>4. CASE CloseQueue  BY <1>4, CloseStep
<1>5. CASE SetLimit
  <2>1. Now' = Now /\ num_connecting' = num_connecting /\ expired' = expired /\ abort' = abort
        /\ limit' \in Limits
    BY <1>5 DEF SetLimit, queueVars, Now
  <2>2. num_connecting \in Nat  BY InvFields
  <2> QED  BY <2>1, <2>2 DEF StepKeeps, QueueInv
<1>6. CASE OnTryConnect  BY <1>6, TryStep
<1>7. CASE OnCancelledTimer  BY <1>7, CancelledStep
<1>8. CASE OnExpiredTimer  BY <1>8, ExpiredStep
<1>9. CASE TimerExpires  BY <1>9, TimerStep
<1>10. CASE Tick  BY <1>10, TickStep
<1> QED
  BY <1>1, <1>2, <1>3, <1>4, <1>5, <1>6, <1>7, <1>8, <1>9, <1>10 DEF Next, Progress

\* So does a step that changes nothing.
LEMMA StutterKeeps == QueueInv /\ UNCHANGED vars => QueueInv'
<1> SUFFICES ASSUME QueueInv, UNCHANGED vars PROVE QueueInv'  OBVIOUS
<1>1. Now' = Now /\ expired' = expired /\ abort' = abort /\ limit' = limit
  BY DEF vars, queueVars, Now
<1> QED  BY <1>1 DEF QueueInv

\* The invariant holds always: every handler of the queue leaves the count of the
\* connecting entries, the count of the timer's handlers and the deadlines right.
THEOREM QueueInvariant == Spec => []QueueInv
<1>1. Init => QueueInv  BY InitInv
<1>2. QueueInv /\ [Next]_vars => QueueInv'  BY NextKeeps, StutterKeeps DEF StepKeeps
<1> QED  BY <1>1, <1>2, PTL DEF Spec

\* The invariant is what SlotsAreRight says, and more.
LEMMA InvIsRight == QueueInv => SlotsAreRight
<1> SUFFICES ASSUME QueueInv PROVE SlotsAreRight  OBVIOUS
<1>1. ConnectingCounted  BY InvFields DEF ConnectingCounted
<1>2. SlotIsWatched  BY InvFields DEF SlotIsWatched
<1>3. TimeoutInTime
  <2>1. SUFFICES ASSUME NEW c \in connecting PROVE left[c] >= Timeout[c] - MaxTimeout
    BY DEF TimeoutInTime
  <2>2. c \in Client /\ left[c] \in Int /\ MaxTimeout \in Nat /\ Timeout[c] \in 1 .. MaxTimeout
    BY InvFields, QueueAssumption
  <2>3. left[c] + MaxTimeout - Timeout[c] >= 0
    BY DEF QueueInv, Good, InTime, Slack, Now
  <2> QED  BY <2>2, <2>3
<1> QED  BY <1>1, <1>2, <1>3 DEF SlotsAreRight

\* Every slot of the queue is counted, watched by a handler of the timer and taken
\* back in time (check_invariant and on_timeout of connection_queue.cpp), for any
\* number of clients, any timeouts, priorities and limits.
THEOREM SlotsTheorem == Spec => []SlotsAreRight
<1>1. Spec => []QueueInv  BY QueueInvariant
<1> QED  BY <1>1, InvIsRight, PTL

\* try_connect, on_timeout, done() and close() start no attempt beyond
\* m_half_open_limit, whatever the limit is set to in between.
THEOREM LimitTheorem == Spec => LimitIsKept
<1>1. Spec => []QueueInv  BY QueueInvariant
<1>2. QueueInv /\ [Next]_vars =>
        [num_connecting' > num_connecting => limit = 0 \/ num_connecting' <= limit]_vars
  BY NextKeeps DEF StepKeeps
<1> QED  BY <1>1, <1>2, PTL DEF Spec, LimitIsKept

\* The variables have their types.
THEOREM QueueTypes == Spec => []TypeOK
<1>1. QueueInv => TypeOK
  <2> SUFFICES ASSUME QueueInv PROVE TypeOK  OBVIOUS
  <2>1. limit \in Limits /\ abort \in BOOLEAN  BY DEF QueueInv
  <2>2. ticket \in SUBSET Client  BY DEF QueueInv, Good, State, Now
  <2> QED  BY <2>1, <2>2, InvFields DEF TypeOK
<1>2. Spec => []QueueInv  BY QueueInvariant
<1> QED  BY <1>1, <1>2, PTL
=============================================================================
