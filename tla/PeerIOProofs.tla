---------------------------- MODULE PeerIOProofs ----------------------------
(***************************************************************************)
(* Proofs about PeerIO, for any number of connections: a connection that   *)
(* is up always waits for something that comes, and the session counts     *)
(* the connections that wait for the disk.                                 *)
(***************************************************************************)
EXTENDS PeerIO, FiniteSetTheorems, TLAPS

Flags == {"network", "limit", "disk"}

ConnState == [state : {"none", "up", "closed"}, flags : [Channels -> SUBSET Flags],
              quota : [Channels -> Int], buffer : Int, reading : Int, outstanding : Int]

State == [conn : [Conns -> ConnState], queues : [Channels -> Int]]

\* What a connection adds to the count of the session.
Waits(p, ch) == IF "disk" \in p.flags[ch] THEN 1 ELSE 0

\* From s to t channel ch of connection c may have changed, and nothing else
\* but the count of the session with it.
Moved(s, t, c, ch) ==
    /\ t \in State
    /\ \A d \in Conns \ {c} : t.conn[d] = s.conn[d]
    /\ \A f \in Channels \ {ch} : /\ t.conn[c].flags[f] = s.conn[c].flags[f]
                                  /\ t.conn[c].quota[f] = s.conn[c].quota[f]
                                  /\ t.queues[f] = s.queues[f]
    /\ t.conn[c].state = s.conn[c].state
    /\ t.conn[c].buffer = s.conn[c].buffer
    /\ t.conn[c].reading = s.conn[c].reading
    /\ t.conn[c].outstanding = s.conn[c].outstanding
    /\ t.queues[ch] = s.queues[ch] + Waits(t.conn[c], ch) - Waits(s.conn[c], ch)

-----------------------------------------------------------------------------
(* One channel. *)

WithFlags(s, c, ch, F) == [s EXCEPT !.conn[c].flags[ch] = F]
WithQuota(s, c, ch, n) == [s EXCEPT !.conn[c].quota[ch] = n]
WithDisk(s, c, ch, F, k) == [s EXCEPT !.conn[c].flags[ch] = F, !.queues[ch] = k]

\* A change of the flags that is not about the disk moves the channel only.
LEMMA FlagsMove ==
    ASSUME NEW s \in State, NEW c \in Conns, NEW ch \in Channels, NEW F \in SUBSET Flags,
           NEW t, t = WithFlags(s, c, ch, F),
           "disk" \in F <=> "disk" \in s.conn[c].flags[ch]
    PROVE  /\ Moved(s, t, c, ch)
           /\ t.conn[c].flags[ch] = F
           /\ t.conn[c].quota[ch] = s.conn[c].quota[ch]
<1>1. s.conn \in [Conns -> ConnState] /\ s.queues \in [Channels -> Int]  BY DEF State
<1>2. s.conn[c] \in ConnState  BY <1>1
<1>3. s.conn[c].flags \in [Channels -> SUBSET Flags]  BY <1>2 DEF ConnState
<1> DEFINE p == [s.conn[c] EXCEPT !.flags[ch] = F]
<1>4. /\ p \in ConnState /\ p.flags = [s.conn[c].flags EXCEPT ![ch] = F]
      /\ p.quota = s.conn[c].quota /\ p.state = s.conn[c].state /\ p.buffer = s.conn[c].buffer
      /\ p.reading = s.conn[c].reading /\ p.outstanding = s.conn[c].outstanding
  BY <1>2, <1>3 DEF ConnState
<1>5. t = [s EXCEPT !.conn = [s.conn EXCEPT ![c] = p]]  BY DEF WithFlags
<1>6. t \in State /\ t.conn = [s.conn EXCEPT ![c] = p] /\ t.queues = s.queues
  BY <1>1, <1>4, <1>5 DEF State
<1>7. t.conn[c] = p /\ \A d \in Conns \ {c} : t.conn[d] = s.conn[d]  BY <1>6, <1>1
<1>8. /\ t.conn[c].flags[ch] = F
      /\ \A f \in Channels \ {ch} : t.conn[c].flags[f] = s.conn[c].flags[f]
  <2>1. t.conn[c].flags = [s.conn[c].flags EXCEPT ![ch] = F]  BY <1>7, <1>4
  <2> QED  BY <2>1, <1>3
<1>9. s.queues[ch] \in Int /\ Waits(t.conn[c], ch) = Waits(s.conn[c], ch)
      /\ Waits(s.conn[c], ch) \in Int
  BY <1>8, <1>1 DEF Waits
<1> HIDE DEF p
<1> QED  BY <1>4, <1>6, <1>7, <1>8, <1>9 DEF Moved

\* So does a change of the quota.
LEMMA QuotaMoves ==
    ASSUME NEW s \in State, NEW c \in Conns, NEW ch \in Channels, NEW n \in Int,
           NEW t, t = WithQuota(s, c, ch, n)
    PROVE  /\ Moved(s, t, c, ch)
           /\ t.conn[c].flags[ch] = s.conn[c].flags[ch]
           /\ t.conn[c].quota[ch] = n
<1>1. s.conn \in [Conns -> ConnState] /\ s.queues \in [Channels -> Int]  BY DEF State
<1>2. s.conn[c] \in ConnState  BY <1>1
<1>3. s.conn[c].quota \in [Channels -> Int]  BY <1>2 DEF ConnState
<1> DEFINE p == [s.conn[c] EXCEPT !.quota[ch] = n]
<1>4. /\ p \in ConnState /\ p.quota = [s.conn[c].quota EXCEPT ![ch] = n]
      /\ p.flags = s.conn[c].flags /\ p.state = s.conn[c].state /\ p.buffer = s.conn[c].buffer
      /\ p.reading = s.conn[c].reading /\ p.outstanding = s.conn[c].outstanding
  BY <1>2, <1>3 DEF ConnState
<1>5. t = [s EXCEPT !.conn = [s.conn EXCEPT ![c] = p]]  BY DEF WithQuota
<1>6. t \in State /\ t.conn = [s.conn EXCEPT ![c] = p] /\ t.queues = s.queues
  BY <1>1, <1>4, <1>5 DEF State
<1>7. t.conn[c] = p /\ \A d \in Conns \ {c} : t.conn[d] = s.conn[d]  BY <1>6, <1>1
<1>8. /\ t.conn[c].quota[ch] = n
      /\ \A f \in Channels \ {ch} : t.conn[c].quota[f] = s.conn[c].quota[f]
  <2>1. t.conn[c].quota = [s.conn[c].quota EXCEPT ![ch] = n]  BY <1>7, <1>4
  <2> QED  BY <2>1, <1>3
<1>9. s.queues[ch] \in Int /\ Waits(t.conn[c], ch) = Waits(s.conn[c], ch)
      /\ Waits(s.conn[c], ch) \in Int
  BY <1>4, <1>7, <1>1 DEF Waits
<1> HIDE DEF p
<1> QED  BY <1>4, <1>6, <1>7, <1>8, <1>9 DEF Moved

\* Nothing at all is such a change, and two in a row are one.
LEMMA MovesChain ==
    ASSUME NEW s \in State, NEW c \in Conns, NEW ch \in Channels
    PROVE  /\ Moved(s, s, c, ch)
           /\ \A t, u : Moved(s, t, c, ch) /\ Moved(t, u, c, ch) => Moved(s, u, c, ch)
<1>1. s.queues[ch] \in Int  BY DEF State
<1>2. \A p : Waits(p, ch) \in Int  BY DEF Waits
<1>3. Moved(s, s, c, ch)
  <2>1. s.queues[ch] = s.queues[ch] + Waits(s.conn[c], ch) - Waits(s.conn[c], ch)  BY <1>1, <1>2
  <2> QED  BY <2>1 DEF Moved
<1>4. ASSUME NEW t, NEW u, Moved(s, t, c, ch), Moved(t, u, c, ch)
      PROVE  Moved(s, u, c, ch)
  <2>1. /\ t.queues[ch] = s.queues[ch] + Waits(t.conn[c], ch) - Waits(s.conn[c], ch)
        /\ u.queues[ch] = t.queues[ch] + Waits(u.conn[c], ch) - Waits(t.conn[c], ch)
    BY <1>4 DEF Moved
  <2>2. Waits(s.conn[c], ch) \in Int /\ Waits(t.conn[c], ch) \in Int /\ Waits(u.conn[c], ch) \in Int
    BY <1>2
  <2>3. u.queues[ch] = s.queues[ch] + Waits(u.conn[c], ch) - Waits(s.conn[c], ch)
    BY <2>1, <2>2, <1>1
  <2> QED  BY <1>4, <2>3 DEF Moved
<1> QED  BY <1>3, <1>4

\* SetDisk and ClearDisk change the flag of one channel and the count with it.
LEMMA DiskMoves ==
    ASSUME NEW s \in State, NEW c \in Conns, NEW ch \in Channels
    PROVE  /\ Moved(s, SetDisk(s, c, ch), c, ch)
           /\ SetDisk(s, c, ch).conn[c].flags[ch] = s.conn[c].flags[ch] \cup {"disk"}
           /\ SetDisk(s, c, ch).conn[c].quota[ch] = s.conn[c].quota[ch]
           /\ Moved(s, ClearDisk(s, c, ch), c, ch)
           /\ ClearDisk(s, c, ch).conn[c].flags[ch] = s.conn[c].flags[ch] \ {"disk"}
           /\ ClearDisk(s, c, ch).conn[c].quota[ch] = s.conn[c].quota[ch]
<1>1. s.conn \in [Conns -> ConnState] /\ s.queues \in [Channels -> Int]  BY DEF State
<1>2. s.conn[c] \in ConnState  BY <1>1
<1>3. s.conn[c].flags \in [Channels -> SUBSET Flags]  BY <1>2 DEF ConnState
<1>4. ASSUME NEW F \in SUBSET Flags, NEW k \in Int, NEW t,
             t = WithDisk(s, c, ch, F, k),
             k = s.queues[ch] + (IF "disk" \in F THEN 1 ELSE 0) - Waits(s.conn[c], ch)
      PROVE  /\ Moved(s, t, c, ch)
             /\ t.conn[c].flags[ch] = F
             /\ t.conn[c].quota[ch] = s.conn[c].quota[ch]
  <2> DEFINE p == [s.conn[c] EXCEPT !.flags[ch] = F]
  <2>4. /\ p \in ConnState /\ p.flags = [s.conn[c].flags EXCEPT ![ch] = F]
        /\ p.quota = s.conn[c].quota /\ p.state = s.conn[c].state /\ p.buffer = s.conn[c].buffer
        /\ p.reading = s.conn[c].reading /\ p.outstanding = s.conn[c].outstanding
    BY <1>2, <1>3 DEF ConnState
  <2>5. t = [s EXCEPT !.conn = [s.conn EXCEPT ![c] = p], !.queues = [s.queues EXCEPT ![ch] = k]]
    BY <1>4 DEF WithDisk
  <2>6. /\ t \in State /\ t.conn = [s.conn EXCEPT ![c] = p]
        /\ t.queues = [s.queues EXCEPT ![ch] = k]
    BY <1>1, <2>4, <2>5 DEF State
  <2>7. t.conn[c] = p /\ \A d \in Conns \ {c} : t.conn[d] = s.conn[d]  BY <2>6, <1>1
  <2>8. /\ t.conn[c].flags[ch] = F
        /\ \A f \in Channels \ {ch} : t.conn[c].flags[f] = s.conn[c].flags[f]
    <3>1. t.conn[c].flags = [s.conn[c].flags EXCEPT ![ch] = F]  BY <2>7, <2>4
    <3> QED  BY <3>1, <1>3
  <2>9. t.queues[ch] = k /\ \A f \in Channels \ {ch} : t.queues[f] = s.queues[f]  BY <2>6, <1>1
  <2>10. t.queues[ch] = s.queues[ch] + Waits(t.conn[c], ch) - Waits(s.conn[c], ch)
    BY <2>8, <2>9, <1>4 DEF Waits
  <2> HIDE DEF p
  <2> QED  BY <2>4, <2>6, <2>7, <2>8, <2>9, <2>10 DEF Moved
<1>5. s.conn[c].flags[ch] \in SUBSET Flags /\ s.queues[ch] \in Int  BY <1>1, <1>3
<1>6. Moved(s, s, c, ch)  BY MovesChain
<1>7. /\ Moved(s, SetDisk(s, c, ch), c, ch)
      /\ SetDisk(s, c, ch).conn[c].flags[ch] = s.conn[c].flags[ch] \cup {"disk"}
      /\ SetDisk(s, c, ch).conn[c].quota[ch] = s.conn[c].quota[ch]
  <2>1. CASE "disk" \in s.conn[c].flags[ch]
    <3>1. SetDisk(s, c, ch) = s  BY <2>1 DEF SetDisk
    <3>2. s.conn[c].flags[ch] \cup {"disk"} = s.conn[c].flags[ch]  BY <2>1
    <3> QED  BY <3>1, <3>2, <1>6
  <2>2. CASE "disk" \notin s.conn[c].flags[ch]
    <3> DEFINE F == s.conn[c].flags[ch] \cup {"disk"}
    <3>1. F \in SUBSET Flags /\ "disk" \in F  BY <1>5 DEF Flags
    <3>2. SetDisk(s, c, ch) = WithDisk(s, c, ch, F, s.queues[ch] + 1)
      BY <2>2 DEF SetDisk, WithDisk
    <3>3. s.queues[ch] + 1 \in Int
          /\ s.queues[ch] + 1 = s.queues[ch] + (IF "disk" \in F THEN 1 ELSE 0) - Waits(s.conn[c], ch)
      BY <3>1, <2>2, <1>5 DEF Waits
    <3> HIDE DEF F
    <3>4. /\ Moved(s, SetDisk(s, c, ch), c, ch) /\ SetDisk(s, c, ch).conn[c].flags[ch] = F
          /\ SetDisk(s, c, ch).conn[c].quota[ch] = s.conn[c].quota[ch]
      BY <1>4, <3>1, <3>2, <3>3
    <3> QED  BY <3>4 DEF F
  <2> QED  BY <2>1, <2>2
<1>8. /\ Moved(s, ClearDisk(s, c, ch), c, ch)
      /\ ClearDisk(s, c, ch).conn[c].flags[ch] = s.conn[c].flags[ch] \ {"disk"}
      /\ ClearDisk(s, c, ch).conn[c].quota[ch] = s.conn[c].quota[ch]
  <2>1. CASE "disk" \notin s.conn[c].flags[ch]
    <3>1. ClearDisk(s, c, ch) = s  BY <2>1 DEF ClearDisk
    <3>2. s.conn[c].flags[ch] \ {"disk"} = s.conn[c].flags[ch]  BY <2>1
    <3> QED  BY <3>1, <3>2, <1>6
  <2>2. CASE "disk" \in s.conn[c].flags[ch]
    <3> DEFINE F == s.conn[c].flags[ch] \ {"disk"}
    <3>1. F \in SUBSET Flags /\ "disk" \notin F  BY <1>5 DEF Flags
    <3>2. ClearDisk(s, c, ch) = WithDisk(s, c, ch, F, s.queues[ch] - 1)
      BY <2>2 DEF ClearDisk, WithDisk
    <3>3. s.queues[ch] - 1 \in Int
          /\ s.queues[ch] - 1 = s.queues[ch] + (IF "disk" \in F THEN 1 ELSE 0) - Waits(s.conn[c], ch)
      BY <3>1, <2>2, <1>5 DEF Waits
    <3> HIDE DEF F
    <3>4. /\ Moved(s, ClearDisk(s, c, ch), c, ch) /\ ClearDisk(s, c, ch).conn[c].flags[ch] = F
          /\ ClearDisk(s, c, ch).conn[c].quota[ch] = s.conn[c].quota[ch]
      BY <1>4, <3>1, <3>2, <3>3
    <3> QED  BY <3>4 DEF F
  <2> QED  BY <2>1, <2>2
<1> QED  BY <1>7, <1>8

\* The quota a channel has is not overdrawn, and it waits for quota only when it
\* has none, and then for nothing else of the two.
Fine(p) ==
    \A ch \in Channels :
        /\ p.quota[ch] >= 0
        /\ ~({"network", "limit"} \subseteq p.flags[ch])
        /\ "limit" \in p.flags[ch] => p.quota[ch] = 0

\* Quota leaves the channel with quota or waiting for it, if it is wanted at all.
LEMMA QuotaRight ==
    ASSUME NEW s \in State, NEW c \in Conns, NEW ch \in Channels, NEW wants \in BOOLEAN,
           NEW g \in Grants, Fine(s.conn[c]), s.conn[c].flags[ch] \cap {"network", "limit"} = {}
    PROVE  LET t == Quota(s, c, ch, wants, g)
           IN  /\ Moved(s, t, c, ch)
               /\ Fine(t.conn[c])
               /\ "network" \notin t.conn[c].flags[ch]
               /\ "disk" \in t.conn[c].flags[ch] <=> "disk" \in s.conn[c].flags[ch]
               /\ wants /\ s.conn[c].state = "up" =>
                     "limit" \in t.conn[c].flags[ch] \/ t.conn[c].quota[ch] > 0
<1> DEFINE t == Quota(s, c, ch, wants, g)
<1>0. s.conn[c].flags \in [Channels -> SUBSET Flags] /\ s.conn[c].quota \in [Channels -> Int]
  BY DEF State, ConnState
<1>1. s.conn[c].flags[ch] \in SUBSET Flags /\ s.conn[c].quota[ch] \in Int  BY <1>0
<1>2. g \in Int /\ g >= 0  BY BoundsAssumption DEF Grants
<1>3. CASE ~(s.conn[c].quota[ch] = 0 /\ wants /\ s.conn[c].state = "up")
  <2>1. t = s  BY <1>3 DEF Quota
  <2>2. Moved(s, s, c, ch)  BY MovesChain
  <2>3. s.conn[c].quota[ch] >= 0  BY DEF Fine
  <2>4. wants /\ s.conn[c].state = "up" => s.conn[c].quota[ch] > 0  BY <2>3, <1>3, <1>1
  <2> HIDE DEF t
  <2>5. /\ Moved(s, t, c, ch) /\ Fine(t.conn[c]) /\ "network" \notin t.conn[c].flags[ch]
        /\ "disk" \in t.conn[c].flags[ch] <=> "disk" \in s.conn[c].flags[ch]
        /\ wants /\ s.conn[c].state = "up" => t.conn[c].quota[ch] > 0
    BY <2>1, <2>2, <2>4
  <2> QED  BY <2>5 DEF t
<1>4. CASE s.conn[c].quota[ch] = 0 /\ wants /\ s.conn[c].state = "up" /\ g = 0
  <2> DEFINE F == s.conn[c].flags[ch] \cup {"limit"}
  <2>1. t = WithFlags(s, c, ch, F)  BY <1>4 DEF Quota, WithFlags
  <2>2. /\ F \in SUBSET Flags /\ ("disk" \in F <=> "disk" \in s.conn[c].flags[ch])
        /\ "network" \notin F /\ "limit" \in F
    BY <1>1 DEF Flags
  <2> HIDE DEF t, F
  <2>3. Moved(s, t, c, ch) /\ t.conn[c].flags[ch] = F /\ t.conn[c].quota[ch] = s.conn[c].quota[ch]
    BY <2>1, <2>2, FlagsMove
  <2>4. Fine(t.conn[c])
    <3>1. \A f \in Channels \ {ch} : t.conn[c].flags[f] = s.conn[c].flags[f]
                                     /\ t.conn[c].quota[f] = s.conn[c].quota[f]
      BY <2>3 DEF Moved
    <3>2. t.conn[c].quota[ch] = 0 /\ "network" \notin t.conn[c].flags[ch]  BY <2>3, <2>2, <1>4
    <3>3. ASSUME NEW f \in Channels
          PROVE  /\ t.conn[c].quota[f] >= 0 /\ ~({"network", "limit"} \subseteq t.conn[c].flags[f])
                 /\ "limit" \in t.conn[c].flags[f] => t.conn[c].quota[f] = 0
      <4>1. CASE f = ch  BY <4>1, <3>2
      <4>2. CASE f # ch  BY <4>2, <3>1 DEF Fine
      <4> QED  BY <4>1, <4>2
    <3> QED  BY <3>3 DEF Fine
  <2>5. /\ Moved(s, t, c, ch) /\ Fine(t.conn[c]) /\ "network" \notin t.conn[c].flags[ch]
        /\ "disk" \in t.conn[c].flags[ch] <=> "disk" \in s.conn[c].flags[ch]
        /\ "limit" \in t.conn[c].flags[ch]
    BY <2>2, <2>3, <2>4
  <2> QED  BY <2>5 DEF t
<1>5. CASE s.conn[c].quota[ch] = 0 /\ wants /\ s.conn[c].state = "up" /\ g # 0
  <2>1. t = WithQuota(s, c, ch, g)  BY <1>5 DEF Quota, WithQuota
  <2> HIDE DEF t
  <2>3. Moved(s, t, c, ch) /\ t.conn[c].flags[ch] = s.conn[c].flags[ch] /\ t.conn[c].quota[ch] = g
    BY <2>1, <1>2, QuotaMoves
  <2>4. Fine(t.conn[c])
    <3>1. \A f \in Channels \ {ch} : t.conn[c].flags[f] = s.conn[c].flags[f]
                                     /\ t.conn[c].quota[f] = s.conn[c].quota[f]
      BY <2>3 DEF Moved
    <3>2. t.conn[c].quota[ch] >= 0 /\ "network" \notin t.conn[c].flags[ch]
          /\ "limit" \notin t.conn[c].flags[ch]
      BY <2>3, <1>2
    <3>3. ASSUME NEW f \in Channels
          PROVE  /\ t.conn[c].quota[f] >= 0 /\ ~({"network", "limit"} \subseteq t.conn[c].flags[f])
                 /\ "limit" \in t.conn[c].flags[f] => t.conn[c].quota[f] = 0
      <4>1. CASE f = ch  BY <4>1, <3>2
      <4>2. CASE f # ch  BY <4>2, <3>1 DEF Fine
      <4> QED  BY <4>1, <4>2
    <3> QED  BY <3>3 DEF Fine
  <2>5. /\ Moved(s, t, c, ch) /\ Fine(t.conn[c]) /\ "network" \notin t.conn[c].flags[ch]
        /\ "disk" \in t.conn[c].flags[ch] <=> "disk" \in s.conn[c].flags[ch]
        /\ t.conn[c].quota[ch] > 0
    BY <2>3, <2>4, <1>2, <1>5
  <2> QED  BY <2>5 DEF t
<1> QED  BY <1>3, <1>4, <1>5

\* Fine is about the flags and the quota only.
LEMMA FineSame ==
    ASSUME NEW p, NEW q, NEW ch \in Channels, Fine(p),
           \A f \in Channels \ {ch} : q.flags[f] = p.flags[f] /\ q.quota[f] = p.quota[f],
           q.quota[ch] >= 0, ~({"network", "limit"} \subseteq q.flags[ch]),
           "limit" \in q.flags[ch] => q.quota[ch] = 0
    PROVE  Fine(q)
<1> SUFFICES ASSUME NEW f \in Channels
             PROVE  /\ q.quota[f] >= 0 /\ ~({"network", "limit"} \subseteq q.flags[f])
                    /\ "limit" \in q.flags[f] => q.quota[f] = 0
  BY DEF Fine
<1>1. CASE f = ch  BY <1>1
<1>2. CASE f # ch  BY <1>2 DEF Fine
<1> QED  BY <1>1, <1>2

\* setup_send leaves a connection that has something to send, and is up, with a
\* wait for the socket or for quota.
LEMMA SendRight ==
    ASSUME NEW s \in State, NEW c \in Conns, NEW g \in Grants, Fine(s.conn[c])
    PROVE  LET t == SetupSend(s, c, g)
           IN  /\ Moved(s, t, c, "up")
               /\ Fine(t.conn[c])
               /\ s.conn[c].state = "up" /\ s.conn[c].buffer > 0 =>
                     t.conn[c].flags["up"] \cap {"network", "limit"} # {}
<1> DEFINE r == SetupSend(s, c, g)
           Good(x) == /\ Moved(s, x, c, "up")
                      /\ Fine(x.conn[c])
                      /\ s.conn[c].state = "up" /\ s.conn[c].buffer > 0 =>
                            x.conn[c].flags["up"] \cap {"network", "limit"} # {}
<1>0. "up" \in Channels  BY DEF Channels
<1>1. CASE Busy(s, c, "up")
  <2>1. r = s  BY <1>1 DEF SetupSend
  <2>2. Moved(s, s, c, "up")  BY <1>0, MovesChain
  <2>3. s.conn[c].state = "up" => s.conn[c].flags["up"] \cap {"network", "limit"} # {}
    BY <1>1 DEF Busy
  <2> QED  BY <2>1, <2>2, <2>3
<1>2. CASE ~Busy(s, c, "up")
  <2> DEFINE wants == s.conn[c].buffer > 0
             t == Quota(s, c, "up", wants, g)
             p == t.conn[c]
             v == SetDisk(t, c, "up")
             w == ClearDisk(t, c, "up")
             u == IF p.buffer = 0 /\ p.reading > 0 /\ p.quota["up"] > 0 THEN v ELSE w
             n == WithFlags(u, c, "up", u.conn[c].flags["up"] \cup {"network"})
             canWrite == p.buffer > 0 /\ p.quota["up"] > 0 /\ p.state = "up"
  <2>1. s.conn[c].flags["up"] \cap {"network", "limit"} = {}  BY <1>2, SMTT(60) DEF Busy
  <2>2. r = IF "limit" \in p.flags["up"] THEN t ELSE IF canWrite THEN n ELSE u
    BY <1>2 DEF SetupSend, WithFlags
  <2>3. wants \in BOOLEAN  OBVIOUS
  <2>4. /\ Moved(s, t, c, "up") /\ Fine(p) /\ "network" \notin p.flags["up"]
        /\ (wants /\ s.conn[c].state = "up" => "limit" \in p.flags["up"] \/ p.quota["up"] > 0)
    <3> HIDE DEF wants
    <3> QED  BY <1>0, <2>1, <2>3, QuotaRight, SMTT(60)
  <2>5. /\ t \in State /\ p.buffer = s.conn[c].buffer /\ p.state = s.conn[c].state
    BY <2>4 DEF Moved
  <2>6. CASE "limit" \in p.flags["up"]
    <3>1. r = t  BY <2>2, <2>6
    <3>2. t.conn[c].flags["up"] \cap {"network", "limit"} # {}  BY <2>6
    <3> HIDE DEF t, r
    <3>3. Good(r)  BY <3>1, <3>2, <2>4
    <3> QED  BY <3>3, ZenonT(60) DEF r
  <2>7. CASE "limit" \notin p.flags["up"]
    <3> HIDE DEF t
    <3>1. /\ Moved(t, v, c, "up") /\ v.conn[c].flags["up"] = p.flags["up"] \cup {"disk"}
          /\ v.conn[c].quota["up"] = p.quota["up"]
          /\ Moved(t, w, c, "up") /\ w.conn[c].flags["up"] = p.flags["up"] \ {"disk"}
          /\ w.conn[c].quota["up"] = p.quota["up"]
      BY <1>0, <2>5, DiskMoves
    <3>2. /\ Moved(t, u, c, "up") /\ u.conn[c].quota["up"] = p.quota["up"]
          /\ "limit" \notin u.conn[c].flags["up"] /\ "network" \notin u.conn[c].flags["up"]
      <4> HIDE DEF v, w, p
      <4>1. CASE u = v  BY <4>1, <3>1, <2>7, <2>4
      <4>2. CASE u = w  BY <4>2, <3>1, <2>7, <2>4
      <4> QED  BY <4>1, <4>2
    <3> HIDE DEF u
    <3>3. u \in State /\ u.conn[c] \in ConnState /\ u.conn[c].flags["up"] \in SUBSET Flags
      <4>1. u \in State  BY <3>2 DEF Moved
      <4>2. u.conn[c] \in ConnState  BY <4>1 DEF State
      <4>3. u.conn[c].flags \in [Channels -> SUBSET Flags]  BY <4>2 DEF ConnState
      <4> QED  BY <4>1, <4>2, <4>3, <1>0
    <3>4. Moved(s, u, c, "up")  BY <1>0, <2>4, <3>2, MovesChain
    <3>5. p.quota["up"] >= 0  BY <2>4, <1>0 DEF Fine
    <3>6. Fine(u.conn[c])
      <4>1. \A f \in Channels \ {"up"} : u.conn[c].flags[f] = p.flags[f] /\ u.conn[c].quota[f] = p.quota[f]
        BY <3>2 DEF Moved
      <4>2. u.conn[c].quota["up"] >= 0  BY <3>2, <3>5
      <4> HIDE DEF p
      <4> QED  BY <4>1, <4>2, <3>2, <2>4, <1>0, FineSame
    <3>7. CASE canWrite
      <4> DEFINE F == u.conn[c].flags["up"] \cup {"network"}
      <4>1. r = n  BY <2>2, <2>7, <3>7
      <4>2. F \in SUBSET Flags /\ ("disk" \in F <=> "disk" \in u.conn[c].flags["up"])
            /\ "network" \in F /\ "limit" \notin F
        BY <3>3, <3>2 DEF Flags
      <4>3. n = WithFlags(u, c, "up", F)  OBVIOUS
      <4> HIDE DEF F, n, r
      <4>4. Moved(u, n, c, "up") /\ n.conn[c].flags["up"] = F
            /\ n.conn[c].quota["up"] = u.conn[c].quota["up"]
        BY <4>2, <4>3, <3>3, <1>0, FlagsMove
      <4>5. Moved(s, n, c, "up")  BY <4>4, <3>4, <1>0, MovesChain
      <4>6. Fine(n.conn[c])
        <5>1. \A f \in Channels \ {"up"} : n.conn[c].flags[f] = u.conn[c].flags[f]
                                           /\ n.conn[c].quota[f] = u.conn[c].quota[f]
          BY <4>4 DEF Moved
        <5>2. n.conn[c].quota["up"] >= 0  BY <4>4, <3>2, <3>5
        <5>3. "limit" \notin n.conn[c].flags["up"]  BY <4>2, <4>4
        <5> QED  BY <5>1, <5>2, <5>3, <3>6, <1>0, FineSame
      <4>7. n.conn[c].flags["up"] \cap {"network", "limit"} # {}  BY <4>2, <4>4
      <4>8. Good(r)  BY <4>1, <4>5, <4>6, <4>7
      <4> QED  BY <4>8 DEF r
    <3>8. CASE ~canWrite
      <4>1. r = u  BY <2>2, <2>7, <3>8
      <4>2. ~(s.conn[c].state = "up" /\ s.conn[c].buffer > 0)  BY <2>4, <2>5, <2>7, <3>8
      <4> HIDE DEF r
      <4>3. Good(r)  BY <4>1, <4>2, <3>4, <3>6
      <4> QED  BY <4>3 DEF r
    <3> QED  BY <3>7, <3>8
  <2> QED  BY <2>6, <2>7
<1> QED  BY <1>1, <1>2

\* setup_receive leaves a connection that is up with a wait for the socket or for
\* quota, or for the disk if the disk holds connections back.
LEMMA ReceiveRight ==
    ASSUME NEW s \in State, NEW c \in Conns, NEW g \in Grants, Fine(s.conn[c])
    PROVE  LET t == SetupReceive(s, c, g)
           IN  /\ Moved(s, t, c, "down")
               /\ Fine(t.conn[c])
               /\ s.conn[c].state = "up" =>
                     \/ t.conn[c].flags["down"] \cap {"network", "limit"} # {}
                     \/ "disk" \in t.conn[c].flags["down"] /\ gate'.exceeded
               /\ ~gate'.exceeded /\ "disk" \notin s.conn[c].flags["down"] =>
                     "disk" \notin t.conn[c].flags["down"]
<1> DEFINE r == SetupReceive(s, c, g)
           Good(x) == /\ Moved(s, x, c, "down")
                      /\ Fine(x.conn[c])
                      /\ s.conn[c].state = "up" =>
                            \/ x.conn[c].flags["down"] \cap {"network", "limit"} # {}
                            \/ "disk" \in x.conn[c].flags["down"] /\ gate'.exceeded
                      /\ ~gate'.exceeded /\ "disk" \notin s.conn[c].flags["down"] =>
                            "disk" \notin x.conn[c].flags["down"]
<1>0. "down" \in Channels  BY DEF Channels
<1>1. CASE Busy(s, c, "down")
  <2>1. r = s  BY <1>1 DEF SetupReceive
  <2>2. Moved(s, s, c, "down")  BY <1>0, MovesChain
  <2>3. s.conn[c].state = "up" => s.conn[c].flags["down"] \cap {"network", "limit"} # {}
    BY <1>1 DEF Busy
  <2> HIDE DEF r
  <2>4. Good(r)  BY <2>1, <2>2, <2>3
  <2> QED  BY <2>4 DEF r
<1>2. CASE ~Busy(s, c, "down")
  <2> DEFINE t == Quota(s, c, "down", TRUE, g)
             p == t.conn[c]
             v == SetDisk(t, c, "down")
             n == WithFlags(t, c, "down", p.flags["down"] \cup {"network"})
  <2>1. s.conn[c].flags["down"] \cap {"network", "limit"} = {}  BY <1>2 DEF Busy
  <2>2. r = IF "limit" \in p.flags["down"] \/ p.quota["down"] = 0 THEN t
            ELSE IF ~DiskAllows(t, c) THEN v ELSE IF p.state # "up" THEN t ELSE n
    BY <1>2 DEF SetupReceive, WithFlags
  <2>4. /\ Moved(s, t, c, "down") /\ Fine(p) /\ "network" \notin p.flags["down"]
        /\ ("disk" \in p.flags["down"] <=> "disk" \in s.conn[c].flags["down"])
        /\ (s.conn[c].state = "up" => "limit" \in p.flags["down"] \/ p.quota["down"] > 0)
    BY <1>0, <2>1, QuotaRight
  <2>5. t \in State /\ p.state = s.conn[c].state  BY <2>4 DEF Moved
  <2>6. p \in ConnState /\ p.flags["down"] \in SUBSET Flags
    <3>1. p \in ConnState  BY <2>5 DEF State
    <3>2. p.flags \in [Channels -> SUBSET Flags]  BY <3>1 DEF ConnState
    <3> QED  BY <3>1, <3>2, <1>0
  <2>7. p.quota["down"] >= 0  BY <2>4, <1>0 DEF Fine
  <2>8. CASE "limit" \in p.flags["down"] \/ p.quota["down"] = 0
    <3>1. r = t  BY <2>2, <2>8
    <3>2. s.conn[c].state = "up" => "limit" \in p.flags["down"]
      <4> HIDE DEF p
      <4> QED  BY <2>8, <2>4
    <3>3. s.conn[c].state = "up" => t.conn[c].flags["down"] \cap {"network", "limit"} # {}
      BY <3>2
    <3> HIDE DEF t, r
    <3>4. Good(r)  BY <3>1, <3>3, <2>4
    <3> QED  BY <3>4 DEF r
  <2>9. CASE ~("limit" \in p.flags["down"] \/ p.quota["down"] = 0) /\ ~DiskAllows(t, c)
    <3>1. r = v  BY <2>2, <2>9
    <3>2. gate'.exceeded  BY <2>9 DEF DiskAllows
    <3> HIDE DEF t
    <3>3. /\ Moved(t, v, c, "down") /\ v.conn[c].flags["down"] = p.flags["down"] \cup {"disk"}
          /\ v.conn[c].quota["down"] = p.quota["down"]
      BY <1>0, <2>5, DiskMoves
    <3> HIDE DEF v
    <3>4. Moved(s, v, c, "down")  BY <1>0, <2>4, <3>3, MovesChain
    <3>5. Fine(v.conn[c])
      <4>1. \A f \in Channels \ {"down"} : v.conn[c].flags[f] = p.flags[f]
                                           /\ v.conn[c].quota[f] = p.quota[f]
        BY <3>3 DEF Moved
      <4>2. v.conn[c].quota["down"] >= 0  BY <3>3, <2>7
      <4>3. "limit" \notin v.conn[c].flags["down"]  BY <3>3, <2>9
      <4> HIDE DEF p
      <4> QED  BY <4>1, <4>2, <4>3, <2>4, <1>0, FineSame
    <3>6. "disk" \in v.conn[c].flags["down"]  BY <3>3
    <3> HIDE DEF r
    <3>7. Good(r)  BY <3>1, <3>2, <3>4, <3>5, <3>6
    <3> QED  BY <3>7 DEF r
  <2>10. CASE /\ ~("limit" \in p.flags["down"] \/ p.quota["down"] = 0) /\ DiskAllows(t, c)
              /\ p.state # "up"
    <3>1. r = t  BY <2>2, <2>10
    <3>2. s.conn[c].state # "up"  BY <2>5, <2>10
    <3> HIDE DEF t, r
    <3>3. Good(r)  BY <3>1, <3>2, <2>4
    <3> QED  BY <3>3 DEF r
  <2>11. CASE /\ ~("limit" \in p.flags["down"] \/ p.quota["down"] = 0) /\ DiskAllows(t, c)
              /\ p.state = "up"
    <3> DEFINE F == p.flags["down"] \cup {"network"}
    <3>1. r = n  BY <2>2, <2>11
    <3>2. F \in SUBSET Flags /\ ("disk" \in F <=> "disk" \in p.flags["down"])
          /\ "network" \in F /\ "limit" \notin F
      BY <2>6, <2>11 DEF Flags
    <3>3. n = WithFlags(t, c, "down", F)  OBVIOUS
    <3> HIDE DEF F, n, r, t
    <3>4. Moved(t, n, c, "down") /\ n.conn[c].flags["down"] = F
          /\ n.conn[c].quota["down"] = p.quota["down"]
      BY <3>2, <3>3, <2>5, <1>0, FlagsMove
    <3>5. Moved(s, n, c, "down")  BY <3>4, <2>4, <1>0, MovesChain
    <3>6. Fine(n.conn[c])
      <4>1. \A f \in Channels \ {"down"} : n.conn[c].flags[f] = p.flags[f]
                                           /\ n.conn[c].quota[f] = p.quota[f]
        BY <3>4 DEF Moved
      <4>2. n.conn[c].quota["down"] >= 0  BY <3>4, <2>7
      <4>3. "limit" \notin n.conn[c].flags["down"]  BY <3>2, <3>4
      <4> HIDE DEF p
      <4> QED  BY <4>1, <4>2, <4>3, <2>4, <1>0, FineSame
    <3>7. n.conn[c].flags["down"] \cap {"network", "limit"} # {}  BY <3>2, <3>4
    <3>8. "disk" \in n.conn[c].flags["down"] <=> "disk" \in s.conn[c].flags["down"]
      BY <3>2, <3>4, <2>4
    <3>9. Good(r)  BY <3>1, <3>5, <3>6, <3>7, <3>8
    <3> QED  BY <3>9 DEF r
  <2> QED  BY <2>8, <2>9, <2>10, <2>11
<1> QED  BY <1>1, <1>2

-----------------------------------------------------------------------------
(* The session. *)

\* The count of the session is the number of connections that wait for the disk.
Counted(s) ==
    \A ch \in Channels : s.queues[ch] = Cardinality({c \in Conns : "disk" \in s.conn[c].flags[ch]})

\* A step of one connection that adjusts the count keeps it right.
LEMMA CountKept ==
    ASSUME NEW s \in State, NEW t \in State, NEW c \in Conns, Counted(s),
           \A d \in Conns \ {c} : t.conn[d].flags = s.conn[d].flags,
           \A ch \in Channels :
              t.queues[ch] = s.queues[ch] + Waits(t.conn[c], ch) - Waits(s.conn[c], ch)
    PROVE  Counted(t)
<1> SUFFICES ASSUME NEW ch \in Channels
             PROVE  t.queues[ch] = Cardinality({d \in Conns : "disk" \in t.conn[d].flags[ch]})
  BY DEF Counted
<1> DEFINE A == {d \in Conns : "disk" \in s.conn[d].flags[ch]}
           B == {d \in Conns : "disk" \in t.conn[d].flags[ch]}
<1>1. IsFiniteSet(A) /\ Cardinality(A) \in Nat /\ s.queues[ch] = Cardinality(A)
  <2>1. A \in SUBSET Conns  OBVIOUS
  <2> QED  BY <2>1, ConnsAssumption, FS_Subset, FS_CardinalityType DEF Counted
<1>2. \A d \in Conns \ {c} : d \in A <=> d \in B  OBVIOUS
<1>3. CASE "disk" \in s.conn[c].flags[ch] <=> "disk" \in t.conn[c].flags[ch]
  <2>1. A = B  BY <1>2, <1>3
  <2>2. t.queues[ch] = s.queues[ch]  BY <1>1, <1>3 DEF Waits
  <2> QED  BY <2>1, <2>2, <1>1
<1>4. CASE "disk" \notin s.conn[c].flags[ch] /\ "disk" \in t.conn[c].flags[ch]
  <2>1. B = A \cup {c} /\ c \notin A  BY <1>2, <1>4
  <2>2. t.queues[ch] = s.queues[ch] + 1  BY <1>1, <1>4 DEF Waits
  <2> HIDE DEF A, B
  <2>3. Cardinality(B) = Cardinality(A) + 1  BY <2>1, <1>1, FS_AddElement
  <2> QED  BY <2>2, <2>3, <1>1 DEF B
<1>5. CASE "disk" \in s.conn[c].flags[ch] /\ "disk" \notin t.conn[c].flags[ch]
  <2>1. B = A \ {c} /\ c \in A  BY <1>2, <1>5
  <2>2. t.queues[ch] = s.queues[ch] - 1  BY <1>1, <1>5 DEF Waits
  <2> HIDE DEF A, B
  <2>3. Cardinality(B) = Cardinality(A) - 1  BY <2>1, <1>1, FS_RemoveElement
  <2> QED  BY <2>2, <2>3, <1>1 DEF B
<1> QED  BY <1>3, <1>4, <1>5

\* A change of one channel does so.
LEMMA CountMoves ==
    ASSUME NEW s \in State, NEW t, NEW c \in Conns, NEW ch \in Channels, Counted(s), Moved(s, t, c, ch)
    PROVE  t \in State /\ Counted(t)
<1>1. t \in State  BY DEF Moved
<1>2. \A d \in Conns \ {c} : t.conn[d].flags = s.conn[d].flags  BY DEF Moved
<1>3. ASSUME NEW f \in Channels
      PROVE  t.queues[f] = s.queues[f] + Waits(t.conn[c], f) - Waits(s.conn[c], f)
  <2>1. CASE f = ch  BY <2>1 DEF Moved
  <2>2. CASE f # ch
    <3>1. t.queues[f] = s.queues[f] /\ t.conn[c].flags[f] = s.conn[c].flags[f]  BY <2>2 DEF Moved
    <3>2. Waits(t.conn[c], f) = Waits(s.conn[c], f) /\ Waits(s.conn[c], f) \in Int
      BY <3>1 DEF Waits
    <3>3. s.queues[f] \in Int  BY DEF State
    <3> QED  BY <3>1, <3>2, <3>3
  <2> QED  BY <2>1, <2>2
<1> QED  BY <1>1, <1>2, <1>3, CountKept

\* A connection that is up and has something to send waits for the socket or for
\* quota; any connection that is up waits to receive, for the disk only while
\* that is to tell (told).  What has not started is as it was made.
UpRight(p) ==
    p.state = "up" /\ p.buffer > 0 => p.flags["up"] \cap {"network", "limit"} # {}
DownRight(p, told) ==
    p.state = "up" => \/ p.flags["down"] \cap {"network", "limit"} # {}
                      \/ "disk" \in p.flags["down"] /\ told
ConnRight(p, told) == Fine(p) /\ UpRight(p) /\ DownRight(p, told) /\ (p.state = "none" => p = Idle)

\* The blocks that wait to be written, one by one.
Units(w) == {x \in Conns \X Nat : x[2] < w[x[1]]}

\* The inductive invariant.
GateRight ==
    /\ gate \in [exceeded : BOOLEAN, posted : Nat, bytes : Int]
    /\ writes \in [Conns -> Nat]
    /\ IsFiniteSet(Units(writes)) /\ gate.bytes = Cardinality(Units(writes))
    /\ gate.exceeded => gate.bytes > 0
Told == gate.exceeded \/ gate.posted > 0
ConnsRight == Now \in State /\ Counted(Now) /\ \A c \in Conns : ConnRight(conn[c], Told)
IOInv == GateRight /\ ConnsRight

\* A connection that has not started yet is right and waits for nothing.
LEMMA IdleState ==
    /\ Idle \in ConnState /\ ConnRight(Idle, FALSE) /\ Idle.reading = 0
    /\ Idle.quota = [ch \in Channels |-> 0] /\ \A ch \in Channels : Idle.flags[ch] = {}
  BY DEF Idle, ConnState, ConnRight, Fine, UpRight, DownRight, Channels

\* A connection may be replaced by one that waits for the disk just as it does.
LEMMA WithRight ==
    ASSUME ConnsRight, NEW c \in Conns, NEW q \in ConnState,
           \A ch \in Channels : "disk" \in q.flags[ch] <=> "disk" \in conn[c].flags[ch]
    PROVE  /\ With(c, q) \in State /\ Counted(With(c, q))
           /\ With(c, q).conn[c] = q
           /\ \A d \in Conns \ {c} : With(c, q).conn[d] = conn[d]
<1> DEFINE t == With(c, q)
<1>1. Now \in State /\ Counted(Now) /\ Now.conn = conn /\ Now.queues = queues
  BY DEF ConnsRight, Now
<1>2. conn \in [Conns -> ConnState] /\ queues \in [Channels -> Int]  BY <1>1 DEF State
<1>3. /\ t \in State /\ t.conn = [conn EXCEPT ![c] = q] /\ t.queues = queues
  BY <1>2 DEF With, State
<1>4. t.conn[c] = q /\ \A d \in Conns \ {c} : t.conn[d] = conn[d]  BY <1>3, <1>2
<1>5. \A d \in Conns \ {c} : t.conn[d].flags = Now.conn[d].flags  BY <1>1, <1>4
<1>6. ASSUME NEW ch \in Channels
      PROVE  t.queues[ch] = Now.queues[ch] + Waits(t.conn[c], ch) - Waits(Now.conn[c], ch)
  <2>1. Waits(t.conn[c], ch) = Waits(Now.conn[c], ch) /\ Waits(t.conn[c], ch) \in Int
    BY <1>4, <1>1 DEF Waits
  <2>2. Now.queues[ch] \in Int /\ t.queues[ch] = Now.queues[ch]  BY <1>1, <1>2, <1>3
  <2> QED  BY <2>1, <2>2
<1>7. Counted(t)
  <2> HIDE DEF t
  <2> QED  BY <1>1, <1>3, <1>5, <1>6, CountKept
<1> QED  BY <1>3, <1>4, <1>7

\* A step that leaves one connection right, the others alone and the count right
\* keeps all connections right, unless the disk forgets them.
LEMMA StepRight ==
    ASSUME ConnsRight, NEW c \in Conns, NEW t \in State, Counted(t), conn' = t.conn, queues' = t.queues,
           \A d \in Conns \ {c} : t.conn[d] = conn[d],
           ConnRight(t.conn[c], Told'), Told => Told'
    PROVE  ConnsRight'
<1>1. Now' = t
  <2>1. t = [conn |-> t.conn, queues |-> t.queues]  BY DEF State
  <2> QED  BY <2>1 DEF Now
<1>2. ASSUME NEW d \in Conns  PROVE ConnRight(conn'[d], Told')
  <2>1. CASE d = c  BY <2>1
  <2>2. CASE d # c
    <3>1. ConnRight(conn[d], Told) /\ conn'[d] = conn[d]  BY <2>2 DEF ConnsRight
    <3>2. ConnRight(conn[d], Told')  BY <3>1 DEF ConnRight, DownRight
    <3> QED  BY <3>1, <3>2
  <2> QED  BY <2>1, <2>2
<1> QED  BY <1>1, <1>2 DEF ConnsRight

\* The channel that did not change is as right as before.
LEMMA OtherChannel ==
    ASSUME NEW s \in State, NEW t, NEW c \in Conns
    PROVE  /\ Moved(s, t, c, "up") => \A told : DownRight(t.conn[c], told) <=> DownRight(s.conn[c], told)
           /\ Moved(s, t, c, "down") => (UpRight(t.conn[c]) <=> UpRight(s.conn[c]))
           /\ Moved(s, t, c, "up") \/ Moved(s, t, c, "down") => t.conn[c].state = s.conn[c].state
  BY DEF Moved, Channels, DownRight, UpRight

\* A step of c has come to s.
Reached(s, c) ==
    /\ s \in State /\ Counted(s)
    /\ \A d \in Conns \ {c} : s.conn[d] = conn[d]
    /\ Fine(s.conn[c]) /\ s.conn[c].state # "none"

\* Such a step may go on with setup_send, which makes the channel "up" right.
LEMMA SendFrom ==
    ASSUME NEW c \in Conns, NEW s, NEW g \in Grants, Reached(s, c)
    PROVE  LET t == SetupSend(s, c, g)
           IN  /\ Reached(t, c) /\ UpRight(t.conn[c])
               /\ \A told : DownRight(t.conn[c], told) <=> DownRight(s.conn[c], told)
<1> DEFINE t == SetupSend(s, c, g)
<1>1. s \in State /\ Counted(s) /\ Fine(s.conn[c]) /\ s.conn[c].state # "none"  BY DEF Reached
<1>2. /\ Moved(s, t, c, "up") /\ Fine(t.conn[c])
      /\ s.conn[c].state = "up" /\ s.conn[c].buffer > 0 =>
            t.conn[c].flags["up"] \cap {"network", "limit"} # {}
  BY <1>1, SendRight
<1> HIDE DEF t
<1>3. t \in State /\ Counted(t)
  <2>1. "up" \in Channels  BY DEF Channels
  <2> QED  BY <2>1, <1>1, <1>2, CountMoves
<1>4. \A d \in Conns \ {c} : t.conn[d] = conn[d]  BY <1>2 DEF Moved, Reached
<1>5. UpRight(t.conn[c])  BY <1>2 DEF UpRight, Moved
<1>6. /\ \A told : DownRight(t.conn[c], told) <=> DownRight(s.conn[c], told)
      /\ t.conn[c].state # "none"
  BY <1>1, <1>2, OtherChannel
<1>7. Reached(t, c)  BY <1>2, <1>3, <1>4, <1>6 DEF Reached
<1> QED  BY <1>5, <1>6, <1>7 DEF t

\* And with setup_receive, which makes the channel "down" right.
LEMMA ReceiveFrom ==
    ASSUME NEW c \in Conns, NEW s, NEW g \in Grants, Reached(s, c)
    PROVE  LET t == SetupReceive(s, c, g)
           IN  /\ Reached(t, c) /\ (UpRight(t.conn[c]) <=> UpRight(s.conn[c]))
               /\ DownRight(t.conn[c], gate'.exceeded)
<1> DEFINE t == SetupReceive(s, c, g)
<1>1. s \in State /\ Counted(s) /\ Fine(s.conn[c]) /\ s.conn[c].state # "none"  BY DEF Reached
<1>2. /\ Moved(s, t, c, "down") /\ Fine(t.conn[c])
      /\ s.conn[c].state = "up" =>
             \/ t.conn[c].flags["down"] \cap {"network", "limit"} # {}
             \/ "disk" \in t.conn[c].flags["down"] /\ gate'.exceeded
  BY <1>1, ReceiveRight
<1> HIDE DEF t
<1>3. t \in State /\ Counted(t)
  <2>1. "down" \in Channels  BY DEF Channels
  <2> QED  BY <2>1, <1>1, <1>2, CountMoves
<1>4. \A d \in Conns \ {c} : t.conn[d] = conn[d]  BY <1>2 DEF Moved, Reached
<1>5. DownRight(t.conn[c], gate'.exceeded)  BY <1>2 DEF DownRight, Moved
<1>6. (UpRight(t.conn[c]) <=> UpRight(s.conn[c])) /\ t.conn[c].state # "none"
  BY <1>1, <1>2, OtherChannel
<1>7. Reached(t, c)  BY <1>2, <1>3, <1>4, <1>6 DEF Reached
<1> QED  BY <1>5, <1>6, <1>7 DEF t

\* A step ends well where c is right.
LEMMA ReachedRight ==
    ASSUME ConnsRight, NEW c \in Conns, NEW t, Reached(t, c), UpRight(t.conn[c]),
           DownRight(t.conn[c], Told'), Become(t), Told => Told'
    PROVE  ConnsRight'
<1>1. ConnRight(t.conn[c], Told')  BY DEF Reached, ConnRight
<1>2. conn' = t.conn /\ queues' = t.queues  BY DEF Become
<1> QED  BY <1>1, <1>2, StepRight DEF Reached

\* disconnect clears what waits for the disk.
LEMMA ClosedRight ==
    ASSUME NEW c \in Conns, NEW s, Reached(s, c)
    PROVE  LET t == Closed(s, c)
           IN  /\ Reached(t, c) /\ UpRight(t.conn[c])
               /\ \A told : DownRight(t.conn[c], told)
<1> DEFINE v == ClearDisk(s, c, "up")
           w == ClearDisk(v, c, "down")
           q == [Idle EXCEPT !.state = "closed", !.reading = w.conn[c].reading,
                             !.flags = w.conn[c].flags]
           t == Closed(s, c)
<1>0. "up" \in Channels /\ "down" \in Channels  BY DEF Channels
<1>1. s \in State /\ Counted(s) /\ Fine(s.conn[c])  BY DEF Reached
<1>2. /\ Moved(s, v, c, "up")
      /\ v.conn[c].flags["up"] = s.conn[c].flags["up"] \ {"disk"}
  BY <1>0, <1>1, DiskMoves
<1>3. t = [w EXCEPT !.conn[c] = q]  BY DEF Closed
<1> HIDE DEF v
<1>4. v \in State /\ Counted(v)  BY <1>0, <1>1, <1>2, CountMoves
<1>5. /\ Moved(v, w, c, "down")
      /\ w.conn[c].flags["down"] = v.conn[c].flags["down"] \ {"disk"}
  BY <1>0, <1>4, DiskMoves
<1> HIDE DEF w
<1>6. w \in State /\ Counted(w)  BY <1>0, <1>4, <1>5, CountMoves
<1>7. w.conn \in [Conns -> ConnState] /\ w.queues \in [Channels -> Int] /\ w.conn[c] \in ConnState
  BY <1>6 DEF State
<1>8. w.conn[c].flags \in [Channels -> SUBSET Flags] /\ w.conn[c].reading \in Int
  BY <1>7 DEF ConnState
<1>9. /\ q \in ConnState /\ q.flags = w.conn[c].flags /\ q.state = "closed"
      /\ q.quota = [ch \in Channels |-> 0]
  BY <1>8, IdleState DEF ConnState
<1> HIDE DEF q, t
<1>10. t \in State /\ t.conn = [w.conn EXCEPT ![c] = q] /\ t.queues = w.queues
  BY <1>3, <1>6, <1>7, <1>9 DEF State
<1>11. t.conn[c] = q /\ \A d \in Conns \ {c} : t.conn[d] = w.conn[d]  BY <1>7, <1>10
<1>12. Counted(t)
  <2>1. \A d \in Conns : t.conn[d].flags = w.conn[d].flags  BY <1>9, <1>11
  <2>2. \A ch \in Channels : {d \in Conns : "disk" \in t.conn[d].flags[ch]}
                              = {d \in Conns : "disk" \in w.conn[d].flags[ch]}
    BY <2>1
  <2> QED  BY <2>2, <1>10, <1>6 DEF Counted
<1>13. \A d \in Conns \ {c} : t.conn[d] = conn[d]  BY <1>2, <1>5, <1>11 DEF Moved, Reached
<1>14. Fine(q)
  <2>1. \A ch \in Channels : w.conn[c].flags[ch] \subseteq s.conn[c].flags[ch]
    BY <1>2, <1>5 DEF Moved, Channels
  <2>2. \A ch \in Channels : ~({"network", "limit"} \subseteq s.conn[c].flags[ch])
    BY <1>1 DEF Fine
  <2>3. \A ch \in Channels : ~({"network", "limit"} \subseteq q.flags[ch])  BY <2>1, <2>2, <1>9
  <2>4. \A ch \in Channels : q.quota[ch] = 0  BY <1>9
  <2>5. \A ch \in Channels : q.quota[ch] >= 0  BY <2>4
  <2> QED  BY <2>3, <2>4, <2>5 DEF Fine
<1>15. Reached(t, c)  BY <1>9, <1>10, <1>11, <1>12, <1>13, <1>14 DEF Reached
<1>16. UpRight(t.conn[c]) /\ \A told : DownRight(t.conn[c], told)
  BY <1>9, <1>11 DEF UpRight, DownRight
<1> QED  BY <1>15, <1>16 DEF t

\* A step may start with c in a state that waits for the disk just as c does.
LEMMA WithReached ==
    ASSUME ConnsRight, NEW c \in Conns, NEW q \in ConnState, Fine(q), q.state # "none",
           \A ch \in Channels : "disk" \in q.flags[ch] <=> "disk" \in conn[c].flags[ch]
    PROVE  Reached(With(c, q), c) /\ With(c, q).conn[c] = q
<1>1. /\ With(c, q) \in State /\ Counted(With(c, q)) /\ With(c, q).conn[c] = q
      /\ \A d \in Conns \ {c} : With(c, q).conn[d] = conn[d]
  BY WithRight
<1> QED  BY <1>1 DEF Reached

\* What is known of a connection.
LEMMA ConnTypes ==
    ASSUME ConnsRight, NEW c \in Conns
    PROVE  /\ conn \in [Conns -> ConnState] /\ conn[c] \in ConnState
           /\ Now.conn = conn /\ Now.queues = queues
           /\ conn[c].flags \in [Channels -> SUBSET Flags] /\ conn[c].quota \in [Channels -> Int]
           /\ conn[c].buffer \in Int /\ conn[c].reading \in Int /\ conn[c].outstanding \in Int
           /\ ConnRight(conn[c], Told) /\ Fine(conn[c]) /\ UpRight(conn[c]) /\ DownRight(conn[c], Told)
           /\ conn[c].state = "none" => conn[c] = Idle
<1>1. Now \in State /\ Now.conn = conn /\ Now.queues = queues  BY DEF ConnsRight, Now
<1>2. conn \in [Conns -> ConnState]  BY <1>1 DEF State
<1>3. conn[c] \in ConnState  BY <1>2
<1> QED  BY <1>1, <1>2, <1>3 DEF ConnState, ConnsRight, ConnRight

-----------------------------------------------------------------------------
(* The steps of the network thread. *)

\* The gate stays as it is.
LEMMA SameGate ==
    ASSUME gate' = gate
    PROVE  (Told => Told') /\ (gate'.exceeded => Told') /\ Told' \in BOOLEAN
  BY DEF Told

\* A connection starts.
LEMMA StartKeeps ==
    ASSUME ConnsRight, NEW c \in Conns, NEW q \in Grants, NEW gu \in Grants, NEW gd \in Grants,
           Start(c, q, gu, gd)
    PROVE  ConnsRight'
<1> DEFINE p == [Idle EXCEPT !.state = "up", !.quota = [ch \in Channels |-> q]]
           s == With(c, p)
           u == SetupSend(s, c, gu)
           t == SetupReceive(u, c, gd)
<1>1. conn[c] = Idle /\ gate' = gate  BY ConnTypes DEF Start
<1>2. q \in Int /\ q >= 0  BY BoundsAssumption DEF Grants
<1>3. [ch \in Channels |-> q] \in [Channels -> Int]  BY <1>2
<1>4. Become(t)  BY DEF Start
<1>5. p \in ConnState /\ p.state = "up" /\ \A ch \in Channels : p.flags[ch] = {} /\ p.quota[ch] = q
  BY <1>3, IdleState DEF ConnState
<1> HIDE DEF p
<1>6. Fine(p)  BY <1>2, <1>5 DEF Fine
<1>7. \A ch \in Channels : "disk" \in p.flags[ch] <=> "disk" \in conn[c].flags[ch]
  BY <1>1, <1>5, IdleState
<1>8. Reached(s, c)  BY <1>5, <1>6, <1>7, WithReached
<1> HIDE DEF s
<1>9. Reached(u, c) /\ UpRight(u.conn[c])  BY <1>8, SendFrom
<1> HIDE DEF u
<1>10. Reached(t, c) /\ UpRight(t.conn[c]) /\ DownRight(t.conn[c], gate'.exceeded)
  BY <1>9, ReceiveFrom
<1> HIDE DEF t
<1>11. DownRight(t.conn[c], Told')  BY <1>10, <1>1, SameGate DEF DownRight
<1> QED  BY <1>1, <1>4, <1>10, <1>11, SameGate, ReachedRight

\* A message is sent.
LEMMA SendKeeps ==
    ASSUME ConnsRight, NEW c \in Conns, NEW request \in BOOLEAN, NEW g \in Grants, Send(c, request, g)
    PROVE  ConnsRight'
<1> DEFINE k == conn[c].outstanding + (IF request THEN 1 ELSE 0)
           p == [conn[c] EXCEPT !.buffer = conn[c].buffer + 1, !.outstanding = k]
           s == With(c, p)
           t == SetupSend(s, c, g)
<1>1. gate' = gate /\ conn[c].state = "up"  BY DEF Send
<1>2. /\ conn \in [Conns -> ConnState] /\ conn[c] \in ConnState /\ conn[c].buffer \in Int
      /\ conn[c].outstanding \in Int /\ Fine(conn[c]) /\ DownRight(conn[c], Told)
  BY ConnTypes
<1>3. Become(t)  BY DEF Send
<1>4. /\ p \in ConnState /\ p.flags = conn[c].flags /\ p.quota = conn[c].quota /\ p.state = "up"
  <2>1. conn[c].buffer + 1 \in Int /\ k \in Int  BY <1>2
  <2> HIDE DEF k
  <2> QED  BY <1>1, <1>2, <2>1 DEF ConnState
<1> HIDE DEF p
<1>5. Fine(p) /\ DownRight(p, Told)  BY <1>1, <1>2, <1>4 DEF Fine, DownRight
<1>6. Reached(s, c) /\ s.conn[c] = p  BY <1>4, <1>5, WithReached
<1> HIDE DEF s
<1>7. Reached(t, c) /\ UpRight(t.conn[c]) /\ DownRight(t.conn[c], Told)
  BY <1>5, <1>6, SendFrom
<1> HIDE DEF t
<1>8. DownRight(t.conn[c], Told')  BY <1>1, <1>7, SameGate DEF DownRight
<1> QED  BY <1>1, <1>3, <1>7, <1>8, SameGate, ReachedRight

\* A block is asked of the disk thread.
LEMMA AskReadKeeps ==
    ASSUME ConnsRight, NEW c \in Conns, AskRead(c)
    PROVE  ConnsRight'
<1> DEFINE p == [conn[c] EXCEPT !.reading = conn[c].reading + 1]
           s == With(c, p)
<1>1. /\ gate' = gate /\ conn[c].state = "up" /\ queues' = queues
      /\ conn' = [conn EXCEPT ![c].reading = @ + 1]
  BY DEF AskRead
<1>2. /\ conn \in [Conns -> ConnState] /\ conn[c] \in ConnState /\ conn[c].reading \in Int
      /\ Fine(conn[c]) /\ UpRight(conn[c]) /\ DownRight(conn[c], Told)
  BY ConnTypes
<1>3. Become(s)
  <2>1. conn' = [conn EXCEPT ![c] = p]  BY <1>1
  <2> QED  BY <1>1, <2>1 DEF Become, With
<1>4. /\ p \in ConnState /\ p.flags = conn[c].flags /\ p.quota = conn[c].quota /\ p.state = "up"
      /\ p.buffer = conn[c].buffer
  BY <1>1, <1>2 DEF ConnState
<1> HIDE DEF p
<1>5. Fine(p) /\ UpRight(p) /\ DownRight(p, Told)
  BY <1>1, <1>2, <1>4 DEF Fine, DownRight, UpRight
<1>6. Reached(s, c) /\ s.conn[c] = p  BY <1>4, <1>5, WithReached
<1> HIDE DEF s
<1>7. DownRight(s.conn[c], Told')  BY <1>1, <1>5, <1>6, SameGate DEF DownRight
<1> QED  BY <1>1, <1>3, <1>5, <1>6, <1>7, SameGate, ReachedRight

\* The disk thread has read it, or not.
LEMMA ReadCompleteKeeps ==
    ASSUME ConnsRight, NEW c \in Conns, NEW ok \in BOOLEAN, NEW g \in Grants,
           OnDiskReadComplete(c, ok, g)
    PROVE  ConnsRight'
<1> DEFINE b == conn[c].buffer + (IF ok THEN 1 ELSE 0)
           p == [conn[c] EXCEPT !.reading = conn[c].reading - 1, !.buffer = b]
           s == With(c, p)
           t == SetupSend(s, c, g)
<1>1. /\ conn \in [Conns -> ConnState] /\ conn[c] \in ConnState /\ conn[c].reading \in Int
      /\ conn[c].buffer \in Int /\ Fine(conn[c]) /\ DownRight(conn[c], Told)
      /\ (conn[c].state = "none" => conn[c] = Idle)
  BY ConnTypes
<1>2. gate' = gate /\ conn[c].reading > 0  BY DEF OnDiskReadComplete
<1>3. conn[c].state # "none"  BY <1>1, <1>2 DEF Idle
<1>4. Become(IF s.conn[c].state = "up" THEN t ELSE s)
  BY DEF OnDiskReadComplete
<1>5. /\ p \in ConnState /\ p.flags = conn[c].flags /\ p.quota = conn[c].quota
      /\ p.state = conn[c].state
  <2>1. conn[c].reading - 1 \in Int /\ b \in Int  BY <1>1
  <2> HIDE DEF b
  <2> QED  BY <1>1, <2>1 DEF ConnState
<1> HIDE DEF p
<1>6. Fine(p) /\ DownRight(p, Told)  BY <1>1, <1>5 DEF Fine, DownRight
<1>7. Reached(s, c) /\ s.conn[c] = p  BY <1>3, <1>5, <1>6, WithReached
<1> HIDE DEF s
<1>8. CASE p.state = "up"
  <2>1. Become(t)  BY <1>4, <1>7, <1>8
  <2>2. Reached(t, c) /\ UpRight(t.conn[c]) /\ DownRight(t.conn[c], Told)
    BY <1>6, <1>7, SendFrom
  <2> HIDE DEF t
  <2>3. DownRight(t.conn[c], Told')  BY <1>2, <2>2, SameGate DEF DownRight
  <2> QED  BY <1>2, <2>1, <2>2, <2>3, SameGate, ReachedRight
<1>9. CASE p.state # "up"
  <2>1. Become(s)  BY <1>4, <1>7, <1>9
  <2>2. UpRight(s.conn[c]) /\ DownRight(s.conn[c], Told')  BY <1>7, <1>9 DEF UpRight, DownRight
  <2> QED  BY <1>2, <1>7, <2>1, <2>2, SameGate, ReachedRight
<1> QED  BY <1>8, <1>9

\* A connection is closed.
LEMMA DisconnectKeeps ==
    ASSUME ConnsRight, NEW c \in Conns, Disconnect(c)
    PROVE  ConnsRight'
<1>1. gate' = gate /\ conn[c].state = "up" /\ Become(Closed(Now, c))  BY DEF Disconnect
<1>2. Reached(Now, c)  BY <1>1, ConnTypes DEF Reached, ConnsRight
<1> DEFINE t == Closed(Now, c)
<1>3. Reached(t, c) /\ UpRight(t.conn[c]) /\ \A told : DownRight(t.conn[c], told)
  BY <1>2, ClosedRight
<1> HIDE DEF t
<1> QED  BY <1>1, <1>3, SameGate, ReachedRight DEF t

\* A channel that waits for the socket or for quota and stops to do so is fine
\* with any quota.
LEMMA ChannelFine ==
    ASSUME NEW p \in ConnState, NEW q \in ConnState, NEW ch \in Channels,
           NEW f \in {"network", "limit"}, NEW n \in Int, Fine(p), f \in p.flags[ch], n >= 0,
           q.flags = [p.flags EXCEPT ![ch] = p.flags[ch] \ {f}], q.quota = [p.quota EXCEPT ![ch] = n]
    PROVE  /\ Fine(q)
           /\ \A e \in Channels : "disk" \in q.flags[e] <=> "disk" \in p.flags[e]
           /\ \A e \in Channels \ {ch} : q.flags[e] = p.flags[e]
<1>1. p.flags \in [Channels -> SUBSET Flags] /\ p.quota \in [Channels -> Int]  BY DEF ConnState
<1>3. /\ q.flags[ch] = p.flags[ch] \ {f} /\ q.quota[ch] = n
      /\ \A e \in Channels \ {ch} : q.flags[e] = p.flags[e] /\ q.quota[e] = p.quota[e]
  BY <1>1
<1>4. "network" \notin q.flags[ch] /\ "limit" \notin q.flags[ch]  BY <1>3 DEF Fine
<1>5. ~({"network", "limit"} \subseteq q.flags[ch])  BY <1>4
<1>6. Fine(q)  BY <1>3, <1>4, <1>5, FineSame
<1>7. ASSUME NEW e \in Channels
      PROVE  "disk" \in q.flags[e] <=> "disk" \in p.flags[e]
  BY <1>3
<1> QED  BY <1>3, <1>6, <1>7

\* The socket has taken n units, or the write failed.
LEMMA SendDataKeeps ==
    ASSUME ConnsRight, NEW c \in Conns, NEW n \in 0 .. MaxBuffer, NEW error \in BOOLEAN,
           NEW g \in Grants, OnSendData(c, n, error, g)
    PROVE  ConnsRight'
<1> DEFINE p == [conn[c] EXCEPT !.flags["up"] = @ \ {"network"}, !.buffer = @ - n, !.quota["up"] = @ - n]
           s == With(c, p)
           t == SetupSend(s, c, g)
           z == Closed(s, c)
           m == conn[c].quota["up"] - n
<1>1. /\ conn \in [Conns -> ConnState] /\ conn[c] \in ConnState /\ conn[c].buffer \in Int
      /\ Fine(conn[c]) /\ DownRight(conn[c], Told) /\ (conn[c].state = "none" => conn[c] = Idle)
      /\ conn[c].flags \in [Channels -> SUBSET Flags] /\ conn[c].quota \in [Channels -> Int]
  BY ConnTypes
<1>0. "up" \in Channels /\ "down" \in Channels /\ "down" # "up"  BY DEF Channels
<1>2. gate' = gate /\ "network" \in conn[c].flags["up"]  BY DEF OnSendData
<1>3. conn[c].state # "none"  BY <1>0, <1>1, <1>2, IdleState
<1>4. Become(IF conn[c].state = "closed" THEN s ELSE IF error THEN z ELSE t)
  BY DEF OnSendData
<1>5. conn[c].quota["up"] \in Int /\ conn[c].quota["up"] >= 0  BY <1>0, <1>1 DEF Fine
<1>6. n \in Int /\ n <= conn[c].quota["up"]
  <2>1. n \in Int  BY BoundsAssumption
  <2>2. n = 0 \/ n <= conn[c].quota["up"]  BY DEF OnSendData
  <2> QED  BY <2>1, <2>2, <1>5
<1>7. m \in Int /\ m >= 0 /\ conn[c].buffer - n \in Int  BY <1>1, <1>5, <1>6
<1>8. /\ p \in ConnState /\ p.flags = [conn[c].flags EXCEPT !["up"] = conn[c].flags["up"] \ {"network"}]
      /\ p.quota = [conn[c].quota EXCEPT !["up"] = m] /\ p.state = conn[c].state
  <2>1. [conn[c].flags EXCEPT !["up"] = conn[c].flags["up"] \ {"network"}] \in [Channels -> SUBSET Flags]
    BY <1>0, <1>1
  <2>2. [conn[c].quota EXCEPT !["up"] = m] \in [Channels -> Int]  BY <1>0, <1>1, <1>7
  <2> QED  BY <1>1, <1>7, <2>1, <2>2 DEF ConnState
<1> HIDE DEF p, m
<1>9. /\ Fine(p) /\ p.flags["down"] = conn[c].flags["down"]
      /\ \A e \in Channels : "disk" \in p.flags[e] <=> "disk" \in conn[c].flags[e]
  BY <1>0, <1>1, <1>2, <1>7, <1>8, ChannelFine
<1>10. Reached(s, c) /\ s.conn[c] = p  BY <1>3, <1>8, <1>9, WithReached
<1>11. DownRight(p, Told')  BY <1>1, <1>2, <1>8, <1>9, SameGate DEF DownRight
<1> HIDE DEF s
<1>12. CASE conn[c].state = "closed"
  <2>1. Become(s) /\ UpRight(s.conn[c])  BY <1>4, <1>8, <1>10, <1>12 DEF UpRight
  <2> QED  BY <1>2, <1>10, <1>11, <2>1, SameGate, ReachedRight
<1>13. CASE conn[c].state # "closed" /\ error
  <2>1. Become(z)  BY <1>4, <1>13
  <2>2. Reached(z, c) /\ UpRight(z.conn[c]) /\ \A told : DownRight(z.conn[c], told)
    BY <1>10, ClosedRight
  <2> HIDE DEF z
  <2> QED  BY <1>2, <2>1, <2>2, SameGate, ReachedRight
<1>14. CASE conn[c].state # "closed" /\ ~error
  <2>1. Become(t)  BY <1>4, <1>14
  <2>2. Reached(t, c) /\ UpRight(t.conn[c]) /\ DownRight(t.conn[c], Told')
    BY <1>10, <1>11, SendFrom
  <2> HIDE DEF t
  <2> QED  BY <1>2, <2>1, <2>2, SameGate, ReachedRight
<1> QED  BY <1>12, <1>13, <1>14

\* The bandwidth manager has given n units.
LEMMA AssignKeeps ==
    ASSUME ConnsRight, NEW c \in Conns, NEW ch \in Channels, NEW n \in 1 .. MaxQuota,
           NEW g \in Grants, AssignBandwidth(c, ch, n, g)
    PROVE  ConnsRight'
<1> DEFINE F == conn[c].flags[ch] \ {"limit"}
           p == [conn[c] EXCEPT !.flags[ch] = @ \ {"limit"}]
           s == With(c, p)
           m == conn[c].quota[ch] + n
           q == [p EXCEPT !.quota[ch] = @ + n]
           t == With(c, q)
           u == SetupSend(t, c, g)
           w == SetupReceive(t, c, g)
<1>1. /\ conn \in [Conns -> ConnState] /\ conn[c] \in ConnState
      /\ Fine(conn[c]) /\ UpRight(conn[c]) /\ DownRight(conn[c], Told)
      /\ (conn[c].state = "none" => conn[c] = Idle)
      /\ conn[c].flags \in [Channels -> SUBSET Flags] /\ conn[c].quota \in [Channels -> Int]
  BY ConnTypes
<1>2. gate' = gate /\ "limit" \in conn[c].flags[ch]  BY DEF AssignBandwidth
<1>3. conn[c].state # "none"  BY <1>1, <1>2, IdleState
<1>4. Become(IF conn[c].state = "closed" THEN s ELSE IF ch = "up" THEN u ELSE w)
  BY DEF AssignBandwidth
<1>5. conn[c].quota[ch] \in Int /\ conn[c].quota[ch] >= 0 /\ n \in Int /\ n >= 0
  BY <1>1, BoundsAssumption DEF Fine
<1>6. m \in Int /\ m >= 0  BY <1>5
<1>7. /\ p \in ConnState /\ p.flags = [conn[c].flags EXCEPT ![ch] = F] /\ p.quota = conn[c].quota
      /\ p.state = conn[c].state /\ p.buffer = conn[c].buffer
  <2>1. [conn[c].flags EXCEPT ![ch] = F] \in [Channels -> SUBSET Flags]  BY <1>1
  <2> QED  BY <1>1, <2>1 DEF ConnState
<1>8. /\ q \in ConnState /\ q.flags = [conn[c].flags EXCEPT ![ch] = F]
      /\ q.quota = [conn[c].quota EXCEPT ![ch] = m] /\ q.state = conn[c].state
      /\ q.buffer = conn[c].buffer
  <2>1. [conn[c].quota EXCEPT ![ch] = m] \in [Channels -> Int]  BY <1>1, <1>6
  <2>2. q.quota = [conn[c].quota EXCEPT ![ch] = m]  BY <1>7, <1>1 DEF ConnState
  <2> HIDE DEF p
  <2> QED  BY <1>7, <2>1, <2>2 DEF ConnState
<1> HIDE DEF p, q, m, F
<1>9. PICK k \in Int : k >= 0 /\ p.quota = [conn[c].quota EXCEPT ![ch] = k]  BY <1>1, <1>5, <1>7
<1>10. /\ Fine(p) /\ \A e \in Channels : "disk" \in p.flags[e] <=> "disk" \in conn[c].flags[e]
  BY <1>1, <1>2, <1>7, <1>9, ChannelFine DEF F
<1>11. /\ Fine(q) /\ \A e \in Channels : "disk" \in q.flags[e] <=> "disk" \in conn[c].flags[e]
       /\ \A e \in Channels \ {ch} : q.flags[e] = conn[c].flags[e]
  BY <1>1, <1>2, <1>6, <1>8, ChannelFine DEF F
<1>12. CASE conn[c].state = "closed"
  <2>1. Reached(s, c) /\ s.conn[c] = p  BY <1>3, <1>7, <1>10, WithReached
  <2>2. Become(s)  BY <1>4, <1>12
  <2> HIDE DEF s
  <2>3. UpRight(s.conn[c]) /\ DownRight(s.conn[c], Told')
    BY <1>7, <1>12, <2>1 DEF UpRight, DownRight
  <2> QED  BY <1>2, <2>1, <2>2, <2>3, SameGate, ReachedRight
<1>13. Reached(t, c) /\ t.conn[c] = q  BY <1>3, <1>8, <1>11, WithReached
<1> HIDE DEF t
<1>14. CASE conn[c].state # "closed" /\ ch = "up"
  <2>1. Become(u)  BY <1>4, <1>14
  <2>2. q.flags["down"] = conn[c].flags["down"]  BY <1>11, <1>14 DEF Channels
  <2>3. DownRight(q, Told')  BY <1>1, <1>2, <1>8, <2>2, SameGate DEF DownRight
  <2>4. Reached(u, c) /\ UpRight(u.conn[c]) /\ DownRight(u.conn[c], Told')
    BY <1>13, <2>3, SendFrom
  <2> HIDE DEF u
  <2> QED  BY <1>2, <2>1, <2>4, SameGate, ReachedRight
<1>15. CASE conn[c].state # "closed" /\ ch = "down"
  <2>1. Become(w)  BY <1>4, <1>15
  <2>2. q.flags["up"] = conn[c].flags["up"]  BY <1>11, <1>15 DEF Channels
  <2>3. UpRight(q)  BY <1>1, <1>8, <2>2 DEF UpRight
  <2>4. Reached(w, c) /\ UpRight(w.conn[c]) /\ DownRight(w.conn[c], gate'.exceeded)
    BY <1>13, <2>3, ReceiveFrom
  <2> HIDE DEF w
  <2>5. DownRight(w.conn[c], Told')  BY <1>2, <2>4, SameGate DEF DownRight
  <2> QED  BY <1>2, <2>1, <2>4, <2>5, SameGate, ReachedRight
<1> QED  BY <1>12, <1>14, <1>15 DEF Channels

\* The socket has delivered n units with k whole blocks, or failed.
LEMMA ReceiveDataKeeps ==
    ASSUME GateRight, ConnsRight, NEW c \in Conns, NEW n \in 0 .. MaxQuota, NEW k \in 0 .. MaxQuota,
           NEW error \in BOOLEAN, NEW gu \in Grants, NEW gd \in Grants,
           OnReceiveData(c, n, k, error, gu, gd)
    PROVE  ConnsRight'
<1> DEFINE F == conn[c].flags["down"] \ {"network"}
           m == conn[c].quota["down"] - n
           p == [conn[c] EXCEPT !.quota["down"] = @ - n, !.outstanding = @ - k,
                                !.flags["down"] = @ \ {"network"}]
           t == With(c, p)
           z == Closed(t, c)
           w == SetupReceive(t, c, gd)
           u == SetupSend(w, c, gu)
           over == \E j \in 1 .. k : gate.bytes + j >= MaxQueued
<1>0. "up" \in Channels /\ "down" \in Channels /\ "down" # "up"  BY DEF Channels
<1>1. /\ conn \in [Conns -> ConnState] /\ conn[c] \in ConnState /\ conn[c].outstanding \in Int
      /\ Fine(conn[c]) /\ UpRight(conn[c]) /\ (conn[c].state = "none" => conn[c] = Idle)
      /\ conn[c].flags \in [Channels -> SUBSET Flags] /\ conn[c].quota \in [Channels -> Int]
  BY ConnTypes
<1>2. "network" \in conn[c].flags["down"]  BY DEF OnReceiveData
<1>14. conn[c].state = "closed" \/ error =>
          gate' = gate /\ Become(IF conn[c].state = "closed" THEN t ELSE z)
  BY DEF OnReceiveData
<1>15. ~(conn[c].state = "closed" \/ error) =>
          gate' = [gate EXCEPT !.exceeded = @ \/ over, !.bytes = @ + k] /\ Become(u)
  BY DEF OnReceiveData
<1>3. conn[c].state # "none"  BY <1>0, <1>1, <1>2, IdleState
<1>4. conn[c].quota["down"] \in Int /\ conn[c].quota["down"] >= 0  BY <1>0, <1>1 DEF Fine
<1>5. n \in Int /\ k \in Int  BY BoundsAssumption
<1>6. n <= conn[c].quota["down"]
  <2>1. n = 0 \/ n <= conn[c].quota["down"]  BY DEF OnReceiveData
  <2> QED  BY <2>1, <1>4, <1>5
<1>7. m \in Int /\ m >= 0 /\ conn[c].outstanding - k \in Int  BY <1>1, <1>4, <1>5, <1>6
<1>8. /\ p \in ConnState /\ p.flags = [conn[c].flags EXCEPT !["down"] = F]
      /\ p.quota = [conn[c].quota EXCEPT !["down"] = m] /\ p.state = conn[c].state
      /\ p.buffer = conn[c].buffer
  <2>1. [conn[c].flags EXCEPT !["down"] = F] \in [Channels -> SUBSET Flags]  BY <1>0, <1>1
  <2>2. [conn[c].quota EXCEPT !["down"] = m] \in [Channels -> Int]  BY <1>0, <1>1, <1>7
  <2> QED  BY <1>1, <1>7, <2>1, <2>2 DEF ConnState
<1> HIDE DEF p, m
<1>9. /\ Fine(p) /\ p.flags["up"] = conn[c].flags["up"]
      /\ \A e \in Channels : "disk" \in p.flags[e] <=> "disk" \in conn[c].flags[e]
  BY <1>0, <1>1, <1>2, <1>7, <1>8, ChannelFine
<1>10. UpRight(p)  BY <1>1, <1>8, <1>9 DEF UpRight
<1>11. Reached(t, c) /\ t.conn[c] = p  BY <1>3, <1>8, <1>9, WithReached
<1>12. CASE conn[c].state = "closed" \/ error
  <2>1. gate' = gate /\ Become(IF conn[c].state = "closed" THEN t ELSE z)
    BY <1>12, <1>14
  <2> HIDE DEF t
  <2>2. CASE conn[c].state = "closed"
    <3>1. Become(t) /\ DownRight(t.conn[c], Told')  BY <1>8, <1>11, <2>1, <2>2 DEF DownRight
    <3> QED  BY <1>10, <1>11, <2>1, <3>1, SameGate, ReachedRight
  <2>3. CASE conn[c].state # "closed"
    <3>1. Become(z)  BY <2>1, <2>3
    <3>2. Reached(z, c) /\ UpRight(z.conn[c]) /\ \A told : DownRight(z.conn[c], told)
      BY <1>11, ClosedRight
    <3> HIDE DEF z
    <3> QED  BY <2>1, <3>1, <3>2, SameGate, ReachedRight
  <2> QED  BY <2>2, <2>3
<1>13. CASE ~(conn[c].state = "closed" \/ error)
  <2>1. /\ gate' = [gate EXCEPT !.exceeded = @ \/ over, !.bytes = @ + k]
        /\ Become(u)
    BY <1>13, <1>15
  <2> HIDE DEF t, over
  <2>2. gate'.exceeded = (gate.exceeded \/ over) /\ gate'.posted = gate.posted
    BY <2>1 DEF GateRight
  <2>3. (Told => Told') /\ (gate'.exceeded => Told')  BY <2>2 DEF Told
  <2>4. Reached(w, c) /\ DownRight(w.conn[c], gate'.exceeded)  BY <1>11, ReceiveFrom
  <2> HIDE DEF w
  <2>5. Reached(u, c) /\ UpRight(u.conn[c]) /\ DownRight(u.conn[c], gate'.exceeded)
    BY <2>4, SendFrom
  <2> HIDE DEF u
  <2>6. DownRight(u.conn[c], Told')  BY <2>3, <2>5 DEF DownRight
  <2> QED  BY <2>1, <2>3, <2>5, <2>6, ReachedRight
<1> QED  BY <1>12, <1>13

\* A write of c is done.
LEMMA WriteCompleteKeeps ==
    ASSUME ConnsRight, NEW c \in Conns, NEW g \in Grants, OnDiskWriteComplete(c, g)
    PROVE  ConnsRight'
<1> DEFINE t == SetupReceive(Now, c, g)
<1>1. gate' = gate /\ Become(IF conn[c].state = "closed" THEN Now ELSE t)
  BY DEF OnDiskWriteComplete
<1>2. /\ Now.conn = conn /\ Now.queues = queues /\ Fine(conn[c]) /\ UpRight(conn[c])
      /\ DownRight(conn[c], Told) /\ (conn[c].state = "none" => conn[c] = Idle)
  BY ConnTypes
<1>3. ASSUME Become(Now)  PROVE ConnsRight'
  <2>1. conn' = conn /\ queues' = queues /\ Told' = Told  BY <1>1, <1>2, <1>3 DEF Become, Told
  <2>2. Now' = Now  BY <2>1 DEF Now
  <2> QED  BY <2>1, <2>2 DEF ConnsRight
<1>4. CASE conn[c].state = "closed"  BY <1>1, <1>3, <1>4
<1>5. CASE conn[c].state = "none"
  <2>4. "down" \in Channels  BY DEF Channels
  <2>5. Now.conn[c] = Idle /\ Idle.state = "none" /\ Idle.quota["down"] = 0 /\ Idle.flags["down"] = {}
    BY <1>2, <1>5, <2>4, IdleState
  <2>1. Now.conn[c].quota["down"] = 0 /\ Now.conn[c].state = "none" /\ ~Busy(Now, c, "down")
    BY <2>5 DEF Busy
  <2>2. Quota(Now, c, "down", TRUE, g) = Now  BY <2>1 DEF Quota
  <2>3. t = Now  BY <2>1, <2>2 DEF SetupReceive
  <2> QED  BY <1>1, <1>3, <1>5, <2>3
<1>6. CASE conn[c].state # "closed" /\ conn[c].state # "none"
  <2>1. Become(t)  BY <1>1, <1>6
  <2>2. Reached(Now, c) /\ UpRight(Now.conn[c])  BY <1>2, <1>6 DEF Reached, ConnsRight
  <2>3. Reached(t, c) /\ UpRight(t.conn[c]) /\ DownRight(t.conn[c], gate'.exceeded)
    BY <2>2, ReceiveFrom
  <2> HIDE DEF t
  <2>4. DownRight(t.conn[c], Told')  BY <1>1, <2>3, SameGate DEF DownRight
  <2> QED  BY <1>1, <2>1, <2>3, <2>4, SameGate, ReachedRight
<1> QED  BY <1>4, <1>5, <1>6

-----------------------------------------------------------------------------
(* The disk thread and its gate. *)

\* k more blocks of c are queued.
LEMMA UnitsAdded ==
    ASSUME NEW w \in [Conns -> Nat], NEW c \in Conns, NEW k \in Nat, IsFiniteSet(Units(w))
    PROVE  LET v == [w EXCEPT ![c] = @ + k]
           IN  /\ v \in [Conns -> Nat] /\ IsFiniteSet(Units(v))
               /\ Cardinality(Units(v)) = Cardinality(Units(w)) + k
<1> DEFINE v == [w EXCEPT ![c] = @ + k]
           I == w[c] .. (w[c] + k - 1)
           N == {c} \X I
<1>1. w[c] \in Nat /\ v \in [Conns -> Nat] /\ v[c] = w[c] + k
      /\ \A d \in Conns \ {c} : v[d] = w[d]
  OBVIOUS
<1>2. IsFiniteSet(I) /\ Cardinality(I) = k
  <2> DEFINE a == w[c]
             b == w[c] + k - 1
  <2>1. a \in Int /\ b \in Int  BY <1>1
  <2> HIDE DEF a, b
  <2>3. IsFiniteSet(a .. b) /\ Cardinality(a .. b) = IF a > b THEN 0 ELSE b - a + 1
    BY <2>1, FS_Interval
  <2>2. IsFiniteSet(I) /\ Cardinality(I) = IF w[c] > w[c] + k - 1 THEN 0 ELSE w[c] + k - 1 - w[c] + 1
    BY <2>3 DEF a, b
  <2> QED  BY <1>1, <2>2
<1>3. IsFiniteSet({c}) /\ Cardinality({c}) = 1  BY FS_Singleton
<1> HIDE DEF I
<1>4. IsFiniteSet(N) /\ Cardinality(N) = k
  <2>1. IsFiniteSet(N) /\ Cardinality(N) = Cardinality({c}) * Cardinality(I)
    BY <1>2, <1>3, FS_Product
  <2> QED  BY <1>2, <1>3, <2>1
<1>5. Units(v) = Units(w) \cup N
  <2>1. ASSUME NEW d \in Conns, NEW i \in Nat
        PROVE  <<d, i>> \in Units(v) <=> <<d, i>> \in Units(w) \cup N
    <3>1. <<d, i>> \in Units(v) <=> i < v[d]  BY DEF Units
    <3>2. <<d, i>> \in Units(w) <=> i < w[d]  BY DEF Units
    <3>3. <<d, i>> \in N <=> d = c /\ i >= w[c] /\ i < w[c] + k  BY <1>1 DEF I
    <3>4. CASE d = c  BY <1>1, <3>1, <3>2, <3>3, <3>4
    <3>5. CASE d # c  BY <1>1, <3>1, <3>2, <3>3, <3>5
    <3> QED  BY <3>4, <3>5
  <2>2. \A x \in Units(v) : x \in Conns \X Nat /\ x = <<x[1], x[2]>>  BY DEF Units
  <2>3. \A x \in Units(w) : x \in Conns \X Nat /\ x = <<x[1], x[2]>>  BY DEF Units
  <2>4. \A x \in N : x \in Conns \X Nat /\ x = <<x[1], x[2]>>  BY <1>1 DEF I
  <2> HIDE DEF v, N
  <2> QED  BY <2>1, <2>2, <2>3, <2>4
<1>6. Units(w) \cap N = {}
  <2> SUFFICES ASSUME NEW x \in Units(w), x \in N  PROVE FALSE  OBVIOUS
  <2>1. x[2] < w[x[1]] /\ x[1] = c /\ x[2] \in w[c] .. (w[c] + k - 1)  BY DEF Units, I
  <2> QED  BY <1>1, <2>1
<1> HIDE DEF N, v
<1>7. /\ IsFiniteSet(Units(w) \cup N)
      /\ Cardinality(Units(w) \cup N) = Cardinality(Units(w)) + Cardinality(N) - Cardinality(Units(w) \cap N)
  BY <1>4, FS_Union
<1>8. Cardinality(Units(w)) \in Nat /\ Cardinality({}) = 0  BY FS_CardinalityType, FS_EmptySet
<1>9. IsFiniteSet(Units(v)) /\ Cardinality(Units(v)) = Cardinality(Units(w)) + k
  <2>1. IsFiniteSet(Units(v)) /\ Cardinality(Units(v)) = Cardinality(Units(w)) + k - 0
    BY <1>4, <1>5, <1>6, <1>7, <1>8
  <2> QED  BY <2>1, <1>8
<1> QED  BY <1>1, <1>9 DEF v

\* The disk thread takes a block of c.
LEMMA UnitsTaken ==
    ASSUME NEW w \in [Conns -> Nat], NEW c \in Conns, w[c] > 0, IsFiniteSet(Units(w))
    PROVE  LET v == [w EXCEPT ![c] = @ - 1]
           IN  /\ v \in [Conns -> Nat] /\ IsFiniteSet(Units(v))
               /\ Cardinality(Units(v)) = Cardinality(Units(w)) - 1
<1> DEFINE v == [w EXCEPT ![c] = @ - 1]
           x == <<c, w[c] - 1>>
<1>1. w[c] \in Nat /\ w[c] - 1 \in Nat /\ v \in [Conns -> Nat] /\ v[c] = w[c] - 1
      /\ \A d \in Conns \ {c} : v[d] = w[d]
  <2>1. w[c] \in Nat  OBVIOUS
  <2>2. w[c] - 1 \in Nat  BY <2>1
  <2> QED  BY <2>1, <2>2
<1>2. x \in Units(w)  BY <1>1 DEF Units
<1>3. Units(v) = Units(w) \ {x}
  <2>1. ASSUME NEW d \in Conns, NEW i \in Nat
        PROVE  <<d, i>> \in Units(v) <=> <<d, i>> \in Units(w) \ {x}
    <3>1. <<d, i>> \in Units(v) <=> i < v[d]  BY DEF Units
    <3>2. <<d, i>> \in Units(w) <=> i < w[d]  BY DEF Units
    <3>3. <<d, i>> = x <=> d = c /\ i = w[c] - 1  OBVIOUS
    <3>4. CASE d = c  BY <1>1, <3>1, <3>2, <3>3, <3>4
    <3>5. CASE d # c  BY <1>1, <3>1, <3>2, <3>3, <3>5
    <3> QED  BY <3>4, <3>5
  <2>2. \A y \in Units(v) : y \in Conns \X Nat /\ y = <<y[1], y[2]>>  BY DEF Units
  <2>3. \A y \in Units(w) : y \in Conns \X Nat /\ y = <<y[1], y[2]>>  BY DEF Units
  <2> HIDE DEF v, x
  <2> QED  BY <2>1, <2>2, <2>3
<1> HIDE DEF x, v
<1>4. IsFiniteSet(Units(v)) /\ Cardinality(Units(v)) = Cardinality(Units(w)) - 1
  BY <1>2, <1>3, FS_RemoveElement
<1> QED  BY <1>1, <1>4 DEF v

\* on_disk of one connection, once the disk thread has caught up: it no longer
\* waits for the disk.
LEMMA ResumedRight ==
    ASSUME ConnsRight, NEW c \in Conns, NEW g \in Grants, "disk" \in conn[c].flags["down"],
           ~gate'.exceeded
    PROVE  LET p == SetupReceive(ClearDisk(Now, c, "down"), c, g).conn[c]
           IN  /\ p \in ConnState /\ p.flags["up"] = conn[c].flags["up"]
               /\ "disk" \notin p.flags["down"]
               /\ ConnRight(p, FALSE)
<1> DEFINE s == ClearDisk(Now, c, "down")
           t == SetupReceive(s, c, g)
<1>0. "up" \in Channels /\ "down" \in Channels /\ "up" # "down"  BY DEF Channels
<1>1. /\ Now \in State /\ Now.conn = conn /\ Fine(conn[c]) /\ UpRight(conn[c])
      /\ (conn[c].state = "none" => conn[c] = Idle)
  BY ConnTypes DEF ConnsRight
<1>2. conn[c].state # "none"  BY <1>0, <1>1, IdleState
<1>3. /\ Moved(Now, s, c, "down") /\ s.conn[c].flags["down"] = conn[c].flags["down"] \ {"disk"}
      /\ s.conn[c].quota["down"] = conn[c].quota["down"]
  BY <1>0, <1>1, DiskMoves
<1> HIDE DEF s
<1>4. s \in State /\ \A e \in Channels \ {"down"} : /\ s.conn[c].flags[e] = conn[c].flags[e]
                                                    /\ s.conn[c].quota[e] = conn[c].quota[e]
  BY <1>1, <1>3 DEF Moved
<1>5. Fine(s.conn[c])
  <2>1. /\ s.conn[c].quota["down"] >= 0 /\ ~({"network", "limit"} \subseteq s.conn[c].flags["down"])
        /\ "limit" \in s.conn[c].flags["down"] => s.conn[c].quota["down"] = 0
    BY <1>0, <1>1, <1>3 DEF Fine
  <2> QED  BY <1>0, <1>1, <1>4, <2>1, FineSame
<1>6. /\ Moved(s, t, c, "down") /\ Fine(t.conn[c])
      /\ s.conn[c].state = "up" => t.conn[c].flags["down"] \cap {"network", "limit"} # {}
      /\ "disk" \notin t.conn[c].flags["down"]
  BY <1>3, <1>4, <1>5, ReceiveRight
<1> HIDE DEF t
<1>7. UpRight(t.conn[c]) /\ t.conn[c].state = s.conn[c].state /\ s.conn[c].state = conn[c].state
  BY <1>1, <1>3, <1>4, <1>6, OtherChannel
<1>8. t \in State /\ t.conn[c].flags["up"] = conn[c].flags["up"]
  BY <1>0, <1>3, <1>4, <1>6 DEF Moved
<1>9. t.conn[c] \in ConnState  BY <1>8 DEF State
<1>10. ConnRight(t.conn[c], FALSE)  BY <1>2, <1>6, <1>7 DEF ConnRight, DownRight
<1> QED  BY <1>6, <1>8, <1>9, <1>10 DEF t, s

\* on_disk_queue.
LEMMA DiskQueueKeeps ==
    ASSUME GateRight, ConnsRight, NEW g \in [Conns -> Grants], OnDiskQueue(g)
    PROVE  ConnsRight'
<1> DEFINE waiting == {c \in Conns : "disk" \in conn[c].flags["down"]}
           resumed(c) == SetupReceive(ClearDisk(Now, c, "down"), c, g[c]).conn[c]
           over == {c \in waiting : "disk" \notin resumed(c).flags["down"]}
           new == [c \in Conns |-> IF c \in waiting THEN resumed(c) ELSE conn[c]]
           t == [conn |-> new, queues |-> [queues EXCEPT !["down"] = @ - Cardinality(over)]]
<1>0. "up" \in Channels /\ "down" \in Channels /\ "up" # "down"  BY DEF Channels
<1>1. gate' = [gate EXCEPT !.posted = @ - 1] /\ Become(IF gate.exceeded THEN Now ELSE t)
  BY DEF OnDiskQueue
<1>2. gate'.exceeded = gate.exceeded /\ gate.exceeded \in BOOLEAN  BY <1>1 DEF GateRight
<1>3. Now \in State /\ Counted(Now) /\ Now.conn = conn /\ Now.queues = queues
  BY DEF ConnsRight, Now
<1>4. conn \in [Conns -> ConnState] /\ queues \in [Channels -> Int]  BY <1>3 DEF State
<1>5. CASE gate.exceeded
  <2>1. conn' = conn /\ queues' = queues /\ Told /\ Told'
    BY <1>1, <1>2, <1>3, <1>5 DEF Become, Told
  <2>2. Now' = Now  BY <2>1 DEF Now
  <2>3. \A c \in Conns : ConnRight(conn'[c], Told')
    BY <2>1 DEF ConnsRight, ConnRight, DownRight
  <2> QED  BY <1>3, <2>2, <2>3 DEF ConnsRight
<1>6. CASE ~gate.exceeded
  <2>1. ASSUME NEW c \in waiting
        PROVE  /\ resumed(c) \in ConnState /\ resumed(c).flags["up"] = conn[c].flags["up"]
               /\ "disk" \notin resumed(c).flags["down"] /\ ConnRight(resumed(c), FALSE)
    <3>1. g[c] \in Grants /\ "disk" \in conn[c].flags["down"] /\ ~gate'.exceeded
      BY <1>2, <1>6
    <3> QED  BY <3>1, ResumedRight
  <2>2. over = waiting  BY <2>1
  <2>3. conn' = new /\ queues' = [queues EXCEPT !["down"] = @ - Cardinality(waiting)]
    BY <1>1, <1>6, <2>2 DEF Become
  <2> HIDE DEF over, resumed
  <2>4. ASSUME NEW c \in Conns
        PROVE  /\ conn'[c] \in ConnState /\ conn'[c].flags["up"] = conn[c].flags["up"]
               /\ "disk" \notin conn'[c].flags["down"]
               /\ ConnRight(conn'[c], Told')
    <3>1. CASE c \in waiting
      <4>1. conn'[c] = resumed(c)  BY <2>3, <3>1
      <4> QED  BY <2>1, <3>1, <4>1 DEF ConnRight, DownRight
    <3>2. CASE c \notin waiting
      <4>1. conn'[c] = conn[c] /\ "disk" \notin conn[c].flags["down"]  BY <2>3, <3>2
      <4>2. ConnRight(conn[c], Told)  BY DEF ConnsRight
      <4> QED  BY <1>4, <4>1, <4>2 DEF ConnRight, DownRight
    <3> QED  BY <3>1, <3>2
  <2>5. conn' \in [Conns -> ConnState]
    <3>1. conn' = [c \in Conns |-> conn'[c]]  BY <2>3
    <3> QED  BY <2>4, <3>1
  <2>6. waiting \in SUBSET Conns /\ IsFiniteSet(waiting) /\ Cardinality(waiting) \in Nat
    <3>1. waiting \in SUBSET Conns  OBVIOUS
    <3> HIDE DEF waiting
    <3> QED  BY <3>1, ConnsAssumption, FS_Subset, FS_CardinalityType
  <2>7. queues["down"] = Cardinality(waiting)  BY <1>0, <1>3 DEF Counted
  <2>8. queues' \in [Channels -> Int] /\ queues'["down"] = 0 /\ queues'["up"] = queues["up"]
    <3> HIDE DEF waiting
    <3>1. queues["down"] - Cardinality(waiting) = 0  BY <2>6, <2>7
    <3> QED  BY <1>0, <1>4, <2>3, <3>1
  <2>9. Now' = [conn |-> conn', queues |-> queues']  BY DEF Now
  <2>10. Now' \in State /\ Now'.conn = conn' /\ Now'.queues = queues'  BY <2>5, <2>8, <2>9 DEF State
  <2>11. Counted(Now')
    <3>1. {c \in Conns : "disk" \in conn'[c].flags["down"]} = {}  BY <2>4
    <3>2. {c \in Conns : "disk" \in conn'[c].flags["up"]} = {c \in Conns : "disk" \in conn[c].flags["up"]}
      BY <2>4
    <3>3. queues["up"] = Cardinality({c \in Conns : "disk" \in conn[c].flags["up"]})
      BY <1>0, <1>3 DEF Counted
    <3>4. queues'["down"] = Cardinality({c \in Conns : "disk" \in conn'[c].flags["down"]})
      BY <2>8, <3>1, FS_EmptySet
    <3>5. queues'["up"] = Cardinality({c \in Conns : "disk" \in conn'[c].flags["up"]})
      BY <2>8, <3>2, <3>3
    <3>6. \A ch \in Channels : ch = "up" \/ ch = "down"  BY DEF Channels
    <3> QED  BY <2>10, <3>4, <3>5, <3>6 DEF Counted
  <2> QED  BY <2>4, <2>10, <2>11 DEF ConnsRight
<1> QED  BY <1>5, <1>6

\* The disk thread takes a block: if it lets the connections go, it says so.
LEMMA TakeWriteKeeps ==
    ASSUME GateRight, ConnsRight, NEW c \in Conns, TakeWrite(c)
    PROVE  GateRight' /\ ConnsRight'
<1> DEFINE bytes == gate.bytes - 1
           over == gate.exceeded /\ LowEnough(bytes)
<1>1. /\ conn' = conn /\ queues' = queues /\ writes[c] > 0 /\ writes' = [writes EXCEPT ![c] = @ - 1]
      /\ gate' = [bytes |-> bytes, exceeded |-> gate.exceeded /\ ~over,
                  posted |-> gate.posted + (IF over THEN 1 ELSE 0)]
  BY DEF TakeWrite
<1>2. gate.exceeded \in BOOLEAN /\ gate.posted \in Nat /\ gate.bytes \in Int  BY DEF GateRight
<1>3. /\ gate'.exceeded = (gate.exceeded /\ ~over) /\ gate'.bytes = gate.bytes - 1
      /\ gate'.posted = gate.posted + (IF over THEN 1 ELSE 0)
  BY <1>1
<1>4. gate' \in [exceeded : BOOLEAN, posted : Nat, bytes : Int]
  <2>1. gate.posted + (IF over THEN 1 ELSE 0) \in Nat /\ bytes \in Int
        /\ (gate.exceeded /\ ~over) \in BOOLEAN
    BY <1>2
  <2> HIDE DEF over, bytes
  <2> QED  BY <1>1, <2>1
<1>5. /\ writes' \in [Conns -> Nat] /\ IsFiniteSet(Units(writes'))
      /\ Cardinality(Units(writes')) = Cardinality(Units(writes)) - 1
  BY <1>1, UnitsTaken DEF GateRight
<1>6. gate'.bytes = Cardinality(Units(writes'))  BY <1>3, <1>5 DEF GateRight
<1>7. gate'.exceeded => gate'.bytes > 0
  <2>1. gate'.exceeded => ~(gate'.bytes < LowWatermark)  BY <1>3 DEF LowEnough
  <2>2. gate'.bytes \in Int /\ LowWatermark \in Nat \ {0}  BY <1>2, <1>3, BoundsAssumption
  <2> QED  BY <2>1, <2>2
<1>8. GateRight'  BY <1>4, <1>5, <1>6, <1>7 DEF GateRight
<1>9. Told => Told'
  <2>1. over => gate'.posted > 0  BY <1>2, <1>3
  <2>2. ~over => gate'.exceeded = gate.exceeded /\ gate'.posted = gate.posted  BY <1>2, <1>3
  <2> HIDE DEF over
  <2> QED  BY <2>1, <2>2 DEF Told
<1>10. Now' = Now  BY <1>1 DEF Now
<1>11. \A d \in Conns : ConnRight(conn'[d], Told')
  BY <1>1, <1>9 DEF ConnsRight, ConnRight, DownRight
<1> QED  BY <1>8, <1>10, <1>11 DEF ConnsRight

-----------------------------------------------------------------------------
(* The invariant holds. *)

\* A step that leaves the queue of the disk thread alone.
LEMMA GateSame ==
    ASSUME GateRight, writes' = writes,
           gate' = gate \/ (gate.posted > 0 /\ gate' = [gate EXCEPT !.posted = @ - 1])
    PROVE  GateRight'
<1>1. gate' \in [exceeded : BOOLEAN, posted : Nat, bytes : Int]
      /\ gate'.exceeded = gate.exceeded /\ gate'.bytes = gate.bytes
  <2>1. CASE gate' = gate  BY <2>1 DEF GateRight
  <2>2. CASE gate.posted > 0 /\ gate' = [gate EXCEPT !.posted = @ - 1]
    <3>1. gate.posted - 1 \in Nat  BY <2>2 DEF GateRight
    <3> QED  BY <2>2, <3>1 DEF GateRight
  <2> QED  BY <2>1, <2>2
<1> QED  BY <1>1 DEF GateRight

\* Blocks that are handed to the disk thread raise what it counts.
LEMMA ReceiveGate ==
    ASSUME GateRight, NEW c \in Conns, NEW n \in 0 .. MaxQuota, NEW k \in 0 .. MaxQuota,
           NEW error \in BOOLEAN, NEW gu \in Grants, NEW gd \in Grants,
           OnReceiveData(c, n, k, error, gu, gd)
    PROVE  GateRight'
<1>1. CASE conn[c].state = "closed" \/ error
  <2>1. writes' = writes /\ gate' = gate  BY <1>1 DEF OnReceiveData
  <2> QED  BY <2>1, GateSame
<1>2. CASE ~(conn[c].state = "closed" \/ error)
  <2> DEFINE over == \E j \in 1 .. k : gate.bytes + j >= MaxQueued
  <2>1. /\ writes' = [writes EXCEPT ![c] = @ + k]
        /\ gate' = [gate EXCEPT !.exceeded = @ \/ over, !.bytes = @ + k]
    BY <1>2 DEF OnReceiveData
  <2>2. k \in Nat  BY BoundsAssumption
  <2>3. gate.bytes \in Nat /\ (over => k > 0)
    BY <2>2, FS_CardinalityType DEF GateRight
  <2>4. /\ writes' \in [Conns -> Nat] /\ IsFiniteSet(Units(writes'))
        /\ Cardinality(Units(writes')) = Cardinality(Units(writes)) + k
    BY <2>1, <2>2, UnitsAdded, ZenonT(60) DEF GateRight
  <2> HIDE DEF over
  <2>5. /\ gate' \in [exceeded : BOOLEAN, posted : Nat, bytes : Int]
        /\ gate'.exceeded = (gate.exceeded \/ over) /\ gate'.bytes = gate.bytes + k
    <3>1. (gate.exceeded \/ over) \in BOOLEAN /\ gate.bytes + k \in Int  BY <2>2, <2>3
    <3> QED  BY <2>1, <3>1 DEF GateRight
  <2>6. gate'.bytes = Cardinality(Units(writes'))  BY <2>4, <2>5 DEF GateRight
  <2>7. gate'.exceeded => gate'.bytes > 0
    <3>1. gate.exceeded => gate.bytes > 0  BY DEF GateRight
    <3> QED  BY <2>2, <2>3, <2>5, <3>1
  <2> QED  BY <2>4, <2>5, <2>6, <2>7 DEF GateRight
<1> QED  BY <1>1, <1>2

\* It holds initially.
LEMMA IOInit == Init => IOInv
<1> SUFFICES ASSUME Init  PROVE IOInv  OBVIOUS
<1>1. conn = [c \in Conns |-> Idle] /\ writes = [c \in Conns |-> 0]
      /\ gate = [exceeded |-> FALSE, posted |-> 0, bytes |-> 0] /\ queues = [ch \in Channels |-> 0]
  BY DEF Init
<1>2. Units(writes) = {}  BY <1>1 DEF Units
<1>3. GateRight  BY <1>1, <1>2, FS_EmptySet DEF GateRight
<1>4. Now \in State /\ Now.conn = conn /\ Now.queues = queues
  BY <1>1, IdleState DEF Now, State
<1>5. \A ch \in Channels : {c \in Conns : "disk" \in conn[c].flags[ch]} = {}  BY <1>1, IdleState
<1>6. Counted(Now)
  <2>1. \A ch \in Channels : queues[ch] = 0  BY <1>1
  <2>2. \A ch \in Channels : Cardinality({c \in Conns : "disk" \in conn[c].flags[ch]}) = 0
    BY <1>5, FS_EmptySet
  <2> QED  BY <1>4, <2>1, <2>2 DEF Counted
<1>7. \A c \in Conns : ConnRight(conn[c], Told)
  BY <1>1, IdleState DEF ConnRight, DownRight
<1> QED  BY <1>3, <1>4, <1>6, <1>7 DEF IOInv, ConnsRight

\* And every step keeps it.
LEMMA IOStep == IOInv /\ [Next]_vars => IOInv'
<1> SUFFICES ASSUME IOInv, [Next]_vars  PROVE IOInv'  OBVIOUS
<1>0. GateRight /\ ConnsRight  BY DEF IOInv
<1>1. ASSUME NEW c \in Conns, NEW q \in Grants, NEW g \in Grants, NEW h \in Grants, Start(c, q, g, h)
      PROVE  IOInv'
  <2>1. writes' = writes /\ gate' = gate  BY <1>1 DEF Start
  <2> QED  BY <1>0, <1>1, <2>1, GateSame, StartKeeps DEF IOInv
<1>2. ASSUME NEW c \in Conns, NEW r \in BOOLEAN, NEW g \in Grants, Send(c, r, g)
      PROVE  IOInv'
  <2>1. writes' = writes /\ gate' = gate  BY <1>2 DEF Send
  <2> QED  BY <1>0, <1>2, <2>1, GateSame, SendKeeps DEF IOInv
<1>3. ASSUME NEW c \in Conns, AskRead(c)  PROVE  IOInv'
  <2>1. writes' = writes /\ gate' = gate  BY <1>3 DEF AskRead
  <2> QED  BY <1>0, <1>3, <2>1, GateSame, AskReadKeeps DEF IOInv
<1>4. ASSUME NEW c \in Conns, NEW ok \in BOOLEAN, NEW g \in Grants, OnDiskReadComplete(c, ok, g)
      PROVE  IOInv'
  <2>1. writes' = writes /\ gate' = gate  BY <1>4 DEF OnDiskReadComplete
  <2> QED  BY <1>0, <1>4, <2>1, GateSame, ReadCompleteKeeps DEF IOInv
<1>5. ASSUME NEW c \in Conns, Disconnect(c)  PROVE  IOInv'
  <2>1. writes' = writes /\ gate' = gate  BY <1>5 DEF Disconnect
  <2> QED  BY <1>0, <1>5, <2>1, GateSame, DisconnectKeeps DEF IOInv
<1>6. ASSUME NEW c \in Conns, NEW n \in 0 .. MaxBuffer, NEW e \in BOOLEAN, NEW g \in Grants,
             OnSendData(c, n, e, g)
      PROVE  IOInv'
  <2>1. writes' = writes /\ gate' = gate  BY <1>6 DEF OnSendData
  <2> QED  BY <1>0, <1>6, <2>1, GateSame, SendDataKeeps DEF IOInv
<1>7. ASSUME NEW c \in Conns, NEW ch \in Channels, NEW n \in 1 .. MaxQuota, NEW g \in Grants,
             AssignBandwidth(c, ch, n, g)
      PROVE  IOInv'
  <2>1. writes' = writes /\ gate' = gate  BY <1>7 DEF AssignBandwidth
  <2> QED  BY <1>0, <1>7, <2>1, GateSame, AssignKeeps DEF IOInv
<1>8. ASSUME NEW c \in Conns, NEW n \in 0 .. MaxQuota, NEW k \in 0 .. MaxQuota, NEW e \in BOOLEAN,
             NEW g \in Grants, NEW h \in Grants, OnReceiveData(c, n, k, e, g, h)
      PROVE  IOInv'
  BY <1>0, <1>8, ReceiveGate, ReceiveDataKeeps DEF IOInv
<1>9. ASSUME NEW c \in Conns, NEW g \in Grants, OnDiskWriteComplete(c, g)  PROVE  IOInv'
  <2>1. writes' = writes /\ gate' = gate  BY <1>9 DEF OnDiskWriteComplete
  <2> QED  BY <1>0, <1>9, <2>1, GateSame, WriteCompleteKeeps DEF IOInv
<1>10. ASSUME NEW g \in [Conns -> Grants], OnDiskQueue(g)  PROVE  IOInv'
  <2>1. writes' = writes /\ gate.posted > 0 /\ gate' = [gate EXCEPT !.posted = @ - 1]
    BY <1>10 DEF OnDiskQueue
  <2>2. GateRight'  BY <1>0, <2>1, GateSame
  <2> QED  BY <1>0, <1>10, <2>2, DiskQueueKeeps DEF IOInv
<1>11. ASSUME NEW c \in Conns, TakeWrite(c)  PROVE  IOInv'
  BY <1>0, <1>11, TakeWriteKeeps DEF IOInv
<1>12. CASE UNCHANGED vars
  BY <1>0, <1>12
  DEF vars, IOInv, GateRight, ConnsRight, Now, Told
<1> QED  BY <1>1, <1>2, <1>3, <1>4, <1>5, <1>6, <1>7, <1>8, <1>9, <1>10, <1>11, <1>12 DEF Next

\* What the invariant says of a queue that is too long: something is in it.
LEMMA ExceededIsQueued == GateRight /\ gate.exceeded => \E d \in Conns : writes[d] > 0
<1> SUFFICES ASSUME GateRight, gate.exceeded  PROVE \E d \in Conns : writes[d] > 0  OBVIOUS
<1>1. gate.bytes > 0 /\ gate.bytes = Cardinality(Units(writes))  BY DEF GateRight
<1>2. Units(writes) # {}
  <2>1. Cardinality({}) = 0  BY FS_EmptySet
  <2> QED  BY <1>1, <2>1
<1>3. PICK x \in Conns \X Nat : x[2] < writes[x[1]]  BY <1>2 DEF Units
<1>4. x[1] \in Conns /\ x[2] \in Nat /\ writes[x[1]] \in Nat  BY <1>3 DEF GateRight
<1> QED  BY <1>3, <1>4

\* A connection that is up always waits for something that comes: no channel is
\* left behind by setup_send, setup_receive and the gate of the disk thread.
THEOREM StallTheorem == Spec => []NeverStalls
<1>1. Init => IOInv  BY IOInit
<1>2. IOInv /\ [Next]_vars => IOInv'  BY IOStep
<1>3. IOInv => NeverStalls
  BY ExceededIsQueued DEF IOInv, ConnsRight, ConnRight, UpRight, DownRight, Told, NeverStalls
<1> QED  BY <1>1, <1>2, <1>3, PTL DEF Spec

\* m_disk_queues counts the connections that wait for the disk, quota is never
\* overdrawn, and no channel waits for quota it has.
THEOREM CountTheorem == Spec => []WaitsAreCounted
<1>1. Init => IOInv  BY IOInit
<1>2. IOInv /\ [Next]_vars => IOInv'  BY IOStep
<1>3. IOInv => WaitsAreCounted
  <2> SUFFICES ASSUME IOInv  PROVE WaitsAreCounted  OBVIOUS
  <2>1. Counted(Now) /\ Now.conn = conn /\ Now.queues = queues
    BY DEF IOInv, ConnsRight, Now
  <2>2. \A ch \in Channels : queues[ch] = Cardinality({c \in Conns : "disk" \in conn[c].flags[ch]})
    BY <2>1 DEF Counted
  <2>3. \A c \in Conns : Fine(conn[c])  BY DEF IOInv, ConnsRight, ConnRight
  <2> QED  BY <2>2, <2>3 DEF WaitsAreCounted, Fine
<1> QED  BY <1>1, <1>2, <1>3, PTL DEF Spec
=============================================================================
