------------------------- MODULE SapBrowser_proofs -------------------------
(* The two ways by which the browser learns of sources: the timeouts of    *)
(* SapBrowser, for any intervals, any period of checks, any multiplier and *)
(* any number of losses; and the connections and bounds of RtspDiscovery,  *)
(* for any number of tasks, versions and failures.                         *)
EXTENDS SapBrowser, Sequences, FiniteSets, TLAPS

(* At the last check the entry was not timed out, or it is newer.          *)
FreshAtCheck ==
  entry # NoEntry => checked - entry.seen <= entry.period * Multiplier

(* While no late copy is in the way, the next announcement comes at least  *)
(* one shortest gap after the entry was refreshed and at most one longest  *)
(* gap for each announcement lost since and one more; and a period that    *)
(* was measured between two announcements is not below the shortest.       *)
Schedule ==
  entry # NoEntry /\ announcer = "on" =>
    /\ clean >= 1 => /\ next >= entry.seen + MinGap
                     /\ next <= entry.seen + (lost + 1) * MaxGap
    /\ clean = 2 => entry.period >= Shortest

IInv == TypeOK /\ FreshAtCheck

(* A period is a number of seconds that never makes a timeout negative.    *)
LEMMA ProductNat == \A p, m \in Nat : p * m \in Nat
  OBVIOUS

(* The bound on the age of an entry follows from the last check.           *)
LEMMA AgeBound == IInv => RemovedAfterSilence
  <1> SUFFICES ASSUME IInv, entry # NoEntry
               PROVE  now - entry.seen <= entry.period * Multiplier + CheckInterval + 2
    BY DEF RemovedAfterSilence
  <1> DEFINE limit == entry.period * Multiplier
  <1>1. entry.seen \in Nat /\ entry.period \in Nat
    BY DEF IInv, TypeOK, Entry
  <1>2. limit \in Nat
    BY <1>1, BrowserConstants, ProductNat
  <1>3. checked - entry.seen <= limit
    BY DEF IInv, FreshAtCheck
  <1> HIDE DEF limit
  <1>4. now - entry.seen <= limit + CheckInterval + 2
    BY <1>1, <1>2, <1>3, BrowserConstants DEF IInv, TypeOK
  <1> QED
    BY <1>4 DEF limit

(* Nothing is in the table at the start.                                   *)
LEMMA InitIInv == Init => IInv
  BY BrowserConstants DEF Init, IInv, TypeOK, FreshAtCheck, NoEntry

(* An announcement refreshes the entry: it is typed and seen now.          *)
LEMMA HeardFacts ==
  ASSUME TypeOK
  PROVE  Heard \in Entry /\ Heard.seen = now /\ Heard # NoEntry
  BY BrowserConstants DEF TypeOK, Heard, Entry, NoEntry

(* A refreshed entry is newer than the last check.                         *)
LEMMA HeardFresh ==
  ASSUME TypeOK, entry' = Heard, UNCHANGED <<now, checked>>
  PROVE  FreshAtCheck'
  <1>1. Heard.period * Multiplier \in Nat
    BY HeardFacts, ProductNat, BrowserConstants DEF Entry
  <1>2. checked - Heard.seen <= 0
    BY HeardFacts DEF TypeOK
  <1>3. checked - Heard.seen <= Heard.period * Multiplier
    <2> DEFINE limit == Heard.period * Multiplier
    <2>1. limit \in Nat
      BY <1>1
    <2> HIDE DEF limit
    <2>2. checked - Heard.seen <= limit
      BY <1>2, <2>1, HeardFacts DEF TypeOK
    <2> QED
      BY <2>2 DEF limit
  <1> QED
    BY <1>3 DEF FreshAtCheck

(* Every step keeps types and freshness.                                   *)
LEMMA NextIInv == IInv /\ [Next]_vars => IInv'
  <1> SUFFICES ASSUME IInv, [Next]_vars PROVE IInv'
    OBVIOUS
  <1> USE BrowserConstants DEF IInv
  <1>1. CASE Announce
    <2>1. entry' = Heard /\ UNCHANGED <<now, checked>>
      BY <1>1 DEF Announce, ReceiveAnnouncement
    <2>2. TypeOK'
      BY <1>1, <2>1, HeardFacts DEF Announce, AnnounceDue, TypeOK
    <2> QED
      BY <2>1, <2>2, HeardFresh
  <1>2. CASE LoseAnnouncement
    BY <1>2 DEF LoseAnnouncement, AnnounceDue, TypeOK, FreshAtCheck
  <1>3. CASE Echo
    <2>1. entry' = Heard /\ UNCHANGED <<now, checked>>
      BY <1>3 DEF Echo, ReceiveAnnouncement
    <2>2. TypeOK'
      BY <1>3, <2>1, HeardFacts DEF Echo, TypeOK
    <2> QED
      BY <2>1, <2>2, HeardFresh
  <1>4. CASE Withdraw
    <2>1. entry' \in {entry, NoEntry}
      BY <1>4 DEF Withdraw, ReceiveDeletion
    <2>2. TypeOK'
      BY <1>4, <2>1 DEF Withdraw, TypeOK, NoEntry
    <2> QED
      BY <1>4, <2>1, <2>2 DEF Withdraw, FreshAtCheck
  <1>5. CASE RepeatDeletion
    <2>1. entry' = NoEntry
      BY <1>5 DEF RepeatDeletion, ReceiveDeletion
    <2>2. TypeOK'
      BY <1>5, <2>1 DEF RepeatDeletion, TypeOK, NoEntry, network
    <2> QED
      BY <2>1, <2>2 DEF FreshAtCheck
  <1>6. CASE CheckTimeouts
    <2>1. entry' \in {entry, NoEntry}
      BY <1>6 DEF CheckTimeouts
    <2>2. TypeOK'
      BY <1>6, <2>1 DEF CheckTimeouts, TypeOK, NoEntry, network
    <2>3. FreshAtCheck'
      <3> SUFFICES ASSUME entry' # NoEntry
                   PROVE  checked' - entry'.seen <= entry'.period * Multiplier
        BY DEF FreshAtCheck
      <3>1. entry' = entry /\ entry # NoEntry /\ ~TimedOut(entry) /\ checked' = now
        BY <1>6, <2>1 DEF CheckTimeouts
      <3> DEFINE limit == entry.period * Multiplier
      <3>2. limit \in Nat /\ entry.seen \in Nat
        BY <3>1, ProductNat DEF TypeOK, Entry
      <3>3. ~(now - entry.seen > limit)
        BY <3>1 DEF TimedOut
      <3> HIDE DEF limit
      <3>4. checked' - entry'.seen <= limit
        BY <3>1, <3>2, <3>3 DEF TypeOK
      <3> QED
        BY <3>1, <3>4 DEF limit
    <2> QED
      BY <2>2, <2>3
  <1>7. CASE Tick
    <2>1. /\ now' = now + 1 /\ now < MaxNow
          /\ UNCHANGED <<entry, checked, announcer, next, lost, echo, echoes, clean>>
          /\ announcer = "on" => next # now
          /\ ~(now - checked > CheckInterval + 1)
      BY <1>7 DEF Tick, network, CheckLate, AnnounceDue
    <2>2. entry.seen \in Int
      BY DEF TypeOK, Entry, NoEntry
    <2>3. announcer' = "on" => next' \in now'..now' + MaxGap
      BY <2>1, <2>2 DEF TypeOK
    <2>4. TypeOK'
      BY <2>1, <2>2, <2>3 DEF TypeOK
    <2> QED
      BY <2>1, <2>4 DEF FreshAtCheck
  <1>8. CASE UNCHANGED vars
    BY <1>8 DEF vars, TypeOK, FreshAtCheck
  <1> QED
    BY <1>1, <1>2, <1>3, <1>4, <1>5, <1>6, <1>7, <1>8 DEF Next, Horizon

(* A session that went silent is gone after Multiplier of its periods and  *)
(* one round of checks, whatever was lost or repeated before.              *)
THEOREM SilentRemoved == Spec => []RemovedAfterSilence
  BY InitIInv, NextIInv, AgeBound, PTL DEF Spec

(* The schedule of announcements holds initially.                          *)
LEMMA InitSchedule == Init => Schedule
  BY DEF Init, Schedule

(* An announcement that arrives: the period it leaves was measured between *)
(* two announcements, or is the node's own interval.                       *)
LEMMA AnnounceSchedule ==
  ASSUME TypeOK, Schedule, Announce
  PROVE  Schedule'
  <1> USE BrowserConstants
  <1>1. /\ announcer = "on" /\ next = now /\ entry' = Heard
        /\ next' \in now + MinGap..now + MaxGap /\ lost' = 0
        /\ clean' = IF clean = 2 \/ entry = NoEntry THEN 2 ELSE clean + 1
    BY DEF Announce, AnnounceDue, ReceiveAnnouncement
  <1>2. /\ now \in Nat /\ clean \in 0..2 /\ entry'.seen = now
        /\ Shortest \in Nat /\ Shortest <= MinGap /\ Shortest <= SapInterval
    BY <1>1, HeardFacts DEF TypeOK, Shortest
  <1>3. next' >= entry'.seen + MinGap /\ next' <= entry'.seen + (lost' + 1) * MaxGap
    BY <1>1, <1>2
  <1>4. ASSUME clean' = 2 PROVE entry'.period >= Shortest
    <2>1. CASE entry = NoEntry
      BY <1>1, <1>2, <2>1 DEF Heard
    <2>2. CASE entry # NoEntry
      <3>1. clean >= 1 /\ entry.seen \in Nat
        BY <1>1, <1>2, <1>4, <2>2 DEF TypeOK, Entry
      <3>2. now >= entry.seen + MinGap
        BY <1>1, <2>2, <3>1 DEF Schedule
      <3>3. now # entry.seen /\ now - entry.seen >= MinGap
        BY <1>2, <3>1, <3>2
      <3> QED
        BY <1>1, <1>2, <2>2, <3>1, <3>3 DEF Heard
    <2> QED
      BY <2>1, <2>2
  <1> QED
    BY <1>1, <1>3, <1>4 DEF Schedule

(* Every step keeps the schedule.                                          *)
LEMMA NextSchedule == TypeOK /\ Schedule /\ [Next]_vars => Schedule'
  <1> SUFFICES ASSUME TypeOK, Schedule, [Next]_vars PROVE Schedule'
    OBVIOUS
  <1> USE BrowserConstants
  <1>1. CASE Announce
    BY <1>1, AnnounceSchedule
  <1>2. CASE LoseAnnouncement
    <2>1. /\ next = now /\ lost' = lost + 1
          /\ next' >= now + MinGap /\ next' <= now + MaxGap /\ next' \in Int
          /\ UNCHANGED <<entry, announcer, clean>>
      BY <1>2 DEF LoseAnnouncement, AnnounceDue, TypeOK
    <2>2. ASSUME NEW s \in Nat, now >= s + MinGap, now <= s + (lost + 1) * MaxGap
          PROVE  next' >= s + MinGap /\ next' <= s + (lost' + 1) * MaxGap
      <3>1. lost \in Nat /\ now \in Nat
        BY DEF TypeOK
      <3>2. (lost + 1 + 1) * MaxGap = (lost + 1) * MaxGap + MaxGap
        BY <3>1
      <3> DEFINE due == (lost + 1) * MaxGap
      <3>3. due \in Nat
        BY <3>1, ProductNat
      <3>4. (lost' + 1) * MaxGap = due + MaxGap
        BY <2>1, <3>2
      <3>5. now <= s + due
        BY <2>2
      <3> HIDE DEF due
      <3> QED
        BY <2>1, <2>2, <3>1, <3>3, <3>4, <3>5
    <2>3. entry # NoEntry => entry.seen \in Nat
      BY DEF TypeOK, Entry
    <2> QED
      BY <2>1, <2>2, <2>3 DEF Schedule
  <1>3. CASE Echo
    BY <1>3 DEF Echo, Schedule
  <1>4. CASE Withdraw
    BY <1>4 DEF Withdraw, Schedule
  <1>5. CASE RepeatDeletion
    BY <1>5 DEF RepeatDeletion, network, Schedule
  <1>6. CASE CheckTimeouts
    BY <1>6 DEF CheckTimeouts, network, Schedule
  <1>7. CASE Tick
    BY <1>7 DEF Tick, network, Schedule
  <1>8. CASE UNCHANGED vars
    BY <1>8 DEF vars, Schedule
  <1> QED
    BY <1>1, <1>2, <1>3, <1>4, <1>5, <1>6, <1>7, <1>8 DEF Next, Horizon

(* A timeout that fires on an entry whose period no late copy shortened    *)
(* comes after that many losses.                                           *)
LEMMA TimeoutNeedsLosses ==
  ASSUME TypeOK, Schedule, entry # NoEntry, announcer = "on", clean = 2, TimedOut(entry)
  PROVE  (lost + 1) * MaxGap > Multiplier * Shortest
  <1> USE BrowserConstants
  <1>1. /\ entry.seen \in Nat /\ entry.period \in Nat /\ lost \in Nat
        /\ Shortest \in Nat /\ now \in Nat /\ now <= next /\ next \in Int
        /\ Multiplier \in Nat
    BY DEF TypeOK, Entry, Shortest
  <1>2. next <= entry.seen + (lost + 1) * MaxGap /\ entry.period >= Shortest
    BY DEF Schedule
  <1>3. entry.period * Multiplier >= Multiplier * Shortest
    <2>1. \A m, p, q \in Nat : p >= q => p * m >= m * q
      OBVIOUS
    <2> QED
      BY <1>1, <1>2, <2>1
  <1>4. now - entry.seen > entry.period * Multiplier
    BY DEF TimedOut
  <1> DEFINE due == (lost + 1) * MaxGap
             limit == entry.period * Multiplier
             least == Multiplier * Shortest
  <1>5. due \in Nat /\ limit \in Nat /\ least \in Nat
    BY <1>1, ProductNat
  <1>6. next <= entry.seen + due /\ limit >= least /\ now - entry.seen > limit
    BY <1>2, <1>3, <1>4
  <1> HIDE DEF due, limit, least
  <1>7. due > least
    BY <1>1, <1>5, <1>6
  <1> QED
    BY <1>7 DEF due, least

(* "remove all sessions no longer announced": a session that is announced, *)
(* at gaps that vary between MinGap and MaxGap, leaves the table only      *)
(* after as many losses in a row as the ratio of the two allows (or soon   *)
(* after a late copy), whatever this node's own sap_interval.              *)
THEOREM AnnouncedKept == Spec => KeptWhileAnnounced
  <1>1. ASSUME TypeOK, Schedule, [Next]_vars
        PROVE  [entry # NoEntry /\ entry' = NoEntry /\ announcer' = "on" /\ clean = 2
                  => (lost + 1) * MaxGap > Multiplier * Shortest]_vars
    <2> SUFFICES ASSUME Next, entry # NoEntry, entry' = NoEntry, announcer' = "on", clean = 2
                 PROVE  (lost + 1) * MaxGap > Multiplier * Shortest
      BY <1>1
    <2>1. CASE Announce \/ Echo
      BY <1>1, <2>1, HeardFacts DEF Announce, Echo, ReceiveAnnouncement
    <2>2. CASE CheckTimeouts
      BY <1>1, <2>2, TimeoutNeedsLosses DEF CheckTimeouts, network
    <2>3. CASE LoseAnnouncement \/ Withdraw \/ RepeatDeletion \/ Tick \/ Horizon
      BY <2>3 DEF LoseAnnouncement, Withdraw, RepeatDeletion, Tick, Horizon, network, vars
    <2> QED
      BY <2>1, <2>2, <2>3 DEF Next
  <1>2. IInv => TypeOK
    BY DEF IInv
  <1> QED
    BY <1>1, <1>2, InitIInv, NextIInv, InitSchedule, NextSchedule, PTL
       DEF Spec, KeptWhileAnnounced

(* The types, and that no check and no announcement is overtaken by the    *)
(* clock.                                                                  *)
THEOREM BrowserTypes == Spec => []TypeOK
  <1>1. IInv => TypeOK
    BY DEF IInv
  <1> QED
    BY <1>1, InitIInv, NextIInv, PTL DEF Spec

-----------------------------------------------------------------------------
(* The sources the browser knows through mDNS and RTSP (RtspDiscovery).    *)

CONSTANTS Tasks, None, MaxVersion, MaxFaults, MaxTime

VARIABLES version, drawn, updating, service, events, server, wire, resolving, removing,
          task, client, table, last_update, worker, last_sink_update, sink, refused, faults, late,
          missed, crowded

Disc == INSTANCE RtspDiscovery

(* Versions the sources have been given: the last one drawn is under way   *)
(* while add_source holds the lock.                                        *)
Given == IF updating THEN drawn - 1 ELSE drawn

(* Every version given out is registered and withdrawn once at most.       *)
SourceOK ==
  /\ drawn \in 0..MaxVersion /\ Given \in Nat /\ version \in 0..Given
  /\ updating => ~service
  /\ events \in Seq({"new", "remove"})
  /\ Len(events) + (IF service THEN 1 ELSE 0) <= 2 * Given

(* A connection of a task: it starts out empty, gets one response and then *)
(* at most one announcement for each version after the one described.      *)
Servers == [state : {"closed", "asked", "answer", "idle"}, described : BOOLEAN, sdp : Nat]
Runs == [at : {"none", "start", "connect", "ask", "deliver", "await"}, carry : Nat]
Messages == {"response", "announce"} \X Nat

ConnectionOK(c) ==
  /\ server[c] \in Servers /\ task[c] \in Runs /\ wire[c] \in Seq(Messages)
  /\ server[c].state # "closed" => task[c].at \in {"ask", "deliver", "await"}
  /\ task[c].at \in {"none", "start", "connect"} => wire[c] = <<>>
  /\ server[c].state \in {"asked", "answer"} => wire[c] = <<>>
  /\ server[c].described => server[c].state = "idle" /\ Len(wire[c]) <= Given
  /\ server[c].sdp <= Given /\ task[c].carry <= drawn
  /\ Len(wire[c]) <= drawn /\ \A k \in DOMAIN wire[c] : wire[c][k][2] <= drawn
  /\ task[c].at # "none" => drawn # 0

ConnectionsOK ==
  /\ DOMAIN server = Tasks /\ DOMAIN wire = Tasks /\ DOMAIN task = Tasks
  /\ \A c \in Tasks : ConnectionOK(c)

ClientOK ==
  /\ client \in Tasks \cup {None}
  /\ client # None => task[client].at \notin {"none", "start"}
  /\ resolving => drawn # 0

SinksOK ==
  /\ now \in Nat \ {0} /\ table \in 0..drawn /\ refused \in 0..drawn
  /\ sink \in (0..drawn) \cup {-1}
  /\ last_update \in 0..now /\ last_sink_update \in 0..now
  /\ worker \in [at : {"idle", "read", "apply"}, ts : Nat, found : Nat]
  /\ worker.ts <= now /\ worker.found <= drawn

DiscInv == SourceOK /\ ConnectionsOK /\ ClientOK /\ SinksOK

(* What the parts of the invariant need of a step.                         *)
LEMMA GivenTyped == ASSUME DiscInv PROVE Given \in Nat /\ drawn \in Nat /\ Given <= drawn
BY DEF DiscInv, SourceOK, Given

LEMMA ConnectionKept ==
  ASSUME DiscInv, NEW c \in Tasks,
         server'[c] = server[c], wire'[c] = wire[c], task'[c] = task[c],
         drawn' \in Nat, Given' \in Nat, drawn <= drawn', Given <= Given'
  PROVE  ConnectionOK(c)'
<1>1. ConnectionOK(c) /\ drawn \in Nat /\ Given \in Nat
  BY GivenTyped DEF DiscInv, ConnectionsOK
<1>2. server[c].sdp \in Nat /\ task[c].carry \in Nat /\ Len(wire[c]) \in Nat
  BY <1>1 DEF ConnectionOK, Servers, Runs
<1>3. \A k \in DOMAIN wire[c] : wire[c][k][2] \in Nat BY <1>1 DEF ConnectionOK, Messages
<1>4. server[c].sdp <= Given' /\ task[c].carry <= drawn' /\ Len(wire[c]) <= drawn'
  BY <1>1, <1>2 DEF ConnectionOK
<1>5. server[c].described => Len(wire[c]) <= Given' BY <1>1, <1>2 DEF ConnectionOK
<1>6. \A k \in DOMAIN wire[c] : wire[c][k][2] <= drawn' BY <1>1, <1>3 DEF ConnectionOK
<1>7. task[c].at # "none" => drawn' # 0 BY <1>1 DEF ConnectionOK
<1>8. QED BY <1>1, <1>4, <1>5, <1>6, <1>7 DEF ConnectionOK

LEMMA SinksKept ==
  ASSUME DiscInv, UNCHANGED <<now, table, last_update, last_sink_update, worker, sink, refused>>,
         drawn' \in Nat, drawn <= drawn'
  PROVE  SinksOK'
<1>1. drawn \in Nat BY GivenTyped
<1>2. QED BY <1>1 DEF DiscInv, SinksOK

LEMMA SourceKept ==
  ASSUME DiscInv, UNCHANGED <<version, drawn, updating, service, events>>
  PROVE  SourceOK' /\ Given' = Given /\ Given' \in Nat /\ drawn' \in Nat
<1>1. Given' = Given BY DEF Given
<1>2. QED BY <1>1, GivenTyped DEF DiscInv, SourceOK

(* The source is added, updated or removed.                                *)
LEMMA SourceSteps ==
  ASSUME Disc!DiscoveryConstants, DiscInv,
         Disc!AddSource \/ Disc!RemoveSource \/ Disc!UpdateSources \/ Disc!Added
  PROVE  DiscInv'
<1>1. /\ drawn \in Nat /\ Given \in Nat /\ drawn <= MaxVersion /\ MaxVersion \in Nat
      /\ version \in Nat /\ version <= Given /\ events \in Seq({"new", "remove"})
      /\ Len(events) \in Nat
  BY DEF DiscInv, SourceOK, Disc!DiscoveryConstants
<1>2. /\ UNCHANGED <<server, task, client, resolving, now, table, last_update,
                     last_sink_update, worker, sink, refused>>
  BY DEF Disc!AddSource, Disc!RemoveSource, Disc!UpdateSources, Disc!Added, Disc!rtsp,
         Disc!mdns, Disc!browser, Disc!sinks
<1>3. SourceOK' /\ drawn' \in Nat /\ Given' \in Nat /\ drawn <= drawn' /\ Given <= Given'
  <2>1. CASE Disc!AddSource
    <3>1. /\ ~updating /\ drawn < MaxVersion /\ drawn' = drawn + 1 /\ updating' = TRUE
          /\ service' = FALSE /\ version' = version
          /\ events' = IF service THEN Append(events, "remove") ELSE events
      BY <2>1 DEF Disc!AddSource, Disc!RemoveService
    <3>2. Given = drawn /\ Given' = drawn BY <3>1, <1>1 DEF Given
    <3>3. Len(events) + (IF service THEN 1 ELSE 0) <= 2 * drawn
      BY <3>2 DEF DiscInv, SourceOK
    <3>4. events' \in Seq({"new", "remove"}) /\ Len(events') <= 2 * drawn /\ Len(events') \in Nat
      <4>1. CASE service BY <4>1, <3>1, <3>3, <1>1
      <4>2. CASE ~service BY <4>2, <3>1, <3>3, <1>1
      <4>3. QED BY <4>1, <4>2
    <3>5. QED BY <1>1, <3>1, <3>2, <3>4 DEF SourceOK
  <2>2. CASE Disc!RemoveSource
    <3>1. /\ ~updating /\ UNCHANGED <<drawn, updating>> /\ service' = FALSE /\ version' = 0
          /\ events' = IF service THEN Append(events, "remove") ELSE events
      BY <2>2 DEF Disc!RemoveSource, Disc!RemoveService
    <3>2. Given = drawn /\ Given' = drawn BY <3>1 DEF Given
    <3>3. Len(events) + (IF service THEN 1 ELSE 0) <= 2 * drawn
      BY <3>2 DEF DiscInv, SourceOK
    <3>4. events' \in Seq({"new", "remove"}) /\ Len(events') <= 2 * drawn /\ Len(events') \in Nat
      <4>1. CASE service BY <4>1, <3>1, <3>3, <1>1
      <4>2. CASE ~service BY <4>2, <3>1, <3>3, <1>1
      <4>3. QED BY <4>1, <4>2
    <3>5. QED BY <1>1, <3>1, <3>2, <3>4 DEF SourceOK
  <2>3. CASE Disc!UpdateSources
    <3>1. /\ ~updating /\ drawn < MaxVersion /\ drawn' = drawn + 1 /\ version' = drawn + 1
          /\ UNCHANGED <<updating, service, events>>
      BY <2>3 DEF Disc!UpdateSources
    <3>2. Given = drawn /\ Given' = drawn + 1 BY <3>1 DEF Given
    <3>3. Len(events) + (IF service THEN 1 ELSE 0) <= 2 * (drawn + 1)
      BY <1>1, <3>2 DEF DiscInv, SourceOK
    <3>4. QED BY <1>1, <3>1, <3>2, <3>3 DEF SourceOK
  <2>4. CASE Disc!Added
    <3>1. /\ updating /\ updating' = FALSE /\ service' = TRUE /\ version' = drawn
          /\ drawn' = drawn /\ events' = Append(events, "new")
      BY <2>4 DEF Disc!Added, Disc!AddService
    <3>2. Given = drawn - 1 /\ Given' = drawn BY <3>1 DEF Given
    <3>3. ~service /\ Len(events) <= 2 * (drawn - 1)
      BY <3>1, <3>2, <1>1 DEF DiscInv, SourceOK
    <3>4. events' \in Seq({"new", "remove"}) /\ Len(events') = Len(events) + 1
      BY <3>1, <1>1
    <3>5. Len(events') + 1 <= 2 * drawn BY <3>3, <3>4, <1>1
    <3>6. QED BY <1>1, <3>1, <3>2, <3>4, <3>5 DEF SourceOK
  <2>5. QED BY <2>1, <2>2, <2>3, <2>4
<1>4. ConnectionsOK'
  <2>1. CASE wire' = wire
    <3>1. \A c \in Tasks : ConnectionOK(c)' BY <1>2, <1>3, <2>1, ConnectionKept
    <3>2. QED BY <1>2, <2>1, <3>1 DEF DiscInv, ConnectionsOK
  <2>2. CASE wire' # wire
    <3>1. PICK v \in Nat :
            /\ wire' = [c \in Tasks |-> IF Disc!Told(c) THEN Append(wire[c], <<"announce", v>>)
                                        ELSE wire[c]]
            /\ v <= drawn' /\ Given' = Given + 1
      <4>1. CASE Disc!Added
        <5>1. drawn' = drawn /\ updating /\ updating' = FALSE /\ Disc!Announce(drawn)
          BY <4>1 DEF Disc!Added
        <5>2. Given' = Given + 1 BY <5>1, <1>1 DEF Given
        <5>3. drawn \in Nat /\ drawn <= drawn' BY <5>1, <1>1
        <5>4. QED BY <5>1, <5>2, <5>3 DEF Disc!Announce
      <4>2. CASE Disc!UpdateSources
        <5>1. drawn' = drawn + 1 /\ ~updating /\ updating' = updating /\ Disc!Announce(drawn + 1)
          BY <4>2 DEF Disc!UpdateSources
        <5>2. Given' = Given + 1 BY <5>1, <1>1 DEF Given
        <5>3. drawn + 1 \in Nat /\ drawn + 1 <= drawn' BY <5>1, <1>1
        <5>4. QED BY <5>1, <5>2, <5>3 DEF Disc!Announce
      <4>3. QED BY <2>2, <4>1, <4>2
            DEF Disc!AddSource, Disc!RemoveSource, Disc!rtsp
    <3>2. ASSUME NEW c \in Tasks PROVE ConnectionOK(c)'
      <4>1. CASE ~Disc!Told(c)
        <5>1. wire'[c] = wire[c] BY <4>1, <3>1
        <5>2. QED BY <5>1, <1>2, <1>3, ConnectionKept
      <4>2. CASE Disc!Told(c)
        <5>1. /\ ConnectionOK(c) /\ server[c].state = "idle" /\ server[c].described
              /\ wire'[c] = Append(wire[c], <<"announce", v>>) /\ wire[c] \in Seq(Messages)
          BY <4>2, <3>1 DEF Disc!Told, DiscInv, ConnectionsOK, ConnectionOK
        <5>2. <<"announce", v>> \in Messages BY DEF Messages
        <5>3. /\ wire'[c] \in Seq(Messages) /\ Len(wire'[c]) = Len(wire[c]) + 1
              /\ DOMAIN wire'[c] = 1..Len(wire[c]) + 1 /\ Len(wire[c]) \in Nat
              /\ DOMAIN wire[c] = 1..Len(wire[c])
              /\ wire'[c][Len(wire[c]) + 1] = <<"announce", v>>
              /\ \A k \in 1..Len(wire[c]) : wire'[c][k] = wire[c][k]
          BY <5>1, <5>2
        <5>4. Len(wire'[c]) <= Given' /\ Given' <= drawn'
          <6>1. Len(wire[c]) <= Given BY <5>1 DEF ConnectionOK
          <6>2. Given' \in {drawn', drawn' - 1} BY DEF Given
          <6>3. drawn' \in Nat /\ Given' \in Nat /\ Given' = Given + 1 BY <3>1, <1>3
          <6>4. Given' <= drawn' BY <6>2, <6>3
          <6>5. Len(wire'[c]) <= Given' BY <6>1, <6>3, <5>3, <1>1
          <6>6. QED BY <6>4, <6>5
        <5>5. ASSUME NEW k \in DOMAIN wire'[c] PROVE wire'[c][k][2] <= drawn'
          <6>1. CASE k = Len(wire[c]) + 1 BY <6>1, <5>3, <3>1
          <6>2. CASE k \in DOMAIN wire[c]
            <7>1. wire'[c][k] = wire[c][k] /\ wire[c][k][2] <= drawn /\ wire[c][k][2] \in Nat
              BY <6>2, <5>1, <5>3 DEF ConnectionOK, Messages
            <7>2. QED BY <7>1, <1>1, <1>3
          <6>3. QED BY <6>1, <6>2, <5>3, <5>5
        <5>6. server[c].sdp <= Given' /\ task[c].carry <= drawn' /\ Len(wire'[c]) <= drawn'
          <6>1. /\ server[c].sdp \in Nat /\ server[c].sdp <= Given
                /\ task[c].carry \in Nat /\ task[c].carry <= drawn
            BY <5>1 DEF ConnectionOK, Servers, Runs
          <6>2. /\ drawn \in Nat /\ Given \in Nat /\ drawn' \in Nat /\ Given' \in Nat
                /\ drawn <= drawn' /\ Given <= Given'
            BY <1>1, <1>3
          <6>3. server[c].sdp <= Given' /\ task[c].carry <= drawn' BY <6>1, <6>2
          <6>4. Len(wire'[c]) \in Nat BY <5>3
          <6>5. Len(wire'[c]) <= drawn' BY <6>2, <6>4, <5>4
          <6>6. QED BY <6>3, <6>5
        <5>7. drawn' # 0 /\ task[c].at \in {"ask", "deliver", "await"}
          BY <5>1, <5>3, <5>4, <1>3 DEF ConnectionOK
        <5>8. QED BY <5>1, <5>3, <5>4, <5>5, <5>6, <5>7, <1>2 DEF ConnectionOK
      <4>3. QED BY <4>1, <4>2
    <3>3. QED BY <1>2, <3>1, <3>2 DEF DiscInv, ConnectionsOK
  <2>3. QED BY <2>1, <2>2
<1>5. ClientOK' BY <1>1, <1>2, <1>3 DEF DiscInv, ClientOK
<1>6. SinksOK' BY <1>2, <1>3, SinksKept
<1>7. QED BY <1>3, <1>4, <1>5, <1>6 DEF DiscInv

(* A step that leaves the source alone and changes one connection.         *)
LEMMA OneConnection ==
  ASSUME DiscInv, UNCHANGED <<version, drawn, updating, service>>, NEW c \in Tasks,
         DOMAIN server' = Tasks, DOMAIN wire' = Tasks, DOMAIN task' = Tasks,
         \A d \in Tasks \ {c} : server'[d] = server[d] /\ wire'[d] = wire[d]
                                                    /\ task'[d] = task[d],
         ConnectionOK(c)'
  PROVE  ConnectionsOK'
<1>1. Given' = Given BY DEF Given
<1>2. Given' \in Nat /\ drawn' \in Nat /\ drawn <= drawn' /\ Given <= Given'
  BY <1>1, GivenTyped
<1>3. \A d \in Tasks \ {c} : ConnectionOK(d)' BY <1>2, ConnectionKept
<1>4. QED BY <1>3 DEF ConnectionsOK

LEMMA AllConnections ==
  ASSUME DiscInv, UNCHANGED <<version, drawn, updating, service, server, wire, task>>
  PROVE  ConnectionsOK'
<1>1. Given' = Given BY DEF Given
<1>2. Given' \in Nat /\ drawn' \in Nat /\ drawn <= drawn' /\ Given <= Given'
  BY <1>1, GivenTyped
<1>3. \A d \in Tasks : ConnectionOK(d)' BY <1>2, ConnectionKept
<1>4. QED BY <1>3 DEF DiscInv, ConnectionsOK

LEMMA SinksStay ==
  ASSUME DiscInv,
         UNCHANGED <<drawn, now, table, last_update, last_sink_update, worker, sink, refused>>
  PROVE  SinksOK'
<1>1. drawn' \in Nat /\ drawn <= drawn' BY GivenTyped
<1>2. QED BY <1>1, SinksKept

(* What is reported stays within what was registered and withdrawn.        *)
LEMMA EventTaken ==
  ASSUME DiscInv, UNCHANGED <<version, drawn, updating, service>>,
         events # <<>>, events' = Tail(events)
  PROVE  SourceOK' /\ drawn # 0
<1>1. Given' = Given BY DEF Given
<1>2. /\ events \in Seq({"new", "remove"}) /\ Given \in Nat /\ drawn \in Nat /\ Given <= drawn
      /\ Len(events) + (IF service THEN 1 ELSE 0) <= 2 * Given
  BY GivenTyped DEF DiscInv, SourceOK
<1>3. events' \in Seq({"new", "remove"}) /\ Len(events') = Len(events) - 1
      /\ Len(events) \in Nat \ {0}
  BY <1>2
<1>4. Len(events') + (IF service' THEN 1 ELSE 0) <= 2 * Given' BY <1>1, <1>2, <1>3
<1>5. drawn # 0
  <2>1. Len(events) <= 2 * Given BY <1>2, <1>3
  <2>2. QED BY <2>1, <1>2, <1>3
<1>6. QED BY <1>1, <1>3, <1>4, <1>5 DEF DiscInv, SourceOK

(* DESCRIBE, in its two steps.                                             *)
LEMMA DescribeStep ==
  ASSUME DiscInv, NEW c \in Tasks, Disc!Describe(c) \/ Disc!Answer(c)
  PROVE  DiscInv'
<1>1. UNCHANGED <<version, drawn, updating, service, events, task, client, resolving, now,
                  table, last_update, last_sink_update, worker, sink, refused>>
  BY DEF Disc!Describe, Disc!Answer, Disc!node1, Disc!mdns, Disc!browser, Disc!sinks
<1>2. /\ ConnectionOK(c) /\ Given \in Nat /\ drawn \in Nat /\ Given <= drawn
      /\ version \in Nat /\ version <= Given
      /\ DOMAIN server = Tasks /\ DOMAIN wire = Tasks /\ DOMAIN task = Tasks
  BY GivenTyped DEF DiscInv, ConnectionsOK, SourceOK
<1>3. Given' = Given BY <1>1 DEF Given
<1>4. server[c] \in Servers BY <1>2 DEF ConnectionOK
<1>5. ConnectionsOK'
  <2>1. CASE Disc!Describe(c)
    <3>1. /\ server[c].state = "asked" /\ wire' = wire
          /\ server' = [server EXCEPT ![c].state = "answer", ![c].sdp = version]
      BY <2>1 DEF Disc!Describe
    <3>2. server'[c] = [server[c] EXCEPT !.state = "answer", !.sdp = version]
      BY <3>1, <1>2
    <3>3. /\ server'[c] \in Servers /\ server'[c].state = "answer"
          /\ server'[c].sdp = version /\ server'[c].described = server[c].described
      BY <3>2, <1>2, <1>4 DEF Servers
    <3>4. ConnectionOK(c)' BY <1>1, <1>2, <1>3, <3>1, <3>3 DEF ConnectionOK
    <3>5. DOMAIN server' = Tasks /\ \A d \in Tasks \ {c} : server'[d] = server[d]
      BY <3>1, <1>2
    <3>6. QED BY <3>1, <3>4, <3>5, <1>1, <1>2, OneConnection
  <2>2. CASE Disc!Answer(c)
    <3>1. /\ server[c].state = "answer"
          /\ server' = [server EXCEPT ![c].state = "idle", ![c].sdp = 0,
                                      ![c].described = server[c].sdp # 0]
          /\ wire' = [wire EXCEPT ![c] = Append(@, <<"response", server[c].sdp>>)]
      BY <2>2 DEF Disc!Answer
    <3>2. server'[c] = [server[c] EXCEPT !.state = "idle", !.sdp = 0,
                                         !.described = server[c].sdp # 0]
      BY <3>1, <1>2
    <3>3. /\ server'[c] \in Servers /\ server'[c].state = "idle"
          /\ server'[c].sdp = 0 /\ (server'[c].described => server[c].sdp # 0)
      <4>1. CASE server[c].sdp = 0
        <5>1. server'[c] = [state |-> "idle", described |-> FALSE, sdp |-> 0]
          BY <4>1, <3>2, <1>4 DEF Servers
        <5>2. QED BY <5>1 DEF Servers
      <4>2. CASE server[c].sdp # 0
        <5>1. server'[c] = [state |-> "idle", described |-> TRUE, sdp |-> 0]
          BY <4>2, <3>2, <1>4 DEF Servers
        <5>2. QED BY <5>1, <4>2 DEF Servers
      <4>3. QED BY <4>1, <4>2
    <3>4. /\ wire[c] = <<>> /\ server[c].sdp \in Nat /\ server[c].sdp <= Given
          /\ task[c].at \in {"ask", "deliver", "await"} /\ drawn # 0
      BY <3>1, <1>2, <1>4 DEF ConnectionOK, Servers
    <3>5. wire'[c] = <<<<"response", server[c].sdp>>>> BY <3>1, <3>4, <1>2
    <3>6. <<"response", server[c].sdp>> \in Messages BY <3>4 DEF Messages
    <3>7. /\ wire'[c] \in Seq(Messages) /\ Len(wire'[c]) = 1 /\ DOMAIN wire'[c] = {1}
          /\ wire'[c][1][2] = server[c].sdp
      BY <3>5, <3>6
    <3>8. \A k \in DOMAIN wire'[c] : wire'[c][k][2] <= drawn' BY <3>7, <3>4, <1>1, <1>2
    <3>9. Len(wire'[c]) <= drawn' /\ (server'[c].described => Len(wire'[c]) <= Given')
      <4>1. 1 <= drawn BY <3>4, <1>2
      <4>2. server[c].sdp # 0 => 1 <= Given BY <3>4, <1>2
      <4>3. QED BY <4>1, <4>2, <3>3, <3>7, <1>1, <1>3
    <3>10. server'[c].sdp <= Given' BY <3>3, <1>2, <1>3
    <3>11. ConnectionOK(c)'
      BY <1>1, <1>2, <3>3, <3>4, <3>7, <3>8, <3>9, <3>10 DEF ConnectionOK
    <3>12. /\ DOMAIN server' = Tasks /\ DOMAIN wire' = Tasks
           /\ \A d \in Tasks \ {c} : server'[d] = server[d] /\ wire'[d] = wire[d]
      BY <3>1, <1>2
    <3>13. QED BY <3>11, <3>12, <1>1, <1>2, OneConnection
  <2>3. QED BY <2>1, <2>2
<1>6. SourceOK' BY <1>1, SourceKept
<1>7. ClientOK' BY <1>1 DEF DiscInv, ClientOK
<1>8. SinksOK' BY <1>1, SinksStay
<1>9. QED BY <1>5, <1>6, <1>7, <1>8 DEF DiscInv

(* The mDNS client: what avahi reports, and the resolver.                  *)
LEMMA AvahiStep ==
  ASSUME DiscInv, Disc!Unreported \/ Disc!BrowserNew \/ Disc!ResolverFailure
                  \/ Disc!OnRemoveRtspSource
  PROVE  DiscInv'
<1>1. UNCHANGED <<version, drawn, updating, service, server, wire, task, client, now,
                  last_sink_update, worker, sink, refused>>
  BY DEF Disc!Unreported, Disc!BrowserNew, Disc!ResolverFailure, Disc!OnRemoveRtspSource,
         Disc!Unregistered, Disc!node1, Disc!rtsp, Disc!mdns, Disc!browser, Disc!sinks
<1>2. ConnectionsOK' BY <1>1, AllConnections
<1>3. SourceOK'
  <2>1. CASE Disc!Unreported
    <3>1. Len(events) >= 2 /\ events' = Tail(Tail(events)) BY <2>1 DEF Disc!Unreported
    <3>2. Given' = Given BY <1>1 DEF Given
    <3>3. /\ events \in Seq({"new", "remove"}) /\ Given \in Nat
          /\ Len(events) + (IF service THEN 1 ELSE 0) <= 2 * Given
      BY GivenTyped DEF DiscInv, SourceOK
    <3>4. Tail(events) \in Seq({"new", "remove"}) /\ Len(Tail(events)) = Len(events) - 1
      BY <3>1, <3>3
    <3>5. events' \in Seq({"new", "remove"}) /\ Len(events') = Len(events) - 2
          /\ Len(events) \in Nat
      <4>1. PICK rest : rest = Tail(events) OBVIOUS
      <4>2. rest \in Seq({"new", "remove"}) /\ Len(rest) = Len(events) - 1
            /\ Len(events) \in Nat /\ events' = Tail(rest)
        BY <4>1, <3>1, <3>3, <3>4
      <4>3. rest # <<>> BY <4>2, <3>1
      <4>4. Tail(rest) \in Seq({"new", "remove"}) /\ Len(Tail(rest)) = Len(rest) - 1
        BY <4>2, <4>3
      <4>5. QED BY <4>2, <4>4
    <3>6. Len(events') + (IF service' THEN 1 ELSE 0) <= 2 * Given' BY <1>1, <3>2, <3>3, <3>5
    <3>7. QED BY <1>1, <3>2, <3>5, <3>6 DEF DiscInv, SourceOK
  <2>2. CASE Disc!BrowserNew
    <3>1. events # <<>> /\ events' = Tail(events) BY <2>2 DEF Disc!BrowserNew
    <3>2. QED BY <1>1, <3>1, EventTaken
  <2>3. CASE Disc!ResolverFailure \/ Disc!OnRemoveRtspSource
    <3>1. events' = events
      BY <2>3 DEF Disc!ResolverFailure, Disc!OnRemoveRtspSource, Disc!node1
    <3>2. QED BY <1>1, <3>1, SourceKept
  <2>4. QED BY <2>1, <2>2, <2>3
<1>4. ClientOK'
  <2>1. CASE Disc!BrowserNew
    <3>1. events # <<>> /\ events' = Tail(events) BY <2>1 DEF Disc!BrowserNew
    <3>2. drawn # 0 BY <1>1, <3>1, EventTaken
    <3>3. QED BY <1>1, <3>2 DEF DiscInv, ClientOK
  <2>2. CASE ~Disc!BrowserNew
    <3>1. resolving' = FALSE \/ resolving' = resolving
      BY <2>2 DEF Disc!Unreported, Disc!ResolverFailure, Disc!OnRemoveRtspSource, Disc!mdns
    <3>2. QED BY <1>1, <3>1 DEF DiscInv, ClientOK
  <2>3. QED BY <2>1, <2>2
<1>5. SinksOK'
  <2>1. CASE Disc!OnRemoveRtspSource
    <3>1. table' = 0 /\ last_update' \in {now, last_update}
      BY <2>1 DEF Disc!OnRemoveRtspSource, Disc!Touch
    <3>2. now \in Nat /\ drawn \in Nat /\ last_update \in 0..now
      BY GivenTyped DEF DiscInv, SinksOK
    <3>3. table' \in 0..drawn' /\ last_update' \in 0..now' BY <1>1, <3>1, <3>2
    <3>4. QED BY <1>1, <3>3 DEF DiscInv, SinksOK
  <2>2. CASE ~Disc!OnRemoveRtspSource
    <3>1. UNCHANGED <<table, last_update>>
      BY <2>2 DEF Disc!Unreported, Disc!BrowserNew, Disc!ResolverFailure, Disc!browser
    <3>2. QED BY <1>1, <3>1, SinksStay
  <2>3. QED BY <2>1, <2>2
<1>6. QED BY <1>2, <1>3, <1>4, <1>5 DEF DiscInv

(* REMOVE shuts the connection of the active client.                       *)
LEMMA RemoveStep ==
  ASSUME Disc!DiscoveryConstants, DiscInv, Disc!BrowserRemove
  PROVE  DiscInv'
<1>1. /\ UNCHANGED <<version, drawn, updating, service, wire, task, resolving, now, table,
                     last_update, last_sink_update, worker, sink, refused>>
      /\ events # <<>> /\ events' = Tail(events) /\ client' = None
      /\ IF client = None THEN UNCHANGED server ELSE Disc!Shut(client)
  BY DEF Disc!BrowserRemove, Disc!Unregistered, Disc!browser, Disc!sinks
<1>2. SourceOK' BY <1>1, EventTaken
<1>3. SinksOK' BY <1>1, SinksStay
<1>4. ClientOK' BY <1>1 DEF DiscInv, ClientOK
<1>5. ConnectionsOK'
  <2>1. CASE client = None BY <2>1, <1>1, AllConnections
  <2>2. CASE client # None
    <3>1. /\ client \in Tasks /\ server' = [server EXCEPT ![client] = Disc!NoServer]
      BY <2>2, <1>1 DEF DiscInv, ClientOK, Disc!Shut
    <3>2. /\ ConnectionOK(client) /\ Given \in Nat
          /\ DOMAIN server = Tasks /\ DOMAIN wire = Tasks /\ DOMAIN task = Tasks
      BY <3>1, GivenTyped DEF DiscInv, ConnectionsOK
    <3>3. Given' = Given BY <1>1 DEF Given
    <3>4. /\ DOMAIN server' = Tasks /\ server'[client] = Disc!NoServer
          /\ \A d \in Tasks \ {client} : server'[d] = server[d]
      BY <3>1, <3>2
    <3>5. PICK c \in Tasks : c = client BY <3>1
    <3>6. ConnectionOK(c)'
      <4>1. /\ server'[c] \in Servers /\ server'[c].state = "closed" /\ server'[c].sdp = 0
            /\ server'[c].described = FALSE
        <5>1. server'[c] = Disc!NoServer BY <3>4, <3>5
        <5>2. QED BY <5>1 DEF Disc!NoServer, Servers
      <4>2. UNCHANGED <<wire[c], task[c]>> /\ ConnectionOK(c) BY <1>1, <3>2, <3>5
      <4>3. QED BY <1>1, <3>2, <3>3, <4>1, <4>2 DEF ConnectionOK
    <3>7. \A d \in Tasks \ {c} : server'[d] = server[d] /\ wire'[d] = wire[d]
                                                     /\ task'[d] = task[d]
      BY <1>1, <3>4, <3>5
    <3>8. QED BY <1>1, <3>2, <3>4, <3>6, <3>7, OneConnection
  <2>3. QED BY <2>1, <2>2
<1>6. QED BY <1>2, <1>3, <1>4, <1>5 DEF DiscInv

(* A resolved service starts a task, and the task enters itself among the  *)
(* active clients, then connects.                                          *)
LEMMA StartStep ==
  ASSUME Disc!DiscoveryConstants, DiscInv, NEW c \in Tasks,
         Disc!ResolverFound(c) \/ Disc!Register(c) \/ Disc!Connect(c)
  PROVE  DiscInv'
<1>1. UNCHANGED <<version, drawn, updating, service, events, wire, now, table, last_update,
                  last_sink_update, worker, sink, refused>>
  BY DEF Disc!ResolverFound, Disc!Register, Disc!Connect, Disc!node1, Disc!rtsp, Disc!browser,
         Disc!sinks
<1>2. /\ ConnectionOK(c) /\ Given \in Nat /\ drawn \in Nat /\ task[c] \in Runs
      /\ DOMAIN server = Tasks /\ DOMAIN wire = Tasks /\ DOMAIN task = Tasks
      /\ server[c] \in Servers
  BY GivenTyped DEF DiscInv, ConnectionsOK, ConnectionOK
<1>3. Given' = Given BY <1>1 DEF Given
<1>4. SourceOK' BY <1>1, SourceKept
<1>5. SinksOK' BY <1>1, SinksStay
<1>6. ConnectionsOK' /\ ClientOK'
  <2>1. CASE Disc!ResolverFound(c)
    <3>1. /\ resolving /\ task[c].at = "none" /\ resolving' = FALSE /\ UNCHANGED <<server, client>>
          /\ task' = [task EXCEPT ![c].at = "start"]
      BY <2>1 DEF Disc!ResolverFound, Disc!Idle, Disc!rtsp
    <3>2. /\ task'[c] = [task[c] EXCEPT !.at = "start"] /\ DOMAIN task' = Tasks
          /\ \A d \in Tasks \ {c} : task'[d] = task[d]
      BY <3>1, <1>2
    <3>3. task'[c] \in Runs /\ task'[c].at = "start" /\ task'[c].carry = task[c].carry
      BY <3>2, <1>2 DEF Runs
    <3>4. drawn # 0 BY <3>1 DEF DiscInv, ClientOK
    <3>5. ConnectionOK(c)' BY <1>1, <1>2, <1>3, <3>1, <3>3, <3>4 DEF ConnectionOK
    <3>6. ConnectionsOK' BY <1>1, <1>2, <3>1, <3>2, <3>5, OneConnection
    <3>7. QED BY <1>1, <3>1, <3>2, <3>6 DEF DiscInv, ClientOK
  <2>2. CASE Disc!Register(c)
    <3>1. /\ task[c].at = "start" /\ client' = c /\ UNCHANGED <<server, resolving>>
          /\ task' = [task EXCEPT ![c] = [at |-> "connect", carry |-> 0]]
      BY <2>2 DEF Disc!Register, Disc!Goes, Disc!rtsp, Disc!mdns
    <3>2. /\ task'[c] = [at |-> "connect", carry |-> 0] /\ DOMAIN task' = Tasks
          /\ \A d \in Tasks \ {c} : task'[d] = task[d]
      BY <3>1, <1>2
    <3>3. ConnectionOK(c)' BY <1>1, <1>2, <1>3, <3>1, <3>2 DEF ConnectionOK, Runs
    <3>4. ConnectionsOK' BY <1>1, <1>2, <3>1, <3>2, <3>3, OneConnection
    <3>5. QED BY <1>1, <3>1, <3>2, <3>4 DEF DiscInv, ClientOK
  <2>3. CASE Disc!Connect(c)
    <3>1. /\ task[c].at = "connect" /\ UNCHANGED <<client, resolving>>
          /\ task' = [task EXCEPT ![c] = [at |-> "ask", carry |-> 0]]
          /\ server' = [server EXCEPT ![c].state = "asked"]
      BY <2>3 DEF Disc!Connect, Disc!Goes, Disc!mdns
    <3>2. /\ task'[c] = [at |-> "ask", carry |-> 0] /\ DOMAIN task' = Tasks
          /\ \A d \in Tasks \ {c} : task'[d] = task[d] /\ server'[d] = server[d]
          /\ server'[c] = [server[c] EXCEPT !.state = "asked"] /\ DOMAIN server' = Tasks
      BY <3>1, <1>2
    <3>3. /\ server'[c] \in Servers /\ server'[c].state = "asked"
          /\ server'[c].sdp = server[c].sdp /\ server'[c].described = server[c].described
      BY <3>2, <1>2 DEF Servers
    <3>4. wire[c] = <<>> /\ ~server[c].described BY <1>2, <3>1 DEF ConnectionOK
    <3>5. ConnectionOK(c)' BY <1>1, <1>2, <1>3, <3>1, <3>2, <3>3, <3>4 DEF ConnectionOK, Runs
    <3>6. ConnectionsOK' BY <1>1, <1>2, <3>2, <3>5, OneConnection
    <3>7. QED BY <1>1, <3>1, <3>2, <3>6 DEF DiscInv, ClientOK
  <2>4. QED BY <2>1, <2>2, <2>3
<1>7. QED BY <1>4, <1>5, <1>6 DEF DiscInv

(* A task that ends.                                                       *)
LEMMA EndStep ==
  ASSUME Disc!DiscoveryConstants, DiscInv, NEW c \in Tasks, Disc!End(c)
  PROVE  DiscInv'
<1>1. /\ UNCHANGED <<version, drawn, updating, service, events, resolving, now, table,
                     last_update, last_sink_update, worker, sink, refused>>
      /\ task' = [task EXCEPT ![c] = [at |-> "none", carry |-> 0]]
      /\ client' = IF client = c THEN None ELSE client
      /\ server' = [server EXCEPT ![c] = Disc!NoServer]
      /\ wire' = [wire EXCEPT ![c] = <<>>]
  BY DEF Disc!End, Disc!Goes, Disc!Shut, Disc!node1, Disc!mdns, Disc!browser, Disc!sinks
<1>2. /\ DOMAIN server = Tasks /\ DOMAIN wire = Tasks /\ DOMAIN task = Tasks
      /\ Given \in Nat /\ drawn \in Nat
  BY GivenTyped DEF DiscInv, ConnectionsOK
<1>3. Given' = Given BY <1>1 DEF Given
<1>4. /\ DOMAIN server' = Tasks /\ DOMAIN wire' = Tasks /\ DOMAIN task' = Tasks
      /\ task'[c] = [at |-> "none", carry |-> 0] /\ server'[c] = Disc!NoServer
      /\ wire'[c] = <<>>
      /\ \A d \in Tasks \ {c} : server'[d] = server[d] /\ wire'[d] = wire[d]
                                                      /\ task'[d] = task[d]
  BY <1>1, <1>2
<1>5. ConnectionOK(c)'
  <2>1. server'[c] \in Servers /\ task'[c] \in Runs /\ wire'[c] \in Seq(Messages)
    BY <1>4 DEF Servers, Runs, Disc!NoServer
  <2>2. Len(wire'[c]) = 0 /\ DOMAIN wire'[c] = {} BY <1>4
  <2>3. QED BY <1>1, <1>2, <1>3, <1>4, <2>1, <2>2 DEF ConnectionOK, Disc!NoServer
<1>6. ConnectionsOK' BY <1>1, <1>4, <1>5, OneConnection
<1>7. ClientOK' BY <1>1, <1>4 DEF DiscInv, ClientOK
<1>8. SourceOK' BY <1>1, SourceKept
<1>9. SinksOK' BY <1>1, SinksStay
<1>10. QED BY <1>6, <1>7, <1>8, <1>9 DEF DiscInv

(* A task that reads a description, and one that hands it to the browser.  *)
LEMMA ReadStep ==
  ASSUME DiscInv, NEW c \in Tasks, Disc!Response(c) \/ Disc!Update(c) \/ Disc!Deliver(c)
  PROVE  DiscInv'
<1>1. UNCHANGED <<version, drawn, updating, service, events, server, resolving, client, now,
                  last_sink_update, worker, sink, refused>>
  BY DEF Disc!Response, Disc!Update, Disc!Deliver, Disc!node1, Disc!rtsp, Disc!mdns, Disc!sinks,
         Disc!browser
<1>2. /\ DOMAIN server = Tasks /\ DOMAIN wire = Tasks /\ DOMAIN task = Tasks
      /\ Given \in Nat /\ drawn \in Nat /\ ConnectionOK(c) /\ wire[c] \in Seq(Messages)
      /\ task[c] \in Runs
  BY GivenTyped DEF DiscInv, ConnectionsOK, ConnectionOK
<1>3. Given' = Given BY <1>1 DEF Given
<1>4. SourceOK' BY <1>1, SourceKept
<1>5. ConnectionsOK' /\ ClientOK' /\ SinksOK'
  <2>1. CASE Disc!Response(c) \/ Disc!Update(c)
    <3>1. /\ task[c].at \in {"ask", "await"} /\ wire[c] # <<>>
          /\ task' = [task EXCEPT ![c] = [at |-> "deliver", carry |-> Head(wire[c])[2]]]
          /\ wire' = [wire EXCEPT ![c] = Tail(@)] /\ UNCHANGED <<table, last_update>>
      BY <2>1 DEF Disc!Response, Disc!Update, Disc!Goes, Disc!browser
    <3>2. /\ task'[c] = [at |-> "deliver", carry |-> Head(wire[c])[2]]
          /\ wire'[c] = Tail(wire[c]) /\ DOMAIN task' = Tasks /\ DOMAIN wire' = Tasks
          /\ \A d \in Tasks \ {c} : task'[d] = task[d] /\ wire'[d] = wire[d]
      BY <3>1, <1>2
    <3>3. /\ Head(wire[c]) = wire[c][1] /\ 1 \in DOMAIN wire[c] /\ Head(wire[c]) \in Messages
          /\ wire'[c] \in Seq(Messages) /\ Len(wire'[c]) = Len(wire[c]) - 1
          /\ DOMAIN wire'[c] = 1..(Len(wire[c]) - 1) /\ Len(wire[c]) \in Nat
          /\ DOMAIN wire[c] = 1..Len(wire[c])
          /\ \A k \in DOMAIN wire'[c] : wire'[c][k] = wire[c][k + 1]
      BY <3>1, <3>2, <1>2
    <3>4. Head(wire[c])[2] \in Nat BY <3>3 DEF Messages
    <3>5. Head(wire[c])[2] <= drawn /\ drawn # 0 BY <3>1, <3>3, <1>2 DEF ConnectionOK
    <3>6. task'[c] \in Runs /\ task'[c].at = "deliver" /\ task'[c].carry <= drawn
      BY <3>2, <3>4, <3>5 DEF Runs
    <3>7. ASSUME NEW k \in DOMAIN wire'[c] PROVE wire'[c][k][2] <= drawn'
      <4>1. k + 1 \in DOMAIN wire[c] BY <3>3
      <4>2. wire[c][k + 1][2] <= drawn BY <4>1, <1>2 DEF ConnectionOK
      <4>3. QED BY <4>2, <3>3, <1>1
    <3>8. /\ Len(wire'[c]) <= drawn
          /\ server[c].described => Len(wire'[c]) <= Given
      <4>1. Len(wire[c]) <= drawn /\ (server[c].described => Len(wire[c]) <= Given)
        BY <1>2 DEF ConnectionOK
      <4>2. /\ Len(wire'[c]) = Len(wire[c]) - 1 /\ Len(wire[c]) \in Nat /\ drawn \in Nat
            /\ Given \in Nat
        BY <3>3, <1>2
      <4>3. Len(wire'[c]) <= drawn BY <4>1, <4>2
      <4>4. ASSUME server[c].described PROVE Len(wire'[c]) <= Given BY <4>4, <4>1, <4>2
      <4>5. QED BY <4>3, <4>4
    <3>9. server[c].state \notin {"asked", "answer"} BY <3>1, <1>2 DEF ConnectionOK
    <3>10. ConnectionOK(c)'
      BY <1>1, <1>2, <1>3, <3>3, <3>5, <3>6, <3>7, <3>8, <3>9 DEF ConnectionOK
    <3>11. ConnectionsOK' BY <1>1, <1>2, <3>2, <3>10, OneConnection
    <3>12. ClientOK' BY <1>1, <3>2, <3>6 DEF DiscInv, ClientOK
    <3>13. SinksOK' BY <1>1, <3>1, SinksStay
    <3>14. QED BY <3>11, <3>12, <3>13
  <2>2. CASE Disc!Deliver(c)
    <3>1. /\ task[c].at = "deliver" /\ table' = task[c].carry /\ last_update' = now
          /\ task' = [task EXCEPT ![c] = [at |-> "await", carry |-> 0]] /\ wire' = wire
      BY <2>2 DEF Disc!Deliver, Disc!Touch, Disc!Goes, Disc!rtsp
    <3>2. /\ task'[c] = [at |-> "await", carry |-> 0] /\ DOMAIN task' = Tasks
          /\ \A d \in Tasks \ {c} : task'[d] = task[d]
      BY <3>1, <1>2
    <3>3. ConnectionOK(c)' BY <1>1, <1>2, <1>3, <3>1, <3>2 DEF ConnectionOK, Runs
    <3>4. ConnectionsOK' BY <1>1, <1>2, <3>1, <3>2, <3>3, OneConnection
    <3>5. ClientOK' BY <1>1, <3>2 DEF DiscInv, ClientOK
    <3>6. task[c].carry \in 0..drawn BY <1>2 DEF ConnectionOK, Runs
    <3>7. now \in Nat BY DEF DiscInv, SinksOK
    <3>8. table' \in 0..drawn' /\ last_update' \in 0..now' BY <1>1, <3>1, <3>6, <3>7
    <3>9. SinksOK' BY <1>1, <3>8 DEF DiscInv, SinksOK
    <3>10. QED BY <3>4, <3>5, <3>9
  <2>3. QED BY <2>1, <2>2
<1>6. QED BY <1>4, <1>5 DEF DiscInv

(* The session worker, and time.                                           *)
LEMMA WorkerStep ==
  ASSUME DiscInv, Disc!SinkWorker \/ Disc!Second \/ UNCHANGED Disc!vars
  PROVE  DiscInv'
<1>1. UNCHANGED <<version, drawn, updating, service, events, server, wire, task, client,
                  resolving, table, last_update>>
  BY DEF Disc!SinkWorker, Disc!CheckUpdate, Disc!GetRemoteSources, Disc!ApplyUpdate, Disc!Second,
         Disc!vars, Disc!node1, Disc!rtsp, Disc!mdns, Disc!browser
<1>2. SourceOK' BY <1>1, SourceKept
<1>3. ConnectionsOK' BY <1>1, AllConnections
<1>4. ClientOK' BY <1>1 DEF DiscInv, ClientOK
<1>5. SinksOK'
  <2> DEFINE Places == {"idle", "read", "apply"}
  <2>1. /\ now \in Nat \ {0} /\ drawn \in Nat /\ table \in 0..drawn
        /\ sink \in (0..drawn) \cup {-1} /\ refused \in 0..drawn
        /\ last_update \in 0..now /\ last_sink_update \in 0..now
        /\ worker \in [at : Places, ts : Nat, found : Nat]
        /\ worker.ts <= now /\ worker.found <= drawn
    BY GivenTyped DEF DiscInv, SinksOK
  <2>2. CASE Disc!CheckUpdate
    <3>1. /\ worker' = [worker EXCEPT !.at = "read", !.ts = last_update]
          /\ UNCHANGED <<now, last_sink_update, sink, refused>>
      BY <2>2 DEF Disc!CheckUpdate
    <3>2. /\ worker' \in [at : Places, ts : Nat, found : Nat] /\ worker'.ts = last_update
          /\ worker'.found = worker.found
      <4>1. worker' = [at |-> "read", ts |-> last_update, found |-> worker.found]
        BY <3>1, <2>1
      <4>2. last_update \in Nat /\ worker.found \in Nat BY <2>1
      <4>3. QED BY <4>1, <4>2
    <3>3. QED BY <1>1, <2>1, <3>1, <3>2 DEF SinksOK
  <2>3. CASE Disc!GetRemoteSources
    <3>1. /\ worker' = [worker EXCEPT !.at = "apply", !.found = table]
          /\ UNCHANGED <<now, last_sink_update, sink, refused>>
      BY <2>3 DEF Disc!GetRemoteSources
    <3>2. /\ worker' \in [at : Places, ts : Nat, found : Nat] /\ worker'.found = table
          /\ worker'.ts = worker.ts
      <4>1. worker' = [at |-> "apply", ts |-> worker.ts, found |-> table]
        BY <3>1, <2>1
      <4>2. table \in Nat /\ worker.ts \in Nat BY <2>1
      <4>3. QED BY <4>1, <4>2
    <3>3. QED BY <1>1, <2>1, <3>1, <3>2 DEF SinksOK
  <2>4. CASE Disc!ApplyUpdate
    <3>1. /\ sink' \in {worker.found, sink, -1} /\ refused' \in {refused, worker.found}
          /\ last_sink_update' = worker.ts /\ now' = now
          /\ worker' = [at |-> "idle", ts |-> 0, found |-> 0]
      BY <2>4 DEF Disc!ApplyUpdate, Disc!AddSink, Disc!Dropped
    <3>2. /\ sink' \in (0..drawn) \cup {-1} /\ refused' \in 0..drawn
          /\ last_sink_update' \in 0..now
      <4>1. worker.found \in 0..drawn /\ worker.ts \in 0..now BY <2>1
      <4>2. QED BY <4>1, <3>1, <2>1
    <3>3. worker' \in [at : Places, ts : Nat, found : Nat] /\ worker'.ts = 0 /\ worker'.found = 0
      BY <3>1
    <3>4. QED BY <1>1, <2>1, <3>1, <3>2, <3>3 DEF SinksOK
  <2>5. CASE Disc!Second
    <3>1. now' = now + 1 /\ UNCHANGED <<worker, last_sink_update, sink, refused>>
      BY <2>5 DEF Disc!Second, Disc!sinks
    <3>2. now' \in Nat \ {0} /\ now <= now' BY <3>1, <2>1
    <3>3. last_update \in 0..now' /\ last_sink_update \in 0..now' /\ worker.ts <= now'
      <4>1. worker.ts \in Nat BY <2>1
      <4>2. QED BY <4>1, <3>2, <2>1
    <3>4. QED BY <1>1, <2>1, <3>1, <3>2, <3>3 DEF SinksOK
  <2>6. CASE UNCHANGED Disc!vars
    <3>1. UNCHANGED <<now, worker, last_sink_update, sink, refused>> BY <2>6 DEF Disc!vars, Disc!sinks
    <3>2. QED BY <1>1, <3>1, SinksStay
  <2>7. QED BY <2>2, <2>3, <2>4, <2>5, <2>6 DEF Disc!SinkWorker
<1>6. QED BY <1>2, <1>3, <1>4, <1>5 DEF DiscInv

(* The invariant is inductive.                                             *)
LEMMA DiscInitially == ASSUME Disc!DiscoveryConstants, Disc!Init PROVE DiscInv
<1>1. /\ version = 0 /\ drawn = 0 /\ updating = FALSE /\ service = FALSE /\ events = <<>>
      /\ server = [c \in Tasks |-> Disc!NoServer] /\ wire = [c \in Tasks |-> <<>>]
      /\ resolving = FALSE /\ task = [c \in Tasks |-> [at |-> "none", carry |-> 0]]
      /\ client = None /\ table = 0 /\ last_update = 0
      /\ worker = [at |-> "idle", ts |-> 0, found |-> 0] /\ last_sink_update = 0 /\ sink = 0
      /\ refused = 0 /\ now = 1
  BY DEF Disc!Init
<1>2. Given = 0 BY <1>1 DEF Given
<1>3. SourceOK BY <1>1, <1>2 DEF SourceOK, Disc!DiscoveryConstants
<1>4. ASSUME NEW c \in Tasks PROVE ConnectionOK(c)
  <2>1. server[c] = Disc!NoServer /\ wire[c] = <<>> /\ task[c] = [at |-> "none", carry |-> 0]
    BY <1>1
  <2>2. server[c] \in Servers /\ task[c] \in Runs /\ wire[c] \in Seq(Messages)
    BY <2>1 DEF Servers, Runs, Disc!NoServer
  <2>3. Len(wire[c]) = 0 /\ DOMAIN wire[c] = {} BY <2>1
  <2>4. QED BY <1>1, <1>2, <2>1, <2>2, <2>3 DEF ConnectionOK, Disc!NoServer
<1>5. ConnectionsOK BY <1>1, <1>4 DEF ConnectionsOK
<1>6. ClientOK BY <1>1 DEF ClientOK
<1>7. SinksOK BY <1>1 DEF SinksOK
<1>8. QED BY <1>3, <1>5, <1>6, <1>7 DEF DiscInv

LEMMA DiscInductive ==
  ASSUME Disc!DiscoveryConstants, DiscInv, [Disc!Next]_Disc!vars
  PROVE  DiscInv'
<1>1. CASE Disc!AddSource \/ Disc!RemoveSource \/ Disc!UpdateSources \/ Disc!Added
  BY <1>1, SourceSteps
<1>2. CASE Disc!Unreported \/ Disc!BrowserNew \/ Disc!ResolverFailure \/ Disc!OnRemoveRtspSource
  BY <1>2, AvahiStep
<1>3. CASE Disc!BrowserRemove BY <1>3, RemoveStep
<1>4. CASE Disc!SinkWorker \/ Disc!Second \/ UNCHANGED Disc!vars BY <1>4, WorkerStep
<1>5. ASSUME NEW c \in Tasks, Disc!Describe(c) \/ Disc!Answer(c) PROVE DiscInv'
  BY <1>5, DescribeStep
<1>6. ASSUME NEW c \in Tasks, Disc!ResolverFound(c) \/ Disc!Register(c) \/ Disc!Connect(c)
      PROVE  DiscInv'
  BY <1>6, StartStep
<1>7. ASSUME NEW c \in Tasks, Disc!NotFound(c) \/ Disc!Stopped(c) \/ Disc!Broken(c)
      PROVE  DiscInv'
  <2>1. Disc!End(c) BY <1>7 DEF Disc!NotFound, Disc!Stopped, Disc!Broken
  <2>2. QED BY <2>1, EndStep
<1>8. ASSUME NEW c \in Tasks, Disc!Response(c) \/ Disc!Update(c) \/ Disc!Deliver(c)
      PROVE  DiscInv'
  BY <1>8, ReadStep
<1>9. QED BY <1>1, <1>2, <1>3, <1>4, <1>5, <1>6, <1>7, <1>8
      DEF Disc!Next, Disc!Talker, Disc!Avahi, Disc!Listener

(* No more events wait than there were versions to register and withdraw,  *)
(* no more messages than versions, and no connection is left open without  *)
(* its task, which is what TypeOK says of mDNS, RTSP and the browser, for  *)
(* any number of tasks, versions, failures and seconds.                    *)
THEOREM DiscoveryTypes ==
  ASSUME Disc!DiscoveryConstants
  PROVE  Disc!Spec => []Disc!TypeOK
<1>1. Disc!Init => DiscInv BY DiscInitially
<1>2. DiscInv /\ [Disc!Next]_Disc!vars => DiscInv' BY DiscInductive
<1>3. DiscInv => Disc!TypeOK
  <2> SUFFICES ASSUME DiscInv PROVE Disc!TypeOK OBVIOUS
  <2>1. /\ drawn \in 0..MaxVersion /\ Given \in Nat /\ drawn \in Nat /\ Given <= drawn
        /\ MaxVersion \in Nat /\ version \in 0..Given /\ events \in Seq({"new", "remove"})
        /\ Len(events) + (IF service THEN 1 ELSE 0) <= 2 * Given /\ Len(events) \in Nat
    BY GivenTyped DEF DiscInv, SourceOK, Disc!DiscoveryConstants
  <2>2. version \in 0..drawn /\ Len(events) <= 2 * MaxVersion
    <3>1. Len(events) <= 2 * Given BY <2>1
    <3>2. QED BY <3>1, <2>1
  <2>3. ASSUME NEW c \in Tasks
        PROVE  /\ server[c].state \in {"closed", "asked", "answer", "idle"}
               /\ server[c].state # "closed" => task[c].at \in {"ask", "deliver", "await"}
               /\ Len(wire[c]) <= MaxVersion
    <3>1. ConnectionOK(c) BY DEF DiscInv, ConnectionsOK
    <3>2. server[c] \in Servers /\ wire[c] \in Seq(Messages) /\ Len(wire[c]) <= drawn
      BY <3>1 DEF ConnectionOK
    <3>3. Len(wire[c]) <= MaxVersion BY <3>2, <2>1
    <3>4. QED BY <3>1, <3>2, <3>3 DEF ConnectionOK, Servers
  <2>4. QED BY <2>1, <2>2, <2>3 DEF DiscInv, ClientOK, SinksOK, Disc!TypeOK, Disc!Dropped
<1>4. QED BY <1>1, <1>2, <1>3, PTL DEF Disc!Spec

-----------------------------------------------------------------------------
(* What the directory and the sink end with.                               *)

(* None of what excuses the browser has happened: no failure of the        *)
(* network, no late delivery, no update inside a DESCRIBE.                 *)
Calm == faults = 0 /\ ~late /\ ~missed

(* Nothing is under way between the two nodes.                             *)
Quiet ==
  /\ ~updating /\ events = <<>> /\ ~resolving /\ ~removing
  /\ \A c \in Tasks : task[c].at \in {"none", "await"} /\ wire[c] = <<>>

(* In a quiet system the browser's table is right: it holds the source's   *)
(* version, 0 when the source is removed.                                  *)
DirectorySettled == Calm /\ Quiet => table = version

(* A session worker that sees nothing new has nothing to do: the sink has  *)
(* the table's version or a newer one, or add_sink failed on it.           *)
SinkSettled ==
  ~crowded /\ worker.at = "idle" /\ last_update \in {0, last_sink_update}
    => table <= sink \/ sink = -1 \/ table = refused

(* Registrations and withdrawals are reported in turn, the last one is     *)
(* what the service is now, and a REMOVE being handled is followed by NEW. *)
Reports ==
  /\ \A k \in 1..(Len(events) - 1) : events[k] # events[k + 1]
  /\ events # <<>> => (service <=> events[Len(events)] = "new")
  /\ ~updating => (service <=> version # 0)
  /\ removing => IF events = <<>> THEN ~service ELSE Head(events) = "new"

(* What a task will leave in the table.                                    *)
Latest(c) ==
  IF wire[c] # <<>> THEN wire[c][Len(wire[c])][2]
  ELSE IF task[c].at = "deliver" THEN task[c].carry ELSE table

(* The active client has not asked yet, is asking, or has been described   *)
(* the source and announced every version since.                           *)
Follows(c) ==
  \/ task[c].at = "connect"
  \/ task[c].at = "ask" /\ server[c].state = "asked"
  \/ task[c].at = "ask" /\ server[c].state = "answer" /\ server[c].sdp = version
  \/ /\ server[c].state = "idle" /\ server[c].described
     /\ task[c].at = "ask" => wire[c] # <<>>
     /\ \A k \in DOMAIN wire[c] : wire[c][k][2] # 0
     /\ Latest(c) = version

(* Without a service the active client is one that will not find it.       *)
Misses(c) ==
  \/ task[c].at = "connect"
  \/ task[c].at = "ask" /\ server[c].state = "asked"
  \/ task[c].at = "ask" /\ server[c].state = "answer" /\ server[c].sdp = 0
  \/ /\ task[c].at = "ask" /\ server[c].state = "idle" /\ ~server[c].described
     /\ wire[c] # <<>> /\ \A k \in DOMAIN wire[c] : wire[c][k][2] = 0

Starting == \E c \in Tasks : task[c].at = "start"

Found ==
  events = <<>> /\ service /\ ~resolving /\ ~Starting => client # None /\ Follows(client)

Gone ==
  events = <<>> /\ ~service =>
    (removing \/ table = 0) /\ (client # None => Misses(client))

DirectoryInv == DiscInv /\ faults \in Nat /\ (Calm => Reports /\ Found /\ Gone)

(* A change of the table the worker has not looked at is newer than what   *)
(* it has applied.                                                         *)
SinkInv ==
  /\ DiscInv
  /\ last_sink_update <= last_update /\ worker.ts <= last_update
  /\ last_update = 0 => table = 0
  /\ ~crowded /\ last_sink_update = last_update
       => table <= sink \/ sink = -1 \/ table = refused
  /\ ~crowded /\ worker.at = "apply" /\ worker.ts = last_update => worker.found = table

LEMMA SinkInductive ==
  ASSUME SinkInv, DiscInv', [Disc!Next]_Disc!vars
  PROVE  SinkInv'
<1>1. /\ now \in Nat /\ last_update \in Nat /\ last_sink_update \in Nat /\ worker.ts \in Nat
      /\ last_update <= now /\ sink \in Int /\ table \in Nat /\ worker.found \in Nat
      /\ last_sink_update <= last_update /\ worker.ts <= last_update
  BY DEF SinkInv, DiscInv, SinksOK
<1>2. CASE UNCHANGED <<table, last_update, crowded, worker, last_sink_update, sink, refused>>
  BY <1>2 DEF SinkInv
<1>3. CASE /\ UNCHANGED <<worker, last_sink_update, sink, refused>>
           /\ last_update' = now /\ crowded' = (crowded \/ last_update = now)
  <2>1. last_sink_update' <= last_update' /\ worker'.ts <= last_update' BY <1>1, <1>3
  <2>2. last_update' # 0 BY <1>3 DEF SinkInv, DiscInv, SinksOK
  <2>3. ~crowded' => last_sink_update' # last_update' /\ worker'.ts # last_update'
    <3>1. ASSUME ~crowded' PROVE last_update < now
      <4>1. last_update # now BY <3>1, <1>3, Zenon
      <4>2. QED BY <4>1, <1>1
    <3>2. QED BY <3>1, <1>1, <1>3
  <2>4. QED BY <2>1, <2>2, <2>3 DEF SinkInv
<1>4. CASE Disc!CheckUpdate
  <2>1. /\ worker' = [worker EXCEPT !.at = "read", !.ts = last_update]
        /\ UNCHANGED <<table, last_update, crowded, last_sink_update, sink, refused>>
    BY <1>4 DEF Disc!CheckUpdate, Disc!browser
  <2>2. worker'.ts = last_update /\ worker'.at = "read"
    BY <2>1 DEF SinkInv, DiscInv, SinksOK
  <2>3. QED BY <1>1, <2>1, <2>2 DEF SinkInv
<1>5. CASE Disc!GetRemoteSources
  <2>1. /\ worker' = [worker EXCEPT !.at = "apply", !.found = table]
        /\ UNCHANGED <<table, last_update, crowded, last_sink_update, sink, refused>>
    BY <1>5 DEF Disc!GetRemoteSources, Disc!browser
  <2>2. worker'.ts = worker.ts /\ worker'.found = table
    BY <2>1 DEF SinkInv, DiscInv, SinksOK
  <2>3. QED BY <1>1, <2>1, <2>2 DEF SinkInv
<1>6. CASE Disc!ApplyUpdate
  <2>1. /\ worker.at = "apply"
        /\ \/ sink' = (IF Disc!Newer THEN worker.found ELSE sink)
           \/ sink' \in {sink, -1} /\ refused' = worker.found
        /\ last_sink_update' = worker.ts /\ worker' = [at |-> "idle", ts |-> 0, found |-> 0]
        /\ UNCHANGED <<table, last_update, crowded>>
    BY <1>6 DEF Disc!ApplyUpdate, Disc!AddSink, Disc!Dropped, Disc!browser
  <2>2. worker.found <= sink' \/ sink' = -1 \/ worker.found = refused'
    <3>1. ASSUME sink' = (IF Disc!Newer THEN worker.found ELSE sink)
          PROVE  worker.found <= sink' \/ sink' = -1
      BY <3>1, <1>1 DEF Disc!Newer, Disc!Dropped
    <3>2. QED BY <2>1, <3>1
  <2>3. worker'.ts = 0 /\ worker'.at = "idle" BY <2>1
  <2>4. ~crowded' /\ last_sink_update' = last_update'
          => table' <= sink' \/ sink' = -1 \/ table' = refused'
    BY <2>1, <2>2 DEF SinkInv
  <2>5. worker'.ts <= last_update' /\ last_sink_update' <= last_update' BY <1>1, <2>1, <2>3
  <2>6. QED BY <1>1, <2>1, <2>3, <2>4, <2>5 DEF SinkInv
<1>7. CASE Disc!OnRemoveRtspSource
  <2>1. /\ table' = 0 /\ UNCHANGED <<worker, last_sink_update, sink, refused>>
        /\ IF table # 0 THEN Disc!Touch ELSE UNCHANGED <<last_update, crowded>>
    BY <1>7 DEF Disc!OnRemoveRtspSource, Disc!sinks
  <2>2. CASE table = 0 BY <2>1, <2>2, <1>2
  <2>3. CASE table # 0 BY <2>1, <2>3, <1>3 DEF Disc!Touch
  <2>4. QED BY <2>2, <2>3
<1>8. ASSUME NEW c \in Tasks, Disc!Deliver(c) PROVE SinkInv'
  BY <1>8, <1>3 DEF Disc!Deliver, Disc!Touch, Disc!sinks
<1>9. CASE \/ Disc!AddSource \/ Disc!RemoveSource \/ Disc!UpdateSources \/ Disc!Added
           \/ Disc!Unreported \/ Disc!BrowserNew \/ Disc!ResolverFailure \/ Disc!BrowserRemove
           \/ Disc!Second \/ UNCHANGED Disc!vars
  BY <1>9, <1>2 DEF Disc!AddSource, Disc!RemoveSource, Disc!UpdateSources, Disc!Added,
     Disc!Unreported, Disc!BrowserNew, Disc!ResolverFailure, Disc!BrowserRemove, Disc!Second,
     Disc!vars, Disc!browser, Disc!sinks
<1>10. ASSUME NEW c \in Tasks,
              \/ Disc!Describe(c) \/ Disc!Answer(c) \/ Disc!ResolverFound(c) \/ Disc!Register(c)
              \/ Disc!Connect(c) \/ Disc!Response(c) \/ Disc!NotFound(c) \/ Disc!Update(c)
              \/ Disc!Stopped(c) \/ Disc!Broken(c)
       PROVE  SinkInv'
  BY <1>10, <1>2 DEF Disc!Describe, Disc!Answer, Disc!ResolverFound, Disc!Register, Disc!Connect,
     Disc!Response, Disc!NotFound, Disc!Update, Disc!Stopped, Disc!Broken, Disc!End,
     Disc!browser, Disc!sinks
<1>11. QED BY <1>4, <1>5, <1>6, <1>7, <1>8, <1>9, <1>10
       DEF Disc!Next, Disc!Talker, Disc!Avahi, Disc!Listener, Disc!SinkWorker

(* The sink of another node has the table's version whenever its worker    *)
(* sees nothing new, unless the table changed twice in one second: the     *)
(* comparison of whole seconds in update_sinks loses nothing else.  What   *)
(* is lost is a version add_sink failed on: the worker saw it, and sees    *)
(* nothing new any more.                                                   *)
THEOREM SinkKeepsUp ==
  ASSUME Disc!DiscoveryConstants
  PROVE  Disc!Spec => []SinkSettled
<1>1. Disc!Init => SinkInv
  <2> SUFFICES ASSUME Disc!Init PROVE SinkInv OBVIOUS
  <2>1. /\ table = 0 /\ last_update = 0 /\ last_sink_update = 0 /\ sink = 0
        /\ worker = [at |-> "idle", ts |-> 0, found |-> 0]
    BY DEF Disc!Init
  <2>2. DiscInv BY DiscInitially
  <2>3. worker.ts = 0 /\ worker.at = "idle" BY <2>1
  <2>4. QED BY <2>1, <2>2, <2>3 DEF SinkInv
<1>2. SinkInv /\ [Disc!Next]_Disc!vars => SinkInv' BY DiscInductive, SinkInductive DEF SinkInv
<1>3. SinkInv => SinkSettled
  <2>1. SinkInv => sink \in Int /\ (0 <= sink \/ sink = -1) BY DEF SinkInv, DiscInv, SinksOK
  <2>2. QED BY <2>1 DEF SinkInv, SinkSettled
<1>4. QED BY <1>1, <1>2, <1>3, PTL DEF Disc!Spec

(* The parts of DirectoryInv across a step.                                *)
LEMMA CalmBefore ==
  ASSUME faults \in Nat, [Disc!Next]_Disc!vars
  PROVE  faults' \in Nat /\ (Calm' => Calm /\ faults' = faults)
<1>1. CASE faults' = faults /\ (late => late') /\ (missed => missed') BY <1>1 DEF Calm
<1>2. CASE faults' = faults + 1 BY <1>2 DEF Calm
<1>3. CASE \/ Disc!AddSource \/ Disc!RemoveSource \/ Disc!BrowserNew \/ Disc!BrowserRemove
           \/ Disc!OnRemoveRtspSource \/ Disc!SinkWorker \/ Disc!Second \/ UNCHANGED Disc!vars
  BY <1>3, <1>1 DEF Disc!AddSource, Disc!RemoveSource, Disc!BrowserNew, Disc!BrowserRemove,
     Disc!OnRemoveRtspSource, Disc!SinkWorker, Disc!CheckUpdate, Disc!GetRemoteSources,
     Disc!ApplyUpdate, Disc!Second, Disc!vars
<1>4. CASE Disc!Added \/ Disc!UpdateSources
  <2>1. UNCHANGED <<faults, late>> /\ (Disc!Announce(drawn) \/ Disc!Announce(drawn + 1))
    BY <1>4 DEF Disc!Added, Disc!UpdateSources
  <2>2. missed => missed' BY <2>1, Zenon DEF Disc!Announce
  <2>3. QED BY <1>1, <2>1, <2>2
<1>5. CASE Disc!Unreported \/ Disc!ResolverFailure
  BY <1>5, <1>2 DEF Disc!Unreported, Disc!ResolverFailure, Disc!Fault
<1>6. ASSUME NEW c \in Tasks,
             \/ Disc!Describe(c) \/ Disc!Answer(c) \/ Disc!ResolverFound(c) \/ Disc!Register(c)
             \/ Disc!Connect(c) \/ Disc!Response(c) \/ Disc!NotFound(c) \/ Disc!Update(c)
             \/ Disc!Stopped(c)
      PROVE  faults' = faults /\ late' = late /\ missed' = missed
  BY <1>6 DEF Disc!Describe, Disc!Answer, Disc!ResolverFound, Disc!Register, Disc!Connect,
     Disc!Response, Disc!NotFound, Disc!Update, Disc!Stopped, Disc!End
<1>7. ASSUME NEW c \in Tasks, Disc!Deliver(c)
      PROVE  faults' = faults /\ (late => late') /\ missed' = missed
  BY <1>7 DEF Disc!Deliver
<1>8. ASSUME NEW c \in Tasks, Disc!Broken(c) PROVE faults' = faults + 1
  BY <1>8 DEF Disc!Broken, Disc!Fault
<1>9. QED BY <1>1, <1>2, <1>3, <1>4, <1>5, <1>6, <1>7, <1>8
      DEF Disc!Next, Disc!Talker, Disc!Avahi, Disc!Listener

LEMMA TaskKept ==
  ASSUME NEW c \in Tasks,
         server'[c] = server[c], wire'[c] = wire[c], task'[c] = task[c]
  PROVE  /\ Misses(c) => Misses(c)'
         /\ UNCHANGED <<version, table>> /\ Follows(c) => Follows(c)'
<1>1. Misses(c) => Misses(c)' BY DEF Misses
<1>2. UNCHANGED <<version, table>> /\ Follows(c) => Follows(c)' BY DEF Follows, Latest
<1>3. QED BY <1>1, <1>2

(* A step of the tasks, the servers or the worker.                         *)
LEMMA DirectoryKept ==
  ASSUME Reports, Found, Gone, ClientOK,
         UNCHANGED <<version, updating, service, events, resolving, removing, client>>,
         \A c \in Tasks : task'[c].at = "start" <=> task[c].at = "start",
         events = <<>> /\ ~service => table' = table,
         \A c \in Tasks : client = c /\ service /\ Follows(c) => Follows(c)',
         \A c \in Tasks : client = c /\ ~service /\ Misses(c) => Misses(c)'
  PROVE  (Reports /\ Found /\ Gone)'
<1>1. Reports' BY DEF Reports
<1>2. Starting' <=> Starting BY DEF Starting
<1>3. client # None => client \in Tasks BY DEF ClientOK
<1>4. Found'
  <2>1. service /\ client # None /\ Follows(client) => Follows(client)' BY <1>3
  <2>2. QED BY <1>2, <2>1 DEF Found
<1>5. Gone'
  <2>1. ~service /\ client # None /\ Misses(client) => Misses(client)' BY <1>3
  <2>2. QED BY <2>1 DEF Gone
<1>6. QED BY <1>1, <1>4, <1>5

(* The queue of events when one is appended, and when one is taken.        *)
LEMMA EventAppended ==
  ASSUME DiscInv, Reports, NEW e \in {"new", "remove"}, events' = Append(events, e),
         events # <<>> => events[Len(events)] # e,
         service' <=> e = "new",
         ~updating' => (service' <=> version' # 0),
         removing' = removing, removing /\ events = <<>> => e = "new"
  PROVE  Reports' /\ events' # <<>>
<1>1. events \in Seq({"new", "remove"}) /\ Len(events) \in Nat BY DEF DiscInv, SourceOK
<1>2. /\ Len(events') = Len(events) + 1 /\ events'[Len(events) + 1] = e
      /\ \A k \in 1..Len(events) : events'[k] = events[k]
      /\ events' \in Seq({"new", "remove"}) /\ events' # <<>>
  BY <1>1
<1>3. ASSUME NEW k \in 1..(Len(events') - 1) PROVE events'[k] # events'[k + 1]
  <2>1. CASE k = Len(events)
    <3>1. events # <<>> BY <2>1, <1>1, <1>2, <1>3
    <3>2. QED BY <2>1, <3>1, <1>2, <1>3
  <2>2. CASE k # Len(events)
    <3>1. k \in 1..(Len(events) - 1) /\ k \in 1..Len(events) /\ k + 1 \in 1..Len(events)
      BY <2>2, <1>1, <1>2, <1>3
    <3>2. QED BY <3>1, <1>2 DEF Reports
  <2>3. QED BY <2>1, <2>2
<1>4. events'[Len(events')] = e BY <1>2
<1>5. removing' => Head(events') = "new"
  <2>1. CASE events = <<>>
    <3>1. Head(events') = e BY <2>1
    <3>2. QED BY <2>1, <3>1
  <2>2. CASE events # <<>>
    <3>1. Head(events') = Head(events) BY <2>2, <1>1, <1>2
    <3>2. QED BY <2>2, <3>1 DEF Reports
  <2>3. QED BY <2>1, <2>2
<1>6. QED BY <1>2, <1>3, <1>4, <1>5 DEF Reports

LEMMA EventReported ==
  ASSUME DiscInv, Reports, events # <<>>, events' = Tail(events),
         UNCHANGED <<version, updating, service>>,
         removing' => Head(events) = "remove"
  PROVE  Reports' /\ (events' = <<>> => (service <=> Head(events) = "new"))
<1>1. events \in Seq({"new", "remove"}) /\ Len(events) \in Nat BY DEF DiscInv, SourceOK
<1>2. /\ events' \in Seq({"new", "remove"}) /\ Len(events') = Len(events) - 1
      /\ Len(events) >= 1 /\ \A k \in 1..Len(events') : events'[k] = events[k + 1]
      /\ Head(events) = events[1]
  BY <1>1
<1>3. \A k \in 1..(Len(events') - 1) : events'[k] # events'[k + 1]
  <2> SUFFICES ASSUME NEW k \in 1..(Len(events') - 1) PROVE events'[k] # events'[k + 1]
    OBVIOUS
  <2>1. k \in 1..Len(events') /\ k + 1 \in 1..Len(events') /\ k + 1 \in 1..(Len(events) - 1)
    BY <1>1, <1>2
  <2>2. events'[k] = events[k + 1] /\ events'[k + 1] = events[(k + 1) + 1] BY <1>2, <2>1
  <2>3. events[k + 1] # events[(k + 1) + 1] BY <2>1 DEF Reports
  <2>4. QED BY <2>2, <2>3
<1>4. events' = <<>> => (service <=> Head(events) = "new")
  <2>1. events' = <<>> => Len(events) = 1 BY <1>1, <1>2
  <2>2. QED BY <2>1, <1>2 DEF Reports
<1>5. events' # <<>> => (service' <=> events'[Len(events')] = "new")
  <2> SUFFICES ASSUME events' # <<>> PROVE service' <=> events'[Len(events')] = "new"
    OBVIOUS
  <2>1. Len(events') \in 1..Len(events') /\ Len(events') + 1 = Len(events) BY <1>1, <1>2
  <2>2. events'[Len(events')] = events[Len(events)] BY <1>2, <2>1
  <2>3. QED BY <2>2 DEF Reports
<1>6. removing' => IF events' = <<>> THEN ~service' ELSE Head(events') = "new"
  <2> SUFFICES ASSUME removing' PROVE IF events' = <<>> THEN ~service' ELSE Head(events') = "new"
    OBVIOUS
  <2>1. CASE events' = <<>> BY <2>1, <1>4
  <2>2. CASE events' # <<>>
    <3>1. Head(events') = events'[1] /\ 1 \in 1..Len(events') /\ 1 \in 1..(Len(events) - 1)
      BY <2>2, <1>1, <1>2
    <3>2. events'[1] = events[2] /\ events[1] # events[2] BY <3>1, <1>2 DEF Reports
    <3>3. events[2] \in {"new", "remove"} BY <1>1, <1>2, <3>1
    <3>4. QED BY <2>2, <3>1, <3>2, <3>3, <1>2
  <2>3. QED BY <2>1, <2>2
<1>7. QED BY <1>3, <1>4, <1>5, <1>6 DEF Reports

(* The source is added, updated or removed.                                *)
LEMMA SourceReported ==
  ASSUME DirectoryInv, Calm, Disc!AddSource \/ Disc!RemoveSource \/ Disc!Added
  PROVE  (Reports /\ Found /\ Gone)'
<1>1. Reports /\ Found /\ Gone /\ DiscInv BY DEF DirectoryInv
<1>2. removing' = removing
  BY DEF Disc!AddSource, Disc!RemoveSource, Disc!Added, Disc!mdns
<1>3. CASE Disc!Added
  <2>1. /\ updating /\ service' = TRUE /\ version' = drawn /\ events' = Append(events, "new")
    BY <1>3 DEF Disc!Added, Disc!AddService
  <2>2. ~service /\ drawn # 0 BY <2>1, <1>1 DEF DiscInv, SourceOK, Given
  <2>3. events # <<>> => events[Len(events)] # "new" BY <2>2, <1>1 DEF Reports
  <2>4. Reports' /\ events' # <<>> BY <1>1, <1>2, <2>1, <2>2, <2>3, EventAppended
  <2>5. QED BY <2>4 DEF Found, Gone
<1>4. CASE (Disc!AddSource \/ Disc!RemoveSource) /\ service
  <2>1. /\ service' = FALSE /\ events' = Append(events, "remove")
        /\ ~updating' => version' = 0
    BY <1>4 DEF Disc!AddSource, Disc!RemoveSource, Disc!RemoveService
  <2>2. events # <<>> => events[Len(events)] # "remove" BY <1>4, <1>1 DEF Reports
  <2>3. removing /\ events = <<>> => FALSE BY <1>4, <1>1 DEF Reports
  <2>4. Reports' /\ events' # <<>> BY <1>1, <1>2, <2>1, <2>2, <2>3, EventAppended
  <2>5. QED BY <2>4 DEF Found, Gone
<1>5. CASE (Disc!AddSource \/ Disc!RemoveSource) /\ ~service
  <2>1. ~updating /\ version = 0
    BY <1>5, <1>1 DEF Disc!AddSource, Disc!RemoveSource, Reports
  <2>2. /\ Disc!AddSource /\ service' = FALSE /\ updating' = TRUE
        /\ UNCHANGED <<version, events, resolving, client, task, server, wire, table>>
    BY <1>5, <2>1 DEF Disc!AddSource, Disc!RemoveSource, Disc!RemoveService, Disc!rtsp,
       Disc!mdns, Disc!browser
  <2>3. Reports' BY <1>1, <1>2, <1>5, <2>2 DEF Reports
  <2>4. Found' BY <2>2 DEF Found
  <2>5. client # None => client \in Tasks BY <1>1 DEF DiscInv, ClientOK
  <2>6. client # None /\ Misses(client) => Misses(client)' BY <2>2 DEF Misses
  <2>7. Gone' BY <1>1, <1>2, <1>5, <2>2, <2>6 DEF Gone
  <2>8. QED BY <2>3, <2>4, <2>7
<1>6. QED BY <1>3, <1>4, <1>5

LEMMA UpdateAnnounced ==
  ASSUME DirectoryInv, Calm', Disc!UpdateSources
  PROVE  (Reports /\ Found /\ Gone)'
<1>1. Reports /\ Found /\ Gone /\ DiscInv
  <2>1. missed => missed' BY Zenon DEF Disc!UpdateSources, Disc!Announce
  <2>2. Calm BY <2>1 DEF Calm, Disc!UpdateSources
  <2>3. QED BY <2>2 DEF DirectoryInv
<1>2. /\ ~updating /\ version # 0 /\ version' = drawn + 1 /\ drawn \in Nat
      /\ UNCHANGED <<updating, service, events, server, resolving, removing, task, client, table>>
  BY <1>1, GivenTyped DEF Disc!UpdateSources, Disc!mdns, Disc!browser
<1>3. service /\ service' BY <1>1, <1>2 DEF Reports
<1>4. /\ wire' = [c \in Tasks |-> IF Disc!Told(c)
                                  THEN Append(wire[c], <<"announce", drawn + 1>>) ELSE wire[c]]
      /\ \A c \in Tasks : server[c].state # "answer"
  <2>1. missed' = (missed \/ \E c \in Tasks : server[c].state = "answer")
    BY DEF Disc!UpdateSources, Disc!Announce
  <2>2. ~missed' BY DEF Calm
  <2>3. \A c \in Tasks : server[c].state # "answer" BY <2>1, <2>2, Zenon
  <2>4. QED BY <2>3 DEF Disc!UpdateSources, Disc!Announce
<1>5. Reports' BY <1>1, <1>2, <1>3 DEF Reports
<1>6. Gone' BY <1>3 DEF Gone
<1>7. ASSUME NEW c \in Tasks, Follows(c) PROVE Follows(c)'
  <2>1. CASE ~Disc!Told(c)
    <3>1. task[c].at = "connect" \/ (task[c].at = "ask" /\ server[c].state = "asked")
      BY <1>4, <1>7, <2>1 DEF Follows, Disc!Told
    <3>2. QED BY <1>2, <3>1 DEF Follows
  <2>2. CASE Disc!Told(c)
    <3>1. /\ server[c].state = "idle" /\ server[c].described
          /\ wire'[c] = Append(wire[c], <<"announce", drawn + 1>>)
          /\ wire[c] \in Seq(Messages)
      BY <1>1, <1>4, <2>2 DEF Disc!Told, DiscInv, ConnectionsOK, ConnectionOK
    <3>2. <<"announce", drawn + 1>> \in Messages BY <1>2 DEF Messages
    <3>3. /\ wire'[c] # <<>> /\ Len(wire'[c]) = Len(wire[c]) + 1 /\ Len(wire[c]) \in Nat
          /\ DOMAIN wire'[c] = 1..(Len(wire[c]) + 1) /\ DOMAIN wire[c] = 1..Len(wire[c])
          /\ wire'[c][Len(wire[c]) + 1] = <<"announce", drawn + 1>>
          /\ \A k \in 1..Len(wire[c]) : wire'[c][k] = wire[c][k]
      BY <3>1, <3>2
    <3>4. \A k \in DOMAIN wire[c] : wire[c][k][2] # 0
      <4>1. ConnectionOK(c) BY <1>1 DEF DiscInv, ConnectionsOK
      <4>2. task[c].at # "connect" BY <3>1, <4>1 DEF ConnectionOK
      <4>3. QED BY <3>1, <4>2, <1>7 DEF Follows
    <3>5. ASSUME NEW k \in DOMAIN wire'[c] PROVE wire'[c][k][2] # 0
      <4>1. CASE k = Len(wire[c]) + 1
        <5>1. wire'[c][k][2] = drawn + 1 BY <4>1, <3>3
        <5>2. QED BY <5>1, <1>2
      <4>2. CASE k \in DOMAIN wire[c] BY <4>2, <3>3, <3>4
      <4>3. QED BY <4>1, <4>2, <3>3, <3>5
    <3>6. Latest(c)' = version'
      <4>1. wire'[c][Len(wire'[c])][2] = drawn + 1 BY <3>3
      <4>2. QED BY <4>1, <3>3, <1>2 DEF Latest
    <3>7. QED BY <1>2, <3>1, <3>3, <3>5, <3>6 DEF Follows
  <2>3. QED BY <2>1, <2>2
<1>8. Found'
  <2>1. Starting' <=> Starting BY <1>2 DEF Starting
  <2>2. client # None => client \in Tasks BY <1>1 DEF DiscInv, ClientOK
  <2>3. client # None /\ Follows(client) => Follows(client)' BY <1>2, <1>7, <2>2
  <2>4. QED BY <1>1, <1>2, <2>1, <2>3 DEF Found
<1>9. QED BY <1>5, <1>6, <1>8

(* DESCRIBE: the active client is told what the source is.                 *)
LEMMA DescribeFollows ==
  ASSUME DirectoryInv, Calm, NEW c \in Tasks, Disc!Describe(c) \/ Disc!Answer(c)
  PROVE  (Reports /\ Found /\ Gone)'
<1>1. Reports /\ Found /\ Gone /\ DiscInv /\ ClientOK BY DEF DirectoryInv, DiscInv
<1>2. UNCHANGED <<version, updating, service, events, resolving, removing, client, task, table>>
  BY DEF Disc!Describe, Disc!Answer, Disc!node1, Disc!mdns, Disc!browser
<1>3. /\ ConnectionOK(c) /\ server[c] \in Servers /\ DOMAIN server = Tasks
      /\ DOMAIN wire = Tasks
  BY <1>1 DEF DiscInv, ConnectionsOK, ConnectionOK
<1>4. CASE Disc!Describe(c)
  <2>1. /\ server[c].state = "asked" /\ ~updating /\ wire' = wire
        /\ server' = [server EXCEPT ![c].state = "answer", ![c].sdp = version]
    BY <1>4 DEF Disc!Describe
  <2>2. /\ server'[c] = [server[c] EXCEPT !.state = "answer", !.sdp = version]
        /\ \A d \in Tasks \ {c} : server'[d] = server[d]
    BY <2>1, <1>3
  <2>3. server'[c].state = "answer" /\ server'[c].sdp = version
    BY <2>2, <1>3 DEF Servers
  <2>4. task[c].at # "connect" BY <2>1, <1>3 DEF ConnectionOK
  <2>5. Follows(c) => Follows(c)' BY <1>2, <2>1, <2>3, <2>4 DEF Follows
  <2>6. ~service /\ Misses(c) => Misses(c)'
    <3>1. ~service => version = 0 BY <2>1, <1>1 DEF Reports
    <3>2. QED BY <1>2, <2>1, <2>3, <2>4, <3>1 DEF Misses
  <2>7. \A d \in Tasks : service /\ Follows(d) => Follows(d)' BY <1>2, <2>1, <2>2, <2>5, TaskKept
  <2>8. \A d \in Tasks : ~service /\ Misses(d) => Misses(d)' BY <1>2, <2>1, <2>2, <2>6, TaskKept
  <2>9. QED BY <1>1, <1>2, <2>7, <2>8, DirectoryKept
<1>5. CASE Disc!Answer(c)
  <2>1. /\ server[c].state = "answer"
        /\ server' = [server EXCEPT ![c].state = "idle", ![c].sdp = 0,
                                    ![c].described = server[c].sdp # 0]
        /\ wire' = [wire EXCEPT ![c] = Append(@, <<"response", server[c].sdp>>)]
    BY <1>5 DEF Disc!Answer
  <2>2. /\ server'[c] = [server[c] EXCEPT !.state = "idle", !.sdp = 0,
                                          !.described = server[c].sdp # 0]
        /\ \A d \in Tasks \ {c} : server'[d] = server[d] /\ wire'[d] = wire[d]
    BY <2>1, <1>3
  <2>3. server'[c].state = "idle" /\ server'[c].described = (server[c].sdp # 0)
    BY <2>2, <1>3 DEF Servers
  <2>4. wire[c] = <<>> /\ task[c].at # "connect" BY <2>1, <1>3 DEF ConnectionOK
  <2>5. wire'[c] = <<<<"response", server[c].sdp>>>> BY <2>1, <2>4, <1>3
  <2>6. /\ wire'[c] # <<>> /\ Len(wire'[c]) = 1 /\ DOMAIN wire'[c] = {1}
        /\ wire'[c][1][2] = server[c].sdp
    BY <2>5
  <2>7. service /\ Follows(c) => Follows(c)'
    <3> SUFFICES ASSUME service, Follows(c) PROVE Follows(c)' OBVIOUS
    <3>1. version # 0 BY <1>1 DEF Reports, DiscInv, SourceOK
    <3>2. server[c].sdp = version BY <2>1, <2>4 DEF Follows
    <3>3. server'[c].described BY <2>3, <3>1, <3>2
    <3>4. Latest(c)' = version' BY <1>2, <2>6, <3>2 DEF Latest
    <3>5. QED BY <1>2, <2>3, <2>6, <3>1, <3>2, <3>3, <3>4 DEF Follows
  <2>8. Misses(c) => Misses(c)'
    <3> SUFFICES ASSUME Misses(c) PROVE Misses(c)' OBVIOUS
    <3>1. server[c].sdp = 0 /\ task[c].at = "ask" BY <2>1, <2>4 DEF Misses
    <3>2. ~server'[c].described BY <2>3, <3>1
    <3>3. QED BY <1>2, <2>3, <2>6, <3>1, <3>2 DEF Misses
  <2>9. \A d \in Tasks : service /\ Follows(d) => Follows(d)' BY <1>2, <2>2, <2>7, TaskKept
  <2>10. \A d \in Tasks : ~service /\ Misses(d) => Misses(d)' BY <1>2, <2>2, <2>8, TaskKept
  <2>11. QED BY <1>1, <1>2, <2>9, <2>10, DirectoryKept
<1>6. QED BY <1>4, <1>5

(* NEW, REMOVE and the resolver.                                           *)
LEMMA ReportsHandled ==
  ASSUME Disc!DiscoveryConstants, DirectoryInv, Calm,
         Disc!BrowserNew \/ Disc!BrowserRemove \/ Disc!OnRemoveRtspSource
  PROVE  (Reports /\ Found /\ Gone)'
<1>1. Reports /\ Found /\ Gone /\ DiscInv /\ ClientOK BY DEF DirectoryInv, DiscInv
<1>2. UNCHANGED <<version, updating, service, task, wire>>
  BY DEF Disc!BrowserNew, Disc!BrowserRemove, Disc!OnRemoveRtspSource, Disc!Unregistered,
     Disc!node1, Disc!rtsp
<1>3. CASE Disc!BrowserNew
  <2>1. /\ events # <<>> /\ Head(events) = "new" /\ ~removing' /\ events' = Tail(events)
        /\ resolving'
    BY <1>3 DEF Disc!BrowserNew
  <2>2. Reports' /\ (events' = <<>> => service) BY <1>1, <1>2, <2>1, EventReported
  <2>3. QED BY <1>2, <2>1, <2>2 DEF Found, Gone
<1>4. CASE Disc!BrowserRemove
  <2>1. /\ events # <<>> /\ Head(events) = "remove" /\ removing' /\ events' = Tail(events)
        /\ client' = None
    BY <1>4 DEF Disc!BrowserRemove
  <2>2. Reports' /\ (events' = <<>> => ~service) BY <1>1, <1>2, <2>1, EventReported
  <2>3. QED BY <1>2, <2>1, <2>2 DEF Found, Gone
<1>5. CASE Disc!OnRemoveRtspSource
  <2>1. removing /\ removing' = FALSE /\ table' = 0 /\ UNCHANGED <<events, client, server>>
    BY <1>5 DEF Disc!OnRemoveRtspSource, Disc!node1, Disc!rtsp
  <2>2. Reports' BY <1>1, <1>2, <2>1 DEF Reports
  <2>3. Found' BY <1>1, <1>2, <2>1 DEF Found, Reports
  <2>4. client # None /\ Misses(client) => Misses(client)' BY <1>2, <2>1 DEF Misses
  <2>5. Gone' BY <1>1, <1>2, <2>1, <2>4 DEF Gone
  <2>6. QED BY <2>2, <2>3, <2>5
<1>6. QED BY <1>3, <1>4, <1>5

(* A task starts, registers and connects.                                  *)
LEMMA StartFollows ==
  ASSUME Disc!DiscoveryConstants, DirectoryInv, Calm, NEW c \in Tasks,
         Disc!ResolverFound(c) \/ Disc!Register(c) \/ Disc!Connect(c)
  PROVE  (Reports /\ Found /\ Gone)'
<1>1. Reports /\ Found /\ Gone /\ DiscInv /\ ClientOK BY DEF DirectoryInv, DiscInv
<1>2. UNCHANGED <<version, updating, service, events, removing, wire, table>>
  BY DEF Disc!ResolverFound, Disc!Register, Disc!Connect, Disc!node1, Disc!rtsp, Disc!mdns,
     Disc!browser
<1>3. /\ DOMAIN task = Tasks /\ DOMAIN server = Tasks /\ task[c] \in Runs /\ server[c] \in Servers
  BY <1>1 DEF DiscInv, ConnectionsOK, ConnectionOK
<1>4. Reports' BY <1>1, <1>2 DEF Reports
<1>5. CASE Disc!ResolverFound(c)
  <2>1. /\ task[c].at = "none" /\ task' = [task EXCEPT ![c].at = "start"]
        /\ UNCHANGED <<server, client>>
    BY <1>5 DEF Disc!ResolverFound, Disc!Idle, Disc!rtsp
  <2>2. task'[c] = [task[c] EXCEPT !.at = "start"] /\ \A d \in Tasks \ {c} : task'[d] = task[d]
    BY <2>1, <1>3
  <2>3. task'[c].at = "start" BY <2>2, <1>3 DEF Runs
  <2>4. Found' BY <2>3 DEF Found, Starting
  <2>5. client # None => client \in Tasks \ {c} BY <1>1, <2>1 DEF ClientOK
  <2>6. client # None /\ Misses(client) => Misses(client)'
    <3> SUFFICES ASSUME client # None PROVE Misses(client) => Misses(client)' OBVIOUS
    <3>1. task'[client] = task[client] BY <2>2, <2>5
    <3>2. QED BY <1>2, <2>1, <3>1 DEF Misses
  <2>7. Gone' BY <1>1, <1>2, <2>1, <2>6 DEF Gone
  <2>8. QED BY <1>4, <2>4, <2>7
<1>6. CASE Disc!Register(c)
  <2>1. client' = c /\ task' = [task EXCEPT ![c] = [at |-> "connect", carry |-> 0]]
    BY <1>6 DEF Disc!Register, Disc!Goes
  <2>2. task'[c].at = "connect" /\ client' # None BY <2>1, <1>3 DEF Disc!DiscoveryConstants
  <2>3. Follows(client)' /\ Misses(client)' BY <2>1, <2>2 DEF Follows, Misses
  <2>4. QED BY <1>1, <1>2, <1>4, <2>2, <2>3 DEF Found, Gone
<1>7. CASE Disc!Connect(c)
  <2>1. /\ task[c].at = "connect" /\ UNCHANGED <<client, resolving>>
        /\ task' = [task EXCEPT ![c] = [at |-> "ask", carry |-> 0]]
        /\ server' = [server EXCEPT ![c].state = "asked"]
    BY <1>7 DEF Disc!Connect, Disc!Goes, Disc!mdns
  <2>2. /\ task'[c] = [at |-> "ask", carry |-> 0]
        /\ server'[c] = [server[c] EXCEPT !.state = "asked"]
        /\ \A d \in Tasks \ {c} : task'[d] = task[d] /\ server'[d] = server[d]
    BY <2>1, <1>3
  <2>3. task'[c].at = "ask" /\ server'[c].state = "asked" BY <2>2, <1>3 DEF Servers
  <2>4. Follows(c)' /\ Misses(c)' BY <2>3 DEF Follows, Misses
  <2>5. \A d \in Tasks : /\ Follows(d) => Follows(d)'
                         /\ Misses(d) => Misses(d)'
    BY <1>2, <2>2, <2>4, TaskKept
  <2>6. \A d \in Tasks : task'[d].at = "start" <=> task[d].at = "start" BY <2>1, <2>2
  <2>7. QED BY <1>1, <1>2, <2>1, <2>5, <2>6, DirectoryKept
<1>8. QED BY <1>5, <1>6, <1>7

(* The active client does not end while it follows the source.             *)
LEMMA EndFollows ==
  ASSUME Disc!DiscoveryConstants, DirectoryInv, Calm, NEW c \in Tasks,
         Disc!NotFound(c) \/ Disc!Stopped(c)
  PROVE  (Reports /\ Found /\ Gone)'
<1>1. Reports /\ Found /\ Gone /\ DiscInv /\ ClientOK BY DEF DirectoryInv, DiscInv
<1>2. Disc!End(c) BY DEF Disc!NotFound, Disc!Stopped
<1>3. /\ UNCHANGED <<version, updating, service, events, resolving, removing, table>>
      /\ task' = [task EXCEPT ![c] = [at |-> "none", carry |-> 0]]
      /\ client' = IF client = c THEN None ELSE client
      /\ server' = [server EXCEPT ![c] = Disc!NoServer]
      /\ wire' = [wire EXCEPT ![c] = <<>>]
  BY <1>2 DEF Disc!End, Disc!Goes, Disc!Shut, Disc!node1, Disc!mdns, Disc!browser
<1>4. /\ DOMAIN task = Tasks /\ DOMAIN server = Tasks /\ DOMAIN wire = Tasks
      /\ ConnectionOK(c) /\ wire[c] \in Seq(Messages)
  BY <1>1 DEF DiscInv, ConnectionsOK, ConnectionOK
<1>5. /\ task'[c].at = "none" /\ task[c].at # "start"
      /\ \A d \in Tasks \ {c} : server'[d] = server[d] /\ wire'[d] = wire[d]
                                                      /\ task'[d] = task[d]
  BY <1>3, <1>4 DEF Disc!NotFound, Disc!Stopped
<1>6. Starting' <=> Starting
  <2>1. \A d \in Tasks : task'[d].at = "start" <=> task[d].at = "start" BY <1>5
  <2>2. QED BY <2>1 DEF Starting
<1>7. client = c => ~Follows(c)
  <2> SUFFICES ASSUME client = c, Follows(c) PROVE FALSE OBVIOUS
  <2>1. CASE Disc!NotFound(c)
    <3>1. task[c].at = "ask" /\ wire[c] # <<>> /\ Head(wire[c])[2] = 0
      BY <2>1 DEF Disc!NotFound
    <3>2. Head(wire[c]) = wire[c][1] /\ 1 \in DOMAIN wire[c] BY <3>1, <1>4
    <3>3. server[c].state \notin {"asked", "answer"} BY <3>1, <1>4 DEF ConnectionOK
    <3>4. QED BY <3>1, <3>2, <3>3 DEF Follows
  <2>2. CASE Disc!Stopped(c)
    <3>1. task[c].at \in {"ask", "await"} /\ server[c].state = "closed"
      BY <2>2 DEF Disc!Stopped, Disc!DiscoveryConstants
    <3>2. QED BY <3>1 DEF Follows
  <2>3. QED BY <2>1, <2>2
<1>8. client # None => client \in Tasks BY <1>1 DEF ClientOK
<1>9. Reports' BY <1>1, <1>3 DEF Reports
<1>10. CASE client = c
  <2>1. client' = None /\ c # None BY <1>3, <1>10 DEF Disc!DiscoveryConstants
  <2>2. Found' BY <1>1, <1>3, <1>6, <1>7, <1>10 DEF Found
  <2>3. Gone' BY <1>1, <1>3, <2>1 DEF Gone
  <2>4. QED BY <1>9, <2>2, <2>3
<1>11. CASE client # c
  <2>1. client' = client BY <1>3, <1>11
  <2>2. client # None => /\ Follows(client) => Follows(client)'
                         /\ Misses(client) => Misses(client)'
    <3> SUFFICES ASSUME client # None
                 PROVE  (Follows(client) => Follows(client)') /\ (Misses(client) => Misses(client)')
      OBVIOUS
    <3>1. /\ server'[client] = server[client] /\ wire'[client] = wire[client]
          /\ task'[client] = task[client]
      BY <1>5, <1>8, <1>11
    <3>2. Follows(client) => Follows(client)' BY <1>3, <2>1, <3>1 DEF Follows, Latest
    <3>3. Misses(client) => Misses(client)' BY <2>1, <3>1 DEF Misses
    <3>4. QED BY <3>2, <3>3
  <2>3. Found' BY <1>1, <1>3, <1>6, <2>1, <2>2 DEF Found
  <2>4. Gone' BY <1>1, <1>3, <2>1, <2>2 DEF Gone
  <2>5. QED BY <1>9, <2>3, <2>4
<1>12. QED BY <1>10, <1>11

(* A description on its way stays the last one until it is in the table.   *)
LEMMA ReadFollows ==
  ASSUME Disc!DiscoveryConstants, DirectoryInv, Calm, Calm', NEW c \in Tasks,
         Disc!Response(c) \/ Disc!Update(c) \/ Disc!Deliver(c)
  PROVE  (Reports /\ Found /\ Gone)'
<1>1. Reports /\ Found /\ Gone /\ DiscInv /\ ClientOK BY DEF DirectoryInv, DiscInv
<1>2. UNCHANGED <<version, updating, service, events, server, resolving, removing, client>>
  BY DEF Disc!Response, Disc!Update, Disc!Deliver, Disc!node1, Disc!rtsp, Disc!mdns
<1>3. /\ DOMAIN task = Tasks /\ DOMAIN wire = Tasks
      /\ ConnectionOK(c) /\ wire[c] \in Seq(Messages)
  BY <1>1 DEF DiscInv, ConnectionsOK, ConnectionOK
<1>4. CASE Disc!Response(c) \/ Disc!Update(c)
  <2>1. /\ task[c].at \in {"ask", "await"} /\ wire[c] # <<>>
        /\ task[c].at = "ask" => Head(wire[c])[2] # 0
        /\ task' = [task EXCEPT ![c] = [at |-> "deliver", carry |-> Head(wire[c])[2]]]
        /\ wire' = [wire EXCEPT ![c] = Tail(@)] /\ table' = table
    BY <1>4 DEF Disc!Response, Disc!Update, Disc!Goes, Disc!browser
  <2>2. /\ task'[c] = [at |-> "deliver", carry |-> Head(wire[c])[2]]
        /\ wire'[c] = Tail(wire[c])
        /\ \A d \in Tasks \ {c} : task'[d] = task[d] /\ wire'[d] = wire[d]
    BY <2>1, <1>3
  <2>3. /\ Head(wire[c]) = wire[c][1] /\ 1 \in DOMAIN wire[c]
        /\ Len(wire'[c]) = Len(wire[c]) - 1 /\ Len(wire[c]) \in Nat \ {0}
        /\ DOMAIN wire'[c] = 1..(Len(wire[c]) - 1) /\ DOMAIN wire[c] = 1..Len(wire[c])
        /\ \A k \in DOMAIN wire'[c] : wire'[c][k] = wire[c][k + 1]
        /\ wire'[c] = <<>> <=> Len(wire[c]) = 1
    <3>1. /\ Head(wire[c]) = wire[c][1] /\ 1 \in DOMAIN wire[c]
          /\ Len(wire'[c]) = Len(wire[c]) - 1 /\ Len(wire[c]) \in Nat \ {0}
          /\ DOMAIN wire'[c] = 1..(Len(wire[c]) - 1) /\ DOMAIN wire[c] = 1..Len(wire[c])
          /\ \A k \in DOMAIN wire'[c] : wire'[c][k] = wire[c][k + 1]
          /\ wire'[c] \in Seq(Messages)
      BY <2>1, <2>2, <1>3
    <3>2. \A q \in Seq(Messages) : q = <<>> <=> Len(q) = 0 OBVIOUS
    <3>3. wire'[c] = <<>> <=> Len(wire'[c]) = 0 BY <3>1, <3>2, Zenon
    <3>4. wire'[c] = <<>> <=> Len(wire[c]) = 1
      <4>1. Len(wire'[c]) = 0 <=> Len(wire[c]) = 1
        <5>1. Len(wire[c]) \in Nat /\ Len(wire'[c]) = Len(wire[c]) - 1 BY <3>1
        <5>2. QED BY <5>1
      <4>2. QED BY <3>3, <4>1, Zenon
    <3>5. QED BY <3>1, <3>4, Zenon
  <2>4. server[c].state \notin {"asked", "answer"} BY <2>1, <1>3 DEF ConnectionOK
  <2>5. Latest(c)' = wire[c][Len(wire[c])][2]
    <3>1. CASE wire'[c] = <<>>
      <4>1. Latest(c)' = Head(wire[c])[2] BY <3>1, <2>2 DEF Latest
      <4>2. QED BY <3>1, <4>1, <2>3
    <3>2. CASE wire'[c] # <<>>
      <4>1. /\ Len(wire[c]) - 1 \in DOMAIN wire'[c]
            /\ (Len(wire[c]) - 1) + 1 = Len(wire[c])
        BY <3>2, <2>3
      <4>2. wire'[c][Len(wire'[c])] = wire[c][Len(wire[c])] BY <4>1, <2>3
      <4>3. QED BY <3>2, <4>2 DEF Latest
    <3>3. QED BY <3>1, <3>2
  <2>6. Follows(c) => Follows(c)'
    <3> SUFFICES ASSUME Follows(c) PROVE Follows(c)' OBVIOUS
    <3>1. /\ server[c].state = "idle" /\ server[c].described
          /\ \A k \in DOMAIN wire[c] : wire[c][k][2] # 0
          /\ wire[c][Len(wire[c])][2] = version
      BY <2>1, <2>4 DEF Follows, Latest
    <3>2. ASSUME NEW k \in DOMAIN wire'[c] PROVE wire'[c][k][2] # 0
      <4>1. k + 1 \in DOMAIN wire[c] /\ wire'[c][k] = wire[c][k + 1] BY <2>3
      <4>2. QED BY <4>1, <3>1
    <3>3. task'[c].at = "deliver" BY <2>2
    <3>4. QED BY <1>2, <2>5, <3>1, <3>2, <3>3 DEF Follows
  <2>7. ~Misses(c)
    <3>1. task[c].at = "ask" => wire[c][1][2] # 0 BY <2>1, <2>3
    <3>2. QED BY <2>1, <2>3, <2>4, <3>1 DEF Misses
  <2>8. \A d \in Tasks : Follows(d) => Follows(d)' BY <1>2, <2>1, <2>2, <2>6, TaskKept
  <2>9. \A d \in Tasks : Misses(d) => Misses(d)' BY <1>2, <2>1, <2>2, <2>7, TaskKept
  <2>10. \A d \in Tasks : task'[d].at = "start" <=> task[d].at = "start" BY <2>1, <2>2
  <2>11. QED BY <1>1, <1>2, <2>1, <2>8, <2>9, <2>10, DirectoryKept
<1>5. CASE Disc!Deliver(c)
  <2>1. /\ task[c].at = "deliver" /\ table' = task[c].carry /\ wire' = wire
        /\ task' = [task EXCEPT ![c] = [at |-> "await", carry |-> 0]]
    BY <1>5 DEF Disc!Deliver, Disc!Goes, Disc!rtsp
  <2>2. client = c
    <3>1. late' = (late \/ client # c) BY <1>5 DEF Disc!Deliver
    <3>2. ~late' BY DEF Calm
    <3>3. QED BY <3>1, <3>2, Zenon
  <2>3. /\ task'[c].at = "await" /\ \A d \in Tasks \ {c} : task'[d] = task[d]
    BY <2>1, <1>3
  <2>5. Follows(c) => Follows(c)'
    <3>1. Latest(c)' = Latest(c) BY <2>1, <2>3 DEF Latest
    <3>2. QED BY <1>2, <2>1, <2>3, <3>1 DEF Follows
  <2>6. ~Misses(c) BY <2>1 DEF Misses
  <2>7. c # None => ~(events = <<>> /\ ~service) BY <1>1, <2>2, <2>6 DEF Gone
  <2>8. c # None BY DEF Disc!DiscoveryConstants
  <2>9. \A d \in Tasks : task'[d].at = "start" <=> task[d].at = "start" BY <2>1, <2>3
  <2>10. QED BY <1>1, <1>2, <2>2, <2>5, <2>6, <2>7, <2>8, <2>9, DirectoryKept
<1>6. QED BY <1>4, <1>5

LEMMA DirectoryInductive ==
  ASSUME Disc!DiscoveryConstants, DirectoryInv, DiscInv', [Disc!Next]_Disc!vars
  PROVE  DirectoryInv'
<1>1. faults' \in Nat /\ (Calm' => Calm /\ faults' = faults)
  BY CalmBefore DEF DirectoryInv
<1> SUFFICES ASSUME Calm' PROVE (Reports /\ Found /\ Gone)'
  BY <1>1 DEF DirectoryInv
<1>2. Calm /\ faults' = faults /\ faults \in Nat BY <1>1 DEF DirectoryInv
<1>3. CASE Disc!AddSource \/ Disc!RemoveSource \/ Disc!Added BY <1>2, <1>3, SourceReported
<1>4. CASE Disc!UpdateSources BY <1>4, UpdateAnnounced
<1>5. CASE Disc!BrowserNew \/ Disc!BrowserRemove \/ Disc!OnRemoveRtspSource
  BY <1>2, <1>5, ReportsHandled
<1>6. ~Disc!Unreported /\ ~Disc!ResolverFailure /\ \A c \in Tasks : ~Disc!Broken(c)
  BY <1>2 DEF Disc!Unreported, Disc!ResolverFailure, Disc!Broken, Disc!Fault
<1>7. CASE Disc!SinkWorker \/ Disc!Second \/ UNCHANGED Disc!vars
  <2>1. UNCHANGED <<version, updating, service, events, resolving, removing, client, task,
                    server, wire, table>>
    BY <1>7 DEF Disc!SinkWorker, Disc!CheckUpdate, Disc!GetRemoteSources, Disc!ApplyUpdate,
       Disc!Second, Disc!vars, Disc!node1, Disc!rtsp, Disc!mdns, Disc!browser
  <2>2. \A c \in Tasks : (Follows(c) => Follows(c)') /\ (Misses(c) => Misses(c)')
    BY <2>1, TaskKept
  <2>3. Reports /\ Found /\ Gone /\ ClientOK BY <1>2 DEF DirectoryInv, DiscInv
  <2>4. QED BY <2>1, <2>2, <2>3, DirectoryKept
<1>8. ASSUME NEW c \in Tasks, Disc!Describe(c) \/ Disc!Answer(c)
      PROVE  (Reports /\ Found /\ Gone)'
  BY <1>2, <1>8, DescribeFollows
<1>9. ASSUME NEW c \in Tasks, Disc!ResolverFound(c) \/ Disc!Register(c) \/ Disc!Connect(c)
      PROVE  (Reports /\ Found /\ Gone)'
  BY <1>2, <1>9, StartFollows
<1>10. ASSUME NEW c \in Tasks, Disc!NotFound(c) \/ Disc!Stopped(c)
       PROVE  (Reports /\ Found /\ Gone)'
  BY <1>2, <1>10, EndFollows
<1>11. ASSUME NEW c \in Tasks, Disc!Response(c) \/ Disc!Update(c) \/ Disc!Deliver(c)
       PROVE  (Reports /\ Found /\ Gone)'
  BY <1>2, <1>11, ReadFollows
<1>12. QED BY <1>3, <1>4, <1>5, <1>6, <1>7, <1>8, <1>9, <1>10, <1>11
       DEF Disc!Next, Disc!Talker, Disc!Avahi, Disc!Listener

(* Whatever the order of mDNS reports, descriptions and announcements, and *)
(* however many tasks outlive the service they were started for, a system  *)
(* in which nothing is under way has the source's last version in the      *)
(* browser's table, and nothing once the source is removed.  Excused are a *)
(* failure of the network, a delivery by a task that is not the active one *)
(* and an update between the two steps of DESCRIBE.                        *)
THEOREM DirectoryKeepsUp ==
  ASSUME Disc!DiscoveryConstants
  PROVE  Disc!Spec => []DirectorySettled
<1>1. Disc!Init => DirectoryInv
  <2> SUFFICES ASSUME Disc!Init PROVE DirectoryInv OBVIOUS
  <2>1. /\ version = 0 /\ updating = FALSE /\ service = FALSE /\ events = <<>>
        /\ removing = FALSE /\ client = None /\ table = 0 /\ faults = 0
    BY DEF Disc!Init
  <2>2. Reports BY <2>1 DEF Reports
  <2>3. Found /\ Gone BY <2>1 DEF Found, Gone
  <2>4. QED BY <2>1, <2>2, <2>3, DiscInitially DEF DirectoryInv
<1>2. DirectoryInv /\ [Disc!Next]_Disc!vars => DirectoryInv'
  BY DiscInductive, DirectoryInductive DEF DirectoryInv
<1>3. DirectoryInv => DirectorySettled
  <2> SUFFICES ASSUME DirectoryInv, Calm, Quiet PROVE table = version
    BY DEF DirectorySettled
  <2>1. Reports /\ Found /\ Gone /\ ClientOK BY DEF DirectoryInv, DiscInv
  <2>2. ~updating /\ events = <<>> /\ ~resolving /\ ~removing /\ ~Starting
    BY DEF Quiet, Starting
  <2>3. CASE service
    <3>1. client \in Tasks /\ Follows(client) BY <2>1, <2>2, <2>3 DEF Found, ClientOK
    <3>2. task[client].at = "await" /\ wire[client] = <<>>
      BY <2>1, <3>1 DEF Quiet, ClientOK
    <3>3. QED BY <3>1, <3>2 DEF Follows, Latest
  <2>4. CASE ~service BY <2>1, <2>2, <2>4 DEF Reports, Gone
  <2>5. QED BY <2>3, <2>4
<1>4. QED BY <1>1, <1>2, <1>3, PTL DEF Disc!Spec

(* The source has the newest version there is.                             *)
NewestOK == version \in Nat /\ drawn \in Nat /\ (~updating /\ version # 0 => version = drawn)

LEMMA NewestNext ==
  ASSUME NewestOK, [Disc!Next]_Disc!vars
  PROVE  NewestOK'
<1>1. CASE UNCHANGED <<version, drawn, updating>> BY <1>1 DEF NewestOK
<1>2. CASE Disc!AddSource
  <2>1. updating' /\ drawn' = drawn + 1 /\ version' = version BY <1>2 DEF Disc!AddSource
  <2>2. QED BY <2>1 DEF NewestOK
<1>3. CASE Disc!Added BY <1>3 DEF Disc!Added, NewestOK
<1>4. CASE Disc!RemoveSource
  <2>1. version' = 0 /\ drawn' = drawn BY <1>4 DEF Disc!RemoveSource
  <2>2. QED BY <2>1 DEF NewestOK
<1>5. CASE Disc!UpdateSources BY <1>5 DEF Disc!UpdateSources, NewestOK
<1>6. CASE Disc!Unreported \/ Disc!BrowserNew \/ Disc!BrowserRemove
  BY <1>1, <1>6 DEF Disc!Unreported, Disc!BrowserNew, Disc!BrowserRemove, Disc!Unregistered
<1>7. CASE Disc!ResolverFailure \/ Disc!OnRemoveRtspSource \/ Disc!Second \/ UNCHANGED Disc!vars
  BY <1>1, <1>7 DEF Disc!ResolverFailure, Disc!OnRemoveRtspSource, Disc!Second, Disc!vars,
     Disc!node1
<1>8. CASE Disc!SinkWorker
  BY <1>1, <1>8 DEF Disc!SinkWorker, Disc!CheckUpdate, Disc!GetRemoteSources, Disc!ApplyUpdate,
     Disc!node1
<1>9. ASSUME NEW c \in Tasks,
             \/ Disc!Describe(c) \/ Disc!Answer(c) \/ Disc!ResolverFound(c) \/ Disc!Register(c)
             \/ Disc!Connect(c) \/ Disc!Response(c) \/ Disc!NotFound(c) \/ Disc!Update(c)
             \/ Disc!Stopped(c) \/ Disc!Broken(c) \/ Disc!Deliver(c)
      PROVE  NewestOK'
  BY <1>1, <1>9 DEF Disc!Describe, Disc!Answer, Disc!ResolverFound, Disc!Register, Disc!Connect,
     Disc!Response, Disc!NotFound, Disc!Update, Disc!Stopped, Disc!Broken, Disc!Deliver,
     Disc!End, Disc!node1
<1>10. QED BY <1>2, <1>3, <1>4, <1>5, <1>6, <1>7, <1>8, <1>9
       DEF Disc!Next, Disc!Talker, Disc!Avahi, Disc!Listener

(* With nothing under way in either node, the sink has exactly the version *)
(* of a source that exists.                                                *)
SinkCurrent ==
  Calm /\ Quiet /\ ~crowded /\ worker.at = "idle" /\ last_update \in {0, last_sink_update} =>
    version = 0 \/ sink = version \/ sink = -1 \/ refused = version

(* From one node's source to another node's sink, over mDNS, DESCRIBE,     *)
(* ANNOUNCE, the browser's table and update_sinks: in a system at rest the *)
(* sink has neither an older version than the source nor one that the      *)
(* source does not have any more, also after any number of replacements.   *)
(* Excused are what the two halves excuse, and a sink that add_sink could  *)
(* not bring to that version: it keeps an old one, or is gone.             *)
THEOREM SinkHasSource ==
  ASSUME Disc!DiscoveryConstants
  PROVE  Disc!Spec => []SinkCurrent
<1>1. Disc!Init => NewestOK BY DEF Disc!Init, NewestOK
<1>2. NewestOK /\ [Disc!Next]_Disc!vars => NewestOK' BY NewestNext
<1>3. NewestOK /\ Disc!TypeOK /\ DirectorySettled /\ SinkSettled => SinkCurrent
  <2> SUFFICES ASSUME NewestOK, Disc!TypeOK, DirectorySettled, SinkSettled, Calm, Quiet,
                      ~crowded, worker.at = "idle",
                      last_update \in {0, last_sink_update}, version # 0,
                      sink # -1, refused # version
               PROVE  sink = version
    BY DEF SinkCurrent
  <2>1. table = version BY DEF DirectorySettled
  <2>2. table <= sink BY <2>1 DEF SinkSettled
  <2>3. version = drawn /\ drawn \in Nat BY DEF Quiet, NewestOK
  <2>4. sink \in 0..drawn BY DEF Disc!TypeOK, Disc!Dropped
  <2>5. QED BY <2>1, <2>2, <2>3, <2>4
<1>4. QED BY <1>1, <1>2, <1>3, DiscoveryTypes, DirectoryKeepsUp, SinkKeepsUp, PTL DEF Disc!Spec

=============================================================================
