---------------------------- MODULE Is12Control ----------------------------
(***************************************************************************)
(* The IS-12 control protocol server: one reader and one writer thread per *)
(* WebSocket session, and the worker that once a second compares what the  *)
(* receiver and sender monitors report with what they reported before and  *)
(* notifies the sessions subscribed to what changed.  A monitor has no     *)
(* state of its own: whoever asks computes its statuses, outside any lock, *)
(* and then records them in the transition counters of the monitor.        *)
(*                                                                         *)
(* Messages keep what a client learns: a monitor and some of its statuses. *)
(* The texts that go with a status and the static descriptors are left out.*)
(***************************************************************************)
EXTENDS Integers, Sequences, FiniteSets, SequencesExt

CONSTANTS
  Sessions,     \* sessions, each a connection with its own two threads
  Worker,       \* is12_notify_worker
  Receivers, Senders,   \* ids of sinks and sources: their monitors
  Conditions,   \* states of links, clock and streams that may come about
  Start,        \* the one at the beginning
  Dual,         \* a second interface is configured
  Asked,        \* what clients ask for: an aspect, or 0 for another property
  MaxChanges,   \* bound on what happens to the monitored system
  MaxRequests   \* bound on the messages of each client

ASSUME ControlConstants ==
  /\ Worker \notin Sessions /\ Receivers \cap Senders = {}
  /\ Start \in Conditions /\ Dual \in BOOLEAN /\ Asked \subseteq 0..4
  /\ MaxChanges \in Nat /\ MaxRequests \in Nat

VARIABLES
  members,      \* receivers_ and senders_: the ids that have an entry
  active,       \* their active_master_enable
  condition,    \* id -> what the driver, the clock and the links say
  counters,     \* monitor_counters_
  sessions,     \* is12_sessions_
  phase,        \* session -> off, open, closing (the reader has left), gone
  writer,       \* sessions whose writer thread runs
  subscribed, outbox,   \* of each session
  at, job,      \* thread -> where it is, and the monitor it looks at
  round,        \* the worker's locals
  last_known,   \* the worker's: id -> properties at its last look
  told,         \* clients: <<monitor, aspect>> -> the status heard last
  requests,     \* clients: messages sent
  adrift,       \* history: of what a client was told last, what the worker
                \* may not set right
  recorded,     \* history: changes between looks of the worker
  changes

tables == <<members, active, condition, changes>>
conns == <<sessions, phase, writer, subscribed, outbox, told, requests, adrift>>
looks == <<counters, at, job>>
work == <<round, last_known, recorded>>
vars == <<tables, conns, looks, work>>

Monitors == Receivers \cup Senders
Threads == Sessions \cup {Worker}
Aspects == 1..4   \* link, connection or transmission, sync, stream or essence

-----------------------------------------------------------------------------
(* BCP-008 statuses.                                                       *)

Inactive == 0
Healthy == 1
PartiallyHealthy == 2
Unhealthy == 3

ByLegs(leg) ==
  IF leg[1] /\ leg[2] THEN Healthy
  ELSE IF leg[1] \/ leg[2] THEN PartiallyHealthy ELSE Unhealthy

ByPrimary(leg) == IF leg[1] THEN Healthy ELSE Unhealthy

LinkStatus(c) == IF Dual THEN ByLegs(c.link) ELSE ByPrimary(c.link)

Discipline(state) ==
  CASE state = "locked" -> Healthy
    [] state = "locking" -> PartiallyHealthy
    [] OTHER -> Unhealthy

(* ptp-clock-manager is asked first, the driver when it does not answer.   *)
SyncStatus(c) ==
  IF c.manager # "absent" THEN Discipline(c.manager)
  ELSE IF Dual /\ c.ptp = "locked" /\ ~c.aligned THEN PartiallyHealthy
  ELSE Discipline(c.ptp)

(* connectionStatus and transmissionStatus: flow of packets on each leg,   *)
(* trouble with those of the first.                                        *)
FlowStatus(c) ==
  LET flow == IF c.legs = 2 THEN ByLegs(c.flow) ELSE ByPrimary(c.flow)
  IN  IF flow = Healthy /\ c.trouble THEN PartiallyHealthy ELSE flow

StreamStatus(c) ==
  CASE c.muted = "all" -> Unhealthy
    [] c.muted = "some" -> PartiallyHealthy
    [] OTHER -> Healthy

EssenceStatus(c) == ByPrimary(c.flow)

Statuses(m, enabled, c) ==
  IF ~enabled THEN [k \in Aspects |-> Inactive]
  ELSE << LinkStatus(c), FlowStatus(c), SyncStatus(c),
          IF m \in Receivers THEN StreamStatus(c) ELSE EssenceStatus(c) >>

Now(m) == Statuses(m, active[m], condition[m])

(* update_monitor_counters: -1 stands for never seen.                      *)
Unseen == [seen |-> [k \in Aspects |-> -1], count |-> [k \in Aspects |-> 0],
           auto_reset |-> TRUE]

\* Mutant: only a change for the worse is counted.
CountedWorse(c, st) ==
  [c EXCEPT !.seen = st,
            !.count = [k \in Aspects |->
              IF c.seen[k] # -1 /\ c.seen[k] < st[k] THEN @[k] + 1 ELSE @[k]]]

Counted(c, st) ==
  [c EXCEPT !.seen = st,
            !.count = [k \in Aspects |->
              IF c.seen[k] \notin {-1, st[k]} THEN @[k] + 1 ELSE @[k]]]

-----------------------------------------------------------------------------
NoProps == [status |-> <<>>, count |-> <<>>, auto_reset |-> TRUE]
NoJob == [monitor |-> 0, aspect |-> 0, enabled |-> FALSE, props |-> NoProps]
NoRound == [todo |-> {}, seen |-> <<>>, copy |-> {}, push |-> {}]

Init ==
  /\ members = Monitors /\ active = [m \in Monitors |-> TRUE]
  /\ condition = [m \in Monitors |-> Start]
  /\ counters = [m \in Monitors |-> Unseen]
  /\ sessions = {} /\ phase = [s \in Sessions |-> "off"] /\ writer = {}
  /\ subscribed = [s \in Sessions |-> {}] /\ outbox = [s \in Sessions |-> <<>>]
  /\ at = [t \in Threads |-> "idle"] /\ job = [t \in Threads |-> NoJob]
  /\ round = NoRound /\ last_known = <<>>
  /\ told = [s \in Sessions |-> <<>>] /\ requests = [s \in Sessions |-> 0]
  /\ adrift = [s \in Sessions |-> {}]
  /\ recorded = [m \in Monitors |-> [k \in Aspects |-> 0]]
  /\ changes = 0

-----------------------------------------------------------------------------
(* The monitored system changes.                                           *)

Happens ==
  /\ changes < MaxChanges /\ changes' = changes + 1
  /\ UNCHANGED <<conns, looks, work>>

Turns(m, c) ==
  /\ c # condition[m]
  /\ condition' = [condition EXCEPT ![m] = c] /\ UNCHANGED <<members, active>>
  /\ Happens

(* IS-05 activation; removal and return of the sink or source.             *)
Enable(m) ==
  /\ m \in members
  /\ active' = [active EXCEPT ![m] = ~@] /\ UNCHANGED <<members, condition>>
  /\ Happens

Come(m) ==
  /\ m \notin members
  /\ members' = members \cup {m} /\ active' = [active EXCEPT ![m] = TRUE]
  /\ UNCHANGED condition
  /\ Happens

Go(m) ==
  /\ m \in members
  /\ members' = members \ {m} /\ UNCHANGED <<active, condition>>
  /\ Happens

-----------------------------------------------------------------------------
(* ncp_receiver_monitor_props, ncp_sender_monitor_props: the entry is read *)
(* under the lock of the tables, the statuses are computed without a lock  *)
(* and recorded under the lock of the counters.                            *)

Look(t, m, k) ==
  /\ job' = [job EXCEPT ![t] = [NoJob EXCEPT !.monitor = m, !.aspect = k,
                                             !.enabled = active[m]]]
  /\ at' = [at EXCEPT ![t] = IF m \in members THEN "compute" ELSE "looked"]
  /\ UNCHANGED counters

Compute(t) ==
  /\ at[t] = "compute"
  /\ LET m == job[t].monitor
     IN  job' = [job EXCEPT ![t].props.status =
                   Statuses(m, job[t].enabled, condition[m])]
  /\ at' = [at EXCEPT ![t] = "count"]
  /\ UNCHANGED <<tables, conns, counters, work>>

Count(t) ==
  /\ at[t] = "count"
  /\ LET m == job[t].monitor
         c == Counted(counters[m], job[t].props.status)
     IN  /\ counters' = [counters EXCEPT ![m] = c]
         /\ job' = [job EXCEPT ![t].props = [status |-> c.seen,
                      count |-> c.count, auto_reset |-> c.auto_reset]]
  /\ at' = [at EXCEPT ![t] = "looked"]
  /\ UNCHANGED <<tables, conns, work>>

-----------------------------------------------------------------------------
(* A session's reader thread.                                              *)

Connect(s) ==
  /\ phase[s] = "off"
  /\ phase' = [phase EXCEPT ![s] = "open"]
  /\ sessions' = sessions \cup {s} /\ writer' = writer \cup {s}
  /\ UNCHANGED <<tables, looks, work, subscribed, outbox, told, requests, adrift>>

Asks(s) ==
  /\ phase[s] = "open" /\ at[s] = "idle"
  /\ requests[s] < MaxRequests /\ requests' = [requests EXCEPT ![s] = @ + 1]

\* Mutant: the newest message is written first.
SendFirst(s, m) == outbox' = [outbox EXCEPT ![s] = <<m>> \o @]

Send(s, m) == outbox' = [outbox EXCEPT ![s] = Append(@, m)]
Message(type, m, status) == [type |-> type, monitor |-> m, status |-> status]
Answer(m, status) == Message("response", m, status)

(* Get of a property: every property of the monitor is computed.           *)
Get(s, m, k) ==
  /\ Asks(s) /\ Look(s, m, k)
  /\ UNCHANGED <<tables, work, sessions, phase, writer, subscribed, outbox, told,
                 adrift>>

(* The worker has not told session s what this round found of m and will   *)
(* not: it has pushed it already or copied the sessions before s came.     *)
Passed(s, m) ==
  /\ at[Worker] \in {"compare", "push"} /\ m \in round.todo
  /\ \/ s \notin round.copy
     \/ at[Worker] = "push" /\ job[Worker].monitor = m /\ s \notin round.push

(* History: once the status changes from v, the worker will tell the       *)
(* session, since v is what it compares its next look with.                *)
Vouches(s, m, k, v) ==
  IF Passed(s, m) THEN round.seen[m] = NoProps \/ round.seen[m].status[k] = v
  ELSE m \in DOMAIN last_known /\
       (last_known[m] = NoProps \/ last_known[m].status[k] = v)

Unvouched(s, m, status) ==
  {<<m, k>> : k \in {x \in DOMAIN status : ~Vouches(s, m, x, status[x])}}

(* The answer is queued behind whatever the worker has pushed since the    *)
(* statuses were computed.  There is no value if the monitor was gone.     *)
Respond(s) ==
  /\ at[s] = "looked"
  /\ LET m == job[s].monitor
         known == job[s].props.status
         status == [k \in {job[s].aspect} \cap DOMAIN known |-> known[k]]
     IN  /\ Send(s, Answer(m, status))
         /\ adrift' = [adrift EXCEPT ![s] =
              (@ \ ({m} \X DOMAIN status)) \cup Unvouched(s, m, status)]
  /\ at' = [at EXCEPT ![s] = "idle"] /\ job' = [job EXCEPT ![s] = NoJob]
  /\ UNCHANGED <<tables, counters, work, sessions, phase, writer, subscribed,
                 told, requests>>

(* Set: of autoResetCountersAndMessages, whether or not the monitor exists;*)
(* everything else is read-only and, like the remaining commands, only     *)
(* answered.                                                               *)
Set(s, m, value) ==
  /\ Asks(s) /\ Send(s, Answer(0, <<>>))
  /\ counters' = [counters EXCEPT ![m].auto_reset = value]
  /\ UNCHANGED <<tables, work, at, job, sessions, phase, writer, subscribed,
                 told, adrift>>

Other(s) ==
  /\ Asks(s) /\ Send(s, Answer(0, <<>>))
  /\ UNCHANGED <<tables, work, looks, sessions, phase, writer, subscribed, told,
                 adrift>>

(* Subscription: the set is replaced.                                      *)
Subscribe(s, S) ==
  /\ Asks(s) /\ Send(s, Message("subscriptions", 0, <<>>))
  /\ subscribed' = [subscribed EXCEPT ![s] = S]
  /\ adrift' = [adrift EXCEPT ![s] = {}]
  /\ UNCHANGED <<tables, work, looks, sessions, phase, writer, told>>

(* The client has gone: the reader marks the session and waits for the     *)
(* writer before it takes the session out of the list.                     *)
Disconnect(s) ==
  /\ phase[s] = "open" /\ at[s] = "idle"
  /\ phase' = [phase EXCEPT ![s] = "closing"]
  /\ UNCHANGED <<tables, looks, work, sessions, writer, subscribed, outbox, told,
                 requests, adrift>>

(* (What the worker's copy of the session still takes, nobody reads.)      *)
Freed(s) ==
  /\ phase' = [phase EXCEPT ![s] = "gone"] /\ sessions' = sessions \ {s}
  /\ subscribed' = [subscribed EXCEPT ![s] = {}]
  /\ outbox' = [outbox EXCEPT ![s] = <<>>] /\ told' = [told EXCEPT ![s] = <<>>]
  /\ adrift' = [adrift EXCEPT ![s] = {}]
  /\ UNCHANGED <<tables, looks, work, writer, requests>>

\* Mutant: the writer is not joined.
LeaveAtOnce(s) == phase[s] = "closing" /\ Freed(s)

Leave(s) == phase[s] = "closing" /\ s \notin writer /\ Freed(s)

-----------------------------------------------------------------------------
(* A session's writer thread, and the client it writes to.                 *)

(* A client takes the status it hears last, be it notified or the answer   *)
(* to its Get; with a subscription it starts anew.                         *)
Understand(known, x) ==
  IF x.type = "subscriptions" THEN <<>>
  ELSE [p \in DOMAIN known \cup ({x.monitor} \X DOMAIN x.status) |->
          IF p \in {x.monitor} \X DOMAIN x.status THEN x.status[p[2]] ELSE known[p]]

Write(s) ==
  /\ s \in writer /\ outbox[s] # <<>>
  /\ outbox' = [outbox EXCEPT ![s] = Tail(@)]
  /\ told' = [told EXCEPT ![s] = Understand(@, Head(outbox[s]))]
  /\ UNCHANGED <<tables, looks, work, sessions, phase, writer, subscribed,
                 requests, adrift>>

(* The first write that fails ends the writer, also while the reader is    *)
(* still waiting for the client: nobody empties the outbox any more.       *)
WriteFails(s) ==
  /\ s \in writer /\ outbox[s] # <<>>
  /\ outbox' = [outbox EXCEPT ![s] = Tail(@)]
  /\ writer' = writer \ {s}
  /\ UNCHANGED <<tables, looks, work, sessions, phase, subscribed, told, requests,
                 adrift>>

WriterEnds(s) ==
  /\ s \in writer /\ outbox[s] = <<>> /\ phase[s] = "closing"
  /\ writer' = writer \ {s}
  /\ UNCHANGED <<tables, looks, work, sessions, phase, subscribed, outbox, told,
                 requests, adrift>>

-----------------------------------------------------------------------------
(* The notification worker.                                                *)

Wake ==
  /\ at[Worker] = "idle"
  /\ round' = [NoRound EXCEPT !.todo = members]
  /\ at' = [at EXCEPT ![Worker] = "collect"]
  /\ UNCHANGED <<tables, conns, counters, job, last_known, recorded>>

Collect(m) ==
  /\ at[Worker] = "collect" /\ m \in round.todo
  /\ Look(Worker, m, 0)
  /\ round' = [round EXCEPT !.todo = @ \ {m}]
  /\ UNCHANGED <<tables, conns, last_known, recorded>>

Extend(f, x, v) == [y \in DOMAIN f \cup {x} |-> IF y = x THEN v ELSE f[y]]

(* A monitor that has gone since the copy yields no properties.            *)
Collected ==
  /\ at[Worker] = "looked"
  /\ round' = [round EXCEPT !.seen = Extend(@, job[Worker].monitor, job[Worker].props)]
  /\ at' = [at EXCEPT ![Worker] = "collect"]
  /\ job' = [job EXCEPT ![Worker] = NoJob]
  /\ UNCHANGED <<tables, conns, counters, last_known, recorded>>

CopySessions ==
  /\ at[Worker] = "collect" /\ round.todo = {}
  /\ round' = [round EXCEPT !.todo = DOMAIN round.seen, !.copy = sessions]
  /\ at' = [at EXCEPT ![Worker] = "compare"]
  /\ UNCHANGED <<tables, conns, counters, job, last_known, recorded>>

(* The properties of one monitor: those that differ from the last look are *)
(* pushed to each session that is subscribed at that moment (in one step   *)
(* for each session).  The first look at a monitor notifies nobody.        *)
Changed(m) ==
  /\ m \in DOMAIN last_known /\ round.seen[m] # NoProps
  /\ round.seen[m] # last_known[m]

Compare(m) ==
  /\ at[Worker] = "compare" /\ m \in round.todo
  /\ round' = [round EXCEPT !.push = IF Changed(m) THEN round.copy ELSE {}]
  /\ at' = [at EXCEPT ![Worker] = "push"]
  /\ job' = [job EXCEPT ![Worker].monitor = m]
  /\ UNCHANGED <<tables, conns, counters, last_known, recorded>>

News(m) ==
  LET new == {k \in Aspects : \/ last_known[m] = NoProps
                              \/ last_known[m].status[k] # round.seen[m].status[k]}
  IN  [k \in new |-> round.seen[m].status[k]]

Push(s) ==
  /\ at[Worker] = "push" /\ s \in round.push
  /\ LET m == job[Worker].monitor
     IN  IF m \in subscribed[s]
         THEN /\ Send(s, Message("notification", m, News(m)))
              /\ adrift' = [adrift EXCEPT ![s] = @ \ ({m} \X DOMAIN News(m))]
         ELSE UNCHANGED <<outbox, adrift>>
  /\ round' = [round EXCEPT !.push = @ \ {s}]
  /\ UNCHANGED <<tables, looks, last_known, recorded, sessions, phase, writer,
                 subscribed, told, requests>>

Remember ==
  /\ at[Worker] = "push" /\ round.push = {}
  /\ LET m == job[Worker].monitor
     IN  /\ last_known' = Extend(last_known, m, round.seen[m])
         /\ recorded' = [recorded EXCEPT ![m] = [k \in Aspects |->
              IF /\ m \in DOMAIN last_known
                 /\ last_known[m] # NoProps /\ round.seen[m] # NoProps
                 /\ last_known[m].status[k] # round.seen[m].status[k]
              THEN @[k] + 1 ELSE @[k]]]
         /\ round' = [round EXCEPT !.todo = @ \ {m}]
  /\ at' = [at EXCEPT ![Worker] = "compare"]
  /\ job' = [job EXCEPT ![Worker] = NoJob]
  /\ UNCHANGED <<tables, conns, counters>>

(* What was not in this round's copy is forgotten.                         *)
Prune ==
  /\ at[Worker] = "compare" /\ round.todo = {}
  /\ last_known' = [m \in DOMAIN round.seen |-> last_known[m]]
  /\ adrift' = [s \in Sessions |->
       adrift[s] \cup
         ((subscribed[s] \cap (DOMAIN last_known \ DOMAIN round.seen)) \X Aspects)]
  /\ round' = NoRound
  /\ at' = [at EXCEPT ![Worker] = "idle"]
  /\ UNCHANGED <<tables, counters, job, recorded, sessions, phase, writer,
                 subscribed, outbox, told, requests>>

-----------------------------------------------------------------------------
Reader(s) ==
  \/ Compute(s) \/ Count(s) \/ Respond(s) \/ Leave(s)

Writer(s) == Write(s) \/ WriteFails(s) \/ WriterEnds(s)

Notifier ==
  \/ Wake \/ \E m \in Monitors : Collect(m) \/ Compare(m)
  \/ Compute(Worker) \/ Count(Worker) \/ Collected \/ CopySessions
  \/ \E s \in Sessions : Push(s)
  \/ Remember \/ Prune

Client(s) ==
  \/ Connect(s) \/ Disconnect(s) \/ Other(s)
  \/ \E m \in Monitors, k \in Asked : Get(s, m, k)
  \/ \E m \in Monitors, v \in BOOLEAN : Set(s, m, v)
  \/ \E S \in SUBSET Monitors : Subscribe(s, S)

Surroundings ==
  \E m \in Monitors :
    \/ \E c \in Conditions : Turns(m, c)
    \/ Enable(m) \/ Come(m) \/ Go(m)

Next ==
  \/ \E s \in Sessions : Reader(s) \/ Writer(s) \/ Client(s)
  \/ Notifier \/ Surroundings

Spec == Init /\ [][Next]_vars

(* The threads run; clients and the monitored system owe nothing.          *)
FairSpec ==
  /\ Spec
  /\ \A s \in Sessions : WF_vars(Reader(s)) /\ WF_vars(Writer(s))
  /\ WF_vars(Notifier)

-----------------------------------------------------------------------------
(* Properties.                                                             *)

(* Types, and the life of a session: it is in the list from its connection *)
(* until its writer has ended, so that no thread writes to a connection    *)
(* whose stream is gone.                                                   *)
TypeOK ==
  /\ members \subseteq Monitors /\ DOMAIN last_known \subseteq Monitors
  /\ \A s \in Sessions :
       /\ phase[s] \in {"off", "open", "closing", "gone"}
       /\ (s \in sessions) = (phase[s] \in {"open", "closing"})
       /\ s \in writer => s \in sessions
       /\ phase[s] = "gone" => at[s] = "idle"
  /\ \A m \in Monitors, k \in Aspects :
       counters[m].seen[k] \in -1..3 /\ counters[m].count[k] \in Nat
  /\ changes \in 0..MaxChanges

(* Every change the worker sees between two of its looks is in the         *)
(* transition counter of that status, whoever else computed the monitor in *)
(* between and wherever a removed monitor's counters went.                 *)
CountersCover ==
  \A m \in Monitors, k \in Aspects : recorded[m][k] <= counters[m].count[k]

(* A client that stays subscribed to a monitor that stays, and whose       *)
(* writer lives, has in the end the current status of every aspect it was  *)
(* told of, by notification or in answer to its Get: late looks, the order *)
(* of the outbox and the sessions copied too early do not leave it with an *)
(* older one.  Excused is what is adrift: the last word came before the    *)
(* worker forgot the monitor, or it is an answer that was not what the     *)
(* worker had reported (computed before a change that was notified first,  *)
(* or before a change back that the worker never saw).                     *)
Informed ==
  \A s \in Sessions, m \in Monitors :
    <>[](s \in writer /\ m \in subscribed[s] /\ m \in members)
      => <>[](\A k \in Aspects : <<m, k>> \in DOMAIN told[s] \ adrift[s] =>
                told[s][<<m, k>>] = Now(m)[k])

=============================================================================
