--------------------------- MODULE ChannelMapping ---------------------------
(***************************************************************************)
(* The IS-08 channel mapping API: POST and DELETE of activations by client *)
(* threads, the pending activations and the locks they put on outputs, and *)
(* the registration worker that carries out what is due.  An activation is *)
(* validated entry by entry and then applied entry by entry, each by       *)
(* reading a source or sink from the session manager, changing its map and *)
(* writing it back, with no lock held in between; other clients change the *)
(* sources and sinks at any time.                                          *)
(*                                                                         *)
(* A source or sink is represented by its map, the ALSA channel of each of *)
(* its channels; the empty map stands for no such source or sink.          *)
(***************************************************************************)
EXTENDS Integers, Sequences, FiniteSets, Functions

CONSTANTS
  Clients,     \* threads of the Node API server
  Worker,      \* the registration worker
  Sources, Sinks,
  Alsa,        \* ALSA channel numbers, 0..alsa_channels-1
  Actions,     \* the "action" objects clients send: sequences of entries
  Uuids,       \* the outputs in the order of their ids
  Maps,        \* the maps other clients give to sources and sinks
  First,       \* the map sources and sinks start with
  MaxPosts,    \* bound on the POST requests
  MaxChanges   \* bound on the other changes of sources and sinks

Inputs == {<<"none">>} \cup ({"sink"} \X Sinks) \cup ({"alsa"} \X Alsa)

ASSUME MappingConstants ==
  /\ Worker \notin Clients
  /\ Maps \cup {First} \subseteq Seq(Alsa) \ {<<>>}
  /\ Range(Uuids) \subseteq ({"sender"} \X Sources) \cup ({"alsa"} \X Alsa)
  /\ \A m, n \in DOMAIN Uuids : Uuids[m] = Uuids[n] => m = n
  /\ Actions \subseteq Seq([out : Range(Uuids), ch : Nat, in : Inputs, ich : Nat])
  /\ MaxPosts \in 0..9 /\ MaxChanges \in Nat  \* ids are kept in string order

VARIABLES
  source, sink,  \* session manager: id -> map
  activations,   \* is08_activations_: id -> number of the POST it came from
  counter,       \* is08_activation_counter_
  at,            \* thread -> where it is in a request
  job,           \* thread -> the request in hand
  due,           \* worker: POSTs taken out of activations and not started
  posts,         \* the action of each POST so far
  state,         \* history: what became of each POST
  alone,         \* history: threads nobody has come between since they began
                 \* to validate
  racing,        \* history: POSTs in hand together with another one
  changes

vars == <<source, sink, activations, counter, at, job, due, posts, state,
          alone, racing, changes>>

Threads == Clients \cup {Worker}

(* The request a thread works on: the POST, whether it is scheduled, the   *)
(* entry it has reached, the counter value or the id it has, the map it    *)
(* has read and changed; as history, the entries whose write failed.       *)
NoJob == [post |-> 0, scheduled |-> FALSE, entry |-> 1, id |-> 0, map |-> <<>>,
          failed |-> {}]

Init ==
  /\ source = [s \in Sources |-> First] /\ sink = [s \in Sinks |-> First]
  /\ activations = <<>> /\ counter = 0
  /\ at = [t \in Threads |-> "idle"] /\ job = [t \in Threads |-> NoJob]
  /\ due = <<>> /\ posts = <<>> /\ state = <<>>
  /\ alone = {} /\ racing = {} /\ changes = 0

-----------------------------------------------------------------------------
(* An entry connects channel ch of output out to channel ich of input in;  *)
(* in is <<"none">> when it clears the channel.                            *)

Action(t) == posts[job[t].post]
Entry(t) == Action(t)[job[t].entry]
Finished(t) == job[t].entry > Len(Action(t))
Outputs(action) == {action[n].out : n \in DOMAIN action}

(* is08_apply_action_json, pass 1, for one entry.                          *)
Valid(e) ==
  /\ \/ e.out[1] = "sender" /\ e.ch \in DOMAIN source[e.out[2]]
     \/ e.out[1] = "alsa" /\ e.ch = 1 /\ e.in[1] # "alsa"
  /\ e.in[1] = "sink" => e.ich \in DOMAIN sink[e.in[2]]

Moves(t, place, j) ==
  at' = [at EXCEPT ![t] = place] /\ job' = [job EXCEPT ![t] = j]

-----------------------------------------------------------------------------
(* POST: the locks are looked at one by one, ...                           *)
InHand == {job[t].post : t \in {u \in Clients : job[u].post # 0}}

Post(t, action, scheduled) ==
  /\ at[t] = "idle" /\ t \in Clients
  /\ Len(posts) < MaxPosts
  /\ posts' = Append(posts, action) /\ state' = Append(state, "new")
  /\ Moves(t, "lock", [NoJob EXCEPT !.post = Len(posts) + 1,
                                    !.scheduled = scheduled])
  /\ racing' = IF InHand = {} THEN racing
               ELSE racing \cup InHand \cup {Len(posts) + 1}
  /\ UNCHANGED <<source, sink, activations, counter, due, alone, changes>>

(* is08_output_locked: 423 ends the request.                               *)
Locked(out) ==
  \E id \in DOMAIN activations : out \in Outputs(posts[activations[id]])

\* Mutant: the answer for one output is taken for all.
CheckLockFirst(t) ==
  /\ at[t] = "lock" /\ ~Finished(t)
  /\ IF job[t].entry = 1 /\ Locked(Entry(t).out) THEN Moves(t, "idle", NoJob)
     ELSE Moves(t, "lock", [job[t] EXCEPT !.entry = @ + 1])
  /\ UNCHANGED <<source, sink, activations, counter, due, posts, state, alone,
                 racing, changes>>

CheckLock(t) ==
  /\ at[t] = "lock" /\ ~Finished(t)
  /\ IF Locked(Entry(t).out) THEN Moves(t, "idle", NoJob)
     ELSE Moves(t, "lock", [job[t] EXCEPT !.entry = @ + 1])
  /\ UNCHANGED <<source, sink, activations, counter, due, posts, state, alone,
                 racing, changes>>

(* ... then a number is drawn from a counter without a lock: the value     *)
(* read may be stale when it is written back.                              *)
ReadCounter(t) ==
  /\ at[t] = "lock" /\ Finished(t)
  /\ Moves(t, "number", [job[t] EXCEPT !.id = counter + 1])
  /\ UNCHANGED <<source, sink, activations, counter, due, posts, state, alone,
                 racing, changes>>

WriteCounter(t) ==
  /\ at[t] = "number"
  /\ counter' = job[t].id
  /\ Moves(t, "validate", [job[t] EXCEPT !.entry = 1])
  /\ alone' = alone \cup {t}
  /\ UNCHANGED <<source, sink, activations, due, posts, state, racing, changes>>

(* Pass 1: an invalid entry rejects the whole request.                     *)
Validate(t) ==
  /\ at[t] = "validate" /\ ~Finished(t)
  /\ IF Valid(Entry(t))
     THEN /\ Moves(t, "validate", [job[t] EXCEPT !.entry = @ + 1])
          /\ UNCHANGED state
     ELSE /\ Moves(t, "idle", NoJob)
          /\ state' = [state EXCEPT ![job[t].post] = "invalid"]
  /\ UNCHANGED <<source, sink, activations, counter, due, posts, alone, racing,
                 changes>>

(* What is stored is the canonical form of the action, its outputs sorted  *)
(* and the entries of an output in their order (a set of one form).        *)
Before(e, f) ==
  \E m, n \in DOMAIN Uuids : m < n /\ Uuids[m] = e.out /\ Uuids[n] = f.out

Canonical(action) ==
  {[n \in DOMAIN action |-> action[p[n]]] :
     p \in {q \in [DOMAIN action -> DOMAIN action] :
              \A m, n \in DOMAIN action : m < n =>
                \/ Before(action[q[m]], action[q[n]])
                \/ action[q[m]].out = action[q[n]].out /\ q[m] < q[n]}}

(* The requested time is parsed last.                                      *)
RejectTime(t) ==
  /\ at[t] = "validate" /\ Finished(t) /\ job[t].scheduled
  /\ Moves(t, "idle", NoJob)
  /\ UNCHANGED <<source, sink, activations, counter, due, posts, state, alone,
                 racing, changes>>

(* An activation another one with the same number had, if any, is lost.    *)
Schedule(t) ==
  /\ at[t] = "validate" /\ Finished(t) /\ job[t].scheduled
  /\ LET id == job[t].id
     IN  /\ activations' = [i \in DOMAIN activations \cup {id} |->
                              IF i = id THEN job[t].post ELSE activations[i]]
         /\ state' = [n \in DOMAIN state |->
                        IF n = job[t].post THEN "accepted"
                        ELSE IF id \in DOMAIN activations /\ activations[id] = n
                             THEN "overwritten" ELSE state[n]]
  /\ \E form \in Canonical(Action(t)) :
       posts' = [posts EXCEPT ![job[t].post] = form]
  /\ Moves(t, "idle", NoJob)
  /\ UNCHANGED <<source, sink, counter, due, alone, racing, changes>>

BeginApply(t) ==
  /\ at[t] = "validate" /\ Finished(t) /\ ~job[t].scheduled
  /\ Moves(t, "fetch", [job[t] EXCEPT !.entry = 1])
  /\ UNCHANGED <<source, sink, activations, counter, due, posts, state, alone,
                 racing, changes>>

-----------------------------------------------------------------------------
(* Pass 2.  The index was checked against the map of pass 1: beyond the    *)
(* end of a map that has shrunk since, the read gives any value and the    *)
(* write changes no channel of it.                                         *)

Read(map, i) == IF i \in DOMAIN map THEN {map[i]} ELSE Alsa
Write(map, i, v) == IF i \in DOMAIN map THEN [map EXCEPT ![i] = v] ELSE map

NextEntry(j) == [j EXCEPT !.entry = @ + 1, !.map = <<>>]

Vanished(e) ==
  \/ e.out[1] = "sender" /\ source[e.out[2]] = <<>>
  \/ e.in[1] = "sink" /\ sink[e.in[2]] = <<>>

(* Nothing is done for an entry that clears or whose source or sink is gone.*)
Skip(t) ==
  /\ at[t] = "fetch" /\ ~Finished(t)
  /\ Vanished(Entry(t)) \/ Entry(t).in[1] = "none"
  /\ Moves(t, "fetch", NextEntry(job[t]))
  /\ UNCHANGED <<source, sink, activations, counter, due, posts, state, alone,
                 racing, changes>>

\* Mutant: the repeated channel is taken from the output's index.
ChangedSameIndex(e) ==
  IF e.out[1] = "alsa" THEN {Write(sink[e.in[2]], e.ich, e.out[2])}
  ELSE IF e.in[1] = "alsa" THEN {Write(source[e.out[2]], e.ch, e.in[2])}
  ELSE {Write(source[e.out[2]], e.ch, v) : v \in Read(sink[e.in[2]], e.ch)}

(* get_source and get_sink, and the change made to the copy.               *)
Changed(e) ==
  IF e.out[1] = "alsa" THEN {Write(sink[e.in[2]], e.ich, e.out[2])}
  ELSE IF e.in[1] = "alsa" THEN {Write(source[e.out[2]], e.ch, e.in[2])}
  ELSE {Write(source[e.out[2]], e.ch, v) : v \in Read(sink[e.in[2]], e.ich)}

Fetch(t) ==
  /\ at[t] = "fetch" /\ ~Finished(t)
  /\ ~Vanished(Entry(t)) /\ Entry(t).in[1] # "none"
  /\ \E map \in Changed(Entry(t)) :
       Moves(t, "store", [job[t] EXCEPT !.map = map])
  /\ UNCHANGED <<source, sink, activations, counter, due, posts, state, alone,
                 racing, changes>>

(* add_source, add_sink: the whole record is written.                      *)
Assign(e, map) ==
  IF e.out[1] = "sender"
  THEN source' = [source EXCEPT ![e.out[2]] = map] /\ UNCHANGED sink
  ELSE sink' = [sink EXCEPT ![e.in[2]] = map] /\ UNCHANGED source

Store(t) ==
  /\ at[t] = "store"
  /\ Assign(Entry(t), job[t].map)
  /\ Moves(t, "fetch", NextEntry(job[t]))
  /\ alone' = alone \cap {t}
  /\ UNCHANGED <<activations, counter, due, posts, state, racing, changes>>

(* The write fails and the result is not looked at: the driver refuses the *)
(* update, which costs the source or sink; or add_source finds no MAC      *)
(* address or add_sink does not take the SDP, before either has touched    *)
(* anything.                                                               *)
Failing(j) == [NextEntry(j) EXCEPT !.failed = @ \cup {j.entry}]

StoreRefused(t) ==
  /\ at[t] = "store"
  /\ changes < MaxChanges /\ changes' = changes + 1
  /\ Assign(Entry(t), <<>>) \/ UNCHANGED <<source, sink>>
  /\ Moves(t, "fetch", Failing(job[t]))
  /\ alone' = alone \cap {t}
  /\ UNCHANGED <<activations, counter, due, posts, state, racing>>

Applied(t) ==
  /\ at[t] = "fetch" /\ Finished(t)
  /\ state' = [state EXCEPT ![job[t].post] = "done"]
  /\ Moves(t, "idle", NoJob)
  /\ UNCHANGED <<source, sink, activations, counter, due, posts, alone, racing,
                 changes>>

-----------------------------------------------------------------------------
(* DELETE of a pending activation.                                         *)
Delete(id) ==
  /\ id \in DOMAIN activations
  /\ activations' = [i \in DOMAIN activations \ {id} |-> activations[i]]
  /\ state' = [state EXCEPT ![activations[id]] = "deleted"]
  /\ UNCHANGED <<source, sink, counter, at, job, due, posts, alone, racing,
                 changes>>

(* is08_process_scheduled_activations: what is due is taken out under the  *)
(* lock and carried out after it, validation included.                     *)
InOrder(S) ==
  {f \in [1..Cardinality(S) -> S] :
     Range(f) = S /\ \A m, n \in DOMAIN f : m < n => f[m] < f[n]}

\* Mutant: what is due stays in the table.
TakeDueKeeps(S) ==
  /\ at[Worker] = "idle" /\ due = <<>>
  /\ S # {} /\ S \subseteq DOMAIN activations
  /\ \E d \in InOrder(S) : due' = [n \in DOMAIN d |-> activations[d[n]]]
  /\ state' = [n \in DOMAIN state |->
                 IF \E i \in S : activations[i] = n THEN "firing" ELSE state[n]]
  /\ UNCHANGED <<source, sink, activations, counter, at, job, posts, alone,
                 racing, changes>>

TakeDue(S) ==
  /\ at[Worker] = "idle" /\ due = <<>>
  /\ S # {} /\ S \subseteq DOMAIN activations
  /\ \E d \in InOrder(S) : due' = [n \in DOMAIN d |-> activations[d[n]]]
  /\ activations' = [i \in DOMAIN activations \ S |-> activations[i]]
  /\ state' = [n \in DOMAIN state |->
                 IF \E i \in S : activations[i] = n THEN "firing" ELSE state[n]]
  /\ UNCHANGED <<source, sink, counter, at, job, posts, alone, racing, changes>>

\* Mutant: the first of several due activations ends the round.
FireOnce ==
  /\ at[Worker] = "idle" /\ due # <<>>
  /\ due' = <<>>
  /\ Moves(Worker, "validate", [NoJob EXCEPT !.post = Head(due)])
  /\ alone' = alone \cup {Worker}
  /\ UNCHANGED <<source, sink, activations, counter, posts, state, racing,
                 changes>>

Fire ==
  /\ at[Worker] = "idle" /\ due # <<>>
  /\ due' = Tail(due)
  /\ Moves(Worker, "validate", [NoJob EXCEPT !.post = Head(due)])
  /\ alone' = alone \cup {Worker}
  /\ UNCHANGED <<source, sink, activations, counter, posts, state, racing,
                 changes>>

-----------------------------------------------------------------------------
(* Other clients of the daemon.                                            *)

PutSource(s, map) ==
  /\ changes < MaxChanges /\ changes' = changes + 1
  /\ source' = [source EXCEPT ![s] = map] /\ alone' = {}
  /\ UNCHANGED <<sink, activations, counter, at, job, due, posts, state, racing>>

PutSink(s, map) ==
  /\ changes < MaxChanges /\ changes' = changes + 1
  /\ sink' = [sink EXCEPT ![s] = map] /\ alone' = {}
  /\ UNCHANGED <<source, activations, counter, at, job, due, posts, state,
                 racing>>

Request(t) ==
  \/ CheckLock(t) \/ ReadCounter(t) \/ WriteCounter(t) \/ Validate(t)
  \/ RejectTime(t) \/ Schedule(t) \/ BeginApply(t)
  \/ Skip(t) \/ Fetch(t) \/ Store(t) \/ StoreRefused(t) \/ Applied(t)

Next ==
  \/ \E t \in Clients, a \in Actions, s \in BOOLEAN : Post(t, a, s)
  \/ \E t \in Threads : Request(t)
  \/ \E id \in DOMAIN activations : Delete(id)
  \/ \E S \in SUBSET DOMAIN activations : TakeDue(S)
  \/ Fire
  \/ \E s \in Sources, m \in Maps \cup {<<>>} : PutSource(s, m)
  \/ \E s \in Sinks, m \in Maps \cup {<<>>} : PutSink(s, m)

Spec == Init /\ [][Next]_vars

(* Threads run, and what stays pending is due in the end.                  *)
FairSpec ==
  /\ Spec
  /\ \A t \in Threads : WF_vars(Request(t))
  /\ WF_vars(Fire)
  /\ WF_vars(TakeDue(DOMAIN activations))

-----------------------------------------------------------------------------
(* Properties.                                                             *)

PendingPosts == {activations[i] : i \in DOMAIN activations}

(* Types, and every POST is in one place: what is pending was accepted and *)
(* neither deleted nor taken out (a deleted activation never fires), what  *)
(* the worker has taken out is pending no more.                            *)
TypeOK ==
  /\ source \in [Sources -> Seq(Alsa)] /\ sink \in [Sinks -> Seq(Alsa)]
  /\ Range(posts) \subseteq Actions \cup UNION {Canonical(a) : a \in Actions}
  /\ Len(state) = Len(posts)
  /\ \A n \in DOMAIN posts : (state[n] = "accepted") = (n \in PendingPosts)
  /\ \A n \in Range(due) \cup {job[Worker].post} : n # 0 => state[n] = "firing"
  /\ \A i, j \in DOMAIN activations : activations[i] = activations[j] => i = j
  /\ \A t \in Threads : job[t].post \in 0..Len(posts)
  /\ changes \in 0..MaxChanges

(* An output is locked by one activation at a time: a POST for an output   *)
(* with a pending activation is rejected, except when the two POSTs were   *)
(* in hand at the same time (the locks are checked before the activation   *)
(* is stored).                                                             *)
LocksExclusive ==
  \A m, n \in PendingPosts :
    m # n /\ ~({m, n} \subseteq racing) =>
      Outputs(posts[m]) \cap Outputs(posts[n]) = {}

(* When is08_apply_action_json has applied an activation, whatever other   *)
(* clients and activations did before, and nobody came between its         *)
(* validation and its end, each of its crosspoints is in place, unless a   *)
(* later entry of the same action took its place, its own write failed, or *)
(* the write of some entry failed and cost its source or sink.  So a write *)
(* that fails (add_source, add_sink; the results are ignored) leaves a     *)
(* part of the activation applied, and no other entry is affected unless   *)
(* it shares the source or sink that is lost.                              *)
InPlace(e) ==
  \/ e.in[1] = "none"
  \/ e.out[1] = "alsa" /\ sink[e.in[2]][e.ich] = e.out[2]
  \/ e.out[1] = "sender" /\ source[e.out[2]][e.ch] =
       (IF e.in[1] = "alsa" THEN e.in[2] ELSE sink[e.in[2]][e.ich])

Supersedes(f, e) ==
  \/ f.out = e.out /\ f.ch = e.ch
  \/ f.out[1] = "alsa" /\ f.in = e.in /\ f.ich = e.ich

AppliedTruly ==
  \A t \in alone : at[t] = "fetch" /\ Finished(t) =>
    \A n \in DOMAIN Action(t) :
      \/ n \in job[t].failed
      \/ job[t].failed # {} /\ Vanished(Action(t)[n])
      \/ InPlace(Action(t)[n])
      \/ \E m \in n + 1..Len(Action(t)) : Supersedes(Action(t)[m], Action(t)[n])

(* A scheduled activation that was accepted is deleted, carried out or     *)
(* found invalid when it is due; it is lost only to another one that drew  *)
(* the same number from the unprotected counter.                           *)
AcceptedFires ==
  \A n \in 1..MaxPosts :
    (n \in DOMAIN state /\ state[n] = "accepted") ~> n \in DOMAIN state /\
      state[n] \in {"deleted", "overwritten", "done", "invalid"}

=============================================================================
