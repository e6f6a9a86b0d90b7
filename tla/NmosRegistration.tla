-------------------------- MODULE NmosRegistration --------------------------
(***************************************************************************)
(* The IS-04 side of the NMOS node: the observers of the session manager   *)
(* queue events, one worker thread turns them into the node's own tables   *)
(* (senders_, receivers_) and pushes documents to a registry, sends        *)
(* heartbeats and registers everything anew when the registry has          *)
(* forgotten the node or DNS-SD has found another registry.                *)
(*                                                                         *)
(* A document is represented by what makes it stale: the version of the    *)
(* source or sink it was built from, the ids a device lists, the lock      *)
(* state of the clock a node reports, and whether an IS-05 activation has  *)
(* rewritten it since.  Every HTTP request is a step of its own; the       *)
(* session manager, IS-05, DNS-SD and the registries act in between.       *)
(***************************************************************************)
EXTENDS Integers, Sequences, FiniteSets, SequencesExt

CONSTANTS
  Sources, Sinks,   \* daemon ids (numbers: the tables are ordered maps)
  Configured,       \* the ids the status file had sources and sinks for
  MaxUpsets         \* bound on what happens to the node: calls that change
                    \* the session manager, IS-05, DNS-SD, requests lost,
                    \* registries emptied, changes of the clock

ASSUME RegistrationConstants ==
  /\ Sources \subseteq Nat /\ Sinks \subseteq Nat
  /\ IsFiniteSet(Sources) /\ IsFiniteSet(Sinks)
  /\ Configured \subseteq Nat
  /\ MaxUpsets \in Nat

VARIABLES
  source,     \* session manager: id -> version of the source, 0 without one
  enabled,    \* the sources whose enabled flag is set
  sink,       \* session manager: id -> version of the sink, 0 without one
  events,     \* pending_events_
  senders,    \* senders_: id -> version its documents were built from, or 0
  receivers,  \* receivers_, likewise
  rewritten,  \* the senders and receivers whose document IS-05 rewrote
              \* since register_source or register_sink built it
  running,    \* running_
  pc,         \* where the registration worker is
  back,       \* where it goes on after the requests in hand
  todo,       \* ids full_registration has still to register locally
  pushes,     \* requests the operation in hand has still to send
  discovered, \* discovered_registry_address_ is set
  clock,      \* the PTP clock is locked
  registry,   \* external: what each registry holds, resource -> document
  trusted,    \* history: registries that missed nothing since they were
              \* empty and the node registered in full
  rejected,   \* history: a trusted registry refused a document
  unseen,     \* history: ids whose source was removed while disabled
  upsets      \* how much of MaxUpsets is used

manager == <<source, enabled, sink, unseen>>
network == <<registry, trusted, rejected>>
worker == <<pc, back, todo, pushes>>
vars == <<source, enabled, sink, unseen, events, senders, receivers, rewritten,
          running, pc, back, todo, pushes, discovered, clock, registry, trusted,
          rejected, upsets>>

Registries == {"configured", "discovered"}

(* effective_registry_address, effective_registry_port: looked up again    *)
(* for every request.                                                      *)
Effective == IF discovered THEN "discovered" ELSE "configured"

-----------------------------------------------------------------------------
(* Resources and their documents.                                          *)

Node == <<"node", 0>>
Device == <<"device", 0>>

(* make_resource_uuid: one resource of each kind for a daemon id.          *)
Resources ==
  {Node, Device} \cup ({"source", "flow", "sender"} \X Sources)
                 \cup ({"receiver"} \X Sinks)

(* The ids a document refers to; a registry refuses it without them.       *)
Parents(r) ==
  CASE r[1] = "node" -> {}
    [] r[1] = "device" -> {Node}
    [] r[1] \in {"source", "receiver"} -> {Device}
    [] r[1] = "flow" -> {Device, <<"source", r[2]>>}
    [] r[1] = "sender" -> {Device, <<"flow", r[2]>>}

Listed(s, r) ==
  {<<"sender", i>> : i \in {k \in Sources : s[k] # 0}}
    \cup {<<"receiver", j>> : j \in {k \in Sinks : r[k] # 0}}

Post(r, doc) == [op |-> "POST", res |-> r, doc |-> doc]
Delete(r) == [op |-> "DELETE", res |-> r, doc |-> {}]

(* sender_json, and build_receiver_json of an entry: what was built from   *)
(* version ver, or (0) what IS-05 has made of it, for w the set rewritten. *)
Held(r, ver, w) == {IF r \in w THEN 0 ELSE ver}

(* build_node_json, rebuild_device_json_locked and the other builders.     *)
PostNode == Post(Node, {clock})
PostDevice(s, r) == Post(Device, Listed(s, r))
SourcePosts(i, s, w) ==
  <<Post(<<"source", i>>, {s[i]}), Post(<<"flow", i>>, {s[i]}),
    Post(<<"sender", i>>, Held(<<"sender", i>>, s[i], w))>>
ReceiverPost(j, r, w) == Post(<<"receiver", j>>, Held(<<"receiver", j>>, r[j], w))

(* The numbers of S in increasing order.                                   *)
InOrder(S) ==
  {f \in [1..Cardinality(S) -> S] :
     Range(f) = S /\ \A m, n \in DOMAIN f : m < n => f[m] < f[n]}

(* full_registration: everything, parents before children; each source of  *)
(* ss has three requests, each sink of rs one.                             *)
FullPushes(ss, rs) ==
  <<PostNode, PostDevice(senders, receivers)>>
    \o [n \in 1..3 * Len(ss) |->
          SourcePosts(ss[(n + 2) \div 3], senders, rewritten)[1 + ((n - 1) % 3)]]
    \o [n \in DOMAIN rs |-> ReceiverPost(rs[n], receivers, rewritten)]

-----------------------------------------------------------------------------
Init ==
  /\ source = [i \in Sources |-> IF i \in Configured THEN 1 ELSE 0]
  /\ enabled \in SUBSET (Sources \cap Configured)
  /\ sink = [j \in Sinks |-> IF j \in Configured THEN 1 ELSE 0]
  /\ senders = source /\ receivers = sink /\ rewritten = {}
  /\ events = <<>> /\ running = TRUE
  /\ pc = "full" /\ back = "top" /\ todo = {} /\ pushes = <<>>
  /\ discovered = FALSE /\ clock = FALSE
  /\ registry = [g \in Registries |-> <<>>]
  /\ trusted = {} /\ rejected = FALSE /\ unseen = {}
  /\ upsets = 0

Upset == upsets < MaxUpsets /\ upsets' = upsets + 1

(* The observers: nothing is queued once the node is being stopped.        *)
Queue(evs) == events' = IF running THEN events \o evs ELSE events
Event(type, i) == <<type, i>>

-----------------------------------------------------------------------------
(* The session manager.  Its observers run under its lock, so the event    *)
(* and the change are one step.  A disabled source has no observer call.   *)

AddSource(i, en) ==
  /\ Upset
  /\ source' = [source EXCEPT ![i] = upsets + 2]
  /\ enabled' = IF en THEN enabled \cup {i} ELSE enabled \ {i}
  /\ unseen' = unseen \ {i}
  /\ Queue((IF i \in enabled THEN <<Event("SourceRemoved", i)>> ELSE <<>>)
             \o (IF en THEN <<Event("SourceAdded", i)>> ELSE <<>>))
  /\ UNCHANGED <<sink, senders, receivers, rewritten, running, worker, discovered, clock,
                 network>>

(* Also what is left of an update the driver refuses.                      *)
RemoveSource(i) ==
  /\ Upset
  /\ source[i] # 0
  /\ source' = [source EXCEPT ![i] = 0]
  /\ enabled' = enabled \ {i}
  /\ unseen' = IF i \in enabled THEN unseen ELSE unseen \cup {i}
  /\ Queue(IF i \in enabled THEN <<Event("SourceRemoved", i)>> ELSE <<>>)
  /\ UNCHANGED <<sink, senders, receivers, rewritten, running, worker, discovered, clock,
                 network>>

(* Mutant: an update reports the new sink before the removal of the old.   *)
AddSinkSwapped(j) ==
  /\ Upset
  /\ sink' = [sink EXCEPT ![j] = upsets + 2]
  /\ Queue(<<Event("SinkAdded", j)>>
             \o IF sink[j] # 0 THEN <<Event("SinkRemoved", j)>> ELSE <<>>)
  /\ UNCHANGED <<source, enabled, unseen, senders, receivers, rewritten, running, worker,
                 discovered, clock, network>>

AddSink(j) ==
  /\ Upset
  /\ sink' = [sink EXCEPT ![j] = upsets + 2]
  /\ Queue((IF sink[j] # 0 THEN <<Event("SinkRemoved", j)>> ELSE <<>>)
             \o <<Event("SinkAdded", j)>>)
  /\ UNCHANGED <<source, enabled, unseen, senders, receivers, rewritten, running, worker,
                 discovered, clock, network>>

RemoveSink(j) ==
  /\ Upset
  /\ sink[j] # 0
  /\ sink' = [sink EXCEPT ![j] = 0]
  /\ Queue(<<Event("SinkRemoved", j)>>)
  /\ UNCHANGED <<source, enabled, unseen, senders, receivers, rewritten, running, worker,
                 discovered, clock, network>>

-----------------------------------------------------------------------------
(* DNS-SD: registry_resolve_callback and registry_browse_callback.         *)

RegistryResolved ==
  /\ Upset
  /\ discovered' = TRUE
  /\ events' = Append(events, Event("RegistryUpdated", 0))
  /\ UNCHANGED <<manager, senders, receivers, rewritten, running, worker, clock, network>>

RegistryRemoved ==
  /\ Upset
  /\ discovered' = FALSE
  /\ events' = Append(events, Event("RegistryLost", 0))
  /\ UNCHANGED <<manager, senders, receivers, rewritten, running, worker, clock, network>>

-----------------------------------------------------------------------------
(* IS-05.  apply_sender_activation rewrites the sender's document, while   *)
(* there is a source; apply_receiver_activation gives the entry another    *)
(* active sender, and afterwards the sink as it is then.  The add_sink     *)
(* between the two is AddSink, when it succeeds.  Nothing is pushed here.  *)

ActivateSender(i) ==
  /\ Upset
  /\ senders[i] # 0 /\ source[i] # 0
  /\ rewritten' = rewritten \cup {<<"sender", i>>}
  /\ UNCHANGED <<manager, events, senders, receivers, running, worker,
                 discovered, clock, network>>

ActivateReceiver(j) ==
  /\ Upset
  /\ receivers[j] # 0
  /\ rewritten' = rewritten \cup {<<"receiver", j>>}
  /\ UNCHANGED <<manager, events, senders, receivers, running, worker,
                 discovered, clock, network>>

-----------------------------------------------------------------------------
(* full_registration: first the local tables, source by source and sink by *)
(* sink from snapshots of the session manager, then all the pushes.        *)

BeginFull ==
  /\ pc = "full"
  /\ todo' = {i \in Sources : source[i] # 0}
  /\ pc' = "sources"
  /\ UNCHANGED <<manager, events, senders, receivers, rewritten, running, back, pushes,
                 discovered, clock, network, upsets>>

(* register_source_local: nothing when get_source fails.                   *)
Built(table, i, ver) == IF ver = 0 THEN table ELSE [table EXCEPT ![i] = ver]
Fresh(r, ver) == IF ver = 0 THEN rewritten ELSE rewritten \ {r}

SyncSource(i) ==
  /\ pc = "sources" /\ i \in todo
  /\ todo' = todo \ {i}
  /\ senders' = Built(senders, i, source[i])
  /\ rewritten' = Fresh(<<"sender", i>>, source[i])
  /\ UNCHANGED <<manager, events, receivers, running, pc, back, pushes,
                 discovered, clock, network, upsets>>

SnapshotSinks ==
  /\ pc = "sources" /\ todo = {}
  /\ todo' = {j \in Sinks : sink[j] # 0}
  /\ pc' = "sinks"
  /\ UNCHANGED <<manager, events, senders, receivers, rewritten, running, back, pushes,
                 discovered, clock, network, upsets>>

(* register_sink_local.                                                    *)
SyncSink(j) ==
  /\ pc = "sinks" /\ j \in todo
  /\ todo' = todo \ {j}
  /\ receivers' = Built(receivers, j, sink[j])
  /\ rewritten' = Fresh(<<"receiver", j>>, sink[j])
  /\ UNCHANGED <<manager, events, senders, running, pc, back, pushes,
                 discovered, clock, network, upsets>>

Collect ==
  /\ pc = "sinks" /\ todo = {}
  /\ \E ss \in InOrder({i \in Sources : senders[i] # 0}),
        rs \in InOrder({j \in Sinks : receivers[j] # 0}) :
       pushes' = FullPushes(ss, rs)
  /\ pc' = "push"
  /\ trusted' = trusted \cup {g \in {Effective} : registry[g] = <<>>}
  /\ UNCHANGED <<manager, events, senders, receivers, rewritten, running, back, todo,
                 discovered, clock, registry, rejected, upsets>>

-----------------------------------------------------------------------------
(* The registry (external).  A document is taken when all it refers to is  *)
(* there; what goes takes with it everything that refers to it.            *)

Put(held, r, doc) ==
  [x \in DOMAIN held \cup {r} |-> IF x = r THEN doc ELSE held[x]]

Dependents(r) ==
  CASE r = Node -> Resources
    [] r = Device -> Resources \ {Node}
    [] OTHER -> {r}

Drop(held, r) == [x \in DOMAIN held \ Dependents(r) |-> held[x]]

Accepts(g, req) ==
  req.op = "DELETE" \/ Parents(req.res) \subseteq DOMAIN registry[g]

(* What a request that arrives does: nothing when it is refused.           *)
Arrives(req) ==
  LET g == Effective
  IN  /\ registry' =
           IF ~Accepts(g, req) THEN registry
           ELSE [registry EXCEPT ![g] =
                   IF req.op = "POST" THEN Put(@, req.res, req.doc)
                                      ELSE Drop(@, req.res)]
      /\ trusted' = trusted \cap {g}
      /\ rejected' = (rejected \/ (g \in trusted /\ ~Accepts(g, req)))
      /\ UNCHANGED upsets

(* No response: the registry is down or the request is lost.               *)
Lost ==
  /\ Upset
  /\ trusted' = {}
  /\ UNCHANGED <<registry, rejected>>

(* register_resource, unregister_resource: failures are logged only.       *)
Push ==
  /\ pc = "push" /\ pushes # <<>>
  /\ Arrives(Head(pushes)) \/ Lost
  /\ pushes' = Tail(pushes)
  /\ UNCHANGED <<manager, events, senders, receivers, rewritten, running, pc, back, todo,
                 discovered, clock>>

Pushed ==
  /\ pc = "push" /\ pushes = <<>>
  /\ pc' = back
  /\ UNCHANGED <<manager, events, senders, receivers, rewritten, running, back, todo,
                 pushes, discovered, clock, network, upsets>>

(* A registry restarts, or expires a node it has not heard of.             *)
Forget(g) ==
  /\ Upset
  /\ registry[g] # <<>>
  /\ registry' = [registry EXCEPT ![g] = <<>>]
  /\ trusted' = trusted \ {g}
  /\ UNCHANGED <<manager, events, senders, receivers, rewritten, running, worker,
                 discovered, clock, rejected>>

ClockFlips ==
  /\ Upset
  /\ clock' = ~clock
  /\ UNCHANGED <<manager, events, senders, receivers, rewritten, running, worker,
                 discovered, network>>

-----------------------------------------------------------------------------
(* registration_worker.                                                    *)

Enter ==
  /\ pc = "top"
  /\ pc' = IF running THEN "drain" ELSE "push"
  /\ back' = IF running THEN back ELSE "done"
  /\ pushes' = IF running THEN <<>> ELSE <<Delete(Node)>>
  /\ UNCHANGED <<manager, events, senders, receivers, rewritten, running, todo,
                 discovered, clock, network, upsets>>

Pop(type) ==
  /\ pc = "drain" /\ events # <<>> /\ Head(events)[1] = type
  /\ events' = Tail(events)

(* register_source: nothing when the source is gone again.                 *)
HandleSourceAdded ==
  /\ Pop("SourceAdded")
  /\ LET i == Head(events)[2]
         s == Built(senders, i, source[i])
         w == Fresh(<<"sender", i>>, source[i])
     IN  /\ senders' = s /\ rewritten' = w
         /\ pushes' = IF source[i] = 0 THEN <<>>
                      ELSE Append(SourcePosts(i, s, w), PostDevice(s, receivers))
  /\ pc' = "push" /\ back' = "drain"
  /\ UNCHANGED <<manager, receivers, running, todo, discovered, clock, network,
                 upsets>>

(* Mutant: the device document is not pushed again.                        *)
HandleSourceRemovedNoDevice ==
  /\ Pop("SourceRemoved")
  /\ LET i == Head(events)[2]
     IN  /\ senders' = [senders EXCEPT ![i] = 0]
         /\ rewritten' = rewritten \ {<<"sender", i>>}
         /\ pushes' = IF senders[i] = 0 THEN <<>>
                      ELSE <<Delete(<<"sender", i>>), Delete(<<"flow", i>>),
                             Delete(<<"source", i>>)>>
  /\ pc' = "push" /\ back' = "drain"
  /\ UNCHANGED <<manager, receivers, running, todo, discovered, clock, network,
                 upsets>>

(* Mutant: the source is deleted before what was made of it.               *)
HandleSourceRemovedDown ==
  /\ Pop("SourceRemoved")
  /\ LET i == Head(events)[2]
         s == [senders EXCEPT ![i] = 0]
     IN  /\ senders' = s /\ rewritten' = rewritten \ {<<"sender", i>>}
         /\ pushes' = IF senders[i] = 0 THEN <<>>
                      ELSE <<PostDevice(s, receivers), Delete(<<"source", i>>),
                             Delete(<<"flow", i>>), Delete(<<"sender", i>>)>>
  /\ pc' = "push" /\ back' = "drain"
  /\ UNCHANGED <<manager, receivers, running, todo, discovered, clock, network,
                 upsets>>

(* unregister_source.                                                      *)
HandleSourceRemoved ==
  /\ Pop("SourceRemoved")
  /\ LET i == Head(events)[2]
         s == [senders EXCEPT ![i] = 0]
     IN  /\ senders' = s /\ rewritten' = rewritten \ {<<"sender", i>>}
         /\ pushes' = IF senders[i] = 0 THEN <<>>
                      ELSE <<PostDevice(s, receivers), Delete(<<"sender", i>>),
                             Delete(<<"flow", i>>), Delete(<<"source", i>>)>>
  /\ pc' = "push" /\ back' = "drain"
  /\ UNCHANGED <<manager, receivers, running, todo, discovered, clock, network,
                 upsets>>

(* register_sink.                                                          *)
HandleSinkAdded ==
  /\ Pop("SinkAdded")
  /\ LET j == Head(events)[2]
         r == Built(receivers, j, sink[j])
         w == Fresh(<<"receiver", j>>, sink[j])
     IN  /\ receivers' = r /\ rewritten' = w
         /\ pushes' = IF sink[j] = 0 THEN <<>>
                      ELSE <<ReceiverPost(j, r, w), PostDevice(senders, r)>>
  /\ pc' = "push" /\ back' = "drain"
  /\ UNCHANGED <<manager, senders, running, todo, discovered, clock, network,
                 upsets>>

(* unregister_sink.                                                        *)
HandleSinkRemoved ==
  /\ Pop("SinkRemoved")
  /\ LET j == Head(events)[2]
         r == [receivers EXCEPT ![j] = 0]
     IN  /\ receivers' = r /\ rewritten' = rewritten \ {<<"receiver", j>>}
         /\ pushes' = IF receivers[j] = 0 THEN <<>>
                      ELSE <<PostDevice(senders, r), Delete(<<"receiver", j>>)>>
  /\ pc' = "push" /\ back' = "drain"
  /\ UNCHANGED <<manager, senders, running, todo, discovered, clock, network,
                 upsets>>

HandleRegistryUpdated ==
  /\ Pop("RegistryUpdated")
  /\ pc' = "full" /\ back' = "drain"
  /\ UNCHANGED <<manager, senders, receivers, rewritten, running, todo, pushes,
                 discovered, clock, network, upsets>>

HandleRegistryLost ==
  /\ Pop("RegistryLost")
  /\ UNCHANGED <<manager, senders, receivers, rewritten, running, worker, discovered,
                 clock, network, upsets>>

(* No event is left and no heartbeat is due.                               *)
Drained ==
  /\ pc = "drain" /\ events = <<>>
  /\ pc' = "top"
  /\ UNCHANGED <<manager, events, senders, receivers, rewritten, running, back, todo,
                 pushes, discovered, clock, network, upsets>>

(* heartbeat: 404 makes the node register in full; any other failure is    *)
(* left to the next one.  Whatever the outcome the node is pushed after it.*)
HeartbeatForgotten ==
  /\ pc = "drain" /\ events = <<>> /\ running
  /\ Node \notin DOMAIN registry[Effective]
  /\ pc' = "full" /\ back' = "node"
  /\ UNCHANGED <<manager, events, senders, receivers, rewritten, running, todo, pushes,
                 discovered, clock, network, upsets>>

HeartbeatHeard ==
  /\ pc = "drain" /\ events = <<>> /\ running
  /\ Node \in DOMAIN registry[Effective]
  /\ pc' = "node"
  /\ UNCHANGED <<manager, events, senders, receivers, rewritten, running, back, todo,
                 pushes, discovered, clock, network, upsets>>

HeartbeatLost ==
  /\ pc = "drain" /\ events = <<>> /\ running
  /\ Upset
  /\ pc' = "node"
  /\ UNCHANGED <<manager, events, senders, receivers, rewritten, running, back, todo,
                 pushes, discovered, clock, network>>

(* Mutant: a heartbeat carries no node document.                           *)
RefreshNothing ==
  /\ pc = "node"
  /\ pc' = "top"
  /\ UNCHANGED <<manager, events, senders, receivers, rewritten, running, back, todo,
                 pushes, discovered, clock, network, upsets>>

RefreshNode ==
  /\ pc = "node"
  /\ pushes' = <<PostNode>>
  /\ pc' = "push" /\ back' = "top"
  /\ UNCHANGED <<manager, events, senders, receivers, rewritten, running, todo,
                 discovered, clock, network, upsets>>

(* terminate.                                                              *)
Stop ==
  /\ running /\ running' = FALSE
  /\ UNCHANGED <<manager, events, senders, receivers, rewritten, worker, discovered,
                 clock, network, upsets>>

-----------------------------------------------------------------------------
Full == \/ BeginFull \/ SnapshotSinks \/ Collect
        \/ \E i \in Sources : SyncSource(i)
        \/ \E j \in Sinks : SyncSink(j)

Handle == \/ HandleSourceAdded \/ HandleSourceRemoved
          \/ HandleSinkAdded \/ HandleSinkRemoved
          \/ HandleRegistryUpdated \/ HandleRegistryLost

Heartbeat == HeartbeatForgotten \/ HeartbeatHeard \/ HeartbeatLost \/ RefreshNode

Worker == Full \/ Push \/ Pushed \/ Enter \/ Handle \/ Drained \/ Heartbeat

Environment ==
  \/ \E i \in Sources : RemoveSource(i) \/ \E en \in BOOLEAN : AddSource(i, en)
  \/ \E j \in Sinks : AddSink(j) \/ RemoveSink(j)
  \/ \E i \in Sources : ActivateSender(i)
  \/ \E j \in Sinks : ActivateReceiver(j)
  \/ RegistryResolved \/ RegistryRemoved
  \/ \E g \in Registries : Forget(g)
  \/ ClockFlips \/ Stop

Next == Worker \/ Environment

Spec == Init /\ [][Next]_vars

(* The worker thread runs; its loop is timed, so heartbeats come round.    *)
FairSpec ==
  Spec /\ WF_vars(Worker) /\ SF_vars(HeartbeatHeard \/ HeartbeatForgotten)

-----------------------------------------------------------------------------
(* Properties.                                                             *)

SourceEvents == {"SourceAdded", "SourceRemoved"}
SinkEvents == {"SinkAdded", "SinkRemoved"}
RegistryEvents == {"RegistryUpdated", "RegistryLost"}

(* Types; the worker is in the middle of requests only where it can be.  A *)
(* registry that has missed nothing holds a resource only with all it      *)
(* refers to, at every request of a registration and of a removal; any     *)
(* other one may be left with a flow or a sender without its source.       *)
TypeOK ==
  /\ source \in [Sources -> Nat] /\ senders \in [Sources -> Nat]
  /\ sink \in [Sinks -> Nat] /\ receivers \in [Sinks -> Nat]
  /\ enabled \subseteq {i \in Sources : source[i] # 0}
  /\ unseen \subseteq {i \in Sources : source[i] = 0}
  /\ events \in Seq((SourceEvents \X Sources) \cup (SinkEvents \X Sinks)
                       \cup (RegistryEvents \X {0}))
  /\ running \in BOOLEAN /\ discovered \in BOOLEAN /\ clock \in BOOLEAN
  /\ pc \in {"full", "sources", "sinks", "push", "top", "drain", "node", "done"}
  /\ back \in {"top", "drain", "node", "done"}
  /\ pc \notin {"sources", "sinks"} => todo = {}
  /\ pc # "push" => pushes = <<>>
  /\ rewritten \subseteq Listed(senders, receivers)
  /\ \A g \in Registries : DOMAIN registry[g] \subseteq Resources
  /\ trusted \subseteq Registries
  /\ \A g \in trusted : \A r \in DOMAIN registry[g] :
       Parents(r) \subseteq DOMAIN registry[g]
  /\ upsets \in 0..MaxUpsets

(* The last event queued about an id, when there is one, says what the     *)
(* session manager now has; without one the table already does.  No        *)
(* interleaving of the observers with the worker's own synchronisation     *)
(* loses or undoes a change.  The exception is a source removed while      *)
(* disabled: its removal has no observer call and its sender stays.        *)
LastAbout(n, types) ==
  /\ events[n][1] \in types
  /\ \A m \in DOMAIN events :
       m > n => ~(events[m][1] \in types /\ events[m][2] = events[n][2])

NoneAbout(i, types) ==
  \A n \in DOMAIN events : ~(events[n][1] \in types /\ events[n][2] = i)

SendersFollow ==
  /\ \A n \in DOMAIN events : LastAbout(n, SourceEvents) =>
       (events[n][1] = "SourceAdded" <=> events[n][2] \in enabled)
  /\ \A i \in Sources : NoneAbout(i, SourceEvents) =>
       /\ i \in enabled => senders[i] = source[i]
       /\ source[i] = 0 => senders[i] = 0 \/ i \in unseen

ReceiversFollow ==
  /\ \A n \in DOMAIN events : LastAbout(n, SinkEvents) =>
       (events[n][1] = "SinkAdded" <=> sink[events[n][2]] # 0)
  /\ \A j \in Sinks : NoneAbout(j, SinkEvents) => receivers[j] = sink[j]

TablesFollow == running => SendersFollow /\ ReceiversFollow

(* The order of the pushes (full_registration, register_source, ...) never *)
(* makes a registry that has missed nothing refuse a document, and between *)
(* two operations of the worker such a registry holds exactly what is in   *)
(* the node's tables: the device with all its senders and receivers, and   *)
(* of each the document built last.  A sender's or receiver's document     *)
(* that IS-05 has rewritten since is the exception: the activation pushes  *)
(* nothing, and the registry has it only after a full registration, or     *)
(* not at all.                                                             *)
Between == pc \in {"top", "drain", "node"}

Current(g) ==
  /\ DOMAIN registry[g] =
       {Node, Device} \cup Listed(senders, receivers)
         \cup ({"source", "flow"} \X {i \in Sources : senders[i] # 0})
  /\ registry[g][Device] = Listed(senders, receivers)
  /\ \A r \in DOMAIN registry[g] \ {Node, Device} :
       \/ registry[g][r] = {IF r[1] = "receiver" THEN receivers[r[2]]
                                                 ELSE senders[r[2]]}
       \/ r \in rewritten

RegistryCurrent ==
  ~rejected /\ (Between => \A g \in trusted : Current(g))

(* As long as the node runs, the registry in use ends up with the node's   *)
(* current clock state (registration_worker pushes it with every           *)
(* heartbeat), also after the registry has forgotten it or was replaced.   *)
NodeRefreshed ==
  [](running) => <>[](Node \in DOMAIN registry[Effective]
                        /\ registry[Effective][Node] = {clock})

=============================================================================
