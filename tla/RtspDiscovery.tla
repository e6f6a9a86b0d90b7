--------------------------- MODULE RtspDiscovery ---------------------------
(***************************************************************************)
(* A source of one node as another node comes to know it without SAP: the  *)
(* session manager and its observers, the mDNS server that advertises the  *)
(* source and the RTSP server that describes and announces it; the mDNS    *)
(* client of the other node, one RTSP client task per service it resolves, *)
(* the browser's table, and the session worker that brings the sink of the *)
(* other node up to date.                                                  *)
(*                                                                         *)
(* A description is represented by its session version; 0 is no source, no *)
(* entry in the browser's table.                                           *)
(***************************************************************************)
EXTENDS Integers, Sequences, FiniteSets

CONSTANTS
  Tasks,        \* RTSP client tasks, each with a connection of its own
  None,
  MaxVersion,   \* bound on session versions
  MaxFaults,    \* bound on the failures of the network
  MaxTime       \* bound on the seconds that pass

ASSUME DiscoveryConstants ==
  /\ None \notin Tasks
  /\ Cardinality(Tasks) >= MaxVersion  \* a task for each service that appears
  /\ MaxVersion \in Nat /\ MaxFaults \in Nat /\ MaxTime \in Nat \ {0}

VARIABLES
  version,      \* node 1: the entry in sources_
  drawn,        \* node 1: the last version given out
  updating,     \* node 1: add_source holds the lock, the service is withdrawn
  service,      \* node 1: the entry group of the source is established
  events,       \* what avahi has not reported to node 2 yet
  server,       \* node 1: task -> its RTSP session
  wire,         \* what the server has sent and the task has not read
  resolving,    \* node 2: a resolver is active for the service
  removing,     \* node 2: REMOVE, between stop() and on_remove
  task,         \* node 2: task -> [at, carry]
  client,       \* node 2: the service's entry in g_active_clients
  table,        \* node 2: the service's entry in the browser's sources_
  last_update,  \* node 2: second of the table's last change
  worker,       \* node 2: the session worker in update_sinks
  last_sink_update,
  sink,         \* node 2: the version the sink was set up with
  refused,      \* history: the version add_sink failed on last
  now,
  faults,
  late,         \* history: a task that was not the active one delivered
  missed,       \* history: an update fell between DESCRIBE's two steps
  crowded       \* history: the table changed twice in a second

node1 == <<version, drawn, updating, service, events>>
rtsp == <<server, wire>>
mdns == <<resolving, removing>>
browser == <<table, last_update, crowded>>
sinks == <<worker, last_sink_update, sink, refused>>
vars == <<node1, rtsp, mdns, task, client, browser, sinks, now, faults, late,
          missed>>

(* The sink is gone: its update was refused by the driver.                  *)
Dropped == -1

NoServer == [state |-> "closed", described |-> FALSE, sdp |-> 0]

Init ==
  /\ version = 0 /\ drawn = 0 /\ updating = FALSE /\ service = FALSE
  /\ events = <<>>
  /\ server = [c \in Tasks |-> NoServer] /\ wire = [c \in Tasks |-> <<>>]
  /\ resolving = FALSE /\ removing = FALSE
  /\ task = [c \in Tasks |-> [at |-> "none", carry |-> 0]] /\ client = None
  /\ table = 0 /\ last_update = 0
  /\ worker = [at |-> "idle", ts |-> 0, found |-> 0]
  /\ last_sink_update = 0 /\ sink = 0 /\ refused = 0
  /\ now = 1 /\ faults = 0
  /\ late = FALSE /\ missed = FALSE /\ crowded = FALSE

Fault == faults < MaxFaults /\ faults' = faults + 1

-----------------------------------------------------------------------------
(* Node 1: the session manager calls its observers.                        *)

(* RtspServer::update_source, RtspSession::announce: a session gets the    *)
(* new description if it has described the source and is not busy with a   *)
(* request.                                                                *)
Told(c) == server[c].state = "idle" /\ server[c].described

Announce(v) ==
  /\ wire' = [c \in Tasks |-> IF Told(c) THEN Append(wire[c], <<"announce", v>>)
                              ELSE wire[c]]
  /\ missed' = (missed \/ \E c \in Tasks : server[c].state = "answer")

(* MDNSServer::add_service and remove_service, and avahi: what one node    *)
(* registers and withdraws is reported to the other in that order.         *)
AddService == service' = TRUE /\ events' = Append(events, "new")

RemoveService ==
  /\ service' = FALSE
  /\ events' = IF service THEN Append(events, "remove") ELSE events

(* add_source of an id in use first removes it for its observers; the lock *)
(* is held until the new entry is in place.                                *)
AddSource ==
  /\ ~updating /\ drawn < MaxVersion
  /\ drawn' = drawn + 1
  /\ updating' = TRUE /\ RemoveService
  /\ UNCHANGED <<version, rtsp, mdns, task, client, browser, sinks, now, faults,
                 late, missed>>

Added ==
  /\ updating
  /\ updating' = FALSE /\ AddService /\ version' = drawn
  /\ Announce(drawn)
  /\ UNCHANGED <<drawn, server, mdns, task, client, browser, sinks, now, faults,
                 late>>

RemoveSource ==
  /\ ~updating /\ version # 0
  /\ RemoveService /\ version' = 0
  /\ UNCHANGED <<drawn, updating, rtsp, mdns, task, client, browser, sinks, now,
                 faults, late, missed>>

(* on_update_sources: the clock of the node has changed.                   *)
UpdateSources ==
  /\ ~updating /\ version # 0 /\ drawn < MaxVersion
  /\ drawn' = drawn + 1 /\ version' = drawn + 1
  /\ Announce(drawn + 1)
  /\ UNCHANGED <<updating, service, events, server, mdns, task, client, browser, sinks,
                 now, faults, late>>

(* RtspSession::process_request and build_response: the description is     *)
(* read under the lock of the sources and sent after it; only then does    *)
(* the session count as having described the source.                       *)
Describe(c) ==
  /\ server[c].state = "asked" /\ ~updating
  /\ server' = [server EXCEPT ![c].state = "answer", ![c].sdp = version]
  /\ UNCHANGED <<node1, wire, mdns, task, client, browser, sinks, now, faults,
                 late, missed>>

\* Mutant: the session does not note what it has described.
AnswerForgets(c) ==
  /\ server[c].state = "answer"
  /\ server' = [server EXCEPT ![c].state = "idle", ![c].sdp = 0]
  /\ wire' = [wire EXCEPT ![c] = Append(@, <<"response", server[c].sdp>>)]
  /\ UNCHANGED <<node1, mdns, task, client, browser, sinks, now, faults, late,
                 missed>>

Answer(c) ==
  /\ server[c].state = "answer"
  /\ server' = [server EXCEPT ![c].state = "idle", ![c].sdp = 0,
                              ![c].described = server[c].sdp # 0]
  /\ wire' = [wire EXCEPT ![c] = Append(@, <<"response", server[c].sdp>>)]
  /\ UNCHANGED <<node1, mdns, task, client, browser, sinks, now, faults, late,
                 missed>>

-----------------------------------------------------------------------------
(* Node 2: the mDNS client.                                                *)

Unregistered == <<version, drawn, updating, service>>

(* A service that comes back within a second may not be reported at all.   *)
Unreported ==
  /\ Len(events) >= 2 /\ Head(events) = "remove" /\ Fault
  /\ events' = Tail(Tail(events))
  /\ UNCHANGED <<Unregistered, rtsp, mdns, task, client, browser, sinks, now,
                 late, missed>>

BrowserNew ==
  /\ events # <<>> /\ Head(events) = "new" /\ ~removing
  /\ events' = Tail(events)
  /\ resolving' = TRUE  \* a resolver that is running is kept
  /\ UNCHANGED <<Unregistered, rtsp, removing, task, client, browser, sinks, now,
                 faults, late, missed>>

Idle(c) == task[c].at = "none"

ResolverFound(c) ==
  /\ resolving /\ ~removing /\ Idle(c)
  /\ resolving' = FALSE
  /\ task' = [task EXCEPT ![c].at = "start"]
  /\ UNCHANGED <<node1, rtsp, removing, client, browser, sinks, now,
                 faults, late, missed>>

ResolverFailure ==
  /\ resolving /\ ~removing /\ Fault
  /\ resolving' = FALSE
  /\ UNCHANGED <<node1, rtsp, removing, task, client, browser, sinks, now,
                 late, missed>>

(* RtspClient::stop shuts the connection down; what has arrived can still  *)
(* be read.                                                                *)
Shut(c) == server' = [server EXCEPT ![c] = NoServer]

BrowserRemove ==
  /\ events # <<>> /\ Head(events) = "remove" /\ ~removing
  /\ events' = Tail(events) /\ removing' = TRUE
  /\ IF client = None THEN UNCHANGED server ELSE Shut(client)
  /\ client' = None
  /\ UNCHANGED <<Unregistered, wire, resolving, task, browser, sinks, now, faults,
                 late, missed>>

Touch == last_update' = now /\ crowded' = (crowded \/ last_update = now)

OnRemoveRtspSource ==
  /\ removing /\ removing' = FALSE
  /\ table' = 0
  /\ IF table # 0 THEN Touch ELSE UNCHANGED <<last_update, crowded>>
  /\ UNCHANGED <<node1, rtsp, resolving, task, client, sinks, now, faults,
                 late, missed>>

-----------------------------------------------------------------------------
(* Node 2: an RTSP client task (RtspClient::process).                      *)

Goes(c, place, v) == task' = [task EXCEPT ![c] = [at |-> place, carry |-> v]]

Register(c) ==
  /\ task[c].at = "start"
  /\ client' = c /\ Goes(c, "connect", 0)
  /\ UNCHANGED <<node1, rtsp, mdns, browser, sinks, now, faults, late, missed>>

Connect(c) ==
  /\ task[c].at = "connect"
  /\ Goes(c, "ask", 0)
  /\ server' = [server EXCEPT ![c].state = "asked"]
  /\ UNCHANGED <<node1, wire, mdns, client, browser, sinks, now, faults, late,
                 missed>>

\* Mutant: the entry stays.
EndStays(c) ==
  /\ Goes(c, "none", 0)
  /\ Shut(c)
  /\ wire' = [wire EXCEPT ![c] = <<>>]
  /\ UNCHANGED <<node1, mdns, client, browser, sinks, now, late, missed>>

(* The task ends and takes its own entry out of the active clients.        *)
End(c) ==
  /\ Goes(c, "none", 0)
  /\ client' = IF client = c THEN None ELSE client
  /\ Shut(c)
  /\ wire' = [wire EXCEPT ![c] = <<>>]
  /\ UNCHANGED <<node1, mdns, browser, sinks, now, late, missed>>

(* No connection, or it breaks.                                            *)
Broken(c) ==
  /\ task[c].at \in {"connect", "ask", "await"}
  /\ Fault /\ End(c)

Response(c) ==
  /\ task[c].at = "ask" /\ wire[c] # <<>> /\ Head(wire[c])[2] # 0
  /\ Goes(c, "deliver", Head(wire[c])[2])
  /\ wire' = [wire EXCEPT ![c] = Tail(@)]
  /\ UNCHANGED <<node1, server, mdns, client, browser, sinks, now, faults, late,
                 missed>>

NotFound(c) ==
  /\ task[c].at = "ask" /\ wire[c] # <<>> /\ Head(wire[c])[2] = 0
  /\ End(c) /\ UNCHANGED faults

(* The task waits for updates as long as some task is active for the       *)
(* service and its own connection lives.                                   *)
Update(c) ==
  /\ task[c].at = "await" /\ client # None /\ wire[c] # <<>>
  /\ Goes(c, "deliver", Head(wire[c])[2])
  /\ wire' = [wire EXCEPT ![c] = Tail(@)]
  /\ UNCHANGED <<node1, server, mdns, client, browser, sinks, now, faults, late,
                 missed>>

Stopped(c) ==
  /\ \/ task[c].at = "await" /\ client = None /\ wire[c] # <<>>
     \/ task[c].at \in {"ask", "await"} /\ server[c].state = "closed" /\ wire[c] = <<>>
  /\ End(c) /\ UNCHANGED faults

(* Browser::on_change_rtsp_source.                                         *)
Deliver(c) ==
  /\ task[c].at = "deliver"
  /\ table' = task[c].carry /\ Touch
  /\ late' = (late \/ client # c)
  /\ Goes(c, "await", 0)
  /\ UNCHANGED <<node1, rtsp, mdns, client, sinks, now, faults, missed>>

-----------------------------------------------------------------------------
(* Node 2: SessionManager::update_sinks.                                   *)

CheckUpdate ==
  /\ worker.at = "idle" /\ last_update \notin {0, last_sink_update}
  /\ worker' = [worker EXCEPT !.at = "read", !.ts = last_update]
  /\ UNCHANGED <<node1, rtsp, mdns, task, client, browser, last_sink_update, sink,
                 refused, now, faults, late, missed>>

GetRemoteSources ==
  /\ worker.at = "read"
  /\ worker' = [worker EXCEPT !.at = "apply", !.found = table]
  /\ UNCHANGED <<node1, rtsp, mdns, task, client, browser, last_sink_update, sink,
                 refused, now, faults, late, missed>>

(* get_updated_sinks: only a higher version replaces the sink's, and only  *)
(* of a sink that is in the table.                                         *)
Newer == sink # Dropped /\ worker.found > sink

(* add_sink: the sink has the new description; or the description cannot   *)
(* be used and the sink is left as it was; or the driver refuses it, and   *)
(* the sink is erased.  update_sinks does not look at the result.          *)
AddSink ==
  \/ sink' = (IF Newer THEN worker.found ELSE sink) /\ UNCHANGED refused
  \/ Newer /\ sink' \in {sink, Dropped} /\ refused' = worker.found

\* Mutant: the time of the last update is read again after the work.
ApplyUpdateRereads ==
  /\ worker.at = "apply" /\ AddSink
  /\ last_sink_update' = last_update
  /\ worker' = [at |-> "idle", ts |-> 0, found |-> 0]
  /\ UNCHANGED <<node1, rtsp, mdns, task, client, browser, now, faults, late,
                 missed>>

ApplyUpdate ==
  /\ worker.at = "apply" /\ AddSink
  /\ last_sink_update' = worker.ts
  /\ worker' = [at |-> "idle", ts |-> 0, found |-> 0]
  /\ UNCHANGED <<node1, rtsp, mdns, task, client, browser, now, faults, late,
                 missed>>

Second ==
  /\ now < MaxTime /\ now' = now + 1
  /\ UNCHANGED <<node1, rtsp, mdns, task, client, browser, sinks, faults, late,
                 missed>>

-----------------------------------------------------------------------------
Talker == Added \/ \E c \in Tasks : Describe(c) \/ Answer(c)
Avahi ==
  \/ BrowserNew \/ BrowserRemove \/ OnRemoveRtspSource
  \/ \E c \in Tasks : ResolverFound(c)
Listener(c) ==
  \/ Register(c) \/ Connect(c) \/ Response(c) \/ NotFound(c) \/ Update(c)
  \/ Stopped(c) \/ Deliver(c)
SinkWorker == CheckUpdate \/ GetRemoteSources \/ ApplyUpdate

Next ==
  \/ AddSource \/ RemoveSource \/ UpdateSources
  \/ Talker \/ Avahi \/ ResolverFailure \/ Unreported
  \/ \E c \in Tasks : Listener(c) \/ Broken(c)
  \/ SinkWorker \/ Second

Spec == Init /\ [][Next]_vars

(* Each thread runs; users, the network's failures and time owe nothing.   *)
FairSpec ==
  /\ Spec
  /\ WF_vars(Talker) /\ WF_vars(Avahi) /\ WF_vars(SinkWorker)
  /\ \A c \in Tasks : WF_vars(Listener(c))

-----------------------------------------------------------------------------
(* Properties.                                                             *)

(* Types, and the register of active clients: the entry is a task that is  *)
(* running, and a connection the server keeps open has a task at its end.  *)
TypeOK ==
  /\ version \in 0..drawn /\ drawn \in 0..MaxVersion /\ table \in 0..drawn
  /\ client \in Tasks \cup {None}
  /\ Len(events) <= 2 * MaxVersion
  /\ client # None => task[client].at \notin {"none", "start"}
  /\ \A c \in Tasks :
       /\ server[c].state \in {"closed", "asked", "answer", "idle"}
       /\ server[c].state # "closed" => task[c].at \in {"ask", "deliver", "await"}
       /\ Len(wire[c]) <= MaxVersion
  /\ last_update \in 0..now /\ last_sink_update \in 0..now
  /\ sink \in (0..drawn) \cup {Dropped} /\ refused \in 0..drawn

(* The browser's table ends up with the source's last description, and     *)
(* without the source once it is removed, whatever the order of mDNS       *)
(* events, descriptions and announcements.  It may not when the network    *)
(* failed, when a task that was stopped or replaced delivers after that,   *)
(* or when an update came between DESCRIBE's reading and answering.        *)
DirectoryConverges ==
  <>[](faults = 0 /\ ~late /\ ~missed) => <>[](table = version)

(* A sink ends up with the newest version the table holds, unless the      *)
(* table changed twice in one second: the worker compares seconds.  What   *)
(* the worker tried once it does not try again: a sink that could not be   *)
(* given the table's version keeps its own or is gone, for good.           *)
SinkFollows ==
  <>[](~crowded) => <>[](table <= sink \/ sink = Dropped \/ table = refused)

=============================================================================
