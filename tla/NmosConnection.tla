--------------------------- MODULE NmosConnection ---------------------------
(***************************************************************************)
(* The IS-05 side of the NMOS node, for one sender and one receiver: the   *)
(* PATCH handlers of client threads merge a body into the staged state and *)
(* activate it at once or leave a pending entry, which the registration    *)
(* worker applies when it is due.  Activating the receiver fetches the     *)
(* SDP of the sender, promotes staged to active and programs the sink in   *)
(* the session manager, in steps that hold no lock in common; the sink's   *)
(* observers make the worker rebuild the receiver from the sink.           *)
(*                                                                         *)
(* Transport parameters, activation times and the copy of the sink that    *)
(* the receiver's label comes from follow the fields kept here and are     *)
(* left out.  Whether a pending entry is due is left open: its requested   *)
(* time is the client's choice.                                            *)
(***************************************************************************)
EXTENDS Integers, Sequences, FiniteSets, SequencesExt

CONSTANTS
  Clients,     \* threads of the Node API server
  Peers,       \* ids of senders to connect the receiver to, and of receivers
  MaxPatches,  \* bound on the PATCH requests
  MaxDirect    \* bound on the other changes: sinks changed by other clients,
               \* full registrations, refusals of the driver

CONSTANTS None, Worker,  \* no peer; the registration worker
          Direct         \* the stream of a sink not set through IS-05

ASSUME ConnectionConstants ==
  /\ Worker \notin Clients /\ Peers \cap {None, Direct} = {} /\ None # Direct
  /\ MaxPatches \in Nat /\ MaxDirect \in Nat

VARIABLES
  sink,       \* session manager: the stream the sink receives, None if there
              \* is no sink
  present,    \* receivers_ has an entry
  staged,     \* kind -> staged_master_enable, staged peer, staged_act.mode
  active,     \* kind -> active_master_enable, active peer
  document,   \* the receiver named in sender_json
  preserved,  \* preserved_active_sender_ids_: a set of at most one peer
  pending,    \* pending_activations_: the kinds to activate
  due,        \* those process_scheduled_activations has taken out
  events,     \* sink events for the worker
  at,         \* thread -> where it is in an activation
  job,        \* thread -> the snapshot it activates
  disturbed,  \* history: since the last promotion add_sink failed, or someone
              \* else changed the sink or was programming it, before the worker
              \* had registered the sink; a registration with nothing kept
              \* aside ends it as well
  patches, direct

vars == <<sink, present, staged, active, document, preserved, pending, due,
          events, at, job, disturbed, patches, direct>>

Threads == Clients \cup {Worker}
Kinds == {"sender", "receiver"}
Modes == {"null", "immediate", "scheduled"}
PeerOrNone == Peers \cup {None}
Streams == Peers \cup {None, Direct}

(* A field of a PATCH body may be absent ("same").                         *)
Same == "same"
Bodies == [enable : {Same, "on", "off"}, peer : PeerOrNone \cup {Same},
           mode : Modes \cup {Same}]

Fresh == [enable |-> "on", peer |-> None, mode |-> "null"]
NoJob == [kind |-> "receiver", enable |-> "off", peer |-> None]

Init ==
  /\ sink = Direct /\ present = TRUE
  /\ staged = [k \in Kinds |-> Fresh]
  /\ active = [k \in Kinds |-> [enable |-> "on", peer |-> None]]
  /\ document = None /\ preserved = {}
  /\ pending = <<>> /\ due = <<>> /\ events = <<>>
  /\ at = [t \in Threads |-> "idle"] /\ job = [t \in Threads |-> NoJob]
  /\ disturbed = FALSE
  /\ patches = 0 /\ direct = 0

Here(k) == k = "sender" \/ present

-----------------------------------------------------------------------------
(* patch_sender_staged, patch_receiver_staged: merge the body; a mode that *)
(* was staged before and not consumed yet counts again.                    *)

Merge(st, b) ==
  [enable |-> IF b.enable = Same THEN st.enable ELSE b.enable,
   peer |-> IF b.peer = Same THEN st.peer ELSE b.peer,
   mode |-> IF b.mode = Same THEN st.mode ELSE b.mode]

FirstStep(k) == IF k = "sender" THEN "promote sender" ELSE "snapshot"

(* Idle threads are alike: one of them takes the request.                  *)
Taker == CHOOSE t \in Clients : at[t] = "idle"

Patch(t, k, b) ==
  LET st == Merge(staged[k], b)
  IN  /\ at[t] = "idle" /\ t = Taker /\ Here(k)
      /\ patches < MaxPatches /\ patches' = patches + 1
      /\ staged' = [staged EXCEPT ![k] = st]
      /\ pending' = IF st.mode = "scheduled" THEN Append(pending, k) ELSE pending
      /\ IF st.mode = "immediate"
         THEN /\ at' = [at EXCEPT ![t] = FirstStep(k)]
              /\ job' = [job EXCEPT ![t].kind = k]
         ELSE UNCHANGED <<at, job>>
      /\ UNCHANGED <<sink, present, active, document, preserved, due, events,
                     disturbed, direct>>

-----------------------------------------------------------------------------
(* apply_sender_activation: promote, then rebuild sender_json from what is *)
(* active by then.                                                         *)

PromoteSender(t) ==
  /\ at[t] = "promote sender"
  /\ active' = [active EXCEPT !["sender"] =
                  [enable |-> staged["sender"].enable,
                   peer |-> staged["sender"].peer]]
  /\ at' = [at EXCEPT ![t] = "document"]
  /\ UNCHANGED <<sink, present, staged, document, preserved, pending, due,
                 events, job, disturbed, patches,
                 direct>>

RebuildDocument(t) ==
  /\ at[t] = "document"
  /\ document' = active["sender"].peer
  /\ at' = [at EXCEPT ![t] = "reset"]
  /\ UNCHANGED <<sink, present, staged, active, preserved, pending, due,
                 events, job, disturbed, patches,
                 direct>>

-----------------------------------------------------------------------------
(* apply_receiver_activation.                                              *)

(* Mutant: the SDP is fetched whether or not the receiver is enabled.      *)
SnapshotAlwaysResolves(t) ==
  /\ at[t] = "snapshot" /\ present
  /\ job' = [job EXCEPT ![t] = [kind |-> "receiver",
               enable |-> staged["receiver"].enable,
               peer |-> staged["receiver"].peer]]
  /\ at' = [at EXCEPT ![t] = "resolve"]
  /\ UNCHANGED <<sink, present, staged, active, document, preserved, pending,
                 due, events, disturbed, patches, direct>>

Snapshot(t) ==
  /\ at[t] = "snapshot"
  /\ IF ~present
     THEN at' = [at EXCEPT ![t] = "reset"] /\ UNCHANGED job
     ELSE LET st == staged["receiver"]
          IN  /\ job' = [job EXCEPT ![t] = [kind |-> "receiver",
                           enable |-> st.enable, peer |-> st.peer]]
              /\ at' = [at EXCEPT ![t] =
                   IF st.enable = "on" /\ st.peer # None THEN "resolve"
                                                         ELSE "promote"]
  /\ UNCHANGED <<sink, present, staged, active, document, preserved, pending,
                 due, events, disturbed, patches,
                 direct>>

(* fetch_remote_sender_sdp or get_source_sdp: no SDP, or one without audio,*)
(* ends the activation.                                                    *)
Resolve(t) ==
  /\ at[t] = "resolve"
  /\ \E next \in {"promote", "reset"} : at' = [at EXCEPT ![t] = next]
  /\ UNCHANGED <<sink, present, staged, active, document, preserved, pending,
                 due, events, job, disturbed,
                 patches, direct>>

(* What /active and the subscription will show; kept aside for             *)
(* register_sink_local.                                                    *)
Connects(j) == j.enable = "on" /\ j.peer # None
Promoted(j) == IF j.enable = "on" THEN j.peer ELSE None

Programming(t) == at[t] \in {"get sink", "add sink"}

Promote(t) ==
  /\ at[t] = "promote"
  /\ IF present
     THEN /\ active' = [active EXCEPT !["receiver"] =
                          [enable |-> job[t].enable, peer |-> Promoted(job[t])]]
          /\ preserved' = {Promoted(job[t])}
          /\ disturbed' = \E u \in Threads : Programming(u)
          /\ at' = [at EXCEPT ![t] = "get sink"]
     ELSE /\ at' = [at EXCEPT ![t] = "reset"]
          /\ UNCHANGED <<active, preserved, disturbed>>
  /\ UNCHANGED <<sink, present, staged, document, pending, due, events, job,
                 patches, direct>>

(* get_sink.  Disabling calls add_sink without SDP and URL, which it       *)
(* refuses before it touches anything: the sink goes on receiving what it  *)
(* received.  Nothing is done for no peer.                                 *)
GetSink(t) ==
  /\ at[t] = "get sink"
  /\ at' = [at EXCEPT ![t] =
              IF sink # None /\ Connects(job[t]) THEN "add sink" ELSE "reset"]
  /\ disturbed' = (disturbed \/ (sink = None /\ Connects(job[t])))
  /\ UNCHANGED <<sink, present, staged, active, document, preserved, pending,
                 due, events, job, patches,
                 direct>>

Removal == IF sink = None THEN <<>> ELSE <<"SinkRemoved">>

AddSink(t) ==
  /\ at[t] = "add sink"
  /\ sink' = job[t].peer
  /\ events' = events \o Removal \o <<"SinkAdded">>
  /\ at' = [at EXCEPT ![t] = "reset"]
  /\ UNCHANGED <<present, staged, active, document, preserved, pending, due,
                 job, disturbed, patches, direct>>

(* The result of add_sink is ignored: the driver refused the stream, which *)
(* costs the sink it was to replace, or parse_sdp did not take the SDP.    *)
AddSinkRefused(t) ==
  /\ at[t] = "add sink"
  /\ direct < MaxDirect /\ direct' = direct + 1
  /\ \/ sink' = None /\ events' = events \o Removal
     \/ UNCHANGED <<sink, events>>
  /\ disturbed' = TRUE
  /\ at' = [at EXCEPT ![t] = "reset"]
  /\ UNCHANGED <<present, staged, active, document, preserved, pending, due,
                 job, patches>>

(* Mutant: the staged activation is not cleared.                           *)
ResetNothing(t) ==
  /\ at[t] = "reset"
  /\ at' = [at EXCEPT ![t] = "idle"] /\ job' = [job EXCEPT ![t] = NoJob]
  /\ UNCHANGED <<sink, present, staged, active, document, preserved, pending,
                 due, events, disturbed, patches, direct>>

(* Back in the caller: staged_act is cleared.                              *)
Reset(t) ==
  /\ at[t] = "reset"
  /\ staged' = IF Here(job[t].kind)
               THEN [staged EXCEPT ![job[t].kind].mode = "null"] ELSE staged
  /\ at' = [at EXCEPT ![t] = "idle"] /\ job' = [job EXCEPT ![t] = NoJob]
  /\ UNCHANGED <<sink, present, active, document, preserved, pending, due,
                 events, disturbed, patches,
                 direct>>

-----------------------------------------------------------------------------
(* The registration worker, between two operations.                        *)
WorkerFree == at[Worker] = "idle" /\ due = <<>>

(* The numbers of S in increasing order.                                   *)
InOrder(S) ==
  {f \in [1..Cardinality(S) -> S] :
     Range(f) = S /\ \A m, n \in DOMAIN f : m < n => f[m] < f[n]}

(* Mutant: only the first of the entries that are due is kept.             *)
TakeDueFirst(S) ==
  /\ WorkerFree /\ events = <<>>
  /\ S # {}
  /\ \E d \in InOrder(S), r \in InOrder(DOMAIN pending \ S) :
       /\ due' = <<pending[d[1]]>>
       /\ pending' = [n \in DOMAIN r |-> pending[r[n]]]
  /\ UNCHANGED <<sink, present, staged, active, document, preserved, events,
                 at, job, disturbed, patches, direct>>

(* process_scheduled_activations: the entries that are due are taken out,  *)
(* the others stay, both in their order.                                   *)
TakeDue(S) ==
  /\ WorkerFree /\ events = <<>>
  /\ S # {}
  /\ \E d \in InOrder(S), r \in InOrder(DOMAIN pending \ S) :
       /\ due' = [n \in DOMAIN d |-> pending[d[n]]]
       /\ pending' = [n \in DOMAIN r |-> pending[r[n]]]
  /\ UNCHANGED <<sink, present, staged, active, document, preserved, events,
                 at, job, disturbed, patches,
                 direct>>

ActivateDue ==
  /\ at[Worker] = "idle" /\ due # <<>>
  /\ due' = Tail(due)
  /\ at' = [at EXCEPT ![Worker] = FirstStep(Head(due))]
  /\ job' = [job EXCEPT ![Worker].kind = Head(due)]
  /\ UNCHANGED <<sink, present, staged, active, document, preserved, pending,
                 events, disturbed, patches,
                 direct>>

(* unregister_sink.                                                        *)
HandleSinkRemoved ==
  /\ WorkerFree /\ events # <<>> /\ Head(events) = "SinkRemoved"
  /\ events' = Tail(events)
  /\ present' = FALSE
  /\ staged' = [staged EXCEPT !["receiver"] = Fresh]
  /\ active' = [active EXCEPT !["receiver"] = [enable |-> "off", peer |-> None]]
  /\ UNCHANGED <<sink, document, preserved, pending, due, at, job,
                 disturbed, patches, direct>>

(* A receiver counts as enabled when its sink has an SDP of its own, which *)
(* every sink has: add_sink keeps the one it was given or has fetched from *)
(* the URL.                                                                *)
Connected == "on"

(* A registration shows no sender and nobody is programming the sink.      *)
Settles == preserved = {} /\ \A t \in Threads : ~Programming(t)

(* register_sink_local: the receiver is rebuilt from the sink, the active  *)
(* sender from what was kept aside, once.                                  *)
RegisterSinkLocal ==
  IF sink = None
  THEN UNCHANGED <<present, staged, active, preserved, disturbed>>
  ELSE /\ present' = TRUE
       /\ staged' = [staged EXCEPT !["receiver"].enable = Connected]
       /\ active' = [active EXCEPT !["receiver"] =
                       [enable |-> Connected,
                        peer |-> IF preserved = {} THEN None
                                 ELSE CHOOSE p \in preserved : TRUE]]
       /\ preserved' = {}
       /\ disturbed' = (disturbed /\ ~Settles)

HandleSinkAdded ==
  /\ WorkerFree /\ events # <<>> /\ Head(events) = "SinkAdded"
  /\ events' = Tail(events)
  /\ RegisterSinkLocal
  /\ UNCHANGED <<sink, document, pending, due, at, job, patches, direct>>

(* full_registration, after a heartbeat's 404 or a new registry, registers *)
(* every source and sink locally again.                                    *)
FullRegistration ==
  /\ WorkerFree
  /\ direct < MaxDirect /\ direct' = direct + 1
  /\ document' = None
  /\ IF sink = None
     THEN /\ staged' = [staged EXCEPT !["sender"].enable = "on"]
          /\ active' = [active EXCEPT !["sender"].enable = "on"]
          /\ UNCHANGED <<present, preserved, disturbed>>
     ELSE /\ staged' = [k \in Kinds |-> [staged[k] EXCEPT !.enable =
                            IF k = "sender" THEN "on" ELSE Connected]]
          /\ active' = [k \in Kinds |->
                [enable |-> IF k = "sender" THEN "on" ELSE Connected,
                 peer |-> IF k = "sender" THEN active[k].peer
                          ELSE IF preserved = {} THEN None
                          ELSE CHOOSE p \in preserved : TRUE]]
          /\ present' = TRUE /\ preserved' = {}
          /\ disturbed' = (disturbed /\ ~Settles)
  /\ UNCHANGED <<sink, pending, due, events, at, job, patches>>

-----------------------------------------------------------------------------
(* Another client of the daemon changes the sink.                          *)

InTheWindow == preserved \cap Peers # {} \/ \E t \in Threads : Programming(t)

(* Mutant: an update of the sink has no observer call.                     *)
PutSinkUnobserved ==
  /\ direct < MaxDirect /\ direct' = direct + 1
  /\ sink' = Direct
  /\ disturbed' = (disturbed \/ InTheWindow)
  /\ UNCHANGED <<present, staged, active, document, preserved, pending, due,
                 events, at, job, patches>>

PutSink ==
  /\ direct < MaxDirect /\ direct' = direct + 1
  /\ sink' = Direct
  /\ events' = events \o Removal \o <<"SinkAdded">>
  /\ disturbed' = (disturbed \/ InTheWindow)
  /\ UNCHANGED <<present, staged, active, document, preserved, pending, due,
                 at, job, patches>>

RemoveSink ==
  /\ direct < MaxDirect /\ direct' = direct + 1
  /\ sink # None
  /\ sink' = None
  /\ events' = events \o Removal
  /\ disturbed' = (disturbed \/ InTheWindow)
  /\ UNCHANGED <<present, staged, active, document, preserved, pending, due,
                 at, job, patches>>

-----------------------------------------------------------------------------
Activation(t) ==
  \/ PromoteSender(t) \/ RebuildDocument(t)
  \/ Snapshot(t) \/ Resolve(t) \/ Promote(t) \/ GetSink(t)
  \/ AddSink(t) \/ AddSinkRefused(t) \/ Reset(t)

WorkerStep ==
  \/ Activation(Worker) \/ ActivateDue
  \/ HandleSinkRemoved \/ HandleSinkAdded

Next ==
  \/ \E t \in Clients, k \in Kinds, b \in Bodies : Patch(t, k, b)
  \/ \E t \in Clients : Activation(t)
  \/ WorkerStep
  \/ \E S \in SUBSET DOMAIN pending : TakeDue(S)
  \/ FullRegistration \/ PutSink \/ RemoveSink

Spec == Init /\ [][Next]_vars

(* Every thread runs, and time passes: an entry that stays pending is due  *)
(* in the end.                                                             *)
FairSpec ==
  /\ Spec
  /\ \A t \in Clients : WF_vars(Activation(t))
  /\ WF_vars(WorkerStep)
  /\ WF_vars(TakeDue(DOMAIN pending))
-----------------------------------------------------------------------------
(* Properties.                                                             *)

Steps == {"idle", "promote sender", "document", "snapshot", "resolve",
          "promote", "get sink", "add sink", "reset"}

(* Types; a sender's activation and a receiver's go through their own      *)
(* steps, and a sink is programmed only for a peer.                        *)
TypeOK ==
  /\ sink \in Streams /\ present \in BOOLEAN
  /\ staged \in [Kinds -> [enable : {"on", "off"}, peer : PeerOrNone, mode : Modes]]
  /\ active \in [Kinds -> [enable : {"on", "off"}, peer : PeerOrNone]]
  /\ document \in PeerOrNone
  /\ preserved \in SUBSET PeerOrNone /\ Cardinality(preserved) <= 1
  /\ pending \in Seq(Kinds) /\ due \in Seq(Kinds)
  /\ events \in Seq({"SinkAdded", "SinkRemoved"})
  /\ at \in [Threads -> Steps]
  /\ job \in [Threads -> [kind : Kinds, enable : {"on", "off"}, peer : PeerOrNone]]
  /\ \A t \in Threads :
       /\ at[t] \in {"promote sender", "document"} => job[t].kind = "sender"
       /\ at[t] \in {"snapshot", "resolve", "promote", "get sink", "add sink"} =>
            job[t].kind = "receiver"
       /\ at[t] \in {"resolve", "add sink"} => Connects(job[t])
  /\ disturbed \in BOOLEAN
  /\ patches \in 0..MaxPatches /\ direct \in 0..MaxDirect

(* No activation is in hand and the worker has caught up with the sink.    *)
Quiet ==
  /\ \A t \in Threads : at[t] = "idle"
  /\ due = <<>> /\ events = <<>>

(* What /active and the IS-04 subscriptions say of senders is true,        *)
(* however activations (apply_sender_activation,                           *)
(* apply_receiver_activation), other changes of the sink and registrations *)
(* overlap: a receiver that names a sender receives that sender, unless    *)
(* since its last promotion add_sink failed or someone else came between;  *)
(* a sender's document names no other receiver than /active does.  That a  *)
(* receiver which names no sender receives nothing is not claimed.         *)
SubscriptionTruthful ==
  Quiet =>
    /\ disturbed \/ active["receiver"].peer \in {None, sink}
    /\ document \in {None, active["sender"].peer}

(* A staged activation mode always belongs to a request that will still    *)
(* clear it (patch_*_staged or process_scheduled_activations): none is     *)
(* left behind to make a later PATCH activate by surprise.                 *)
ModeOwned ==
  \A k \in Kinds : Here(k) /\ staged[k].mode # "null" =>
    \/ \E t \in Threads : at[t] # "idle" /\ job[t].kind = k
    \/ k \in Range(pending) \cup Range(due)

(* A scheduled activation is carried out by the worker in the end          *)
(* (process_scheduled_activations).                                        *)
ScheduledApplied ==
  \A k \in Kinds : k \in Range(pending) ~>
    (at[Worker] = FirstStep(k) /\ job[Worker].kind = k)

=============================================================================
