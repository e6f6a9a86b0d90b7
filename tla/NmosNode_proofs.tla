-------------------------- MODULE NmosNode_proofs --------------------------
(* The NMOS node, for any number of clients, peers, sessions, monitors and *)
(* changes: IS-05 connections first (NmosConnection, which this module     *)
(* extends), then IS-12 device control (Ctl, an instance of Is12Control)   *)
(* and IS-08 channel mapping (Map, an instance of ChannelMapping).  Each is *)
(* reasoned about by itself: a name that two of them declare stands for    *)
(* either one's own.                                                       *)
EXTENDS NmosConnection, FiniteSetTheorems, FunctionTheorems, SequenceTheorems, TLAPS

-----------------------------------------------------------------------------
(* IS-05: connections (NmosConnection).                                    *)

(* The types of the threads and of what they share.                        *)
Jobs == [kind : Kinds, enable : {"on", "off"}, peer : PeerOrNone]

JobFits(p, j) ==
  /\ p \in {"promote sender", "document"} => j.kind = "sender"
  /\ p \in {"snapshot", "resolve", "promote", "get sink", "add sink"} => j.kind = "receiver"
  /\ p \in {"resolve", "add sink"} => Connects(j)

ThreadsOK ==
  /\ at \in [Threads -> Steps] /\ job \in [Threads -> Jobs]
  /\ \A t \in Threads : JobFits(at[t], job[t])

StagedOK == staged \in [Kinds -> [enable : {"on", "off"}, peer : PeerOrNone,
                                       mode : Modes]]
ActiveOK == active \in [Kinds -> [enable : {"on", "off"}, peer : PeerOrNone]]
KeptOK == preserved \in SUBSET PeerOrNone /\ Cardinality(preserved) <= 1
QueuesOK == pending \in Seq(Kinds) /\ due \in Seq(Kinds)
SinkOK == sink \in Streams /\ events \in Seq({"SinkAdded", "SinkRemoved"})
RestOK ==
  /\ present \in BOOLEAN /\ document \in PeerOrNone /\ disturbed \in BOOLEAN
  /\ patches \in 0..MaxPatches /\ direct \in 0..MaxDirect

ConnTypes ==
  ThreadsOK /\ StagedOK /\ ActiveOK /\ KeptOK /\ QueuesOK /\ SinkOK /\ RestOK

(* A staged mode has an owner, also while the receiver is away.            *)
Owned(k) ==
  \/ \E t \in Threads : at[t] # "idle" /\ job[t].kind = k
  \/ k \in Range(pending) \cup Range(due)

ModesOwned ==
  /\ \A k \in Kinds : staged[k].mode # "null" => Owned(k)
  /\ ~present => staged["receiver"].mode = "null"

(* A sender's document is up to date or about to be rebuilt.               *)
DocumentFollows ==
  document \in {None, active["sender"].peer} \/ \E t \in Threads : at[t] = "document"

(* The last event for the worker says whether there is a sink.             *)
LastEvent ==
  events # <<>> => events[Len(events)] = IF sink = None THEN "SinkRemoved" ELSE "SinkAdded"

(* As long as nothing came between the last promotion and the              *)
(* registration of its sink: one activation at a time programs the sink,   *)
(* what is kept aside for it is its sender, and /active is right, or will  *)
(* be when the activation is over or the worker has seen the events.       *)
Alone == \A t, u \in Threads : Programming(t) /\ Programming(u) => t = u

Busy == \E t \in Threads : Programming(t)

Kept ==
  /\ \A t \in Threads : Programming(t) => preserved \subseteq {Promoted(job[t])}
  /\ ~Busy => preserved \subseteq {None, sink}

Shown ==
  \/ active["receiver"].peer = None
  \/ events # <<>>
  \/ /\ \A t \in Threads :
          Programming(t) => active["receiver"].peer = Promoted(job[t])
     /\ ~Busy => active["receiver"].peer = sink

Window == disturbed \/ (Alone /\ Kept /\ Shown)

ConnInv == ConnTypes /\ ModesOwned /\ DocumentFollows /\ LastEvent /\ Window

(* The parts are those of TypeOK.                                          *)
LEMMA TypesAgree == ConnTypes => TypeOK
  <1> SUFFICES ASSUME ConnTypes PROVE TypeOK
    OBVIOUS
  <1>1. /\ at \in [Threads -> Steps]
        /\ job \in [Threads -> [kind : Kinds, enable : {"on", "off"},
                                     peer : PeerOrNone]]
    BY DEF ConnTypes, ThreadsOK, Jobs
  <1>2. \A t \in Threads :
          /\ at[t] \in {"promote sender", "document"} => job[t].kind = "sender"
          /\ at[t] \in {"snapshot", "resolve", "promote", "get sink", "add sink"} =>
               job[t].kind = "receiver"
          /\ at[t] \in {"resolve", "add sink"} => Connects(job[t])
    BY DEF ConnTypes, ThreadsOK, JobFits
  <1>3. /\ sink \in Streams /\ present \in BOOLEAN
        /\ staged \in [Kinds -> [enable : {"on", "off"}, peer : PeerOrNone,
                                      mode : Modes]]
        /\ active \in [Kinds -> [enable : {"on", "off"}, peer : PeerOrNone]]
        /\ document \in PeerOrNone
        /\ preserved \in SUBSET PeerOrNone /\ Cardinality(preserved) <= 1
        /\ pending \in Seq(Kinds) /\ due \in Seq(Kinds)
        /\ events \in Seq({"SinkAdded", "SinkRemoved"})
        /\ disturbed \in BOOLEAN
        /\ patches \in 0..MaxPatches /\ direct \in 0..MaxDirect
    BY DEF ConnTypes, StagedOK, ActiveOK, KeptOK, QueuesOK, SinkOK, RestOK
  <1> QED
    BY <1>1, <1>2, <1>3 DEF TypeOK

(* Finite sets of at most one element.                                     *)
LEMMA AtMostOne ==
  /\ Cardinality({}) <= 1
  /\ \A x : Cardinality({x}) <= 1
  BY FS_EmptySet, FS_Singleton

(* Everything is idle initially, and the sink is not IS-05's.              *)
LEMMA ConnInit ==
  ASSUME Init
  PROVE  ConnInv
  <1>1. StagedOK /\ ActiveOK /\ KeptOK /\ QueuesOK /\ SinkOK /\ RestOK
    <2>1. StagedOK /\ ActiveOK
      BY DEF Init, StagedOK, ActiveOK, Kinds, Modes, PeerOrNone, Fresh
    <2>2. KeptOK
      BY AtMostOne DEF Init, KeptOK
    <2>3. QueuesOK /\ SinkOK
      BY DEF Init, QueuesOK, SinkOK, Streams
    <2>4. RestOK
      <3>1. MaxPatches \in Nat /\ MaxDirect \in Nat
        BY ConnectionConstants
      <3>2. 0 \in 0..MaxPatches /\ 0 \in 0..MaxDirect
        BY <3>1
      <3> QED
        BY <3>2 DEF Init, RestOK, PeerOrNone
    <2> QED
      BY <2>1, <2>2, <2>3, <2>4
  <1>2. ThreadsOK
    BY DEF Init, ThreadsOK, Jobs, JobFits, Steps, NoJob, Kinds, PeerOrNone
  <1>3. ~Busy /\ \A t \in Threads : ~Programming(t)
    BY DEF Init, Busy, Programming
  <1>4. ModesOwned /\ DocumentFollows /\ LastEvent
    BY DEF Init, Fresh, Kinds, ModesOwned, DocumentFollows, LastEvent
  <1>5. Window
    BY <1>3 DEF Init, Kinds, Window, Alone, Kept, Shown
  <1> QED
    BY <1>1, <1>2, <1>4, <1>5 DEF ConnInv, ConnTypes

-----------------------------------------------------------------------------
(* What a thread's move leaves as it was.                                  *)

(* Thread t goes to p with the snapshot j.                                 *)
Moved(t, p, j) == at' = [at EXCEPT ![t] = p] /\ job' = [job EXCEPT ![t] = j]

(* Keeping the snapshot is a move.                                         *)
LEMMA MoveKeeps ==
  ASSUME ThreadsOK, NEW t \in Threads, NEW p, at' = [at EXCEPT ![t] = p], job' = job
  PROVE  Moved(t, p, job[t])
  BY DEF ThreadsOK, Moved

(* The moved thread and the others.                                        *)
LEMMA MovedValues ==
  ASSUME ThreadsOK, NEW t \in Threads, NEW p, NEW j, Moved(t, p, j)
  PROVE  /\ at'[t] = p /\ job'[t] = j
         /\ \A u \in Threads : u # t => at'[u] = at[u] /\ job'[u] = job[u]
  BY DEF ThreadsOK, Moved

(* Types of the threads after a move.                                      *)
LEMMA MovedTypes ==
  ASSUME ThreadsOK, NEW t \in Threads, NEW p \in Steps, NEW j \in Jobs,
         JobFits(p, j), Moved(t, p, j)
  PROVE  ThreadsOK'
  <1>1. at' \in [Threads -> Steps] /\ job' \in [Threads -> Jobs]
    BY DEF ThreadsOK, Moved
  <1>2. \A u \in Threads : JobFits(at'[u], job'[u])
    BY MovedValues DEF ThreadsOK
  <1>3. \A u \in Threads : JobFits(at[u], job[u])'
    BY <1>2 DEF JobFits, Connects
  <1> QED
    BY <1>1, <1>3 DEF ThreadsOK, Threads, Steps, Jobs, Kinds, PeerOrNone

(* A move keeps the owners, unless the owner becomes idle.                 *)
LEMMA MovedOwners ==
  ASSUME ThreadsOK, NEW t \in Threads, NEW p, NEW j, Moved(t, p, j),
         UNCHANGED <<pending, due>>, NEW k, Owned(k),
         at[t] # "idle" /\ job[t].kind = k => p # "idle" /\ j.kind = k
  PROVE  Owned(k)'
  <1>1. CASE k \in Range(pending) \cup Range(due)
    BY <1>1 DEF Owned
  <1>2. CASE \E u \in Threads : at[u] # "idle" /\ job[u].kind = k
    <2>1. PICK u \in Threads : at[u] # "idle" /\ job[u].kind = k
      BY <1>2
    <2>2. at'[u] # "idle" /\ job'[u].kind = k
      BY <2>1, MovedValues
    <2> QED
      BY <2>2 DEF Owned, Threads
  <1> QED
    BY <1>1, <1>2 DEF Owned

(* A move of a thread that is not rebuilding a document.                   *)
LEMMA MovedDocument ==
  ASSUME ThreadsOK, NEW t \in Threads, NEW p, NEW j, Moved(t, p, j), at[t] # "document",
         document' = document, active'["sender"].peer = active["sender"].peer, DocumentFollows
  PROVE  DocumentFollows'
  <1>1. \A u \in Threads : at[u] = "document" => at'[u] = "document"
    BY MovedValues
  <1> QED
    BY <1>1 DEF DocumentFollows, Threads

(* Who is programming the sink, seen after a step.                         *)
LEMMA SameWindow ==
  ASSUME Window, UNCHANGED <<sink, preserved, events, disturbed>>,
         active'["receiver"] = active["receiver"],
         \A t \in Threads : Programming(t)' <=> Programming(t),
         \A t \in Threads : Programming(t) => job'[t] = job[t]
  PROVE  Window'
  BY DEF Window, Alone, Busy, Kept, Shown, Promoted, Threads

(* A move of a thread that neither was nor is programming the sink.        *)
LEMMA MovedWindow ==
  ASSUME ThreadsOK, Window, NEW t \in Threads, NEW p, NEW j, Moved(t, p, j),
         UNCHANGED <<sink, preserved, events, disturbed>>,
         active'["receiver"] = active["receiver"],
         ~Programming(t), p \notin {"get sink", "add sink"}
  PROVE  Window'
  <1>1. \A u \in Threads : Programming(u)' <=> Programming(u)
    BY MovedValues DEF Programming
  <1>2. \A u \in Threads : Programming(u) => job'[u] = job[u]
    BY MovedValues
  <1> QED
    BY <1>1, <1>2, SameWindow

(* What is not assigned keeps its type.                                    *)
LEMMA PartsSame ==
  /\ UNCHANGED <<at, job>> /\ ThreadsOK => ThreadsOK'
  /\ staged' = staged /\ StagedOK => StagedOK'
  /\ active' = active /\ ActiveOK => ActiveOK'
  /\ preserved' = preserved /\ KeptOK => KeptOK'
  /\ UNCHANGED <<pending, due>> /\ QueuesOK => QueuesOK'
  /\ UNCHANGED <<sink, events>> /\ SinkOK => SinkOK'
  /\ UNCHANGED <<present, document, disturbed, patches, direct>> /\ RestOK => RestOK'
  <1>1. UNCHANGED <<at, job>> /\ ThreadsOK => ThreadsOK'
    BY DEF ThreadsOK, JobFits, Jobs, Threads, Steps, Kinds, PeerOrNone,
           Connects
  <1>2. /\ staged' = staged /\ StagedOK => StagedOK'
        /\ active' = active /\ ActiveOK => ActiveOK'
        /\ preserved' = preserved /\ KeptOK => KeptOK'
        /\ UNCHANGED <<pending, due>> /\ QueuesOK => QueuesOK'
        /\ UNCHANGED <<sink, events>> /\ SinkOK => SinkOK'
    BY DEF StagedOK, ActiveOK, KeptOK, QueuesOK, SinkOK, Kinds, Modes,
           PeerOrNone, Streams
  <1>3. UNCHANGED <<present, document, disturbed, patches, direct>> /\ RestOK => RestOK'
    BY DEF RestOK, PeerOrNone
  <1> QED
    BY <1>1, <1>2, <1>3

(* A move keeps the owners of both kinds, unless the thread becomes idle.  *)
LEMMA MovedModes ==
  ASSUME ConnTypes, ModesOwned, NEW t \in Threads, NEW p, NEW j, Moved(t, p, j),
         UNCHANGED <<pending, due, staged, present>>,
         p # "idle", at[t] # "idle" => j.kind = job[t].kind
  PROVE  ModesOwned'
  <1>1. ASSUME NEW k \in Kinds, staged[k].mode # "null"
        PROVE  Owned(k)'
    BY <1>1, MovedOwners DEF ModesOwned, ConnTypes
  <1> QED
    BY <1>1 DEF ModesOwned, Kinds

-----------------------------------------------------------------------------
(* One lemma per action.                                                   *)

(* The sender's promotion and the rebuilding of its document.              *)
LEMMA SenderStep ==
  ASSUME ConnInv, NEW t \in Threads, PromoteSender(t) \/ RebuildDocument(t)
  PROVE  ConnInv'
  <1> DEFINE p == IF at[t] = "promote sender" THEN "document" ELSE "reset"
  <1>0. /\ ThreadsOK /\ StagedOK /\ ActiveOK /\ ConnTypes
        /\ at[t] \in {"promote sender", "document"} /\ job[t] \in Jobs
        /\ UNCHANGED <<sink, present, staged, preserved, pending, due, events, job,
                       disturbed, patches, direct>>
    BY DEF ConnInv, ConnTypes, ThreadsOK, PromoteSender, RebuildDocument
  <1>1. Moved(t, p, job[t])
    <2>1. at' = [at EXCEPT ![t] = p] /\ job' = job
      BY DEF PromoteSender, RebuildDocument
    <2> QED
      BY <1>0, <2>1, MoveKeeps
  <1>2. ThreadsOK'
    <2>1. p \in Steps /\ JobFits(p, job[t])
      BY <1>0 DEF Steps, JobFits, ThreadsOK
    <2> HIDE DEF p
    <2> QED
      BY <1>0, <1>1, <2>1, MovedTypes
  <1>3. ActiveOK' /\ document' \in PeerOrNone /\ active'["receiver"] = active["receiver"]
    <2>1. CASE PromoteSender(t)
      <3>1. /\ active' = [active EXCEPT !["sender"] = [enable |-> staged["sender"].enable,
                                                      peer |-> staged["sender"].peer]]
            /\ document' = document
        BY <2>1 DEF PromoteSender
      <3>2. /\ staged["sender"].enable \in {"on", "off"}
            /\ staged["sender"].peer \in PeerOrNone
        BY <1>0 DEF StagedOK, Kinds
      <3> QED
        BY <1>0, <3>1, <3>2 DEF ActiveOK, Kinds, PeerOrNone, ConnTypes, RestOK
    <2>2. CASE RebuildDocument(t)
      <3>1. active' = active /\ document' = active["sender"].peer
        BY <2>2 DEF RebuildDocument
      <3> QED
        BY <1>0, <3>1 DEF ActiveOK, Kinds, PeerOrNone
    <2> QED
      BY <2>1, <2>2
  <1>4. ConnTypes'
    <2>1. RestOK'
      BY <1>0, <1>3 DEF ConnTypes, RestOK, PeerOrNone
    <2> QED
      BY <1>0, <1>2, <1>3, <2>1, PartsSame DEF ConnTypes
  <1>5. ModesOwned'
    BY <1>0, <1>1, MovedModes DEF ConnInv
  <1>6. DocumentFollows'
    <2>1. CASE PromoteSender(t)
      <3>1. at'[t] = "document"
        BY <1>0, <2>1 DEF ThreadsOK, PromoteSender
      <3> QED
        BY <3>1 DEF DocumentFollows, Threads
    <2>2. CASE RebuildDocument(t)
      BY <2>2 DEF RebuildDocument, DocumentFollows
    <2> QED
      BY <2>1, <2>2
  <1>7. LastEvent'
    BY <1>0 DEF ConnInv, LastEvent
  <1>8. Window'
    <2>1. Window /\ ~Programming(t)
      BY <1>0 DEF ConnInv, Programming
    <2>2. p \notin {"get sink", "add sink"}
      OBVIOUS
    <2> HIDE DEF p
    <2> QED
      BY <1>0, <1>1, <1>3, <2>1, <2>2, MovedWindow
  <1> QED
    BY <1>4, <1>5, <1>6, <1>7, <1>8 DEF ConnInv

(* A step of one thread that changes nothing of what is shared.            *)
LEMMA MoveOnly ==
  ASSUME ConnInv, NEW t \in Threads, NEW p \in Steps, NEW j \in Jobs,
         Moved(t, p, j), JobFits(p, j), at[t] \notin {"idle", "document"}, p # "idle",
         j.kind = job[t].kind, ~Programming(t), p \notin {"get sink", "add sink"},
         UNCHANGED <<sink, present, staged, active, document, preserved, pending, due,
                     events, disturbed, patches, direct>>
  PROVE  ConnInv'
  <1>0. ConnTypes /\ ThreadsOK /\ ModesOwned /\ DocumentFollows /\ LastEvent /\ Window
    BY DEF ConnInv, ConnTypes
  <1>1. ThreadsOK'
    BY <1>0, MovedTypes
  <1>2. ConnTypes'
    BY <1>0, <1>1, PartsSame DEF ConnTypes
  <1>3. ModesOwned'
    BY <1>0, MovedModes
  <1>4. DocumentFollows'
    BY <1>0, MovedDocument
  <1>5. LastEvent'
    BY <1>0 DEF LastEvent
  <1>6. Window'
    BY <1>0, MovedWindow
  <1> QED
    BY <1>2, <1>3, <1>4, <1>5, <1>6 DEF ConnInv

(* The snapshot of what is staged, and the SDP of the sender.              *)
LEMMA SnapshotStep ==
  ASSUME ConnInv, NEW t \in Threads, Snapshot(t) \/ Resolve(t)
  PROVE  ConnInv'
  <1>0. /\ ThreadsOK /\ StagedOK /\ job[t] \in Jobs /\ JobFits(at[t], job[t])
        /\ UNCHANGED <<sink, present, staged, active, document, preserved, pending, due,
                       events, disturbed, patches, direct>>
    BY DEF ConnInv, ConnTypes, ThreadsOK, Snapshot, Resolve
  <1>1. CASE Resolve(t)
    <2>1. PICK p \in {"promote", "reset"} : at' = [at EXCEPT ![t] = p]
      BY <1>1 DEF Resolve
    <2>2. at[t] = "resolve" /\ job' = job
      BY <1>1 DEF Resolve
    <2>3. Moved(t, p, job[t]) /\ p \in Steps /\ JobFits(p, job[t])
      BY <1>0, <2>1, <2>2, MoveKeeps DEF Steps, JobFits
    <2> QED
      BY <1>0, <2>1, <2>2, <2>3, MoveOnly DEF Programming
  <1>2. CASE Snapshot(t) /\ ~present
    <2>1. at[t] = "snapshot" /\ job' = job /\ at' = [at EXCEPT ![t] = "reset"]
      BY <1>2 DEF Snapshot
    <2>2. Moved(t, "reset", job[t]) /\ "reset" \in Steps /\ JobFits("reset", job[t])
      BY <1>0, <2>1, MoveKeeps DEF Steps, JobFits
    <2> QED
      BY <1>0, <2>1, <2>2, MoveOnly DEF Programming
  <1>3. CASE Snapshot(t) /\ present
    <2> DEFINE st == staged["receiver"]
               j == [kind |-> "receiver", enable |-> st.enable, peer |-> st.peer]
               p == IF st.enable = "on" /\ st.peer # None THEN "resolve" ELSE "promote"
    <2>1. at[t] = "snapshot" /\ Moved(t, p, j)
      BY <1>3 DEF Snapshot, Moved
    <2>2. j \in Jobs /\ j.kind = job[t].kind
      BY <1>0, <2>1 DEF StagedOK, Jobs, JobFits, Kinds
    <2>3. p \in {"resolve", "promote"} /\ p \in Steps /\ JobFits(p, j)
      BY DEF Steps, JobFits, Connects
    <2> HIDE DEF p, j
    <2> QED
      BY <1>0, <2>1, <2>2, <2>3, MoveOnly DEF Programming
  <1> QED
    BY <1>1, <1>2, <1>3

(* The activation is over: what was staged for it is cleared.              *)
LEMMA ResetStep ==
  ASSUME ConnInv, NEW t \in Threads, Reset(t)
  PROVE  ConnInv'
  <1>0. /\ ConnTypes /\ ThreadsOK /\ StagedOK /\ job[t] \in Jobs
        /\ job[t].kind \in Kinds /\ at[t] = "reset"
        /\ ModesOwned /\ DocumentFollows /\ LastEvent /\ Window
        /\ UNCHANGED <<sink, present, active, document, preserved, pending, due, events,
                       disturbed, patches, direct>>
    BY DEF ConnInv, ConnTypes, ThreadsOK, Jobs, Reset
  <1>1. Moved(t, "idle", NoJob)
    BY DEF Reset, Moved
  <1>2. staged' = IF Here(job[t].kind) THEN [staged EXCEPT ![job[t].kind].mode = "null"]
                                            ELSE staged
    BY DEF Reset
  <1>3. ThreadsOK'
    <2>1. "idle" \in Steps /\ NoJob \in Jobs /\ JobFits("idle", NoJob)
      BY DEF Steps, NoJob, Jobs, JobFits, Kinds, PeerOrNone
    <2> QED
      BY <1>0, <1>1, <2>1, MovedTypes
  <1>4. /\ StagedOK' /\ \A k \in Kinds : staged'[k].mode \in {"null", staged[k].mode}
        /\ Here(job[t].kind) => staged'[job[t].kind].mode = "null"
    BY <1>0, <1>2 DEF StagedOK, Kinds, Modes, PeerOrNone
  <1>5. ConnTypes'
    BY <1>0, <1>3, <1>4, PartsSame DEF ConnTypes
  <1>6. ModesOwned'
    <2>1. ASSUME NEW k \in Kinds, staged'[k].mode # "null"
          PROVE  Owned(k)'
      <3>1. staged[k].mode # "null"
        BY <1>4, <2>1
      <3>2. job[t].kind # k
        <4>1. CASE Here(k)
          BY <1>4, <2>1, <4>1
        <4>2. CASE ~Here(k)
          BY <1>0, <2>1, <3>1, <4>2 DEF ModesOwned, Here, Kinds
        <4> QED
          BY <4>1, <4>2
      <3> QED
        BY <1>0, <1>1, <3>1, <3>2, MovedOwners DEF ModesOwned
    <2>2. ~present' => staged'["receiver"].mode = "null"
      BY <1>0, <1>4 DEF ModesOwned, Kinds
    <2> QED
      BY <2>1, <2>2 DEF ModesOwned, Kinds
  <1>7. DocumentFollows'
    BY <1>0, <1>1, MovedDocument
  <1>8. LastEvent'
    BY <1>0 DEF LastEvent
  <1>9. Window'
    BY <1>0, <1>1, MovedWindow DEF Programming
  <1> QED
    BY <1>5, <1>6, <1>7, <1>8, <1>9 DEF ConnInv

(* What a PATCH stages is well-formed.                                     *)
LEMMA MergeTypes ==
  ASSUME StagedOK, NEW k \in Kinds, NEW b \in Bodies
  PROVE  Merge(staged[k], b) \in [enable : {"on", "off"}, peer : PeerOrNone,
                                       mode : Modes]
  <1> DEFINE st == staged[k]
  <1>1. st.enable \in {"on", "off"} /\ st.peer \in PeerOrNone /\ st.mode \in Modes
    BY DEF StagedOK
  <1>2. /\ b.enable \in {Same, "on", "off"}
        /\ b.peer \in PeerOrNone \cup {Same}
        /\ b.mode \in Modes \cup {Same}
    BY DEF Bodies
  <1> QED
    BY <1>1, <1>2 DEF Merge

(* A PATCH: the mode it stages is owned by the thread that took it or by   *)
(* the pending entry.                                                      *)
LEMMA PatchStep ==
  ASSUME ConnInv, NEW t \in Clients, NEW k \in Kinds,
         NEW b \in Bodies, Patch(t, k, b)
  PROVE  ConnInv'
  <1> DEFINE st == Merge(staged[k], b)
  <1>0. /\ ConnTypes /\ ThreadsOK /\ StagedOK /\ QueuesOK /\ t \in Threads
        /\ job[t] \in Jobs /\ at[t] = "idle"
        /\ ModesOwned /\ DocumentFollows /\ LastEvent /\ Window
        /\ UNCHANGED <<sink, present, active, document, preserved, due, events,
                       disturbed, direct>>
    BY DEF ConnInv, ConnTypes, ThreadsOK, Patch, Threads
  <1>1. /\ Here(k) /\ staged' = [staged EXCEPT ![k] = st]
        /\ pending' = IF st.mode = "scheduled" THEN Append(pending, k) ELSE pending
        /\ patches < MaxPatches /\ patches' = patches + 1
        /\ st.mode = "immediate" => /\ at' = [at EXCEPT ![t] = FirstStep(k)]
                                    /\ job' = [job EXCEPT ![t].kind = k]
        /\ st.mode # "immediate" => UNCHANGED <<at, job>>
    BY DEF Patch
  <1>2. st \in [enable : {"on", "off"}, peer : PeerOrNone, mode : Modes]
    BY <1>0, MergeTypes
  <1> HIDE DEF st
  <1>3. st.mode \in {"null", "immediate", "scheduled"}
    BY <1>2 DEF Modes
  <1>4. /\ StagedOK' /\ staged'[k] = st
        /\ \A l \in Kinds : l # k => staged'[l] = staged[l]
    BY <1>0, <1>1, <1>2 DEF StagedOK, Kinds, Modes, PeerOrNone
  <1>5. QueuesOK' /\ Range(pending) \subseteq Range(pending')
        /\ (st.mode = "scheduled" => k \in Range(pending'))
    <2>1. CASE st.mode = "scheduled"
      <3>1. /\ pending' = Append(pending, k) /\ pending \in Seq(Kinds)
            /\ pending' \in Seq(Kinds) /\ DOMAIN pending = 1..Len(pending)
            /\ DOMAIN pending' = 1..(Len(pending) + 1) /\ Len(pending) \in Nat
            /\ pending'[Len(pending) + 1] = k
            /\ \A i \in 1..Len(pending) : pending'[i] = pending[i]
        BY <1>0, <1>1, <2>1 DEF QueuesOK
      <3>2. QueuesOK'
        BY <1>0, <3>1 DEF QueuesOK, Kinds
      <3>3. Len(pending) + 1 \in DOMAIN pending' /\ DOMAIN pending \subseteq DOMAIN pending'
        BY <3>1
      <3> QED
        BY <3>1, <3>2, <3>3 DEF Range
    <2>2. CASE st.mode # "scheduled"
      BY <1>0, <1>1, <2>2, PartsSame
    <2> QED
      BY <2>1, <2>2
  <1>6. RestOK'
    <2>1. patches' \in 0..MaxPatches
      <3>1. patches \in 0..MaxPatches /\ MaxPatches \in Nat
        BY <1>0, ConnectionConstants DEF ConnTypes, RestOK
      <3> QED
        BY <1>1, <3>1
    <2> QED
      BY <1>0, <2>1 DEF ConnTypes, RestOK, PeerOrNone
  <1>7. CASE st.mode = "immediate"
    <2> DEFINE j == [job[t] EXCEPT !.kind = k]
               p == FirstStep(k)
    <2>1. Moved(t, p, j)
      BY <1>0, <1>1, <1>7 DEF Moved, ThreadsOK
    <2>2. /\ j \in Jobs /\ j.kind = k /\ p \in {"promote sender", "snapshot"}
          /\ p \in Steps /\ JobFits(p, j)
      BY <1>0 DEF Jobs, FirstStep, Steps, JobFits, Kinds
    <2> HIDE DEF j, p
    <2>3. ThreadsOK'
      BY <1>0, <2>1, <2>2, MovedTypes
    <2>4. ConnTypes'
      BY <1>0, <1>4, <1>5, <1>6, <2>3, PartsSame DEF ConnTypes
    <2>5. ModesOwned'
      <3>1. ASSUME NEW l \in Kinds, staged'[l].mode # "null"
            PROVE  Owned(l)'
        <4>1. CASE l = k
          BY <1>0, <2>1, <2>2, <4>1, MovedValues DEF Owned, Threads
        <4>2. CASE l # k
          <5>1. Owned(l) /\ UNCHANGED <<pending, due>>
            BY <1>0, <1>1, <1>4, <1>7, <3>1, <4>2 DEF ModesOwned
          <5> QED
            BY <1>0, <2>1, <2>2, <5>1, MovedOwners
        <4> QED
          BY <4>1, <4>2
      <3>2. ~present' => staged'["receiver"].mode = "null"
        BY <1>0, <1>1, <1>4 DEF ModesOwned, Here, Kinds
      <3> QED
        BY <3>1, <3>2 DEF ModesOwned, Kinds
    <2>6. DocumentFollows'
      BY <1>0, <2>1, MovedDocument
    <2>7. LastEvent'
      BY <1>0 DEF LastEvent
    <2>8. Window'
      BY <1>0, <2>1, <2>2, MovedWindow DEF Programming
    <2> QED
      BY <2>4, <2>5, <2>6, <2>7, <2>8 DEF ConnInv
  <1>8. CASE st.mode # "immediate"
    <2>1. UNCHANGED <<at, job>>
      BY <1>1, <1>8
    <2>2. ConnTypes'
      BY <1>0, <1>4, <1>5, <1>6, <2>1, PartsSame DEF ConnTypes
    <2>3. \A l : Owned(l) => Owned(l)'
      BY <1>0, <1>5, <2>1 DEF Owned, Threads
    <2>4. ModesOwned'
      <3>1. ASSUME NEW l \in Kinds, staged'[l].mode # "null"
            PROVE  Owned(l)'
        <4>1. CASE l = k
          BY <1>3, <1>4, <1>5, <1>8, <3>1, <4>1 DEF Owned
        <4>2. CASE l # k
          BY <1>0, <1>4, <2>3, <3>1, <4>2 DEF ModesOwned
        <4> QED
          BY <4>1, <4>2
      <3>2. ~present' => staged'["receiver"].mode = "null"
        BY <1>0, <1>1, <1>4 DEF ModesOwned, Here, Kinds
      <3> QED
        BY <3>1, <3>2 DEF ModesOwned, Kinds
    <2>5. DocumentFollows' /\ LastEvent'
      BY <1>0, <2>1 DEF DocumentFollows, LastEvent, Threads
    <2>6. Window'
      BY <1>0, <2>1, SameWindow DEF Programming
    <2> QED
      BY <2>2, <2>4, <2>5, <2>6 DEF ConnInv
  <1> QED
    BY <1>7, <1>8

(* The promotion: of one that nobody else is programming the sink for, or  *)
(* the window is disturbed.                                                *)
LEMMA PromoteStep ==
  ASSUME ConnInv, NEW t \in Threads, Promote(t)
  PROVE  ConnInv'
  <1>0. /\ ConnTypes /\ ThreadsOK /\ job[t] \in Jobs /\ JobFits(at[t], job[t])
        /\ at[t] = "promote" /\ job' = job
        /\ ModesOwned /\ DocumentFollows /\ LastEvent /\ Window
        /\ UNCHANGED <<sink, present, staged, document, pending, due, events, patches,
                       direct>>
    BY DEF ConnInv, ConnTypes, ThreadsOK, Promote
  <1>1. CASE ~present
    <2>1. at' = [at EXCEPT ![t] = "reset"] /\ UNCHANGED <<active, preserved, disturbed>>
      BY <1>1 DEF Promote
    <2>2. Moved(t, "reset", job[t]) /\ "reset" \in Steps /\ JobFits("reset", job[t])
      BY <1>0, <2>1, MoveKeeps DEF Steps, JobFits
    <2> QED
      BY <1>0, <2>1, <2>2, MoveOnly DEF Programming
  <1>2. CASE present
    <2> DEFINE q == Promoted(job[t])
    <2>1. /\ active' = [active EXCEPT !["receiver"] = [enable |-> job[t].enable, peer |-> q]]
          /\ preserved' = {q} /\ at' = [at EXCEPT ![t] = "get sink"]
          /\ disturbed' = \E u \in Threads : Programming(u)
      BY <1>2 DEF Promote
    <2>2. /\ Moved(t, "get sink", job[t]) /\ "get sink" \in Steps
          /\ JobFits("get sink", job[t])
      BY <1>0, <2>1, MoveKeeps DEF Steps, JobFits
    <2>3. q \in PeerOrNone /\ job[t].enable \in {"on", "off"}
      BY <1>0 DEF Jobs, Promoted, PeerOrNone
    <2> HIDE DEF q
    <2>4. ConnTypes'
      <3>1. ThreadsOK'
        BY <1>0, <2>2, MovedTypes
      <3>2. ActiveOK'
        BY <1>0, <2>1, <2>3 DEF ConnTypes, ActiveOK, Kinds, PeerOrNone
      <3>3. KeptOK'
        BY <2>1, <2>3, AtMostOne DEF KeptOK, PeerOrNone
      <3>4. disturbed' \in BOOLEAN
        BY <2>1
      <3>5. RestOK'
        BY <1>0, <3>4 DEF ConnTypes, RestOK, PeerOrNone
      <3> QED
        BY <1>0, <3>1, <3>2, <3>3, <3>5, PartsSame DEF ConnTypes
    <2>5. ModesOwned'
      BY <1>0, <2>2, MovedModes
    <2>6. DocumentFollows'
      <3>1. active'["sender"] = active["sender"]
        BY <1>0, <2>1 DEF ConnTypes, ActiveOK, Kinds
      <3> QED
        BY <1>0, <2>2, <3>1, MovedDocument
    <2>7. LastEvent'
      BY <1>0 DEF LastEvent
    <2>8. Window'
      <3>1. CASE disturbed'
        BY <3>1 DEF Window
      <3>2. CASE ~disturbed'
        <4>1. \A u \in Threads : ~Programming(u)
          BY <2>1, <3>2
        <4>2. \A u \in Threads : Programming(u)' <=> u = t
          BY <1>0, <2>2, <4>1, MovedValues DEF Programming
        <4>3. /\ active'["receiver"].peer = q /\ Promoted(job[t])' = q
          BY <1>0, <2>1 DEF ConnTypes, ActiveOK, Kinds, q, Promoted
        <4>4. Alone' /\ Busy'
          BY <4>2 DEF Alone, Busy, Threads
        <4>5. Kept'
          BY <2>1, <4>2, <4>3, <4>4 DEF Kept, Threads
        <4>6. Shown'
          BY <4>2, <4>3, <4>4 DEF Shown, Threads
        <4> QED
          BY <4>4, <4>5, <4>6 DEF Window
      <3> QED
        BY <3>1, <3>2
    <2> QED
      BY <2>4, <2>5, <2>6, <2>7, <2>8 DEF ConnInv
  <1> QED
    BY <1>1, <1>2

(* The sink is looked up; one that has gone disturbs the window.           *)
LEMMA GetSinkStep ==
  ASSUME ConnInv, NEW t \in Threads, GetSink(t)
  PROVE  ConnInv'
  <1> DEFINE p == IF sink # None /\ Connects(job[t]) THEN "add sink" ELSE "reset"
  <1>0. /\ ConnTypes /\ ThreadsOK /\ job[t] \in Jobs /\ JobFits(at[t], job[t])
        /\ at[t] = "get sink" /\ job' = job /\ at' = [at EXCEPT ![t] = p]
        /\ disturbed' = (disturbed \/ (sink = None /\ Connects(job[t])))
        /\ ModesOwned /\ DocumentFollows /\ LastEvent /\ Window
        /\ UNCHANGED <<sink, present, staged, active, document, preserved, pending, due,
                       events, patches, direct>>
    BY DEF ConnInv, ConnTypes, ThreadsOK, GetSink
  <1>1. /\ p \in {"add sink", "reset"} /\ p \in Steps /\ JobFits(p, job[t])
        /\ p = "reset" /\ Connects(job[t]) => disturbed'
    BY <1>0 DEF Steps, JobFits
  <1> HIDE DEF p
  <1>2. Moved(t, p, job[t])
    BY <1>0, MoveKeeps
  <1>3. ConnTypes'
    <2>1. ThreadsOK'
      BY <1>0, <1>1, <1>2, MovedTypes
    <2>2. disturbed' \in BOOLEAN
      BY <1>0
    <2>3. RestOK'
      BY <1>0, <2>2 DEF ConnTypes, RestOK, PeerOrNone
    <2> QED
      BY <1>0, <2>1, <2>3, PartsSame DEF ConnTypes
  <1>4. ModesOwned'
    BY <1>0, <1>1, <1>2, MovedModes
  <1>5. DocumentFollows'
    BY <1>0, <1>2, MovedDocument
  <1>6. LastEvent'
    BY <1>0 DEF LastEvent
  <1>7. Window'
    <2>1. CASE disturbed'
      BY <2>1 DEF Window
    <2>2. CASE ~disturbed'
      <3>1. Alone /\ Kept /\ Shown /\ ~disturbed /\ Programming(t)
        BY <1>0, <2>2 DEF Window, Programming
      <3>2. \A u \in Threads : Programming(u) => u = t
        BY <3>1 DEF Alone
      <3>3. CASE p = "add sink"
        <4>1. \A u \in Threads : Programming(u)' <=> Programming(u)
          BY <1>0, <1>2, <3>1, <3>3, MovedValues DEF Programming
        <4>2. UNCHANGED disturbed
          BY <1>0, <2>2, <3>1 DEF ConnTypes, RestOK
        <4> QED
          BY <1>0, <4>1, <4>2, SameWindow
      <3>4. CASE p = "reset"
        <4>1. \A u \in Threads : ~Programming(u)'
          <5> SUFFICES ASSUME NEW u \in Threads
                       PROVE  at'[u] \notin {"get sink", "add sink"}
            BY DEF Programming
          <5>1. CASE u = t
            <6>1. at'[t] = p
              BY <1>0, <1>2, MovedValues
            <6> QED
              BY <3>4, <5>1, <6>1
          <5>2. CASE u # t
            BY <1>0, <1>2, <3>2, <5>2, MovedValues DEF Programming
          <5> QED
            BY <5>1, <5>2
        <4>2. Promoted(job[t]) = None
          BY <1>0, <1>1, <2>2, <3>4 DEF Connects, Promoted
        <4>3. preserved \subseteq {None}
          BY <3>1, <4>2 DEF Kept
        <4>4. active["receiver"].peer = None \/ events # <<>>
          BY <3>1, <4>2 DEF Shown
        <4>5. Alone' /\ Kept'
          BY <1>0, <4>1, <4>3 DEF Alone, Kept, Threads
        <4>6. Shown'
          BY <1>0, <4>4 DEF Shown
        <4> QED
          BY <4>5, <4>6 DEF Window
      <3> QED
        BY <1>1, <3>3, <3>4
    <2> QED
      BY <2>1, <2>2
  <1> QED
    BY <1>3, <1>4, <1>5, <1>6, <1>7 DEF ConnInv

(* Events appended for the worker.                                         *)
LEMMA Removals ==
  ASSUME SinkOK
  PROVE  /\ events \o Removal \in Seq({"SinkAdded", "SinkRemoved"})
         /\ sink # None => /\ events \o Removal # <<>>
                           /\ (events \o Removal)[Len(events \o Removal)] = "SinkRemoved"
         /\ sink = None => events \o Removal = events
  <1>1. events \in Seq({"SinkAdded", "SinkRemoved"})
    BY DEF SinkOK
  <1>2. CASE sink = None
    <2>1. events \o <<>> = events
      BY <1>1, ConcatEmptySeq
    <2> QED
      BY <1>1, <1>2, <2>1 DEF Removal
  <1>3. CASE sink # None
    <2> DEFINE d == events \o <<"SinkRemoved">>
    <2>1. /\ d \in Seq({"SinkAdded", "SinkRemoved"}) /\ Len(d) = Len(events) + 1
          /\ Len(events) \in Nat /\ d[Len(events) + 1] = "SinkRemoved"
      BY <1>1
    <2>2. d # <<>>
      BY <2>1
    <2>3. Removal = <<"SinkRemoved">>
      BY <1>3 DEF Removal
    <2> QED
      BY <1>3, <2>1, <2>2, <2>3
  <1> QED
    BY <1>2, <1>3

(* The last of them says that a sink was added.                            *)
LEMMA Additions ==
  ASSUME SinkOK
  PROVE  LET e == events \o Removal \o <<"SinkAdded">>
         IN  e \in Seq({"SinkAdded", "SinkRemoved"}) /\ e # <<>> /\ e[Len(e)] = "SinkAdded"
  <1> DEFINE d == events \o Removal
  <1>1. d \in Seq({"SinkAdded", "SinkRemoved"})
    BY Removals
  <1> HIDE DEF d
  <1>2. /\ d \o <<"SinkAdded">> \in Seq({"SinkAdded", "SinkRemoved"})
        /\ Len(d \o <<"SinkAdded">>) = Len(d) + 1 /\ Len(d) \in Nat
        /\ (d \o <<"SinkAdded">>)[Len(d) + 1] = "SinkAdded"
    BY <1>1
  <1> QED
    BY <1>2 DEF d

(* The sink is programmed: it receives the sender that was promoted, and   *)
(* the worker will hear of it; or it is refused, which disturbs the window.*)
LEMMA AddSinkStep ==
  ASSUME ConnInv, NEW t \in Threads,
         AddSink(t) \/ AddSinkRefused(t)
  PROVE  ConnInv'
  <1>0. /\ ConnTypes /\ ThreadsOK /\ SinkOK /\ job[t] \in Jobs /\ JobFits(at[t], job[t])
        /\ at[t] = "add sink" /\ job' = job /\ at' = [at EXCEPT ![t] = "reset"]
        /\ ModesOwned /\ DocumentFollows /\ LastEvent /\ Window
        /\ UNCHANGED <<present, staged, active, document, preserved, pending, due, patches>>
    BY DEF ConnInv, ConnTypes, ThreadsOK, AddSink, AddSinkRefused
  <1>1. Moved(t, "reset", job[t]) /\ "reset" \in Steps /\ JobFits("reset", job[t])
    BY <1>0, MoveKeeps DEF Steps, JobFits
  <1>2. ThreadsOK'
    BY <1>0, <1>1, MovedTypes
  <1>3. ModesOwned'
    BY <1>0, <1>1, MovedModes
  <1>4. DocumentFollows'
    BY <1>0, <1>1, MovedDocument
  <1>5. CASE AddSink(t)
    <2>1. /\ sink' = job[t].peer /\ UNCHANGED <<disturbed, direct>>
          /\ events' = events \o Removal \o <<"SinkAdded">>
      BY <1>5 DEF AddSink
    <2>2. job[t].peer \in Peers /\ job[t].peer # None /\ Promoted(job[t]) = job[t].peer
      BY <1>0 DEF JobFits, Jobs, Connects, Promoted, PeerOrNone
    <2>3. SinkOK' /\ events' # <<>> /\ events'[Len(events')] = "SinkAdded"
      BY <1>0, <2>1, <2>2, Additions DEF SinkOK, Streams
    <2>4. ConnTypes'
      BY <1>0, <1>2, <2>1, <2>3, PartsSame DEF ConnTypes
    <2>5. LastEvent'
      BY <2>1, <2>2, <2>3 DEF LastEvent
    <2>6. Window'
      <3>1. CASE disturbed
        BY <2>1, <3>1 DEF Window
      <3>2. CASE ~disturbed
        <4>1. Alone /\ Kept /\ Programming(t)
          BY <1>0, <3>2 DEF Window, Programming
        <4>2. \A u \in Threads : ~Programming(u)'
          <5> SUFFICES ASSUME NEW u \in Threads
                       PROVE  at'[u] \notin {"get sink", "add sink"}
            BY DEF Programming
          <5>1. CASE u = t
            <6>1. at'[t] = "reset"
              BY <1>0, <1>1, MovedValues
            <6> QED
              BY <5>1, <6>1
          <5>2. CASE u # t
            BY <1>0, <1>1, <4>1, <5>2, MovedValues DEF Alone, Programming
          <5> QED
            BY <5>1, <5>2
        <4>3. preserved \subseteq {sink'}
          BY <2>1, <2>2, <4>1 DEF Kept
        <4>4. Alone' /\ Kept'
          BY <1>0, <4>2, <4>3 DEF Alone, Kept, Threads
        <4>5. Shown'
          BY <2>3 DEF Shown
        <4> QED
          BY <4>4, <4>5 DEF Window
      <3> QED
        BY <3>1, <3>2
    <2> QED
      BY <1>3, <1>4, <2>4, <2>5, <2>6 DEF ConnInv
  <1>6. CASE AddSinkRefused(t)
    <2>1. /\ direct < MaxDirect /\ direct' = direct + 1 /\ disturbed' = TRUE
          /\ \/ sink' = None /\ events' = events \o Removal
             \/ UNCHANGED <<sink, events>>
      BY <1>6 DEF AddSinkRefused
    <2>2. SinkOK' /\ LastEvent'
      <3>1. CASE UNCHANGED <<sink, events>>
        BY <1>0, <3>1, PartsSame DEF LastEvent
      <3>2. CASE sink' = None /\ events' = events \o Removal
        <4>1. SinkOK'
          BY <1>0, <3>2, Removals DEF SinkOK, Streams
        <4>2. LastEvent'
          BY <1>0, <3>2, Removals DEF LastEvent
        <4> QED
          BY <4>1, <4>2
      <3> QED
        BY <2>1, <3>1, <3>2
    <2>3. RestOK'
      <3>1. direct' \in 0..MaxDirect
        <4>1. direct \in 0..MaxDirect /\ MaxDirect \in Nat
          BY <1>0, ConnectionConstants DEF ConnTypes, RestOK
        <4> QED
          BY <2>1, <4>1
      <3>2. disturbed' \in BOOLEAN
        BY <2>1
      <3> QED
        BY <1>0, <3>1, <3>2 DEF ConnTypes, RestOK, PeerOrNone
    <2>4. ConnTypes'
      BY <1>0, <1>2, <2>2, <2>3, PartsSame DEF ConnTypes
    <2>5. Window'
      BY <2>1 DEF Window
    <2> QED
      BY <1>3, <1>4, <2>2, <2>4, <2>5 DEF ConnInv
  <1> QED
    BY <1>5, <1>6

(* Another client changes the sink: in the window it disturbs it, outside  *)
(* it the worker will hear of it.                                          *)
LEMMA PutSinkStep ==
  ASSUME ConnInv, PutSink \/ RemoveSink
  PROVE  ConnInv'
  <1>0. /\ ConnTypes /\ SinkOK /\ ModesOwned /\ DocumentFollows /\ LastEvent /\ Window
        /\ direct < MaxDirect /\ direct' = direct + 1
        /\ disturbed' = (disturbed \/ InTheWindow)
        /\ UNCHANGED <<present, staged, active, document, preserved, pending, due,
                       at, job, patches>>
    BY DEF ConnInv, ConnTypes, PutSink, RemoveSink
  <1>1. SinkOK' /\ LastEvent' /\ events' # <<>>
    <2>1. CASE PutSink
      <3>1. /\ sink' = Direct /\ events' = events \o Removal \o <<"SinkAdded">>
            /\ sink' # None
        BY <2>1, ConnectionConstants DEF PutSink
      <3>2. SinkOK' /\ events' # <<>> /\ events'[Len(events')] = "SinkAdded"
        BY <1>0, <3>1, Additions DEF SinkOK, Streams
      <3> QED
        BY <3>1, <3>2 DEF LastEvent
    <2>2. CASE RemoveSink
      <3>1. sink # None /\ sink' = None /\ events' = events \o Removal
        BY <2>2 DEF RemoveSink
      <3>2. SinkOK' /\ events' # <<>> /\ events'[Len(events')] = "SinkRemoved"
        BY <1>0, <3>1, Removals DEF SinkOK, Streams
      <3> QED
        BY <3>1, <3>2 DEF LastEvent
    <2> QED
      BY <2>1, <2>2
  <1>2. RestOK'
    <2>1. direct' \in 0..MaxDirect
      <3>1. direct \in 0..MaxDirect /\ MaxDirect \in Nat
        BY <1>0, ConnectionConstants DEF ConnTypes, RestOK
      <3> QED
        BY <1>0, <3>1
    <2>2. disturbed' \in BOOLEAN
      BY <1>0
    <2> QED
      BY <1>0, <2>1, <2>2 DEF ConnTypes, RestOK, PeerOrNone
  <1>3. ConnTypes'
    BY <1>0, <1>1, <1>2, PartsSame DEF ConnTypes
  <1>4. ModesOwned' /\ DocumentFollows'
    BY <1>0 DEF ModesOwned, Owned, DocumentFollows, Threads, Kinds
  <1>5. Window'
    <2>1. CASE disturbed'
      BY <2>1 DEF Window
    <2>2. CASE ~disturbed'
      <3>1. /\ preserved \cap Peers = {}
            /\ \A u \in Threads : ~Programming(u)
        BY <1>0, <2>2 DEF InTheWindow
      <3>2. preserved \subseteq {None}
        BY <1>0, <3>1 DEF ConnTypes, KeptOK, PeerOrNone
      <3>3. \A u \in Threads : ~Programming(u)'
        BY <1>0, <3>1 DEF Programming
      <3>4. Alone' /\ Kept'
        BY <1>0, <3>2, <3>3 DEF Alone, Kept, Threads
      <3>5. Shown'
        BY <1>1 DEF Shown
      <3> QED
        BY <3>4, <3>5 DEF Window
    <2> QED
      BY <2>1, <2>2
  <1> QED
    BY <1>1, <1>3, <1>4, <1>5 DEF ConnInv

(* The entries of S, in their order: a sequence of those entries and no    *)
(* other.                                                                  *)
LEMMA Selection ==
  ASSUME QueuesOK, NEW S \in SUBSET DOMAIN pending, NEW f \in InOrder(S)
  PROVE  /\ [n \in DOMAIN f |-> pending[f[n]]] \in Seq(Kinds)
         /\ \A i \in S : pending[i] \in Range([n \in DOMAIN f |-> pending[f[n]]])
  <1> DEFINE c == Cardinality(S)
             e == [n \in DOMAIN f |-> pending[f[n]]]
  <1>1. /\ pending \in Seq(Kinds) /\ Len(pending) \in Nat
        /\ DOMAIN pending = 1..Len(pending)
    BY DEF QueuesOK
  <1>2. c \in Nat
    <2>1. IsFiniteSet(1..Len(pending))
      BY <1>1, FS_Interval
    <2>2. IsFiniteSet(S)
      BY <1>1, <2>1, FS_Subset
    <2> QED
      BY <2>2, FS_CardinalityType
  <1>3. f \in [1..c -> S] /\ Range(f) = S
    BY DEF InOrder
  <1> HIDE DEF c
  <1>4. DOMAIN f = 1..c /\ \A n \in DOMAIN f : f[n] \in S
    BY <1>3
  <1>5. \A i \in S : \E n \in DOMAIN f : f[n] = i
    BY <1>3 DEF Range
  <1>6. \A i \in S : pending[i] \in Kinds
    BY <1>1
  <1>7. e \in [1..c -> Kinds]
    BY <1>4, <1>6
  <1>8. e \in Seq(Kinds)
    BY <1>2, <1>7
  <1>9. \A i \in S : pending[i] \in Range(e)
    BY <1>4, <1>5 DEF Range
  <1> QED
    BY <1>8, <1>9

(* What is due is taken out: every entry is in one of the two queues.      *)
LEMMA TakeDueStep ==
  ASSUME ConnInv, NEW S \in SUBSET DOMAIN pending, TakeDue(S)
  PROVE  ConnInv'
  <1>0. /\ ConnTypes /\ QueuesOK /\ ModesOwned /\ DocumentFollows /\ LastEvent /\ Window
        /\ due = <<>>
        /\ UNCHANGED <<sink, present, staged, active, document, preserved, events,
                       at, job, disturbed, patches, direct>>
    BY DEF ConnInv, ConnTypes, TakeDue, WorkerFree
  <1>1. PICK d \in InOrder(S), r \in InOrder(DOMAIN pending \ S) :
          /\ due' = [n \in DOMAIN d |-> pending[d[n]]]
          /\ pending' = [n \in DOMAIN r |-> pending[r[n]]]
    BY DEF TakeDue
  <1>2. /\ due' \in Seq(Kinds) /\ \A i \in S : pending[i] \in Range(due')
    BY <1>0, <1>1, Selection
  <1>3. /\ pending' \in Seq(Kinds)
        /\ \A i \in DOMAIN pending \ S : pending[i] \in Range(pending')
    <2>1. DOMAIN pending \ S \in SUBSET DOMAIN pending
      OBVIOUS
    <2> QED
      BY <1>0, <1>1, <2>1, Selection
  <1>4. QueuesOK'
    BY <1>2, <1>3 DEF QueuesOK, Kinds
  <1>5. ConnTypes'
    BY <1>0, <1>4, PartsSame DEF ConnTypes
  <1>6. \A k : k \in Range(pending) \cup Range(due) => k \in Range(pending') \cup Range(due')
    <2>1. Range(due) = {}
      BY <1>0 DEF Range
    <2>2. ASSUME NEW k \in Range(pending)
          PROVE  k \in Range(pending') \cup Range(due')
      <3>1. PICK i \in DOMAIN pending : k = pending[i]
        BY <2>2 DEF Range
      <3> QED
        BY <1>2, <1>3, <3>1
    <2> QED
      BY <2>1, <2>2
  <1>7. ModesOwned'
    <2>1. \A k : Owned(k) => Owned(k)'
      BY <1>0, <1>6 DEF Owned, Threads
    <2> QED
      BY <1>0, <2>1 DEF ModesOwned, Kinds
  <1>8. DocumentFollows' /\ LastEvent'
    BY <1>0 DEF DocumentFollows, LastEvent, Threads
  <1>9. Window'
    BY <1>0, SameWindow DEF Programming
  <1> QED
    BY <1>5, <1>7, <1>8, <1>9 DEF ConnInv

(* The worker starts with an entry that is due.                            *)
LEMMA ActivateDueStep ==
  ASSUME ConnInv, ActivateDue
  PROVE  ConnInv'
  <1> DEFINE k == Head(due)
             p == FirstStep(k)
             j == [job[Worker] EXCEPT !.kind = k]
  <1>0. /\ ConnTypes /\ ThreadsOK /\ QueuesOK /\ Worker \in Threads
        /\ job[Worker] \in Jobs /\ at[Worker] = "idle" /\ due # <<>> /\ due' = Tail(due)
        /\ ModesOwned /\ DocumentFollows /\ LastEvent /\ Window
        /\ UNCHANGED <<sink, present, staged, active, document, preserved, pending,
                       events, disturbed, patches, direct>>
    BY DEF ConnInv, ConnTypes, ThreadsOK, ActivateDue, Threads
  <1>1. Moved(Worker, p, j)
    BY <1>0 DEF Moved, ThreadsOK, ActivateDue
  <1>2. /\ due \in Seq(Kinds) /\ k \in Kinds /\ due' \in Seq(Kinds)
        /\ Len(due) \in Nat /\ Len(due') = Len(due) - 1
        /\ DOMAIN due = 1..Len(due) /\ DOMAIN due' = 1..Len(due')
        /\ \A i \in 1..Len(due') : due'[i] = due[i + 1]
        /\ k = due[1]
    BY <1>0 DEF QueuesOK
  <1>3. /\ j \in Jobs /\ j.kind = k /\ p \in {"promote sender", "snapshot"}
        /\ p \in Steps /\ JobFits(p, j)
    BY <1>0, <1>2 DEF Jobs, FirstStep, Steps, JobFits, Kinds
  <1> HIDE DEF k, p, j
  <1>4. \A l \in Range(due) : l = k \/ l \in Range(due')
    <2> SUFFICES ASSUME NEW i \in DOMAIN due
                 PROVE  due[i] = k \/ \E n \in DOMAIN due' : due[i] = due'[n]
      BY DEF Range
    <2>1. CASE i = 1
      BY <1>2, <2>1
    <2>2. CASE i # 1
      <3>1. i - 1 \in 1..Len(due') /\ (i - 1) + 1 = i
        BY <1>2, <2>2
      <3> QED
        BY <1>2, <3>1
    <2> QED
      BY <2>1, <2>2
  <1>5. ConnTypes'
    <2>1. ThreadsOK'
      BY <1>0, <1>1, <1>3, MovedTypes
    <2>2. QueuesOK'
      BY <1>0, <1>2 DEF QueuesOK, Kinds
    <2> QED
      BY <1>0, <2>1, <2>2, PartsSame DEF ConnTypes
  <1>6. ModesOwned'
    <2>1. /\ at'[Worker] # "idle" /\ job'[Worker].kind = k
          /\ \A u \in Threads : at[u] # "idle" => at'[u] = at[u] /\ job'[u] = job[u]
      BY <1>0, <1>1, <1>3, MovedValues
    <2>2. \A l : Owned(l) => Owned(l)'
      BY <1>0, <1>4, <2>1 DEF Owned, Threads
    <2> QED
      BY <1>0, <2>2 DEF ModesOwned, Kinds
  <1>7. DocumentFollows'
    BY <1>0, <1>1, MovedDocument
  <1>8. LastEvent'
    BY <1>0 DEF LastEvent
  <1>9. Window'
    BY <1>0, <1>1, <1>3, MovedWindow DEF Programming
  <1> QED
    BY <1>5, <1>6, <1>7, <1>8, <1>9 DEF ConnInv

(* A sequence without entries has length 0.                                *)
LEMMA NoneLeft == \A e : e = <<>> => Len(e) = 0
  OBVIOUS

(* What is left of the events once the first is handled.                   *)
LEMMA NextEvent ==
  ASSUME SinkOK, LastEvent, events # <<>>, events' = Tail(events), sink' = sink
  PROVE  /\ SinkOK' /\ LastEvent'
         /\ events' = <<>> => Head(events) = IF sink = None THEN "SinkRemoved" ELSE "SinkAdded"
  <1>1. /\ events \in Seq({"SinkAdded", "SinkRemoved"}) /\ Len(events) \in Nat
        /\ Len(events) >= 1 /\ events' \in Seq({"SinkAdded", "SinkRemoved"})
        /\ Len(events') = Len(events) - 1
        /\ \A i \in 1..Len(events') : events'[i] = events[i + 1]
        /\ Head(events) = events[1]
    BY DEF SinkOK
  <1>2. SinkOK'
    BY <1>1 DEF SinkOK, Streams
  <1>3. LastEvent'
    <2> SUFFICES ASSUME events' # <<>>
                 PROVE  events'[Len(events')] = IF sink = None THEN "SinkRemoved" ELSE "SinkAdded"
      BY DEF LastEvent
    <2>1. Len(events') \in 1..Len(events') /\ Len(events') + 1 = Len(events)
      BY <1>1
    <2> QED
      BY <1>1, <2>1 DEF LastEvent
  <1>4. events' = <<>> => Len(events) = 1
    <2>1. events' = <<>> => Len(events') = 0
      BY NoneLeft, Zenon
    <2>2. Len(events) \in Nat /\ Len(events') = Len(events) - 1
      BY <1>1
    <2> QED
      BY <2>1, <2>2
  <1> QED
    BY <1>1, <1>2, <1>3, <1>4 DEF LastEvent

(* The sink was removed: the receiver goes, with its staged mode.          *)
LEMMA SinkRemovedStep ==
  ASSUME ConnInv, HandleSinkRemoved
  PROVE  ConnInv'
  <1>0. /\ ConnTypes /\ ModesOwned /\ DocumentFollows /\ LastEvent /\ Window
        /\ SinkOK /\ StagedOK /\ ActiveOK
        /\ events # <<>> /\ events' = Tail(events) /\ present' = FALSE
        /\ staged' = [staged EXCEPT !["receiver"] = Fresh]
        /\ active' = [active EXCEPT !["receiver"] = [enable |-> "off", peer |-> None]]
        /\ UNCHANGED <<sink, document, preserved, pending, due, at, job, disturbed,
                       patches, direct>>
    BY DEF ConnInv, ConnTypes, HandleSinkRemoved
  <1>1. SinkOK' /\ LastEvent'
    BY <1>0, NextEvent
  <1>2. /\ StagedOK' /\ staged'["receiver"].mode = "null"
        /\ staged'["sender"] = staged["sender"]
    BY <1>0 DEF StagedOK, Fresh, Kinds, Modes, PeerOrNone
  <1>3. /\ ActiveOK' /\ active'["receiver"].peer = None
        /\ active'["sender"] = active["sender"]
    BY <1>0 DEF ActiveOK, Kinds, PeerOrNone
  <1>4. ConnTypes'
    <2>1. present' \in BOOLEAN
      BY <1>0
    <2>2. RestOK'
      BY <1>0, <2>1 DEF ConnTypes, RestOK, PeerOrNone
    <2> QED
      BY <1>0, <1>1, <1>2, <1>3, <2>2, PartsSame DEF ConnTypes
  <1>5. ModesOwned'
    <2>1. \A k : Owned(k) => Owned(k)'
      BY <1>0 DEF Owned, Threads
    <2> QED
      BY <1>0, <1>2, <2>1 DEF ModesOwned, Kinds
  <1>6. DocumentFollows'
    BY <1>0, <1>3 DEF DocumentFollows, Threads
  <1>7. Window'
    <2>1. Shown'
      BY <1>3 DEF Shown
    <2>2. \A u \in Threads : Programming(u)' <=> Programming(u)
      BY <1>0 DEF Programming
    <2>3. Alone /\ Kept => Alone' /\ Kept'
      BY <1>0, <2>2 DEF Alone, Kept, Busy, Promoted, Threads
    <2> QED
      BY <1>0, <2>1, <2>3 DEF Window
  <1> QED
    BY <1>1, <1>4, <1>5, <1>6, <1>7 DEF ConnInv

(* What was kept aside, if anything was.                                   *)
Restored == IF preserved = {} THEN None ELSE CHOOSE q \in preserved : TRUE

(* Rebuilding the receiver from its sink shows what was kept aside, which  *)
(* is right in the window.                                                 *)
LEMMA Rebuilt ==
  ASSUME ConnTypes, Window, UNCHANGED <<sink, at, job>>,
         disturbed' = (disturbed /\ ~Settles),
         preserved' = {}, active'["receiver"].peer = Restored
  PROVE  Window' /\ KeptOK'
  <1>1. KeptOK'
    BY AtMostOne DEF KeptOK, PeerOrNone
  <1>2. Restored = None \/ Restored \in preserved
    BY DEF Restored
  <1>3. CASE disturbed'
    BY <1>1, <1>3 DEF Window
  <1>4. CASE ~disturbed'
    <2>1. Alone /\ Kept
      <3>1. CASE ~disturbed
        BY <3>1 DEF Window
      <3>2. CASE Settles
        BY <3>2 DEF Settles, Alone, Kept
      <3> QED
        BY <1>4, <3>1, <3>2
    <2>2. \A u \in Threads : Programming(u)' <=> Programming(u)
      BY DEF Programming
    <2>3. Alone' /\ Kept'
      BY <2>1, <2>2 DEF Alone, Kept, Threads
    <2>4. Shown'
      <3>1. CASE Restored = None
        BY <3>1 DEF Shown
      <3>2. CASE Restored \in preserved /\ Restored # None
        <4>1. \A u \in Threads : Programming(u) => Restored = Promoted(job[u])
          BY <2>1, <3>2 DEF Kept
        <4>2. ~Busy => Restored = sink
          BY <2>1, <3>2 DEF Kept
        <4>3. Busy' <=> Busy
          BY <2>2 DEF Busy, Threads
        <4>4. \A u \in Threads : Promoted(job[u])' = Promoted(job[u])
          BY DEF Promoted
        <4> HIDE DEF Restored
        <4> QED
          BY <2>2, <4>1, <4>2, <4>3, <4>4 DEF Shown, Threads
      <3> QED
        BY <1>2, <3>1, <3>2
    <2> QED
      BY <1>1, <2>3, <2>4 DEF Window
  <1> QED
    BY <1>3, <1>4

(* The sink was added: the receiver is rebuilt from it, if it is still     *)
(* there; if not, another event follows.                                   *)
LEMMA SinkAddedStep ==
  ASSUME ConnInv, HandleSinkAdded
  PROVE  ConnInv'
  <1>0. /\ ConnTypes /\ ModesOwned /\ DocumentFollows /\ LastEvent /\ Window
        /\ SinkOK /\ StagedOK /\ ActiveOK
        /\ events # <<>> /\ Head(events) = "SinkAdded" /\ events' = Tail(events)
        /\ UNCHANGED <<sink, document, pending, due, at, job, patches, direct>>
    BY DEF ConnInv, ConnTypes, HandleSinkAdded
  <1>1. SinkOK' /\ LastEvent' /\ (sink = None => events' # <<>>)
    BY <1>0, NextEvent
  <1>2. \A k : Owned(k) => Owned(k)'
    BY <1>0 DEF Owned, Threads
  <1>3. CASE sink = None
    <2>1. UNCHANGED <<present, preserved, staged, active, disturbed>>
      BY <1>3 DEF HandleSinkAdded, RegisterSinkLocal
    <2>2. ConnTypes'
      BY <1>0, <1>1, <2>1, PartsSame DEF ConnTypes
    <2>3. ModesOwned' /\ DocumentFollows'
      BY <1>0, <1>2, <2>1 DEF ModesOwned, DocumentFollows, Threads, Kinds
    <2>4. Window'
      <3>1. Shown'
        BY <1>1, <1>3 DEF Shown
      <3>2. \A u \in Threads : Programming(u)' <=> Programming(u)
        BY <1>0 DEF Programming
      <3>3. Alone /\ Kept => Alone' /\ Kept'
        BY <1>0, <2>1, <3>2 DEF Alone, Kept, Busy, Promoted, Threads
      <3> QED
        BY <1>0, <2>1, <3>1, <3>3 DEF Window
    <2> QED
      BY <1>1, <2>2, <2>3, <2>4 DEF ConnInv
  <1>4. CASE sink # None
    <2>1. /\ present' = TRUE /\ preserved' = {}
          /\ staged' = [staged EXCEPT !["receiver"].enable = Connected]
          /\ active' = [active EXCEPT !["receiver"] =
                          [enable |-> Connected, peer |-> Restored]]
          /\ disturbed' = (disturbed /\ ~Settles)
      BY <1>4 DEF HandleSinkAdded, RegisterSinkLocal, Restored
    <2>2. Connected \in {"on", "off"} /\ Restored \in PeerOrNone
      BY <1>0 DEF Connected, Restored, ConnTypes, KeptOK, PeerOrNone
    <2>3. StagedOK' /\ \A k \in Kinds : staged'[k].mode = staged[k].mode
      BY <1>0, <2>1, <2>2 DEF StagedOK, Kinds, Modes, PeerOrNone
    <2> HIDE DEF Restored
    <2>4. /\ ActiveOK' /\ active'["receiver"].peer = Restored
          /\ active'["sender"] = active["sender"]
      BY <1>0, <2>1, <2>2 DEF ActiveOK, Kinds, PeerOrNone
    <2>5. Window' /\ KeptOK'
      BY <1>0, <2>1, <2>4, Rebuilt
    <2>6. ConnTypes'
      <3>1. present' \in BOOLEAN /\ disturbed' \in BOOLEAN
        BY <2>1
      <3>2. RestOK'
        BY <1>0, <3>1 DEF ConnTypes, RestOK, PeerOrNone
      <3> QED
        BY <1>0, <1>1, <2>3, <2>4, <2>5, <3>2, PartsSame DEF ConnTypes
    <2>7. ModesOwned'
      BY <1>0, <1>2, <2>1, <2>3 DEF ModesOwned, Kinds
    <2>8. DocumentFollows'
      BY <1>0, <2>4 DEF DocumentFollows, Threads
    <2> QED
      BY <1>1, <2>5, <2>6, <2>7, <2>8 DEF ConnInv
  <1> QED
    BY <1>3, <1>4

(* A full registration rebuilds sender and receiver alike.                 *)
LEMMA FullRegistrationStep ==
  ASSUME ConnInv, FullRegistration
  PROVE  ConnInv'
  <1>0. /\ ConnTypes /\ ModesOwned /\ DocumentFollows /\ LastEvent /\ Window
        /\ SinkOK /\ StagedOK /\ ActiveOK
        /\ direct < MaxDirect /\ direct' = direct + 1 /\ document' = None
        /\ UNCHANGED <<sink, pending, due, events, at, job, patches>>
    BY DEF ConnInv, ConnTypes, FullRegistration
  <1>1. direct' \in 0..MaxDirect
    <2>1. direct \in 0..MaxDirect /\ MaxDirect \in Nat
      BY <1>0, ConnectionConstants DEF ConnTypes, RestOK
    <2> QED
      BY <1>0, <2>1
  <1>2. \A k : Owned(k) => Owned(k)'
    BY <1>0 DEF Owned, Threads
  <1>3. DocumentFollows' /\ LastEvent'
    BY <1>0 DEF DocumentFollows, LastEvent
  <1>4. CASE sink = None
    <2>1. /\ staged' = [staged EXCEPT !["sender"].enable = "on"]
          /\ active' = [active EXCEPT !["sender"].enable = "on"]
          /\ UNCHANGED <<present, preserved, disturbed>>
      BY <1>4 DEF FullRegistration
    <2>2. StagedOK' /\ \A k \in Kinds : staged'[k].mode = staged[k].mode
      BY <1>0, <2>1 DEF StagedOK, Kinds, Modes, PeerOrNone
    <2>3. ActiveOK' /\ active'["receiver"] = active["receiver"]
      BY <1>0, <2>1 DEF ActiveOK, Kinds, PeerOrNone
    <2>4. RestOK'
      BY <1>0, <1>1, <2>1 DEF ConnTypes, RestOK, PeerOrNone
    <2>5. ConnTypes'
      BY <1>0, <2>1, <2>2, <2>3, <2>4, PartsSame DEF ConnTypes
    <2>6. ModesOwned'
      BY <1>0, <1>2, <2>1, <2>2 DEF ModesOwned, Kinds
    <2>7. Window'
      BY <1>0, <2>1, <2>3, SameWindow DEF Programming
    <2> QED
      BY <1>3, <2>5, <2>6, <2>7 DEF ConnInv
  <1>5. CASE sink # None
    <2>1. /\ present' = TRUE /\ preserved' = {}
          /\ staged' = [k \in Kinds |-> [staged[k] EXCEPT !.enable =
                          IF k = "sender" THEN "on" ELSE Connected]]
          /\ active' = [k \in Kinds |->
                          [enable |-> IF k = "sender" THEN "on" ELSE Connected,
                           peer |-> IF k = "sender" THEN active[k].peer ELSE Restored]]
          /\ disturbed' = (disturbed /\ ~Settles)
      BY <1>5 DEF FullRegistration, Restored
    <2>2. Connected \in {"on", "off"} /\ Restored \in PeerOrNone
      BY <1>0 DEF Connected, Restored, ConnTypes, KeptOK, PeerOrNone
    <2> HIDE DEF Restored
    <2>3. StagedOK' /\ \A k \in Kinds : staged'[k].mode = staged[k].mode
      BY <1>0, <2>1, <2>2 DEF StagedOK, Kinds, Modes, PeerOrNone
    <2>4. ActiveOK' /\ active'["receiver"].peer = Restored
      BY <1>0, <2>1, <2>2 DEF ActiveOK, Kinds, PeerOrNone
    <2>5. Window' /\ KeptOK'
      BY <1>0, <2>1, <2>4, Rebuilt
    <2>6. ConnTypes'
      <3>1. present' \in BOOLEAN /\ disturbed' \in BOOLEAN
        BY <2>1
      <3>2. RestOK'
        BY <1>0, <1>1, <3>1 DEF ConnTypes, RestOK, PeerOrNone
      <3> QED
        BY <1>0, <2>3, <2>4, <2>5, <3>2, PartsSame DEF ConnTypes
    <2>7. ModesOwned'
      BY <1>0, <1>2, <2>1, <2>3 DEF ModesOwned, Kinds
    <2> QED
      BY <1>3, <2>5, <2>6, <2>7 DEF ConnInv
  <1> QED
    BY <1>4, <1>5

(* No step leaves the invariant.                                           *)
LEMMA ConnNext ==
  ConnInv /\ [Next]_vars => ConnInv'
  <1> SUFFICES ASSUME ConnInv, [Next]_vars
               PROVE  ConnInv'
    OBVIOUS
  <1>1. ASSUME NEW t \in Threads, Activation(t)
        PROVE  ConnInv'
    BY <1>1, SenderStep, SnapshotStep, PromoteStep, GetSinkStep, AddSinkStep, ResetStep
       DEF Activation
  <1>2. \A t \in Clients : t \in Threads
    BY DEF Threads
  <1>3. Worker \in Threads
    BY DEF Threads
  <1>4. CASE UNCHANGED vars
    <2>1. UNCHANGED <<sink, present, staged, active, document, preserved, pending, due,
                      events, at, job, disturbed, patches, direct>>
      BY <1>4 DEF vars
    <2>2. ConnTypes /\ ModesOwned /\ DocumentFollows /\ LastEvent /\ Window
      BY DEF ConnInv
    <2>3. ConnTypes'
      BY <2>1, <2>2, PartsSame DEF ConnTypes
    <2>4. ModesOwned' /\ DocumentFollows' /\ LastEvent'
      BY <2>1, <2>2 DEF ModesOwned, Owned, DocumentFollows, LastEvent, Threads, Kinds
    <2>5. Window'
      BY <2>1, <2>2, SameWindow DEF Programming
    <2> QED
      BY <2>3, <2>4, <2>5 DEF ConnInv
  <1>5. CASE WorkerStep
    BY <1>1, <1>3, <1>5, ActivateDueStep, SinkRemovedStep, SinkAddedStep DEF WorkerStep
  <1>6. CASE \E t \in Clients, k \in Kinds, b \in Bodies : Patch(t, k, b)
    BY <1>6, PatchStep
  <1>7. CASE \E t \in Clients : Activation(t)
    BY <1>1, <1>2, <1>7
  <1>8. CASE \E S \in SUBSET DOMAIN pending : TakeDue(S)
    BY <1>8, TakeDueStep
  <1>9. CASE FullRegistration \/ PutSink \/ RemoveSink
    BY <1>9, FullRegistrationStep, PutSinkStep
  <1> QED
    BY <1>4, <1>5, <1>6, <1>7, <1>8, <1>9 DEF Next

(* The inductive invariant holds in every reachable state.                 *)
LEMMA ConnInvariant ==
  Spec => []ConnInv
  <1>1. Init => ConnInv
    BY ConnInit
  <1>2. ConnInv /\ [Next]_vars => ConnInv'
    BY ConnNext
  <1> QED
    BY <1>1, <1>2, PTL DEF Spec

(* Staged and active state, the queues of the worker and the activations   *)
(* in hand are well-formed, and a sink is programmed only for a peer:      *)
(* apply_sender_activation and apply_receiver_activation in any number of  *)
(* threads.                                                                *)
THEOREM ConnectionTypes ==
  Spec => []TypeOK
  <1>1. ConnInv => TypeOK
    BY TypesAgree DEF ConnInv
  <1> QED
    BY <1>1, ConnInvariant, PTL

(* However many clients PATCH and whatever they schedule, a staged         *)
(* activation mode belongs to a request that will still clear it.          *)
THEOREM StagedModesOwned ==
  Spec => []ModeOwned
  <1>1. ConnInv => ModeOwned
    BY DEF ConnInv, ModesOwned, Owned, ModeOwned
  <1> QED
    BY <1>1, ConnInvariant, PTL

(* A receiver that /active and the subscriptions say is connected to a     *)
(* sender receives that sender once the activations are over and the       *)
(* worker has seen the events of the sink, unless since its last promotion *)
(* add_sink failed or someone else came between; a sender's document names *)
(* no other receiver than /active.                                         *)
THEOREM SubscriptionsTruthful ==
  Spec => []SubscriptionTruthful
  <1>1. ConnInv => SubscriptionTruthful
    <2> SUFFICES ASSUME ConnInv, Quiet
                 PROVE  /\ disturbed \/ active["receiver"].peer \in {None, sink}
                        /\ document \in {None, active["sender"].peer}
      BY DEF SubscriptionTruthful
    <2>1. \A t \in Threads : at[t] = "idle"
      BY DEF Quiet
    <2>2. ~Busy
      BY <2>1 DEF Busy, Programming
    <2>3. document \in {None, active["sender"].peer}
      BY <2>1 DEF ConnInv, DocumentFollows
    <2>4. disturbed \/ active["receiver"].peer \in {None, sink}
      BY <2>2 DEF ConnInv, Window, Shown, Quiet
    <2> QED
      BY <2>3, <2>4
  <1> QED
    BY <1>1, ConnInvariant, PTL

(* The places of a kind in a queue, and how many of its activations wait,  *)
(* pending or already taken out by the worker.                             *)
PlacesOf(q, k) == {n \in DOMAIN q : q[n] = k}
Waiting(k) == Cardinality(PlacesOf(pending, k)) + Cardinality(PlacesOf(due, k))

(* What a step does to the scheduled activations of either kind: nothing,  *)
(* or a PATCH that staged a scheduled one adds its entry, or the worker    *)
(* begins one.                                                             *)
ScheduledStep ==
  \A k \in Kinds :
    \/ Waiting(k)' = Waiting(k)
    \/ /\ Waiting(k)' = Waiting(k) + 1
       /\ patches' = patches + 1 /\ staged'[k].mode = "scheduled"
    \/ /\ Waiting(k)' = Waiting(k) - 1
       /\ at[Worker] = "idle" /\ at'[Worker] = FirstStep(k) /\ job'[Worker].kind = k

LEMMA PlacesFinite ==
  ASSUME NEW q \in Seq(Kinds), NEW k
  PROVE  IsFiniteSet(PlacesOf(q, k)) /\ Cardinality(PlacesOf(q, k)) \in Nat
<1>1. Len(q) \in Nat /\ DOMAIN q = 1..Len(q) OBVIOUS
<1>2. IsFiniteSet(1..Len(q)) BY <1>1, FS_Interval
<1>3. PlacesOf(q, k) \in SUBSET (1..Len(q)) BY <1>1 DEF PlacesOf
<1>4. IsFiniteSet(PlacesOf(q, k)) BY <1>2, <1>3, FS_Subset
<1>5. QED BY <1>4, FS_CardinalityType

(* Sets that a function maps onto each other one to one are of one size.   *)
LEMMA SameSize ==
  ASSUME NEW A, NEW B, NEW f \in [A -> B], IsFiniteSet(A),
         \A a, b \in A : f[a] = f[b] => a = b,
         \A b \in B : \E a \in A : f[a] = b
  PROVE  IsFiniteSet(B) /\ Cardinality(B) = Cardinality(A)
<1>1. f \in Bijection(A, B) BY Fun_IsBij
<1>2. ExistsBijection(A, B) BY <1>1 DEF ExistsBijection
<1>3. QED BY <1>2, FS_Bijection

LEMMA AppendWaits ==
  ASSUME NEW q \in Seq(Kinds), NEW x \in Kinds, NEW k
  PROVE  Cardinality(PlacesOf(Append(q, x), k)) =
           Cardinality(PlacesOf(q, k)) + (IF x = k THEN 1 ELSE 0)
<1>1. /\ Len(q) \in Nat /\ DOMAIN q = 1..Len(q)
      /\ DOMAIN Append(q, x) = 1..(Len(q) + 1)
      /\ Append(q, x)[Len(q) + 1] = x
      /\ \A n \in 1..Len(q) : Append(q, x)[n] = q[n]
  OBVIOUS
<1>2. IsFiniteSet(PlacesOf(q, k)) /\ Cardinality(PlacesOf(q, k)) \in Nat BY PlacesFinite
<1>3. CASE x = k
  <2>1. PlacesOf(Append(q, x), k) = PlacesOf(q, k) \cup {Len(q) + 1}
    <3>1. ASSUME NEW n PROVE n \in 1..(Len(q) + 1) <=> n \in 1..Len(q) \/ n = Len(q) + 1
      BY <1>1
    <3>2. QED BY <1>1, <1>3, <3>1 DEF PlacesOf
  <2>2. Len(q) + 1 \notin PlacesOf(q, k) BY <1>1 DEF PlacesOf
  <2>3. QED BY <1>2, <1>3, <2>1, <2>2, FS_AddElement
<1>4. CASE x # k
  <2>1. PlacesOf(Append(q, x), k) = PlacesOf(q, k)
    <3>1. ASSUME NEW n PROVE n \in 1..(Len(q) + 1) <=> n \in 1..Len(q) \/ n = Len(q) + 1
      BY <1>1
    <3>2. QED BY <1>1, <1>4, <3>1 DEF PlacesOf
  <2>2. QED BY <1>2, <1>4, <2>1
<1>5. QED BY <1>3, <1>4

LEMMA TailWaits ==
  ASSUME NEW q \in Seq(Kinds), q # <<>>, NEW k
  PROVE  Cardinality(PlacesOf(Tail(q), k)) =
           Cardinality(PlacesOf(q, k)) - (IF Head(q) = k THEN 1 ELSE 0)
<1> DEFINE A == PlacesOf(q, k) \ {1}
           B == PlacesOf(Tail(q), k)
           f == [n \in A |-> n - 1]
<1>1. /\ Len(q) \in Nat /\ Len(q) > 0 /\ DOMAIN q = 1..Len(q) /\ Head(q) = q[1]
      /\ DOMAIN Tail(q) = 1..(Len(q) - 1)
      /\ \A n \in 1..(Len(q) - 1) : Tail(q)[n] = q[n + 1]
  OBVIOUS
<1>2. IsFiniteSet(PlacesOf(q, k)) /\ Cardinality(PlacesOf(q, k)) \in Nat BY PlacesFinite
<1>3. /\ IsFiniteSet(A)
      /\ Cardinality(A) = Cardinality(PlacesOf(q, k)) - (IF Head(q) = k THEN 1 ELSE 0)
  <2>1. 1 \in PlacesOf(q, k) <=> Head(q) = k BY <1>1 DEF PlacesOf
  <2>2. QED BY <1>2, <2>1, FS_RemoveElement
<1>4. \A n \in A : n \in 1..Len(q) /\ n # 1 /\ q[n] = k BY <1>1 DEF PlacesOf
<1>5. \A n : n \in 1..Len(q) /\ n # 1 => n - 1 \in 1..(Len(q) - 1) /\ (n - 1) + 1 = n BY <1>1
<1>6. f \in [A -> B]
  <2>1. ASSUME NEW n \in A PROVE n - 1 \in B
    BY <1>1, <1>4, <1>5 DEF PlacesOf
  <2>2. QED BY <2>1
<1>7. \A a, b \in A : f[a] = f[b] => a = b
  <2>1. \A a \in A : f[a] = a - 1 /\ a \in Int BY <1>4
  <2>2. QED BY <2>1
<1>8. ASSUME NEW b \in B PROVE \E a \in A : f[a] = b
  <2>1. b \in 1..(Len(q) - 1) /\ q[b + 1] = k BY <1>1 DEF PlacesOf
  <2>2. b + 1 \in 1..Len(q) /\ b + 1 # 1 /\ (b + 1) - 1 = b BY <1>1, <2>1
  <2>3. b + 1 \in A BY <1>1, <2>1, <2>2 DEF PlacesOf
  <2>4. f[b + 1] = b BY <2>2, <2>3
  <2>5. QED BY <2>3, <2>4
<1> HIDE DEF A, B, f
<1>9. Cardinality(B) = Cardinality(A) BY <1>3, <1>6, <1>7, <1>8, SameSize
<1>10. QED BY <1>3, <1>9 DEF B

LEMMA SelectionWaits ==
  ASSUME NEW q \in Seq(Kinds), NEW S \in SUBSET DOMAIN q, NEW f \in InOrder(S), NEW k
  PROVE  Cardinality(PlacesOf([n \in DOMAIN f |-> q[f[n]]], k)) =
           Cardinality(PlacesOf(q, k) \cap S)
<1> DEFINE e == [n \in DOMAIN f |-> q[f[n]]]
           A == PlacesOf(e, k)
           B == PlacesOf(q, k) \cap S
           g == [n \in A |-> f[n]]
           c == Cardinality(S)
<1>1. /\ q \in Seq(Kinds) /\ Len(q) \in Nat /\ DOMAIN q = 1..Len(q)
  OBVIOUS
<1>2. c \in Nat
  <2>1. IsFiniteSet(1..Len(q)) BY <1>1, FS_Interval
  <2>2. IsFiniteSet(S) BY <1>1, <2>1, FS_Subset
  <2>3. QED BY <2>2, FS_CardinalityType
<1>3. /\ f \in [1..c -> S] /\ Range(f) = S
      /\ \A m, n \in DOMAIN f : m < n => f[m] < f[n]
  BY DEF InOrder
<1> HIDE DEF c
<1>4. /\ DOMAIN f = 1..c /\ DOMAIN e = 1..c
      /\ \A n \in 1..c : f[n] \in S /\ f[n] \in Int /\ e[n] = q[f[n]]
  BY <1>1, <1>3
<1>5. \A i \in S : \E n \in 1..c : f[n] = i
  BY <1>3, <1>4 DEF Range
<1>6. \A m, n \in 1..c : f[m] = f[n] => m = n
  BY <1>2, <1>3, <1>4
<1> HIDE DEF e
<1>7. IsFiniteSet(A)
  <2>1. IsFiniteSet(1..c) BY <1>2, FS_Interval
  <2>2. A \in SUBSET (1..c) BY <1>4 DEF PlacesOf
  <2>3. QED BY <2>1, <2>2, FS_Subset
<1>8. \A n \in A : n \in 1..c /\ q[f[n]] = k BY <1>4 DEF PlacesOf
<1>9. \A n \in A : f[n] \in B BY <1>4, <1>8 DEF PlacesOf
<1>10. g \in [A -> B] BY <1>9
<1>11. \A a, b \in A : g[a] = g[b] => a = b BY <1>6, <1>8
<1>12. ASSUME NEW b \in B PROVE \E a \in A : g[a] = b
  <2>1. b \in S /\ q[b] = k BY DEF PlacesOf
  <2>2. PICK n \in 1..c : f[n] = b BY <1>5, <2>1
  <2>3. n \in A BY <1>4, <2>1, <2>2 DEF PlacesOf
  <2>4. QED BY <2>2, <2>3
<1> HIDE DEF A, B, g
<1>13. Cardinality(B) = Cardinality(A) BY <1>7, <1>10, <1>11, <1>12, SameSize
<1>14. QED BY <1>13 DEF A, B, e

LEMMA TakenWaits ==
  ASSUME QueuesOK, NEW S \in SUBSET DOMAIN pending, TakeDue(S), NEW k
  PROVE  Waiting(k)' = Waiting(k)
<1> DEFINE P == PlacesOf(pending, k)
<1>1. PICK d \in InOrder(S), r \in InOrder(DOMAIN pending \ S) :
        /\ due' = [n \in DOMAIN d |-> pending[d[n]]]
        /\ pending' = [n \in DOMAIN r |-> pending[r[n]]]
  BY DEF TakeDue
<1>2. pending \in Seq(Kinds) /\ due = <<>> BY DEF QueuesOK, TakeDue, WorkerFree
<1>3. Cardinality(PlacesOf(due', k)) = Cardinality(P \cap S)
  BY <1>1, <1>2, SelectionWaits
<1>4. Cardinality(PlacesOf(pending', k)) = Cardinality(P \cap (DOMAIN pending \ S))
  <2> DEFINE R == DOMAIN pending \ S
  <2>1. R \in SUBSET DOMAIN pending OBVIOUS
  <2>2. r \in InOrder(R) OBVIOUS
  <2> HIDE DEF R
  <2>3. Cardinality(PlacesOf([n \in DOMAIN r |-> pending[r[n]]], k)) = Cardinality(P \cap R)
    BY <1>2, <2>1, <2>2, SelectionWaits
  <2>4. QED BY <1>1, <2>3 DEF R
<1>5. P \cap (DOMAIN pending \ S) = P \ S BY DEF PlacesOf
<1>6. IsFiniteSet(P) /\ Cardinality(P) \in Nat BY <1>2, PlacesFinite
<1>7. Cardinality(P \ S) = Cardinality(P) - Cardinality(P \cap S) BY <1>6, FS_Difference
<1>8. Cardinality(P \cap S) \in Nat
  <2>1. IsFiniteSet(P \cap S) BY <1>6, FS_Subset
  <2>2. QED BY <2>1, FS_CardinalityType
<1>9. Cardinality(PlacesOf(due, k)) = 0
  <2>1. PlacesOf(due, k) = {} BY <1>2 DEF PlacesOf
  <2>2. QED BY <2>1, FS_EmptySet
<1>10. Waiting(k)' = Cardinality(PlacesOf(pending', k)) + Cardinality(PlacesOf(due', k))
  BY DEF Waiting, PlacesOf
<1> HIDE DEF P
<1>11. Waiting(k)' = Cardinality(P)
  <2>1. \A a, b \in Nat : (a - b) + b = a OBVIOUS
  <2>2. Waiting(k)' = (Cardinality(P) - Cardinality(P \cap S)) + Cardinality(P \cap S)
    BY <1>3, <1>4, <1>5, <1>7, <1>10
  <2>3. QED BY <1>6, <1>8, <2>1, <2>2
<1>12. Waiting(k) = Cardinality(P) BY <1>6, <1>9 DEF Waiting, P
<1>13. QED BY <1>11, <1>12

LEMMA PatchWaits ==
  ASSUME ConnTypes, NEW t \in Clients, NEW k \in Kinds, NEW b \in Bodies, Patch(t, k, b)
  PROVE  ScheduledStep
<1> DEFINE st == Merge(staged[k], b)
<1>1. /\ staged' = [staged EXCEPT ![k] = st] /\ due' = due /\ patches' = patches + 1
      /\ pending' = IF st.mode = "scheduled" THEN Append(pending, k) ELSE pending
  BY DEF Patch
<1>2. pending \in Seq(Kinds) /\ due \in Seq(Kinds) /\ k \in DOMAIN staged
  BY DEF ConnTypes, QueuesOK, StagedOK
<1> HIDE DEF st
<1>3. ASSUME NEW j \in Kinds
      PROVE  \/ Waiting(j)' = Waiting(j)
             \/ /\ Waiting(j)' = Waiting(j) + 1
                /\ patches' = patches + 1 /\ staged'[j].mode = "scheduled"
  <2>1. /\ Cardinality(PlacesOf(pending, j)) \in Nat /\ Cardinality(PlacesOf(due, j)) \in Nat
    BY <1>2, PlacesFinite
  <2>2. Waiting(j)' = Cardinality(PlacesOf(pending', j)) + Cardinality(PlacesOf(due, j))
    BY <1>1 DEF Waiting, PlacesOf
  <2>3. CASE st.mode = "scheduled" /\ j = k
    <3>1. Cardinality(PlacesOf(pending', j)) = Cardinality(PlacesOf(pending, j)) + 1
      BY <1>1, <1>2, <2>1, <2>3, AppendWaits
    <3>2. Waiting(j)' = Waiting(j) + 1 BY <2>1, <2>2, <3>1 DEF Waiting
    <3>3. QED BY <1>1, <1>2, <2>3, <3>2
  <2>4. CASE ~(st.mode = "scheduled" /\ j = k)
    <3>1. Cardinality(PlacesOf(pending', j)) = Cardinality(PlacesOf(pending, j))
      BY <1>1, <1>2, <2>1, <2>4, AppendWaits
    <3>2. QED BY <2>2, <3>1 DEF Waiting
  <2>5. QED BY <2>3, <2>4
<1>4. QED BY <1>3 DEF ScheduledStep

LEMMA ActivateWaits == ASSUME ConnTypes, ActivateDue PROVE ScheduledStep
<1>1. /\ at[Worker] = "idle" /\ due # <<>> /\ due' = Tail(due) /\ pending' = pending
      /\ at' = [at EXCEPT ![Worker] = FirstStep(Head(due))]
      /\ job' = [job EXCEPT ![Worker].kind = Head(due)]
  BY DEF ActivateDue
<1>2. pending \in Seq(Kinds) /\ due \in Seq(Kinds) BY DEF ConnTypes, QueuesOK
<1>3. at'[Worker] = FirstStep(Head(due)) /\ job'[Worker].kind = Head(due)
  BY <1>1 DEF ConnTypes, ThreadsOK, Threads, Jobs
<1>4. ASSUME NEW j \in Kinds
      PROVE  \/ Waiting(j)' = Waiting(j)
             \/ Waiting(j)' = Waiting(j) - 1 /\ j = Head(due)
  <2>1. /\ Cardinality(PlacesOf(pending, j)) \in Nat /\ Cardinality(PlacesOf(due, j)) \in Nat
    BY <1>2, PlacesFinite
  <2>2. Waiting(j)' = Cardinality(PlacesOf(pending, j)) + Cardinality(PlacesOf(due', j))
    BY <1>1 DEF Waiting, PlacesOf
  <2>3. Cardinality(PlacesOf(due', j)) =
          Cardinality(PlacesOf(due, j)) - (IF Head(due) = j THEN 1 ELSE 0)
    BY <1>1, <1>2, TailWaits
  <2>4. QED BY <2>1, <2>2, <2>3 DEF Waiting
<1>5. QED BY <1>1, <1>3, <1>4 DEF ScheduledStep

LEMMA QueuesWait == ASSUME UNCHANGED <<pending, due>> PROVE ScheduledStep
  BY DEF ScheduledStep, Waiting, PlacesOf

(* process_scheduled_activations loses no scheduled activation and carries *)
(* out none twice: of each kind as many wait as before, also when some are *)
(* taken out while others stay, except that a PATCH adds its own and that  *)
(* the worker begins one for each it removes, for any number of clients    *)
(* and of entries due at once.                                             *)
THEOREM ScheduledKept == Spec => [][ScheduledStep]_vars
<1>1. ASSUME ConnInv, Next PROVE ScheduledStep
  <2>1. ConnTypes /\ QueuesOK BY <1>1 DEF ConnInv, ConnTypes
  <2>2. ASSUME NEW t \in Threads, Activation(t) PROVE ScheduledStep
    BY <2>2, QueuesWait DEF Activation, PromoteSender, RebuildDocument, Snapshot, Resolve,
       Promote, GetSink, AddSink, AddSinkRefused, Reset
  <2>3. CASE \E t \in Clients, k \in Kinds, b \in Bodies : Patch(t, k, b)
    BY <2>1, <2>3, PatchWaits
  <2>4. CASE \E t \in Clients : Activation(t) BY <2>2, <2>4 DEF Threads
  <2>5. CASE WorkerStep
    BY <2>1, <2>2, <2>5, ActivateWaits, QueuesWait
    DEF WorkerStep, Threads, HandleSinkRemoved, HandleSinkAdded
  <2>6. CASE \E S \in SUBSET DOMAIN pending : TakeDue(S)
    BY <2>1, <2>6, TakenWaits DEF ScheduledStep
  <2>7. CASE FullRegistration \/ PutSink \/ RemoveSink
    BY <2>7, QueuesWait DEF FullRegistration, PutSink, RemoveSink
  <2>8. QED BY <1>1, <2>3, <2>4, <2>5, <2>6, <2>7 DEF Next
<1>2. QED BY <1>1, ConnInvariant, PTL DEF Spec

(* What is kept aside for the worker is the sender the receiver shows, if  *)
(* it shows one.                                                           *)
KeptShown ==
  preserved = {} \/ \E p \in PeerOrNone :
    preserved = {p} /\ active["receiver"].peer \in {p, None}

(* A receiver comes to show another sender by the promotion of an enabled  *)
(* activation with that sender; or the worker, which rebuilds the receiver *)
(* from its sink, puts back the one kept aside where none was shown.       *)
ShownStep ==
  \A q \in Peers : active'["receiver"].peer = q /\ active["receiver"].peer # q =>
    \/ \E t \in Threads : /\ at[t] = "promote" /\ at'[t] = "get sink"
                          /\ job[t].enable = "on" /\ job[t].peer = q
    \/ /\ at[Worker] = "idle" /\ active["receiver"].peer = None
       /\ preserved = {q} /\ preserved' = {}

(* The steps that leave both alone.                                        *)
LEMMA ShownSame ==
  ASSUME KeptShown, preserved' = preserved,
         active'["receiver"].peer = active["receiver"].peer
  PROVE  KeptShown' /\ ShownStep
  BY DEF KeptShown, ShownStep

LEMMA ShownPromote ==
  ASSUME ConnTypes, KeptShown, NEW t \in Threads, Promote(t)
  PROVE  KeptShown' /\ ShownStep
<1>1. CASE ~present BY <1>1, ShownSame DEF Promote
<1>2. CASE present
  <2>1. /\ at[t] = "promote" /\ preserved' = {Promoted(job[t])}
        /\ active' = [active EXCEPT !["receiver"] =
                        [enable |-> job[t].enable, peer |-> Promoted(job[t])]]
        /\ at' = [at EXCEPT ![t] = "get sink"]
    BY <1>2 DEF Promote
  <2>2. active'["receiver"].peer = Promoted(job[t]) /\ at'[t] = "get sink"
    BY <2>1 DEF ConnTypes, ActiveOK, Kinds, ThreadsOK
  <2>3. \A q \in Peers : Promoted(job[t]) = q => job[t].enable = "on" /\ job[t].peer = q
    BY ConnectionConstants DEF Promoted
  <2>4. Promoted(job[t]) \in PeerOrNone
    BY DEF ConnTypes, ThreadsOK, Jobs, Promoted, PeerOrNone
  <2>5. QED BY <2>1, <2>2, <2>3, <2>4 DEF KeptShown, ShownStep
<1>3. QED BY <1>1, <1>2

(* A rebuild of the receiver from its sink.                                *)
LEMMA ShownRebuilt ==
  ASSUME ConnTypes, KeptShown, at[Worker] = "idle", preserved' = {},
         active'["receiver"].peer = Restored
  PROVE  KeptShown' /\ ShownStep
<1>1. KeptShown' BY DEF KeptShown
<1>2. ASSUME NEW q \in Peers, active'["receiver"].peer = q, active["receiver"].peer # q
      PROVE  active["receiver"].peer = None /\ preserved = {q}
  <2>1. q # None BY ConnectionConstants
  <2>2. preserved # {} /\ q \in preserved BY <1>2, <2>1 DEF Restored
  <2>3. preserved = {q}
    BY <2>2 DEF KeptShown
  <2>4. QED BY <1>2, <2>2, <2>3 DEF KeptShown
<1>3. QED BY <1>1, <1>2 DEF ShownStep

LEMMA ShownNext ==
  ASSUME ConnTypes, KeptShown, [Next]_vars
  PROVE  KeptShown' /\ ShownStep
<1>1. active \in [Kinds -> [enable : {"on", "off"}, peer : PeerOrNone]]
      /\ "receiver" \in Kinds /\ "sender" \in Kinds /\ "receiver" # "sender"
  BY DEF ConnTypes, ActiveOK, Kinds
<1>2. CASE UNCHANGED <<active, preserved>> BY <1>2, ShownSame
<1>3. ASSUME NEW t \in Threads, Activation(t) PROVE KeptShown' /\ ShownStep
  <2>1. CASE Promote(t) BY <2>1, ShownPromote
  <2>2. CASE PromoteSender(t)
    <3>1. active'["receiver"] = active["receiver"] /\ preserved' = preserved
      BY <1>1, <2>2 DEF PromoteSender
    <3>2. QED BY <3>1, ShownSame
  <2>3. CASE \/ RebuildDocument(t) \/ Snapshot(t) \/ Resolve(t) \/ GetSink(t)
             \/ AddSink(t) \/ AddSinkRefused(t) \/ Reset(t)
    BY <1>2, <2>3 DEF RebuildDocument, Snapshot, Resolve, GetSink, AddSink, AddSinkRefused, Reset
  <2>4. QED BY <1>3, <2>1, <2>2, <2>3 DEF Activation
<1>4. CASE HandleSinkRemoved
  <2>1. /\ active' = [active EXCEPT !["receiver"] = [enable |-> "off", peer |-> None]]
        /\ preserved' = preserved
    BY <1>4 DEF HandleSinkRemoved
  <2>2. active'["receiver"].peer = None BY <1>1, <2>1
  <2>3. None \notin Peers BY ConnectionConstants
  <2>4. QED BY <2>1, <2>2, <2>3 DEF KeptShown, ShownStep
<1>5. CASE HandleSinkAdded
  <2>1. at[Worker] = "idle" /\ RegisterSinkLocal BY <1>5 DEF HandleSinkAdded, WorkerFree
  <2>2. CASE sink = None BY <1>2, <2>1, <2>2 DEF RegisterSinkLocal
  <2>3. CASE sink # None
    <3>1. /\ preserved' = {}
          /\ active' = [active EXCEPT !["receiver"] = [enable |-> Connected, peer |-> Restored]]
      BY <2>1, <2>3 DEF RegisterSinkLocal, Restored
    <3>2. active'["receiver"].peer = Restored BY <1>1, <3>1
    <3>3. QED BY <2>1, <3>1, <3>2, ShownRebuilt
  <2>4. QED BY <2>2, <2>3
<1>6. CASE FullRegistration
  <2>1. at[Worker] = "idle" BY <1>6 DEF FullRegistration, WorkerFree
  <2>2. CASE sink = None
    <3>1. active'["receiver"] = active["receiver"] /\ preserved' = preserved
      BY <1>1, <1>6, <2>2 DEF FullRegistration
    <3>2. QED BY <3>1, ShownSame
  <2>3. CASE sink # None
    <3>1. preserved' = {} /\ active'["receiver"].peer = Restored
      <4>1. /\ preserved' = {}
            /\ active' = [k \in Kinds |->
                 [enable |-> IF k = "sender" THEN "on" ELSE Connected,
                  peer |-> IF k = "sender" THEN active[k].peer ELSE Restored]]
        BY <1>6, <2>3 DEF FullRegistration, Restored
      <4> QED BY <1>1, <4>1
    <3>2. QED BY <2>1, <3>1, ShownRebuilt
  <2>4. QED BY <2>2, <2>3
<1>7. ASSUME NEW t \in Clients, NEW k \in Kinds, NEW b \in Bodies, Patch(t, k, b)
      PROVE  KeptShown' /\ ShownStep
  BY <1>2, <1>7 DEF Patch
<1>8. CASE ActivateDue \/ PutSink \/ RemoveSink \/ UNCHANGED vars
  BY <1>2, <1>8 DEF ActivateDue, PutSink, RemoveSink, vars
<1>9. ASSUME NEW S \in SUBSET DOMAIN pending, TakeDue(S) PROVE KeptShown' /\ ShownStep
  BY <1>2, <1>9 DEF TakeDue
<1>10. \A t \in Clients \cup {Worker} : t \in Threads BY DEF Threads
<1>11. QED BY <1>3, <1>4, <1>5, <1>6, <1>7, <1>8, <1>9, <1>10 DEF Next, WorkerStep

(* register_sink_local, which rebuilds the receiver on every event of its  *)
(* sink and on a full registration, never connects it to a sender of its   *)
(* own accord: a receiver comes to show another sender only when           *)
(* apply_receiver_activation promotes it, or when what that promotion kept *)
(* aside in preserved_active_sender_ids_ is put back once.                 *)
THEOREM RebuildNeverSwitches == Spec => [][ShownStep]_vars
<1>1. Init => KeptShown BY DEF Init, KeptShown
<1>2. ConnInv => ConnTypes BY DEF ConnInv
<1>3. ConnTypes /\ KeptShown /\ [Next]_vars => KeptShown' /\ ShownStep BY ShownNext
<1>4. QED BY <1>1, <1>2, <1>3, ConnInvariant, PTL DEF Spec

-----------------------------------------------------------------------------
(* IS-12: device control (Is12Control).                                    *)

CONSTANTS Sessions, Receivers, Senders, Conditions, Start, Dual, Asked, MaxChanges,
          MaxRequests

VARIABLES members, condition, counters, sessions, phase, writer, subscribed, outbox,
          round, last_known, told, requests, adrift, recorded, changes

Ctl == INSTANCE Is12Control

(* Statuses, what is known of a monitor, and the look a thread is taking.  *)
Status == [Ctl!Aspects -> 0..3]
Props == [status : Status \cup {<<>>}, count : [Ctl!Aspects -> Nat] \cup {<<>>},
          auto_reset : BOOLEAN]
Lookups == [monitor : Ctl!Monitors \cup {0}, aspect : 0..4, enabled : BOOLEAN, props : Props]
Counter == [seen : [Ctl!Aspects -> -1..3], count : [Ctl!Aspects -> Nat],
            auto_reset : BOOLEAN]

Places == {"idle", "compute", "count", "looked", "collect", "compare", "push"}
Looking(t) == at[t] \in {"compute", "count", "looked"}

TablesOK ==
  /\ members \subseteq Ctl!Monitors /\ active \in [Ctl!Monitors -> BOOLEAN]
  /\ changes \in 0..MaxChanges

LooksOK ==
  /\ at \in [Ctl!Threads -> Places] /\ job \in [Ctl!Threads -> Lookups]
  /\ \A t \in Ctl!Threads :
       /\ Looking(t) => job[t].monitor \in Ctl!Monitors
       /\ at[t] = "count" => job[t].props.status \in Status

CountsOK ==
  /\ counters \in [Ctl!Monitors -> Counter]
  /\ recorded \in [Ctl!Monitors -> [Ctl!Aspects -> Nat]]

(* A reader leaves its session only when it has nothing in hand.           *)
SessionOK(s) ==
  /\ phase[s] \in {"off", "open", "closing", "gone"}
  /\ (s \in sessions) = (phase[s] \in {"open", "closing"})
  /\ s \in writer => s \in sessions
  /\ at[s] = "idle" \/ (Looking(s) /\ phase[s] = "open")

SessionsOK == DOMAIN phase = Sessions /\ \A s \in Sessions : SessionOK(s)

(* The worker's round: a monitor is still to do, being looked at or seen,  *)
(* and what was compared is what is remembered.                            *)
RoundShape ==
  /\ DOMAIN round = {"todo", "seen", "copy", "push"}
  /\ round.todo \subseteq Ctl!Monitors /\ DOMAIN round.seen \subseteq Ctl!Monitors
  /\ DOMAIN last_known \subseteq Ctl!Monitors

RoundPlace ==
  /\ at[Worker] = "idle" => DOMAIN round.seen = {}
  /\ Looking(Worker) \/ at[Worker] = "collect" => round.todo \cap DOMAIN round.seen = {}
  /\ Looking(Worker) => job[Worker].monitor \notin round.todo \cup DOMAIN round.seen
  /\ at[Worker] \in {"compare", "push"} =>
       /\ round.todo \subseteq DOMAIN round.seen
       /\ \A m \in DOMAIN round.seen \ round.todo :
            m \in DOMAIN last_known /\ last_known[m] = round.seen[m]
  /\ at[Worker] = "push" => job[Worker].monitor \in round.todo

(* What the worker knows of a monitor, and its newer look, if it has one.  *)
Known(m) == IF m \in DOMAIN last_known THEN last_known[m] ELSE Ctl!NoProps
Newer(m) ==
  IF at[Worker] = "looked" /\ job[Worker].monitor = m THEN job[Worker].props
  ELSE IF m \in DOMAIN round.seen THEN round.seen[m] ELSE Ctl!NoProps

(* The count c of a status has room for the changes r recorded, for the    *)
(* one between the looks l and n and for the one since the last look: s is *)
(* the status seen by whoever looked last.                                 *)
Covered(l, n, k, s, r, c) ==
  /\ r <= c
  /\ n # Ctl!NoProps /\ n.status[k] # s => r + 1 <= c
  /\ l # Ctl!NoProps /\ n = Ctl!NoProps /\ l.status[k] # s => r + 1 <= c
  /\ l # Ctl!NoProps /\ n # Ctl!NoProps /\ l.status[k] # n.status[k] => r + 1 <= c
  /\ l # Ctl!NoProps /\ n # Ctl!NoProps /\ l.status[k] # n.status[k] /\ n.status[k] # s =>
       r + 2 <= c
  /\ l # Ctl!NoProps \/ n # Ctl!NoProps => s # -1

Cover(m, k) ==
  Covered(Known(m), Newer(m), k, counters[m].seen[k], recorded[m][k], counters[m].count[k])

Covers == \A m \in Ctl!Monitors, k \in Ctl!Aspects : Cover(m, k)

CtlInv ==
  TablesOK /\ LooksOK /\ CountsOK /\ SessionsOK /\ RoundShape /\ RoundPlace /\ Covers

-----------------------------------------------------------------------------
(* Every status computed is one of the four.                               *)
LEMMA LegsType == ASSUME NEW leg PROVE Ctl!ByLegs(leg) \in 0..3 /\ Ctl!ByPrimary(leg) \in 0..3
BY DEF Ctl!ByLegs, Ctl!ByPrimary, Ctl!Healthy, Ctl!PartiallyHealthy, Ctl!Unhealthy

LEMMA DisciplineType == ASSUME NEW d PROVE Ctl!Discipline(d) \in 0..3
<1>1. CASE d = "locked" BY <1>1 DEF Ctl!Discipline, Ctl!Healthy
<1>2. CASE d # "locked" /\ d = "locking" BY <1>2 DEF Ctl!Discipline, Ctl!PartiallyHealthy
<1>3. CASE d # "locked" /\ d # "locking" BY <1>3 DEF Ctl!Discipline, Ctl!Unhealthy
<1>4. QED BY <1>1, <1>2, <1>3

LEMMA StreamType == ASSUME NEW c PROVE Ctl!StreamStatus(c) \in 0..3
<1>1. CASE c.muted = "all" BY <1>1 DEF Ctl!StreamStatus, Ctl!Unhealthy
<1>2. CASE c.muted # "all" /\ c.muted = "some"
  BY <1>2 DEF Ctl!StreamStatus, Ctl!PartiallyHealthy
<1>3. CASE c.muted # "all" /\ c.muted # "some" BY <1>3 DEF Ctl!StreamStatus, Ctl!Healthy
<1>4. QED BY <1>1, <1>2, <1>3

LEMMA StatusesType ==
  ASSUME NEW m, NEW e, NEW c
  PROVE  Ctl!Statuses(m, e, c) \in Status
<1>1. Ctl!LinkStatus(c) \in 0..3 BY LegsType DEF Ctl!LinkStatus
<1>2. Ctl!FlowStatus(c) \in 0..3
  <2>1. Ctl!PartiallyHealthy \in 0..3 BY DEF Ctl!PartiallyHealthy
  <2>2. QED BY <2>1, LegsType DEF Ctl!FlowStatus
<1>3. Ctl!SyncStatus(c) \in 0..3
  <2>1. Ctl!PartiallyHealthy \in 0..3 BY DEF Ctl!PartiallyHealthy
  <2>2. QED BY <2>1, DisciplineType DEF Ctl!SyncStatus
<1>4. Ctl!StreamStatus(c) \in 0..3 /\ Ctl!EssenceStatus(c) \in 0..3
  BY StreamType, LegsType DEF Ctl!EssenceStatus
<1>5. CASE ~e BY <1>5 DEF Ctl!Statuses, Status, Ctl!Aspects, Ctl!Inactive
<1>6. CASE e
  <2> DEFINE last == IF m \in Receivers THEN Ctl!StreamStatus(c) ELSE Ctl!EssenceStatus(c)
  <2>1. Ctl!Statuses(m, e, c) = << Ctl!LinkStatus(c), Ctl!FlowStatus(c), Ctl!SyncStatus(c), last >>
    BY <1>6 DEF Ctl!Statuses
  <2>2. last \in 0..3 BY <1>4
  <2> HIDE DEF last
  <2>3. QED BY <2>1, <2>2, <1>1, <1>2, <1>3 DEF Status, Ctl!Aspects
<1>7. QED BY <1>5, <1>6

(* A computed look is not the empty one.                                   *)
LEMMA LookedIsSome ==
  ASSUME NEW st \in [Ctl!Aspects -> -1..3], NEW c, NEW a
  PROVE  [status |-> st, count |-> c, auto_reset |-> a] # Ctl!NoProps
<1>1. st # <<>>
  <2>1. 1 \in DOMAIN st BY DEF Ctl!Aspects
  <2>2. 1 \notin DOMAIN <<>> OBVIOUS
  <2>3. QED BY <2>1, <2>2
<1>2. [status |-> st, count |-> c, auto_reset |-> a].status # Ctl!NoProps.status
  BY <1>1 DEF Ctl!NoProps
<1>3. QED BY <1>2

LEMMA NoPropsType == Ctl!NoProps \in Props /\ Ctl!NoJob \in Lookups
BY DEF Ctl!NoProps, Ctl!NoJob, Props, Lookups

(* What happens to the cover of one status: another thread counts what it  *)
(* saw, the worker does, remembers it, and forgets.                        *)
LEMMA CoveredCounts ==
  ASSUME NEW l, NEW n, NEW k, NEW s \in -1..3, NEW st \in 0..3, NEW r \in Nat, NEW c \in Nat,
         Covered(l, n, k, s, r, c)
  PROVE  Covered(l, n, k, st, r, IF s \notin {-1, st} THEN c + 1 ELSE c)
<1> DEFINE L == l # Ctl!NoProps
           N == n # Ctl!NoProps
           d == l.status[k]
           e == n.status[k]
<1>1. /\ r <= c /\ (N /\ e # s => r + 1 <= c) /\ (L /\ ~N /\ d # s => r + 1 <= c)
      /\ (L /\ N /\ d # e => r + 1 <= c) /\ (L /\ N /\ d # e /\ e # s => r + 2 <= c)
      /\ (L \/ N => s # -1)
  BY DEF Covered
<1> SUFFICES LET f == IF s \notin {-1, st} THEN c + 1 ELSE c
             IN /\ r <= f /\ (N /\ e # st => r + 1 <= f) /\ (L /\ ~N /\ d # st => r + 1 <= f)
                /\ (L /\ N /\ d # e => r + 1 <= f) /\ (L /\ N /\ d # e /\ e # st => r + 2 <= f)
                /\ (L \/ N => st # -1)
  BY DEF Covered
<1> HIDE DEF L, N, d, e
<1>2. CASE s \in {-1, st} BY <1>1, <1>2
<1>3. CASE s \notin {-1, st} BY <1>1, <1>3
<1>4. QED BY <1>2, <1>3

LEMMA CoveredLooks ==
  ASSUME NEW l, NEW n, NEW k, NEW s \in -1..3, NEW st \in 0..3, NEW r \in Nat, NEW c \in Nat,
         Covered(l, Ctl!NoProps, k, s, r, c), n # Ctl!NoProps, n.status[k] = st
  PROVE  Covered(l, n, k, st, r, IF s \notin {-1, st} THEN c + 1 ELSE c)
<1> DEFINE L == l # Ctl!NoProps
           d == l.status[k]
<1>1. r <= c /\ (L /\ d # s => r + 1 <= c) /\ (L => s # -1)
  BY DEF Covered
<1> SUFFICES LET f == IF s \notin {-1, st} THEN c + 1 ELSE c
             IN r <= f /\ (L /\ d # st => r + 1 <= f)
  BY DEF Covered
<1> HIDE DEF L, d
<1>2. CASE s \in {-1, st} BY <1>1, <1>2
<1>3. CASE s \notin {-1, st} BY <1>1, <1>3
<1>4. QED BY <1>2, <1>3

LEMMA CoveredRemembers ==
  ASSUME NEW l, NEW n, NEW k, NEW s \in -1..3, NEW r \in Nat, NEW c \in Nat,
         Covered(l, n, k, s, r, c)
  PROVE  Covered(n, n, k, s,
           IF l # Ctl!NoProps /\ n # Ctl!NoProps /\ l.status[k] # n.status[k]
           THEN r + 1 ELSE r, c)
<1> DEFINE L == l # Ctl!NoProps
           N == n # Ctl!NoProps
           d == l.status[k]
           e == n.status[k]
<1>1. /\ r <= c /\ (N /\ e # s => r + 1 <= c) /\ (L /\ N /\ d # e => r + 1 <= c)
      /\ (L /\ N /\ d # e /\ e # s => r + 2 <= c) /\ (N => s # -1)
  BY DEF Covered
<1> SUFFICES LET f == IF L /\ N /\ d # e THEN r + 1 ELSE r
             IN f <= c /\ (N /\ e # s => f + 1 <= c) /\ (N => s # -1)
  BY DEF Covered
<1> HIDE DEF L, N, d, e
<1>2. QED BY <1>1

LEMMA CoveredForgets ==
  ASSUME NEW l, NEW n, NEW k, NEW s, NEW r, NEW c
  PROVE  /\ Covered(n, n, k, s, r, c) => Covered(n, Ctl!NoProps, k, s, r, c)
         /\ Covered(l, Ctl!NoProps, k, s, r, c)
              => Covered(Ctl!NoProps, Ctl!NoProps, k, s, r, c)
BY DEF Covered

-----------------------------------------------------------------------------
(* The parts of the invariant that a step leaves alone.                    *)
LEMMA RoundSame ==
  ASSUME RoundShape, RoundPlace, at'[Worker] = at[Worker], job'[Worker] = job[Worker],
         round' = round, last_known' = last_known
  PROVE  /\ RoundShape' /\ RoundPlace'
         /\ \A m : Known(m)' = Known(m) /\ Newer(m)' = Newer(m)
<1>1. RoundShape' BY DEF RoundShape, Ctl!Monitors
<1>2. RoundPlace' BY DEF RoundPlace, Looking
<1>3. \A m : Known(m)' = Known(m) /\ Newer(m)' = Newer(m) BY DEF Known, Newer, Ctl!NoProps
<1>4. QED BY <1>1, <1>2, <1>3

LEMMA CoverSame ==
  ASSUME NEW m \in Ctl!Monitors, NEW k \in Ctl!Aspects, Cover(m, k), recorded'[m] = recorded[m],
         counters'[m].seen[k] = counters[m].seen[k],
         counters'[m].count[k] = counters[m].count[k],
         Known(m)' = Known(m), Newer(m)' = Newer(m)
  PROVE  Cover(m, k)'
<1> DEFINE s == counters[m].seen[k]
           c == counters[m].count[k]
           r == recorded[m][k]
           l == Known(m)
           n == Newer(m)
<1>1. Covered(l, n, k, s, r, c) BY DEF Cover
<1>2. s' = s /\ c' = c /\ r' = r /\ l' = l /\ n' = n OBVIOUS
<1>3. Cover(m, k)' = Covered(l', n', k, s', r', c') BY DEF Cover, Covered, Ctl!NoProps
<1> HIDE DEF s, c, r, l, n
<1>4. QED BY <1>1, <1>2, <1>3

LEMMA CoversSame ==
  ASSUME RoundShape, RoundPlace, Covers, at'[Worker] = at[Worker],
         job'[Worker] = job[Worker], round' = round, last_known' = last_known,
         recorded' = recorded, counters' = counters
  PROVE  RoundShape' /\ RoundPlace' /\ Covers'
<1>1. /\ RoundShape' /\ RoundPlace'
      /\ \A m : Known(m)' = Known(m) /\ Newer(m)' = Newer(m)
  BY RoundSame
<1>2. ASSUME NEW m \in Ctl!Monitors, NEW k \in Ctl!Aspects PROVE Cover(m, k)'
  <2>1. Cover(m, k) BY DEF Covers
  <2>2. QED BY <1>1, <2>1, CoverSame
<1>3. Covers' BY <1>2 DEF Covers, Ctl!Monitors, Ctl!Aspects
<1>4. QED BY <1>1, <1>3

LEMMA TablesSame == TablesOK /\ UNCHANGED Ctl!tables => TablesOK'
BY DEF TablesOK, Ctl!tables, Ctl!Monitors

LEMMA LooksSame == LooksOK /\ UNCHANGED <<at, job>> => LooksOK'
BY DEF LooksOK, Looking, Places, Lookups, Props, Status, Ctl!Threads, Ctl!Monitors, Ctl!Aspects

LEMMA CountsSame == CountsOK /\ UNCHANGED <<counters, recorded>> => CountsOK'
BY DEF CountsOK, Counter, Ctl!Monitors, Ctl!Aspects

LEMMA SessionsSame ==
  ASSUME SessionsOK, phase' = phase, sessions' = sessions, writer' = writer,
         \A s \in Sessions : at'[s] = at[s]
  PROVE  SessionsOK'
BY DEF SessionsOK, SessionOK, Looking

-----------------------------------------------------------------------------
LEMMA ControlInit == ASSUME Ctl!ControlConstants, Ctl!Init PROVE CtlInv
<1>1. TablesOK BY DEF Ctl!Init, TablesOK, Ctl!ControlConstants
<1>2. LooksOK
  <2>1. Ctl!NoJob \in Lookups BY NoPropsType
  <2>2. \A t \in Ctl!Threads : at[t] = "idle" BY DEF Ctl!Init
  <2>3. QED BY <2>1, <2>2 DEF Ctl!Init, LooksOK, Looking, Places
<1>3. CountsOK
  <2>1. Ctl!Unseen \in Counter BY DEF Ctl!Unseen, Counter, Ctl!Aspects
  <2>2. QED BY <2>1 DEF Ctl!Init, CountsOK
<1>4. SessionsOK BY DEF Ctl!Init, SessionsOK, SessionOK, Ctl!Threads
<1>5. RoundShape BY DEF Ctl!Init, RoundShape, Ctl!NoRound
<1>6. RoundPlace BY DEF Ctl!Init, RoundPlace, Looking, Ctl!NoRound, Ctl!Threads
<1>7. Covers
  <2> SUFFICES ASSUME NEW m \in Ctl!Monitors, NEW k \in Ctl!Aspects PROVE Cover(m, k)
    BY DEF Covers
  <2>1. Known(m) = Ctl!NoProps BY DEF Ctl!Init, Known
  <2>2. Newer(m) = Ctl!NoProps BY DEF Ctl!Init, Newer, Ctl!NoRound, Ctl!Threads
  <2>3. counters[m].count[k] = 0 /\ recorded[m][k] = 0 BY DEF Ctl!Init, Ctl!Unseen
  <2>4. QED BY <2>1, <2>2, <2>3 DEF Cover, Covered
<1>8. QED BY <1>1, <1>2, <1>3, <1>4, <1>5, <1>6, <1>7 DEF CtlInv

(* The monitored system.                                                   *)
LEMMA SurroundingsKeep ==
  ASSUME Ctl!ControlConstants, CtlInv, Ctl!Surroundings PROVE CtlInv'
<1>1. UNCHANGED <<Ctl!conns, Ctl!looks, Ctl!work>> /\ TablesOK'
  <2>1. PICK m \in Ctl!Monitors : \/ \E c \in Conditions : Ctl!Turns(m, c)
                                  \/ Ctl!Enable(m) \/ Ctl!Come(m) \/ Ctl!Go(m)
    BY DEF Ctl!Surroundings
  <2>2. Ctl!Happens BY <2>1 DEF Ctl!Turns, Ctl!Enable, Ctl!Come, Ctl!Go
  <2>3. changes' \in 0..MaxChanges
    BY <2>2 DEF Ctl!Happens, CtlInv, TablesOK, Ctl!ControlConstants
  <2>4. members' \subseteq Ctl!Monitors
    BY <2>1 DEF Ctl!Turns, Ctl!Enable, Ctl!Come, Ctl!Go, CtlInv, TablesOK
  <2>5. active' \in [Ctl!Monitors -> BOOLEAN]
    <3>1. active \in [Ctl!Monitors -> BOOLEAN] BY DEF CtlInv, TablesOK
    <3>2. \/ active' = active \/ active' = [active EXCEPT ![m] = ~@]
          \/ active' = [active EXCEPT ![m] = TRUE]
      BY <2>1 DEF Ctl!Turns, Ctl!Enable, Ctl!Come, Ctl!Go
    <3>3. (~active[m]) \in BOOLEAN OBVIOUS
    <3>4. QED BY <3>1, <3>2, <3>3
  <2>6. QED BY <2>2, <2>3, <2>4, <2>5 DEF Ctl!Happens, TablesOK, Ctl!Monitors
<1>2. LooksOK' /\ CountsOK'
  BY <1>1, LooksSame, CountsSame DEF CtlInv, Ctl!looks, Ctl!work
<1>3. SessionsOK' BY <1>1, SessionsSame DEF CtlInv, Ctl!conns, Ctl!looks
<1>4. RoundShape' /\ RoundPlace' /\ Covers'
  BY <1>1, CoversSame DEF CtlInv, Ctl!looks, Ctl!work
<1>5. QED BY <1>1, <1>2, <1>3, <1>4 DEF CtlInv

(* Connections, writers, and the requests that only answer.                *)
LEMMA ConnectionsKeep ==
  ASSUME Ctl!ControlConstants, CtlInv, NEW s \in Sessions,
         \/ Ctl!Connect(s) \/ Ctl!Disconnect(s) \/ Ctl!Leave(s) \/ Ctl!Writer(s)
         \/ Ctl!Other(s) \/ \E S \in SUBSET Ctl!Monitors : Ctl!Subscribe(s, S)
  PROVE  CtlInv'
<1>1. UNCHANGED <<Ctl!tables, Ctl!looks, Ctl!work>>
  BY DEF Ctl!Connect, Ctl!Disconnect, Ctl!Leave, Ctl!Freed, Ctl!Writer, Ctl!Write, Ctl!WriteFails,
         Ctl!WriterEnds, Ctl!Other, Ctl!Subscribe
<1>2. TablesOK' /\ LooksOK' /\ CountsOK'
  BY <1>1, TablesSame, LooksSame, CountsSame DEF CtlInv, Ctl!looks, Ctl!work
<1>3. RoundShape' /\ RoundPlace' /\ Covers'
  BY <1>1, CoversSame DEF CtlInv, Ctl!looks, Ctl!work
<1>4. SessionsOK'
  <2>1. at' = at /\ SessionsOK BY <1>1 DEF Ctl!looks, CtlInv
  <2>2. CASE Ctl!Connect(s)
    BY <2>1, <2>2 DEF SessionsOK, SessionOK, Looking, Ctl!Connect
  <2>3. CASE Ctl!Disconnect(s)
    BY <2>1, <2>3 DEF SessionsOK, SessionOK, Looking, Ctl!Disconnect
  <2>4. CASE Ctl!Leave(s)
    BY <2>1, <2>4 DEF SessionsOK, SessionOK, Looking, Ctl!Leave, Ctl!Freed
  <2>5. CASE Ctl!Write(s) \/ Ctl!Other(s) \/ \E S \in SUBSET Ctl!Monitors : Ctl!Subscribe(s, S)
    <3>1. phase' = phase /\ sessions' = sessions /\ writer' = writer
      BY <2>5 DEF Ctl!Write, Ctl!Other, Ctl!Subscribe
    <3>2. QED BY <2>1, <3>1, SessionsSame
  <2>6. CASE Ctl!WriteFails(s) \/ Ctl!WriterEnds(s)
    <3>1. phase' = phase /\ sessions' = sessions /\ writer' = writer \ {s}
      BY <2>6 DEF Ctl!WriteFails, Ctl!WriterEnds
    <3>2. QED BY <2>1, <3>1 DEF SessionsOK, SessionOK, Looking
  <2>7. QED BY <2>2, <2>3, <2>4, <2>5, <2>6 DEF Ctl!Writer
<1>5. QED BY <1>2, <1>3, <1>4 DEF CtlInv

-----------------------------------------------------------------------------
(* A thread goes to place p with the look j in hand.                       *)
LEMMA LooksStep ==
  ASSUME LooksOK, NEW t \in Ctl!Threads, NEW p \in Places, NEW j \in Lookups,
         at' = [at EXCEPT ![t] = p], job' = [job EXCEPT ![t] = j],
         p \in {"compute", "count", "looked"} => j.monitor \in Ctl!Monitors,
         p = "count" => j.props.status \in Status
  PROVE  LooksOK'
<1>1. at' \in [Ctl!Threads -> Places] /\ job' \in [Ctl!Threads -> Lookups] BY DEF LooksOK
<1>2. at'[t] = p /\ job'[t] = j BY DEF LooksOK
<1>3. \A u \in Ctl!Threads : u # t => at'[u] = at[u] /\ job'[u] = job[u] BY DEF LooksOK
<1>4. \A u \in Ctl!Threads :
        /\ at'[u] \in {"compute", "count", "looked"} => job'[u].monitor \in Ctl!Monitors
        /\ at'[u] = "count" => job'[u].props.status \in Status
  <2> SUFFICES ASSUME NEW u \in Ctl!Threads
               PROVE /\ at'[u] \in {"compute", "count", "looked"} => job'[u].monitor \in Ctl!Monitors
                     /\ at'[u] = "count" => job'[u].props.status \in Status
    OBVIOUS
  <2>1. CASE u = t BY <1>2, <2>1
  <2>2. CASE u # t BY <1>3, <2>2 DEF LooksOK, Looking
  <2>3. QED BY <2>1, <2>2
<1>5. QED
  <2>1. Ctl!Threads' = Ctl!Threads /\ Places' = Places /\ Lookups' = Lookups
        /\ Ctl!Monitors' = Ctl!Monitors /\ Status' = Status
    BY DEF Ctl!Threads, Places, Lookups, Props, Status, Ctl!Monitors, Ctl!Aspects
  <2>2. QED BY <1>1, <1>4, <2>1 DEF LooksOK, Looking

LEMMA SessionsStep ==
  ASSUME SessionsOK, LooksOK, NEW s \in Sessions, NEW p, at' = [at EXCEPT ![s] = p],
         phase' = phase, sessions' = sessions, writer' = writer,
         p = "idle" \/ (p \in {"compute", "count", "looked"} /\ phase[s] = "open")
  PROVE  SessionsOK'
<1>1. at'[s] = p /\ \A u \in Sessions : u # s => at'[u] = at[u] BY DEF LooksOK, Ctl!Threads
<1>2. QED BY <1>1 DEF SessionsOK, SessionOK, Looking

LEMMA LookType ==
  ASSUME TablesOK, NEW m \in Ctl!Monitors, NEW k \in 0..4
  PROVE  LET j == [Ctl!NoJob EXCEPT !.monitor = m, !.aspect = k, !.enabled = active[m]]
         IN  j \in Lookups /\ j.monitor = m /\ j.props = Ctl!NoProps
<1>1. active[m] \in BOOLEAN BY DEF TablesOK
<1>2. Ctl!NoJob \in Lookups /\ Ctl!NoJob.props = Ctl!NoProps BY NoPropsType DEF Ctl!NoJob
<1>3. ASSUME NEW x \in Lookups, NEW e \in BOOLEAN
      PROVE  LET j == [x EXCEPT !.monitor = m, !.aspect = k, !.enabled = e]
             IN  j \in Lookups /\ j.monitor = m /\ j.props = x.props
  BY DEF Lookups
<1>4. QED BY <1>1, <1>2, <1>3

LEMMA OthersLook ==
  ASSUME LooksOK, Ctl!ControlConstants, NEW s \in Sessions, NEW p, NEW j,
         at' = [at EXCEPT ![s] = p], job' = [job EXCEPT ![s] = j]
  PROVE  at'[Worker] = at[Worker] /\ job'[Worker] = job[Worker]
BY DEF LooksOK, Ctl!Threads, Ctl!ControlConstants

(* A client's question about a monitor, its answer, and a Set.             *)
LEMMA GetKeeps ==
  ASSUME Ctl!ControlConstants, CtlInv, NEW s \in Sessions, NEW m \in Ctl!Monitors, NEW k \in Asked,
         Ctl!Get(s, m, k)
  PROVE  CtlInv'
<1> DEFINE j == [Ctl!NoJob EXCEPT !.monitor = m, !.aspect = k, !.enabled = active[m]]
           p == IF m \in members THEN "compute" ELSE "looked"
<1>1. /\ TablesOK /\ LooksOK /\ CountsOK /\ SessionsOK /\ RoundShape /\ RoundPlace /\ Covers
      /\ s \in Ctl!Threads
  BY DEF CtlInv, Ctl!Threads
<1>2. /\ at' = [at EXCEPT ![s] = p] /\ job' = [job EXCEPT ![s] = j] /\ counters' = counters
      /\ UNCHANGED <<Ctl!tables, Ctl!work, sessions, phase, writer>> /\ phase[s] = "open"
  BY DEF Ctl!Get, Ctl!Look, Ctl!Asks
<1>3. j \in Lookups /\ j.monitor = m
  <2>1. k \in 0..4 BY DEF Ctl!ControlConstants
  <2>2. QED BY <1>1, <2>1, LookType
<1>4. p \in {"compute", "looked"} OBVIOUS
<1> HIDE DEF j, p
<1>5. LooksOK' BY <1>1, <1>2, <1>3, <1>4, LooksStep DEF Places
<1>6. SessionsOK' BY <1>1, <1>2, <1>4, SessionsStep
<1>7. at'[Worker] = at[Worker] /\ job'[Worker] = job[Worker] BY <1>1, <1>2, OthersLook
<1>8. RoundShape' /\ RoundPlace' /\ Covers' BY <1>1, <1>2, <1>7, CoversSame DEF Ctl!work
<1>9. TablesOK' /\ CountsOK' BY <1>1, <1>2, TablesSame, CountsSame DEF Ctl!work
<1>10. QED BY <1>5, <1>6, <1>8, <1>9 DEF CtlInv

LEMMA RespondKeeps ==
  ASSUME Ctl!ControlConstants, CtlInv, NEW s \in Sessions, Ctl!Respond(s)
  PROVE  CtlInv'
<1>1. /\ TablesOK /\ LooksOK /\ CountsOK /\ SessionsOK /\ RoundShape /\ RoundPlace /\ Covers
      /\ s \in Ctl!Threads
  BY DEF CtlInv, Ctl!Threads
<1>2. /\ at' = [at EXCEPT ![s] = "idle"] /\ job' = [job EXCEPT ![s] = Ctl!NoJob]
      /\ counters' = counters /\ UNCHANGED <<Ctl!tables, Ctl!work, sessions, phase, writer>>
  BY DEF Ctl!Respond
<1>5. LooksOK' BY <1>1, <1>2, NoPropsType, LooksStep DEF Places
<1>6. SessionsOK' BY <1>1, <1>2, SessionsStep
<1>7. at'[Worker] = at[Worker] /\ job'[Worker] = job[Worker] BY <1>1, <1>2, OthersLook
<1>8. RoundShape' /\ RoundPlace' /\ Covers' BY <1>1, <1>2, <1>7, CoversSame DEF Ctl!work
<1>9. TablesOK' /\ CountsOK' BY <1>1, <1>2, TablesSame, CountsSame DEF Ctl!work
<1>10. QED BY <1>5, <1>6, <1>8, <1>9 DEF CtlInv

LEMMA SetKeeps ==
  ASSUME Ctl!ControlConstants, CtlInv, NEW s \in Sessions, NEW m \in Ctl!Monitors,
         NEW v \in BOOLEAN, Ctl!Set(s, m, v)
  PROVE  CtlInv'
<1>1. TablesOK /\ LooksOK /\ CountsOK /\ SessionsOK /\ RoundShape /\ RoundPlace /\ Covers
  BY DEF CtlInv
<1>2. /\ counters' = [counters EXCEPT ![m].auto_reset = v]
      /\ UNCHANGED <<Ctl!tables, Ctl!work, at, job, sessions, phase, writer>>
  BY DEF Ctl!Set
<1>3. counters' \in [Ctl!Monitors -> Counter] BY <1>1, <1>2 DEF CountsOK, Counter
<1>4. CountsOK'
  <2>1. Counter' = Counter /\ Ctl!Monitors' = Ctl!Monitors /\ Ctl!Aspects' = Ctl!Aspects
    BY DEF Counter, Ctl!Monitors, Ctl!Aspects
  <2>2. QED BY <1>1, <1>2, <1>3, <2>1 DEF CountsOK, Ctl!work
<1>5. \A n \in Ctl!Monitors : counters'[n].seen = counters[n].seen
                              /\ counters'[n].count = counters[n].count
  BY <1>1, <1>2 DEF CountsOK, Counter
<1>6. /\ RoundShape' /\ RoundPlace'
      /\ \A n : Known(n)' = Known(n) /\ Newer(n)' = Newer(n)
  BY <1>1, <1>2, RoundSame DEF Ctl!work
<1>7. Covers'
  <2>1. ASSUME NEW n \in Ctl!Monitors, NEW k \in Ctl!Aspects PROVE Cover(n, k)'
    <3>1. Cover(n, k) BY <1>1 DEF Covers
    <3>2. recorded' = recorded BY <1>2 DEF Ctl!work
    <3>3. QED BY <1>5, <1>6, <3>1, <3>2, CoverSame
  <2>2. QED BY <2>1 DEF Covers, Ctl!Monitors, Ctl!Aspects
<1>8. TablesOK' /\ LooksOK' /\ SessionsOK'
  BY <1>1, <1>2, TablesSame, LooksSame, SessionsSame
<1>9. QED BY <1>4, <1>6, <1>7, <1>8 DEF CtlInv

-----------------------------------------------------------------------------
(* Computing and counting, by a reader or by the worker.                   *)
LEMMA SessionsStill ==
  ASSUME SessionsOK, LooksOK, Ctl!ControlConstants, NEW p, at' = [at EXCEPT ![Worker] = p],
         phase' = phase, sessions' = sessions, writer' = writer
  PROVE  SessionsOK'
<1>1. \A u \in Sessions : at'[u] = at[u] BY DEF LooksOK, Ctl!Threads, Ctl!ControlConstants
<1>2. QED BY <1>1, SessionsSame

(* A thread with a look in hand stays with its session while it has it.    *)
LEMMA SessionsGoOn ==
  ASSUME SessionsOK, LooksOK, Ctl!ControlConstants, NEW t \in Ctl!Threads, Looking(t),
         NEW p \in {"count", "looked"}, at' = [at EXCEPT ![t] = p],
         phase' = phase, sessions' = sessions, writer' = writer
  PROVE  SessionsOK'
<1>1. CASE t = Worker BY <1>1, SessionsStill
<1>2. CASE t \in Sessions
  <2>1. phase[t] = "open" BY <1>2 DEF SessionsOK, SessionOK, Looking
  <2>2. QED BY <1>2, <2>1, SessionsStep
<1>3. QED BY <1>1, <1>2 DEF Ctl!Threads

LEMMA LookupProps ==
  ASSUME NEW x \in Lookups, NEW q \in Props
  PROVE  LET j == [x EXCEPT !.props = q]
         IN  j \in Lookups /\ j.monitor = x.monitor /\ j.props = q
BY DEF Lookups

LEMMA PropsStatus ==
  ASSUME NEW q \in Props, NEW st \in Status
  PROVE  [q EXCEPT !.status = st] \in Props /\ [q EXCEPT !.status = st].status = st
BY DEF Props

LEMMA ComputeKeeps ==
  ASSUME Ctl!ControlConstants, CtlInv, NEW t \in Ctl!Threads, Ctl!Compute(t)
  PROVE  CtlInv'
<1> DEFINE m == job[t].monitor
           st == Ctl!Statuses(m, job[t].enabled, condition[m])
           q == [job[t].props EXCEPT !.status = st]
           j == [job[t] EXCEPT !.props = q]
<1>1. /\ TablesOK /\ LooksOK /\ CountsOK /\ SessionsOK /\ RoundShape /\ RoundPlace /\ Covers
      /\ at[t] = "compute"
  BY DEF CtlInv, Ctl!Compute
<1>2. /\ at' = [at EXCEPT ![t] = "count"] /\ job' = [job EXCEPT ![t].props.status = st]
      /\ UNCHANGED <<Ctl!tables, Ctl!conns, counters, Ctl!work>>
  BY DEF Ctl!Compute
<1>3. job' = [job EXCEPT ![t] = j] BY <1>2
<1>4. job[t] \in Lookups /\ job[t].props \in Props /\ m \in Ctl!Monitors /\ Looking(t)
  BY <1>1 DEF LooksOK, Lookups, Looking
<1>5. st \in Status BY StatusesType
<1> HIDE DEF st
<1>6. q \in Props /\ q.status = st BY <1>4, <1>5, PropsStatus
<1> HIDE DEF q
<1>7. j \in Lookups /\ j.monitor = m /\ j.props = q BY <1>4, <1>6, LookupProps
<1> HIDE DEF j
<1>8. LooksOK' BY <1>1, <1>2, <1>3, <1>4, <1>5, <1>6, <1>7, LooksStep DEF Places
<1>9. SessionsOK' BY <1>1, <1>2, <1>4, SessionsGoOn DEF Ctl!conns
<1>10. TablesOK' /\ CountsOK' BY <1>1, <1>2, TablesSame, CountsSame DEF Ctl!work
<1>11. RoundShape' /\ RoundPlace' /\ \A n : Known(n)' = Known(n) /\ Newer(n)' = Newer(n)
  <2>1. CASE t = Worker
    <3>1. at[Worker] = "compute" /\ at'[Worker] = "count" /\ job'[Worker].monitor = job[Worker].monitor
      BY <2>1, <1>1, <1>2, <1>3, <1>7 DEF LooksOK
    <3>2. round' = round /\ last_known' = last_known BY <1>2 DEF Ctl!work
    <3>3. RoundShape' BY <1>1, <3>2 DEF RoundShape, Ctl!Monitors
    <3>4. RoundPlace' BY <1>1, <3>1, <3>2 DEF RoundPlace, Looking
    <3>5. QED BY <3>1, <3>2, <3>3, <3>4 DEF Known, Newer, Ctl!NoProps
  <2>2. CASE t \in Sessions
    <3>1. at'[Worker] = at[Worker] /\ job'[Worker] = job[Worker]
      BY <2>2, <1>1, <1>2, <1>3, OthersLook
    <3>2. QED BY <3>1, <1>1, <1>2, RoundSame DEF Ctl!work
  <2>3. QED BY <2>1, <2>2 DEF Ctl!Threads
<1>12. Covers'
  <2>1. ASSUME NEW n \in Ctl!Monitors, NEW k \in Ctl!Aspects PROVE Cover(n, k)'
    <3>1. Cover(n, k) BY <1>1 DEF Covers
    <3>2. recorded' = recorded /\ counters' = counters BY <1>2 DEF Ctl!work
    <3>3. QED BY <1>11, <3>1, <3>2, CoverSame
  <2>2. QED BY <2>1 DEF Covers, Ctl!Monitors, Ctl!Aspects
<1>13. QED BY <1>8, <1>9, <1>10, <1>11, <1>12 DEF CtlInv

LEMMA CountedIs ==
  ASSUME NEW c \in Counter, NEW st \in Status
  PROVE  LET d == Ctl!Counted(c, st)
         IN  /\ d \in Counter /\ d.seen = st
             /\ \A k \in Ctl!Aspects :
                  d.count[k] = IF c.seen[k] \notin {-1, st[k]} THEN c.count[k] + 1 ELSE c.count[k]
<1> DEFINE f == [k \in Ctl!Aspects |->
                   IF c.seen[k] \notin {-1, st[k]} THEN c.count[k] + 1 ELSE c.count[k]]
<1>1. f \in [Ctl!Aspects -> Nat]
  <2>1. c.count \in [Ctl!Aspects -> Nat] BY DEF Counter
  <2>2. QED BY <2>1
<1>2. st \in [Ctl!Aspects -> -1..3] BY DEF Status
<1>3. Ctl!Counted(c, st) = [c EXCEPT !.seen = st, !.count = f] BY DEF Ctl!Counted, Counter
<1>4. \A k \in Ctl!Aspects :
        f[k] = IF c.seen[k] \notin {-1, st[k]} THEN c.count[k] + 1 ELSE c.count[k]
  OBVIOUS
<1> HIDE DEF f
<1>5. LET d == [c EXCEPT !.seen = st, !.count = f]
      IN  d \in Counter /\ d.seen = st /\ d.count = f
  BY <1>1, <1>2 DEF Counter
<1>6. QED BY <1>3, <1>4, <1>5

LEMMA CountKeeps ==
  ASSUME Ctl!ControlConstants, CtlInv, NEW t \in Ctl!Threads, Ctl!Count(t)
  PROVE  CtlInv'
<1>0. PICK m \in Ctl!Monitors : m = job[t].monitor
  BY DEF CtlInv, LooksOK, Looking, Ctl!Count
<1> DEFINE st == job[t].props.status
           c == Ctl!Counted(counters[m], st)
           q == [status |-> c.seen, count |-> c.count, auto_reset |-> c.auto_reset]
           j == [job[t] EXCEPT !.props = q]
<1>1. /\ TablesOK /\ LooksOK /\ CountsOK /\ SessionsOK /\ RoundShape /\ RoundPlace /\ Covers
      /\ at[t] = "count"
  BY DEF CtlInv, Ctl!Count
<1>2. /\ at' = [at EXCEPT ![t] = "looked"] /\ job' = [job EXCEPT ![t].props = q]
      /\ counters' = [counters EXCEPT ![m] = c]
      /\ UNCHANGED <<Ctl!tables, Ctl!conns, Ctl!work>>
  BY <1>0 DEF Ctl!Count
<1>3. job' = [job EXCEPT ![t] = j] BY <1>2
<1>4. job[t] \in Lookups /\ m \in Ctl!Monitors /\ Looking(t) /\ st \in Status
  BY <1>1 DEF LooksOK, Looking
<1>5. counters[m] \in Counter BY <1>1, <1>4 DEF CountsOK
<1>6. /\ c \in Counter /\ c.seen = st
      /\ \A k \in Ctl!Aspects :
           c.count[k] = IF counters[m].seen[k] \notin {-1, st[k]} THEN counters[m].count[k] + 1
                        ELSE counters[m].count[k]
  BY <1>4, <1>5, CountedIs
<1> HIDE DEF c, st
<1>7. q \in Props /\ q.status = st
  BY <1>4, <1>6 DEF Props, Counter
<1>8. q # Ctl!NoProps
  <2>1. c.seen \in [Ctl!Aspects -> -1..3] BY <1>6 DEF Counter
  <2>2. QED BY <2>1, LookedIsSome
<1> HIDE DEF q
<1>9. j \in Lookups /\ j.monitor = m /\ j.props = q BY <1>0, <1>4, <1>7, LookupProps
<1> HIDE DEF j
<1>10. LooksOK' BY <1>1, <1>2, <1>3, <1>4, <1>9, LooksStep DEF Places
<1>11. SessionsOK' BY <1>1, <1>2, <1>4, SessionsGoOn DEF Ctl!conns
<1>12. TablesOK' BY <1>1, <1>2, TablesSame
<1>13. CountsOK'
  <2>1. Counter' = Counter /\ Ctl!Monitors' = Ctl!Monitors /\ Ctl!Aspects' = Ctl!Aspects
    BY DEF Counter, Ctl!Monitors, Ctl!Aspects
  <2>2. counters' \in [Ctl!Monitors -> Counter] BY <1>1, <1>2, <1>6 DEF CountsOK
  <2>3. QED BY <1>1, <1>2, <2>1, <2>2 DEF CountsOK, Ctl!work
<1>14. round' = round /\ last_known' = last_known /\ recorded' = recorded BY <1>2 DEF Ctl!work
<1>15. /\ RoundShape' /\ RoundPlace' /\ \A n : Known(n)' = Known(n)
       /\ \A n : t # Worker \/ n # m => Newer(n)' = Newer(n)
       /\ t = Worker => Newer(m) = Ctl!NoProps /\ Newer(m)' = q
  <2>1. CASE t = Worker
    <3>1. /\ at[Worker] = "count" /\ at'[Worker] = "looked" /\ job[Worker].monitor = m
          /\ job'[Worker].monitor = m /\ job'[Worker].props = q
      BY <2>1, <1>0, <1>1, <1>2, <1>3, <1>9 DEF LooksOK
    <3>2. RoundShape' BY <1>1, <1>14 DEF RoundShape, Ctl!Monitors
    <3>3. RoundPlace' BY <1>1, <3>1, <1>14 DEF RoundPlace, Looking
    <3>4. \A n : Known(n)' = Known(n) BY <1>14 DEF Known, Ctl!NoProps
    <3>5. \A n : n # m => Newer(n)' = Newer(n) BY <3>1, <1>14 DEF Newer, Ctl!NoProps
    <3>6. m \notin DOMAIN round.seen BY <1>1, <3>1 DEF RoundPlace, Looking
    <3>7. Newer(m) = Ctl!NoProps BY <3>1, <3>6 DEF Newer
    <3>8. Newer(m)' = q BY <3>1 DEF Newer
    <3>9. QED BY <2>1, <3>2, <3>3, <3>4, <3>5, <3>7, <3>8
  <2>2. CASE t \in Sessions
    <3>1. at'[Worker] = at[Worker] /\ job'[Worker] = job[Worker]
      BY <2>2, <1>1, <1>2, <1>3, OthersLook
    <3>2. t # Worker BY <2>2 DEF Ctl!ControlConstants
    <3>3. QED BY <3>1, <3>2, <1>1, <1>14, RoundSame
  <2>3. QED BY <2>1, <2>2 DEF Ctl!Threads
<1>16. Covers'
  <2>1. ASSUME NEW n \in Ctl!Monitors, NEW k \in Ctl!Aspects PROVE Cover(n, k)'
    <3>1. Cover(n, k) BY <1>1 DEF Covers
    <3>2. CASE n # m
      <4>1. counters'[n] = counters[n] BY <1>1, <1>2, <3>2 DEF CountsOK
      <4>2. QED BY <4>1, <1>14, <1>15, <3>1, <3>2, CoverSame
    <3>3. CASE n = m
      <4> DEFINE s == counters[m].seen[k]
                 d == counters[m].count[k]
                 r == recorded[m][k]
                 e == IF s \notin {-1, st[k]} THEN d + 1 ELSE d
      <4>1. counters'[m] = c BY <1>1, <1>2, <1>4 DEF CountsOK
      <4>2. counters'[m].seen[k] = st[k] /\ counters'[m].count[k] = e BY <4>1, <1>6
      <4>3. s \in -1..3 /\ d \in Nat /\ r \in Nat /\ st[k] \in 0..3
        BY <1>1, <1>4, <1>5 DEF CountsOK, Counter, Status
      <4>4. Covered(Known(m), Newer(m), k, s, r, d) BY <3>1, <3>3 DEF Cover
      <4>5. Cover(m, k)' = Covered(Known(m)', Newer(m)', k, st[k], r, e)
        <5>1. recorded'[m][k] = r BY <1>14
        <5>2. Cover(m, k)' = Covered(Known(m)', Newer(m)', k, counters'[m].seen[k],
                                     recorded'[m][k], counters'[m].count[k])
          BY <3>3 DEF Cover, Covered, Ctl!NoProps
        <5>3. QED BY <5>1, <5>2, <4>2
      <4>6. CASE t = Worker
        <5>1. Covered(Known(m), Ctl!NoProps, k, s, r, d) BY <4>4, <4>6, <1>15
        <5>2. Covered(Known(m), q, k, st[k], r, e)
          <6> HIDE DEF s, d, r
          <6>1. QED BY <5>1, <4>3, <1>7, <1>8, CoveredLooks
        <5>3. QED BY <5>2, <4>5, <4>6, <1>15, <3>3
      <4>7. CASE t # Worker
        <5>1. Covered(Known(m), Newer(m), k, st[k], r, e)
          <6> HIDE DEF s, d, r
          <6>1. QED BY <4>4, <4>3, CoveredCounts
        <5>2. QED BY <5>1, <4>5, <4>7, <1>15, <3>3
      <4>8. QED BY <4>6, <4>7
    <3>4. QED BY <3>2, <3>3
  <2>2. QED BY <2>1 DEF Covers, Ctl!Monitors, Ctl!Aspects
<1>17. QED BY <1>10, <1>11, <1>12, <1>13, <1>15, <1>16 DEF CtlInv

-----------------------------------------------------------------------------
(* The worker's own steps: p is where it goes, j what it has in hand.      *)
LEMMA NotifierFrame ==
  ASSUME Ctl!ControlConstants, CtlInv, NEW p \in Places, NEW j \in Lookups,
         at' = [at EXCEPT ![Worker] = p], job' = [job EXCEPT ![Worker] = j],
         p \in {"compute", "count", "looked"} => j.monitor \in Ctl!Monitors, p # "count",
         UNCHANGED <<Ctl!tables, phase, sessions, writer, counters>>
  PROVE  /\ TablesOK' /\ LooksOK' /\ SessionsOK' /\ at'[Worker] = p /\ job'[Worker] = j
         /\ counters' \in [Ctl!Monitors -> Counter]
<1>1. Worker \in Ctl!Threads BY DEF Ctl!Threads
<1>2. TablesOK' BY TablesSame DEF CtlInv
<1>3. LooksOK' BY <1>1, LooksStep DEF CtlInv
<1>4. SessionsOK' BY SessionsStill DEF CtlInv
<1>5. at'[Worker] = p /\ job'[Worker] = j BY <1>1 DEF CtlInv, LooksOK
<1>6. QED BY <1>2, <1>3, <1>4, <1>5 DEF CtlInv, CountsOK

LEMMA CoversKept ==
  ASSUME Covers, recorded' = recorded, counters' = counters,
         \A m \in Ctl!Monitors : Known(m)' = Known(m) /\ Newer(m)' = Newer(m)
  PROVE  Covers'
<1>1. ASSUME NEW m \in Ctl!Monitors, NEW k \in Ctl!Aspects PROVE Cover(m, k)'
  <2>1. Cover(m, k) BY DEF Covers
  <2>2. QED BY <2>1, CoverSame
<1>2. QED BY <1>1 DEF Covers, Ctl!Monitors, Ctl!Aspects

LEMMA JobSame ==
  ASSUME LooksOK PROVE job[Worker] \in Lookups /\ job = [job EXCEPT ![Worker] = job[Worker]]
BY DEF LooksOK, Ctl!Threads

LEMMA WakeKeeps ==
  ASSUME Ctl!ControlConstants, CtlInv, Ctl!Wake PROVE CtlInv'
<1>1. /\ TablesOK /\ LooksOK /\ CountsOK /\ SessionsOK /\ RoundShape /\ RoundPlace /\ Covers
      /\ at[Worker] = "idle" /\ at' = [at EXCEPT ![Worker] = "collect"]
      /\ round' = [Ctl!NoRound EXCEPT !.todo = members]
      /\ UNCHANGED <<Ctl!tables, Ctl!conns, counters, job, last_known, recorded>>
  BY DEF CtlInv, Ctl!Wake
<1>2. job[Worker] \in Lookups /\ job' = [job EXCEPT ![Worker] = job[Worker]] BY <1>1, JobSame
<1>3. TablesOK' /\ LooksOK' /\ SessionsOK' /\ at'[Worker] = "collect"
  BY <1>1, <1>2, NotifierFrame DEF Places, Ctl!conns
<1>4. CountsOK' BY <1>1, CountsSame
<1>5. /\ DOMAIN round' = {"todo", "seen", "copy", "push"}
      /\ round'.todo = members /\ DOMAIN round'.seen = {}
  BY <1>1 DEF Ctl!NoRound
<1>6. RoundShape' BY <1>1, <1>5 DEF RoundShape, TablesOK, Ctl!Monitors
<1>7. RoundPlace' BY <1>3, <1>5 DEF RoundPlace, Looking
<1>8. DOMAIN round.seen = {} BY <1>1 DEF RoundPlace
<1>9. \A m \in Ctl!Monitors : Known(m)' = Known(m) /\ Newer(m)' = Newer(m)
  BY <1>1, <1>3, <1>5, <1>8 DEF Known, Newer, Ctl!NoProps
<1>10. Covers' BY <1>1, <1>9, CoversKept
<1>11. QED BY <1>3, <1>4, <1>6, <1>7, <1>10 DEF CtlInv

LEMMA CollectKeeps ==
  ASSUME Ctl!ControlConstants, CtlInv, NEW m \in Ctl!Monitors, Ctl!Collect(m) PROVE CtlInv'
<1> DEFINE j == [Ctl!NoJob EXCEPT !.monitor = m, !.aspect = 0, !.enabled = active[m]]
           p == IF m \in members THEN "compute" ELSE "looked"
<1>1. /\ TablesOK /\ LooksOK /\ CountsOK /\ SessionsOK /\ RoundShape /\ RoundPlace /\ Covers
      /\ at[Worker] = "collect" /\ m \in round.todo
      /\ at' = [at EXCEPT ![Worker] = p] /\ job' = [job EXCEPT ![Worker] = j]
      /\ round' = [round EXCEPT !.todo = @ \ {m}]
      /\ UNCHANGED <<Ctl!tables, Ctl!conns, counters, last_known, recorded>>
  BY DEF CtlInv, Ctl!Collect, Ctl!Look
<1>2. j \in Lookups /\ j.monitor = m /\ j.props = Ctl!NoProps
  <2>1. 0 \in 0..4 OBVIOUS
  <2>2. QED BY <1>1, <2>1, LookType
<1>3. p \in {"compute", "looked"} OBVIOUS
<1> HIDE DEF j, p
<1>4. TablesOK' /\ LooksOK' /\ SessionsOK' /\ at'[Worker] = p /\ job'[Worker] = j
  BY <1>1, <1>2, <1>3, NotifierFrame DEF Places, Ctl!conns
<1>5. CountsOK' BY <1>1, CountsSame
<1>6. /\ DOMAIN round' = {"todo", "seen", "copy", "push"}
      /\ round'.todo = round.todo \ {m} /\ round'.seen = round.seen
  BY <1>1 DEF RoundShape
<1>7. m \notin DOMAIN round.seen /\ round.todo \cap DOMAIN round.seen = {}
  BY <1>1 DEF RoundPlace
<1>8. RoundShape' BY <1>1, <1>6 DEF RoundShape, Ctl!Monitors
<1>9. RoundPlace' BY <1>2, <1>3, <1>4, <1>6, <1>7 DEF RoundPlace, Looking
<1>10. \A n \in Ctl!Monitors : Known(n)' = Known(n) BY <1>1 DEF Known, Ctl!NoProps
<1>11. \A n \in Ctl!Monitors : Newer(n)' = Newer(n)
  <2> SUFFICES ASSUME NEW n \in Ctl!Monitors PROVE Newer(n)' = Newer(n) OBVIOUS
  <2>1. CASE n = m
    <3>1. Newer(n) = Ctl!NoProps BY <1>1, <1>7, <2>1 DEF Newer
    <3>2. Newer(n)' = Ctl!NoProps
      BY <1>2, <1>4, <1>6, <1>7, <2>1 DEF Newer, Ctl!NoProps
    <3>3. QED BY <3>1, <3>2
  <2>2. CASE n # m BY <1>1, <1>2, <1>4, <1>6, <2>2 DEF Newer, Ctl!NoProps
  <2>3. QED BY <2>1, <2>2
<1>12. Covers' BY <1>1, <1>10, <1>11, CoversKept
<1>13. QED BY <1>4, <1>5, <1>8, <1>9, <1>12 DEF CtlInv

LEMMA CollectedKeeps ==
  ASSUME Ctl!ControlConstants, CtlInv, Ctl!Collected PROVE CtlInv'
<1>0. PICK m \in Ctl!Monitors : m = job[Worker].monitor
  BY DEF CtlInv, LooksOK, Looking, Ctl!Collected, Ctl!Threads
<1> DEFINE q == job[Worker].props
           seen == Ctl!Extend(round.seen, m, q)
<1>1. /\ TablesOK /\ LooksOK /\ CountsOK /\ SessionsOK /\ RoundShape /\ RoundPlace /\ Covers
      /\ at[Worker] = "looked" /\ at' = [at EXCEPT ![Worker] = "collect"]
      /\ job' = [job EXCEPT ![Worker] = Ctl!NoJob]
      /\ round' = [round EXCEPT !.seen = seen]
      /\ UNCHANGED <<Ctl!tables, Ctl!conns, counters, last_known, recorded>>
  BY <1>0 DEF CtlInv, Ctl!Collected
<1>2. TablesOK' /\ LooksOK' /\ SessionsOK' /\ at'[Worker] = "collect"
  BY <1>1, NoPropsType, NotifierFrame DEF Places, Ctl!conns
<1>3. CountsOK' BY <1>1, CountsSame
<1>4. /\ DOMAIN seen = DOMAIN round.seen \cup {m} /\ seen[m] = q
      /\ \A n \in DOMAIN round.seen : n # m => seen[n] = round.seen[n]
  BY DEF Ctl!Extend
<1> HIDE DEF seen
<1>5. /\ DOMAIN round' = {"todo", "seen", "copy", "push"}
      /\ round'.todo = round.todo /\ round'.seen = seen
  BY <1>1 DEF RoundShape
<1>6. m \notin round.todo \cup DOMAIN round.seen /\ round.todo \cap DOMAIN round.seen = {}
  BY <1>0, <1>1 DEF RoundPlace, Looking
<1>7. RoundShape' BY <1>1, <1>4, <1>5 DEF RoundShape, Ctl!Monitors
<1>8. RoundPlace' BY <1>2, <1>4, <1>5, <1>6 DEF RoundPlace, Looking
<1>9. \A n \in Ctl!Monitors : Known(n)' = Known(n) BY <1>1 DEF Known, Ctl!NoProps
<1>10. \A n \in Ctl!Monitors : Newer(n)' = Newer(n)
  <2> SUFFICES ASSUME NEW n \in Ctl!Monitors PROVE Newer(n)' = Newer(n) OBVIOUS
  <2>1. CASE n = m
    <3>1. Newer(n) = q BY <1>0, <1>1, <2>1 DEF Newer
    <3>2. Newer(n)' = q BY <1>2, <1>4, <1>5, <2>1 DEF Newer
    <3>3. QED BY <3>1, <3>2
  <2>2. CASE n # m BY <1>0, <1>1, <1>2, <1>4, <1>5, <2>2 DEF Newer, Ctl!NoProps
  <2>3. QED BY <2>1, <2>2
<1>11. Covers' BY <1>1, <1>9, <1>10, CoversKept
<1>12. QED BY <1>2, <1>3, <1>7, <1>8, <1>11 DEF CtlInv

LEMMA CopySessionsKeeps ==
  ASSUME Ctl!ControlConstants, CtlInv, Ctl!CopySessions PROVE CtlInv'
<1>1. /\ TablesOK /\ LooksOK /\ CountsOK /\ SessionsOK /\ RoundShape /\ RoundPlace /\ Covers
      /\ at[Worker] = "collect" /\ at' = [at EXCEPT ![Worker] = "compare"]
      /\ round' = [round EXCEPT !.todo = DOMAIN round.seen, !.copy = sessions]
      /\ UNCHANGED <<Ctl!tables, Ctl!conns, counters, job, last_known, recorded>>
  BY DEF CtlInv, Ctl!CopySessions
<1>2. job[Worker] \in Lookups /\ job' = [job EXCEPT ![Worker] = job[Worker]] BY <1>1, JobSame
<1>3. TablesOK' /\ LooksOK' /\ SessionsOK' /\ at'[Worker] = "compare"
  BY <1>1, <1>2, NotifierFrame DEF Places, Ctl!conns
<1>4. CountsOK' BY <1>1, CountsSame
<1>5. /\ DOMAIN round' = {"todo", "seen", "copy", "push"}
      /\ round'.todo = DOMAIN round.seen /\ round'.seen = round.seen
  BY <1>1 DEF RoundShape
<1>6. RoundShape' BY <1>1, <1>5 DEF RoundShape, Ctl!Monitors
<1>7. RoundPlace' BY <1>3, <1>5 DEF RoundPlace, Looking
<1>8. \A m \in Ctl!Monitors : Known(m)' = Known(m) /\ Newer(m)' = Newer(m)
  BY <1>1, <1>3, <1>5 DEF Known, Newer, Ctl!NoProps
<1>9. Covers' BY <1>1, <1>8, CoversKept
<1>10. QED BY <1>3, <1>4, <1>6, <1>7, <1>9 DEF CtlInv

LEMMA CompareKeeps ==
  ASSUME Ctl!ControlConstants, CtlInv, NEW m \in Ctl!Monitors, Ctl!Compare(m) PROVE CtlInv'
<1> DEFINE j == [job[Worker] EXCEPT !.monitor = m]
           push == IF Ctl!Changed(m) THEN round.copy ELSE {}
<1>1. /\ TablesOK /\ LooksOK /\ CountsOK /\ SessionsOK /\ RoundShape /\ RoundPlace /\ Covers
      /\ at[Worker] = "compare" /\ m \in round.todo
      /\ at' = [at EXCEPT ![Worker] = "push"] /\ job' = [job EXCEPT ![Worker].monitor = m]
      /\ round' = [round EXCEPT !.push = push]
      /\ UNCHANGED <<Ctl!tables, Ctl!conns, counters, last_known, recorded>>
  BY DEF CtlInv, Ctl!Compare
<1>2. job' = [job EXCEPT ![Worker] = j] BY <1>1
<1>3. j \in Lookups /\ j.monitor = m
  <2>1. job[Worker] \in Lookups BY <1>1, JobSame
  <2>2. QED BY <2>1 DEF Lookups
<1> HIDE DEF j, push
<1>4. TablesOK' /\ LooksOK' /\ SessionsOK' /\ at'[Worker] = "push" /\ job'[Worker] = j
  BY <1>1, <1>2, <1>3, NotifierFrame DEF Places, Ctl!conns
<1>5. CountsOK' BY <1>1, CountsSame
<1>6. /\ DOMAIN round' = {"todo", "seen", "copy", "push"}
      /\ round'.todo = round.todo /\ round'.seen = round.seen
  BY <1>1 DEF RoundShape
<1>7. RoundShape' BY <1>1, <1>6 DEF RoundShape, Ctl!Monitors
<1>8. RoundPlace' BY <1>1, <1>3, <1>4, <1>6 DEF RoundPlace, Looking
<1>9. \A n \in Ctl!Monitors : Known(n)' = Known(n) /\ Newer(n)' = Newer(n)
  BY <1>1, <1>4, <1>6 DEF Known, Newer, Ctl!NoProps
<1>10. Covers' BY <1>1, <1>9, CoversKept
<1>11. QED BY <1>4, <1>5, <1>7, <1>8, <1>10 DEF CtlInv

LEMMA PushKeeps ==
  ASSUME Ctl!ControlConstants, CtlInv, NEW s \in Sessions, Ctl!Push(s) PROVE CtlInv'
<1>1. /\ TablesOK /\ LooksOK /\ CountsOK /\ SessionsOK /\ RoundShape /\ RoundPlace /\ Covers
      /\ round' = [round EXCEPT !.push = @ \ {s}]
      /\ UNCHANGED <<Ctl!tables, Ctl!looks, last_known, recorded, sessions, phase, writer>>
  BY DEF CtlInv, Ctl!Push
<1>2. at' = at /\ job' = job /\ counters' = counters BY <1>1 DEF Ctl!looks
<1>3. TablesOK' /\ LooksOK' /\ SessionsOK' /\ CountsOK'
  BY <1>1, <1>2, TablesSame, LooksSame, SessionsSame, CountsSame
<1>4. /\ DOMAIN round' = {"todo", "seen", "copy", "push"}
      /\ round'.todo = round.todo /\ round'.seen = round.seen
  BY <1>1 DEF RoundShape
<1>5. RoundShape' BY <1>1, <1>4 DEF RoundShape, Ctl!Monitors
<1>6. RoundPlace' BY <1>1, <1>2, <1>4 DEF RoundPlace, Looking
<1>7. \A m \in Ctl!Monitors : Known(m)' = Known(m) /\ Newer(m)' = Newer(m)
  BY <1>1, <1>2, <1>4 DEF Known, Newer, Ctl!NoProps
<1>8. Covers' BY <1>1, <1>2, <1>7, CoversKept
<1>9. QED BY <1>3, <1>5, <1>6, <1>8 DEF CtlInv

(* The change between two looks is recorded when the newer one becomes the *)
(* last: the count had room for it.                                        *)
LEMMA RememberKeeps ==
  ASSUME Ctl!ControlConstants, CtlInv, Ctl!Remember PROVE CtlInv'
<1>0. PICK m \in Ctl!Monitors : m = job[Worker].monitor
  BY DEF CtlInv, RoundPlace, RoundShape, Ctl!Remember
<1> DEFINE q == round.seen[m]
           known == Ctl!Extend(last_known, m, q)
           row == [k \in Ctl!Aspects |->
                     IF /\ m \in DOMAIN last_known
                        /\ last_known[m] # Ctl!NoProps /\ q # Ctl!NoProps
                        /\ last_known[m].status[k] # q.status[k]
                     THEN recorded[m][k] + 1 ELSE recorded[m][k]]
<1>1. /\ TablesOK /\ LooksOK /\ CountsOK /\ SessionsOK /\ RoundShape /\ RoundPlace /\ Covers
      /\ at[Worker] = "push" /\ at' = [at EXCEPT ![Worker] = "compare"]
      /\ job' = [job EXCEPT ![Worker] = Ctl!NoJob]
      /\ round' = [round EXCEPT !.todo = @ \ {m}]
      /\ last_known' = known
      /\ UNCHANGED <<Ctl!tables, Ctl!conns, counters>>
  BY <1>0 DEF CtlInv, Ctl!Remember
<1>2. recorded' = [recorded EXCEPT ![m] = row] BY <1>0 DEF Ctl!Remember
<1>3. TablesOK' /\ LooksOK' /\ SessionsOK' /\ at'[Worker] = "compare"
  BY <1>1, NoPropsType, NotifierFrame DEF Places, Ctl!conns
<1>4. row \in [Ctl!Aspects -> Nat]
  <2>1. recorded[m] \in [Ctl!Aspects -> Nat] BY <1>1 DEF CountsOK
  <2>2. \A k \in Ctl!Aspects : recorded[m][k] \in Nat /\ recorded[m][k] + 1 \in Nat BY <2>1
  <2>3. QED BY <2>2
<1>5. CountsOK'
  <2>1. Counter' = Counter /\ Ctl!Monitors' = Ctl!Monitors /\ Ctl!Aspects' = Ctl!Aspects
    BY DEF Counter, Ctl!Monitors, Ctl!Aspects
  <2>2. recorded' \in [Ctl!Monitors -> [Ctl!Aspects -> Nat]]
    <3> HIDE DEF row
    <3>1. QED BY <1>1, <1>2, <1>4 DEF CountsOK
  <2>3. QED BY <1>1, <2>1, <2>2 DEF CountsOK
<1>6. /\ DOMAIN known = DOMAIN last_known \cup {m} /\ known[m] = q
      /\ \A n \in DOMAIN last_known : n # m => known[n] = last_known[n]
  BY DEF Ctl!Extend
<1> HIDE DEF known
<1>7. /\ DOMAIN round' = {"todo", "seen", "copy", "push"}
      /\ round'.todo = round.todo \ {m} /\ round'.seen = round.seen
  BY <1>1 DEF RoundShape
<1>8. /\ m \in round.todo /\ round.todo \subseteq DOMAIN round.seen
      /\ \A n \in DOMAIN round.seen \ round.todo :
           n \in DOMAIN last_known /\ last_known[n] = round.seen[n]
  BY <1>0, <1>1 DEF RoundPlace
<1>9. RoundShape' BY <1>1, <1>6, <1>7 DEF RoundShape, Ctl!Monitors
<1>10. RoundPlace'
  <2>1. \A n \in DOMAIN round.seen \ (round.todo \ {m}) :
          n \in DOMAIN known /\ known[n] = round.seen[n]
    BY <1>6, <1>8
  <2>2. QED BY <1>1, <1>3, <1>7, <1>8, <2>1 DEF RoundPlace, Looking
<1>11. \A n \in Ctl!Monitors : Newer(n)' = Newer(n)
  BY <1>1, <1>3, <1>7 DEF Newer, Ctl!NoProps
<1>12. ASSUME NEW n \in Ctl!Monitors, NEW k \in Ctl!Aspects PROVE Cover(n, k)'
  <2>1. Cover(n, k) BY <1>1 DEF Covers
  <2>2. CASE n # m
    <3>1. Known(n)' = Known(n) BY <1>1, <1>6, <2>2 DEF Known, Ctl!NoProps
    <3>2. recorded'[n] = recorded[n] BY <1>1, <1>2, <2>2 DEF CountsOK
    <3>3. counters' = counters /\ Newer(n)' = Newer(n) BY <1>1, <1>11
    <3>4. QED BY <2>1, <3>1, <3>2, <3>3, CoverSame
  <2>3. CASE n = m
    <3> DEFINE s == counters[m].seen[k]
               c == counters[m].count[k]
               r == recorded[m][k]
               l == Known(m)
    <3>1. s \in -1..3 /\ c \in Nat /\ r \in Nat BY <1>1 DEF CountsOK, Counter
    <3>2. Newer(m) = q BY <1>1, <1>8 DEF Newer
    <3>3. Covered(l, q, k, s, r, c) BY <2>1, <2>3, <3>2 DEF Cover
    <3> DEFINE e == IF l # Ctl!NoProps /\ q # Ctl!NoProps /\ l.status[k] # q.status[k]
                    THEN r + 1 ELSE r
    <3>4. row[k] = e BY DEF Known
    <3>5. Covered(q, q, k, s, row[k], c)
      <4> HIDE DEF s, c, r, l, q, row
      <4>1. Covered(q, q, k, s, e, c) BY <3>1, <3>3, CoveredRemembers
      <4> HIDE DEF e
      <4>2. QED BY <3>4, <4>1
    <3>6. recorded'[m] = row BY <1>1, <1>2 DEF CountsOK
    <3>7. Known(m)' = q BY <1>1, <1>6 DEF Known
    <3>8. Newer(m)' = q BY <1>11, <3>2
    <3>9. Cover(m, k)' = Covered(Known(m)', Newer(m)', k, counters'[m].seen[k],
                                 recorded'[m][k], counters'[m].count[k])
      BY DEF Cover, Covered, Ctl!NoProps
    <3>10. Cover(m, k)'
      <4> HIDE DEF row, q
      <4>1. QED BY <1>1, <3>5, <3>6, <3>7, <3>8, <3>9
    <3>11. QED BY <2>3, <3>10
  <2>4. QED BY <2>2, <2>3
<1>13. Covers' BY <1>12 DEF Covers, Ctl!Monitors, Ctl!Aspects
<1>14. QED BY <1>3, <1>5, <1>9, <1>10, <1>13 DEF CtlInv

LEMMA PruneKeeps ==
  ASSUME Ctl!ControlConstants, CtlInv, Ctl!Prune PROVE CtlInv'
<1>1. /\ TablesOK /\ LooksOK /\ CountsOK /\ SessionsOK /\ RoundShape /\ RoundPlace /\ Covers
      /\ at[Worker] = "compare" /\ at' = [at EXCEPT ![Worker] = "idle"] /\ round.todo = {}
      /\ last_known' = [m \in DOMAIN round.seen |-> last_known[m]]
      /\ round' = Ctl!NoRound
      /\ UNCHANGED <<Ctl!tables, counters, job, recorded, sessions, phase, writer>>
  BY DEF CtlInv, Ctl!Prune
<1>2. job[Worker] \in Lookups /\ job' = [job EXCEPT ![Worker] = job[Worker]] BY <1>1, JobSame
<1>3. TablesOK' /\ LooksOK' /\ SessionsOK' /\ at'[Worker] = "idle"
  BY <1>1, <1>2, NotifierFrame DEF Places
<1>4. CountsOK' BY <1>1, CountsSame
<1>5. /\ DOMAIN round' = {"todo", "seen", "copy", "push"}
      /\ round'.todo = {} /\ DOMAIN round'.seen = {}
  BY <1>1 DEF Ctl!NoRound
<1>6. RoundShape' BY <1>1, <1>5 DEF RoundShape, Ctl!Monitors
<1>7. RoundPlace' BY <1>3, <1>5 DEF RoundPlace, Looking
<1>8. \A m \in DOMAIN round.seen : m \in DOMAIN last_known /\ last_known[m] = round.seen[m]
  BY <1>1 DEF RoundPlace
<1>9. ASSUME NEW m \in Ctl!Monitors, NEW k \in Ctl!Aspects PROVE Cover(m, k)'
  <2>1. Cover(m, k) BY <1>1 DEF Covers
  <2>2. Newer(m)' = Ctl!NoProps BY <1>3, <1>5 DEF Newer, Ctl!NoProps
  <2>3. Cover(m, k)' = Covered(Known(m)', Newer(m)', k, counters'[m].seen[k],
                               recorded'[m][k], counters'[m].count[k])
    BY DEF Cover, Covered, Ctl!NoProps
  <2> DEFINE s == counters[m].seen[k]
             c == counters[m].count[k]
             r == recorded[m][k]
  <2>4. Cover(m, k)' = Covered(Known(m)', Ctl!NoProps, k, s, r, c) BY <1>1, <2>2, <2>3
  <2>5. Covered(Known(m), Newer(m), k, s, r, c) BY <2>1 DEF Cover
  <2> HIDE DEF s, c, r
  <2>6. CASE m \in DOMAIN round.seen
    <3> DEFINE q == round.seen[m]
    <3>1. Newer(m) = q BY <1>1, <2>6 DEF Newer
    <3>2. Known(m) = q /\ Known(m)' = q BY <1>1, <1>8, <2>6 DEF Known
    <3> HIDE DEF q
    <3>3. QED BY <2>4, <2>5, <3>1, <3>2, CoveredForgets
  <2>7. CASE m \notin DOMAIN round.seen
    <3>1. Newer(m) = Ctl!NoProps BY <1>1, <2>7 DEF Newer
    <3>2. Known(m)' = Ctl!NoProps BY <1>1, <2>7 DEF Known, Ctl!NoProps
    <3>3. Covered(Ctl!NoProps, Ctl!NoProps, k, s, r, c) BY <2>5, <3>1, CoveredForgets
    <3>4. QED BY <2>4, <3>2, <3>3
  <2>8. QED BY <2>6, <2>7
<1>10. Covers' BY <1>9 DEF Covers, Ctl!Monitors, Ctl!Aspects
<1>11. QED BY <1>3, <1>4, <1>6, <1>7, <1>10 DEF CtlInv

-----------------------------------------------------------------------------
LEMMA ControlNext ==
  ASSUME Ctl!ControlConstants, CtlInv, [Ctl!Next]_Ctl!vars PROVE CtlInv'
<1>1. ASSUME NEW s \in Sessions, Ctl!Reader(s) \/ Ctl!Writer(s) \/ Ctl!Client(s) PROVE CtlInv'
  <2>1. s \in Ctl!Threads BY DEF Ctl!Threads
  <2>2. CASE Ctl!Compute(s) BY <2>1, <2>2, ComputeKeeps
  <2>3. CASE Ctl!Count(s) BY <2>1, <2>3, CountKeeps
  <2>4. CASE Ctl!Respond(s) BY <2>4, RespondKeeps
  <2>5. CASE \/ Ctl!Connect(s) \/ Ctl!Disconnect(s) \/ Ctl!Leave(s) \/ Ctl!Writer(s)
             \/ Ctl!Other(s) \/ \E S \in SUBSET Ctl!Monitors : Ctl!Subscribe(s, S)
    BY <2>5, ConnectionsKeep
  <2>6. CASE \E m \in Ctl!Monitors, k \in Asked : Ctl!Get(s, m, k) BY <2>6, GetKeeps
  <2>7. CASE \E m \in Ctl!Monitors, v \in BOOLEAN : Ctl!Set(s, m, v) BY <2>7, SetKeeps
  <2>8. QED BY <1>1, <2>2, <2>3, <2>4, <2>5, <2>6, <2>7 DEF Ctl!Reader, Ctl!Client
<1>2. ASSUME Ctl!Notifier PROVE CtlInv'
  <2>1. Worker \in Ctl!Threads BY DEF Ctl!Threads
  <2>2. CASE Ctl!Wake BY <2>2, WakeKeeps
  <2>3. CASE \E m \in Ctl!Monitors : Ctl!Collect(m) BY <2>3, CollectKeeps
  <2>4. CASE \E m \in Ctl!Monitors : Ctl!Compare(m) BY <2>4, CompareKeeps
  <2>5. CASE Ctl!Compute(Worker) BY <2>1, <2>5, ComputeKeeps
  <2>6. CASE Ctl!Count(Worker) BY <2>1, <2>6, CountKeeps
  <2>7. CASE Ctl!Collected BY <2>7, CollectedKeeps
  <2>8. CASE Ctl!CopySessions BY <2>8, CopySessionsKeeps
  <2>9. CASE \E s \in Sessions : Ctl!Push(s) BY <2>9, PushKeeps
  <2>10. CASE Ctl!Remember BY <2>10, RememberKeeps
  <2>11. CASE Ctl!Prune BY <2>11, PruneKeeps
  <2>12. QED
    BY <1>2, <2>2, <2>3, <2>4, <2>5, <2>6, <2>7, <2>8, <2>9, <2>10, <2>11 DEF Ctl!Notifier
<1>3. CASE UNCHANGED Ctl!vars
  <2>1. UNCHANGED <<Ctl!tables, Ctl!conns, Ctl!looks, Ctl!work>> BY <1>3 DEF Ctl!vars
  <2>2. TablesOK' /\ LooksOK' /\ CountsOK' /\ SessionsOK'
    BY <2>1, TablesSame, LooksSame, CountsSame, SessionsSame
    DEF CtlInv, Ctl!looks, Ctl!work, Ctl!conns
  <2>3. RoundShape' /\ RoundPlace' /\ Covers'
    BY <2>1, CoversSame DEF CtlInv, Ctl!looks, Ctl!work
  <2>4. QED BY <2>2, <2>3 DEF CtlInv
<1>4. QED BY <1>1, <1>2, <1>3, SurroundingsKeep DEF Ctl!Next

LEMMA ControlMeans ==
  ASSUME Ctl!ControlConstants, CtlInv PROVE Ctl!TypeOK /\ Ctl!CountersCover
<1>1. ASSUME NEW m \in Ctl!Monitors, NEW k \in Ctl!Aspects
      PROVE  /\ counters[m].seen[k] \in -1..3 /\ counters[m].count[k] \in Nat
             /\ recorded[m][k] <= counters[m].count[k]
  <2>1. counters[m].seen[k] \in -1..3 /\ counters[m].count[k] \in Nat
    BY DEF CtlInv, CountsOK, Counter
  <2>2. Cover(m, k) BY DEF CtlInv, Covers
  <2>3. QED BY <2>1, <2>2 DEF Cover, Covered
<1>2. Ctl!CountersCover BY <1>1 DEF Ctl!CountersCover
<1>3. \A s \in Sessions :
        /\ phase[s] \in {"off", "open", "closing", "gone"}
        /\ (s \in sessions) = (phase[s] \in {"open", "closing"})
        /\ s \in writer => s \in sessions
        /\ phase[s] = "gone" => at[s] = "idle"
  BY DEF CtlInv, SessionsOK, SessionOK
<1>4. /\ members \subseteq Ctl!Monitors /\ DOMAIN last_known \subseteq Ctl!Monitors
      /\ changes \in 0..MaxChanges
  BY DEF CtlInv, TablesOK, RoundShape
<1>5. Ctl!TypeOK BY <1>1, <1>3, <1>4 DEF Ctl!TypeOK
<1>6. QED BY <1>2, <1>5

LEMMA ControlInvariant == ASSUME Ctl!ControlConstants PROVE Ctl!Spec => []CtlInv
<1>1. Ctl!Init => CtlInv BY ControlInit
<1>2. CtlInv /\ [Ctl!Next]_Ctl!vars => CtlInv' BY ControlNext
<1>3. QED BY <1>1, <1>2, PTL DEF Ctl!Spec

(* The types of the device control server, and the life of a session: it   *)
(* is in is12_sessions_ from its connection until its writer has ended,    *)
(* for any number of sessions and monitors.                                *)
THEOREM ControlTypes == ASSUME Ctl!ControlConstants PROVE Ctl!Spec => []Ctl!TypeOK
<1>1. CtlInv => Ctl!TypeOK BY ControlMeans
<1>2. QED BY <1>1, ControlInvariant, PTL

(* update_monitor_counters counts every change of a status that            *)
(* is12_notify_worker finds between two of its looks, however many readers *)
(* compute the same monitor in between and however long each of them holds *)
(* what it computed before it records it.                                  *)
THEOREM CountersCoverLooks == ASSUME Ctl!ControlConstants PROVE Ctl!Spec => []Ctl!CountersCover
<1>1. CtlInv => Ctl!CountersCover BY ControlMeans
<1>2. QED BY <1>1, ControlInvariant, PTL

(* What a client is told of an aspect of a monitor in the end: by the last *)
(* message about it that waits in the outbox, or else by what it was told  *)
(* before; a subscription response after that makes it start anew.         *)
Says(x, m, k) == x.type # "subscriptions" /\ x.monitor = m /\ k \in DOMAIN x.status

Mentions(x, m, k) == x.type = "subscriptions" \/ Says(x, m, k)

LastWord(q, u, m, k, v) ==
  \/ \E i \in DOMAIN q :
       /\ Says(q[i], m, k) /\ q[i].status[k] = v
       /\ \A j \in DOMAIN q : i < j => ~Mentions(q[j], m, k)
  \/ (\A j \in DOMAIN q : ~Mentions(q[j], m, k)) /\ <<m, k>> \in DOMAIN u /\ u[<<m, k>>] = v

(* What is not adrift is what the worker will compare its next look with.  *)
Heard(s) ==
  s \in writer =>
    \A m \in subscribed[s], k \in Ctl!Aspects : <<m, k>> \notin adrift[s] =>
      \A v : LastWord(outbox[s], told[s], m, k, v) => Ctl!Vouches(s, m, k, v)

IsSeq(q) == \E S : q \in Seq(S)

WordOK(s) ==
  /\ IsSeq(outbox[s])
  /\ phase[s] = "off" => outbox[s] = <<>> /\ told[s] = <<>> /\ subscribed[s] = {}
  /\ Heard(s)

WordInv ==
  /\ DOMAIN told = Sessions /\ DOMAIN outbox = Sessions
  /\ DOMAIN subscribed = Sessions /\ DOMAIN adrift = Sessions
  /\ \A s \in Sessions : WordOK(s)

LEMMA Appended ==
  ASSUME NEW q, IsSeq(q), NEW x
  PROVE  /\ IsSeq(Append(q, x)) /\ Len(q) \in Nat /\ DOMAIN q = 1..Len(q)
         /\ DOMAIN Append(q, x) = 1..(Len(q) + 1)
         /\ \A i \in 1..Len(q) : Append(q, x)[i] = q[i]
         /\ Append(q, x)[Len(q) + 1] = x
<1>1. PICK S : q \in Seq(S) BY DEF IsSeq
<1>2. q \in Seq(S \cup {x}) /\ x \in S \cup {x} BY <1>1
<1>3. Append(q, x) \in Seq(S \cup {x}) BY <1>2
<1>4. QED BY <1>2, <1>3 DEF IsSeq

LEMMA Tailed ==
  ASSUME NEW q, IsSeq(q), q # <<>>
  PROVE  /\ IsSeq(Tail(q)) /\ Len(q) \in Nat \ {0} /\ DOMAIN q = 1..Len(q) /\ Head(q) = q[1]
         /\ DOMAIN Tail(q) = 1..(Len(q) - 1)
         /\ \A i \in 1..(Len(q) - 1) : Tail(q)[i] = q[i + 1]
<1>1. PICK S : q \in Seq(S) BY DEF IsSeq
<1>2. QED BY <1>1 DEF IsSeq

(* A message is the last word of what it says, a subscription response     *)
(* ends what was said, and writing the first message changes no last word. *)
LEMMA WordAppended ==
  ASSUME NEW q, IsSeq(q), NEW u, NEW x, NEW m, NEW k, NEW v,
         LastWord(Append(q, x), u, m, k, v)
  PROVE  \/ Says(x, m, k) /\ x.status[k] = v
         \/ ~Mentions(x, m, k) /\ LastWord(q, u, m, k, v)
<1> DEFINE p == Append(q, x)
           n == Len(q) + 1
<1>1. /\ n \in Nat \ {0} /\ DOMAIN q = 1..(n - 1) /\ DOMAIN p = 1..n
      /\ (\A i \in 1..(n - 1) : p[i] = q[i]) /\ p[n] = x
  BY Appended
<1>2. LastWord(p, u, m, k, v) OBVIOUS
<1> HIDE DEF p, n
<1>3. DOMAIN q \subseteq DOMAIN p /\ n \in DOMAIN p /\ (\A i \in DOMAIN q : i < n)
      /\ (\A i \in DOMAIN p : i = n \/ i \in DOMAIN q)
  BY <1>1
<1>4. ASSUME NEW i \in DOMAIN p, Says(p[i], m, k), p[i].status[k] = v,
             \A j \in DOMAIN p : i < j => ~Mentions(p[j], m, k)
      PROVE  \/ Says(x, m, k) /\ x.status[k] = v
             \/ ~Mentions(x, m, k) /\ LastWord(q, u, m, k, v)
  <2>1. CASE i = n BY <2>1, <1>1, <1>4
  <2>2. CASE i \in DOMAIN q
    <3>1. ~Mentions(x, m, k) BY <2>2, <1>1, <1>3, <1>4
    <3>2. \A j \in DOMAIN q : i < j => ~Mentions(q[j], m, k) BY <1>1, <1>3, <1>4
    <3>3. Says(q[i], m, k) /\ q[i].status[k] = v BY <2>2, <1>1, <1>4
    <3>4. QED BY <2>2, <3>1, <3>2, <3>3 DEF LastWord
  <2>3. QED BY <1>3, <2>1, <2>2
<1>5. ASSUME \A j \in DOMAIN p : ~Mentions(p[j], m, k), <<m, k>> \in DOMAIN u, u[<<m, k>>] = v
      PROVE  ~Mentions(x, m, k) /\ LastWord(q, u, m, k, v)
  <2>1. ~Mentions(x, m, k) BY <1>1, <1>3, <1>5
  <2>2. \A j \in DOMAIN q : ~Mentions(q[j], m, k) BY <1>1, <1>3, <1>5
  <2>3. QED BY <1>5, <2>1, <2>2 DEF LastWord
<1>6. QED BY <1>2, <1>4, <1>5 DEF LastWord

LEMMA WordWritten ==
  ASSUME NEW q, IsSeq(q), q # <<>>, NEW u, NEW m, NEW k, NEW v,
         LastWord(Tail(q), Ctl!Understand(u, Head(q)), m, k, v)
  PROVE  LastWord(q, u, m, k, v)
<1> DEFINE p == Tail(q)
           n == Len(q)
           h == q[1]
           w == Ctl!Understand(u, h)
<1>1. /\ n \in Nat \ {0} /\ DOMAIN q = 1..n /\ DOMAIN p = 1..(n - 1) /\ Head(q) = h
      /\ \A i \in 1..(n - 1) : p[i] = q[i + 1]
  BY Tailed
<1>2. LastWord(p, w, m, k, v) BY <1>1
<1>3. 1 \in DOMAIN q /\ h = q[1] BY <1>1
<1>w. w = Ctl!Understand(u, h) OBVIOUS
<1> HIDE DEF p, n, h, w
<1>4. /\ \A j \in DOMAIN q : j = 1 \/ (j - 1 \in DOMAIN p /\ q[j] = p[j - 1])
      /\ \A i \in DOMAIN p : i + 1 \in DOMAIN q /\ q[i + 1] = p[i]
      /\ \A j \in DOMAIN q : 1 <= j /\ j \in Nat
      /\ \A i \in DOMAIN p : i \in Nat
  BY <1>1
<1>5. ASSUME NEW i \in DOMAIN p, Says(p[i], m, k), p[i].status[k] = v,
             \A j \in DOMAIN p : i < j => ~Mentions(p[j], m, k)
      PROVE  LastWord(q, u, m, k, v)
  <2>1. ASSUME NEW j \in DOMAIN q, i + 1 < j PROVE ~Mentions(q[j], m, k)
    <3>1. j # 1 /\ i < j - 1 BY <2>1, <1>4
    <3>2. QED BY <3>1, <1>4, <1>5
  <2>2. i + 1 \in DOMAIN q /\ q[i + 1] = p[i] BY <1>4
  <2>3. QED BY <1>5, <2>1, <2>2 DEF LastWord
<1>6. ASSUME \A j \in DOMAIN p : ~Mentions(p[j], m, k), <<m, k>> \in DOMAIN w, w[<<m, k>>] = v
      PROVE  LastWord(q, u, m, k, v)
  <2>1. \A j \in DOMAIN q : j # 1 => ~Mentions(q[j], m, k) BY <1>4, <1>6
  <2>2. CASE h.type # "subscriptions"
    <3>1. PICK P : P = {h.monitor} \X DOMAIN h.status OBVIOUS
    <3>2. w = [p2 \in DOMAIN u \cup P |-> IF p2 \in P THEN h.status[p2[2]] ELSE u[p2]]
      BY <2>2, <3>1, <1>w DEF Ctl!Understand
    <3>3. <<m, k>> \in P <=> Says(h, m, k) BY <2>2, <3>1 DEF Says
    <3>4. CASE Says(h, m, k)
      <4>1. w[<<m, k>>] = h.status[k] BY <3>2, <3>3, <3>4
      <4>2. \A j \in DOMAIN q : 1 < j => ~Mentions(q[j], m, k) BY <2>1, <1>4
      <4>3. QED BY <1>3, <1>6, <3>4, <4>1, <4>2 DEF LastWord
    <3>5. CASE ~Says(h, m, k)
      <4>1. <<m, k>> \in DOMAIN u /\ u[<<m, k>>] = v BY <3>2, <3>3, <3>5, <1>6
      <4>2. \A j \in DOMAIN q : ~Mentions(q[j], m, k) BY <2>1, <2>2, <3>5, <1>3 DEF Mentions
      <4>3. QED BY <4>1, <4>2 DEF LastWord
    <3>6. QED BY <3>4, <3>5
  <2>3. CASE h.type = "subscriptions"
    <3>1. w = <<>> BY <2>3, <1>w DEF Ctl!Understand
    <3>2. QED BY <3>1, <1>6
  <2>4. QED BY <2>2, <2>3
<1>7. QED BY <1>2, <1>5, <1>6 DEF LastWord

LEMMA NothingSaid ==
  ASSUME NEW q, NEW u, q = <<>>, u = <<>>, NEW m, NEW k, NEW v
  PROVE  ~LastWord(q, u, m, k, v)
<1>1. DOMAIN q = {} /\ DOMAIN u = {} OBVIOUS
<1>2. QED BY <1>1 DEF LastWord

(* A step that leaves the worker alone leaves what it vouches for.         *)
LEMMA VouchesSame ==
  ASSUME NEW s, NEW m, NEW k, NEW v, UNCHANGED last_known,
         (Ctl!Passed(s, m)' <=> Ctl!Passed(s, m)),
         Ctl!Passed(s, m) => round'.seen = round.seen
  PROVE  Ctl!Vouches(s, m, k, v)' <=> Ctl!Vouches(s, m, k, v)
<1>1. CASE Ctl!Passed(s, m) BY <1>1 DEF Ctl!Vouches, Ctl!NoProps
<1>2. CASE ~Ctl!Passed(s, m) BY <1>2 DEF Ctl!Vouches, Ctl!NoProps
<1>3. QED BY <1>1, <1>2

LEMMA PassedSame ==
  ASSUME NEW s, NEW m, round' = round, at'[Worker] = at[Worker], job'[Worker] = job[Worker]
  PROVE  Ctl!Passed(s, m)' <=> Ctl!Passed(s, m)
BY DEF Ctl!Passed

(* A session that takes no part in a step that keeps what is vouched for.  *)
LEMMA WordSame ==
  ASSUME NEW s, WordOK(s), outbox'[s] = outbox[s], told'[s] = told[s], phase'[s] = phase[s],
         s \in writer' => s \in writer, subscribed'[s] = subscribed[s],
         adrift[s] \subseteq adrift'[s],
         \A m, k, v : s \in writer /\ m \in subscribed[s] /\ <<m, k>> \notin adrift'[s] /\
           Ctl!Vouches(s, m, k, v) => Ctl!Vouches(s, m, k, v)'
  PROVE  WordOK(s)'
<1>1. IsSeq(outbox[s])' BY DEF WordOK, IsSeq
<1>2. Heard(s)'
  <2>1. SUFFICES ASSUME s \in writer', NEW m \in subscribed'[s], NEW k \in Ctl!Aspects,
                        <<m, k>> \notin adrift'[s], NEW v,
                        LastWord(outbox'[s], told'[s], m, k, v)
                 PROVE  Ctl!Vouches(s, m, k, v)'
    BY DEF Heard, LastWord, Mentions, Says, Ctl!Aspects
  <2>2. Ctl!Vouches(s, m, k, v) BY <2>1 DEF WordOK, Heard
  <2>3. QED BY <2>1, <2>2
<1>3. QED BY <1>1, <1>2 DEF WordOK

LEMMA WordQuiet ==
  ASSUME WordInv, UNCHANGED Ctl!conns,
         \A s \in Sessions : \A m, k, v :
           s \in writer /\ Ctl!Vouches(s, m, k, v) => Ctl!Vouches(s, m, k, v)'
  PROVE  WordInv'
<1>1. UNCHANGED <<sessions, phase, writer, subscribed, outbox, told, requests, adrift>>
  BY DEF Ctl!conns
<1>2. ASSUME NEW s \in Sessions PROVE WordOK(s)' BY <1>1, WordSame DEF WordInv
<1>3. QED BY <1>1, <1>2 DEF WordInv

(* Steps of one session's threads: the others are as they were.            *)
LEMMA WordServed ==
  ASSUME WordInv, NEW s \in Sessions, UNCHANGED <<last_known, round>>,
         at'[Worker] = at[Worker], job'[Worker] = job[Worker],
         DOMAIN told' = Sessions, DOMAIN outbox' = Sessions,
         DOMAIN subscribed' = Sessions, DOMAIN adrift' = Sessions,
         \A x \in Sessions \ {s} :
           /\ outbox'[x] = outbox[x] /\ told'[x] = told[x] /\ phase'[x] = phase[x]
           /\ subscribed'[x] = subscribed[x] /\ adrift'[x] = adrift[x]
           /\ x \in writer' => x \in writer,
         IsSeq(outbox'[s]), phase'[s] # "off",
         s \in writer' =>
           \A m \in subscribed'[s], k \in Ctl!Aspects : <<m, k>> \notin adrift'[s] =>
             \A v : LastWord(outbox'[s], told'[s], m, k, v) => Ctl!Vouches(s, m, k, v)
  PROVE  WordInv'
<1>1. \A x, m : Ctl!Passed(x, m)' <=> Ctl!Passed(x, m) BY PassedSame
<1>2. \A x, m, k, v : Ctl!Vouches(x, m, k, v)' <=> Ctl!Vouches(x, m, k, v)
  BY <1>1, VouchesSame
<1>3. ASSUME NEW x \in Sessions \ {s} PROVE WordOK(x)'
  <2>1. WordOK(x) BY DEF WordInv
  <2>2. QED BY <1>2, <2>1, WordSame
<1>4. Heard(s)'
  <2>1. SUFFICES ASSUME s \in writer', NEW m \in subscribed'[s], NEW k \in Ctl!Aspects,
                        <<m, k>> \notin adrift'[s], NEW v,
                        LastWord(outbox'[s], told'[s], m, k, v)
                 PROVE  Ctl!Vouches(s, m, k, v)'
    BY DEF Heard, LastWord, Mentions, Says, Ctl!Aspects
  <2>2. QED BY <1>2, <2>1
<1>5. IsSeq(outbox[s])' BY DEF IsSeq
<1>6. WordOK(s)' BY <1>4, <1>5 DEF WordOK
<1>7. QED BY <1>3, <1>6 DEF WordInv

-----------------------------------------------------------------------------
LEMMA WordInit == ASSUME Ctl!ControlConstants, Ctl!Init PROVE WordInv
<1>1. /\ told = [s \in Sessions |-> <<>>] /\ outbox = [s \in Sessions |-> <<>>]
      /\ subscribed = [s \in Sessions |-> {}] /\ adrift = [s \in Sessions |-> {}]
      /\ writer = {}
  BY DEF Ctl!Init
<1>2. ASSUME NEW s \in Sessions PROVE WordOK(s)
  <2>1. outbox[s] = <<>> /\ told[s] = <<>> /\ subscribed[s] = {} BY <1>1
  <2>2. IsSeq(outbox[s])
    <3>1. <<>> \in Seq({}) OBVIOUS
    <3>2. QED BY <2>1, <3>1 DEF IsSeq
  <2>3. QED BY <1>1, <2>1, <2>2 DEF WordOK, Heard
<1>3. QED BY <1>1, <1>2 DEF WordInv

(* A reader's steps leave the worker where it is.                          *)
LEMMA WorkerApart ==
  ASSUME Ctl!ControlConstants, LooksOK, NEW s \in Sessions,
         \/ UNCHANGED <<at, job>>
         \/ \E p, j : at' = [at EXCEPT ![s] = p] /\ job' = [job EXCEPT ![s] = j]
  PROVE  at'[Worker] = at[Worker] /\ job'[Worker] = job[Worker]
BY DEF LooksOK, Ctl!Threads, Ctl!ControlConstants

(* An answer, with the statuses st of monitor m or with none: what is not  *)
(* adrift afterwards is vouched for.                                       *)
LEMMA AnswerKeepsWord ==
  ASSUME WordInv, NEW s \in Sessions, NEW m, NEW st, phase[s] # "off",
         Ctl!Send(s, Ctl!Answer(m, st)),
         UNCHANGED <<told, phase, subscribed, writer, last_known, round>>,
         DOMAIN adrift' = Sessions, \A x \in Sessions \ {s} : adrift'[x] = adrift[x],
         adrift[s] \ ({m} \X DOMAIN st) \subseteq adrift'[s],
         \A k \in DOMAIN st : <<m, k>> \notin adrift'[s] => Ctl!Vouches(s, m, k, st[k]),
         at'[Worker] = at[Worker], job'[Worker] = job[Worker]
  PROVE  WordInv'
<1>1. WordOK(s) /\ IsSeq(outbox[s]) BY DEF WordInv, WordOK
<1>2. PICK x : x = Ctl!Answer(m, st) OBVIOUS
<1>3. x.type = "response" /\ x.monitor = m /\ x.status = st
  BY <1>2 DEF Ctl!Answer, Ctl!Message
<1>4. /\ DOMAIN outbox' = Sessions /\ outbox'[s] = Append(outbox[s], x)
      /\ \A y \in Sessions \ {s} : outbox'[y] = outbox[y]
  BY <1>2 DEF WordInv, Ctl!Send
<1>5. IsSeq(outbox'[s]) BY <1>1, <1>4, Appended
<1>6. ASSUME s \in writer', NEW n \in subscribed'[s], NEW k \in Ctl!Aspects,
             <<n, k>> \notin adrift'[s], NEW v, LastWord(outbox'[s], told'[s], n, k, v)
      PROVE  Ctl!Vouches(s, n, k, v)
  <2>1. \/ Says(x, n, k) /\ x.status[k] = v
        \/ ~Mentions(x, n, k) /\ LastWord(outbox[s], told[s], n, k, v)
    BY <1>1, <1>4, <1>6, WordAppended
  <2>2. CASE Says(x, n, k) /\ x.status[k] = v
    <3>1. n = m /\ k \in DOMAIN st /\ st[k] = v BY <1>3, <2>2 DEF Says
    <3>2. QED BY <1>6, <3>1
  <2>3. CASE ~Mentions(x, n, k) /\ LastWord(outbox[s], told[s], n, k, v)
    <3>1. <<n, k>> \notin {m} \X DOMAIN st BY <1>3, <2>3 DEF Mentions, Says
    <3>2. <<n, k>> \notin adrift[s] BY <1>6, <3>1
    <3>3. QED BY <1>1, <1>6, <2>3, <3>2 DEF WordOK, Heard
  <2>4. QED BY <2>1, <2>2, <2>3
<1>7. /\ DOMAIN told' = Sessions /\ DOMAIN subscribed' = Sessions /\ phase'[s] # "off"
  BY DEF WordInv
<1>8. QED BY <1>4, <1>5, <1>6, <1>7, WordServed

LEMMA SubscribeKeepsWord ==
  ASSUME WordInv, NEW s \in Sessions, NEW S, phase[s] = "open",
         Ctl!Send(s, Ctl!Message("subscriptions", 0, <<>>)),
         subscribed' = [subscribed EXCEPT ![s] = S], adrift' = [adrift EXCEPT ![s] = {}],
         UNCHANGED <<told, phase, writer, last_known, round, at, job>>
  PROVE  WordInv'
<1>1. WordOK(s) /\ IsSeq(outbox[s]) BY DEF WordInv, WordOK
<1>2. PICK x : x = Ctl!Message("subscriptions", 0, <<>>) OBVIOUS
<1>3. x.type = "subscriptions" BY <1>2 DEF Ctl!Message
<1>4. /\ DOMAIN outbox' = Sessions /\ outbox'[s] = Append(outbox[s], x)
      /\ \A y \in Sessions \ {s} : outbox'[y] = outbox[y]
  BY <1>2 DEF WordInv, Ctl!Send
<1>5. IsSeq(outbox'[s]) BY <1>1, <1>4, Appended
<1>6. \A m, k, v : ~LastWord(outbox'[s], told'[s], m, k, v)
  BY <1>1, <1>3, <1>4, WordAppended DEF Mentions, Says
<1>7. /\ DOMAIN told' = Sessions /\ DOMAIN subscribed' = Sessions /\ DOMAIN adrift' = Sessions
      /\ \A y \in Sessions \ {s} : subscribed'[y] = subscribed[y] /\ adrift'[y] = adrift[y]
  BY DEF WordInv
<1>8. QED BY <1>4, <1>5, <1>6, <1>7, WordServed

LEMMA WriteKeepsWord ==
  ASSUME WordInv, NEW s \in Sessions, Ctl!Write(s), UNCHANGED <<last_known, round, at, job>>
  PROVE  WordInv'
<1>1. WordOK(s) /\ IsSeq(outbox[s]) /\ outbox[s] # <<>> /\ s \in writer
  BY DEF WordInv, WordOK, Ctl!Write
<1>2. PICK p : p = Tail(outbox[s]) OBVIOUS
<1>3. PICK w : w = Ctl!Understand(told[s], Head(outbox[s])) OBVIOUS
<1>4. /\ outbox' = [outbox EXCEPT ![s] = p] /\ told' = [told EXCEPT ![s] = w]
      /\ UNCHANGED <<phase, writer, subscribed, adrift>>
  BY <1>2, <1>3 DEF Ctl!Write
<1>5. /\ DOMAIN outbox' = Sessions /\ outbox'[s] = p /\ DOMAIN told' = Sessions /\ told'[s] = w
      /\ DOMAIN subscribed' = Sessions /\ DOMAIN adrift' = Sessions
      /\ \A x \in Sessions \ {s} : outbox'[x] = outbox[x] /\ told'[x] = told[x]
  BY <1>4 DEF WordInv
<1>6. IsSeq(p) BY <1>1, <1>2, Tailed
<1>7. \A m, k, v : LastWord(p, w, m, k, v) => LastWord(outbox[s], told[s], m, k, v)
  BY <1>1, <1>2, <1>3, WordWritten
<1>8. \A m \in subscribed'[s], k \in Ctl!Aspects : <<m, k>> \notin adrift'[s] =>
        \A v : LastWord(outbox'[s], told'[s], m, k, v) => Ctl!Vouches(s, m, k, v)
  BY <1>1, <1>4, <1>5, <1>7 DEF WordOK, Heard
<1>9. phase'[s] # "off"
  <2>1. phase[s] # "off" BY <1>1 DEF WordOK
  <2>2. QED BY <1>4, <2>1
<1>10. IsSeq(outbox'[s]) BY <1>5, <1>6
<1>11. QED BY <1>4, <1>5, <1>8, <1>9, <1>10, WordServed

(* A session without a writer, and one that has just connected.            *)
LEMMA ShutKeepsWord ==
  ASSUME WordInv, NEW s \in Sessions, phase'[s] # "off", s \notin writer',
         \A x \in writer' : x \in writer,
         DOMAIN outbox' = Sessions, DOMAIN told' = Sessions, DOMAIN subscribed' = Sessions,
         DOMAIN adrift' = Sessions, IsSeq(outbox'[s]),
         \A x \in Sessions \ {s} :
           /\ outbox'[x] = outbox[x] /\ told'[x] = told[x] /\ phase'[x] = phase[x]
           /\ subscribed'[x] = subscribed[x] /\ adrift'[x] = adrift[x],
         UNCHANGED <<last_known, round, at, job>>
  PROVE  WordInv'
BY WordServed

LEMMA ConnectKeepsWord ==
  ASSUME WordInv, SessionsOK, NEW s \in Sessions, Ctl!Connect(s),
         UNCHANGED <<last_known, round, at, job>>
  PROVE  WordInv'
<1>1. /\ phase[s] = "off" /\ phase' = [phase EXCEPT ![s] = "open"]
      /\ writer' = writer \cup {s} /\ UNCHANGED <<subscribed, outbox, told, adrift>>
  BY DEF Ctl!Connect
<1>2. phase'[s] = "open" /\ \A x \in Sessions \ {s} : phase'[x] = phase[x]
  BY <1>1 DEF SessionsOK
<1>3. IsSeq(outbox[s]) /\ outbox[s] = <<>> /\ told[s] = <<>> BY <1>1 DEF WordInv, WordOK
<1>4. \A m, k, v : ~LastWord(outbox[s], told[s], m, k, v) BY <1>3, NothingSaid
<1>5. /\ DOMAIN told' = Sessions /\ DOMAIN outbox' = Sessions
      /\ DOMAIN subscribed' = Sessions /\ DOMAIN adrift' = Sessions
  BY <1>1 DEF WordInv
<1>6. \A m, k, v : ~LastWord(outbox'[s], told'[s], m, k, v) BY <1>1, <1>4
<1>7. IsSeq(outbox'[s]) BY <1>1, <1>3
<1>8. QED BY <1>1, <1>2, <1>5, <1>6, <1>7, WordServed

LEMMA ServeTells ==
  ASSUME Ctl!ControlConstants, CtlInv, WordInv, NEW s \in Sessions,
         Ctl!Reader(s) \/ Ctl!Writer(s) \/ Ctl!Client(s)
  PROVE  WordInv'
<1>1. LooksOK /\ SessionsOK /\ SessionOK(s) BY DEF CtlInv, SessionsOK
<1>2. /\ DOMAIN told = Sessions /\ DOMAIN outbox = Sessions
      /\ DOMAIN subscribed = Sessions /\ DOMAIN adrift = Sessions /\ DOMAIN phase = Sessions
      /\ IsSeq(outbox[s])
  BY <1>1 DEF WordInv, WordOK, SessionsOK
<1>3. CASE \/ Ctl!Compute(s) \/ Ctl!Count(s)
           \/ \E m \in Ctl!Monitors, k \in Asked : Ctl!Get(s, m, k)
  <2>1. \E p, j : at' = [at EXCEPT ![s] = p] /\ job' = [job EXCEPT ![s] = j]
    BY <1>3 DEF Ctl!Compute, Ctl!Count, Ctl!Get, Ctl!Look
  <2>2. at'[Worker] = at[Worker] /\ job'[Worker] = job[Worker] BY <1>1, <2>1, WorkerApart
  <2>3. UNCHANGED <<sessions, phase, writer, subscribed, outbox, told, adrift, round, last_known>>
    BY <1>3 DEF Ctl!Compute, Ctl!Count, Ctl!Get, Ctl!conns, Ctl!work
  <2>4. \A x, m : Ctl!Passed(x, m)' <=> Ctl!Passed(x, m) BY <2>2, <2>3, PassedSame
  <2>5. \A x, m, k, v : Ctl!Vouches(x, m, k, v)' <=> Ctl!Vouches(x, m, k, v)
    BY <2>3, <2>4, VouchesSame
  <2>6. ASSUME NEW x \in Sessions PROVE WordOK(x)'
    <3>1. WordOK(x) BY DEF WordInv
    <3>2. QED BY <2>3, <2>5, <3>1, WordSame
  <2>7. QED BY <1>2, <2>3, <2>6 DEF WordInv
<1>4. CASE Ctl!Respond(s)
  <2>1. PICK m : m = job[s].monitor OBVIOUS
  <2>2. PICK st : st = [k \in {job[s].aspect} \cap DOMAIN job[s].props.status |->
                          job[s].props.status[k]]
    OBVIOUS
  <2>3. /\ at[s] = "looked" /\ Ctl!Send(s, Ctl!Answer(m, st))
        /\ adrift' = [adrift EXCEPT ![s] =
             (adrift[s] \ ({m} \X DOMAIN st)) \cup Ctl!Unvouched(s, m, st)]
        /\ UNCHANGED <<told, phase, subscribed, writer, last_known, round>>
        /\ at' = [at EXCEPT ![s] = "idle"] /\ job' = [job EXCEPT ![s] = Ctl!NoJob]
    BY <1>4, <2>1, <2>2 DEF Ctl!Respond, Ctl!work
  <2>4. at'[Worker] = at[Worker] /\ job'[Worker] = job[Worker] BY <1>1, <2>3, WorkerApart
  <2>5. phase[s] # "off" BY <1>1, <2>3 DEF SessionOK
  <2>6. /\ DOMAIN adrift' = Sessions /\ \A x \in Sessions \ {s} : adrift'[x] = adrift[x]
        /\ adrift'[s] = (adrift[s] \ ({m} \X DOMAIN st)) \cup Ctl!Unvouched(s, m, st)
    BY <1>2, <2>3
  <2>7. \A k \in DOMAIN st : <<m, k>> \notin adrift'[s] => Ctl!Vouches(s, m, k, st[k])
    BY <2>6 DEF Ctl!Unvouched
  <2>8. adrift[s] \ ({m} \X DOMAIN st) \subseteq adrift'[s] BY <2>6
  <2>9. QED BY <2>3, <2>4, <2>5, <2>6, <2>7, <2>8, AnswerKeepsWord
<1>5. CASE \/ Ctl!Other(s)
           \/ \E m \in Ctl!Monitors, v \in BOOLEAN : Ctl!Set(s, m, v)
  <2>1. /\ UNCHANGED <<told, phase, subscribed, writer, adrift, last_known, round, at, job>>
        /\ Ctl!Send(s, Ctl!Answer(0, <<>>)) /\ phase[s] = "open"
    BY <1>5 DEF Ctl!Other, Ctl!Set, Ctl!work, Ctl!looks, Ctl!Asks
  <2>2. PICK st : st = <<>> OBVIOUS
  <2>3. DOMAIN st = {} BY <2>2
  <2>4. Ctl!Send(s, Ctl!Answer(0, st)) BY <2>1, <2>2
  <2>5. adrift[s] \ ({0} \X DOMAIN st) \subseteq adrift'[s] BY <2>1
  <2>6. QED BY <1>2, <2>1, <2>3, <2>4, <2>5, AnswerKeepsWord
<1>6. ASSUME NEW S \in SUBSET Ctl!Monitors, Ctl!Subscribe(s, S) PROVE WordInv'
  <2>1. /\ UNCHANGED <<told, phase, writer, last_known, round, at, job>> /\ phase[s] = "open"
        /\ Ctl!Send(s, Ctl!Message("subscriptions", 0, <<>>))
        /\ subscribed' = [subscribed EXCEPT ![s] = S] /\ adrift' = [adrift EXCEPT ![s] = {}]
    BY <1>6 DEF Ctl!Subscribe, Ctl!Asks, Ctl!work, Ctl!looks
  <2>2. QED BY <2>1, SubscribeKeepsWord
<1>7. CASE Ctl!Write(s)
  <2>1. UNCHANGED <<last_known, round, at, job>> BY <1>7 DEF Ctl!Write, Ctl!work, Ctl!looks
  <2>2. QED BY <1>7, <2>1, WriteKeepsWord
<1>8. CASE Ctl!WriteFails(s) \/ Ctl!WriterEnds(s)
  <2>1. /\ UNCHANGED <<phase, told, subscribed, adrift, last_known, round, at, job>>
        /\ writer' = writer \ {s} /\ s \in writer
    BY <1>8 DEF Ctl!WriteFails, Ctl!WriterEnds, Ctl!work, Ctl!looks
  <2>2. \/ outbox' = outbox
        \/ outbox[s] # <<>> /\ outbox' = [outbox EXCEPT ![s] = Tail(outbox[s])]
    BY <1>8 DEF Ctl!WriteFails, Ctl!WriterEnds
  <2>3. /\ DOMAIN outbox' = Sessions /\ \A x \in Sessions \ {s} : outbox'[x] = outbox[x]
        /\ outbox'[s] = outbox[s] \/ (outbox[s] # <<>> /\ outbox'[s] = Tail(outbox[s]))
    BY <1>2, <2>2
  <2>4. IsSeq(outbox'[s])
    <3>1. PICK q : q = outbox[s] OBVIOUS
    <3>2. IsSeq(q) /\ (outbox'[s] = q \/ (q # <<>> /\ outbox'[s] = Tail(q)))
      BY <1>2, <2>3, <3>1
    <3>3. q # <<>> => IsSeq(Tail(q)) BY <3>2, Tailed
    <3>4. QED BY <3>2, <3>3
  <2>5. phase'[s] # "off" BY <1>1, <2>1 DEF SessionOK
  <2>6. s \notin writer' /\ \A x \in writer' : x \in writer BY <2>1
  <2>7. /\ DOMAIN told' = Sessions /\ DOMAIN subscribed' = Sessions
        /\ DOMAIN adrift' = Sessions
    BY <1>2, <2>1
  <2>8. \A x \in Sessions \ {s} :
          /\ outbox'[x] = outbox[x] /\ told'[x] = told[x] /\ phase'[x] = phase[x]
          /\ subscribed'[x] = subscribed[x] /\ adrift'[x] = adrift[x]
    BY <2>1, <2>3
  <2>9. UNCHANGED <<last_known, round, at, job>> BY <2>1
  <2>10. QED BY <2>3, <2>4, <2>5, <2>6, <2>7, <2>8, <2>9, ShutKeepsWord
<1>9. CASE Ctl!Disconnect(s)
  <2>1. /\ UNCHANGED <<writer, outbox, told, subscribed, adrift, last_known, round, at, job>>
        /\ phase[s] = "open" /\ phase' = [phase EXCEPT ![s] = "closing"]
    BY <1>9 DEF Ctl!Disconnect, Ctl!work, Ctl!looks
  <2>2. phase'[s] = "closing" /\ \A x \in Sessions \ {s} : phase'[x] = phase[x]
    BY <1>2, <2>1
  <2>3. s \in writer => \A m \in subscribed[s], k \in Ctl!Aspects : <<m, k>> \notin adrift[s] =>
          \A v : LastWord(outbox[s], told[s], m, k, v) => Ctl!Vouches(s, m, k, v)
    BY DEF WordInv, WordOK, Heard
  <2>4. QED BY <1>2, <2>1, <2>2, <2>3, WordServed
<1>10. CASE Ctl!Leave(s)
  <2>1. /\ UNCHANGED <<writer, last_known, round, at, job>> /\ s \notin writer
        /\ phase' = [phase EXCEPT ![s] = "gone"]
        /\ subscribed' = [subscribed EXCEPT ![s] = {}]
        /\ outbox' = [outbox EXCEPT ![s] = <<>>] /\ told' = [told EXCEPT ![s] = <<>>]
        /\ adrift' = [adrift EXCEPT ![s] = {}]
    BY <1>10 DEF Ctl!Leave, Ctl!Freed, Ctl!work, Ctl!looks
  <2>2. phase'[s] = "gone" /\ \A x \in Sessions \ {s} : phase'[x] = phase[x]
    BY <1>2, <2>1
  <2>3. outbox'[s] = <<>> BY <1>2, <2>1
  <2>4. IsSeq(outbox'[s])
    <3>1. <<>> \in Seq({}) OBVIOUS
    <3>2. QED BY <2>3, <3>1 DEF IsSeq
  <2>5. QED BY <1>2, <2>1, <2>2, <2>4, ShutKeepsWord
<1>11. CASE Ctl!Connect(s)
  <2>1. UNCHANGED <<last_known, round, at, job>>
    BY <1>11 DEF Ctl!Connect, Ctl!work, Ctl!looks
  <2>2. QED BY <1>1, <1>11, <2>1, ConnectKeepsWord
<1>12. QED
  BY <1>3, <1>4, <1>5, <1>6, <1>7, <1>8, <1>9, <1>10, <1>11
  DEF Ctl!Reader, Ctl!Writer, Ctl!Client

-----------------------------------------------------------------------------
(* Steps of the worker before it compares.                                 *)
LEMMA QuietTells ==
  ASSUME WordInv, UNCHANGED <<Ctl!conns, last_known>>,
         at[Worker] \notin {"compare", "push"}, at'[Worker] \notin {"compare", "push"}
  PROVE  WordInv'
<1>1. \A s, m : ~Ctl!Passed(s, m) /\ ~Ctl!Passed(s, m)' BY DEF Ctl!Passed
<1>2. \A s, m, k, v : Ctl!Vouches(s, m, k, v)' <=> Ctl!Vouches(s, m, k, v)
  BY <1>1, VouchesSame
<1>3. QED BY <1>2, WordQuiet

(* Every session that has a writer is in the copy of the list.             *)
LEMMA CopyTells ==
  ASSUME CtlInv, WordInv, Ctl!CopySessions PROVE WordInv'
<1>1. LooksOK /\ RoundShape /\ SessionsOK BY DEF CtlInv
<1>2. /\ at[Worker] = "collect" /\ at' = [at EXCEPT ![Worker] = "compare"]
      /\ round' = [round EXCEPT !.todo = DOMAIN round.seen, !.copy = sessions]
      /\ UNCHANGED <<Ctl!conns, last_known>>
  BY DEF Ctl!CopySessions
<1>3. at'[Worker] = "compare" BY <1>1, <1>2 DEF LooksOK, Ctl!Threads
<1>4. round'.copy = sessions BY <1>1, <1>2 DEF RoundShape
<1>5. ASSUME NEW s \in Sessions, s \in writer, NEW m PROVE ~Ctl!Passed(s, m) /\ ~Ctl!Passed(s, m)'
  <2>1. s \in round'.copy BY <1>1, <1>4, <1>5 DEF SessionsOK, SessionOK
  <2>2. QED BY <1>2, <1>3, <2>1 DEF Ctl!Passed
<1>6. \A s \in Sessions : \A m, k, v :
        s \in writer /\ Ctl!Vouches(s, m, k, v) => Ctl!Vouches(s, m, k, v)'
  BY <1>2, <1>5, VouchesSame
<1>7. QED BY <1>2, <1>6, WordQuiet

(* Nothing to tell: the last look and the new one vouch for the same.      *)
LEMMA CompareTells ==
  ASSUME CtlInv, WordInv, NEW m \in Ctl!Monitors, Ctl!Compare(m) PROVE WordInv'
<1>1. LooksOK /\ RoundShape BY DEF CtlInv
<1>p. PICK push : push = IF Ctl!Changed(m) THEN round.copy ELSE {} OBVIOUS
<1>2. /\ at[Worker] = "compare" /\ m \in round.todo /\ at' = [at EXCEPT ![Worker] = "push"]
      /\ job' = [job EXCEPT ![Worker].monitor = m] /\ round' = [round EXCEPT !.push = push]
      /\ UNCHANGED <<Ctl!conns, last_known>>
  BY <1>p DEF Ctl!Compare
<1>3. at'[Worker] = "push" BY <1>1, <1>2 DEF LooksOK, Ctl!Threads
<1>4. job'[Worker].monitor = m
  <2>1. job[Worker] \in Lookups BY <1>1, JobSame
  <2>2. job' = [job EXCEPT ![Worker] = [job[Worker] EXCEPT !.monitor = m]] BY <1>2
  <2>3. job'[Worker] = [job[Worker] EXCEPT !.monitor = m]
    BY <1>1, <2>2 DEF LooksOK, Ctl!Threads
  <2>4. QED BY <2>1, <2>3 DEF Lookups
<1>5. /\ round'.copy = round.copy /\ round'.seen = round.seen /\ round'.push = push
      /\ round'.todo = round.todo
  BY <1>1, <1>2 DEF RoundShape
<1>6. \A s, n : Ctl!Passed(s, n) <=> n \in round.todo /\ s \notin round.copy
  BY <1>2 DEF Ctl!Passed
<1>7. \A s, n : Ctl!Passed(s, n)' <=>
                n \in round.todo /\ (s \notin round.copy \/ (n = m /\ s \notin push))
  BY <1>3, <1>4, <1>5 DEF Ctl!Passed
<1>8. ASSUME NEW s, NEW n, NEW k, NEW v, Ctl!Vouches(s, n, k, v)
      PROVE  Ctl!Vouches(s, n, k, v)'
  <2>1. CASE Ctl!Passed(s, n)' <=> Ctl!Passed(s, n) BY <1>2, <1>5, <1>8, <2>1, VouchesSame
  <2>2. CASE ~(Ctl!Passed(s, n)' <=> Ctl!Passed(s, n))
    <3>1. n = m /\ ~Ctl!Changed(m) /\ ~Ctl!Passed(s, m) /\ Ctl!Passed(s, m)'
      BY <1>p, <1>6, <1>7, <2>2
    <3>2. m \in DOMAIN last_known /\ (last_known[m] = Ctl!NoProps \/ last_known[m].status[k] = v)
      BY <1>8, <3>1 DEF Ctl!Vouches
    <3>3. round.seen[m] = Ctl!NoProps \/ round.seen[m] = last_known[m]
      BY <3>1, <3>2 DEF Ctl!Changed
    <3>4. round.seen[m] = Ctl!NoProps \/ round.seen[m].status[k] = v BY <3>2, <3>3
    <3>5. QED BY <1>5, <3>1, <3>4 DEF Ctl!Vouches, Ctl!NoProps
  <2>3. QED BY <2>1, <2>2
<1>9. QED BY <1>2, <1>8, WordQuiet

(* A notification says what is new; the rest the last look vouched for.    *)
LEMMA PushTells ==
  ASSUME CtlInv, WordInv, NEW s \in Sessions, Ctl!Push(s) PROVE WordInv'
<1>1. LooksOK /\ RoundShape /\ RoundPlace BY DEF CtlInv
<1>m. PICK m : m = job[Worker].monitor OBVIOUS
<1>n. PICK news : news = Ctl!News(m) OBVIOUS
<1>x. PICK x : x = Ctl!Message("notification", m, news) OBVIOUS
<1>2. /\ at[Worker] = "push" /\ s \in round.push /\ round' = [round EXCEPT !.push = @ \ {s}]
      /\ at' = at /\ job' = job /\ m \in round.todo
      /\ UNCHANGED <<last_known, phase, writer, subscribed, told>>
      /\ \/ /\ m \in subscribed[s] /\ outbox' = [outbox EXCEPT ![s] = Append(@, x)]
            /\ adrift' = [adrift EXCEPT ![s] = @ \ ({m} \X DOMAIN news)]
         \/ m \notin subscribed[s] /\ UNCHANGED <<outbox, adrift>>
  BY <1>1, <1>m, <1>n, <1>x DEF Ctl!Push, Ctl!looks, Ctl!Send, RoundPlace
<1>3. /\ round'.copy = round.copy /\ round'.seen = round.seen /\ round'.todo = round.todo
      /\ round'.push = round.push \ {s}
  BY <1>1, <1>2 DEF RoundShape
<1>4. \A y, n : y # s \/ n # m => (Ctl!Passed(y, n)' <=> Ctl!Passed(y, n))
  BY <1>2, <1>3, <1>m DEF Ctl!Passed
<1>5. Ctl!Passed(s, m)' BY <1>2, <1>3, <1>m DEF Ctl!Passed
<1>6. \A y, n, k, v : y # s \/ n # m => (Ctl!Vouches(y, n, k, v)' <=> Ctl!Vouches(y, n, k, v))
  BY <1>2, <1>3, <1>4, VouchesSame
<1>7. \A k, v : round.seen[m] = Ctl!NoProps \/ round.seen[m].status[k] = v =>
                  Ctl!Vouches(s, m, k, v)'
  BY <1>3, <1>5 DEF Ctl!Vouches, Ctl!NoProps
<1>8. ASSUME NEW k \in Ctl!Aspects, k \notin DOMAIN news, NEW v, Ctl!Vouches(s, m, k, v)
      PROVE  Ctl!Vouches(s, m, k, v)'
  <2>1. CASE Ctl!Passed(s, m) BY <1>7, <1>8, <2>1 DEF Ctl!Vouches
  <2>2. CASE ~Ctl!Passed(s, m)
    <3>1. last_known[m] = Ctl!NoProps \/ last_known[m].status[k] = v
      BY <1>8, <2>2 DEF Ctl!Vouches
    <3>2. last_known[m] # Ctl!NoProps /\ last_known[m].status[k] = round.seen[m].status[k]
      BY <1>8, <1>n DEF Ctl!News
    <3>3. QED BY <1>7, <3>1, <3>2
  <2>3. QED BY <2>1, <2>2
<1>9. /\ DOMAIN outbox' = Sessions /\ DOMAIN adrift' = Sessions
      /\ \A y \in Sessions \ {s} : outbox'[y] = outbox[y] /\ adrift'[y] = adrift[y]
  BY <1>2 DEF WordInv
<1>10. ASSUME NEW y \in Sessions \ {s} PROVE WordOK(y)'
  <2>1. WordOK(y) BY DEF WordInv
  <2>2. \A n, k, v : Ctl!Vouches(y, n, k, v) => Ctl!Vouches(y, n, k, v)' BY <1>6, <1>10
  <2>3. QED BY <1>2, <1>9, <2>1, <2>2, WordSame
<1>11. WordOK(s) /\ IsSeq(outbox[s]) BY DEF WordInv, WordOK
<1>12. x.type = "notification" /\ x.monitor = m /\ x.status = news BY <1>x DEF Ctl!Message
<1>13. WordOK(s)'
  <2>1. CASE m \notin subscribed[s] /\ UNCHANGED <<outbox, adrift>>
    <3>1. \A n, k, v : n \in subscribed[s] /\ Ctl!Vouches(s, n, k, v) =>
                         Ctl!Vouches(s, n, k, v)'
      BY <1>6, <2>1
    <3>2. QED BY <1>2, <1>11, <2>1, <3>1, WordSame
  <2>2. CASE /\ m \in subscribed[s] /\ outbox' = [outbox EXCEPT ![s] = Append(@, x)]
             /\ adrift' = [adrift EXCEPT ![s] = @ \ ({m} \X DOMAIN news)]
    <3>1. /\ outbox'[s] = Append(outbox[s], x)
          /\ adrift'[s] = adrift[s] \ ({m} \X DOMAIN news)
      BY <2>2 DEF WordInv
    <3>2. IsSeq(outbox'[s]) BY <1>11, <3>1, Appended
    <3>3. ASSUME s \in writer', NEW n \in subscribed'[s], NEW k \in Ctl!Aspects,
                 <<n, k>> \notin adrift'[s], NEW v, LastWord(outbox'[s], told'[s], n, k, v)
          PROVE  Ctl!Vouches(s, n, k, v)'
      <4>1. \/ Says(x, n, k) /\ x.status[k] = v
            \/ ~Mentions(x, n, k) /\ LastWord(outbox[s], told[s], n, k, v)
        BY <1>2, <1>11, <3>1, <3>3, WordAppended
      <4>2. CASE Says(x, n, k) /\ x.status[k] = v
        <5>1. n = m /\ k \in DOMAIN news /\ news[k] = v BY <1>12, <4>2 DEF Says
        <5>2. news[k] = round.seen[m].status[k] BY <1>n, <5>1 DEF Ctl!News
        <5>3. QED BY <1>7, <5>1, <5>2
      <4>3. CASE ~Mentions(x, n, k) /\ LastWord(outbox[s], told[s], n, k, v)
        <5>1. n # m \/ k \notin DOMAIN news BY <1>12, <4>3 DEF Mentions, Says
        <5>2. <<n, k>> \notin adrift[s] BY <3>1, <3>3, <5>1
        <5>3. Ctl!Vouches(s, n, k, v) BY <1>2, <1>11, <3>3, <4>3, <5>2 DEF WordOK, Heard
        <5>4. QED BY <1>6, <1>8, <5>1, <5>3
      <4>4. QED BY <4>1, <4>2, <4>3
    <3>4. Heard(s)' BY <3>3 DEF Heard, LastWord, Mentions, Says, Ctl!Aspects
    <3>5. IsSeq(outbox[s])' BY <3>2 DEF IsSeq
    <3>6. phase'[s] # "off" BY <1>2, <1>11, <2>2 DEF WordOK
    <3>7. QED BY <3>4, <3>5, <3>6 DEF WordOK
  <2>3. QED BY <1>2, <2>1, <2>2
<1>14. QED BY <1>2, <1>9, <1>10, <1>13 DEF WordInv

(* The new look becomes the last one.                                      *)
LEMMA RememberTells ==
  ASSUME CtlInv, WordInv, Ctl!Remember PROVE WordInv'
<1>1. LooksOK /\ RoundShape /\ RoundPlace BY DEF CtlInv
<1>m. PICK m : m = job[Worker].monitor OBVIOUS
<1>q. PICK q : q = round.seen[m] OBVIOUS
<1>2. /\ at[Worker] = "push" /\ round.push = {} /\ at' = [at EXCEPT ![Worker] = "compare"]
      /\ round' = [round EXCEPT !.todo = @ \ {m}] /\ last_known' = Ctl!Extend(last_known, m, q)
      /\ m \in round.todo /\ UNCHANGED Ctl!conns
  BY <1>1, <1>m, <1>q DEF Ctl!Remember, RoundPlace
<1>3. at'[Worker] = "compare" BY <1>1, <1>2 DEF LooksOK, Ctl!Threads
<1>4. /\ round'.copy = round.copy /\ round'.seen = round.seen /\ round'.todo = round.todo \ {m}
  BY <1>1, <1>2 DEF RoundShape
<1>5. /\ m \in DOMAIN last_known' /\ last_known'[m] = q
      /\ \A n \in DOMAIN last_known : n \in DOMAIN last_known' /\ (n # m => last_known'[n] = last_known[n])
  BY <1>2 DEF Ctl!Extend
<1>6. ASSUME NEW s, NEW n, NEW k, NEW v, Ctl!Vouches(s, n, k, v)
      PROVE  Ctl!Vouches(s, n, k, v)'
  <2>1. CASE n = m
    <3>1. Ctl!Passed(s, m) BY <1>2, <1>m DEF Ctl!Passed
    <3>2. q = Ctl!NoProps \/ q.status[k] = v BY <1>6, <1>q, <2>1, <3>1 DEF Ctl!Vouches
    <3>3. ~Ctl!Passed(s, m)' BY <1>4 DEF Ctl!Passed
    <3>4. QED BY <1>5, <2>1, <3>2, <3>3 DEF Ctl!Vouches, Ctl!NoProps
  <2>2. CASE n # m
    <3>1. Ctl!Passed(s, n)' <=> Ctl!Passed(s, n) BY <1>2, <1>3, <1>4, <1>m, <2>2 DEF Ctl!Passed
    <3>2. CASE Ctl!Passed(s, n) BY <1>4, <1>6, <3>1, <3>2 DEF Ctl!Vouches, Ctl!NoProps
    <3>3. CASE ~Ctl!Passed(s, n)
      BY <1>5, <1>6, <2>2, <3>1, <3>3 DEF Ctl!Vouches, Ctl!NoProps
    <3>4. QED BY <3>2, <3>3
  <2>3. QED BY <2>1, <2>2
<1>7. QED BY <1>2, <1>6, WordQuiet

(* What is forgotten is adrift.                                            *)
LEMMA PruneTells ==
  ASSUME CtlInv, WordInv, Ctl!Prune PROVE WordInv'
<1>1. LooksOK BY DEF CtlInv
<1>2. /\ at[Worker] = "compare" /\ round.todo = {} /\ at' = [at EXCEPT ![Worker] = "idle"]
      /\ last_known' = [m \in DOMAIN round.seen |-> last_known[m]]
      /\ adrift' = [s \in Sessions |->
           adrift[s] \cup
             ((subscribed[s] \cap (DOMAIN last_known \ DOMAIN round.seen)) \X Ctl!Aspects)]
      /\ UNCHANGED <<phase, writer, subscribed, outbox, told>>
  BY DEF Ctl!Prune
<1>3. at'[Worker] = "idle" BY <1>1, <1>2 DEF LooksOK, Ctl!Threads
<1>4. \A s, n : ~Ctl!Passed(s, n)' /\ ~Ctl!Passed(s, n) BY <1>2, <1>3 DEF Ctl!Passed
<1>5. ASSUME NEW s \in Sessions PROVE WordOK(s)'
  <2>1. WordOK(s) BY DEF WordInv
  <2>2. ASSUME s \in writer', NEW n \in subscribed'[s], NEW k \in Ctl!Aspects,
               <<n, k>> \notin adrift'[s], NEW v, LastWord(outbox'[s], told'[s], n, k, v)
        PROVE  Ctl!Vouches(s, n, k, v)'
    <3>1. <<n, k>> \notin adrift[s] /\ (n \in DOMAIN last_known => n \in DOMAIN round.seen)
      BY <1>2, <2>2
    <3>2. Ctl!Vouches(s, n, k, v) BY <1>2, <2>1, <2>2, <3>1 DEF WordOK, Heard
    <3>3. n \in DOMAIN last_known /\ (last_known[n] = Ctl!NoProps \/ last_known[n].status[k] = v)
      BY <1>4, <3>2 DEF Ctl!Vouches
    <3>4. n \in DOMAIN last_known' /\ last_known'[n] = last_known[n] BY <1>2, <3>1, <3>3
    <3>5. QED BY <1>4, <3>3, <3>4 DEF Ctl!Vouches, Ctl!NoProps
  <2>3. Heard(s)' BY <2>2 DEF Heard, LastWord, Mentions, Says, Ctl!Aspects
  <2>4. IsSeq(outbox[s])' BY <1>2, <2>1 DEF WordOK, IsSeq
  <2>5. QED BY <1>2, <2>1, <2>3, <2>4 DEF WordOK
<1>6. QED BY <1>2, <1>5 DEF WordInv

LEMMA NotifyTells ==
  ASSUME Ctl!ControlConstants, CtlInv, WordInv, Ctl!Notifier PROVE WordInv'
<1>1. LooksOK /\ Worker \in Ctl!Threads BY DEF CtlInv, Ctl!Threads
<1>2. CASE Ctl!Wake
  <2>1. at'[Worker] = "collect" /\ at[Worker] = "idle" BY <1>1, <1>2 DEF Ctl!Wake, LooksOK
  <2>2. QED BY <1>2, <2>1, QuietTells DEF Ctl!Wake
<1>3. ASSUME NEW m \in Ctl!Monitors, Ctl!Collect(m) PROVE WordInv'
  <2>1. at'[Worker] \in {"compute", "looked"} /\ at[Worker] = "collect"
    BY <1>1, <1>3 DEF Ctl!Collect, Ctl!Look, LooksOK
  <2>2. QED BY <1>3, <2>1, QuietTells DEF Ctl!Collect
<1>4. CASE Ctl!Compute(Worker) \/ Ctl!Count(Worker)
  <2>1. at'[Worker] \in {"count", "looked"} /\ at[Worker] \in {"compute", "count"}
    BY <1>1, <1>4 DEF Ctl!Compute, Ctl!Count, LooksOK
  <2>2. UNCHANGED <<Ctl!conns, last_known>> BY <1>4 DEF Ctl!Compute, Ctl!Count, Ctl!work
  <2>3. QED BY <2>1, <2>2, QuietTells
<1>5. CASE Ctl!Collected
  <2>1. at'[Worker] = "collect" /\ at[Worker] = "looked" BY <1>1, <1>5 DEF Ctl!Collected, LooksOK
  <2>2. QED BY <1>5, <2>1, QuietTells DEF Ctl!Collected
<1>6. CASE Ctl!CopySessions BY <1>6, CopyTells
<1>7. CASE \E m \in Ctl!Monitors : Ctl!Compare(m) BY <1>7, CompareTells
<1>8. CASE \E s \in Sessions : Ctl!Push(s) BY <1>8, PushTells
<1>9. CASE Ctl!Remember BY <1>9, RememberTells
<1>10. CASE Ctl!Prune BY <1>10, PruneTells
<1>11. QED BY <1>2, <1>3, <1>4, <1>5, <1>6, <1>7, <1>8, <1>9, <1>10 DEF Ctl!Notifier

TellInv == CtlInv /\ WordInv

LEMMA TellNext ==
  ASSUME Ctl!ControlConstants, TellInv, [Ctl!Next]_Ctl!vars PROVE TellInv'
<1>1. CtlInv /\ WordInv BY DEF TellInv
<1>2. CtlInv' BY <1>1, ControlNext
<1>3. CASE UNCHANGED <<Ctl!conns, Ctl!looks, Ctl!work>>
  <2>1. UNCHANGED <<at, job, round, last_known>> BY <1>3 DEF Ctl!looks, Ctl!work
  <2>2. \A s, m : Ctl!Passed(s, m)' <=> Ctl!Passed(s, m) BY <2>1, PassedSame
  <2>3. \A s, m, k, v : Ctl!Vouches(s, m, k, v)' <=> Ctl!Vouches(s, m, k, v)
    BY <2>1, <2>2, VouchesSame
  <2>4. WordInv' BY <1>1, <1>3, <2>3, WordQuiet
  <2>5. QED BY <1>2, <2>4 DEF TellInv
<1>4. CASE Ctl!Surroundings
  BY <1>3, <1>4 DEF Ctl!Surroundings, Ctl!Turns, Ctl!Enable, Ctl!Come, Ctl!Go, Ctl!Happens
<1>5. CASE UNCHANGED Ctl!vars BY <1>3, <1>5 DEF Ctl!vars
<1>6. CASE Ctl!Notifier BY <1>1, <1>2, <1>6, NotifyTells DEF TellInv
<1>7. ASSUME NEW s \in Sessions, Ctl!Reader(s) \/ Ctl!Writer(s) \/ Ctl!Client(s) PROVE TellInv'
  BY <1>1, <1>2, <1>7, ServeTells DEF TellInv
<1>8. QED BY <1>4, <1>5, <1>6, <1>7 DEF Ctl!Next

(* A session with a live writer and nothing left to write, and an aspect   *)
(* of a monitor it is subscribed to that it was told of since and that is  *)
(* not adrift.  The worker is not past telling it of a newer look.         *)
UpToDate(s, m, k) ==
  /\ s \in writer /\ outbox[s] = <<>>
  /\ m \in subscribed[s] /\ <<m, k>> \in DOMAIN told[s] \ adrift[s]
  /\ ~Ctl!Passed(s, m)

ToldLastLook ==
  \A s \in Sessions, m \in Ctl!Monitors, k \in Ctl!Aspects : UpToDate(s, m, k) =>
    /\ m \in DOMAIN last_known
    /\ last_known[m] = Ctl!NoProps \/ told[s][<<m, k>>] = last_known[m].status[k]

LEMMA TellMeans == ASSUME WordInv PROVE ToldLastLook
<1> SUFFICES ASSUME NEW s \in Sessions, NEW m \in Ctl!Monitors, NEW k \in Ctl!Aspects,
                    UpToDate(s, m, k)
             PROVE  /\ m \in DOMAIN last_known
                    /\ last_known[m] = Ctl!NoProps \/ told[s][<<m, k>>] = last_known[m].status[k]
  BY DEF ToldLastLook
<1>1. DOMAIN outbox[s] = {} BY DEF UpToDate
<1>2. LastWord(outbox[s], told[s], m, k, told[s][<<m, k>>]) BY <1>1 DEF LastWord, UpToDate
<1>3. WordOK(s) BY DEF WordInv
<1>4. Ctl!Vouches(s, m, k, told[s][<<m, k>>]) BY <1>2, <1>3 DEF WordOK, Heard, UpToDate
<1>5. QED BY <1>4 DEF UpToDate, Ctl!Vouches

(* is12_notify_worker and the outboxes of the sessions: a session whose    *)
(* writer lives and has nothing left to write was told last, of an aspect  *)
(* it was told of since it subscribed, what the worker found at its last   *)
(* look, be it in a notification or in the answer to a Get, however        *)
(* rounds, readers and slow writers interleave.  Excused is what is        *)
(* adrift (an answer that was not what the worker had reported when it was *)
(* queued, and what the worker forgot), and the look of a round the worker *)
(* has passed the session in.                                              *)
THEOREM ClientsToldLastLook ==
  ASSUME Ctl!ControlConstants PROVE Ctl!Spec => []ToldLastLook
<1>1. Ctl!Init => TellInv BY ControlInit, WordInit DEF TellInv
<1>2. TellInv /\ [Ctl!Next]_Ctl!vars => TellInv' BY TellNext
<1>3. TellInv => ToldLastLook BY TellMeans DEF TellInv
<1>4. QED BY <1>1, <1>2, <1>3, PTL DEF Ctl!Spec

-----------------------------------------------------------------------------
(* IS-08: channel mapping (ChannelMapping).                                *)

CONSTANTS Sources, Sinks, Alsa, Actions, Uuids, Maps, First, MaxPosts

VARIABLES source, activations, counter, posts, state, alone, racing

Map == INSTANCE ChannelMapping

(* The types of entries, of the requests in hand and of their outcomes.    *)
Entries == [out : Map!Range(Uuids), ch : Nat, in : Map!Inputs, ich : Nat]
Works == [post : Nat, scheduled : BOOLEAN, entry : Nat \ {0}, id : Nat, map : Seq(Alsa),
          failed : SUBSET Nat]
Stages == {"idle", "lock", "number", "validate", "fetch", "store"}
Verdicts == {"new", "invalid", "accepted", "overwritten", "done", "deleted", "firing"}

MapsOK ==
  /\ source \in [Sources -> Seq(Alsa)] /\ sink \in [Sinks -> Seq(Alsa)]
  /\ counter \in Nat /\ changes \in 0..MaxChanges /\ alone \subseteq Map!Threads

PostsOK ==
  /\ posts \in Seq(Seq(Entries)) /\ state \in Seq(Verdicts) /\ Len(state) = Len(posts)
  /\ \A n \in DOMAIN posts : posts[n] \in Actions \cup UNION {Map!Canonical(a) : a \in Actions}

(* Validation, whatever happens to the streams, keeps out an entry from an *)
(* ALSA channel to an ALSA channel.                                        *)
Routable(e) == e.out[1] = "alsa" => e.in[1] # "alsa"

(* A thread and the POST it has in hand: a client's is as it was sent, the *)
(* worker's is never scheduled again.                                      *)
Hand(t) ==
  /\ at[t] = "idle" <=> job[t].post = 0
  /\ job[t].post \in 0..Len(posts)
  /\ t \in Clients /\ job[t].post # 0 =>
       state[job[t].post] = "new" /\ posts[job[t].post] \in Actions
  /\ t = Worker => at[t] \in {"idle", "validate", "fetch", "store"} /\ ~job[t].scheduled
  /\ at[t] = "store" => job[t].entry \in DOMAIN Map!Action(t) /\ Map!Entry(t).in[1] # "none"
  /\ at[t] = "validate" =>
       \A k \in DOMAIN Map!Action(t) : k < job[t].entry => Routable(Map!Action(t)[k])
  /\ at[t] \in {"fetch", "store"} => \A k \in DOMAIN Map!Action(t) : Routable(Map!Action(t)[k])

Distinct == \A t, u \in Clients : job[t].post = job[u].post /\ job[t].post # 0 => t = u

HandsOK ==
  /\ at \in [Map!Threads -> Stages] /\ job \in [Map!Threads -> Works]
  /\ (\A t \in Map!Threads : Hand(t)) /\ Distinct

(* What is pending was accepted, under one number; what the worker has     *)
(* taken out is there once.                                                *)
PendingOK ==
  /\ IsFiniteSet(DOMAIN activations) /\ DOMAIN activations \subseteq Nat
  /\ \A i \in DOMAIN activations : activations[i] \in DOMAIN posts
  /\ \A i, j \in DOMAIN activations : activations[i] = activations[j] => i = j
  /\ \A n \in DOMAIN posts : state[n] = "accepted" <=> n \in Map!PendingPosts

DueOK ==
  /\ due \in Seq(Nat)
  /\ \A k \in DOMAIN due :
       due[k] \in DOMAIN posts /\ state[due[k]] = "firing" /\ due[k] # job[Worker].post
  /\ \A k, l \in DOMAIN due : due[k] = due[l] => k = l
  /\ job[Worker].post # 0 => state[job[Worker].post] = "firing"

MapTypes == MapsOK /\ PostsOK /\ HandsOK /\ PendingOK /\ DueOK

(* Two POSTs in hand together are known to be, and the outputs a POST has  *)
(* found unlocked are not those of a pending activation.                   *)
Raced ==
  \A t, u \in Clients : job[t].post # 0 /\ job[u].post # 0 /\ t # u =>
    job[t].post \in racing

Unlocked(t) ==
  \A m \in Map!PendingPosts, k \in DOMAIN Map!Action(t) :
    (at[t] = "lock" => k < job[t].entry) /\ ~({m, job[t].post} \subseteq racing) =>
      Map!Action(t)[k].out \notin Map!Outputs(posts[m])

LockInv ==
  Raced /\ Map!LocksExclusive /\ \A t \in Clients : job[t].post # 0 => Unlocked(t)

(* As long as nobody comes between: the entries checked are still valid,   *)
(* or lost with a stream that the failure of one of them cost; those       *)
(* applied are in place, superseded by one that came later, failed or      *)
(* lost; and the map in hand is what the entry makes of the streams.       *)
Lost(t, k) == job[t].failed # {} /\ Map!Vanished(Map!Action(t)[k])

Settled(t, k) ==
  \/ k \in job[t].failed \/ Lost(t, k)
  \/ Map!InPlace(Map!Action(t)[k])
  \/ \E m \in DOMAIN Map!Action(t) :
       k < m /\ m < job[t].entry /\ Map!Supersedes(Map!Action(t)[m], Map!Action(t)[k])

Undisturbed(t) ==
  /\ at[t] = "validate" =>
       \A k \in DOMAIN Map!Action(t) : k < job[t].entry => Map!Valid(Map!Action(t)[k])
  /\ at[t] \in {"fetch", "store"} =>
       \A k \in DOMAIN Map!Action(t) :
         /\ Map!Valid(Map!Action(t)[k]) \/ Lost(t, k)
         /\ k < job[t].entry => Settled(t, k)
  /\ at[t] = "store" =>
       job[t].map \in Map!Changed(Map!Entry(t)) /\ Map!Valid(Map!Entry(t))

ApplyInv == \A t \in alone : Undisturbed(t)

MapInv == MapTypes /\ LockInv /\ ApplyInv

(* What an entry connects.                                                 *)
LEMMA EntryKinds ==
  ASSUME Map!MappingConstants, NEW e \in Entries
  PROVE  /\ e.out[1] \in {"sender", "alsa"} /\ e.out = <<e.out[1], e.out[2]>>
         /\ e.out[1] = "sender" => e.out[2] \in Sources
         /\ e.out[1] = "alsa" => e.out[2] \in Alsa
         /\ e.in[1] \in {"none", "sink", "alsa"}
         /\ e.in[1] # "none" => e.in = <<e.in[1], e.in[2]>>
         /\ e.in[1] = "sink" => e.in[2] \in Sinks
         /\ e.in[1] = "alsa" => e.in[2] \in Alsa
         /\ e.ch \in Nat /\ e.ich \in Nat
<1>1. e.out \in ({"sender"} \X Sources) \cup ({"alsa"} \X Alsa)
  BY DEF Map!MappingConstants, Entries
<1>2. e.in \in Map!Inputs /\ e.ch \in Nat /\ e.ich \in Nat BY DEF Entries
<1>5. /\ e.out[1] \in {"sender", "alsa"} /\ e.out = <<e.out[1], e.out[2]>>
      /\ e.out[1] = "sender" => e.out[2] \in Sources
      /\ e.out[1] = "alsa" => e.out[2] \in Alsa
  <2>1. CASE e.out \in {"sender"} \X Sources BY <2>1
  <2>2. CASE e.out \in {"alsa"} \X Alsa BY <2>2
  <2>3. QED BY <1>1, <2>1, <2>2
<1>6. /\ e.in[1] \in {"none", "sink", "alsa"}
      /\ e.in[1] # "none" => e.in = <<e.in[1], e.in[2]>>
      /\ e.in[1] = "sink" => e.in[2] \in Sinks
      /\ e.in[1] = "alsa" => e.in[2] \in Alsa
  <2>1. CASE e.in = <<"none">> BY <2>1
  <2>2. CASE e.in \in {"sink"} \X Sinks BY <2>2
  <2>3. CASE e.in \in {"alsa"} \X Alsa BY <2>3
  <2>4. QED BY <1>2, <2>1, <2>2, <2>3 DEF Map!Inputs
<1>7. QED BY <1>2, <1>5, <1>6

LEMMA ActionsTyped ==
  ASSUME Map!MappingConstants, NEW a \in Actions PROVE a \in Seq(Entries)
BY DEF Map!MappingConstants, Entries

(* The canonical form of an action has no other outputs.                   *)
LEMMA CanonicalForm ==
  ASSUME NEW a \in Seq(Entries), NEW form \in Map!Canonical(a)
  PROVE  form \in Seq(Entries) /\ Map!Outputs(form) \subseteq Map!Outputs(a)
<1>1. PICK p \in [DOMAIN a -> DOMAIN a] : form = [n \in DOMAIN a |-> a[p[n]]]
  BY DEF Map!Canonical
<1>2. form \in Seq(Entries)
  <2>1. \A n \in 1..Len(a) : a[p[n]] \in Entries BY ElementOfSeq
  <2>2. Len(a) \in Nat /\ DOMAIN a = 1..Len(a) BY LenProperties
  <2>3. form = [n \in 1..Len(a) |-> a[p[n]]] BY <1>1, <2>2
  <2>4. QED BY <2>1, <2>2, <2>3
<1>3. Map!Outputs(form) \subseteq Map!Outputs(a) BY <1>1 DEF Map!Outputs
<1>4. QED BY <1>2, <1>3

(* A request moves on.                                                     *)
LEMMA MapMoved ==
  ASSUME at \in [Map!Threads -> Stages], job \in [Map!Threads -> Works],
         NEW t \in Map!Threads, NEW p \in Stages, NEW j \in Works, Map!Moves(t, p, j)
  PROVE  /\ at' \in [Map!Threads -> Stages] /\ job' \in [Map!Threads -> Works]
         /\ at'[t] = p /\ job'[t] = j
         /\ \A u \in Map!Threads : u # t => at'[u] = at[u] /\ job'[u] = job[u]
BY DEF Map!Moves

LEMMA NoJobTyped == Map!NoJob \in Works /\ Map!NoJob.post = 0 /\ Map!NoJob.entry = 1 /\ ~Map!NoJob.scheduled
<1>1. <<>> \in Seq(Alsa) OBVIOUS
<1>2. QED BY <1>1 DEF Map!NoJob, Works

LEMMA WorkEntry ==
  ASSUME NEW w \in Works, NEW n \in Nat \ {0}
  PROVE  /\ [w EXCEPT !.entry = n] \in Works /\ [w EXCEPT !.entry = n].post = w.post
         /\ [w EXCEPT !.entry = n].entry = n /\ [w EXCEPT !.entry = n].scheduled = w.scheduled
         /\ [w EXCEPT !.entry = n].failed = w.failed
BY DEF Works

LEMMA WorkId ==
  ASSUME NEW w \in Works, NEW n \in Nat
  PROVE  /\ [w EXCEPT !.id = n] \in Works /\ [w EXCEPT !.id = n].post = w.post
         /\ [w EXCEPT !.id = n].entry = w.entry
BY DEF Works

LEMMA WorkMap ==
  ASSUME NEW w \in Works, NEW m \in Seq(Alsa)
  PROVE  /\ [w EXCEPT !.map = m] \in Works /\ [w EXCEPT !.map = m].post = w.post
         /\ [w EXCEPT !.map = m].entry = w.entry /\ [w EXCEPT !.map = m].map = m
         /\ [w EXCEPT !.map = m].scheduled = w.scheduled
         /\ [w EXCEPT !.map = m].failed = w.failed
BY DEF Works

LEMMA WorkPost ==
  ASSUME NEW w \in Works, NEW n \in Nat
  PROVE  /\ [w EXCEPT !.post = n] \in Works /\ [w EXCEPT !.post = n].post = n
         /\ [w EXCEPT !.post = n].entry = w.entry
         /\ [w EXCEPT !.post = n].scheduled = w.scheduled
BY DEF Works

LEMMA WorkScheduled ==
  ASSUME NEW w \in Works, NEW s \in BOOLEAN
  PROVE  /\ [w EXCEPT !.scheduled = s] \in Works
         /\ [w EXCEPT !.scheduled = s].post = w.post /\ [w EXCEPT !.scheduled = s].entry = w.entry
BY DEF Works

LEMMA WorkNext ==
  ASSUME NEW w \in Works
  PROVE  /\ Map!NextEntry(w) \in Works /\ Map!NextEntry(w).post = w.post
         /\ Map!NextEntry(w).entry = w.entry + 1 /\ Map!NextEntry(w).scheduled = w.scheduled
         /\ Map!NextEntry(w).failed = w.failed
<1>1. <<>> \in Seq(Alsa) OBVIOUS
<1>2. w.entry + 1 \in Nat \ {0} BY DEF Works
<1> DEFINE x == [w EXCEPT !.entry = w.entry + 1]
<1>4. /\ x \in Works /\ x.post = w.post /\ x.entry = w.entry + 1
      /\ x.scheduled = w.scheduled /\ x.failed = w.failed
  BY <1>2, WorkEntry
<1>5. Map!NextEntry(w) = [x EXCEPT !.map = <<>>] BY DEF Map!NextEntry
<1> HIDE DEF x
<1> DEFINE y == [x EXCEPT !.map = <<>>]
<1>6. /\ y \in Works /\ y.post = x.post /\ y.entry = x.entry
      /\ y.scheduled = x.scheduled /\ y.failed = x.failed
  BY <1>1, <1>4, WorkMap
<1> HIDE DEF y
<1>7. Map!NextEntry(w) = y BY <1>5 DEF y
<1>8. QED BY <1>4, <1>6, <1>7

LEMMA WorkFailed ==
  ASSUME NEW w \in Works
  PROVE  /\ Map!Failing(w) \in Works /\ Map!Failing(w).post = w.post
         /\ Map!Failing(w).entry = w.entry + 1 /\ Map!Failing(w).scheduled = w.scheduled
         /\ Map!Failing(w).failed = w.failed \cup {w.entry}
<1>1. PICK x : x = Map!NextEntry(w) OBVIOUS
<1>2. PICK f : f = w.failed \cup {w.entry} OBVIOUS
<1>3. f \in SUBSET Nat BY <1>2 DEF Works
<1>4. x \in Works /\ x.failed = w.failed BY <1>1, WorkNext
<1>5. Map!Failing(w) = [x EXCEPT !.failed = f] BY <1>1, <1>2, <1>4 DEF Map!Failing
<1>6. /\ [x EXCEPT !.failed = f] \in Works /\ [x EXCEPT !.failed = f].post = x.post
      /\ [x EXCEPT !.failed = f].entry = x.entry
      /\ [x EXCEPT !.failed = f].scheduled = x.scheduled
      /\ [x EXCEPT !.failed = f].failed = f
  BY <1>3, <1>4 DEF Works
<1>7. QED BY <1>1, <1>2, <1>5, <1>6, WorkNext

LEMMA SameCardinality == \A S : Map!Cardinality(S) = Cardinality(S)
BY DEF Map!Cardinality, Cardinality

(* What is known of the POST a thread has in hand.                         *)
LEMMA InHandTyped ==
  ASSUME MapTypes, NEW t \in Map!Threads, at[t] # "idle"
  PROVE  /\ job[t] \in Works /\ job[t].post \in DOMAIN posts /\ job[t].post # 0
         /\ Map!Action(t) = posts[job[t].post] /\ Map!Action(t) \in Seq(Entries)
         /\ DOMAIN Map!Action(t) = 1..Len(Map!Action(t)) /\ Len(Map!Action(t)) \in Nat
         /\ ~Map!Finished(t) <=> job[t].entry \in DOMAIN Map!Action(t)
         /\ \A k \in DOMAIN Map!Action(t) : Map!Action(t)[k] \in Entries
<1>1. job[t] \in Works /\ Hand(t) BY DEF MapTypes, HandsOK
<1>2. job[t].post \in DOMAIN posts /\ job[t].post # 0
  BY <1>1 DEF Hand, MapTypes, PostsOK
<1>3. posts[job[t].post] \in Seq(Entries)
  BY <1>2 DEF MapTypes, PostsOK
<1>4. Map!Action(t) = posts[job[t].post] BY DEF Map!Action
<1>5. job[t].entry \in Nat \ {0} BY <1>1 DEF Works
<1>6. DOMAIN Map!Action(t) = 1..Len(Map!Action(t)) /\ Len(Map!Action(t)) \in Nat
  BY <1>3, <1>4, LenProperties
<1>7. ~Map!Finished(t) <=> job[t].entry \in DOMAIN Map!Action(t)
  BY <1>5, <1>6 DEF Map!Finished
<1>8. \A k \in DOMAIN Map!Action(t) : Map!Action(t)[k] \in Entries BY <1>3, <1>4, <1>6
<1>9. QED BY <1>1, <1>2, <1>3, <1>4, <1>6, <1>7, <1>8

(* A thread that does not move keeps its POST.                             *)
LEMMA HandKept ==
  ASSUME NEW u \in Map!Threads, Hand(u), at'[u] = at[u], job'[u] = job[u],
         Len(posts) \in Nat, Len(posts') \in Nat, Len(posts) <= Len(posts'),
         job[u].post # 0 => posts'[job[u].post] = posts[job[u].post],
         u \in Clients /\ job[u].post # 0 => state'[job[u].post] = state[job[u].post]
  PROVE  Hand(u)'
<1>1. CASE job[u].post = 0
  BY <1>1 DEF Hand
<1>2. CASE job[u].post # 0
  <2>1. Map!Action(u)' = Map!Action(u) BY <1>2 DEF Map!Action
  <2>2. Map!Entry(u)' = Map!Entry(u) BY <2>1 DEF Map!Entry
  <2> HIDE DEF Map!Action, Map!Entry
  <2>3. QED BY <1>2, <2>1, <2>2 DEF Hand, Routable
<1>3. QED BY <1>1, <1>2

(* A step of a request that only moves its thread.                         *)
LEMMA MoveKeepsTypes ==
  ASSUME MapTypes, NEW t \in Map!Threads, NEW p \in Stages, NEW j \in Works, Map!Moves(t, p, j),
         UNCHANGED <<source, sink, activations, due, posts, state, changes>>,
         counter' \in Nat, alone' \subseteq Map!Threads, j.post \in {0, job[t].post}, Hand(t)'
  PROVE  MapTypes'
<1>1. /\ at' \in [Map!Threads -> Stages] /\ job' \in [Map!Threads -> Works]
      /\ at'[t] = p /\ job'[t] = j
      /\ \A u \in Map!Threads : u # t => at'[u] = at[u] /\ job'[u] = job[u]
  BY MapMoved DEF MapTypes, HandsOK
<1>2. Len(posts) \in Nat BY DEF MapTypes, PostsOK
<1>3. \A u \in Map!Threads : Hand(u)'
  <2>1. ASSUME NEW u \in Map!Threads, u # t PROVE Hand(u)'
    <3>1. Hand(u) BY DEF MapTypes, HandsOK
    <3>2. QED BY <3>1, <2>1, <1>1, <1>2, HandKept
  <2>2. QED BY <2>1
<1>4. Distinct'
  BY <1>1 DEF MapTypes, HandsOK, Distinct, Map!Threads
<1>5. MapsOK' BY DEF MapTypes, MapsOK, Map!Threads
<1>6. PostsOK' BY DEF MapTypes, PostsOK
<1>7. PendingOK' BY DEF MapTypes, PendingOK, Map!PendingPosts
<1>8. DueOK'
  <2>1. job'[Worker].post \in {0, job[Worker].post} BY <1>1 DEF Map!Threads
  <2>2. \A k \in DOMAIN due : due[k] # 0 BY DEF MapTypes, DueOK, PostsOK
  <2>3. QED BY <2>1, <2>2 DEF MapTypes, DueOK
<1>9. QED BY <1>1, <1>3, <1>4, <1>5, <1>6, <1>7, <1>8 DEF MapTypes, HandsOK

(* The threads and the tables after the end of a request.                  *)
LEMMA EndKeepsTypes ==
  ASSUME MapTypes, NEW t \in Map!Threads, Map!Moves(t, "idle", Map!NoJob),
         UNCHANGED <<source, sink, activations, due, posts, state, counter, changes>>,
         alone' = alone
  PROVE  MapTypes'
<1>1. Hand(t)'
  <2>1. at'[t] = "idle" /\ job'[t] = Map!NoJob
    BY NoJobTyped, MapMoved DEF MapTypes, HandsOK, Stages
  <2>2. Len(posts') \in Nat BY DEF MapTypes, PostsOK
  <2>3. QED BY <2>1, <2>2, NoJobTyped DEF Hand
<1>2. QED BY <1>1, NoJobTyped, MoveKeepsTypes DEF Stages, MapTypes, MapsOK

(* A request ends, with a verdict on its POST.                             *)
LEMMA VerdictKeepsTypes ==
  ASSUME Map!MappingConstants, MapTypes, NEW t \in Map!Threads, Map!Moves(t, "idle", Map!NoJob),
         at[t] # "idle",
         NEW v \in Verdicts \ {"accepted"}, state' = [state EXCEPT ![job[t].post] = v],
         UNCHANGED <<source, sink, activations, due, posts, counter, changes, alone>>
  PROVE  MapTypes'
<1> DEFINE n == job[t].post
<1>1. /\ at' \in [Map!Threads -> Stages] /\ job' \in [Map!Threads -> Works]
      /\ at'[t] = "idle" /\ job'[t] = Map!NoJob
      /\ \A u \in Map!Threads : u # t => at'[u] = at[u] /\ job'[u] = job[u]
  BY MapMoved, NoJobTyped DEF MapTypes, HandsOK, Stages
<1>2. n \in DOMAIN posts /\ n # 0 BY InHandTyped
<1>3. PostsOK'
  <2>1. state' \in Seq(Verdicts) /\ Len(state') = Len(state)
    <3>1. state \in Seq(Verdicts) /\ n \in 1..Len(state) BY <1>2 DEF MapTypes, PostsOK
    <3>2. QED BY <3>1, ExceptSeq
  <2>2. QED BY <2>1 DEF MapTypes, PostsOK
<1>4. /\ DOMAIN posts = DOMAIN state
      /\ \A k \in DOMAIN posts : state'[k] = IF k = n THEN v ELSE state[k]
  BY <1>2 DEF MapTypes, PostsOK
<1>5. state[n] \in {"new", "firing"}
  <2>1. CASE t \in Clients BY <2>1, <1>2 DEF MapTypes, HandsOK, Hand
  <2>2. CASE t = Worker BY <2>2, <1>2 DEF MapTypes, DueOK
  <2>3. QED BY <2>1, <2>2 DEF Map!Threads
<1>6. \A u \in Map!Threads : u # t /\ job[u].post # 0 => job[u].post # n
  <2>1. \A u \in Clients : job[u].post # 0 => state[job[u].post] = "new"
    BY DEF MapTypes, HandsOK, Hand, Map!Threads
  <2>2. job[Worker].post # 0 => state[job[Worker].post] = "firing"
    BY DEF MapTypes, DueOK
  <2>3. Worker \notin Clients BY DEF Map!MappingConstants
  <2>4. QED BY <2>1, <2>2, <2>3, <1>2 DEF MapTypes, HandsOK, Distinct, Map!Threads
<1>7. Len(posts) \in Nat /\ DOMAIN posts = 1..Len(posts) BY DEF MapTypes, PostsOK
<1>8. \A u \in Map!Threads : Hand(u)'
  <2>1. ASSUME NEW u \in Map!Threads, u # t PROVE Hand(u)'
    <3>1. Hand(u) BY DEF MapTypes, HandsOK
    <3>2. job[u].post # 0 => job[u].post \in DOMAIN posts BY <3>1, <1>7 DEF Hand
    <3>3. job[u].post # 0 => state'[job[u].post] = state[job[u].post]
      BY <3>2, <2>1, <1>4, <1>6
    <3>4. QED BY <3>1, <3>3, <2>1, <1>1, <1>7, HandKept
  <2>2. Hand(t)' BY <1>1, <1>7, NoJobTyped DEF Hand
  <2>3. QED BY <2>1, <2>2
<1>9. Distinct' BY <1>1, NoJobTyped DEF MapTypes, HandsOK, Distinct, Map!Threads
<1>10. MapsOK' BY DEF MapTypes, MapsOK, Map!Threads
<1>11. PendingOK'
  <2>1. n \notin Map!PendingPosts BY <1>2, <1>5 DEF MapTypes, PendingOK
  <2>2. \A k \in DOMAIN posts : state'[k] = "accepted" <=> k \in Map!PendingPosts
    BY <2>1, <1>4 DEF MapTypes, PendingOK
  <2>3. QED BY <2>2 DEF MapTypes, PendingOK, Map!PendingPosts
<1>12. DueOK'
  <2>1. \A k \in DOMAIN due : due[k] \in DOMAIN posts /\ state[due[k]] = "firing" /\ due[k] # n
    <3>1. CASE t = Worker BY <3>1 DEF MapTypes, DueOK
    <3>2. CASE t \in Clients
      <4>1. state[n] = "new" BY <3>2, <1>2 DEF MapTypes, HandsOK, Hand
      <4>2. QED BY <4>1 DEF MapTypes, DueOK
    <3>3. QED BY <3>1, <3>2 DEF Map!Threads
  <2>2. \A k \in DOMAIN due : state'[due[k]] = "firing" BY <2>1, <1>4
  <2>3. job'[Worker].post \in {0, job[Worker].post} BY <1>1, NoJobTyped DEF Map!Threads
  <2>4. job'[Worker].post # 0 => state'[job'[Worker].post] = "firing"
    <3>1. CASE t = Worker BY <3>1, <1>1, NoJobTyped
    <3>2. CASE t # Worker
      <4>1. job'[Worker].post = job[Worker].post BY <3>2, <1>1 DEF Map!Threads
      <4>2. job[Worker].post # 0 => job[Worker].post \in DOMAIN posts /\ job[Worker].post # n
        BY <3>2, <1>6, <1>7 DEF Map!Threads, MapTypes, HandsOK, Hand
      <4>3. QED BY <4>1, <4>2, <1>4 DEF MapTypes, DueOK
    <3>3. QED BY <3>1, <3>2
  <2>5. \A k \in DOMAIN due : due[k] # 0 BY <2>1, <1>7
  <2>6. QED BY <2>1, <2>2, <2>3, <2>4, <2>5 DEF MapTypes, DueOK
<1>13. QED BY <1>1, <1>3, <1>8, <1>9, <1>10, <1>11, <1>12 DEF MapTypes, HandsOK

(* The locks and the number of a POST.                                     *)
LEMMA LockTypes ==
  ASSUME Map!MappingConstants, MapTypes, NEW t \in Map!Threads,
         Map!CheckLock(t) \/ Map!ReadCounter(t) \/ Map!WriteCounter(t)
  PROVE  MapTypes'
<1>1. at[t] \in {"lock", "number"} /\ at[t] # "idle"
  BY DEF Map!CheckLock, Map!ReadCounter, Map!WriteCounter
<1>2. /\ job[t] \in Works /\ job[t].post \in DOMAIN posts /\ job[t].post # 0 /\ t \in Clients
      /\ job[t].post \in 0..Len(posts)
      /\ state[job[t].post] = "new" /\ posts[job[t].post] \in Actions
  BY <1>1, InHandTyped DEF MapTypes, HandsOK, Hand, Map!Threads
<1>3. t # Worker BY <1>2 DEF Map!MappingConstants
<1>4. CASE Map!CheckLock(t) /\ Map!Moves(t, "idle", Map!NoJob)
  BY <1>4, EndKeepsTypes DEF Map!CheckLock
<1>5. ASSUME NEW p \in {"lock", "number", "validate"}, NEW j \in Works, Map!Moves(t, p, j),
             j.post = job[t].post, p = "validate" => j.entry = 1,
             UNCHANGED <<source, sink, activations, due, posts, state, changes>>,
             counter' \in Nat, alone' \subseteq Map!Threads
      PROVE  MapTypes'
  <2>1. p \in Stages /\ p # "idle" BY DEF Stages
  <2>2. at'[t] = p /\ job'[t] = j BY <1>5, <2>1, MapMoved DEF MapTypes, HandsOK
  <2>3. (\A k \in DOMAIN Map!Action(t) : ~(k < 1)) /\ Map!Action(t)' = Map!Action(t)
    BY <1>1, <1>5, <2>2, InHandTyped DEF Map!Action
  <2>4. Hand(t)' BY <1>2, <1>3, <1>5, <2>1, <2>2, <2>3 DEF Hand
  <2>5. QED BY <1>5, <2>1, <2>4, MoveKeepsTypes
<1>6. CASE Map!CheckLock(t) /\ Map!Moves(t, "lock", [job[t] EXCEPT !.entry = @ + 1])
  <2>1. [job[t] EXCEPT !.entry = @ + 1] \in Works
        /\ [job[t] EXCEPT !.entry = @ + 1].post = job[t].post
    <3>1. job[t].entry \in Nat \ {0} /\ job[t].entry + 1 \in Nat \ {0} BY <1>2 DEF Works
    <3>2. QED BY <1>2, <3>1, WorkEntry
  <2>2. QED BY <1>6, <2>1, <1>5 DEF Map!CheckLock, MapTypes, MapsOK
<1>7. CASE Map!ReadCounter(t)
  <2>1. [job[t] EXCEPT !.id = counter + 1] \in Works
        /\ [job[t] EXCEPT !.id = counter + 1].post = job[t].post
    <3>1. counter + 1 \in Nat BY DEF MapTypes, MapsOK
    <3>2. QED BY <1>2, <3>1, WorkId
  <2>2. QED BY <1>7, <2>1, <1>5 DEF Map!ReadCounter, MapTypes, MapsOK
<1>8. CASE Map!WriteCounter(t)
  <2>1. [job[t] EXCEPT !.entry = 1] \in Works /\ [job[t] EXCEPT !.entry = 1].post = job[t].post
        /\ [job[t] EXCEPT !.entry = 1].entry = 1
    <3>1. 1 \in Nat \ {0} OBVIOUS
    <3>2. QED BY <1>2, <3>1, WorkEntry
  <2>2. counter' \in Nat /\ alone' \subseteq Map!Threads
    BY <1>8, <1>2 DEF Map!WriteCounter, Works, MapTypes, MapsOK
  <2>3. QED BY <1>8, <2>1, <2>2, <1>5 DEF Map!WriteCounter
<1>9. QED BY <1>4, <1>6, <1>7, <1>8 DEF Map!CheckLock

(* Validation of a request, and the start of its application.              *)
LEMMA ValidateTypes ==
  ASSUME Map!MappingConstants, MapTypes, NEW t \in Map!Threads,
         Map!Validate(t) \/ Map!RejectTime(t) \/ Map!BeginApply(t)
  PROVE  MapTypes'
<1>1. at[t] = "validate" /\ at[t] # "idle"
  BY DEF Map!Validate, Map!RejectTime, Map!BeginApply
<1>2. /\ job[t] \in Works /\ job[t].post \in DOMAIN posts /\ job[t].post # 0
      /\ Map!Action(t) = posts[job[t].post]
      /\ DOMAIN Map!Action(t) = 1..Len(Map!Action(t)) /\ Len(Map!Action(t)) \in Nat
      /\ ~Map!Finished(t) <=> job[t].entry \in DOMAIN Map!Action(t)
      /\ \A k \in DOMAIN Map!Action(t) : Map!Action(t)[k] \in Entries
  BY <1>1, InHandTyped
<1>3. Hand(t) /\ job[t].entry \in Nat \ {0} BY <1>2 DEF MapTypes, HandsOK, Works
<1>4. CASE Map!RejectTime(t) BY <1>4, EndKeepsTypes DEF Map!RejectTime
<1>5. CASE Map!Validate(t) /\ ~Map!Valid(Map!Entry(t))
  <2>1. "invalid" \in Verdicts \ {"accepted"} BY DEF Verdicts
  <2>2. QED BY <1>1, <1>5, <2>1, VerdictKeepsTypes DEF Map!Validate
<1>6. CASE Map!Validate(t) /\ Map!Valid(Map!Entry(t))
  <2> DEFINE j == [job[t] EXCEPT !.entry = job[t].entry + 1]
  <2>1. Map!Moves(t, "validate", j) BY <1>6 DEF Map!Validate
  <2>2. /\ j \in Works /\ j.post = job[t].post /\ j.entry = job[t].entry + 1
        /\ j.scheduled = job[t].scheduled
    <3>1. job[t].entry + 1 \in Nat \ {0} BY <1>3
    <3>2. QED BY <1>2, <3>1, WorkEntry
  <2> HIDE DEF j
  <2>3. at'[t] = "validate" /\ job'[t] = j
    BY <2>1, <2>2, MapMoved DEF MapTypes, HandsOK, Stages
  <2>4. UNCHANGED <<source, sink, activations, counter, due, posts, state, alone, changes>>
    BY <1>6 DEF Map!Validate
  <2>5. Map!Action(t)' = Map!Action(t) BY <2>2, <2>3, <2>4 DEF Map!Action
  <2>6. Routable(Map!Entry(t)) BY <1>6 DEF Map!Valid, Routable
  <2>7. \A k \in DOMAIN Map!Action(t) : k < j.entry => Routable(Map!Action(t)[k])
    <3>1. ASSUME NEW k \in DOMAIN Map!Action(t), k < j.entry PROVE Routable(Map!Action(t)[k])
      <4>1. k < job[t].entry \/ k = job[t].entry BY <3>1, <2>2, <1>2, <1>3
      <4>2. QED BY <4>1, <2>6, <1>1, <1>3 DEF Hand, Map!Entry
    <3>2. QED BY <3>1
  <2>8. Hand(t)' BY <1>1, <1>3, <2>2, <2>3, <2>4, <2>5, <2>7 DEF Hand, Routable
  <2>9. QED BY <2>1, <2>2, <2>4, <2>8, MoveKeepsTypes DEF Stages, MapTypes, MapsOK
<1>7. CASE Map!BeginApply(t)
  <2> DEFINE j == [job[t] EXCEPT !.entry = 1]
  <2>1. Map!Moves(t, "fetch", j) BY <1>7 DEF Map!BeginApply
  <2>2. j \in Works /\ j.post = job[t].post /\ j.scheduled = job[t].scheduled
    <3>1. 1 \in Nat \ {0} OBVIOUS
    <3>2. QED BY <1>2, <3>1, WorkEntry
  <2> HIDE DEF j
  <2>3. at'[t] = "fetch" /\ job'[t] = j
    BY <2>1, <2>2, MapMoved DEF MapTypes, HandsOK, Stages
  <2>4. UNCHANGED <<source, sink, activations, counter, due, posts, state, alone, changes>>
    BY <1>7 DEF Map!BeginApply
  <2>5. Map!Action(t)' = Map!Action(t) BY <2>2, <2>3, <2>4 DEF Map!Action
  <2>6. \A k \in DOMAIN Map!Action(t) : Routable(Map!Action(t)[k])
    BY <1>1, <1>2, <1>3, <1>7 DEF Hand, Map!BeginApply, Map!Finished
  <2>7. Hand(t)' BY <1>1, <1>3, <2>2, <2>3, <2>4, <2>5, <2>6 DEF Hand, Routable
  <2>8. QED BY <2>1, <2>2, <2>4, <2>7, MoveKeepsTypes DEF Stages, MapTypes, MapsOK
<1>8. QED BY <1>4, <1>5, <1>6, <1>7

(* What an entry makes of a map is a map.                                  *)
LEMMA WriteTyped ==
  ASSUME NEW m \in Seq(Alsa), NEW i \in Nat, NEW v \in Alsa
  PROVE  Map!Write(m, i, v) \in Seq(Alsa)
<1>1. CASE i \in DOMAIN m BY <1>1, ExceptSeq DEF Map!Write
<1>2. CASE i \notin DOMAIN m BY <1>2 DEF Map!Write
<1>3. QED BY <1>1, <1>2

LEMMA ChangedTyped ==
  ASSUME Map!MappingConstants, MapsOK, NEW e \in Entries, e.in[1] # "none", Routable(e),
         NEW m \in Map!Changed(e)
  PROVE  m \in Seq(Alsa)
<1>1. CASE e.out[1] = "alsa"
  <2>1. e.out[2] \in Alsa /\ e.in[2] \in Sinks /\ e.ich \in Nat
    BY <1>1, EntryKinds DEF Routable
  <2>2. m = Map!Write(sink[e.in[2]], e.ich, e.out[2]) BY <1>1 DEF Map!Changed
  <2>3. QED BY <2>1, <2>2, WriteTyped DEF MapsOK
<1>2. CASE e.out[1] = "sender"
  <2>1. e.out[2] \in Sources /\ e.ch \in Nat /\ source[e.out[2]] \in Seq(Alsa)
    BY <1>2, EntryKinds DEF MapsOK
  <2>2. PICK v \in Alsa : m = Map!Write(source[e.out[2]], e.ch, v)
    <3>1. CASE e.in[1] = "alsa" BY <1>2, <3>1, EntryKinds DEF Map!Changed
    <3>2. CASE e.in[1] = "sink"
      <4>1. sink[e.in[2]] \in Seq(Alsa) BY <3>2, EntryKinds DEF MapsOK
      <4>2. Map!Read(sink[e.in[2]], e.ich) \subseteq Alsa BY <4>1 DEF Map!Read
      <4>3. QED BY <1>2, <3>2, <4>2 DEF Map!Changed
    <3>3. QED BY <3>1, <3>2, EntryKinds
  <2>3. QED BY <2>1, <2>2, WriteTyped
<1>3. QED BY <1>1, <1>2, EntryKinds

(* The steps for an entry: skipping it, reading and writing back.          *)
LEMMA NextEntryTypes ==
  ASSUME Map!MappingConstants, MapTypes, NEW t \in Map!Threads, at[t] \in {"fetch", "store"},
         NEW j \in {Map!NextEntry(job[t]), Map!Failing(job[t])},
         Map!Moves(t, "fetch", j), MapsOK',
         UNCHANGED <<activations, due, posts, state>>
  PROVE  MapTypes'
<1>1. /\ job[t] \in Works /\ job[t].post \in DOMAIN posts /\ Hand(t)
      /\ job[t].post # 0 /\ at[t] # "idle"
  BY InHandTyped DEF MapTypes, HandsOK
<1>2. j \in Works /\ j.post = job[t].post /\ j.scheduled = job[t].scheduled
  BY <1>1, WorkNext, WorkFailed
<1>3. /\ at' \in [Map!Threads -> Stages] /\ job' \in [Map!Threads -> Works]
      /\ at'[t] = "fetch" /\ job'[t] = j
      /\ \A u \in Map!Threads : u # t => at'[u] = at[u] /\ job'[u] = job[u]
  BY <1>2, MapMoved DEF MapTypes, HandsOK, Stages
<1>4. Map!Action(t)' = Map!Action(t) BY <1>2, <1>3 DEF Map!Action
<1>5. Hand(t)' BY <1>1, <1>2, <1>3, <1>4 DEF Hand, Routable
<1>6. \A u \in Map!Threads : Hand(u)'
  <2>1. ASSUME NEW u \in Map!Threads, u # t PROVE Hand(u)'
    <3>1. Hand(u) /\ Len(posts) \in Nat BY DEF MapTypes, HandsOK, PostsOK
    <3>2. QED BY <3>1, <2>1, <1>3, HandKept
  <2>2. QED BY <2>1, <1>5
<1>7. \A u \in Map!Threads : job'[u].post = job[u].post BY <1>2, <1>3
<1>8. Distinct' BY <1>7 DEF MapTypes, HandsOK, Distinct, Map!Threads
<1>9. PostsOK' /\ PendingOK' BY DEF MapTypes, PostsOK, PendingOK, Map!PendingPosts
<1>10. DueOK' BY <1>7 DEF MapTypes, DueOK, Map!Threads
<1>11. QED BY <1>3, <1>6, <1>8, <1>9, <1>10 DEF MapTypes, HandsOK

LEMMA EntryTypes ==
  ASSUME Map!MappingConstants, MapTypes, NEW t \in Map!Threads,
         \/ Map!Skip(t) \/ Map!Fetch(t) \/ Map!Store(t)
         \/ Map!StoreRefused(t) \/ Map!Applied(t)
  PROVE  MapTypes'
<1>1. at[t] \in {"fetch", "store"} /\ at[t] # "idle"
  BY DEF Map!Skip, Map!Fetch, Map!Store, Map!StoreRefused, Map!Applied
<1>2. /\ job[t] \in Works /\ job[t].post \in DOMAIN posts /\ job[t].post # 0
      /\ Map!Action(t) = posts[job[t].post]
      /\ ~Map!Finished(t) <=> job[t].entry \in DOMAIN Map!Action(t)
      /\ \A k \in DOMAIN Map!Action(t) : Map!Action(t)[k] \in Entries
  BY <1>1, InHandTyped
<1>3. Hand(t) /\ MapsOK BY DEF MapTypes, HandsOK
<1>4. CASE Map!Skip(t)
  <2>1. MapsOK' BY <1>3, <1>4 DEF MapsOK, Map!Skip, Map!Threads
  <2>2. QED BY <1>1, <1>4, <2>1, NextEntryTypes DEF Map!Skip
<1>5. CASE Map!Applied(t)
  <2>1. "done" \in Verdicts \ {"accepted"} BY DEF Verdicts
  <2>2. QED BY <1>1, <1>5, <2>1, VerdictKeepsTypes DEF Map!Applied
<1>6. CASE Map!Fetch(t)
  <2>1. PICK m \in Map!Changed(Map!Entry(t)) :
          Map!Moves(t, "store", [job[t] EXCEPT !.map = m])
    BY <1>6 DEF Map!Fetch
  <2>2. /\ job[t].entry \in DOMAIN Map!Action(t) /\ Map!Entry(t) \in Entries
        /\ Routable(Map!Entry(t)) /\ Map!Entry(t).in[1] # "none"
    BY <1>1, <1>2, <1>3, <1>6 DEF Map!Fetch, Map!Entry, Hand
  <2>3. m \in Seq(Alsa) BY <2>2, <1>3, ChangedTyped
  <2> DEFINE j == [job[t] EXCEPT !.map = m]
  <2>4. /\ j \in Works /\ j.post = job[t].post /\ j.scheduled = job[t].scheduled
        /\ j.entry = job[t].entry
    BY <1>2, <2>3, WorkMap
  <2>5. Map!Moves(t, "store", j) BY <2>1
  <2> HIDE DEF j
  <2>6. at'[t] = "store" /\ job'[t] = j
    BY <2>4, <2>5, MapMoved DEF MapTypes, HandsOK, Stages
  <2>7. UNCHANGED <<source, sink, activations, counter, due, posts, state, alone, changes>>
    BY <1>6 DEF Map!Fetch
  <2>8. Map!Action(t)' = Map!Action(t) BY <2>4, <2>6, <2>7 DEF Map!Action
  <2>9. Map!Entry(t)' = Map!Entry(t) BY <2>4, <2>6, <2>8 DEF Map!Entry
  <2>10. Hand(t)'
    BY <1>1, <1>3, <2>2, <2>4, <2>6, <2>7, <2>8, <2>9 DEF Hand, Routable
  <2>11. QED BY <1>3, <2>4, <2>5, <2>7, <2>10, MoveKeepsTypes DEF Stages, MapsOK
<1>7. ASSUME NEW m \in Seq(Alsa), Map!Assign(Map!Entry(t), m) PROVE
        source' \in [Sources -> Seq(Alsa)] /\ sink' \in [Sinks -> Seq(Alsa)]
  BY <1>3, <1>7 DEF Map!Assign, MapsOK
<1>8. CASE Map!Store(t)
  <2>1. job[t].map \in Seq(Alsa) BY <1>2 DEF Works
  <2>2. MapsOK' BY <1>3, <1>7, <1>8, <2>1 DEF MapsOK, Map!Store, Map!Threads
  <2>3. QED BY <1>1, <1>8, <2>2, NextEntryTypes DEF Map!Store
<1>9. CASE Map!StoreRefused(t)
  <2>1. <<>> \in Seq(Alsa) OBVIOUS
  <2>2. changes' \in 0..MaxChanges BY <1>3, <1>9 DEF MapsOK, Map!StoreRefused, Map!MappingConstants
  <2>3. /\ Map!Assign(Map!Entry(t), <<>>) \/ UNCHANGED <<source, sink>>
        /\ alone' = alone \cap {t} /\ counter' = counter
    BY <1>9 DEF Map!StoreRefused
  <2>4. MapsOK' BY <1>3, <1>7, <2>1, <2>2, <2>3 DEF MapsOK, Map!Threads
  <2>5. QED BY <1>1, <1>9, <2>4, NextEntryTypes DEF Map!StoreRefused
<1>10. QED BY <1>4, <1>5, <1>6, <1>8, <1>9

(* A new POST.                                                             *)
LEMMA PostTypes ==
  ASSUME Map!MappingConstants, MapTypes, NEW t \in Clients, NEW a \in Actions,
         NEW s \in BOOLEAN, Map!Post(t, a, s)
  PROVE  MapTypes'
<1> DEFINE n == Len(posts) + 1
           j == [Map!NoJob EXCEPT !.post = n, !.scheduled = s]
<1>1. /\ Len(posts) \in Nat /\ n \in Nat \ {0} /\ t \in Map!Threads /\ t # Worker
      /\ DOMAIN posts = 1..Len(posts) /\ DOMAIN state = DOMAIN posts
  BY DEF MapTypes, PostsOK, Map!Threads, Map!MappingConstants
<1>2. Map!Moves(t, "lock", j) BY DEF Map!Post
<1>3. j \in Works /\ j.post = n
  <2> DEFINE w == [Map!NoJob EXCEPT !.post = n]
  <2>0. n \in Nat BY <1>1
  <2> HIDE DEF n
  <2>1. w \in Works /\ w.post = n BY <2>0, NoJobTyped, WorkPost
  <2>2. j = [w EXCEPT !.scheduled = s] OBVIOUS
  <2> HIDE DEF w, j
  <2>3. QED BY <2>1, <2>2, WorkScheduled
<1> HIDE DEF j
<1>4. /\ at' \in [Map!Threads -> Stages] /\ job' \in [Map!Threads -> Works]
      /\ at'[t] = "lock" /\ job'[t] = j
      /\ \A u \in Map!Threads : u # t => at'[u] = at[u] /\ job'[u] = job[u]
  BY <1>1, <1>2, <1>3, MapMoved DEF MapTypes, HandsOK, Stages
<1>5. /\ posts' = Append(posts, a) /\ state' = Append(state, "new")
      /\ UNCHANGED <<source, sink, activations, counter, due, alone, changes>>
  BY DEF Map!Post
<1>6. /\ Len(posts') = n /\ posts'[n] = a /\ state'[n] = "new" /\ DOMAIN posts' = 1..n
      /\ \A k \in DOMAIN posts : posts'[k] = posts[k] /\ state'[k] = state[k]
  BY <1>1, <1>5 DEF MapTypes, PostsOK
<1>7. PostsOK'
  <2>1. a \in Seq(Entries) BY ActionsTyped
  <2>2. posts' \in Seq(Seq(Entries)) /\ state' \in Seq(Verdicts) /\ Len(state') = Len(posts')
    BY <2>1, <1>5 DEF MapTypes, PostsOK, Verdicts
  <2>3. ASSUME NEW k \in DOMAIN posts'
        PROVE posts'[k] \in Actions \cup UNION {Map!Canonical(b) : b \in Actions}
    <3>1. k = n \/ k \in DOMAIN posts BY <1>1, <1>6, <2>3
    <3>2. CASE k = n BY <3>2, <1>6
    <3>3. CASE k \in DOMAIN posts BY <3>3, <1>6 DEF MapTypes, PostsOK
    <3>4. QED BY <3>1, <3>2, <3>3
  <2>4. QED BY <2>2, <2>3 DEF PostsOK
<1>8. \A u \in Map!Threads : Hand(u)'
  <2>1. ASSUME NEW u \in Map!Threads, u # t PROVE Hand(u)'
    <3>1. Hand(u) BY DEF MapTypes, HandsOK
    <3>2. job[u].post # 0 => job[u].post \in DOMAIN posts BY <3>1, <1>1 DEF Hand
    <3>3. Len(posts') \in Nat /\ Len(posts) <= Len(posts') BY <1>1, <1>6
    <3>4. QED BY <3>1, <3>2, <3>3, <2>1, <1>1, <1>4, <1>6, HandKept
  <2>2. Hand(t)' BY <1>1, <1>3, <1>4, <1>6 DEF Hand
  <2>3. QED BY <2>1, <2>2
<1>9. \A u \in Map!Threads : job[u].post # n
  <2>1. \A u \in Map!Threads : job[u].post \in 0..Len(posts) BY DEF MapTypes, HandsOK, Hand
  <2>2. QED BY <2>1, <1>1
<1>10. Distinct'
  BY <1>3, <1>4, <1>9 DEF MapTypes, HandsOK, Distinct, Map!Threads
<1>11. MapsOK' BY <1>5 DEF MapTypes, MapsOK, Map!Threads
<1>12. PendingOK'
  <2>1. \A i \in DOMAIN activations : activations[i] \in DOMAIN posts /\ activations[i] # n
    BY <1>1 DEF MapTypes, PendingOK
  <2>2. \A k \in DOMAIN posts' : k = n \/ k \in DOMAIN posts BY <1>1, <1>6
  <2>3. n \notin Map!PendingPosts BY <2>1 DEF Map!PendingPosts
  <2>4. \A k \in DOMAIN posts' : state'[k] = "accepted" <=> k \in Map!PendingPosts
    BY <2>2, <2>3, <1>6 DEF MapTypes, PendingOK
  <2>5. DOMAIN posts \subseteq DOMAIN posts' BY <1>1, <1>6
  <2>6. Map!PendingPosts' = Map!PendingPosts BY <1>5 DEF Map!PendingPosts
  <2>7. QED BY <2>1, <2>4, <2>5, <2>6, <1>5 DEF MapTypes, PendingOK
<1>13. DueOK'
  <2>1. job'[Worker] = job[Worker] /\ (job[Worker].post # 0 => job[Worker].post \in DOMAIN posts)
    BY <1>1, <1>4 DEF Map!Threads, MapTypes, HandsOK, Hand
  <2>2. DOMAIN posts \subseteq DOMAIN posts' BY <1>1, <1>6
  <2>3. QED BY <2>1, <2>2, <1>5, <1>6 DEF MapTypes, DueOK
<1>14. QED BY <1>4, <1>7, <1>8, <1>10, <1>11, <1>12, <1>13 DEF MapTypes, HandsOK

(* A table of pending activations that keeps some of them.                 *)
LEMMA FewerPending ==
  ASSUME MapTypes, NEW S \in SUBSET DOMAIN activations,
         activations' = [i \in S |-> activations[i]]
  PROVE  /\ IsFiniteSet(DOMAIN activations') /\ DOMAIN activations' \subseteq Nat
         /\ \A i \in DOMAIN activations' : activations'[i] \in DOMAIN posts
         /\ \A i, j \in DOMAIN activations' : activations'[i] = activations'[j] => i = j
         /\ Map!PendingPosts' = {activations[i] : i \in S}
         /\ Map!PendingPosts' \subseteq Map!PendingPosts
<1>1. IsFiniteSet(S) BY FS_Subset DEF MapTypes, PendingOK
<1>2. QED BY <1>1 DEF MapTypes, PendingOK, Map!PendingPosts

(* A client deletes a pending activation.                                  *)
LEMMA DeleteTypes ==
  ASSUME Map!MappingConstants, MapTypes, NEW id \in DOMAIN activations, Map!Delete(id)
  PROVE  MapTypes'
<1> DEFINE n == activations[id]
           S == DOMAIN activations \ {id}
<1>1. /\ activations' = [i \in S |-> activations[i]] /\ state' = [state EXCEPT ![n] = "deleted"]
      /\ UNCHANGED <<source, sink, counter, at, job, due, posts, alone, changes>>
  BY DEF Map!Delete
<1>2. n \in DOMAIN posts /\ state[n] = "accepted" /\ DOMAIN posts = DOMAIN state
  <2>1. n \in DOMAIN posts /\ n \in Map!PendingPosts
    BY DEF MapTypes, PendingOK, Map!PendingPosts
  <2>2. QED BY <2>1 DEF MapTypes, PendingOK, PostsOK
<1>3. \A k \in DOMAIN posts : state'[k] = IF k = n THEN "deleted" ELSE state[k]
  BY <1>1, <1>2
<1>4. PostsOK'
  <2>1. state \in Seq(Verdicts) /\ n \in 1..Len(state) /\ "deleted" \in Verdicts
    BY <1>2 DEF MapTypes, PostsOK, Verdicts
  <2>2. state' \in Seq(Verdicts) /\ Len(state') = Len(state) BY <2>1, <1>1, ExceptSeq
  <2>3. QED BY <1>1, <2>2 DEF MapTypes, PostsOK
<1>5. PendingOK'
  <2>1. /\ IsFiniteSet(DOMAIN activations') /\ DOMAIN activations' \subseteq Nat
        /\ \A i \in DOMAIN activations' : activations'[i] \in DOMAIN posts
        /\ \A i, j \in DOMAIN activations' : activations'[i] = activations'[j] => i = j
        /\ Map!PendingPosts' = {activations[i] : i \in S}
    BY <1>1, FewerPending
  <2>2. Map!PendingPosts' = Map!PendingPosts \ {n}
    BY <2>1 DEF Map!PendingPosts, MapTypes, PendingOK
  <2>3. \A k \in DOMAIN posts : state'[k] = "accepted" <=> k \in Map!PendingPosts'
    BY <2>2, <1>3 DEF MapTypes, PendingOK
  <2>4. QED BY <2>1, <2>3, <1>1 DEF PendingOK
<1>6. HandsOK'
  <2>1. ASSUME NEW u \in Map!Threads PROVE Hand(u)'
    <3>1. Hand(u) /\ Len(posts) \in Nat BY DEF MapTypes, HandsOK, PostsOK
    <3>2. u \in Clients /\ job[u].post # 0 =>
            job[u].post \in DOMAIN posts /\ state[job[u].post] = "new"
      BY <3>1 DEF Hand, MapTypes, PostsOK
    <3>3. QED BY <3>1, <3>2, <1>1, <1>2, <1>3, HandKept
  <2>2. Distinct' BY <1>1 DEF MapTypes, HandsOK, Distinct
  <2>3. QED BY <1>1, <2>1, <2>2 DEF MapTypes, HandsOK, Map!Threads
<1>7. MapsOK' BY <1>1 DEF MapTypes, MapsOK, Map!Threads
<1>8. DueOK'
  <2>1. \A k \in DOMAIN due : due[k] \in DOMAIN posts /\ due[k] # n
    BY <1>2 DEF MapTypes, DueOK
  <2>2. job[Worker].post # 0 => job[Worker].post \in DOMAIN posts /\ job[Worker].post # n
    BY <1>2 DEF MapTypes, DueOK, HandsOK, Hand, PostsOK, Map!Threads
  <2>3. QED BY <1>1, <1>3, <2>1, <2>2 DEF MapTypes, DueOK
<1>9. QED BY <1>4, <1>5, <1>6, <1>7, <1>8 DEF MapTypes

(* Other clients change a source or a sink.                                *)
LEMMA PutTypes ==
  ASSUME Map!MappingConstants, MapTypes,
         \/ \E s \in Sources, m \in Maps \cup {<<>>} : Map!PutSource(s, m)
         \/ \E s \in Sinks, m \in Maps \cup {<<>>} : Map!PutSink(s, m)
  PROVE  MapTypes'
<1>1. /\ UNCHANGED <<activations, counter, at, job, due, posts, state>>
      /\ alone' = {} /\ changes < MaxChanges /\ changes' = changes + 1
  BY DEF Map!PutSource, Map!PutSink
<1>2. \A m \in Maps \cup {<<>>} : m \in Seq(Alsa)
  <2>1. <<>> \in Seq(Alsa) OBVIOUS
  <2>2. QED BY <2>1 DEF Map!MappingConstants
<1>3. source' \in [Sources -> Seq(Alsa)] /\ sink' \in [Sinks -> Seq(Alsa)]
  BY <1>2 DEF Map!PutSource, Map!PutSink, MapTypes, MapsOK
<1>4. changes' \in 0..MaxChanges BY <1>1 DEF MapTypes, MapsOK, Map!MappingConstants
<1>5. MapsOK' BY <1>1, <1>3, <1>4 DEF MapTypes, MapsOK, Map!Threads
<1>6. PostsOK' /\ PendingOK' /\ DueOK'
  <2>1. PostsOK' BY <1>1 DEF MapTypes, PostsOK
  <2>2. PendingOK' BY <1>1 DEF MapTypes, PendingOK, Map!PendingPosts
  <2>3. DueOK' BY <1>1 DEF MapTypes, DueOK
  <2>4. QED BY <2>1, <2>2, <2>3
<1>7. HandsOK'
  <2>1. ASSUME NEW u \in Map!Threads PROVE Hand(u)'
    <3>1. Hand(u) /\ Len(posts) \in Nat BY DEF MapTypes, HandsOK, PostsOK
    <3>2. QED BY <3>1, <1>1, HandKept
  <2>2. Distinct' BY <1>1 DEF MapTypes, HandsOK, Distinct
  <2>3. QED BY <1>1, <2>1, <2>2 DEF MapTypes, HandsOK, Map!Threads
<1>8. QED BY <1>5, <1>6, <1>7 DEF MapTypes

(* A scheduled POST is accepted; one that had its number is lost.          *)
LEMMA ScheduleTypes ==
  ASSUME Map!MappingConstants, MapTypes, NEW t \in Map!Threads, Map!Schedule(t)
  PROVE  MapTypes'
<1> DEFINE n == job[t].post
           id == job[t].id
           lost(k) == id \in DOMAIN activations /\ activations[id] = k
<1>1. at[t] = "validate" /\ at[t] # "idle" /\ job[t].scheduled BY DEF Map!Schedule
<1>2. /\ job[t] \in Works /\ n \in DOMAIN posts /\ n # 0 /\ Map!Action(t) = posts[n] /\ Hand(t)
  BY <1>1, InHandTyped DEF MapTypes, HandsOK
<1>3. t \in Clients /\ t # Worker
  BY <1>1, <1>2 DEF Hand, Map!Threads, Map!MappingConstants
<1>4. state[n] = "new" /\ posts[n] \in Actions /\ id \in Nat
  BY <1>2, <1>3 DEF Hand, Works
<1>5. PICK form \in Map!Canonical(posts[n]) : posts' = [posts EXCEPT ![n] = form]
  BY <1>2 DEF Map!Schedule
<1>6. form \in Seq(Entries) BY <1>4, ActionsTyped, CanonicalForm
<1>7. /\ activations' = [i \in DOMAIN activations \cup {id} |->
                           IF i = id THEN n ELSE activations[i]]
      /\ state' = [k \in DOMAIN state |->
                     IF k = n THEN "accepted"
                     ELSE IF lost(k) THEN "overwritten" ELSE state[k]]
      /\ UNCHANGED <<source, sink, counter, due, alone, changes>>
      /\ Map!Moves(t, "idle", Map!NoJob)
  BY DEF Map!Schedule
<1>8. /\ Len(posts) \in Nat /\ DOMAIN posts = 1..Len(posts) /\ DOMAIN state = DOMAIN posts
      /\ DOMAIN posts' = DOMAIN posts /\ Len(posts') = Len(posts)
      /\ \A k \in DOMAIN posts : k # n => posts'[k] = posts[k]
      /\ posts'[n] = form
  BY <1>2, <1>5 DEF MapTypes, PostsOK
<1>9. \A k \in DOMAIN posts :
        state'[k] = IF k = n THEN "accepted" ELSE IF lost(k) THEN "overwritten" ELSE state[k]
  BY <1>7, <1>8
<1>10. /\ at' \in [Map!Threads -> Stages] /\ job' \in [Map!Threads -> Works]
       /\ at'[t] = "idle" /\ job'[t] = Map!NoJob
       /\ \A u \in Map!Threads : u # t => at'[u] = at[u] /\ job'[u] = job[u]
  BY <1>7, MapMoved, NoJobTyped DEF MapTypes, HandsOK, Stages
<1>11. \A k \in DOMAIN posts : lost(k) => k \in Map!PendingPosts /\ state[k] = "accepted"
  BY DEF MapTypes, PendingOK, Map!PendingPosts
<1>12. PostsOK'
  <2>1. posts' \in Seq(Seq(Entries))
    <3>1. posts \in Seq(Seq(Entries)) /\ n \in 1..Len(posts) BY <1>2, <1>8 DEF MapTypes, PostsOK
    <3>2. QED BY <3>1, <1>5, <1>6, ExceptSeq
  <2>2. state' \in Seq(Verdicts) /\ Len(state') = Len(posts')
    <3>1. \A k \in 1..Len(state) : state'[k] \in Verdicts
      <4>1. \A k \in 1..Len(state) : state[k] \in Verdicts /\ k \in DOMAIN posts
        BY DEF MapTypes, PostsOK
      <4> HIDE DEF n, lost
      <4>2. QED BY <4>1, <1>9 DEF Verdicts
    <3>2. DOMAIN state' = 1..Len(state) /\ Len(state) \in Nat /\ Len(state) = Len(posts)
      BY <1>7 DEF MapTypes, PostsOK
    <3>3. state' = [k \in 1..Len(state) |-> state'[k]] BY <3>2, <1>7
    <3>4. QED BY <3>1, <3>2, <3>3, <1>8
  <2>3. \A k \in DOMAIN posts' : posts'[k] \in Actions \cup UNION {Map!Canonical(a) : a \in Actions}
    <3>1. form \in UNION {Map!Canonical(a) : a \in Actions} BY <1>4
    <3>2. QED BY <3>1, <1>8 DEF MapTypes, PostsOK
  <2>4. QED BY <2>1, <2>2, <2>3 DEF PostsOK
<1>13. HandsOK'
  <2>1. ASSUME NEW u \in Map!Threads, u # t PROVE Hand(u)'
    <3>1. Hand(u) BY DEF MapTypes, HandsOK
    <3>2. job[u].post # 0 => job[u].post \in DOMAIN posts BY <3>1, <1>8 DEF Hand
    <3>3. job[u].post # 0 => job[u].post # n
      <4>1. CASE u \in Clients
        BY <4>1, <2>1, <1>2, <1>3 DEF MapTypes, HandsOK, Distinct
      <4>2. CASE u = Worker BY <4>2, <1>4 DEF MapTypes, DueOK
      <4>3. QED BY <4>1, <4>2 DEF Map!Threads
    <3>4. u \in Clients /\ job[u].post # 0 => state[job[u].post] = "new" BY <3>1 DEF Hand
    <3>5. u \in Clients /\ job[u].post # 0 => state'[job[u].post] = state[job[u].post]
      BY <3>2, <3>3, <3>4, <1>9, <1>11
    <3>6. job[u].post # 0 => posts'[job[u].post] = posts[job[u].post]
      BY <3>2, <3>3, <1>8
    <3>7. QED BY <3>1, <3>5, <3>6, <2>1, <1>8, <1>10, HandKept
  <2>2. Hand(t)' BY <1>8, <1>10, NoJobTyped DEF Hand
  <2>3. Distinct' BY <1>10, NoJobTyped DEF MapTypes, HandsOK, Distinct, Map!Threads
  <2>4. QED BY <1>10, <2>1, <2>2, <2>3 DEF HandsOK
<1>14. MapsOK' BY <1>7 DEF MapTypes, MapsOK, Map!Threads
<1>15. PendingOK'
  <2>1. DOMAIN activations' = DOMAIN activations \cup {id} BY <1>7
  <2>2. IsFiniteSet(DOMAIN activations') /\ DOMAIN activations' \subseteq Nat
    <3>1. IsFiniteSet(DOMAIN activations \cup {id})
      BY FS_AddElement DEF MapTypes, PendingOK
    <3>2. QED BY <2>1, <3>1, <1>4 DEF MapTypes, PendingOK
  <2>3. n \notin Map!PendingPosts BY <1>2, <1>4 DEF MapTypes, PendingOK
  <2>4. \A i \in DOMAIN activations : activations[i] \in DOMAIN posts /\ activations[i] # n
    BY <2>3 DEF MapTypes, PendingOK, Map!PendingPosts
  <2>5. \A i \in DOMAIN activations' : activations'[i] \in DOMAIN posts'
    BY <2>4, <1>2, <1>7, <1>8
  <2>6. \A i, j \in DOMAIN activations' : activations'[i] = activations'[j] => i = j
    BY <2>4, <1>7 DEF MapTypes, PendingOK
  <2>7. \A k \in DOMAIN posts :
          k \in Map!PendingPosts' <=> k = n \/ (k \in Map!PendingPosts /\ ~lost(k))
    <3>1. ASSUME NEW k \in DOMAIN posts, k \in Map!PendingPosts'
          PROVE k = n \/ (k \in Map!PendingPosts /\ ~lost(k))
      <4>1. PICK i \in DOMAIN activations' : activations'[i] = k BY <3>1 DEF Map!PendingPosts
      <4>2. CASE i = id BY <4>1, <4>2, <1>7
      <4>3. CASE i # id
        <5>1. i \in DOMAIN activations /\ activations[i] = k BY <4>1, <4>3, <1>7
        <5>2. QED BY <5>1, <4>3 DEF Map!PendingPosts, MapTypes, PendingOK
      <4>4. QED BY <4>2, <4>3
    <3>2. n \in Map!PendingPosts' BY <1>7 DEF Map!PendingPosts
    <3>3. ASSUME NEW k \in DOMAIN posts, k \in Map!PendingPosts, ~lost(k)
          PROVE k \in Map!PendingPosts'
      <4>1. PICK i \in DOMAIN activations : activations[i] = k BY <3>3 DEF Map!PendingPosts
      <4>2. i # id BY <4>1, <3>3
      <4>3. i \in DOMAIN activations' /\ activations'[i] = k BY <4>1, <4>2, <1>7
      <4>4. QED BY <4>3 DEF Map!PendingPosts
    <3>4. QED BY <3>1, <3>2, <3>3
  <2> HIDE DEF n, id, lost
  <2>8. \A k \in DOMAIN posts : state'[k] = "accepted" <=> k \in Map!PendingPosts'
    BY <2>3, <2>7, <1>9 DEF MapTypes, PendingOK
  <2>9. QED BY <2>2, <2>5, <2>6, <2>8, <1>8 DEF PendingOK
<1>16. DueOK'
  <2>1. job'[Worker] = job[Worker] /\ (job[Worker].post # 0 => job[Worker].post \in DOMAIN posts)
    BY <1>3, <1>8, <1>10 DEF Map!Threads, MapTypes, HandsOK, Hand
  <2>2. \A k \in DOMAIN posts : state[k] = "firing" => state'[k] = "firing"
    BY <1>4, <1>9, <1>11
  <2>3. QED BY <2>1, <2>2, <1>7, <1>8 DEF MapTypes, DueOK
<1>17. QED BY <1>12, <1>13, <1>14, <1>15, <1>16 DEF MapTypes

(* The worker takes out what is due ...                                    *)
LEMMA TakeDueTypes ==
  ASSUME Map!MappingConstants, MapTypes, NEW S \in SUBSET DOMAIN activations, Map!TakeDue(S)
  PROVE  MapTypes'
<1> DEFINE R == DOMAIN activations \ S
           taken(k) == \E i \in S : activations[i] = k
<1>1. PICK d \in Map!InOrder(S) : due' = [k \in DOMAIN d |-> activations[d[k]]]
  BY DEF Map!TakeDue
<1>2. /\ at[Worker] = "idle" /\ activations' = [i \in R |-> activations[i]]
      /\ state' = [k \in DOMAIN state |-> IF taken(k) THEN "firing" ELSE state[k]]
      /\ UNCHANGED <<source, sink, counter, at, job, posts, alone, changes>>
  BY DEF Map!TakeDue
<1>3. IsFiniteSet(S) /\ S \subseteq Nat BY FS_Subset DEF MapTypes, PendingOK
<1>4. Cardinality(S) \in Nat BY <1>3, FS_CardinalityType
<1>5. /\ d \in [1..Cardinality(S) -> S]
      /\ \A k, l \in DOMAIN d : k < l => d[k] < d[l]
  BY SameCardinality DEF Map!InOrder
<1>6. \A k, l \in DOMAIN d : d[k] = d[l] => k = l
  BY <1>3, <1>4, <1>5
<1>7. \A i \in S : activations[i] \in DOMAIN posts /\ state[activations[i]] = "accepted"
  BY DEF MapTypes, PendingOK, Map!PendingPosts
<1>8. DOMAIN posts = DOMAIN state /\ Len(posts) \in Nat /\ DOMAIN posts = 1..Len(posts)
  BY DEF MapTypes, PostsOK
<1>9. \A k \in DOMAIN posts : state'[k] = IF taken(k) THEN "firing" ELSE state[k]
  BY <1>2, <1>8
<1>10. \A k : taken(k) => state[k] = "accepted" BY <1>7
<1>11. job[Worker].post = 0 BY <1>2 DEF MapTypes, HandsOK, Hand, Map!Threads
<1>12. PostsOK'
  <2>1. \A k \in 1..Len(state) : state'[k] \in Verdicts
    <3>1. \A k \in 1..Len(state) : state[k] \in Verdicts /\ k \in DOMAIN posts
      BY DEF MapTypes, PostsOK
    <3> HIDE DEF taken
    <3>2. QED BY <3>1, <1>9 DEF Verdicts
  <2>2. DOMAIN state' = 1..Len(state) /\ Len(state) \in Nat /\ Len(state) = Len(posts)
    BY <1>2 DEF MapTypes, PostsOK
  <2>3. state' = [k \in 1..Len(state) |-> state'[k]] BY <2>2, <1>2
  <2>4. state' \in Seq(Verdicts) /\ Len(state') = Len(posts) BY <2>1, <2>2, <2>3
  <2>5. QED BY <2>4, <1>2 DEF MapTypes, PostsOK
<1>13. PendingOK'
  <2>1. /\ IsFiniteSet(DOMAIN activations') /\ DOMAIN activations' \subseteq Nat
        /\ \A i \in DOMAIN activations' : activations'[i] \in DOMAIN posts
        /\ \A i, j \in DOMAIN activations' : activations'[i] = activations'[j] => i = j
        /\ Map!PendingPosts' = {activations[i] : i \in R}
    BY <1>2, FewerPending
  <2>2. \A k : k \in Map!PendingPosts' <=> k \in Map!PendingPosts /\ ~taken(k)
    BY <2>1 DEF Map!PendingPosts, MapTypes, PendingOK
  <2> HIDE DEF taken
  <2>3. \A k \in DOMAIN posts : state'[k] = "accepted" <=> k \in Map!PendingPosts'
    BY <2>2, <1>9 DEF MapTypes, PendingOK
  <2>4. QED BY <2>1, <2>3, <1>2 DEF PendingOK
<1>14. HandsOK'
  <2>1. ASSUME NEW u \in Map!Threads PROVE Hand(u)'
    <3>1. Hand(u) BY DEF MapTypes, HandsOK
    <3>2. u \in Clients /\ job[u].post # 0 =>
            job[u].post \in DOMAIN posts /\ state[job[u].post] = "new"
      BY <3>1, <1>8 DEF Hand
    <3>3. u \in Clients /\ job[u].post # 0 => state'[job[u].post] = state[job[u].post]
      BY <3>2, <1>9, <1>10
    <3>4. QED BY <3>1, <3>3, <1>2, <1>8, HandKept
  <2>2. Distinct' BY <1>2 DEF MapTypes, HandsOK, Distinct
  <2>3. QED BY <1>2, <2>1, <2>2 DEF MapTypes, HandsOK, Map!Threads
<1>15. MapsOK' BY <1>2 DEF MapTypes, MapsOK, Map!Threads
<1>16. DueOK'
  <2>1. DOMAIN d = 1..Cardinality(S) /\ DOMAIN due' = DOMAIN d BY <1>1, <1>5
  <2>2. ASSUME NEW k \in DOMAIN d
        PROVE  /\ due'[k] = activations[d[k]] /\ d[k] \in S
               /\ due'[k] \in DOMAIN posts /\ state'[due'[k]] = "firing" /\ due'[k] \in Nat \ {0}
    <3>1. due'[k] = activations[d[k]] /\ d[k] \in S BY <1>1, <1>5, <2>2
    <3>2. due'[k] \in DOMAIN posts BY <3>1, <1>7
    <3>3. taken(due'[k]) BY <3>1
    <3> HIDE DEF taken
    <3>4. QED BY <3>1, <3>2, <3>3, <1>8, <1>9
  <2>3. due' \in Seq(Nat)
    <3>1. due' = [k \in 1..Cardinality(S) |-> due'[k]] BY <1>1, <2>1
    <3>2. \A k \in 1..Cardinality(S) : due'[k] \in Nat BY <2>1, <2>2
    <3>3. QED BY <3>1, <3>2, <1>4
  <2>4. \A k, l \in DOMAIN due' : due'[k] = due'[l] => k = l
    BY <2>1, <2>2, <1>6 DEF MapTypes, PendingOK
  <2>5. QED BY <1>2, <1>11, <2>1, <2>2, <2>3, <2>4 DEF DueOK
<1>17. QED BY <1>12, <1>13, <1>14, <1>15, <1>16 DEF MapTypes

(* ... and starts on the first of it.                                      *)
LEMMA FireTypes ==
  ASSUME Map!MappingConstants, MapTypes, Map!Fire
  PROVE  MapTypes'
<1> DEFINE j == [Map!NoJob EXCEPT !.post = Head(due)]
<1>1. /\ due # <<>> /\ due' = Tail(due) /\ Map!Moves(Worker, "validate", j)
      /\ alone' = alone \cup {Worker}
      /\ UNCHANGED <<source, sink, activations, counter, posts, state, changes>>
  BY DEF Map!Fire
<1>2. /\ due \in Seq(Nat) /\ Len(due) \in Nat \ {0} /\ 1 \in DOMAIN due /\ Head(due) = due[1]
      /\ DOMAIN due = 1..Len(due)
  BY <1>1 DEF MapTypes, DueOK
<1>3. due[1] \in DOMAIN posts /\ due[1] # 0 /\ due[1] \in Nat /\ state[due[1]] = "firing"
  BY <1>2 DEF MapTypes, DueOK, PostsOK
<1>4. j \in Works /\ j.post = due[1] /\ j.entry = 1 /\ ~j.scheduled
  BY <1>2, <1>3, NoJobTyped, WorkPost
<1> HIDE DEF j
<1>5. Worker \in Map!Threads BY DEF Map!Threads
<1>6. /\ at' \in [Map!Threads -> Stages] /\ job' \in [Map!Threads -> Works]
      /\ at'[Worker] = "validate" /\ job'[Worker] = j
      /\ \A u \in Map!Threads : u # Worker => at'[u] = at[u] /\ job'[u] = job[u]
  BY <1>1, <1>4, <1>5, MapMoved DEF MapTypes, HandsOK, Stages
<1>7. Len(posts) \in Nat /\ DOMAIN posts = 1..Len(posts) /\ posts[due[1]] \in Seq(Entries)
  BY <1>3 DEF MapTypes, PostsOK
<1>8. HandsOK'
  <2>1. ASSUME NEW u \in Map!Threads, u # Worker PROVE Hand(u)'
    <3>1. Hand(u) BY DEF MapTypes, HandsOK
    <3>2. QED BY <3>1, <2>1, <1>1, <1>6, <1>7, HandKept
  <2>2. Hand(Worker)'
    <3>1. Map!Action(Worker)' = posts[due[1]] BY <1>1, <1>4, <1>6 DEF Map!Action
    <3>2. \A k \in DOMAIN Map!Action(Worker)' : ~(k < job'[Worker].entry)
      BY <3>1, <1>4, <1>6, <1>7
    <3>3. Worker \notin Clients BY DEF Map!MappingConstants
    <3>4. QED BY <3>2, <3>3, <1>1, <1>3, <1>4, <1>6, <1>7 DEF Hand
  <2>3. Distinct'
    <3>1. Worker \notin Clients BY DEF Map!MappingConstants
    <3>2. QED BY <3>1, <1>6 DEF MapTypes, HandsOK, Distinct, Map!Threads
  <2>4. QED BY <1>6, <2>1, <2>2, <2>3 DEF HandsOK
<1>9. MapsOK' BY <1>1, <1>5 DEF MapTypes, MapsOK, Map!Threads
<1>10. PostsOK' BY <1>1 DEF MapTypes, PostsOK
<1>11. PendingOK' BY <1>1 DEF MapTypes, PendingOK, Map!PendingPosts
<1>12. DueOK'
  <2>1. /\ due' \in Seq(Nat) /\ DOMAIN due' = 1..Len(due) - 1
        /\ \A k \in 1..Len(due) - 1 : due'[k] = due[k + 1]
    BY <1>1, <1>2
  <2>2. \A k \in DOMAIN due' : k + 1 \in DOMAIN due /\ k + 1 # 1 /\ due'[k] = due[k + 1] /\ k \in Nat
    BY <2>1, <1>2
  <2>3. \A k \in DOMAIN due' : due'[k] # due[1] BY <2>2, <1>2 DEF MapTypes, DueOK
  <2>4. \A k, l \in DOMAIN due' : due'[k] = due'[l] => k = l
    <3>1. \A k, l \in DOMAIN due' : due'[k] = due'[l] => k + 1 = l + 1
      BY <2>2 DEF MapTypes, DueOK
    <3>2. QED BY <3>1, <2>2
  <2>5. QED BY <2>1, <2>2, <2>3, <2>4, <1>1, <1>3, <1>4, <1>6 DEF MapTypes, DueOK
<1>13. QED BY <1>8, <1>9, <1>10, <1>11, <1>12 DEF MapTypes

-----------------------------------------------------------------------------
(* The locks.                                                              *)

LEMMA LocksKept ==
  ASSUME Map!LocksExclusive, Map!PendingPosts' \subseteq Map!PendingPosts,
         racing \subseteq racing', \A m \in Map!PendingPosts' : posts'[m] = posts[m]
  PROVE  Map!LocksExclusive'
<1>1. ASSUME NEW m \in Map!PendingPosts', NEW k \in Map!PendingPosts', m # k,
             ~({m, k} \subseteq racing')
      PROVE  Map!Outputs(posts'[m]) \cap Map!Outputs(posts'[k]) = {}
  <2>1. ~({m, k} \subseteq racing) BY <1>1
  <2>2. Map!Outputs(posts[m]) \cap Map!Outputs(posts[k]) = {}
    BY <1>1, <2>1 DEF Map!LocksExclusive
  <2>3. QED BY <2>2
<1>2. QED BY <1>1 DEF Map!LocksExclusive, Map!Outputs

(* Threads move while the pending activations stay as they are.            *)
LEMMA MoveKeepsLocks ==
  ASSUME MapTypes, LockInv, NEW t \in Map!Threads, NEW p \in Stages, NEW j \in Works,
         Map!Moves(t, p, j), UNCHANGED <<activations, posts, racing>>,
         t \in Clients => j.post \in {0, job[t].post},
         t \in Clients /\ j.post # 0 => Unlocked(t)'
  PROVE  LockInv'
<1>1. /\ job'[t] = j /\ \A u \in Map!Threads : u # t => at'[u] = at[u] /\ job'[u] = job[u]
  BY MapMoved DEF MapTypes, HandsOK
<1>2. Map!PendingPosts' = Map!PendingPosts BY DEF Map!PendingPosts
<1>3. Raced' BY <1>1 DEF LockInv, Raced, Map!Threads
<1>4. Map!LocksExclusive' BY <1>2, LocksKept DEF LockInv
<1>5. ASSUME NEW u \in Clients, job'[u].post # 0 PROVE Unlocked(u)'
  <2>1. CASE u = t BY <2>1, <1>1, <1>5
  <2>2. CASE u # t
    <3>1. at'[u] = at[u] /\ job'[u] = job[u] BY <2>2, <1>1 DEF Map!Threads
    <3>2. Unlocked(u) BY <3>1, <1>5 DEF LockInv
    <3>3. Map!Action(u)' = Map!Action(u) BY <3>1 DEF Map!Action
    <3>4. QED BY <3>1, <3>2, <3>3, <1>2 DEF Unlocked, Map!Outputs
  <2>3. QED BY <2>1, <2>2
<1>6. QED BY <1>3, <1>4, <1>5 DEF LockInv

(* A POST that has passed the locks, wherever it is.                       *)
LEMMA PassedLocks ==
  ASSUME MapTypes, LockInv, NEW t \in Clients, job[t].post # 0,
         at[t] = "lock" => Map!Finished(t),
         UNCHANGED <<activations, posts, racing>>, job'[t].post = job[t].post
  PROVE  Unlocked(t)'
<1>1. Unlocked(t) /\ t \in Map!Threads BY DEF LockInv, Map!Threads
<1>2. at[t] # "idle" BY <1>1 DEF MapTypes, HandsOK, Hand
<1>3. /\ job[t].entry \in Nat /\ DOMAIN Map!Action(t) = 1..Len(Map!Action(t))
      /\ Len(Map!Action(t)) \in Nat
  BY <1>1, <1>2, InHandTyped DEF Works
<1>4. \A k \in DOMAIN Map!Action(t) : at[t] = "lock" => k < job[t].entry
  BY <1>3 DEF Map!Finished
<1>5. Map!Action(t)' = Map!Action(t) /\ Map!PendingPosts' = Map!PendingPosts
  BY DEF Map!Action, Map!PendingPosts
<1>6. QED BY <1>1, <1>4, <1>5 DEF Unlocked, Map!Outputs

(* Every step of a request but the acceptance keeps the locks.             *)
LEMMA RequestLocks ==
  ASSUME Map!MappingConstants, MapTypes, LockInv, NEW t \in Map!Threads,
         Map!Request(t), ~Map!Schedule(t)
  PROVE  LockInv'
<1>1. at[t] # "idle" /\ UNCHANGED <<activations, posts, racing>>
  BY DEF Map!Request, Map!CheckLock, Map!ReadCounter, Map!WriteCounter, Map!Validate,
         Map!RejectTime, Map!BeginApply, Map!Skip, Map!Fetch, Map!Store, Map!StoreRefused,
         Map!Applied
<1>2. /\ job[t] \in Works /\ job[t].post # 0 /\ job[t].entry \in Nat \ {0}
      /\ DOMAIN Map!Action(t) = 1..Len(Map!Action(t)) /\ Len(Map!Action(t)) \in Nat
  BY <1>1, InHandTyped DEF Works
<1>3. CASE Map!Moves(t, "idle", Map!NoJob)
  BY <1>1, <1>3, NoJobTyped, MoveKeepsLocks DEF Stages
<1>4. ASSUME NEW p \in Stages, NEW j \in Works, Map!Moves(t, p, j), j.post = job[t].post,
             at[t] = "lock" => Map!Finished(t)
      PROVE  LockInv'
  <2>1. job'[t] = j BY <1>4, MapMoved DEF MapTypes, HandsOK
  <2>2. t \in Clients => Unlocked(t)' BY <1>1, <1>2, <1>4, <2>1, PassedLocks
  <2>3. QED BY <1>1, <1>4, <2>2, MoveKeepsLocks
<1>5. CASE Map!CheckLock(t) /\ ~Map!Moves(t, "idle", Map!NoJob)
  <2> DEFINE j == [job[t] EXCEPT !.entry = job[t].entry + 1]
  <2>1. /\ at[t] = "lock" /\ Map!Moves(t, "lock", j) /\ ~Map!Locked(Map!Entry(t).out)
        /\ ~Map!Finished(t)
    BY <1>5 DEF Map!CheckLock
  <2>2. j \in Works /\ j.post = job[t].post /\ j.entry = job[t].entry + 1
    <3>1. job[t].entry + 1 \in Nat \ {0} BY <1>2
    <3>2. QED BY <1>2, <3>1, WorkEntry
  <2> HIDE DEF j
  <2>3. at'[t] = "lock" /\ job'[t] = j
    BY <2>1, <2>2, MapMoved DEF MapTypes, HandsOK, Stages
  <2>4. Map!Action(t)' = Map!Action(t) /\ Map!PendingPosts' = Map!PendingPosts
    BY <1>1, <2>2, <2>3 DEF Map!Action, Map!PendingPosts
  <2>5. \A m \in Map!PendingPosts : Map!Entry(t).out \notin Map!Outputs(posts[m])
    BY <2>1 DEF Map!Locked, Map!PendingPosts
  <2>6. t \in Clients => Unlocked(t)'
    <3>1. ASSUME t \in Clients, NEW m \in Map!PendingPosts, NEW k \in DOMAIN Map!Action(t),
                 k < j.entry, ~({m, job[t].post} \subseteq racing)
          PROVE  Map!Action(t)[k].out \notin Map!Outputs(posts[m])
      <4>1. k < job[t].entry \/ k = job[t].entry BY <3>1, <2>2, <1>2
      <4>2. CASE k = job[t].entry BY <4>2, <2>5 DEF Map!Entry
      <4>3. CASE k < job[t].entry
        <5>1. Unlocked(t) BY <3>1, <1>2 DEF LockInv
        <5>2. QED BY <5>1, <4>3, <3>1 DEF Unlocked
      <4>4. QED BY <4>1, <4>2, <4>3
    <3>2. QED BY <3>1, <2>2, <2>3, <2>4, <1>1 DEF Unlocked, Map!Outputs
  <2>7. QED BY <1>1, <2>1, <2>2, <2>6, MoveKeepsLocks DEF Stages
<1>6. CASE Map!ReadCounter(t)
  <2>1. counter + 1 \in Nat BY DEF MapTypes, MapsOK
  <2>2. QED BY <1>2, <1>4, <1>6, <2>1, WorkId DEF Map!ReadCounter, Stages
<1>7. CASE Map!WriteCounter(t) \/ Map!BeginApply(t)
  <2>1. 1 \in Nat \ {0} OBVIOUS
  <2>2. /\ at[t] # "lock"
        /\ \/ Map!Moves(t, "validate", [job[t] EXCEPT !.entry = 1])
           \/ Map!Moves(t, "fetch", [job[t] EXCEPT !.entry = 1])
    BY <1>7 DEF Map!WriteCounter, Map!BeginApply
  <2>3. QED BY <1>2, <1>4, <2>1, <2>2, WorkEntry DEF Stages
<1>8. CASE Map!Validate(t) /\ ~Map!Moves(t, "idle", Map!NoJob)
  <2>1. job[t].entry + 1 \in Nat \ {0} BY <1>2
  <2>2. at[t] = "validate" /\ Map!Moves(t, "validate", [job[t] EXCEPT !.entry = job[t].entry + 1])
    BY <1>8 DEF Map!Validate
  <2>3. QED BY <1>2, <1>4, <2>1, <2>2, WorkEntry DEF Stages
<1>9. CASE Map!Skip(t) \/ Map!Store(t) \/ Map!StoreRefused(t)
  <2>1. /\ at[t] \in {"fetch", "store"}
        /\ \/ Map!Moves(t, "fetch", Map!NextEntry(job[t]))
           \/ Map!Moves(t, "fetch", Map!Failing(job[t]))
    BY <1>9 DEF Map!Skip, Map!Store, Map!StoreRefused
  <2>2. QED BY <1>2, <1>4, <2>1, WorkNext, WorkFailed DEF Stages
<1>10. CASE Map!Fetch(t)
  <2>1. PICK m \in Map!Changed(Map!Entry(t)) :
          Map!Moves(t, "store", [job[t] EXCEPT !.map = m])
    BY <1>10 DEF Map!Fetch
  <2>2. at[t] = "fetch" /\ ~Map!Finished(t) /\ Map!Entry(t).in[1] # "none"
    BY <1>10 DEF Map!Fetch
  <2>3. Map!Entry(t) \in Entries BY <1>1, <2>2, InHandTyped DEF Map!Entry
  <2>4. Routable(Map!Entry(t)) /\ MapsOK
    BY <1>1, <2>2, InHandTyped DEF Map!Entry, MapTypes, HandsOK, Hand
  <2>5. m \in Seq(Alsa) BY <2>2, <2>3, <2>4, ChangedTyped
  <2>6. QED BY <1>2, <1>4, <2>1, <2>2, <2>5, WorkMap DEF Stages
<1>11. CASE Map!RejectTime(t) \/ Map!Applied(t) BY <1>3, <1>11 DEF Map!RejectTime, Map!Applied
<1>12. QED BY <1>3, <1>5, <1>6, <1>7, <1>8, <1>9, <1>10, <1>11 DEF Map!Request

(* A new POST races with those in hand.                                    *)
LEMMA PostLocks ==
  ASSUME Map!MappingConstants, MapTypes, LockInv, NEW t \in Clients, NEW a \in Actions,
         NEW s \in BOOLEAN, Map!Post(t, a, s), MapTypes'
  PROVE  LockInv'
<1> DEFINE n == Len(posts) + 1
           j == [Map!NoJob EXCEPT !.post = n, !.scheduled = s]
<1>1. /\ posts' = Append(posts, a) /\ Map!Moves(t, "lock", j) /\ activations' = activations
      /\ racing' = IF Map!InHand = {} THEN racing ELSE racing \cup Map!InHand \cup {n}
  BY DEF Map!Post
<1>2. j.post = n /\ j.entry = 1
  BY DEF Map!NoJob
<1> HIDE DEF j
<1>3. /\ at'[t] = "lock" /\ job'[t] = j
      /\ \A u \in Clients : u # t => at'[u] = at[u] /\ job'[u] = job[u]
  BY <1>1 DEF Map!Moves, MapTypes, HandsOK, Map!Threads
<1>4. /\ Len(posts) \in Nat /\ DOMAIN posts = 1..Len(posts) /\ n \notin DOMAIN posts
      /\ \A k \in DOMAIN posts : posts'[k] = posts[k]
      /\ posts'[n] = a
  BY <1>1 DEF MapTypes, PostsOK
<1>5. Map!PendingPosts' = Map!PendingPosts /\ Map!PendingPosts \subseteq DOMAIN posts
  BY <1>1 DEF Map!PendingPosts, MapTypes, PendingOK
<1>6. racing \subseteq racing' BY <1>1
<1>7. Raced'
  <2>1. ASSUME NEW u \in Clients, NEW v \in Clients, u # v,
               job'[u].post # 0, job'[v].post # 0
        PROVE  job'[u].post \in racing'
    <3>1. CASE u = t
      <4>1. job[v].post \in Map!InHand BY <2>1, <3>1, <1>3 DEF Map!InHand
      <4>2. QED BY <4>1, <3>1, <1>1, <1>2, <1>3
    <3>2. CASE v = t
      <4>1. job[u].post \in Map!InHand /\ job'[u] = job[u] BY <2>1, <3>2, <1>3 DEF Map!InHand
      <4>2. QED BY <4>1, <1>1
    <3>3. CASE u # t /\ v # t
      BY <2>1, <3>3, <1>3, <1>6 DEF LockInv, Raced
    <3>4. QED BY <3>1, <3>2, <3>3
  <2>2. QED BY <2>1 DEF Raced
<1>8. Map!LocksExclusive' BY <1>4, <1>5, <1>6, LocksKept DEF LockInv
<1>9. ASSUME NEW u \in Clients, job'[u].post # 0 PROVE Unlocked(u)'
  <2>1. CASE u = t
    <3>1. Map!Action(t)' = a /\ DOMAIN a = 1..Len(a)
      <4>1. Map!Action(t)' = a BY <1>2, <1>3, <1>4 DEF Map!Action
      <4>2. a \in Seq(Entries) BY ActionsTyped
      <4>3. QED BY <4>1, <4>2
    <3>2. QED BY <2>1, <3>1, <1>2, <1>3 DEF Unlocked
  <2>2. CASE u # t
    <3>1. at'[u] = at[u] /\ job'[u] = job[u] BY <2>2, <1>3
    <3>2. Unlocked(u) /\ job[u].post \in DOMAIN posts
      BY <3>1, <1>4, <1>9 DEF LockInv, MapTypes, HandsOK, Hand, Map!Threads
    <3>3. Map!Action(u)' = Map!Action(u) BY <3>1, <3>2, <1>4 DEF Map!Action
    <3>4. \A m \in Map!PendingPosts : posts'[m] = posts[m] BY <1>4, <1>5
    <3>5. QED BY <3>1, <3>2, <3>3, <3>4, <1>5, <1>6 DEF Unlocked, Map!Outputs
  <2>3. QED BY <2>1, <2>2
<1>10. QED BY <1>7, <1>8, <1>9 DEF LockInv

(* An accepted activation holds locks that no other one holds unless the   *)
(* two raced.                                                              *)
LEMMA ScheduleLocks ==
  ASSUME Map!MappingConstants, MapTypes, LockInv, NEW t \in Map!Threads, Map!Schedule(t)
  PROVE  LockInv'
<1> DEFINE n == job[t].post
<1>1. at[t] = "validate" /\ at[t] # "idle" /\ job[t].scheduled BY DEF Map!Schedule
<1>2. n \in DOMAIN posts /\ n # 0 /\ Map!Action(t) = posts[n] /\ Hand(t)
  BY <1>1, InHandTyped DEF MapTypes, HandsOK
<1>3. t \in Clients /\ state[n] = "new" /\ posts[n] \in Actions
  BY <1>1, <1>2 DEF Hand, Map!Threads
<1>4. PICK form \in Map!Canonical(posts[n]) : posts' = [posts EXCEPT ![n] = form]
  BY <1>2 DEF Map!Schedule
<1>5. Map!Outputs(form) \subseteq Map!Outputs(posts[n])
  BY <1>3, ActionsTyped, CanonicalForm
<1>6. /\ Map!Moves(t, "idle", Map!NoJob) /\ racing' = racing
      /\ activations' = [i \in DOMAIN activations \cup {job[t].id} |->
                           IF i = job[t].id THEN n ELSE activations[i]]
  BY DEF Map!Schedule
<1>7. /\ job'[t] = Map!NoJob /\ \A u \in Clients : u # t => at'[u] = at[u] /\ job'[u] = job[u]
  BY <1>6 DEF Map!Moves, MapTypes, HandsOK, Map!Threads
<1>8. posts'[n] = form /\ \A k \in DOMAIN posts : k # n => posts'[k] = posts[k]
  BY <1>2, <1>4
<1>9. Map!PendingPosts' \subseteq Map!PendingPosts \cup {n} BY <1>6 DEF Map!PendingPosts
<1>10. Map!PendingPosts \subseteq DOMAIN posts /\ n \notin Map!PendingPosts
  BY <1>2, <1>3 DEF MapTypes, PendingOK, Map!PendingPosts
<1>11. \A m \in Map!PendingPosts : posts'[m] = posts[m] BY <1>8, <1>10
<1>12. \A m \in Map!PendingPosts :
         ~({m, n} \subseteq racing) => Map!Outputs(posts[n]) \cap Map!Outputs(posts[m]) = {}
  <2>1. Unlocked(t) BY <1>2, <1>3 DEF LockInv
  <2>2. \A m \in Map!PendingPosts, k \in DOMAIN posts[n] :
          ~({m, n} \subseteq racing) => posts[n][k].out \notin Map!Outputs(posts[m])
    BY <2>1, <1>1, <1>2 DEF Unlocked
  <2>3. \A x \in Map!Outputs(posts[n]) : \E k \in DOMAIN posts[n] : x = posts[n][k].out
    BY DEF Map!Outputs
  <2>4. QED BY <2>2, <2>3
<1>13. Raced' BY <1>6, <1>7, NoJobTyped DEF LockInv, Raced
<1> HIDE DEF n
<1>14. Map!LocksExclusive'
  <2>1. ASSUME NEW m \in Map!PendingPosts', NEW k \in Map!PendingPosts', m # k,
               ~({m, k} \subseteq racing)
        PROVE  Map!Outputs(posts'[m]) \cap Map!Outputs(posts'[k]) = {}
    <3>1. CASE m = n
      <4>1. k \in Map!PendingPosts BY <2>1, <3>1, <1>9
      <4>2. Map!Outputs(posts[n]) \cap Map!Outputs(posts[k]) = {} BY <4>1, <3>1, <2>1, <1>12
      <4>3. posts'[m] = form /\ posts'[k] = posts[k] BY <4>1, <3>1, <1>8, <1>11
      <4>4. QED BY <4>2, <4>3, <1>5
    <3>2. CASE k = n
      <4>1. m \in Map!PendingPosts BY <2>1, <3>2, <1>9
      <4>2. Map!Outputs(posts[n]) \cap Map!Outputs(posts[m]) = {} BY <4>1, <3>2, <2>1, <1>12
      <4>3. posts'[k] = form /\ posts'[m] = posts[m] BY <4>1, <3>2, <1>8, <1>11
      <4>4. QED BY <4>2, <4>3, <1>5
    <3>3. CASE m # n /\ k # n
      <4>1. m \in Map!PendingPosts /\ k \in Map!PendingPosts BY <2>1, <3>3, <1>9
      <4>2. posts'[m] = posts[m] /\ posts'[k] = posts[k] BY <4>1, <1>11
      <4>3. QED BY <4>1, <4>2, <2>1 DEF LockInv, Map!LocksExclusive
    <3>4. QED BY <3>1, <3>2, <3>3
  <2>2. QED BY <2>1, <1>6 DEF Map!LocksExclusive, Map!Outputs
<1>15. ASSUME NEW u \in Clients, job'[u].post # 0 PROVE Unlocked(u)'
  <2>1. u # t BY <1>7, <1>15, NoJobTyped
  <2>2. at'[u] = at[u] /\ job'[u] = job[u] BY <2>1, <1>7
  <2>3. Unlocked(u) /\ job[u].post # 0 BY <2>2, <1>15 DEF LockInv
  <2>4. job[u].post \in DOMAIN posts
    BY <2>3 DEF MapTypes, HandsOK, Hand, PostsOK, Map!Threads
  <2>5. job[u].post # n
    BY <2>1, <2>3, <1>3 DEF MapTypes, HandsOK, Distinct, n
  <2>6. {n, job[u].post} \subseteq racing
    BY <2>1, <2>3, <1>2, <1>3 DEF LockInv, Raced, n
  <2>7. Map!Action(u)' = Map!Action(u) BY <2>2, <2>4, <2>5, <1>8 DEF Map!Action
  <2>8. QED BY <2>2, <2>3, <2>6, <2>7, <1>6, <1>9, <1>11 DEF Unlocked, Map!Outputs
<1>16. QED BY <1>13, <1>14, <1>15 DEF LockInv

(* Activations leave the table.                                            *)
LEMMA FewerLocks ==
  ASSUME MapTypes, LockInv, UNCHANGED <<at, job, posts, racing>>,
         Map!PendingPosts' \subseteq Map!PendingPosts
  PROVE  LockInv'
<1>1. Raced' BY DEF LockInv, Raced
<1>2. Map!LocksExclusive' BY LocksKept DEF LockInv
<1>3. ASSUME NEW u \in Clients, job'[u].post # 0 PROVE Unlocked(u)'
  <2>1. Unlocked(u) /\ Map!Action(u)' = Map!Action(u) BY <1>3 DEF LockInv, Map!Action
  <2>2. QED BY <2>1 DEF Unlocked, Map!Outputs
<1>4. QED BY <1>1, <1>2, <1>3 DEF LockInv

LEMMA WorkerLocks ==
  ASSUME Map!MappingConstants, MapTypes, LockInv,
         \/ \E id \in DOMAIN activations : Map!Delete(id)
         \/ \E S \in SUBSET DOMAIN activations : Map!TakeDue(S)
         \/ Map!Fire
  PROVE  LockInv'
<1>1. CASE \E id \in DOMAIN activations : Map!Delete(id)
  <2>1. PICK id \in DOMAIN activations : Map!Delete(id) BY <1>1
  <2>2. Map!PendingPosts' \subseteq Map!PendingPosts /\ UNCHANGED <<at, job, posts, racing>>
    BY <2>1 DEF Map!Delete, Map!PendingPosts
  <2>3. QED BY <2>2, FewerLocks
<1>2. CASE \E S \in SUBSET DOMAIN activations : Map!TakeDue(S)
  <2>1. PICK S \in SUBSET DOMAIN activations : Map!TakeDue(S) BY <1>2
  <2>2. Map!PendingPosts' \subseteq Map!PendingPosts /\ UNCHANGED <<at, job, posts, racing>>
    BY <2>1 DEF Map!TakeDue, Map!PendingPosts
  <2>3. QED BY <2>2, FewerLocks
<1>3. CASE Map!Fire
  <2> DEFINE j == [Map!NoJob EXCEPT !.post = Head(due)]
  <2>1. /\ Map!Moves(Worker, "validate", j) /\ UNCHANGED <<activations, posts, racing>>
        /\ due # <<>>
    BY <1>3 DEF Map!Fire
  <2>2. Head(due) \in Nat BY <2>1 DEF MapTypes, DueOK
  <2>3. j \in Works BY <2>2, NoJobTyped, WorkPost
  <2> HIDE DEF j
  <2>4. Worker \in Map!Threads /\ Worker \notin Clients
    BY DEF Map!Threads, Map!MappingConstants
  <2>5. QED BY <2>1, <2>3, <2>4, MoveKeepsLocks DEF Stages
<1>4. QED BY <1>1, <1>2, <1>3

-----------------------------------------------------------------------------
(* The application of an activation nobody comes between.                  *)

LEMMA UndisturbedKept ==
  ASSUME MapTypes, NEW u \in Map!Threads, Undisturbed(u), UNCHANGED <<source, sink>>,
         at'[u] = at[u], job'[u] = job[u],
         at[u] # "idle" => posts'[job[u].post] = posts[job[u].post]
  PROVE  Undisturbed(u)'
<1>1. CASE at[u] = "idle" BY <1>1 DEF Undisturbed
<1>2. CASE at[u] # "idle"
  <2>1. Map!Action(u)' = Map!Action(u) BY <1>2 DEF Map!Action
  <2>2. Map!Entry(u)' = Map!Entry(u) BY <2>1 DEF Map!Entry
  <2>3. \A e : /\ Map!Valid(e)' = Map!Valid(e) /\ Map!InPlace(e)' = Map!InPlace(e)
               /\ Map!Changed(e)' = Map!Changed(e) /\ (Map!Vanished(e)' <=> Map!Vanished(e))
    BY DEF Map!Valid, Map!InPlace, Map!Changed, Map!Vanished
  <2>4. \A k : (Settled(u, k)' <=> Settled(u, k)) /\ (Lost(u, k)' <=> Lost(u, k))
    BY <2>1, <2>3 DEF Settled, Lost, Map!Supersedes
  <2>5. QED BY <2>1, <2>2, <2>3, <2>4 DEF Undisturbed
<1>3. QED BY <1>1, <1>2

(* A thread moves on; the streams stay as they are.                        *)
LEMMA MoveKeepsApplied ==
  ASSUME MapTypes, ApplyInv, NEW t \in Map!Threads, NEW p \in Stages, NEW j \in Works,
         Map!Moves(t, p, j), UNCHANGED <<source, sink, posts>>,
         alone' \subseteq alone \cup {t}, t \in alone' => Undisturbed(t)'
  PROVE  ApplyInv'
<1>1. ASSUME NEW u \in alone', u # t PROVE Undisturbed(u)'
  <2>1. u \in alone /\ u \in Map!Threads BY <1>1 DEF MapTypes, MapsOK
  <2>2. at'[u] = at[u] /\ job'[u] = job[u] BY <2>1, <1>1, MapMoved DEF MapTypes, HandsOK
  <2>3. Undisturbed(u) BY <2>1 DEF ApplyInv
  <2>4. QED BY <2>1, <2>2, <2>3, UndisturbedKept
<1>2. QED BY <1>1 DEF ApplyInv

LEMMA IdleUndisturbed ==
  ASSUME NEW t, at'[t] \in {"idle", "lock", "number"} PROVE Undisturbed(t)'
BY DEF Undisturbed

(* The steps that leave the streams alone.                                 *)
LEMMA LookingApplied ==
  ASSUME Map!MappingConstants, MapTypes, ApplyInv, NEW t \in Map!Threads,
         Map!CheckLock(t) \/ Map!ReadCounter(t) \/ Map!WriteCounter(t) \/ Map!Validate(t)
         \/ Map!RejectTime(t) \/ Map!BeginApply(t) \/ Map!Applied(t)
  PROVE  ApplyInv'
<1>1. at[t] # "idle" /\ UNCHANGED <<source, sink, posts>> /\ alone' \subseteq alone \cup {t}
  BY DEF Map!CheckLock, Map!ReadCounter, Map!WriteCounter, Map!Validate, Map!RejectTime,
         Map!BeginApply, Map!Applied
<1>2. /\ job[t] \in Works /\ job[t].post # 0 /\ job[t].entry \in Nat \ {0}
      /\ DOMAIN Map!Action(t) = 1..Len(Map!Action(t)) /\ Len(Map!Action(t)) \in Nat
  BY <1>1, InHandTyped DEF Works
<1>3. CASE Map!Moves(t, "idle", Map!NoJob)
  <2>1. at'[t] = "idle" BY <1>3, NoJobTyped, MapMoved DEF MapTypes, HandsOK, Stages
  <2>2. QED BY <1>1, <1>3, <2>1, NoJobTyped, IdleUndisturbed, MoveKeepsApplied DEF Stages
<1>4. ASSUME NEW p \in {"lock", "number"}, NEW j \in Works, Map!Moves(t, p, j)
      PROVE  ApplyInv'
  <2>1. at'[t] = p BY <1>4, MapMoved DEF MapTypes, HandsOK, Stages
  <2>2. QED BY <1>1, <1>4, <2>1, IdleUndisturbed, MoveKeepsApplied DEF Stages
<1>5. CASE Map!CheckLock(t) /\ ~Map!Moves(t, "idle", Map!NoJob)
  <2>1. job[t].entry + 1 \in Nat \ {0} BY <1>2
  <2>2. QED BY <1>2, <1>4, <1>5, <2>1, WorkEntry DEF Map!CheckLock
<1>6. CASE Map!ReadCounter(t)
  <2>1. counter + 1 \in Nat BY DEF MapTypes, MapsOK
  <2>2. QED BY <1>2, <1>4, <1>6, <2>1, WorkId DEF Map!ReadCounter
<1>7. CASE Map!WriteCounter(t)
  <2> DEFINE j == [job[t] EXCEPT !.entry = 1]
  <2>1. Map!Moves(t, "validate", j) BY <1>7 DEF Map!WriteCounter
  <2>2. j \in Works /\ j.post = job[t].post /\ j.entry = 1
    <3>1. 1 \in Nat \ {0} OBVIOUS
    <3>2. QED BY <1>2, <3>1, WorkEntry
  <2> HIDE DEF j
  <2>3. at'[t] = "validate" /\ job'[t] = j
    BY <2>1, <2>2, MapMoved DEF MapTypes, HandsOK, Stages
  <2>4. Map!Action(t)' = Map!Action(t) BY <1>1, <2>2, <2>3 DEF Map!Action
  <2>5. Undisturbed(t)' BY <1>2, <2>2, <2>3, <2>4 DEF Undisturbed
  <2>6. QED BY <1>1, <2>1, <2>2, <2>5, MoveKeepsApplied DEF Stages
<1>8. CASE Map!Validate(t) /\ ~Map!Moves(t, "idle", Map!NoJob)
  <2> DEFINE j == [job[t] EXCEPT !.entry = job[t].entry + 1]
  <2>1. /\ at[t] = "validate" /\ Map!Moves(t, "validate", j) /\ Map!Valid(Map!Entry(t))
        /\ alone' = alone
    BY <1>8 DEF Map!Validate
  <2>2. j \in Works /\ j.post = job[t].post /\ j.entry = job[t].entry + 1
    <3>1. job[t].entry + 1 \in Nat \ {0} BY <1>2
    <3>2. QED BY <1>2, <3>1, WorkEntry
  <2> HIDE DEF j
  <2>3. at'[t] = "validate" /\ job'[t] = j
    BY <2>1, <2>2, MapMoved DEF MapTypes, HandsOK, Stages
  <2>4. Map!Action(t)' = Map!Action(t) BY <1>1, <2>2, <2>3 DEF Map!Action
  <2>5. ASSUME t \in alone' PROVE Undisturbed(t)'
    <3>1. Undisturbed(t) BY <2>1, <2>5 DEF ApplyInv
    <3>2. ASSUME NEW k \in DOMAIN Map!Action(t), k < j.entry PROVE Map!Valid(Map!Action(t)[k])
      <4>1. k < job[t].entry \/ k = job[t].entry BY <3>2, <2>2, <1>2
      <4>2. QED BY <4>1, <3>1, <2>1 DEF Undisturbed, Map!Entry
    <3>3. \A e : Map!Valid(e)' = Map!Valid(e) BY <1>1 DEF Map!Valid
    <3>4. QED BY <2>3, <2>4, <3>2, <3>3 DEF Undisturbed
  <2>6. QED BY <1>1, <2>1, <2>2, <2>5, MoveKeepsApplied DEF Stages
<1>9. CASE Map!BeginApply(t)
  <2> DEFINE j == [job[t] EXCEPT !.entry = 1]
  <2>1. at[t] = "validate" /\ Map!Finished(t) /\ Map!Moves(t, "fetch", j) /\ alone' = alone
    BY <1>9 DEF Map!BeginApply
  <2>2. j \in Works /\ j.post = job[t].post /\ j.entry = 1
    <3>1. 1 \in Nat \ {0} OBVIOUS
    <3>2. QED BY <1>2, <3>1, WorkEntry
  <2> HIDE DEF j
  <2>3. at'[t] = "fetch" /\ job'[t] = j
    BY <2>1, <2>2, MapMoved DEF MapTypes, HandsOK, Stages
  <2>4. Map!Action(t)' = Map!Action(t) BY <1>1, <2>2, <2>3 DEF Map!Action
  <2>5. ASSUME t \in alone' PROVE Undisturbed(t)'
    <3>1. Undisturbed(t) BY <2>1, <2>5 DEF ApplyInv
    <3>2. \A k \in DOMAIN Map!Action(t) : k < job[t].entry BY <1>2, <2>1 DEF Map!Finished
    <3>3. \A e : Map!Valid(e)' = Map!Valid(e) BY <1>1 DEF Map!Valid
    <3>4. \A k \in DOMAIN Map!Action(t) : Map!Valid(Map!Action(t)[k])' /\ ~(k < j.entry)
      BY <1>2, <2>1, <2>2, <3>1, <3>2, <3>3, <2>4 DEF Undisturbed
    <3>5. QED BY <2>3, <2>4, <3>4 DEF Undisturbed
  <2>6. QED BY <1>1, <2>1, <2>2, <2>5, MoveKeepsApplied DEF Stages
<1>10. CASE Map!RejectTime(t) \/ Map!Applied(t) BY <1>3, <1>10 DEF Map!RejectTime, Map!Applied
<1>11. QED BY <1>3, <1>5, <1>6, <1>7, <1>8, <1>9, <1>10

(* What an entry does when it is valid: it is in place afterwards, what    *)
(* was valid is valid, and what was in place is unless it is superseded.   *)
LEMMA StoreEffect ==
  ASSUME Map!MappingConstants, MapsOK, NEW e \in Entries, Map!Valid(e), e.in[1] # "none",
         NEW m \in Map!Changed(e), Map!Assign(e, m)
  PROVE  /\ Map!InPlace(e)'
         /\ \A f \in Entries : Map!Valid(f) =>
              Map!Valid(f)' /\ (Map!InPlace(f) => Map!InPlace(f)' \/ Map!Supersedes(e, f))
         /\ \A f \in Entries : Map!Vanished(f) => Map!Vanished(f)'
<1>1. CASE e.out[1] = "alsa"
  <2> DEFINE x == e.in[2]
             i == e.ich
             v == e.out[2]
  <2>1. /\ e.in[1] = "sink" /\ x \in Sinks /\ i \in DOMAIN sink[x] /\ e.in = <<"sink", x>>
        /\ sink[x] \in Seq(Alsa)
    BY <1>1, EntryKinds DEF Map!Valid, MapsOK
  <2>2. m = [sink[x] EXCEPT ![i] = v] BY <1>1, <2>1 DEF Map!Changed, Map!Write
  <2>3. source' = source /\ sink' = [sink EXCEPT ![x] = m] BY <1>1 DEF Map!Assign
  <2>4. /\ DOMAIN m = DOMAIN sink[x] /\ m[i] = v /\ \A k \in DOMAIN m : k # i => m[k] = sink[x][k]
    BY <2>1, <2>2
  <2>5. sink'[x] = m /\ \A s \in Sinks : s # x => sink'[s] = sink[s]
    BY <2>1, <2>3 DEF MapsOK
  <2> HIDE DEF x, i, v
  <2>6. Map!InPlace(e)' BY <1>1, <2>1, <2>4, <2>5 DEF Map!InPlace, x, i, v
  <2>7. \A s \in Sinks : DOMAIN sink'[s] = DOMAIN sink[s] BY <2>4, <2>5
  <2>8. ASSUME NEW f \in Entries, Map!Valid(f)
        PROVE  Map!Valid(f)' /\ (Map!InPlace(f) => Map!InPlace(f)' \/ Map!Supersedes(e, f))
    <3>1. f.in[1] = "sink" => f.in[2] \in Sinks /\ f.in = <<"sink", f.in[2]>>
      BY EntryKinds
    <3>2. Map!Valid(f)' BY <2>3, <2>7, <2>8, <3>1 DEF Map!Valid
    <3>3. ASSUME Map!InPlace(f), ~Map!Supersedes(e, f) PROVE Map!InPlace(f)'
      <4>1. f.in[1] = "sink" => sink'[f.in[2]][f.ich] = sink[f.in[2]][f.ich]
        <5>1. SUFFICES ASSUME f.in[1] = "sink"
                       PROVE sink'[f.in[2]][f.ich] = sink[f.in[2]][f.ich]
          OBVIOUS
        <5>2. f.ich \in DOMAIN sink[f.in[2]] BY <5>1, <2>8 DEF Map!Valid
        <5>3. CASE f.in[2] # x BY <5>1, <5>3, <3>1, <2>5
        <5>4. CASE f.in[2] = x
          <6>1. f.in = e.in BY <5>1, <5>4, <3>1, <2>1
          <6>2. f.ich # i BY <6>1, <3>3, <1>1 DEF Map!Supersedes, i
          <6>3. QED BY <5>2, <5>4, <6>2, <2>4, <2>5
        <5>5. QED BY <5>3, <5>4
      <4>2. f.in[1] \in {"none", "sink", "alsa"} /\ (f.out[1] = "alsa" => f.in[1] # "alsa")
        BY <2>8, EntryKinds DEF Map!Valid
      <4>3. QED BY <4>1, <4>2, <3>3, <2>3 DEF Map!InPlace
    <3>4. QED BY <3>2, <3>3
  <2>9. ASSUME NEW f \in Entries, Map!Vanished(f) PROVE Map!Vanished(f)'
    <3>1. sink[x] # <<>> BY <2>1
    <3>2. f.in[1] = "sink" => f.in[2] \in Sinks BY EntryKinds
    <3>3. QED BY <2>3, <2>5, <2>9, <3>1, <3>2 DEF Map!Vanished
  <2>10. QED BY <2>6, <2>8, <2>9
<1>2. CASE e.out[1] = "sender"
  <2> DEFINE x == e.out[2]
             i == e.ch
             v == IF e.in[1] = "alsa" THEN e.in[2] ELSE sink[e.in[2]][e.ich]
  <2>1. /\ x \in Sources /\ i \in DOMAIN source[x] /\ e.out = <<"sender", x>>
        /\ source[x] \in Seq(Alsa)
    BY <1>2, EntryKinds DEF Map!Valid, MapsOK
  <2>2. m = [source[x] EXCEPT ![i] = v]
    <3>1. CASE e.in[1] = "alsa" BY <1>2, <2>1, <3>1 DEF Map!Changed, Map!Write
    <3>2. CASE e.in[1] = "sink"
      <4>1. e.ich \in DOMAIN sink[e.in[2]] BY <3>2 DEF Map!Valid
      <4>2. Map!Read(sink[e.in[2]], e.ich) = {v} BY <3>2, <4>1 DEF Map!Read
      <4>3. QED BY <1>2, <2>1, <3>2, <4>2 DEF Map!Changed, Map!Write
    <3>3. QED BY <3>1, <3>2, EntryKinds
  <2>3. sink' = sink /\ source' = [source EXCEPT ![x] = m] BY <1>2 DEF Map!Assign
  <2>4. /\ DOMAIN m = DOMAIN source[x] /\ m[i] = v
        /\ \A k \in DOMAIN m : k # i => m[k] = source[x][k]
    BY <2>1, <2>2
  <2>5. source'[x] = m /\ \A s \in Sources : s # x => source'[s] = source[s]
    BY <2>1, <2>3 DEF MapsOK
  <2>6. Map!InPlace(e)' BY <1>2, <2>3, <2>4, <2>5 DEF Map!InPlace
  <2> HIDE DEF x, i, v
  <2>7. \A s \in Sources : DOMAIN source'[s] = DOMAIN source[s] BY <2>4, <2>5
  <2>8. ASSUME NEW f \in Entries, Map!Valid(f)
        PROVE  Map!Valid(f)' /\ (Map!InPlace(f) => Map!InPlace(f)' \/ Map!Supersedes(e, f))
    <3>1. f.out[1] = "sender" => f.out[2] \in Sources /\ f.out = <<"sender", f.out[2]>>
      BY EntryKinds
    <3>2. Map!Valid(f)' BY <2>3, <2>7, <2>8, <3>1 DEF Map!Valid
    <3>3. ASSUME Map!InPlace(f), ~Map!Supersedes(e, f) PROVE Map!InPlace(f)'
      <4>1. f.out[1] = "sender" => source'[f.out[2]][f.ch] = source[f.out[2]][f.ch]
        <5>1. SUFFICES ASSUME f.out[1] = "sender"
                       PROVE source'[f.out[2]][f.ch] = source[f.out[2]][f.ch]
          OBVIOUS
        <5>2. f.ch \in DOMAIN source[f.out[2]] BY <5>1, <2>8 DEF Map!Valid
        <5>3. CASE f.out[2] # x BY <5>1, <5>3, <3>1, <2>5
        <5>4. CASE f.out[2] = x
          <6>1. f.out = e.out BY <5>1, <5>4, <3>1, <2>1
          <6>2. f.ch # i BY <6>1, <3>3 DEF Map!Supersedes, i
          <6>3. QED BY <5>2, <5>4, <6>2, <2>4, <2>5
        <5>5. QED BY <5>3, <5>4
      <4>2. QED BY <4>1, <3>3, <2>3 DEF Map!InPlace
    <3>4. QED BY <3>2, <3>3
  <2>9. ASSUME NEW f \in Entries, Map!Vanished(f) PROVE Map!Vanished(f)'
    <3>1. source[x] # <<>> BY <2>1
    <3>2. f.out[1] = "sender" => f.out[2] \in Sources BY EntryKinds
    <3>3. QED BY <2>3, <2>5, <2>9, <3>1, <3>2 DEF Map!Vanished
  <2>10. QED BY <2>6, <2>8, <2>9
<1>3. QED BY <1>1, <1>2, EntryKinds

(* A refusal of the driver costs the stream of the entry and no other.     *)
LEMMA RefusalEffect ==
  ASSUME Map!MappingConstants, MapsOK, NEW e \in Entries, Map!Valid(e), e.in[1] # "none",
         Map!Assign(e, <<>>)
  PROVE  /\ \A f \in Entries : Map!Valid(f) =>
              \/ Map!Vanished(f)'
              \/ Map!Valid(f)' /\ (Map!InPlace(f) => Map!InPlace(f)')
         /\ \A f \in Entries : Map!Vanished(f) => Map!Vanished(f)'
<1>1. CASE e.out[1] = "alsa"
  <2>1. PICK x \in Sinks : x = e.in[2]
    BY <1>1, EntryKinds DEF Map!Valid
  <2>2. source' = source /\ sink' = [sink EXCEPT ![x] = <<>>] BY <1>1, <2>1 DEF Map!Assign
  <2>3. sink'[x] = <<>> /\ \A y \in Sinks : y # x => sink'[y] = sink[y]
    BY <2>2 DEF MapsOK
  <2>4. ASSUME NEW f \in Entries
        PROVE  /\ Map!Vanished(f) => Map!Vanished(f)'
               /\ Map!Valid(f) => Map!Vanished(f)' \/
                    (Map!Valid(f)' /\ (Map!InPlace(f) => Map!InPlace(f)'))
    <3>1. f.in[1] = "sink" => f.in[2] \in Sinks BY EntryKinds
    <3>2. CASE f.in[1] = "sink" /\ f.in[2] = x BY <2>3, <3>2 DEF Map!Vanished
    <3>3. CASE f.in[1] = "sink" /\ f.in[2] # x
      <4>1. sink'[f.in[2]] = sink[f.in[2]] BY <2>3, <3>1, <3>3
      <4>2. QED BY <2>2, <3>3, <4>1 DEF Map!Vanished, Map!Valid, Map!InPlace
    <3>4. CASE f.in[1] # "sink"
      <4>1. f.in[1] \in {"none", "alsa"} BY <3>4, EntryKinds
      <4>2. Map!Vanished(f) => Map!Vanished(f)' BY <2>2, <3>4 DEF Map!Vanished
      <4>3. Map!Valid(f) => Map!Valid(f)' BY <2>2, <3>4 DEF Map!Valid
      <4>4. Map!Valid(f) /\ Map!InPlace(f) => Map!InPlace(f)'
        BY <2>2, <4>1 DEF Map!Valid, Map!InPlace
      <4>5. QED BY <4>2, <4>3, <4>4
    <3>5. QED BY <3>2, <3>3, <3>4
  <2>5. QED BY <2>4
<1>2. CASE e.out[1] = "sender"
  <2>1. PICK x \in Sources : x = e.out[2] BY <1>2, EntryKinds
  <2>2. sink' = sink /\ source' = [source EXCEPT ![x] = <<>>] BY <1>2, <2>1 DEF Map!Assign
  <2>3. source'[x] = <<>> /\ \A y \in Sources : y # x => source'[y] = source[y]
    BY <2>2 DEF MapsOK
  <2>4. ASSUME NEW f \in Entries
        PROVE  /\ Map!Vanished(f) => Map!Vanished(f)'
               /\ Map!Valid(f) => Map!Vanished(f)' \/
                    (Map!Valid(f)' /\ (Map!InPlace(f) => Map!InPlace(f)'))
    <3>1. f.out[1] = "sender" => f.out[2] \in Sources BY EntryKinds
    <3>2. CASE f.out[1] = "sender" /\ f.out[2] = x BY <2>3, <3>2 DEF Map!Vanished
    <3>3. CASE f.out[1] = "sender" /\ f.out[2] # x
      <4>1. source'[f.out[2]] = source[f.out[2]] BY <2>3, <3>1, <3>3
      <4>2. QED BY <2>2, <3>3, <4>1 DEF Map!Vanished, Map!Valid, Map!InPlace
    <3>4. CASE f.out[1] # "sender"
      BY <2>2, <3>4 DEF Map!Vanished, Map!Valid, Map!InPlace
    <3>5. QED BY <3>2, <3>3, <3>4
  <2>5. QED BY <2>4
<1>3. QED BY <1>1, <1>2, EntryKinds

(* The next entry, once this one is in place, has failed or was lost.      *)
LEMMA NextUndisturbed ==
  ASSUME MapTypes, NEW t \in Map!Threads, at[t] \in {"fetch", "store"},
         job[t].entry \in DOMAIN Map!Action(t), Undisturbed(t),
         at'[t] = "fetch", posts' = posts, NEW fs, job'[t].failed = fs,
         job'[t].entry = job[t].entry + 1, job'[t].post = job[t].post,
         job[t].failed \subseteq fs, NEW e \in Entries, e = Map!Entry(t),
         Map!InPlace(e)' \/ job[t].entry \in fs \/ (fs # {} /\ Map!Vanished(e)'),
         \A f \in Entries : Map!Vanished(f) => Map!Vanished(f)',
         \A f \in Entries : Map!Valid(f) =>
           \/ fs # {} /\ Map!Vanished(f)'
           \/ Map!Valid(f)' /\ (Map!InPlace(f) => Map!InPlace(f)' \/ Map!Supersedes(e, f))
  PROVE  Undisturbed(t)'
<1>1. PICK a : a = Map!Action(t) OBVIOUS
<1>2. PICK n : n = job[t].entry OBVIOUS
<1>3. /\ job[t] \in Works /\ n \in Nat \ {0} /\ DOMAIN a = 1..Len(a) /\ Len(a) \in Nat
      /\ \A k \in DOMAIN a : a[k] \in Entries
  BY <1>1, <1>2, InHandTyped DEF Works
<1>4. job'[t].entry = n + 1 /\ job'[t].post = job[t].post BY <1>2
<1>5. Map!Action(t)' = a BY <1>1, <1>4 DEF Map!Action
<1>6. e = a[n] /\ n \in DOMAIN a BY <1>1, <1>2 DEF Map!Entry
<1>7. ASSUME NEW k \in DOMAIN a
      PROVE  Map!Valid(a[k]) \/ (fs # {} /\ Map!Vanished(a[k])')
  <2>1. Map!Valid(a[k]) \/ Lost(t, k) BY <1>1, <1>7 DEF Undisturbed
  <2>2. Lost(t, k) => job[t].failed # {} /\ Map!Vanished(a[k]) BY <1>1 DEF Lost
  <2>3. QED BY <2>1, <2>2, <1>3, <1>7
<1>8. \A k \in DOMAIN a : Map!Valid(a[k])' \/ (fs # {} /\ Map!Vanished(a[k])')
  BY <1>3, <1>7
<1>9. ASSUME NEW k \in DOMAIN a, k < n + 1
      PROVE  \/ k \in fs \/ (fs # {} /\ Map!Vanished(a[k])') \/ Map!InPlace(a[k])'
             \/ \E m \in DOMAIN a : k < m /\ m < n + 1 /\ Map!Supersedes(a[m], a[k])
  <2>1. CASE k = n BY <2>1, <1>2, <1>6
  <2>2. CASE k < n
    <3>1. Settled(t, k) BY <2>2, <1>1, <1>2, <1>9 DEF Undisturbed
    <3>2. \/ k \in job[t].failed \/ (job[t].failed # {} /\ Map!Vanished(a[k]))
          \/ Map!InPlace(a[k])
          \/ \E m \in DOMAIN a : k < m /\ m < n /\ Map!Supersedes(a[m], a[k])
      BY <3>1, <1>1, <1>2 DEF Settled, Lost
    <3>3. CASE k \in job[t].failed BY <3>3
    <3>4. CASE job[t].failed # {} /\ Map!Vanished(a[k]) BY <3>4, <1>3, <1>9
    <3>5. CASE Map!InPlace(a[k])
      <4>1. \/ fs # {} /\ Map!Vanished(a[k])'
            \/ Map!InPlace(a[k])' \/ Map!Supersedes(a[n], a[k])
        BY <3>5, <1>3, <1>6, <1>7, <1>9
      <4>2. n < n + 1 BY <1>3
      <4>3. QED BY <4>1, <4>2, <2>2, <1>6
    <3>6. CASE \E m \in DOMAIN a : k < m /\ m < n /\ Map!Supersedes(a[m], a[k])
      <4>1. PICK m \in DOMAIN a : k < m /\ m < n /\ Map!Supersedes(a[m], a[k]) BY <3>6
      <4>2. m < n + 1 BY <1>3, <4>1
      <4>3. QED BY <4>1, <4>2
    <3>7. QED BY <3>2, <3>3, <3>4, <3>5, <3>6
  <2>3. QED BY <2>1, <2>2, <1>3, <1>9
<1>10. \A k \in DOMAIN a : k < n + 1 => Settled(t, k)'
  <2>1. ASSUME NEW k \in DOMAIN a, k < n + 1 PROVE Settled(t, k)'
    <3>1. CASE Map!InPlace(a[k])'
      <4>1. Map!InPlace(Map!Action(t)[k])' BY <3>1, <1>5 DEF Map!InPlace
      <4>2. QED BY <4>1 DEF Settled
    <3>2. CASE \E m \in DOMAIN a : k < m /\ m < n + 1 /\ Map!Supersedes(a[m], a[k])
      BY <3>2, <1>4, <1>5 DEF Settled, Map!Supersedes
    <3>3. CASE k \in fs BY <3>3 DEF Settled
    <3>4. CASE fs # {} /\ Map!Vanished(a[k])'
      <4>1. Map!Vanished(Map!Action(t)[k])' BY <3>4, <1>5 DEF Map!Vanished
      <4>2. QED BY <4>1, <3>4 DEF Settled, Lost
    <3>5. QED BY <3>1, <3>2, <3>3, <3>4, <2>1, <1>9
  <2>2. QED BY <2>1
<1>11. \A k \in DOMAIN a : Map!Valid(Map!Action(t)[k])' \/ Lost(t, k)'
  <2>1. \A k \in DOMAIN a : Map!Valid(a[k])' => Map!Valid(Map!Action(t)[k])'
    BY <1>5 DEF Map!Valid
  <2>2. \A k \in DOMAIN a : fs # {} /\ Map!Vanished(a[k])' => Lost(t, k)'
    BY <1>5 DEF Map!Vanished, Lost
  <2>3. QED BY <1>8, <2>1, <2>2
<1>12. QED BY <1>4, <1>5, <1>10, <1>11 DEF Undisturbed

(* The streams of a valid entry are there.                                 *)
LEMMA ValidStands == ASSUME NEW e, Map!Valid(e) PROVE ~Map!Vanished(e)
BY DEF Map!Valid, Map!Vanished

(* Reading and writing back one entry.                                     *)
LEMMA EntryApplied ==
  ASSUME Map!MappingConstants, MapTypes, ApplyInv, NEW t \in Map!Threads,
         Map!Skip(t) \/ Map!Fetch(t) \/ Map!Store(t) \/ Map!StoreRefused(t)
  PROVE  ApplyInv'
<1>1. at[t] \in {"fetch", "store"} /\ at[t] # "idle" /\ posts' = posts
  BY DEF Map!Skip, Map!Fetch, Map!Store, Map!StoreRefused
<1>2. job[t].entry \in DOMAIN Map!Action(t)
  BY <1>1, InHandTyped DEF MapTypes, HandsOK, Hand,
     Map!Skip, Map!Fetch, Map!Store, Map!StoreRefused
<1>3. PICK e \in Entries : e = Map!Entry(t) BY <1>1, <1>2, InHandTyped DEF Map!Entry
<1>4. /\ job[t] \in Works /\ Map!NextEntry(job[t]) \in Works /\ MapsOK /\ Hand(t)
      /\ Map!NextEntry(job[t]).post = job[t].post
  BY <1>1, InHandTyped, WorkNext DEF MapTypes, HandsOK
<1>5. CASE Map!Skip(t)
  <2>1. /\ Map!Vanished(e) \/ e.in[1] = "none"
        /\ Map!Moves(t, "fetch", Map!NextEntry(job[t])) /\ UNCHANGED <<source, sink, alone>>
    BY <1>3, <1>5 DEF Map!Skip
  <2>2. at'[t] = "fetch" /\ job'[t] = Map!NextEntry(job[t])
    BY <2>1, <1>4, MapMoved DEF MapTypes, HandsOK, Stages
  <2>3. ASSUME t \in alone PROVE Undisturbed(t)'
    <3>1. Undisturbed(t) BY <2>3 DEF ApplyInv
    <3>2. Map!Valid(e) \/ (job[t].failed # {} /\ Map!Vanished(e))
      <4>1. Map!Valid(e) \/ Lost(t, job[t].entry)
        BY <3>1, <1>1, <1>2, <1>3 DEF Undisturbed, Map!Entry
      <4>2. Lost(t, job[t].entry) => job[t].failed # {} /\ Map!Vanished(e)
        BY <1>3 DEF Lost, Map!Entry
      <4>3. QED BY <4>1, <4>2
    <3>3. e.in[1] = "none" \/ (job[t].failed # {} /\ Map!Vanished(e))
      BY <2>1, <3>2, ValidStands
    <3>4. e.in[1] = "none" => Map!InPlace(e)' BY DEF Map!InPlace
    <3>5. \A f \in Entries : /\ Map!Valid(f)' = Map!Valid(f) /\ Map!InPlace(f)' = Map!InPlace(f)
                             /\ (Map!Vanished(f)' <=> Map!Vanished(f))
      BY <2>1 DEF Map!Valid, Map!InPlace, Map!Vanished
    <3>6. PICK fs : fs = job[t].failed OBVIOUS
    <3>7. /\ job'[t].failed = fs /\ job'[t].entry = job[t].entry + 1
          /\ job'[t].post = job[t].post
      BY <2>2, <1>4, <3>6, WorkNext
    <3>8. Map!InPlace(e)' \/ (fs # {} /\ Map!Vanished(e)') BY <3>3, <3>4, <3>5, <3>6
    <3>9. QED BY <1>1, <1>2, <1>3, <2>2, <3>1, <3>5, <3>6, <3>7, <3>8, NextUndisturbed
  <2>4. QED BY <1>1, <1>4, <2>1, <2>3, MoveKeepsApplied DEF Stages
<1>6. CASE Map!Fetch(t)
  <2>1. PICK m \in Map!Changed(e) : Map!Moves(t, "store", [job[t] EXCEPT !.map = m])
    BY <1>3, <1>6 DEF Map!Fetch
  <2>2. at[t] = "fetch" /\ e.in[1] # "none" /\ UNCHANGED <<source, sink, alone>>
    BY <1>3, <1>6 DEF Map!Fetch
  <2>3. Routable(e) BY <1>2, <1>3, <1>4, <2>2 DEF Hand, Map!Entry
  <2>4. m \in Seq(Alsa) BY <1>4, <2>2, <2>3, ChangedTyped
  <2> DEFINE j == [job[t] EXCEPT !.map = m]
  <2>5. /\ j \in Works /\ j.post = job[t].post /\ j.entry = job[t].entry /\ j.map = m
        /\ j.failed = job[t].failed
    BY <1>4, <2>4, WorkMap
  <2>6. Map!Moves(t, "store", j) BY <2>1
  <2> HIDE DEF j
  <2>7. at'[t] = "store" /\ job'[t] = j
    BY <2>5, <2>6, MapMoved DEF MapTypes, HandsOK, Stages
  <2>8. Map!Action(t)' = Map!Action(t) BY <1>1, <2>5, <2>7 DEF Map!Action
  <2>9. Map!Entry(t)' = e BY <1>3, <2>5, <2>7, <2>8 DEF Map!Entry
  <2>10. ASSUME t \in alone PROVE Undisturbed(t)'
    <3>1. Undisturbed(t) BY <2>10 DEF ApplyInv
    <3>2. \A f : /\ Map!Valid(f)' = Map!Valid(f) /\ Map!InPlace(f)' = Map!InPlace(f)
                 /\ (Map!Vanished(f)' <=> Map!Vanished(f))
      BY <2>2 DEF Map!Valid, Map!InPlace, Map!Vanished
    <3>3. Map!Changed(e)' = Map!Changed(e) BY <2>2 DEF Map!Changed
    <3>4. \A k : (Settled(t, k)' <=> Settled(t, k)) /\ (Lost(t, k)' <=> Lost(t, k))
      <4>0. PICK a : a = Map!Action(t) OBVIOUS
      <4>1. Map!Action(t)' = a /\ job'[t].failed = job[t].failed
        BY <4>0, <2>5, <2>7, <2>8
      <4>2. ASSUME NEW k PROVE Lost(t, k)' <=> Lost(t, k)
        <5>1. Map!Vanished(Map!Action(t)[k])' <=> Map!Vanished(a[k])
          BY <2>2, <4>1 DEF Map!Vanished
        <5>2. QED BY <5>1, <4>0, <4>1 DEF Lost
      <4>3. ASSUME NEW k PROVE Map!InPlace(Map!Action(t)[k])' <=> Map!InPlace(Map!Action(t)[k])
        <5>1. Map!InPlace(Map!Action(t)[k])' <=> Map!InPlace(a[k])
          BY <2>2, <4>1 DEF Map!InPlace
        <5>2. QED BY <5>1, <4>0
      <4>4. job'[t].entry = job[t].entry BY <2>5, <2>7
      <4>5. ASSUME NEW k PROVE Settled(t, k)' <=> Settled(t, k)
        <5>1. \A n : Map!Supersedes(Map!Action(t)[n], Map!Action(t)[k])' <=>
                     Map!Supersedes(Map!Action(t)[n], Map!Action(t)[k])
          BY <2>8 DEF Map!Supersedes
        <5>2. k \in job'[t].failed <=> k \in job[t].failed BY <4>1
        <5>3. QED BY <2>8, <4>2, <4>3, <4>4, <5>1, <5>2 DEF Settled
      <4>6. QED BY <4>2, <4>5
    <3>5. job'[t].map \in Map!Changed(Map!Entry(t))'
      <4>1. Map!Changed(Map!Entry(t))' = Map!Changed(e)'
        BY <2>9 DEF Map!Changed
      <4>2. QED BY <4>1, <3>3, <2>5, <2>7, <2>1
    <3>6. \A k \in DOMAIN Map!Action(t) :
            /\ Map!Valid(Map!Action(t)[k]) \/ Lost(t, k)
            /\ k < job[t].entry => Settled(t, k)
      BY <2>2, <3>1 DEF Undisturbed
    <3>7. \A k \in DOMAIN Map!Action(t) : Map!Valid(Map!Action(t)[k])' \/ Lost(t, k)'
      <4>1. \A k : Map!Valid(Map!Action(t)[k])' = Map!Valid(Map!Action(t)[k])
        BY <2>2, <2>8 DEF Map!Valid
      <4>2. QED BY <3>4, <3>6, <4>1
    <3>8. Map!Valid(Map!Entry(t))'
      <4>1. Map!Valid(e) \/ Lost(t, job[t].entry)
        BY <3>6, <1>2, <1>3 DEF Map!Entry
      <4>2. ~Lost(t, job[t].entry) BY <1>3, <1>6 DEF Lost, Map!Entry, Map!Fetch
      <4>3. Map!Valid(e)' BY <3>2, <4>1, <4>2
      <4>4. QED BY <4>3, <2>9 DEF Map!Valid
    <3>9. \A k \in DOMAIN Map!Action(t)' :
            /\ Map!Valid(Map!Action(t)[k])' \/ Lost(t, k)'
            /\ k < job'[t].entry => Settled(t, k)'
      BY <2>5, <2>7, <2>8, <3>4, <3>6, <3>7
    <3>10. QED BY <2>7, <3>5, <3>8, <3>9 DEF Undisturbed
  <2>11. QED BY <1>1, <2>2, <2>5, <2>6, <2>10, MoveKeepsApplied DEF Stages
<1>7. CASE Map!Store(t)
  <2>1. PICK m : m = job[t].map OBVIOUS
  <2>2. /\ at[t] = "store" /\ Map!Assign(e, m) /\ alone' = alone \cap {t}
        /\ Map!Moves(t, "fetch", Map!NextEntry(job[t]))
    BY <1>3, <1>7, <2>1 DEF Map!Store, Map!Assign
  <2>3. at'[t] = "fetch" /\ job'[t] = Map!NextEntry(job[t])
    BY <2>2, <1>4, MapMoved DEF MapTypes, HandsOK, Stages
  <2>4. e.in[1] # "none" BY <1>3, <1>4, <2>2 DEF Hand
  <2>5. ASSUME t \in alone PROVE Undisturbed(t)'
    <3>1. Undisturbed(t) BY <2>5 DEF ApplyInv
    <3>2. Map!Valid(e) /\ m \in Map!Changed(e)
      BY <3>1, <1>1, <1>2, <1>3, <2>1, <2>2 DEF Undisturbed, Map!Entry
    <3>3. /\ Map!InPlace(e)'
          /\ \A f \in Entries : Map!Valid(f) =>
               Map!Valid(f)' /\ (Map!InPlace(f) => Map!InPlace(f)' \/ Map!Supersedes(e, f))
          /\ \A f \in Entries : Map!Vanished(f) => Map!Vanished(f)'
      BY <1>4, <2>2, <2>4, <3>2, StoreEffect
    <3>4. PICK fs : fs = job[t].failed OBVIOUS
    <3>5. /\ job'[t].failed = fs /\ job'[t].entry = job[t].entry + 1
          /\ job'[t].post = job[t].post
      BY <2>3, <1>4, <3>4, WorkNext
    <3>6. QED BY <1>1, <1>2, <1>3, <2>3, <3>1, <3>3, <3>4, <3>5, NextUndisturbed
  <2>6. QED BY <2>2, <2>5 DEF ApplyInv
<1>8. CASE Map!StoreRefused(t)
  <2>1. /\ at[t] = "store" /\ alone' = alone \cap {t}
        /\ Map!Assign(e, <<>>) \/ UNCHANGED <<source, sink>>
        /\ Map!Moves(t, "fetch", Map!Failing(job[t]))
    BY <1>3, <1>8 DEF Map!StoreRefused, Map!Assign
  <2>2. Map!Failing(job[t]) \in Works BY <1>4, WorkFailed
  <2>3. at'[t] = "fetch" /\ job'[t] = Map!Failing(job[t])
    BY <2>1, <2>2, MapMoved DEF MapTypes, HandsOK, Stages
  <2>4. e.in[1] # "none" BY <1>3, <1>4, <2>1 DEF Hand
  <2>5. ASSUME t \in alone PROVE Undisturbed(t)'
    <3>1. Undisturbed(t) BY <2>5 DEF ApplyInv
    <3>2. Map!Valid(e) BY <3>1, <1>3, <2>1 DEF Undisturbed
    <3>3. PICK fs : fs = job[t].failed \cup {job[t].entry} OBVIOUS
    <3>4. /\ job'[t].failed = fs /\ job'[t].entry = job[t].entry + 1
          /\ job'[t].post = job[t].post /\ job[t].failed \subseteq fs
          /\ job[t].entry \in fs /\ fs # {}
      BY <2>3, <1>4, <3>3, WorkFailed
    <3>5. /\ \A f \in Entries : Map!Vanished(f) => Map!Vanished(f)'
          /\ \A f \in Entries : Map!Valid(f) =>
               Map!Vanished(f)' \/ (Map!Valid(f)' /\ (Map!InPlace(f) => Map!InPlace(f)'))
      <4>1. CASE Map!Assign(e, <<>>) BY <4>1, <1>4, <2>4, <3>2, RefusalEffect
      <4>2. CASE UNCHANGED <<source, sink>>
        BY <4>2 DEF Map!Valid, Map!InPlace, Map!Vanished
      <4>3. QED BY <2>1, <4>1, <4>2
    <3>6. QED BY <1>1, <1>2, <1>3, <2>3, <3>1, <3>4, <3>5, NextUndisturbed
  <2>6. QED BY <2>1, <2>5 DEF ApplyInv
<1>9. QED BY <1>5, <1>6, <1>7, <1>8

(* The other steps.                                                        *)
LEMMA PostApplied ==
  ASSUME Map!MappingConstants, MapTypes, ApplyInv, NEW t \in Clients, NEW a \in Actions,
         NEW s \in BOOLEAN, Map!Post(t, a, s)
  PROVE  ApplyInv'
<1>1. /\ posts' = Append(posts, a) /\ UNCHANGED <<source, sink, alone>>
      /\ at' = [at EXCEPT ![t] = "lock"]
      /\ \A u \in Map!Threads : u # t => job'[u] = job[u]
  BY DEF Map!Post, Map!Moves, MapTypes, HandsOK
<1>2. \A k \in DOMAIN posts : posts'[k] = posts[k] BY <1>1 DEF MapTypes, PostsOK
<1>3. ASSUME NEW u \in alone' PROVE Undisturbed(u)'
  <2>1. u \in Map!Threads /\ Undisturbed(u) BY <1>1, <1>3 DEF MapTypes, MapsOK, ApplyInv
  <2>2. CASE u = t
    <3>1. at'[t] = "lock" BY <2>1, <2>2, <1>1 DEF MapTypes, HandsOK
    <3>2. QED BY <2>2, <3>1, IdleUndisturbed
  <2>3. CASE u # t
    <3>1. at'[u] = at[u] /\ job'[u] = job[u] BY <2>1, <2>3, <1>1 DEF MapTypes, HandsOK
    <3>2. at[u] # "idle" => job[u].post \in DOMAIN posts BY <2>1, InHandTyped
    <3>3. QED BY <2>1, <3>1, <3>2, <1>1, <1>2, UndisturbedKept
  <2>4. QED BY <2>2, <2>3
<1>4. QED BY <1>3 DEF ApplyInv

LEMMA ScheduleApplied ==
  ASSUME Map!MappingConstants, MapTypes, ApplyInv, NEW t \in Map!Threads, Map!Schedule(t)
  PROVE  ApplyInv'
<1>1. at[t] = "validate" /\ at[t] # "idle" /\ job[t].scheduled BY DEF Map!Schedule
<1>2. job[t].post \in DOMAIN posts /\ job[t].post # 0 /\ Hand(t)
  BY <1>1, InHandTyped DEF MapTypes, HandsOK
<1>3. t \in Clients /\ state[job[t].post] = "new"
  BY <1>1, <1>2 DEF Hand, Map!Threads
<1>4. PICK form : posts' = [posts EXCEPT ![job[t].post] = form] BY DEF Map!Schedule
<1>5. Map!Moves(t, "idle", Map!NoJob) /\ UNCHANGED <<source, sink, alone>> BY DEF Map!Schedule
<1>6. at'[t] = "idle" /\ \A u \in Map!Threads : u # t => at'[u] = at[u] /\ job'[u] = job[u]
  BY <1>5, NoJobTyped, MapMoved DEF MapTypes, HandsOK, Stages
<1>7. ASSUME NEW u \in alone' PROVE Undisturbed(u)'
  <2>1. u \in Map!Threads /\ Undisturbed(u) BY <1>5, <1>7 DEF MapTypes, MapsOK, ApplyInv
  <2>2. CASE u = t BY <2>2, <1>6, IdleUndisturbed
  <2>3. CASE u # t
    <3>1. at[u] # "idle" => job[u].post \in DOMAIN posts /\ job[u].post # 0
      BY <2>1, InHandTyped
    <3>2. at[u] # "idle" => job[u].post # job[t].post
      <4>1. CASE u \in Clients BY <4>1, <2>3, <3>1, <1>3 DEF MapTypes, HandsOK, Distinct
      <4>2. CASE u = Worker BY <4>2, <3>1, <1>3 DEF MapTypes, DueOK
      <4>3. QED BY <4>1, <4>2, <2>1 DEF Map!Threads
    <3>3. at[u] # "idle" => posts'[job[u].post] = posts[job[u].post] BY <3>1, <3>2, <1>4
    <3>4. QED BY <2>1, <2>3, <3>3, <1>5, <1>6, UndisturbedKept
  <2>4. QED BY <2>2, <2>3
<1>8. QED BY <1>7 DEF ApplyInv

LEMMA WorkerApplied ==
  ASSUME Map!MappingConstants, MapTypes, ApplyInv,
         \/ \E id \in DOMAIN activations : Map!Delete(id)
         \/ \E S \in SUBSET DOMAIN activations : Map!TakeDue(S)
         \/ Map!Fire
  PROVE  ApplyInv'
<1>1. CASE \/ \E id \in DOMAIN activations : Map!Delete(id)
           \/ \E S \in SUBSET DOMAIN activations : Map!TakeDue(S)
  <2>1. UNCHANGED <<source, sink, alone, at, job, posts>> BY <1>1 DEF Map!Delete, Map!TakeDue
  <2>2. ASSUME NEW u \in alone' PROVE Undisturbed(u)'
    <3>1. u \in Map!Threads /\ Undisturbed(u) BY <2>1, <2>2 DEF MapTypes, MapsOK, ApplyInv
    <3>2. QED BY <2>1, <3>1, UndisturbedKept
  <2>3. QED BY <2>2 DEF ApplyInv
<1>2. CASE Map!Fire
  <2> DEFINE j == [Map!NoJob EXCEPT !.post = Head(due)]
  <2>1. /\ Map!Moves(Worker, "validate", j) /\ UNCHANGED <<source, sink, posts>>
        /\ due # <<>> /\ alone' = alone \cup {Worker}
    BY <1>2 DEF Map!Fire
  <2>2. Head(due) \in DOMAIN posts /\ Head(due) \in Nat
    BY <2>1 DEF MapTypes, DueOK
  <2>3. j \in Works /\ j.entry = 1 /\ j.post = Head(due) BY <2>2, NoJobTyped, WorkPost
  <2> HIDE DEF j
  <2>4. Worker \in Map!Threads BY DEF Map!Threads
  <2>5. at'[Worker] = "validate" /\ job'[Worker] = j
    BY <2>1, <2>3, <2>4, MapMoved DEF MapTypes, HandsOK, Stages
  <2>6. Undisturbed(Worker)'
    <3>1. Map!Action(Worker)' = posts[Head(due)] /\ posts[Head(due)] \in Seq(Entries)
      BY <2>1, <2>2, <2>3, <2>5 DEF Map!Action, MapTypes, PostsOK
    <3>2. \A k \in DOMAIN Map!Action(Worker)' : ~(k < job'[Worker].entry)
      BY <3>1, <2>3, <2>5
    <3>3. QED BY <3>2, <2>5 DEF Undisturbed
  <2>7. QED BY <2>1, <2>3, <2>4, <2>6, MoveKeepsApplied DEF Stages
<1>3. QED BY <1>1, <1>2

-----------------------------------------------------------------------------
LEMMA MapInit == ASSUME Map!MappingConstants, Map!Init PROVE MapInv
<1>1. at = [t \in Map!Threads |-> "idle"] /\ job = [t \in Map!Threads |-> Map!NoJob]
  BY DEF Map!Init
<1>2. posts = <<>> /\ state = <<>> /\ due = <<>> /\ activations = <<>> /\ alone = {}
  BY DEF Map!Init
<1>3. MapsOK
  <2>1. First \in Seq(Alsa) BY DEF Map!MappingConstants
  <2>2. QED BY <2>1, <1>2 DEF MapsOK, Map!Init, Map!MappingConstants
<1>4. DOMAIN posts = {} /\ DOMAIN due = {} /\ DOMAIN activations = {} /\ Len(posts) = 0
  BY <1>2
<1>5. PostsOK
  <2>1. posts \in Seq(Seq(Entries)) /\ state \in Seq(Verdicts) /\ Len(state) = Len(posts)
    BY <1>2
  <2>2. QED BY <2>1, <1>4 DEF PostsOK
<1>6. HandsOK
  <2>1. at \in [Map!Threads -> Stages] /\ job \in [Map!Threads -> Works]
    BY <1>1, NoJobTyped DEF Stages
  <2>2. \A t \in Map!Threads : at[t] = "idle" /\ job[t].post = 0 /\ ~job[t].scheduled
    BY <1>1, NoJobTyped
  <2>3. \A t \in Map!Threads : Hand(t) BY <2>2, <1>4 DEF Hand
  <2>4. Distinct BY <2>2 DEF Distinct, Map!Threads
  <2>5. QED BY <2>1, <2>3, <2>4 DEF HandsOK
<1>7. PendingOK
  <2>1. IsFiniteSet(DOMAIN activations) BY <1>4, FS_EmptySet
  <2>2. QED BY <2>1, <1>4 DEF PendingOK
<1>8. DueOK
  <2>1. due \in Seq(Nat) BY <1>2
  <2>2. job[Worker].post = 0 BY <1>1, NoJobTyped DEF Map!Threads
  <2>3. QED BY <2>1, <2>2, <1>4 DEF DueOK
<1>9. LockInv
  <2>1. \A t \in Clients : job[t].post = 0 BY <1>1, NoJobTyped DEF Map!Threads
  <2>2. Map!PendingPosts = {} BY <1>4 DEF Map!PendingPosts
  <2>3. QED BY <2>1, <2>2 DEF LockInv, Raced, Map!LocksExclusive
<1>10. ApplyInv BY <1>2 DEF ApplyInv
<1>11. QED BY <1>3, <1>5, <1>6, <1>7, <1>8, <1>9, <1>10 DEF MapInv, MapTypes

LEMMA MapNext ==
  ASSUME Map!MappingConstants, MapInv, [Map!Next]_Map!vars PROVE MapInv'
<1> USE DEF MapInv
<1>1. CASE \E t \in Clients, a \in Actions, s \in BOOLEAN : Map!Post(t, a, s)
  <2>1. PICK t \in Clients, a \in Actions, s \in BOOLEAN : Map!Post(t, a, s) BY <1>1
  <2>2. MapTypes' BY <2>1, PostTypes
  <2>3. LockInv' BY <2>1, <2>2, PostLocks
  <2>4. ApplyInv' BY <2>1, PostApplied
  <2>5. QED BY <2>2, <2>3, <2>4
<1>2. ASSUME NEW t \in Map!Threads, Map!Request(t) PROVE MapInv'
  <2>1. CASE Map!Schedule(t) BY <2>1, ScheduleTypes, ScheduleLocks, ScheduleApplied
  <2>2. CASE ~Map!Schedule(t)
    <3>1. MapTypes'
      BY <1>2, <2>2, LockTypes, ValidateTypes, EntryTypes DEF Map!Request
    <3>2. LockInv' BY <1>2, <2>2, RequestLocks
    <3>3. ApplyInv' BY <1>2, <2>2, LookingApplied, EntryApplied DEF Map!Request
    <3>4. QED BY <3>1, <3>2, <3>3
  <2>3. QED BY <2>1, <2>2
<1>3. CASE \E id \in DOMAIN activations : Map!Delete(id)
  BY <1>3, DeleteTypes, WorkerLocks, WorkerApplied
<1>4. CASE \E S \in SUBSET DOMAIN activations : Map!TakeDue(S)
  BY <1>4, TakeDueTypes, WorkerLocks, WorkerApplied
<1>5. CASE Map!Fire BY <1>5, FireTypes, WorkerLocks, WorkerApplied
<1>6. CASE \/ \E s \in Sources, m \in Maps \cup {<<>>} : Map!PutSource(s, m)
           \/ \E s \in Sinks, m \in Maps \cup {<<>>} : Map!PutSink(s, m)
  <2>1. UNCHANGED <<activations, at, job, posts, racing>> /\ alone' = {}
    BY <1>6 DEF Map!PutSource, Map!PutSink
  <2>2. Map!PendingPosts' \subseteq Map!PendingPosts BY <2>1 DEF Map!PendingPosts
  <2>3. QED BY <1>6, <2>1, <2>2, PutTypes, FewerLocks DEF ApplyInv
<1>7. CASE UNCHANGED Map!vars
  <2>1. UNCHANGED <<source, sink, activations, counter, at, job, due, posts, state, alone,
                    racing, changes>>
    BY <1>7 DEF Map!vars
  <2>2. MapsOK' /\ PostsOK' /\ DueOK'
    <3>1. MapsOK' BY <2>1 DEF MapTypes, MapsOK, Map!Threads
    <3>2. PostsOK' BY <2>1 DEF MapTypes, PostsOK
    <3>3. DueOK' BY <2>1 DEF MapTypes, DueOK
    <3>4. QED BY <3>1, <3>2, <3>3
  <2>3. PendingOK' BY <2>1 DEF MapTypes, PendingOK, Map!PendingPosts
  <2>4. HandsOK'
    <3>1. ASSUME NEW u \in Map!Threads PROVE Hand(u)'
      <4>1. Hand(u) /\ Len(posts) \in Nat BY DEF MapTypes, HandsOK, PostsOK
      <4>2. QED BY <4>1, <2>1, HandKept
    <3>2. Distinct' BY <2>1 DEF MapTypes, HandsOK, Distinct
    <3>3. QED BY <2>1, <3>1, <3>2 DEF MapTypes, HandsOK, Map!Threads
  <2>5. Map!PendingPosts' \subseteq Map!PendingPosts BY <2>1 DEF Map!PendingPosts
  <2>6. LockInv' BY <2>1, <2>5, FewerLocks
  <2>7. ASSUME NEW u \in alone' PROVE Undisturbed(u)'
    <3>1. u \in Map!Threads /\ Undisturbed(u) BY <2>1, <2>7 DEF MapTypes, MapsOK, ApplyInv
    <3>2. QED BY <2>1, <3>1, UndisturbedKept
  <2>8. QED BY <2>2, <2>3, <2>4, <2>6, <2>7 DEF MapTypes, ApplyInv
<1>8. QED BY <1>1, <1>2, <1>3, <1>4, <1>5, <1>6, <1>7 DEF Map!Next

LEMMA MapMeans ==
  ASSUME Map!MappingConstants, MapInv
  PROVE  Map!TypeOK /\ Map!LocksExclusive /\ Map!AppliedTruly
<1>1. Map!TypeOK
  <2>1. /\ source \in [Sources -> Seq(Alsa)] /\ sink \in [Sinks -> Seq(Alsa)]
        /\ changes \in 0..MaxChanges
    BY DEF MapInv, MapTypes, MapsOK
  <2>2. Map!Range(posts) \subseteq Actions \cup UNION {Map!Canonical(a) : a \in Actions}
    BY DEF MapInv, MapTypes, PostsOK, Map!Range
  <2>3. Len(state) = Len(posts) BY DEF MapInv, MapTypes, PostsOK
  <2>4. \A n \in DOMAIN posts : (state[n] = "accepted") = (n \in Map!PendingPosts)
    BY DEF MapInv, MapTypes, PendingOK
  <2>5. \A n \in Map!Range(due) \cup {job[Worker].post} : n # 0 => state[n] = "firing"
    BY DEF MapInv, MapTypes, DueOK, Map!Range
  <2>6. \A i, j \in DOMAIN activations : activations[i] = activations[j] => i = j
    BY DEF MapInv, MapTypes, PendingOK
  <2>7. \A t \in Map!Threads : job[t].post \in 0..Len(posts)
    BY DEF MapInv, MapTypes, HandsOK, Hand
  <2>8. QED BY <2>1, <2>2, <2>3, <2>4, <2>5, <2>6, <2>7 DEF Map!TypeOK
<1>2. Map!LocksExclusive BY DEF MapInv, LockInv
<1>3. ASSUME NEW t \in alone, at[t] = "fetch", Map!Finished(t), NEW n \in DOMAIN Map!Action(t)
      PROVE  \/ n \in job[t].failed
             \/ job[t].failed # {} /\ Map!Vanished(Map!Action(t)[n])
             \/ Map!InPlace(Map!Action(t)[n])
             \/ \E m \in n + 1..Len(Map!Action(t)) :
                  Map!Supersedes(Map!Action(t)[m], Map!Action(t)[n])
  <2>1. t \in Map!Threads /\ Undisturbed(t) BY <1>3 DEF MapInv, MapTypes, MapsOK, ApplyInv
  <2>2. /\ DOMAIN Map!Action(t) = 1..Len(Map!Action(t)) /\ Len(Map!Action(t)) \in Nat
        /\ job[t].entry \in Nat
    BY <1>3, <2>1, InHandTyped DEF MapInv, Works
  <2>3. n < job[t].entry BY <1>3, <2>2 DEF Map!Finished
  <2>4. Settled(t, n) BY <1>3, <2>1, <2>3 DEF Undisturbed
  <2>5. CASE Map!InPlace(Map!Action(t)[n]) BY <2>5
  <2>6. ASSUME NEW m \in DOMAIN Map!Action(t), n < m
        PROVE  m \in n + 1..Len(Map!Action(t))
    BY <2>2, <2>6
  <2>7. QED BY <2>4, <2>5, <2>6 DEF Settled, Lost
<1>4. QED BY <1>1, <1>2, <1>3 DEF Map!AppliedTruly

LEMMA MapInvariant == ASSUME Map!MappingConstants PROVE Map!Spec => []MapInv
<1>1. Map!Init => MapInv BY MapInit
<1>2. MapInv /\ [Map!Next]_Map!vars => MapInv' BY MapNext
<1>3. QED BY <1>1, <1>2, PTL DEF Map!Spec

(* The types of the channel mapping API, and every POST is in one place:   *)
(* what is in is08_activations_ was accepted and neither deleted nor taken *)
(* out by the worker, for any number of clients, streams and activations.  *)
THEOREM MappingTypes == ASSUME Map!MappingConstants PROVE Map!Spec => []Map!TypeOK
<1>1. MapInv => Map!TypeOK BY MapMeans
<1>2. QED BY <1>1, MapInvariant, PTL

(* is08_output_locked lets no two pending activations have an output in    *)
(* common, except when their POSTs were in hand at the same time.          *)
THEOREM LocksHeldOnce == ASSUME Map!MappingConstants PROVE Map!Spec => []Map!LocksExclusive
<1>1. MapInv => Map!LocksExclusive BY MapMeans
<1>2. QED BY <1>1, MapInvariant, PTL

(* When is08_apply_action_json has applied an activation that nobody came  *)
(* between, every crosspoint it asked for is in place, however long the    *)
(* action is, unless a later entry of the same activation took its place   *)
(* or its write failed; a failure that costs a source or sink takes the    *)
(* crosspoints of that one with it and no others.                          *)
THEOREM AppliedAsAsked == ASSUME Map!MappingConstants PROVE Map!Spec => []Map!AppliedTruly
<1>1. MapInv => Map!AppliedTruly BY MapMeans
<1>2. QED BY <1>1, MapInvariant, PTL

(* What may become of a POST from one step to the next.                    *)
Follows == [new |-> {"new", "accepted", "invalid", "done"},
            accepted |-> {"accepted", "deleted", "overwritten", "firing"},
            firing |-> {"firing", "done", "invalid"},
            done |-> {"done"}, invalid |-> {"invalid"},
            deleted |-> {"deleted"}, overwritten |-> {"overwritten"}]

Fate ==
  Len(state) <= Len(state') /\ \A n \in DOMAIN state : state'[n] \in Follows[state[n]]

LEMMA FateSame == ASSUME MapTypes, UNCHANGED state PROVE Fate
<1>1. state \in Seq(Verdicts) BY DEF MapTypes, PostsOK
<1>2. \A v \in Verdicts : v \in Follows[v] BY DEF Verdicts, Follows
<1>3. QED BY <1>1, <1>2 DEF Fate

(* The step a request ends with decides about the POST in hand alone.      *)
LEMMA FateEnds ==
  ASSUME Map!MappingConstants, MapTypes, NEW t \in Map!Threads, at[t] # "idle",
         NEW v \in {"invalid", "done"}, state' = [state EXCEPT ![job[t].post] = v]
  PROVE  Fate
<1>1. state \in Seq(Verdicts) BY DEF MapTypes, PostsOK
<1>2. Hand(t) BY DEF MapTypes, HandsOK
<1>3. state[job[t].post] \in {"new", "firing"}
  <2>1. job[t].post # 0 BY <1>2 DEF Hand
  <2>2. CASE t \in Clients BY <1>2, <2>1, <2>2 DEF Hand
  <2>3. CASE t = Worker BY <2>1, <2>3 DEF MapTypes, DueOK
  <2>4. QED BY <2>2, <2>3 DEF Map!Threads
<1>4. \A w \in Verdicts : w \in Follows[w] BY DEF Verdicts, Follows
<1>5. v \in Follows["new"] /\ v \in Follows["firing"] BY DEF Follows
<1>6. Len(state) = Len(state') /\ \A n \in DOMAIN state : state'[n] \in Follows[state[n]]
  BY <1>1, <1>3, <1>4, <1>5
<1>7. Len(state) \in Nat BY <1>1
<1>8. QED BY <1>6, <1>7 DEF Fate

LEMMA FatePost ==
  ASSUME MapTypes, state' = Append(state, "new") PROVE Fate
<1>1. state \in Seq(Verdicts) BY DEF MapTypes, PostsOK
<1>2. \A v \in Verdicts : v \in Follows[v] BY DEF Verdicts, Follows
<1>3. Len(state) <= Len(state') /\ \A n \in DOMAIN state : state'[n] = state[n] /\ state[n] \in Verdicts
  BY <1>1
<1>4. QED BY <1>2, <1>3 DEF Fate

LEMMA FateSchedule ==
  ASSUME Map!MappingConstants, MapTypes, NEW t \in Map!Threads, Map!Schedule(t) PROVE Fate
<1>1. state \in Seq(Verdicts) BY DEF MapTypes, PostsOK
<1>2. Hand(t) BY DEF MapTypes, HandsOK
<1>3. t \in Clients BY <1>2 DEF Map!Schedule, Hand, Map!Threads
<1>4. state[job[t].post] = "new" BY <1>2, <1>3 DEF Hand, Map!Schedule
<1>5. \A w \in Verdicts : w \in Follows[w] BY DEF Verdicts, Follows
<1>6. "accepted" \in Follows["new"] /\ "overwritten" \in Follows["accepted"] BY DEF Follows
<1>7. \A i \in DOMAIN activations : state[activations[i]] = "accepted"
  BY DEF MapTypes, PendingOK, Map!PendingPosts
<1>8. state' = [n \in DOMAIN state |->
                  IF n = job[t].post THEN "accepted"
                  ELSE IF job[t].id \in DOMAIN activations /\ activations[job[t].id] = n
                       THEN "overwritten" ELSE state[n]]
  BY DEF Map!Schedule
<1>9. \A n \in DOMAIN state : state'[n] \in Follows[state[n]]
  BY <1>1, <1>4, <1>5, <1>6, <1>7, <1>8
<1>10. Len(state') = Len(state) /\ Len(state) \in Nat
  BY <1>1, <1>8
<1>11. QED BY <1>9, <1>10 DEF Fate

LEMMA FateDelete ==
  ASSUME MapTypes, NEW id \in DOMAIN activations, Map!Delete(id) PROVE Fate
<1>1. state \in Seq(Verdicts) BY DEF MapTypes, PostsOK
<1>2. state[activations[id]] = "accepted"
  BY DEF MapTypes, PendingOK, Map!PendingPosts
<1>3. \A w \in Verdicts : w \in Follows[w] BY DEF Verdicts, Follows
<1>4. "deleted" \in Follows["accepted"] BY DEF Follows
<1>5. state' = [state EXCEPT ![activations[id]] = "deleted"] BY DEF Map!Delete
<1>6. Len(state') = Len(state) /\ Len(state) \in Nat BY <1>1, <1>5
<1>7. \A n \in DOMAIN state : state'[n] \in Follows[state[n]] BY <1>1, <1>2, <1>3, <1>4, <1>5
<1>8. QED BY <1>6, <1>7 DEF Fate

LEMMA FateTake ==
  ASSUME MapTypes, NEW S \in SUBSET DOMAIN activations, Map!TakeDue(S) PROVE Fate
<1>1. state \in Seq(Verdicts) BY DEF MapTypes, PostsOK
<1>2. \A i \in DOMAIN activations : state[activations[i]] = "accepted"
  BY DEF MapTypes, PendingOK, Map!PendingPosts
<1>3. \A w \in Verdicts : w \in Follows[w] BY DEF Verdicts, Follows
<1>4. "firing" \in Follows["accepted"] BY DEF Follows
<1>5. state' = [n \in DOMAIN state |->
                  IF \E i \in S : activations[i] = n THEN "firing" ELSE state[n]]
  BY DEF Map!TakeDue
<1>6. Len(state') = Len(state) /\ Len(state) \in Nat BY <1>1, <1>5
<1>7. \A n \in DOMAIN state : state'[n] \in Follows[state[n]] BY <1>1, <1>2, <1>3, <1>4, <1>5
<1>8. QED BY <1>6, <1>7 DEF Fate

LEMMA FateNext == ASSUME Map!MappingConstants, MapTypes, [Map!Next]_Map!vars PROVE Fate
<1>1. CASE UNCHANGED state BY <1>1, FateSame
<1>2. CASE UNCHANGED Map!vars BY <1>2, <1>1 DEF Map!vars
<1>3. ASSUME NEW t \in Clients, NEW a \in Actions, NEW s \in BOOLEAN, Map!Post(t, a, s)
      PROVE  Fate
  BY <1>3, FatePost DEF Map!Post
<1>4. ASSUME NEW t \in Map!Threads, Map!Request(t) PROVE Fate
  <2>1. CASE Map!CheckLock(t) BY <2>1, <1>1 DEF Map!CheckLock
  <2>2. CASE Map!ReadCounter(t) BY <2>2, <1>1 DEF Map!ReadCounter
  <2>3. CASE Map!WriteCounter(t) BY <2>3, <1>1 DEF Map!WriteCounter
  <2>4. CASE Map!Validate(t)
    <3>1. UNCHANGED state \/ state' = [state EXCEPT ![job[t].post] = "invalid"]
      BY <2>4 DEF Map!Validate
    <3>2. QED BY <3>1, <2>4, <1>1, FateEnds DEF Map!Validate
  <2>5. CASE Map!RejectTime(t) BY <2>5, <1>1 DEF Map!RejectTime
  <2>6. CASE Map!Schedule(t) BY <2>6, FateSchedule
  <2>7. CASE Map!BeginApply(t) BY <2>7, <1>1 DEF Map!BeginApply
  <2>8. CASE Map!Skip(t) BY <2>8, <1>1 DEF Map!Skip
  <2>9. CASE Map!Fetch(t) BY <2>9, <1>1 DEF Map!Fetch
  <2>10. CASE Map!Store(t) BY <2>10, <1>1 DEF Map!Store
  <2>11. CASE Map!StoreRefused(t) BY <2>11, <1>1 DEF Map!StoreRefused
  <2>12. CASE Map!Applied(t) BY <2>12, FateEnds DEF Map!Applied
  <2>13. QED
    BY <1>4, <2>1, <2>2, <2>3, <2>4, <2>5, <2>6, <2>7, <2>8, <2>9, <2>10, <2>11, <2>12
    DEF Map!Request
<1>5. ASSUME NEW id \in DOMAIN activations, Map!Delete(id) PROVE Fate BY <1>5, FateDelete
<1>6. ASSUME NEW S \in SUBSET DOMAIN activations, Map!TakeDue(S) PROVE Fate BY <1>6, FateTake
<1>7. CASE Map!Fire BY <1>7, <1>1 DEF Map!Fire
<1>8. ASSUME NEW s \in Sources, NEW m \in Maps \cup {<<>>}, Map!PutSource(s, m) PROVE Fate
  BY <1>8, <1>1 DEF Map!PutSource
<1>9. ASSUME NEW s \in Sinks, NEW m \in Maps \cup {<<>>}, Map!PutSink(s, m) PROVE Fate
  BY <1>9, <1>1 DEF Map!PutSink
<1>10. QED BY <1>2, <1>3, <1>4, <1>5, <1>6, <1>7, <1>8, <1>9 DEF Map!Next

(* What becomes of a POST to the map is decided once, by whichever of its  *)
(* own handler, a DELETE, a POST that takes its place under the same       *)
(* activation id, or is08_process_scheduled_activations comes first: one   *)
(* that was deleted or overwritten is never carried out, one carried out   *)
(* is never deleted, and none is carried out twice.                        *)
THEOREM ActivationFate ==
  ASSUME Map!MappingConstants PROVE Map!Spec => [][Fate]_Map!vars
<1>1. MapInv /\ [Map!Next]_Map!vars => [Fate]_Map!vars BY FateNext DEF MapInv
<1>2. QED BY <1>1, MapInvariant, PTL DEF Map!Spec

(* The only steps that change a source or sink: another client's, a write  *)
(* that fails, or the store of a thread whose POST is in hand.             *)
Touched ==
  \/ UNCHANGED <<source, sink>>
  \/ changes' = changes + 1
  \/ \E t \in Map!Threads :
       /\ at[t] = "store" /\ Map!Assign(Map!Entry(t), job[t].map)
       /\ state[job[t].post] = (IF t = Worker THEN "firing" ELSE "new")

LEMMA TouchedNext == ASSUME Map!MappingConstants, MapTypes, [Map!Next]_Map!vars PROVE Touched
<1>1. CASE UNCHANGED <<source, sink>> BY <1>1 DEF Touched
<1>2. CASE changes' = changes + 1 BY <1>2 DEF Touched
<1>3. ASSUME NEW t \in Map!Threads, Map!Store(t) PROVE Touched
  <2>1. Hand(t) /\ job[t].post # 0 BY <1>3 DEF MapTypes, HandsOK, Hand, Map!Store
  <2>2. state[job[t].post] = (IF t = Worker THEN "firing" ELSE "new")
    BY <2>1 DEF Hand, MapTypes, DueOK, Map!Threads
  <2>3. QED BY <1>3, <2>2 DEF Touched, Map!Store
<1>4. ASSUME NEW t \in Map!Threads, Map!Request(t) PROVE Touched
  <2>1. CASE Map!Store(t) BY <2>1, <1>3
  <2>2. CASE Map!StoreRefused(t) BY <2>2, <1>2 DEF Map!StoreRefused
  <2>3. QED
    BY <1>4, <2>1, <2>2, <1>1
    DEF Map!Request, Map!CheckLock, Map!ReadCounter, Map!WriteCounter, Map!Validate,
        Map!RejectTime, Map!Schedule, Map!BeginApply, Map!Skip, Map!Fetch, Map!Applied
<1>5. CASE UNCHANGED Map!vars BY <1>5, <1>1 DEF Map!vars
<1>6. CASE \E t \in Map!Threads : Map!Request(t) BY <1>6, <1>4
<1>7. CASE \/ \E t \in Clients, a \in Actions, s \in BOOLEAN : Map!Post(t, a, s)
           \/ \E id \in DOMAIN activations : Map!Delete(id)
           \/ \E S \in SUBSET DOMAIN activations : Map!TakeDue(S)
           \/ Map!Fire
  BY <1>7, <1>1 DEF Map!Post, Map!Delete, Map!TakeDue, Map!Fire
<1>8. CASE \/ \E s \in Sources, m \in Maps \cup {<<>>} : Map!PutSource(s, m)
           \/ \E s \in Sinks, m \in Maps \cup {<<>>} : Map!PutSink(s, m)
  BY <1>8, <1>2 DEF Map!PutSource, Map!PutSink
<1>9. QED BY <1>5, <1>6, <1>7, <1>8 DEF Map!Next

(* Besides other clients and writes that fail, nothing changes the         *)
(* map of a source or sink but is08_apply_action_json for a POST that its  *)
(* thread has in hand: an immediate one that was just checked, or a        *)
(* scheduled one the worker has taken out; never one that is pending,      *)
(* deleted or done.                                                        *)
THEOREM ChangedInHandOnly ==
  ASSUME Map!MappingConstants PROVE Map!Spec => [][Touched]_Map!vars
<1>1. MapInv /\ [Map!Next]_Map!vars => [Touched]_Map!vars BY TouchedNext DEF MapInv
<1>2. QED BY <1>1, MapInvariant, PTL DEF Map!Spec

-----------------------------------------------------------------------------
(* What the worker took out is in its hand or among what is due until it   *)
(* has been carried out or found invalid.                                  *)
FiringHeld ==
  \A n \in DOMAIN state : state[n] = "firing" =>
    n = job[Worker].post \/ \E k \in DOMAIN due : due[k] = n

Held == MapInv /\ FiringHeld

LEMMA FiringSame ==
  ASSUME MapTypes, FiringHeld, UNCHANGED due, job'[Worker].post = job[Worker].post,
         \A n \in DOMAIN state' : state'[n] = "firing" => n \in DOMAIN state /\ state[n] = "firing"
  PROVE  FiringHeld'
BY DEF FiringHeld

(* A step of a request other than its end: the POST in hand is the same.   *)
LEMMA FiringMoves ==
  ASSUME MapTypes, FiringHeld, NEW t \in Map!Threads, NEW p, NEW j, Map!Moves(t, p, j),
         j.post = job[t].post, UNCHANGED <<due, state>>
  PROVE  FiringHeld'
<1>1. job'[Worker].post = job[Worker].post
  BY DEF Map!Moves, MapTypes, HandsOK, Map!Threads
<1>2. QED BY <1>1, FiringSame

(* Its end: the POST is decided, or a client's is dropped.                 *)
LEMMA FiringEnds ==
  ASSUME Map!MappingConstants, MapTypes, FiringHeld, NEW t \in Map!Threads,
         Map!Moves(t, "idle", Map!NoJob), UNCHANGED due,
         \/ t # Worker /\ UNCHANGED state
         \/ /\ at[t] # "idle"
            /\ \E v \in {"invalid", "done"} : state' = [state EXCEPT ![job[t].post] = v]
  PROVE  FiringHeld'
<1>1. state \in Seq(Verdicts) BY DEF MapTypes, PostsOK
<1>2. CASE t # Worker
  <2>1. job'[Worker].post = job[Worker].post
    BY <1>2 DEF Map!Moves, MapTypes, HandsOK, Map!Threads
  <2>2. \A n \in DOMAIN state' : state'[n] = "firing" => n \in DOMAIN state /\ state[n] = "firing"
    BY <1>1, <1>2
  <2>3. QED BY <2>1, <2>2, FiringSame
<1>3. CASE t = Worker
  <2>1. PICK v \in {"invalid", "done"} : state' = [state EXCEPT ![job[t].post] = v] BY <1>3
  <2>2. \A n \in DOMAIN state' :
          state'[n] = "firing" => n # job[Worker].post /\ n \in DOMAIN state /\ state[n] = "firing"
    BY <1>1, <1>3, <2>1
  <2>3. QED BY <2>2 DEF FiringHeld
<1>4. QED BY <1>2, <1>3

LEMMA FiringSchedule ==
  ASSUME Map!MappingConstants, MapTypes, FiringHeld, NEW t \in Map!Threads, Map!Schedule(t)
  PROVE  FiringHeld'
<1>1. Hand(t) BY DEF MapTypes, HandsOK
<1>2. t # Worker BY <1>1 DEF Map!Schedule, Hand
<1>3. job'[Worker].post = job[Worker].post /\ due' = due
  BY <1>2 DEF Map!Schedule, Map!Moves, MapTypes, HandsOK, Map!Threads
<1>4. state' = [n \in DOMAIN state |->
                  IF n = job[t].post THEN "accepted"
                  ELSE IF job[t].id \in DOMAIN activations /\ activations[job[t].id] = n
                       THEN "overwritten" ELSE state[n]]
  BY DEF Map!Schedule
<1>5. \A n \in DOMAIN state' : state'[n] = "firing" => n \in DOMAIN state /\ state[n] = "firing"
  BY <1>4
<1>6. QED BY <1>3, <1>5, FiringSame

LEMMA FiringTake ==
  ASSUME MapTypes, FiringHeld, NEW S \in SUBSET DOMAIN activations, Map!TakeDue(S)
  PROVE  FiringHeld'
<1>1. /\ due = <<>> /\ job' = job
      /\ state' = [n \in DOMAIN state |->
                     IF \E i \in S : activations[i] = n THEN "firing" ELSE state[n]]
  BY DEF Map!TakeDue
<1>2. PICK d \in Map!InOrder(S) : due' = [n \in DOMAIN d |-> activations[d[n]]]
  BY DEF Map!TakeDue
<1>3. S = {d[k] : k \in DOMAIN d} BY DEF Map!InOrder, Map!Range
<1>4. ASSUME NEW n \in DOMAIN state', state'[n] = "firing"
      PROVE  n = job'[Worker].post \/ \E k \in DOMAIN due' : due'[k] = n
  <2>1. CASE \E i \in S : activations[i] = n
    <3>1. PICK k \in DOMAIN d : activations[d[k]] = n BY <1>3, <2>1
    <3>2. k \in DOMAIN due' /\ due'[k] = n BY <1>2, <3>1
    <3>3. QED BY <3>2
  <2>2. CASE ~ \E i \in S : activations[i] = n
    <3>1. n \in DOMAIN state /\ state[n] = "firing" BY <1>1, <1>4, <2>2
    <3>2. DOMAIN due = {} BY <1>1
    <3>3. n = job[Worker].post BY <3>1, <3>2 DEF FiringHeld
    <3>4. QED BY <1>1, <3>3
  <2>3. QED BY <2>1, <2>2
<1>5. QED BY <1>4 DEF FiringHeld

LEMMA FiringFire ==
  ASSUME MapTypes, FiringHeld, Map!Fire PROVE FiringHeld'
<1>1. /\ at[Worker] = "idle" /\ due # <<>> /\ due' = Tail(due) /\ state' = state
      /\ Map!Moves(Worker, "validate", [Map!NoJob EXCEPT !.post = Head(due)])
  BY DEF Map!Fire
<1>2. job[Worker].post = 0 BY <1>1 DEF MapTypes, HandsOK, Hand, Map!Threads
<1>3. job'[Worker].post = Head(due)
  <2>1. job'[Worker] = [Map!NoJob EXCEPT !.post = Head(due)]
    BY <1>1 DEF Map!Moves, MapTypes, HandsOK, Map!Threads
  <2>2. QED BY <2>1 DEF Map!NoJob
<1>4. due \in Seq(Nat) /\ state \in Seq(Verdicts) BY DEF MapTypes, DueOK, PostsOK
<1>5. /\ Head(due) = due[1] /\ DOMAIN due' = 1..(Len(due) - 1) /\ Len(due) \in Nat
      /\ DOMAIN due = 1..Len(due)
      /\ \A k \in 1..(Len(due) - 1) : due'[k] = due[k + 1]
  BY <1>1, <1>4
<1>6. ASSUME NEW n \in DOMAIN state, state[n] = "firing"
      PROVE  n = job'[Worker].post \/ \E k \in DOMAIN due' : due'[k] = n
  <2>1. n # 0 BY <1>4
  <2>2. PICK k \in DOMAIN due : due[k] = n BY <1>2, <1>6, <2>1 DEF FiringHeld
  <2>3. CASE k = 1 BY <1>3, <1>5, <2>2, <2>3
  <2>4. CASE k # 1
    <3>1. k - 1 \in 1..(Len(due) - 1) /\ (k - 1) + 1 = k BY <1>5, <2>4
    <3>2. QED BY <1>5, <2>2, <3>1
  <2>5. QED BY <2>3, <2>4
<1>7. QED BY <1>1, <1>6 DEF FiringHeld

LEMMA FiringNext ==
  ASSUME Map!MappingConstants, MapTypes, FiringHeld, [Map!Next]_Map!vars
  PROVE  FiringHeld'
<1>0. state \in Seq(Verdicts) BY DEF MapTypes, PostsOK
<1>1. CASE UNCHANGED <<due, job, state>> BY <1>1, FiringSame
<1>2. CASE UNCHANGED Map!vars BY <1>1, <1>2 DEF Map!vars
<1>3. ASSUME NEW t \in Clients, NEW a \in Actions, NEW s \in BOOLEAN, Map!Post(t, a, s)
      PROVE  FiringHeld'
  <2>1. job'[Worker] = job[Worker]
    BY <1>3 DEF Map!Post, Map!Moves, MapTypes, HandsOK, Map!Threads, Map!MappingConstants
  <2>2. due' = due /\ state' = Append(state, "new") BY <1>3 DEF Map!Post
  <2>3. \A n \in DOMAIN state' : state'[n] = "firing" => n \in DOMAIN state /\ state[n] = "firing"
    BY <1>0, <2>2
  <2>4. QED BY <2>1, <2>2, <2>3, FiringSame
<1>4. ASSUME NEW t \in Map!Threads, Map!Request(t) PROVE FiringHeld'
  <2>0. job[t] \in Works BY DEF MapTypes, HandsOK
  <2>1. \A e : [job[t] EXCEPT !.entry = e].post = job[t].post
        /\ [job[t] EXCEPT !.id = e].post = job[t].post
        /\ [job[t] EXCEPT !.map = e].post = job[t].post
    BY <2>0 DEF Works
  <2>n. Map!NextEntry(job[t]).post = job[t].post /\ Map!Failing(job[t]).post = job[t].post
    BY <2>0, WorkNext, WorkFailed
  <2>w. at[t] \in {"lock", "number"} \/ (at[t] = "validate" /\ job[t].scheduled) => t # Worker
    BY DEF MapTypes, HandsOK, Hand
  <2>2. CASE Map!CheckLock(t)
    <3>1. CASE Map!Moves(t, "idle", Map!NoJob)
      BY <2>2, <2>w, <3>1, FiringEnds DEF Map!CheckLock
    <3>2. CASE Map!Moves(t, "lock", [job[t] EXCEPT !.entry = @ + 1])
      BY <2>1, <2>2, <3>2, FiringMoves DEF Map!CheckLock
    <3>3. QED BY <2>2, <3>1, <3>2 DEF Map!CheckLock
  <2>3. CASE Map!ReadCounter(t) BY <2>1, <2>3, FiringMoves DEF Map!ReadCounter
  <2>4. CASE Map!WriteCounter(t) BY <2>1, <2>4, FiringMoves DEF Map!WriteCounter
  <2>5. CASE Map!Validate(t)
    <3>1. CASE Map!Moves(t, "validate", [job[t] EXCEPT !.entry = @ + 1]) /\ UNCHANGED state
      BY <2>1, <2>5, <3>1, FiringMoves DEF Map!Validate
    <3>2. CASE /\ Map!Moves(t, "idle", Map!NoJob)
               /\ state' = [state EXCEPT ![job[t].post] = "invalid"]
      BY <2>5, <3>2, FiringEnds DEF Map!Validate
    <3>3. QED BY <2>5, <3>1, <3>2 DEF Map!Validate
  <2>6. CASE Map!RejectTime(t) BY <2>6, <2>w, FiringEnds DEF Map!RejectTime
  <2>7. CASE Map!Schedule(t) BY <2>7, FiringSchedule
  <2>8. CASE Map!BeginApply(t) BY <2>1, <2>8, FiringMoves DEF Map!BeginApply
  <2>9. CASE Map!Skip(t) BY <2>n, <2>9, FiringMoves DEF Map!Skip
  <2>10. CASE Map!Fetch(t) BY <2>1, <2>10, FiringMoves DEF Map!Fetch
  <2>11. CASE Map!Store(t) BY <2>n, <2>11, FiringMoves DEF Map!Store
  <2>12. CASE Map!StoreRefused(t) BY <2>n, <2>12, FiringMoves DEF Map!StoreRefused
  <2>13. CASE Map!Applied(t) BY <2>13, FiringEnds DEF Map!Applied
  <2>14. QED
    BY <1>4, <2>2, <2>3, <2>4, <2>5, <2>6, <2>7, <2>8, <2>9, <2>10, <2>11, <2>12, <2>13
    DEF Map!Request
<1>5. ASSUME NEW id \in DOMAIN activations, Map!Delete(id) PROVE FiringHeld'
  <2>1. job' = job /\ due' = due /\ state' = [state EXCEPT ![activations[id]] = "deleted"]
    BY <1>5 DEF Map!Delete
  <2>2. \A n \in DOMAIN state' : state'[n] = "firing" => n \in DOMAIN state /\ state[n] = "firing"
    BY <1>0, <2>1
  <2>3. QED BY <2>1, <2>2, FiringSame
<1>6. ASSUME NEW S \in SUBSET DOMAIN activations, Map!TakeDue(S) PROVE FiringHeld'
  BY <1>6, FiringTake
<1>7. CASE Map!Fire BY <1>7, FiringFire
<1>8. ASSUME NEW s \in Sources, NEW m \in Maps \cup {<<>>}, Map!PutSource(s, m) PROVE FiringHeld'
  BY <1>8, <1>1 DEF Map!PutSource
<1>9. ASSUME NEW s \in Sinks, NEW m \in Maps \cup {<<>>}, Map!PutSink(s, m) PROVE FiringHeld'
  BY <1>9, <1>1 DEF Map!PutSink
<1>10. QED BY <1>2, <1>3, <1>4, <1>5, <1>6, <1>7, <1>8, <1>9 DEF Map!Next

(* The POSTs accepted and not decided yet are exactly those pending and    *)
(* those the worker has taken out.                                         *)
AcceptedKept ==
  \A n \in DOMAIN state :
    /\ state[n] = "accepted" <=> n \in Map!PendingPosts
    /\ state[n] = "firing" <=> n = job[Worker].post \/ \E k \in DOMAIN due : due[k] = n

(* An accepted activation is never dropped between the table and the       *)
(* worker: it is in is08_activations_ until it is deleted, overwritten or  *)
(* taken out, and from then on in the worker's hand or among the entries   *)
(* is08_process_scheduled_activations has still to carry out, until it is  *)
(* done or found invalid.                                                  *)
THEOREM AcceptedNeverDropped ==
  ASSUME Map!MappingConstants PROVE Map!Spec => []AcceptedKept
<1>1. Map!Init => Held
  <2>1. Map!Init => FiringHeld BY DEF Map!Init, FiringHeld
  <2>2. QED BY <2>1, MapInit DEF Held
<1>2. Held /\ [Map!Next]_Map!vars => Held' BY MapNext, FiringNext DEF Held, MapInv
<1>3. Held => AcceptedKept
  <2> SUFFICES ASSUME Held, NEW n \in DOMAIN state
               PROVE  /\ state[n] = "accepted" <=> n \in Map!PendingPosts
                      /\ state[n] = "firing" <=>
                           n = job[Worker].post \/ \E k \in DOMAIN due : due[k] = n
    BY DEF AcceptedKept
  <2>1. MapTypes /\ FiringHeld BY DEF Held, MapInv
  <2>2. n \in DOMAIN posts /\ n # 0 BY <2>1 DEF MapTypes, PostsOK
  <2>3. QED BY <2>1, <2>2 DEF MapTypes, PendingOK, DueOK, FiringHeld
<1>4. QED BY <1>1, <1>2, <1>3, PTL DEF Map!Spec

=============================================================================
