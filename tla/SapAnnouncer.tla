---------------------------- MODULE SapAnnouncer ----------------------------
(***************************************************************************)
(* The SAP announcer of the session manager (process_sap, run by the       *)
(* session worker) and the table of remote sources that another node's     *)
(* browser builds from its messages over UDP multicast: messages may be    *)
(* lost, delivered twice and delivered in any order.                       *)
(*                                                                         *)
(* A session is known on the wire by a hash of its SDP text.  The text is  *)
(* represented by what makes it differ: the source id, the session version *)
(* and whether the second medium (ST 2022-7) is described, which for a     *)
(* redundant source follows the state of the secondary interface and may   *)
(* change back and forth under one version.  Hashes do not collide here.   *)
(***************************************************************************)
EXTENDS Integers

CONSTANTS
  Ids,           \* source ids
  Redundant,     \* those with two legs
  MaxDeletions,  \* SAP::max_deletions
  MaxVersion,    \* bound on the session version
  MaxFlips,      \* bound on the changes of the secondary interface
  MaxFaults      \* bound on the messages lost or delivered twice

ASSUME SapConstants ==
  /\ Redundant \subseteq Ids
  /\ MaxDeletions \in Nat \ {0}
  /\ MaxVersion \in Nat /\ MaxFlips \in Nat /\ MaxFaults \in Nat

VARIABLES
  sources,    \* id -> session version of the enabled source, None without one
  version,    \* the last session version given out
  sec,        \* number of media a redundant source is described with
  announced,  \* announced_sources_: the texts announced and not yet withdrawn
  count,      \* deleted_sources_count_, 0 when there is no entry
  worker,     \* "loop", "stopping" (running_ cleared) or "exited"
  net,        \* messages on the way to the remote browser
  remote,     \* sources_ of the remote browser
  flips, faults,
  ever,       \* history: texts ever announced
  sent,       \* history: deletions sent for a text since its last announcement
  revoked     \* history: texts a deletion was ever sent for

vars == <<sources, version, sec, announced, count, worker, net, remote,
          flips, faults, ever, sent, revoked>>

None == 0

Texts == Ids \X (1..MaxVersion) \X {"one", "two"}
Messages == {"announcement", "deletion"} \X Texts

(* Types, and the announcer keeps a count only of texts it still tracks.   *)
TypeOK ==
  /\ version \in 0..MaxVersion /\ sources \in [Ids -> 0..version]
  /\ sec \in {"one", "two"}
  /\ announced \subseteq Texts /\ ever \subseteq Texts
  /\ count \in [Texts -> 0..MaxDeletions - 1]
  /\ sent \in [Texts -> Nat] /\ revoked \subseteq Texts
  /\ \A h \in Texts : count[h] > 0 => h \in announced
  /\ worker \in {"loop", "stopping", "exited"}
  /\ net \subseteq Messages /\ remote \subseteq Texts
  /\ flips \in 0..MaxFlips /\ faults \in 0..MaxFaults

Init ==
  /\ sources = [i \in Ids |-> None] /\ version = 0
  /\ sec = "two"
  /\ announced = {} /\ ever = {} /\ revoked = {}
  /\ count = [h \in Texts |-> 0] /\ sent = [h \in Texts |-> 0]
  /\ worker = "loop"
  /\ net = {} /\ remote = {}
  /\ flips = 0 /\ faults = 0

(* get_source_sdp_: what the SDP of source i says now.                     *)
Text(i) == <<i, sources[i], IF i \in Redundant THEN sec ELSE "one">>

Active == {Text(i) : i \in {j \in Ids : sources[j] # None}}

Announcement(h) == <<"announcement", h>>
Deletion(h) == <<"deletion", h>>

-----------------------------------------------------------------------------
(* The sources change: add_source of an enabled source, ...                *)
AddSource(i) ==
  /\ worker = "loop" /\ version < MaxVersion
  /\ version' = version + 1
  /\ sources' = [sources EXCEPT ![i] = version + 1]
  /\ UNCHANGED <<sec, announced, count, worker, net, remote, flips, faults, ever, sent, revoked>>

(* ... remove_source, or add_source that disables it, ...                  *)
RemoveSource(i) ==
  /\ worker = "loop" /\ sources[i] # None
  /\ sources' = [sources EXCEPT ![i] = None]
  /\ UNCHANGED <<version, sec, announced, count, worker, net, remote, flips, faults, ever, sent, revoked>>

(* ... on_update_sources, when the clock or the sample rate changed, ...   *)
OnUpdateSources ==
  /\ worker = "loop" /\ version < MaxVersion
  /\ version' = version + 1
  /\ sources' = [i \in Ids |-> IF sources[i] # None THEN sources[i] + 1 ELSE None]
  /\ UNCHANGED <<sec, announced, count, worker, net, remote, flips, faults, ever, sent, revoked>>

(* ... or the secondary interface gets or loses its address.               *)
SecondaryChange ==
  /\ flips < MaxFlips
  /\ flips' = flips + 1
  /\ sec' \in {"one", "two"} \ {sec}
  /\ UNCHANGED <<sources, version, announced, count, worker, net, remote, faults, ever, sent, revoked>>

-----------------------------------------------------------------------------
(* process_sap: announce what is active, send one more deletion for every  *)
(* text that was announced and is active no more, and forget the texts     *)
(* whose deletion was sent MaxDeletions times.  The parts that may be got  *)
(* wrong are parameters: the texts announced, the texts whose count is     *)
(* erased and what is left of the count of a text that is forgotten.       *)
Announce(active, erased, left) ==
  LET gone == announced \ Active
      deletions == [h \in Texts |-> IF h \in gone THEN count[h] + 1
                                     ELSE IF h \in erased THEN 0 ELSE count[h]]
      forgotten == {h \in gone : deletions[h] >= MaxDeletions}
  IN /\ worker = "loop"
     /\ announced' = (announced \cup Active) \ forgotten
     /\ count' = [h \in Texts |-> IF h \in forgotten THEN left ELSE deletions[h]]
     /\ net' = net \cup {Announcement(h) : h \in active} \cup {Deletion(h) : h \in gone}
     /\ ever' = ever \cup Active
     /\ revoked' = revoked \cup gone
     /\ sent' = [h \in Texts |-> IF h \in Active THEN 0
                                 ELSE IF h \in gone THEN sent[h] + 1 ELSE sent[h]]
     /\ UNCHANGED <<sources, version, sec, worker, remote, flips, faults>>

(* Mutants: the count survives a new announcement; it survives the last    *)
(* deletion; a text is announced only once.                                *)
ProcessSapCountKept == Announce(Active, {}, 0)
ProcessSapCountLeft == Announce(Active, Active, MaxDeletions)
ProcessSapOnce == Announce(Active \ announced, Active, 0)

ProcessSap == Announce(Active, Active, 0)

(* terminate() clears running_; the worker leaves its loop and sends one   *)
(* deletion for every text it still tracks.                                *)
Terminate ==
  /\ worker = "loop"
  /\ worker' = "stopping"
  /\ UNCHANGED <<sources, version, sec, announced, count, net, remote, flips, faults, ever, sent, revoked>>

Exit(withdrawn) ==
  /\ worker = "stopping"
  /\ worker' = "exited"
  /\ net' = net \cup {Deletion(h) : h \in withdrawn}
  /\ sent' = [h \in Texts |-> IF h \in withdrawn THEN sent[h] + 1 ELSE sent[h]]
  /\ revoked' = revoked \cup withdrawn
  /\ UNCHANGED <<sources, version, sec, announced, count, remote, flips, faults, ever>>

(* Mutant: only the deletions already begun are finished.                  *)
WorkerExitPending == Exit({h \in announced : count[h] > 0})

WorkerExit == Exit(announced)

-----------------------------------------------------------------------------
(* Mutant: sessions are told apart by the id of their source.              *)
DeliverById(m) ==
  /\ m \in net
  /\ remote' = IF m[1] = "announcement" THEN remote \cup {m[2]}
               ELSE {h \in remote : h[1] # m[2][1]}

(* The remote browser: a session it does not know is added, one it is told *)
(* is deleted is removed.                                                  *)
Deliver(m) ==
  /\ m \in net
  /\ remote' = IF m[1] = "announcement" THEN remote \cup {m[2]} ELSE remote \ {m[2]}

Receive(m) ==
  /\ Deliver(m)
  /\ net' = net \ {m}
  /\ UNCHANGED <<sources, version, sec, announced, count, worker, flips, faults, ever, sent, revoked>>

Duplicate(m) ==
  /\ faults < MaxFaults
  /\ Deliver(m)
  /\ faults' = faults + 1
  /\ UNCHANGED <<sources, version, sec, announced, count, worker, net, flips, ever, sent, revoked>>

Lose(m) ==
  /\ faults < MaxFaults /\ m \in net
  /\ net' = net \ {m}
  /\ faults' = faults + 1
  /\ UNCHANGED <<sources, version, sec, announced, count, worker, remote, flips, ever, sent, revoked>>

(* What the announcer wants the others to know.                            *)
Wanted == IF worker = "exited" THEN {} ELSE Active

(* The browser times out a session that is announced no more.  (When it    *)
(* does so is the subject of SapBrowser.)                                  *)
Expire(h) ==
  /\ h \in remote \ Wanted /\ Announcement(h) \notin net
  /\ remote' = remote \ {h}
  /\ UNCHANGED <<sources, version, sec, announced, count, worker, net, flips, faults, ever, sent, revoked>>

-----------------------------------------------------------------------------
Next ==
  \/ \E i \in Ids : AddSource(i) \/ RemoveSource(i)
  \/ OnUpdateSources \/ SecondaryChange
  \/ ProcessSap \/ Terminate \/ WorkerExit
  \/ \E m \in Messages : Receive(m) \/ Duplicate(m) \/ Lose(m)
  \/ \E h \in Texts : Expire(h)

(* The worker's loop runs until it is told to stop, the messages that are  *)
(* not lost arrive, and the browser checks its timeouts again and again.   *)
Fairness ==
  /\ WF_vars(ProcessSap) /\ WF_vars(WorkerExit)
  /\ \A m \in Messages : WF_vars(Receive(m))
  /\ \A h \in Texts : WF_vars(Expire(h))

Spec == Init /\ [][Next]_vars

FairSpec == Spec /\ Fairness

-----------------------------------------------------------------------------
(* Properties.                                                             *)

(* A text that was announced is forgotten only after exactly MaxDeletions  *)
(* deletions were sent since its last announcement, also when it came back *)
(* while it was being deleted, and one still tracked has had fewer.        *)
DeletionsThreefold ==
  worker # "exited" =>
    \A h \in ever : IF h \in announced THEN sent[h] < MaxDeletions
                                       ELSE sent[h] = MaxDeletions

(* When the worker has ended, every text it ever announced was withdrawn   *)
(* after its last announcement, and none more than MaxDeletions times.     *)
ShutdownWithdraws ==
  worker = "exited" => \A h \in ever : sent[h] \in 1..MaxDeletions

(* Once the sources stay as they are, the remote browser ends up with      *)
(* exactly their current descriptions, and with none after a shutdown,     *)
(* whatever was lost, repeated or overtaken on the way.                    *)
RemoteConverges == <>[](remote = Wanted)

(* What the remote node sees of the announcer is the directory promised:   *)
(* only texts that were announced, kept unless revoked, and following the  *)
(* sources in the end.                                                     *)
Directory == INSTANCE RemoteDirectory
  WITH published <- Wanted, announced <- ever, listed <- remote

ImplementsDirectory == Directory!FairSpec
=============================================================================
