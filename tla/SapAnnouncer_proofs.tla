------------------------ MODULE SapAnnouncer_proofs ------------------------
(* The deletion discipline of SapAnnouncer, for any sources, any number of *)
(* deletions and any bounds.                                               *)
EXTENDS SapAnnouncer, TLAPS

(* What the two properties rest on: while the worker runs, the count it    *)
(* keeps for a text it tracks is the number of deletions really sent.      *)
CountsExact ==
  /\ announced \subseteq ever
  /\ worker # "exited" => \A h \in announced : sent[h] = count[h]

IInv == TypeOK /\ CountsExact /\ DeletionsThreefold /\ ShutdownWithdraws

(* The state of the announcer, apart from the sources and the network.     *)
announcer == <<announced, count, worker, ever, sent>>

(* Nothing has been announced initially.                                   *)
LEMMA InitIInv == Init => IInv
  BY SapConstants
     DEF Init, IInv, TypeOK, CountsExact, DeletionsThreefold, ShutdownWithdraws,
         None, Texts, Messages

(* Steps of the sources, the network and the browser leave it alone.       *)
LEMMA OtherStep ==
  ASSUME IInv, UNCHANGED announcer, TypeOK'
  PROVE  IInv'
  BY DEF IInv, announcer, CountsExact, DeletionsThreefold, ShutdownWithdraws

(* The texts of the active sources are texts.                              *)
LEMMA ActiveTexts == TypeOK => Active \subseteq Texts
  <1> SUFFICES ASSUME TypeOK, NEW i \in Ids, sources[i] # None
               PROVE  Text(i) \in Texts
    BY DEF Active
  <1>1. sources[i] \in 1..MaxVersion
    BY SapConstants DEF TypeOK, None
  <1> QED
    BY <1>1 DEF TypeOK, Text, Texts

(* One round of announcements and deletions.                               *)
LEMMA ProcessSapStep ==
  ASSUME IInv, ProcessSap
  PROVE  IInv'
  <1> DEFINE gone == announced \ Active
             deletions == [h \in Texts |-> IF h \in gone THEN count[h] + 1
                                           ELSE IF h \in Active THEN 0 ELSE count[h]]
             forgotten == {h \in gone : deletions[h] >= MaxDeletions}
  <1>1. /\ worker = "loop" /\ worker' = "loop"
        /\ announced' = (announced \cup Active) \ forgotten
        /\ count' = [h \in Texts |-> IF h \in forgotten THEN 0 ELSE deletions[h]]
        /\ net' = net \cup {Announcement(h) : h \in Active} \cup {Deletion(h) : h \in gone}
        /\ ever' = ever \cup Active /\ revoked' = revoked \cup gone
        /\ sent' = [h \in Texts |-> IF h \in Active THEN 0
                                    ELSE IF h \in gone THEN sent[h] + 1 ELSE sent[h]]
        /\ UNCHANGED <<sources, version, sec, worker, remote, flips, faults>>
    BY DEF ProcessSap, Announce
  <1>2. /\ announced \subseteq Texts /\ Active \subseteq Texts /\ ever \subseteq Texts
        /\ announced \subseteq ever /\ MaxDeletions \in Nat \ {0}
        /\ count \in [Texts -> 0..MaxDeletions - 1] /\ sent \in [Texts -> Nat]
        /\ \A h \in Texts : count[h] > 0 => h \in announced
        /\ \A h \in announced : sent[h] = count[h]
        /\ \A h \in ever \ announced : sent[h] = MaxDeletions
    BY <1>1, ActiveTexts, SapConstants
       DEF IInv, TypeOK, CountsExact, DeletionsThreefold
  <1>3. \A h \in Texts :
          deletions[h] = IF h \in gone THEN count[h] + 1
                         ELSE IF h \in Active THEN 0 ELSE count[h]
    OBVIOUS
  <1> HIDE DEF deletions
  <1>4. \A h \in Texts : deletions[h] \in 0..MaxDeletions
    BY <1>2, <1>3
  <1>5. \A h \in gone : h \in forgotten <=> deletions[h] = MaxDeletions
    BY <1>2, <1>4
  <1>6. /\ \A h \in Active : sent'[h] = 0 /\ count'[h] = 0 /\ h \in announced'
        /\ \A h \in gone : /\ sent'[h] = count[h] + 1
                           /\ IF h \in announced' THEN count'[h] = count[h] + 1
                                                       /\ count[h] + 1 < MaxDeletions
                              ELSE count[h] + 1 = MaxDeletions /\ count'[h] = 0
        /\ \A h \in Texts : h \notin Active \cup gone =>
             sent'[h] = sent[h] /\ count'[h] = 0 /\ h \notin announced'
    BY <1>1, <1>2, <1>3, <1>4, <1>5
  <1>7. announced' \subseteq ever' /\ announced' \subseteq Texts /\ ever' \subseteq Texts
    BY <1>1, <1>2
  <1>8. net' \subseteq Messages
    BY <1>1, <1>2 DEF IInv, TypeOK, Messages, Announcement, Deletion
  <1>9. /\ count' \in [Texts -> 0..MaxDeletions - 1]
        /\ \A h \in Texts : count'[h] > 0 => h \in announced'
    <2>1. \A h \in Texts : h \in Active \/ h \in gone \/ h \notin Active \cup gone
      OBVIOUS
    <2>2. \A h \in Texts : count[h] \in 0..MaxDeletions - 1
      BY <1>2
    <2> HIDE DEF gone, forgotten
    <2>3. \A h \in Texts : count'[h] \in 0..MaxDeletions - 1
                           /\ (count'[h] > 0 => h \in announced')
      BY <1>2, <1>6, <2>1, <2>2
    <2> QED
      BY <1>1, <2>3
  <1>10. sent' \in [Texts -> Nat]
    BY <1>1, <1>2
  <1>11. TypeOK'
    <2>1. revoked' \subseteq Texts
      BY <1>1, <1>2 DEF IInv, TypeOK
    <2> QED
      BY <1>1, <1>7, <1>8, <1>9, <1>10, <2>1 DEF IInv, TypeOK
  <1>12. CountsExact'
    BY <1>1, <1>2, <1>6, <1>7 DEF CountsExact
  <1>13. DeletionsThreefold'
    <2>1. ASSUME NEW h \in ever'
          PROVE  IF h \in announced' THEN sent'[h] < MaxDeletions
                                     ELSE sent'[h] = MaxDeletions
      <3>1. CASE h \in Active
        BY <1>2, <1>6, <3>1
      <3>2. CASE h \in gone
        BY <1>2, <1>6, <3>2
      <3>3. CASE h \notin Active \cup gone
        BY <1>1, <1>2, <1>6, <2>1, <3>3
      <3> QED
        BY <3>1, <3>2, <3>3
    <2> QED
      BY <2>1 DEF DeletionsThreefold
  <1>14. ShutdownWithdraws'
    BY <1>1 DEF ShutdownWithdraws
  <1> QED
    BY <1>11, <1>12, <1>13, <1>14 DEF IInv

(* The deletions the worker sends when it ends.                            *)
LEMMA WorkerExitStep ==
  ASSUME IInv, WorkerExit
  PROVE  IInv'
  <1>1. /\ worker = "stopping" /\ worker' = "exited"
        /\ net' = net \cup {Deletion(h) : h \in announced}
        /\ revoked' = revoked \cup announced
        /\ sent' = [h \in Texts |-> IF h \in announced THEN sent[h] + 1 ELSE sent[h]]
        /\ UNCHANGED <<sources, version, sec, announced, count, remote, flips, faults, ever>>
    BY DEF WorkerExit, Exit
  <1>2. /\ announced \subseteq Texts /\ ever \subseteq Texts
        /\ sent \in [Texts -> Nat] /\ MaxDeletions \in Nat \ {0}
        /\ \A h \in ever : IF h \in announced THEN sent[h] < MaxDeletions
                                              ELSE sent[h] = MaxDeletions
    BY <1>1, SapConstants DEF IInv, TypeOK, DeletionsThreefold
  <1>3. TypeOK'
    <2>1. net' \subseteq Messages
      BY <1>1, <1>2 DEF IInv, TypeOK, Messages, Deletion
    <2>2. sent' \in [Texts -> Nat]
      BY <1>1, <1>2
    <2> QED
      BY <1>1, <2>1, <2>2 DEF IInv, TypeOK
  <1>4. ShutdownWithdraws'
    BY <1>1, <1>2 DEF ShutdownWithdraws
  <1> QED
    BY <1>1, <1>3, <1>4 DEF IInv, CountsExact, DeletionsThreefold

(* Every step keeps the invariant.                                         *)
LEMMA NextIInv == IInv /\ [Next]_vars => IInv'
  <1> SUFFICES ASSUME IInv, [Next]_vars PROVE IInv'
    OBVIOUS
  <1>1. ASSUME NEW i \in Ids, AddSource(i) PROVE IInv'
    <2>1. TypeOK'
      BY <1>1, SapConstants DEF AddSource, IInv, TypeOK
    <2> QED
      BY <1>1, <2>1, OtherStep DEF AddSource, announcer
  <1>2. ASSUME NEW i \in Ids, RemoveSource(i) PROVE IInv'
    <2>1. TypeOK'
      BY <1>2, SapConstants DEF RemoveSource, IInv, TypeOK, None
    <2> QED
      BY <1>2, <2>1, OtherStep DEF RemoveSource, announcer
  <1>3. CASE OnUpdateSources
    <2>1. TypeOK'
      BY <1>3, SapConstants DEF OnUpdateSources, IInv, TypeOK, None
    <2> QED
      BY <1>3, <2>1, OtherStep DEF OnUpdateSources, announcer
  <1>4. CASE SecondaryChange
    <2>1. TypeOK'
      BY <1>4, SapConstants DEF SecondaryChange, IInv, TypeOK
    <2> QED
      BY <1>4, <2>1, OtherStep DEF SecondaryChange, announcer
  <1>5. CASE ProcessSap
    BY <1>5, ProcessSapStep
  <1>6. CASE Terminate
    BY <1>6 DEF Terminate, IInv, TypeOK, CountsExact, DeletionsThreefold, ShutdownWithdraws
  <1>7. CASE WorkerExit
    BY <1>7, WorkerExitStep
  <1>8. ASSUME NEW m \in Messages, Receive(m) \/ Duplicate(m) \/ Lose(m) PROVE IInv'
    <2>1. m[2] \in Texts
      BY DEF Messages
    <2>2. TypeOK'
      BY <1>8, <2>1, SapConstants DEF Receive, Duplicate, Lose, Deliver, IInv, TypeOK
    <2> QED
      BY <1>8, <2>2, OtherStep DEF Receive, Duplicate, Lose, Deliver, announcer
  <1>9. ASSUME NEW h \in Texts, Expire(h) PROVE IInv'
    <2>1. TypeOK'
      BY <1>9 DEF Expire, IInv, TypeOK
    <2> QED
      BY <1>9, <2>1, OtherStep DEF Expire, announcer
  <1>10. CASE UNCHANGED vars
    <2>1. TypeOK'
      BY <1>10 DEF vars, IInv, TypeOK
    <2> QED
      BY <1>10, <2>1, OtherStep DEF vars, announcer
  <1> QED
    BY <1>1, <1>2, <1>3, <1>4, <1>5, <1>6, <1>7, <1>8, <1>9, <1>10 DEF Next

(* A withdrawn session is deleted exactly MaxDeletions times before it is  *)
(* forgotten, whatever is added, removed or changed back meanwhile.        *)
THEOREM DeletionsCounted == Spec => []DeletionsThreefold
  <1>1. IInv => DeletionsThreefold
    BY DEF IInv
  <1> QED
    BY <1>1, InitIInv, NextIInv, PTL DEF Spec

(* After the worker has ended nothing it announced is left unwithdrawn.    *)
THEOREM NothingLeftAnnounced == Spec => []ShutdownWithdraws
  <1>1. IInv => ShutdownWithdraws
    BY DEF IInv
  <1> QED
    BY <1>1, InitIInv, NextIInv, PTL DEF Spec

(* The types, and that counts are kept only for tracked texts.             *)
THEOREM SapTypes == Spec => []TypeOK
  <1>1. IInv => TypeOK
    BY DEF IInv
  <1> QED
    BY <1>1, InitIInv, NextIInv, PTL DEF Spec

-----------------------------------------------------------------------------
(* The refinement: what the network and the browser hold was really said.  *)
Told ==
  /\ remote \subseteq ever
  /\ \A h \in Texts : Announcement(h) \in net => h \in ever
  /\ \A h \in Texts : Deletion(h) \in net => h \in revoked

(* Messages of the two kinds, and of two texts, differ.                    *)
LEMMA MessageShape ==
  /\ \A h, g : Announcement(h) = Announcement(g) => h = g
  /\ \A h, g : Deletion(h) = Deletion(g) => h = g
  /\ \A h, g : Announcement(h) # Deletion(g)
  /\ \A m \in Messages : /\ m[2] \in Texts
                         /\ m[1] = "announcement" => m = Announcement(m[2])
                         /\ m[1] # "announcement" => m = Deletion(m[2])
  BY DEF Announcement, Deletion, Messages

(* Nothing is on the way, or known, that was not announced or revoked.     *)
LEMMA NextTold == IInv /\ Told /\ [Next]_vars => Told'
  <1> SUFFICES ASSUME IInv, Told, [Next]_vars PROVE Told'
    OBVIOUS
  <1>1. CASE ProcessSap
    <2>1. /\ net' = net \cup {Announcement(h) : h \in Active}
                        \cup {Deletion(h) : h \in announced \ Active}
          /\ ever' = ever \cup Active /\ revoked' = revoked \cup (announced \ Active)
          /\ remote' = remote
      BY <1>1 DEF ProcessSap, Announce
    <2> QED
      BY <2>1, MessageShape DEF Told
  <1>2. CASE WorkerExit
    <2>1. /\ net' = net \cup {Deletion(h) : h \in announced}
          /\ ever' = ever /\ revoked' = revoked \cup announced /\ remote' = remote
      BY <1>2 DEF WorkerExit, Exit
    <2> QED
      BY <2>1, MessageShape DEF Told
  <1>3. ASSUME NEW m \in Messages, Receive(m) \/ Duplicate(m) \/ Lose(m) PROVE Told'
    <2>1. /\ net' \subseteq net /\ ever' = ever /\ revoked' = revoked
          /\ \/ remote' = remote
             \/ m \in net /\ m[1] = "announcement" /\ remote' = remote \cup {m[2]}
             \/ remote' = remote \ {m[2]}
      BY <1>3 DEF Receive, Duplicate, Lose, Deliver
    <2> QED
      BY <2>1, MessageShape DEF Told
  <1>4. ASSUME NEW h \in Texts, Expire(h) PROVE Told'
    BY <1>4 DEF Expire, Told
  <1>5. ASSUME NEW i \in Ids, AddSource(i) \/ RemoveSource(i) PROVE Told'
    BY <1>5 DEF AddSource, RemoveSource, Told
  <1>6. CASE OnUpdateSources \/ SecondaryChange \/ Terminate \/ UNCHANGED vars
    BY <1>6 DEF OnUpdateSources, SecondaryChange, Terminate, vars, Told
  <1> QED
    BY <1>1, <1>2, <1>3, <1>4, <1>5, <1>6 DEF Next

(* A step that changes neither the history nor what is known publishes.    *)
LEMMA PublishStep ==
  ASSUME TypeOK', UNCHANGED <<ever, revoked, remote>>
  PROVE  Directory!Next
  <1>1. Wanted' \subseteq Texts
    <2> SUFFICES ASSUME NEW i \in Ids, sources'[i] # None
                 PROVE  Text(i)' \in Texts
      BY DEF Wanted, Active
    <2>1. sources'[i] \in 1..MaxVersion
      BY SapConstants DEF TypeOK, None
    <2> QED
      BY <2>1 DEF TypeOK, Text, Texts
  <1> QED
    BY <1>1 DEF Directory!Next, Directory!Publish

(* Every step of the announcer, the network and the browser is a step of   *)
(* the directory or changes nothing of it.                                 *)
LEMMA StepImplements ==
  IInv /\ IInv' /\ Told /\ [Next]_vars => [Directory!Next]_Directory!vars
  <1> SUFFICES ASSUME IInv, IInv', Told, [Next]_vars
               PROVE  Directory!Next \/ UNCHANGED <<Wanted, ever, revoked, remote>>
    BY DEF Directory!vars
  <1>0. TypeOK /\ TypeOK'
    BY DEF IInv
  <1>1. CASE ProcessSap
    <2>1. /\ worker = "loop" /\ worker' = "loop"
          /\ ever' = ever \cup Active /\ revoked' = revoked \cup (announced \ Active)
          /\ UNCHANGED <<sources, sec, remote>>
      BY <1>1 DEF ProcessSap, Announce
    <2>2. Wanted = Active /\ Wanted' = Wanted
      BY <2>1 DEF Wanted, Active, Text
    <2>3. announced \subseteq ever
      BY DEF IInv, CountsExact
    <2> QED
      BY <2>1, <2>2, <2>3 DEF Directory!Next, Directory!Announce
  <1>2. CASE WorkerExit
    <2>1. /\ worker' = "exited" /\ revoked' = revoked \cup announced
          /\ UNCHANGED <<ever, remote>>
      BY <1>2 DEF WorkerExit, Exit
    <2>2. Wanted' = {}
      BY <2>1 DEF Wanted
    <2>3. announced \subseteq ever
      BY DEF IInv, CountsExact
    <2> QED
      BY <2>1, <2>2, <2>3 DEF Directory!Next, Directory!Leave
  <1>3. ASSUME NEW m \in Messages, Receive(m) \/ Duplicate(m) \/ Lose(m)
        PROVE  Directory!Next \/ UNCHANGED <<Wanted, ever, revoked, remote>>
    <2>1. /\ UNCHANGED <<sources, sec, worker, ever, revoked>>
          /\ \/ remote' = remote
             \/ m \in net /\ m[1] = "announcement" /\ remote' = remote \cup {m[2]}
             \/ m \in net /\ m[1] # "announcement" /\ remote' = remote \ {m[2]}
      BY <1>3 DEF Receive, Duplicate, Lose, Deliver
    <2>2. Wanted' = Wanted
      BY <2>1 DEF Wanted, Active, Text
    <2>3. CASE remote' = remote
      BY <2>1, <2>2, <2>3
    <2>4. CASE m \in net /\ m[1] = "announcement" /\ remote' = remote \cup {m[2]}
      <3>1. m[2] \in Texts /\ m[2] \in ever
        BY <2>4, MessageShape DEF Told
      <3>2. Directory!List(m[2])
        BY <2>1, <2>2, <2>4, <3>1 DEF Directory!List
      <3> QED
        BY <3>1, <3>2 DEF Directory!Next
    <2>5. CASE m \in net /\ m[1] # "announcement" /\ remote' = remote \ {m[2]}
      <3>1. m[2] \in Texts /\ m[2] \in revoked
        BY <2>5, MessageShape DEF Told
      <3>2. Directory!Unlist(m[2])
        BY <2>1, <2>2, <2>5, <3>1 DEF Directory!Unlist
      <3> QED
        BY <3>1, <3>2 DEF Directory!Next
    <2> QED
      BY <2>1, <2>3, <2>4, <2>5
  <1>4. ASSUME NEW h \in Texts, Expire(h) PROVE Directory!Next
    <2>1. /\ UNCHANGED <<sources, sec, worker, ever, revoked>>
          /\ h \notin Wanted /\ remote' = remote \ {h}
      BY <1>4 DEF Expire
    <2>2. Wanted' = Wanted
      BY <2>1 DEF Wanted, Active, Text
    <2>3. Directory!Unlist(h)
      BY <2>1, <2>2 DEF Directory!Unlist
    <2> QED
      BY <2>3 DEF Directory!Next
  <1>5. ASSUME NEW i \in Ids, AddSource(i) \/ RemoveSource(i) PROVE Directory!Next
    BY <1>0, <1>5, PublishStep DEF AddSource, RemoveSource
  <1>6. CASE OnUpdateSources \/ SecondaryChange \/ Terminate \/ UNCHANGED vars
    BY <1>0, <1>6, PublishStep DEF OnUpdateSources, SecondaryChange, Terminate, vars
  <1> QED
    BY <1>1, <1>2, <1>3, <1>4, <1>5, <1>6 DEF Next

(* The announcer, with messages lost, repeated and reordered, implements   *)
(* the directory: the remote node lists only what was announced, and loses *)
(* a text only if a deletion was once sent for it or it is not published.  *)
THEOREM AnnouncerIsDirectory == Spec => Directory!Spec
  <1>1. Init => Told
    BY DEF Init, Told
  <1>2. Init => Directory!Init
    BY DEF Init, Directory!Init, Wanted, Active
  <1> QED
    BY <1>1, <1>2, InitIInv, NextIInv, NextTold, StepImplements, PTL
       DEF Spec, Directory!Spec
=============================================================================
