----------------------- MODULE SessionVersion_proofs -----------------------
(* The counter invariant of SessionVersion, for any set of source ids, any *)
(* number of client threads and any bounds.                                *)
EXTENDS SessionVersion, TLAPS

(* What main has waited for when it has come to a phase.                   *)
Waited ==
  /\ phase # "up" => toload = {} /\ calls[Main] = Idle
  /\ phase \in {"closed", "stopped", "down"} => \A t \in Clients : calls[t] = Idle

(* VersionBelowCounter is inductive together with the types: a draw needs  *)
(* the counter above the table, and Start, which may lower the counter,    *)
(* needs that TypeOK knows of no call and no entry while there is no       *)
(* manager.  That in turn needs the order in which main stops the parts.   *)
IInv == TypeOK /\ VersionBelowCounter /\ Waited

(* The initial state has no versions at all.                               *)
LEMMA InitIInv == Init => IInv
  BY VersionConstants
     DEF Init, IInv, TypeOK, VersionBelowCounter, Waited, Quiescent, Phases,
         Idle, None, Threads, Call

(* An add_source takes a version that is below the counter it leaves; the  *)
(* thread is one main does not wait for, or one it has still to wait for.  *)
LEMMA DrawStep ==
  ASSUME IInv, NEW t \in Threads, NEW id \in Ids, Draw(t, id), phase # "down",
         UNCHANGED <<now, sources, worker, phase, started, file, high, before>>,
         toload' \subseteq toload,
         t = Main => phase = "up",
         t \in Clients => phase \in {"up", "saved"}
  PROVE  IInv'
  <1> DEFINE c == [id |-> id, ver |-> gver]
  <1>1. c \in Call /\ c.ver = gver
    BY VersionConstants DEF IInv, TypeOK, Call
  <1>2. /\ calls' = [calls EXCEPT ![t] = c]
        /\ gver' = gver + 1 /\ gver \in Nat
    BY DEF Draw, IInv, TypeOK
  <1> HIDE DEF c
  <1>3. /\ calls' \in [Threads -> Call \cup {Idle}]
        /\ calls'[t] = c
        /\ \A u \in Threads : u # t => calls'[u] = calls[u]
    BY <1>1, <1>2 DEF IInv, TypeOK
  <1>4. TypeOK'
    <2>1. phase' \in {"stopped", "down"} => Quiescent'
      BY <1>3, VersionConstants DEF IInv, TypeOK, Quiescent, Threads
    <2> QED
      BY <1>2, <1>3, <2>1 DEF IInv, TypeOK
  <1>5. VersionBelowCounter'
    <2>1. ASSUME NEW u \in Threads, calls'[u] # Idle PROVE calls'[u].ver < gver'
      <3>1. CASE u = t
        BY <1>1, <1>2, <1>3, <3>1
      <3>2. CASE u # t
        <4>1. calls[u] # Idle /\ calls[u] \in Call /\ calls'[u] = calls[u]
          BY <1>3, <2>1, <3>2 DEF IInv, TypeOK
        <4> QED
          BY <4>1, <1>2 DEF IInv, VersionBelowCounter, Call
      <3> QED
        BY <3>1, <3>2
    <2>2. ASSUME NEW i \in Ids, sources'[i] # None
          PROVE  sources'[i] <= gver' /\ (worker' = "loop" => sources'[i] < gver')
      <3>1. sources[i] \in Nat /\ sources[i] <= gver
        BY <2>2 DEF IInv, TypeOK, VersionBelowCounter
      <3> QED
        BY <1>2, <3>1
    <2> QED
      BY <2>1, <2>2 DEF VersionBelowCounter
  <1>6. Waited'
    BY <1>3, VersionConstants DEF IInv, Waited, Threads
  <1> QED
    BY <1>4, <1>5, <1>6 DEF IInv

(* A call that ends leaves the other calls alone, and stores at most the   *)
(* version it drew.                                                        *)
LEMMA EndStep ==
  ASSUME IInv, NEW t \in Threads, calls[t] # Idle, NEW v \in {None, calls[t].ver},
         sources' = [sources EXCEPT ![calls[t].id] = v],
         calls' = [calls EXCEPT ![t] = Idle],
         high' \in [Ids -> Nat \cup {None}],
         UNCHANGED <<now, gver, worker, phase, started, file, toload, before>>
  PROVE  IInv'
  <1>1. /\ calls[t] \in Call /\ calls[t].ver \in Nat /\ calls[t].ver < gver
        /\ gver \in Nat /\ phase # "down"
    BY DEF IInv, TypeOK, VersionBelowCounter, Call
  <1>2. /\ calls' \in [Threads -> Call \cup {Idle}]
        /\ \A u \in Threads : calls'[u] # Idle => calls'[u] = calls[u]
        /\ \A u \in Threads : calls[u] = Idle => calls'[u] = Idle
    BY DEF IInv, TypeOK
  <1>3. /\ sources' \in [Ids -> Nat \cup {None}]
        /\ \A i \in Ids : sources'[i] \in {sources[i], None, calls[t].ver}
    BY <1>1 DEF IInv, TypeOK, Call
  <1>4. TypeOK'
    BY <1>1, <1>2, <1>3 DEF IInv, TypeOK, Quiescent
  <1>5. VersionBelowCounter'
    BY <1>1, <1>2, <1>3 DEF IInv, TypeOK, VersionBelowCounter
  <1>6. Waited'
    BY <1>2, VersionConstants DEF IInv, Waited, Threads
  <1> QED
    BY <1>4, <1>5, <1>6 DEF IInv

(* Publishing keeps the history of versions typed.                         *)
LEMMA PublishTyped ==
  ASSUME TypeOK, NEW s \in [Ids -> Nat \cup {None}], Publish(s)
  PROVE  sources' = s /\ high' \in [Ids -> Nat \cup {None}]
  BY DEF TypeOK, Publish

(* Every step keeps the invariant.                                         *)
LEMMA NextIInv == IInv /\ [Next]_vars => IInv'
  <1> SUFFICES ASSUME IInv, [Next]_vars PROVE IInv'
    OBVIOUS
  <1> USE DEF IInv
  <1>1. ASSUME NEW t \in Clients \cup Detached, NEW id \in Ids, AddSource(t, id)
        PROVE  IInv'
    <2>1. t \in Threads /\ t # Main /\ (t \in Clients => t \notin Detached)
      BY VersionConstants DEF Threads
    <2> QED
      BY <1>1, <2>1, DrawStep DEF AddSource
  <1>2. CASE LoadSource
    <2>1. PICK id \in toload : Draw(Main, id) /\ toload' = toload \ {id}
      BY <1>2 DEF LoadSource
    <2>2. /\ id \in Ids /\ Main \in Threads /\ Main \notin Clients
          /\ toload' \subseteq toload /\ phase = "up"
      BY <2>1, VersionConstants DEF TypeOK, Threads, Waited
    <2> QED
      BY <1>2, <2>1, <2>2, DrawStep DEF LoadSource
  <1>3. ASSUME NEW t \in Threads, Commit(t) PROVE IInv'
    <2>1. calls[t] \in Call
      BY <1>3 DEF Commit, TypeOK
    <2>2. [sources EXCEPT ![calls[t].id] = calls[t].ver] \in [Ids -> Nat \cup {None}]
      BY <2>1 DEF TypeOK, Call
    <2> QED
      BY <1>3, <2>2, PublishTyped, EndStep DEF Commit
  <1>4. ASSUME NEW t \in Threads, Refuse(t) PROVE IInv'
    BY <1>4, EndStep DEF Refuse, TypeOK
  <1>5. ASSUME NEW id \in Ids, RemoveSource(id) PROVE IInv'
    <2>1. /\ sources' \in [Ids -> Nat \cup {None}]
          /\ \A i \in Ids : sources'[i] \in {sources[i], None}
      BY <1>5 DEF RemoveSource, TypeOK
    <2> QED
      BY <1>5, <2>1 DEF RemoveSource, TypeOK, VersionBelowCounter, Waited
  <1>6. CASE OnUpdateSources
    <2> DEFINE s == [i \in Ids |-> IF sources[i] # None THEN sources[i] + 1 ELSE None]
    <2>1. s \in [Ids -> Nat \cup {None}]
      BY DEF TypeOK
    <2>2. Publish(s)
      BY <1>6 DEF OnUpdateSources
    <2>3. \A i \in Ids : s[i] # None => s[i] = sources[i] + 1 /\ sources[i] \in Nat
                                        /\ sources[i] # None
      BY DEF TypeOK
    <2> HIDE DEF s
    <2>4. sources' = s /\ high' \in [Ids -> Nat \cup {None}]
      BY <2>1, <2>2, PublishTyped
    <2>5. TypeOK'
      BY <1>6, <2>1, <2>4 DEF OnUpdateSources, TypeOK
    <2>6. VersionBelowCounter'
      BY <1>6, <2>3, <2>4 DEF OnUpdateSources, TypeOK, VersionBelowCounter
    <2> QED
      BY <1>6, <2>5, <2>6 DEF OnUpdateSources, Waited
  <1>7. CASE CounterUpdate
    <2>1. \A t \in Threads : calls[t] # Idle => calls[t].ver \in Nat
      BY DEF TypeOK, Call
    <2>2. VersionBelowCounter'
      BY <1>7, <2>1 DEF CounterUpdate, TypeOK, VersionBelowCounter
    <2>3. TypeOK'
      BY <1>7 DEF CounterUpdate, TypeOK, Quiescent
    <2> QED
      BY <1>7, <2>2, <2>3 DEF CounterUpdate, Waited
  <1>8. CASE SaveStatus
    BY <1>8 DEF SaveStatus, TypeOK, Quiescent, Phases, VersionBelowCounter, Waited
  <1>9. CASE HttpStop
    BY <1>9 DEF HttpStop, TypeOK, Quiescent, Phases, VersionBelowCounter, Waited
  <1>10. CASE Terminate
    <2>1. phase = "closed" /\ worker = "loop" /\ phase' = "stopped"
          /\ UNCHANGED <<now, gver, calls, worker, started, file, toload, high, before>>
          /\ sources' = [i \in Ids |-> None]
      BY <1>10 DEF Terminate, Stop
    <2>2. Quiescent'
      BY <2>1 DEF Quiescent, Waited, Threads
    <2> QED
      BY <2>1, <2>2 DEF TypeOK, Phases, VersionBelowCounter, Waited, None
  <1>11. CASE Destroy
    BY <1>11 DEF Destroy, TypeOK, Quiescent, Phases, VersionBelowCounter, Waited,
                 Threads, None
  <1>12. CASE Start
    <2>1. \A t \in Threads : calls[t] = Idle
      BY <1>12 DEF Start, TypeOK
    <2> QED
      BY <1>12, <2>1 DEF Start, TypeOK, Quiescent, Phases, VersionBelowCounter, Waited
  <1>13. CASE Tick
    BY <1>13 DEF Tick, TypeOK, Quiescent, VersionBelowCounter, Waited
  <1>14. CASE UNCHANGED vars
    BY <1>14 DEF vars, TypeOK, Quiescent, VersionBelowCounter, Waited
  <1> QED
    BY <1>1, <1>2, <1>3, <1>4, <1>5, <1>6, <1>7, <1>8, <1>9, <1>10, <1>11, <1>12,
       <1>13, <1>14 DEF Next, Horizon

(* g_session_version stays above every version stored or drawn, in every   *)
(* interleaving of add_source, the worker and restarts.                    *)
THEOREM CounterAhead == Spec => []VersionBelowCounter
  <1>1. IInv => VersionBelowCounter
    BY DEF IInv
  <1> QED
    BY <1>1, InitIInv, NextIInv, PTL DEF Spec

(* The types, and that of all its callers a terminated session manager has *)
(* only the detached NMOS threads left: main stops the others first, in    *)
(* every interleaving.                                                     *)
THEOREM VersionTypes == Spec => []TypeOK
  <1>1. IInv => TypeOK
    BY DEF IInv
  <1> QED
    BY <1>1, InitIInv, NextIInv, PTL DEF Spec

(* Nothing in a run is older than its start.                               *)
Floor ==
  phase # "down" =>
    /\ gver >= started
    /\ \A t \in Threads : calls[t] # Idle => calls[t].ver >= started
    /\ \A i \in Ids : sources[i] # None => sources[i] >= started

(* Every step keeps the floor: versions come from the counter or from a    *)
(* version that is raised, and a new run starts with no call and no entry. *)
LEMMA NextFloor == IInv /\ Floor /\ [Next]_vars => Floor'
  <1> SUFFICES ASSUME IInv, Floor, [Next]_vars PROVE Floor'
    OBVIOUS
  <1>0. TypeOK
    BY DEF IInv
  <1>1. ASSUME NEW t \in Threads, NEW id \in Ids, Draw(t, id),
               phase # "down", UNCHANGED <<sources, phase, started>>
        PROVE  Floor'
    <2>1. /\ calls'[t].ver = gver /\ gver' = gver + 1 /\ gver \in Nat
          /\ started \in Nat
          /\ \A u \in Threads : u # t => calls'[u] = calls[u]
      BY <1>0, <1>1 DEF Draw, TypeOK
    <2> QED
      BY <1>1, <2>1 DEF Floor
  <1>2. ASSUME NEW t \in Threads, Commit(t) PROVE Floor'
    <2>1. /\ calls[t] \in Call /\ phase # "down"
          /\ \A u \in Threads : calls'[u] # Idle => calls'[u] = calls[u]
          /\ \A i \in Ids : sources'[i] \in {sources[i], calls[t].ver}
      BY <1>0, <1>2 DEF Commit, Publish, TypeOK
    <2> QED
      BY <1>2, <2>1 DEF Floor, Commit
  <1>3. ASSUME NEW t \in Threads, Refuse(t) PROVE Floor'
    <2>1. /\ phase # "down"
          /\ \A u \in Threads : calls'[u] # Idle => calls'[u] = calls[u]
          /\ \A i \in Ids : sources'[i] \in {sources[i], None}
      BY <1>0, <1>3 DEF Refuse, TypeOK
    <2> QED
      BY <1>3, <2>1 DEF Floor, Refuse
  <1>4. ASSUME NEW id \in Ids, RemoveSource(id) PROVE Floor'
    <2>1. \A i \in Ids : sources'[i] \in {sources[i], None}
      BY <1>0, <1>4 DEF RemoveSource, TypeOK
    <2> QED
      BY <1>4, <2>1 DEF Floor, RemoveSource
  <1>5. CASE OnUpdateSources
    <2>1. \A i \in Ids : sources'[i] # None =>
            sources[i] # None /\ sources[i] \in Nat /\ sources'[i] = sources[i] + 1
      BY <1>0, <1>5 DEF OnUpdateSources, Publish, TypeOK
    <2>2. started \in Nat
      BY <1>0 DEF TypeOK
    <2> QED
      BY <1>5, <2>1, <2>2 DEF Floor, OnUpdateSources
  <1>6. CASE CounterUpdate
    BY <1>0, <1>6 DEF Floor, CounterUpdate, TypeOK
  <1>7. CASE SaveStatus \/ HttpStop
    BY <1>7 DEF Floor, SaveStatus, HttpStop
  <1>8. CASE Terminate \/ Destroy
    BY <1>0, <1>8 DEF Floor, Terminate, Stop, Destroy
  <1>9. CASE Start
    BY <1>0, <1>9 DEF Floor, Start, TypeOK
  <1>10. CASE Tick \/ UNCHANGED vars
    BY <1>10 DEF Floor, Tick, vars
  <1>11. ASSUME NEW t \in Clients \cup Detached, NEW id \in Ids, AddSource(t, id)
         PROVE  Floor'
    BY <1>1, <1>11 DEF AddSource, Threads
  <1>12. CASE LoadSource
    <2>1. PICK id \in toload : Draw(Main, id)
      BY <1>12 DEF LoadSource
    <2>2. id \in Ids /\ Main \in Threads /\ phase # "down"
      BY <1>0, <2>1 DEF TypeOK, Quiescent, Threads
    <2> QED
      BY <1>1, <1>12, <2>1, <2>2 DEF LoadSource
  <1> QED
    BY <1>2, <1>3, <1>4, <1>5, <1>6, <1>7, <1>8, <1>9, <1>10, <1>11, <1>12
       DEF Next, Horizon

(* Versions increase between restarts as long as they were given out no    *)
(* faster than one a second.                                               *)
THEOREM RestartsIncrease == Spec => []IncreasingBetweenRestarts
  <1>1. Init => Floor
    BY DEF Init, Floor
  <1>2. IInv /\ Floor => IncreasingBetweenRestarts
    BY DEF IInv, TypeOK, Floor, IncreasingBetweenRestarts, None
  <1> QED
    BY <1>1, <1>2, InitIInv, NextIInv, NextFloor, PTL DEF Spec
=============================================================================
