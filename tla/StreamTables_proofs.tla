------------------------ MODULE StreamTables_proofs ------------------------
(***************************************************************************)
(* Proofs about StreamTables: for every set of ids, names, addresses and   *)
(* handles, and every number of failures.                                  *)
(*                                                                         *)
(* The lemmas say what one driver command, the release of an entry and the *)
(* IGMP side of a call return; the theorems follow by cases over the       *)
(* actions.                                                                *)
(***************************************************************************)
EXTENDS StreamTables, FiniteSetTheorems, TLAPS

-----------------------------------------------------------------------------
(* Driver commands.                                                        *)

Results == {"ok", "error"}

RemoveOK(d, h, r) ==
  /\ r.live \in SUBSET Handles
  /\ r.res \in Results /\ r.fault \in BOOLEAN
  /\ ~r.fault => r.live = d \ {h}
  /\ ~r.fault /\ h \in d => r.res = "ok"

AddOK(d, a) ==
  /\ a.live \in SUBSET Handles
  /\ a.res \in Results /\ a.fault \in BOOLEAN
  /\ a.res = "ok" => a.h \in Handles
  /\ ~a.fault /\ a.res = "ok" => a.h \notin d /\ a.live = d \cup {a.h}
  /\ ~a.fault /\ a.res = "error" => a.live = d

ReleaseOK(d, s, r) ==
  /\ r.live \in SUBSET Handles
  /\ r.fault \in BOOLEAN
  /\ ~r.fault => r.live = d \ Held(s)

RemoveBothOK(d, s, r) ==
  /\ r.live \in SUBSET Handles
  /\ r.res \in Results /\ r.fault \in BOOLEAN
  /\ ~r.fault /\ r.res = "ok" => r.live = d \ Held(s)
  /\ (/\ Held(s) \subseteq d
      /\ s.dup => s.handle[1] # s.handle[2]) => r.fault \/ r.res = "ok"

(* A removal with a reply of its own has the handle gone, and succeeds     *)
(* when the handle was live.                                               *)
LEMMA RemoveFacts ==
  ASSUME NEW d \in SUBSET Handles, NEW h, NEW r \in RemoveResults(d, h)
  PROVE  RemoveOK(d, h, r)
<1>1. \/ r = [live |-> d \ {h}, res |-> IF h \in d THEN "ok" ELSE "error",
              fault |-> FALSE]
      \/ r \in [live : {d, d \ {h}}, res : {"ok", "error"}, fault : {TRUE}]
  BY DEF RemoveResults
<1>2. CASE r = [live |-> d \ {h}, res |-> IF h \in d THEN "ok" ELSE "error",
                fault |-> FALSE]
  BY <1>2 DEF RemoveOK, Results
<1>3. CASE r \in [live : {d, d \ {h}}, res : {"ok", "error"}, fault : {TRUE}]
  <2>1. r.live \in {d, d \ {h}} /\ r.res \in {"ok", "error"} /\ r.fault = TRUE
    BY <1>3
  <2> QED
    BY <2>1 DEF RemoveOK, Results
<1> QED
  BY <1>1, <1>2, <1>3

(* add_rtp_stream returns a handle whenever it returns success; with a     *)
(* reply of its own that handle was free, and an error changed nothing.    *)
LEMMA AddFacts ==
  ASSUME NEW d \in SUBSET Handles, NEW a \in AddResults(d)
  PROVE  AddOK(d, a)
<1> DEFINE done == {d \cup {h} : h \in Handles \ d}
<1>1. \/ \E h \in Handles \ d :
           a = [live |-> d \cup {h}, res |-> "ok", h |-> h, fault |-> FALSE]
      \/ a = [live |-> d, res |-> "error", h |-> Nil, fault |-> FALSE]
      \/ a \in [live : {d} \cup done, res : {"ok"}, h : Handles, fault : {TRUE}]
      \/ a \in [live : done, res : {"error"}, h : {Nil}, fault : {TRUE}]
  BY DEF AddResults
<1>2. done \subseteq SUBSET Handles
  OBVIOUS
<1> HIDE DEF done
<1>3. CASE \E h \in Handles \ d :
             a = [live |-> d \cup {h}, res |-> "ok", h |-> h, fault |-> FALSE]
  BY <1>3 DEF AddOK, Results
<1>4. CASE a = [live |-> d, res |-> "error", h |-> Nil, fault |-> FALSE]
  BY <1>4 DEF AddOK, Results
<1>5. CASE a \in [live : {d} \cup done, res : {"ok"}, h : Handles, fault : {TRUE}]
  <2>1. a.live \in {d} \cup done /\ a.res = "ok" /\ a.h \in Handles /\ a.fault = TRUE
    BY <1>5
  <2> QED
    BY <1>2, <2>1 DEF AddOK, Results
<1>6. CASE a \in [live : done, res : {"error"}, h : {Nil}, fault : {TRUE}]
  <2>1. a.live \in done /\ a.res = "error" /\ a.fault = TRUE
    BY <1>6
  <2> QED
    BY <1>2, <2>1 DEF AddOK, Results
<1> QED
  BY <1>1, <1>3, <1>4, <1>5, <1>6

(* The result of the second of two removals, with the faults of both.      *)
LEMMA ResultShape ==
  ASSUME NEW d, NEW h, NEW r2 \in RemoveResults(d, h), NEW f \in BOOLEAN,
         NEW r, r = [r2 EXCEPT !.fault = f]
  PROVE  r.live = r2.live /\ r.res = r2.res /\ r.fault = f
<1>1. \/ r2 = [live |-> d \ {h}, res |-> IF h \in d THEN "ok" ELSE "error",
               fault |-> FALSE]
      \/ r2 \in [live : {d, d \ {h}}, res : {"ok", "error"}, fault : {TRUE}]
  BY DEF RemoveResults
<1>2. CASE r2 = [live |-> d \ {h}, res |-> IF h \in d THEN "ok" ELSE "error",
                 fault |-> FALSE]
  BY <1>2
<1>3. CASE r2 \in [live : {d, d \ {h}}, res : {"ok", "error"}, fault : {TRUE}]
  BY <1>3
<1> QED
  BY <1>1, <1>2, <1>3

(* Releasing the legs of an entry one after the other takes exactly the    *)
(* streams it holds.                                                       *)
LEMMA ReleaseFacts ==
  ASSUME NEW d \in SUBSET Handles, NEW s \in Stream,
         NEW r \in ReleaseResults(d, s)
  PROVE  ReleaseOK(d, s, r)
<1>1. CASE s.state # "enabled"
  <2>1. r = [live |-> d, res |-> "ok", fault |-> FALSE]
    BY <1>1 DEF ReleaseResults
  <2>2. Held(s) = {}
    BY <1>1 DEF Held
  <2> QED
    BY <2>1, <2>2 DEF ReleaseOK, Results
<1>2. CASE s.state = "enabled" /\ ~s.dup
  <2>1. r \in RemoveResults(d, s.handle[1])
    BY <1>2 DEF ReleaseResults
  <2>2. RemoveOK(d, s.handle[1], r)
    BY <2>1, RemoveFacts
  <2> QED
    BY <1>2, <2>2 DEF RemoveOK, ReleaseOK, Held
<1>3. CASE s.state = "enabled" /\ s.dup
  <2>1. PICK r1 \in RemoveResults(d, s.handle[1]) :
          \E r2 \in RemoveResults(r1.live, s.handle[2]) :
            r = [r2 EXCEPT !.fault = r1.fault \/ r2.fault]
    BY <1>3 DEF ReleaseResults
  <2>2. PICK r2 \in RemoveResults(r1.live, s.handle[2]) :
          r = [r2 EXCEPT !.fault = r1.fault \/ r2.fault]
    BY <2>1
  <2>3. RemoveOK(d, s.handle[1], r1)
    BY RemoveFacts
  <2>4. RemoveOK(r1.live, s.handle[2], r2)
    <3>1. r1.live \in SUBSET Handles
      BY <2>3 DEF RemoveOK
    <3> QED  BY <3>1, RemoveFacts
  <2>5. /\ r.live = r2.live /\ r.fault \in BOOLEAN
        /\ ~r.fault => ~r1.fault /\ ~r2.fault
    BY <2>2, <2>3, <2>4, ResultShape DEF RemoveOK
  <2> QED
    BY <1>3, <2>3, <2>4, <2>5 DEF RemoveOK, ReleaseOK, Held
<1> QED
  BY <1>1, <1>2, <1>3 DEF Stream

(* remove_source and remove_sink: the entry is given up only once all its  *)
(* streams are gone, and while the driver still runs them all the result   *)
(* is never a plain error.                                                 *)
LEMMA RemoveBothFacts ==
  ASSUME NEW d \in SUBSET Handles, NEW s \in Stream,
         NEW r \in RemoveResultsBoth(d, s)
  PROVE  RemoveBothOK(d, s, r)
<1>1. CASE s.state # "enabled"
  <2>1. r = [live |-> d, res |-> "ok", fault |-> FALSE]
    BY <1>1 DEF RemoveResultsBoth
  <2>2. Held(s) = {}
    BY <1>1 DEF Held
  <2> QED
    BY <2>1, <2>2 DEF RemoveBothOK, Results
<1>2. CASE s.state = "enabled"
  <2>1. PICK r1 \in RemoveResults(d, s.handle[1]) :
          r \in IF r1.res = "ok" /\ s.dup
                THEN {[r2 EXCEPT !.fault = r1.fault \/ r2.fault] :
                        r2 \in RemoveResults(r1.live, s.handle[2])}
                ELSE {r1}
    BY <1>2 DEF RemoveResultsBoth
  <2>2. RemoveOK(d, s.handle[1], r1)
    BY RemoveFacts
  <2>3. CASE r1.res = "ok" /\ s.dup
    <3>1. PICK r2 \in RemoveResults(r1.live, s.handle[2]) :
            r = [r2 EXCEPT !.fault = r1.fault \/ r2.fault]
      BY <2>1, <2>3
    <3>2. r1.live \in SUBSET Handles
      BY <2>2 DEF RemoveOK
    <3>3. RemoveOK(r1.live, s.handle[2], r2)
      BY <3>2, RemoveFacts
    <3>4. /\ r.live = r2.live /\ r.res = r2.res /\ r.fault \in BOOLEAN
          /\ r.fault <=> r1.fault \/ r2.fault
      BY <2>2, <3>1, <3>3, ResultShape DEF RemoveOK
    <3> QED
      BY <1>2, <2>2, <2>3, <3>3, <3>4 DEF RemoveOK, RemoveBothOK, Held
  <2>4. CASE ~(r1.res = "ok" /\ s.dup)
    BY <1>2, <2>1, <2>2, <2>4 DEF RemoveOK, RemoveBothOK, Held, Stream
  <2> QED
    BY <2>3, <2>4
<1> QED
  BY <1>1, <1>2

-----------------------------------------------------------------------------
(* IGMP.                                                                   *)

Groups == [Legs -> [McastAddrs -> Group]]

GroupOK(j) == j.g \in Group

(* A join or a leave of one group, successful or not, keeps its entry an   *)
(* entry: the count does not go below zero.                                *)
LEMMA JoinTyped ==
  ASSUME NEW g \in Group, NEW j \in JoinResults(g)
  PROVE  GroupOK(j)
<1> DEFINE more == [ref |-> g.ref + 1, member |-> g.member]
           one  == [ref |-> 1, member |-> TRUE]
<1>1. \/ j = [g |-> more, res |-> "ok"]
      \/ j = [g |-> g, res |-> "error"]
      \/ j = [g |-> one, res |-> "ok"]
  BY DEF JoinResults
<1>2. g.ref \in Nat /\ g.member \in BOOLEAN
  BY DEF Group
<1>3. more \in Group /\ one \in Group
  BY <1>2 DEF Group
<1> QED
  <2> HIDE DEF more, one
  <2> QED  BY <1>1, <1>3 DEF GroupOK

LEMMA LeaveTyped ==
  ASSUME NEW g \in Group, NEW j \in LeaveResults(g)
  PROVE  GroupOK(j)
<1> DEFINE less == [ref |-> g.ref - 1, member |-> g.member]
           left == [ref |-> 0, member |-> FALSE]
           lost == [ref |-> 0, member |-> g.member]
<1>1. \/ j = [g |-> g, res |-> "error"]
      \/ g.ref > 1 /\ j = [g |-> less, res |-> "ok"]
      \/ j = [g |-> left, res |-> "ok"]
      \/ j = [g |-> lost, res |-> "error"]
  BY DEF LeaveResults
<1>2. g.ref \in Nat /\ g.member \in BOOLEAN
  BY DEF Group
<1>3. (g.ref > 1 => less \in Group) /\ left \in Group /\ lost \in Group
  BY <1>2 DEF Group
<1> QED
  <2> HIDE DEF less, left, lost
  <2> QED  BY <1>1, <1>3 DEF GroupOK

(* The same for one leg of a stream.                                       *)
LEMMA JoinLegTyped ==
  ASSUME NEW r, r.ig \in Groups, NEW l \in Legs, NEW s,
         NEW q \in JoinLeg(r, l, s)
  PROVE  q.ig \in Groups
<1>1. CASE l \notin GroupLegs(s)
  BY <1>1 DEF JoinLeg
<1>2. CASE l \in GroupLegs(s) /\ l = 2 /\ ~sec_up
  BY <1>2 DEF JoinLeg
<1>3. CASE l \in GroupLegs(s) /\ ~(l = 2 /\ ~sec_up)
  <2>1. PICK j \in JoinResults(r.ig[l][s.dest[l]]) :
          q = [ig  |-> [r.ig EXCEPT ![l][s.dest[l]] = j.g],
               res |-> IF j.res = "ok" THEN r.res ELSE "error"]
    BY <1>3 DEF JoinLeg
  <2>2. s.dest[l] \in McastAddrs
    BY <1>3 DEF GroupLegs, Legs
  <2>3. r.ig[l][s.dest[l]] \in Group
    BY <2>2 DEF Groups
  <2>4. j.g \in Group
    BY <2>3, JoinTyped DEF GroupOK
  <2> QED
    BY <2>1, <2>2, <2>4 DEF Groups
<1> QED
  BY <1>1, <1>2, <1>3

LEMMA LeaveLegTyped ==
  ASSUME NEW r, r.ig \in Groups, NEW l \in Legs, NEW s,
         NEW q \in LeaveLeg(r, l, s)
  PROVE  q.ig \in Groups
<1>1. CASE l \notin GroupLegs(s)
  BY <1>1 DEF LeaveLeg
<1>2. CASE l \in GroupLegs(s) /\ l = 2 /\ ~sec_up
  BY <1>2 DEF LeaveLeg
<1>3. CASE l \in GroupLegs(s) /\ ~(l = 2 /\ ~sec_up)
  <2>1. PICK j \in LeaveResults(r.ig[l][s.dest[l]]) :
          q = [ig  |-> [r.ig EXCEPT ![l][s.dest[l]] = j.g],
               res |-> IF j.res = "ok" THEN r.res ELSE "error"]
    BY <1>3 DEF LeaveLeg
  <2>2. s.dest[l] \in McastAddrs
    BY <1>3 DEF GroupLegs, Legs
  <2>3. r.ig[l][s.dest[l]] \in Group
    BY <2>2 DEF Groups
  <2>4. j.g \in Group
    BY <2>3, LeaveTyped DEF GroupOK
  <2> QED
    BY <2>1, <2>2, <2>4 DEF Groups
<1> QED
  BY <1>1, <1>2, <1>3

(* The IGMP side of a call keeps the type of igmp and the fault bound.     *)
LEMMA RegroupTyped ==
  ASSUME NEW old, NEW new, igmp \in Groups,
         driver_faults \in 0..MaxFaults, igmp_faults \in 0..MaxFaults,
         Regroup(old, new)
  PROVE  igmp' \in Groups /\ igmp_faults' \in 0..MaxFaults
<1>1. PICK r1 \in LeaveGroups(igmp, old) : \E r2 \in JoinGroups(r1.ig, new) :
        /\ "error" \in {r1.res, r2.res} => Faulty
        /\ igmp' = r2.ig
        /\ igmp_faults' = IF "error" \in {r1.res, r2.res} THEN igmp_faults + 1
                          ELSE igmp_faults
  BY DEF Regroup
<1>2. PICK r2 \in JoinGroups(r1.ig, new) :
        /\ "error" \in {r1.res, r2.res} => Faulty
        /\ igmp' = r2.ig
        /\ igmp_faults' = IF "error" \in {r1.res, r2.res} THEN igmp_faults + 1
                          ELSE igmp_faults
  BY <1>1
<1>3. r1.ig \in Groups
  <2>1. PICK r \in LeaveLeg([ig |-> igmp, res |-> "ok"], 1, old) :
          r1 \in LeaveLeg(r, 2, old)
    BY DEF LeaveGroups
  <2>2. r.ig \in Groups
    BY <2>1, LeaveLegTyped DEF Legs
  <2> QED
    BY <2>1, <2>2, LeaveLegTyped DEF Legs
<1>4. r2.ig \in Groups
  <2>1. PICK r \in JoinLeg([ig |-> r1.ig, res |-> "ok"], 1, new) :
          r2 \in JoinLeg(r, 2, new)
    BY DEF JoinGroups
  <2>2. r.ig \in Groups
    BY <1>3, <2>1, JoinLegTyped DEF Legs
  <2> QED
    BY <2>1, <2>2, JoinLegTyped DEF Legs
<1> QED
  BY <1>2, <1>4, ConstantsOK DEF Faulty

-----------------------------------------------------------------------------
(* Entries.                                                                *)

StreamOK(s, name, h1, h2) ==
  /\ s \in Stream /\ WellFormed(s)
  /\ s.state = "enabled" /\ s.name = Trunc[name]
  /\ Held(s) = {h1} \cup ({h2} \ {Nil})
  /\ s.dup => s.handle[1] = h1 /\ s.handle[2] = h2

(* The entry add_source and add_sink store for an enabled stream.          *)
LEMMA EnabledStream ==
  ASSUME NEW name \in Names, NEW d1 \in Addrs, NEW d2 \in Addrs \cup {Nil},
         NEW h1 \in Handles, NEW h2 \in Handles \cup {Nil}
  PROVE  StreamOK(NewStream("enabled", name, d1, d2, h1, h2), name, h1, h2)
<1> DEFINE s == NewStream("enabled", name, d1, d2, h1, h2)
<1>1. Trunc[name] \in Names /\ Trunc[Trunc[name]] = Trunc[name]
  BY ConstantsOK
<1>2. /\ s.state = "enabled" /\ s.name = Trunc[name]
      /\ s.dest[1] = d1 /\ s.dest[2] = d2
      /\ s.handle[1] = h1 /\ s.handle[2] = h2
      /\ s.dup = (h2 # Nil)
  BY DEF NewStream, Legs
<1>3. s \in Stream
  BY <1>1 DEF NewStream, Stream, Legs
<1>4. WellFormed(s)
  BY <1>1, <1>2 DEF WellFormed
<1>5. Held(s) = {h1} \cup ({h2} \ {Nil})
  <2> HIDE DEF s
  <2>1. CASE h2 = Nil
    BY <1>2, <2>1 DEF Held
  <2>2. CASE h2 # Nil
    BY <1>2, <2>2 DEF Held
  <2> QED
    BY <2>1, <2>2
<1> QED
  BY <1>2, <1>3, <1>4, <1>5 DEF StreamOK

(* The entry of a disabled source, and no entry at all.                    *)
LEMMA IdleStream ==
  /\ NoStream \in Stream /\ WellFormed(NoStream) /\ NoStream.state = "absent"
  /\ Held(NoStream) = {} /\ NoStream.dup = FALSE
  /\ \A name \in Names :
       LET s == NewStream("disabled", name, Nil, Nil, Nil, Nil) IN
         /\ s \in Stream /\ WellFormed(s) /\ s.state = "disabled"
         /\ Held(s) = {} /\ s.dup = FALSE
<1>1. /\ NoStream \in Stream /\ WellFormed(NoStream)
      /\ NoStream.state = "absent" /\ Held(NoStream) = {} /\ NoStream.dup = FALSE
  BY DEF NoStream, Stream, WellFormed, Held
<1>2. ASSUME NEW name \in Names
      PROVE  LET s == NewStream("disabled", name, Nil, Nil, Nil, Nil) IN
               /\ s \in Stream /\ WellFormed(s) /\ s.state = "disabled"
               /\ Held(s) = {} /\ s.dup = FALSE
  <2> DEFINE s == NewStream("disabled", name, Nil, Nil, Nil, Nil)
  <2>1. Trunc[name] \in Names /\ Trunc[Trunc[name]] = Trunc[name]
    BY ConstantsOK
  <2>2. s.state = "disabled" /\ s.name = Trunc[name] /\ s.dup = FALSE
    BY DEF NewStream
  <2>3. s \in Stream
    BY <2>1 DEF NewStream, Stream
  <2> QED
    BY <2>1, <2>2, <2>3 DEF WellFormed, Held
<1> QED
  BY <1>1, <1>2

(* A client's request names destinations.                                  *)
LEMMA RequestFacts ==
  ASSUME NEW ids, NEW req \in Request(ids)
  PROVE  /\ req.id \in ids /\ req.name \in Names
         /\ req.dest[1] \in Addrs /\ req.dest[2] \in Addrs \cup {Nil}
  BY ConstantsOK DEF Request

-----------------------------------------------------------------------------
(* What a call does.  It replaces one entry of one table, or, when a       *)
(* removal failed, none; the driver exchanges the streams of the old entry *)
(* for those of the new one unless a fault is counted.                     *)

IndexStep(X, X2, old, new, id) ==
  \/ new.state # "enabled" /\ X2 = Unindex(X, old)
  \/ \E n \in Names : /\ new.state = "enabled" /\ new.name = Trunc[n]
                      /\ X2 = Reindex(X, old, n, id)

Swapped(old, new) ==
  /\ driver' = (driver \ Held(old)) \cup Held(new)
  /\ Held(new) \cap (driver \ Held(old)) = {}
  /\ new.dup => new.handle[1] # new.handle[2]

Replaced(T, X, T2, X2, id, new) ==
  /\ new \in Stream /\ WellFormed(new)
  /\ T2 = [T EXCEPT ![id] = new]
  /\ IndexStep(X, X2, T[id], new, id)
  /\ driver_faults' = 0 => Swapped(T[id], new)

SourceStep ==
  /\ \E id \in SourceIds, new \in Stream :
       Replaced(sources, source_names, sources', source_names', id, new)
  /\ UNCHANGED <<sinks, sink_names>>

SinkStep ==
  /\ \E id \in SinkIds, new \in Stream :
       Replaced(sinks, sink_names, sinks', sink_names', id, new)
  /\ UNCHANGED <<sources, source_names>>

KeptStep ==
  /\ UNCHANGED <<sources, source_names, sinks, sink_names>>
  /\ driver_faults' = 0 => driver' = driver

Frame ==
  /\ driver' \in SUBSET Handles
  /\ igmp' \in Groups
  /\ sec_up' \in BOOLEAN
  /\ driver_faults' \in 0..MaxFaults /\ igmp_faults' \in 0..MaxFaults
  /\ driver_faults' = 0 => driver_faults = 0

IInv == TypeOK /\ NameIndexSound /\ StreamsTracked

(* The fault counter stays in its bound, and zero means no fault so far.   *)
LEMMA FaultFacts ==
  ASSUME TypeOK, NEW faulty \in BOOLEAN, DriverFault(faulty)
  PROVE  /\ driver_faults' \in 0..MaxFaults
         /\ driver_faults' = 0 => driver_faults = 0 /\ ~faulty
  BY ConstantsOK DEF DriverFault, Faulty, TypeOK

LEMMA AddSourceDisabledStep ==
  ASSUME IInv, NEW id \in SourceIds, NEW name \in Names,
         AddSourceDisabled(id, name)
  PROVE  Frame /\ SourceStep
<1> DEFINE old == sources[id]
           new == NewStream("disabled", name, Nil, Nil, Nil, Nil)
<1>1. old \in Stream /\ driver \in SUBSET Handles
  BY DEF IInv, TypeOK
<1>2. PICK r \in ReleaseResults(driver, old) :
        driver' = r.live /\ DriverFault(r.fault)
  BY DEF AddSourceDisabled
<1>3. ReleaseOK(driver, old, r)
  BY <1>1, ReleaseFacts
<1>4. igmp' \in Groups /\ igmp_faults' \in 0..MaxFaults
  BY RegroupTyped DEF AddSourceDisabled, IInv, TypeOK, Groups
<1>5. /\ driver_faults' \in 0..MaxFaults
      /\ driver_faults' = 0 => driver_faults = 0 /\ ~r.fault
  BY <1>2, <1>3, FaultFacts DEF IInv, ReleaseOK
<1>6. Frame
  BY <1>2, <1>3, <1>4, <1>5 DEF Frame, ReleaseOK, AddSourceDisabled, IInv, TypeOK
<1>7. /\ new \in Stream /\ WellFormed(new) /\ new.state = "disabled"
      /\ Held(new) = {} /\ new.dup = FALSE
  BY IdleStream
<1>8. /\ sources' = [sources EXCEPT ![id] = new]
      /\ source_names' = Unindex(source_names, old)
      /\ UNCHANGED <<sinks, sink_names>>
  BY DEF AddSourceDisabled
<1> QED
  <2> HIDE DEF new
  <2>1. driver_faults' = 0 => Swapped(old, new)
    BY <1>2, <1>3, <1>5, <1>7 DEF Swapped, ReleaseOK
  <2> QED
    BY <1>6, <1>7, <1>8, <2>1 DEF SourceStep, Replaced, IndexStep

(* The driver side of an accepted addition with one leg, ...               *)
LEMMA SwapOneLeg ==
  ASSUME IInv, NEW old \in Stream, NEW name \in Names, NEW d1 \in Addrs,
         NEW r \in ReleaseResults(driver, old),
         NEW a \in AddResults(r.live), a.res = "ok",
         driver' = a.live, DriverFault(r.fault \/ a.fault)
  PROVE  /\ driver' \in SUBSET Handles
         /\ StreamOK(NewStream("enabled", name, d1, Nil, a.h, Nil), name, a.h, Nil)
         /\ driver_faults' = 0 =>
              Swapped(old, NewStream("enabled", name, d1, Nil, a.h, Nil))
<1> DEFINE new == NewStream("enabled", name, d1, Nil, a.h, Nil)
<1>1. ReleaseOK(driver, old, r)
  BY ReleaseFacts DEF IInv, TypeOK
<1>2. AddOK(r.live, a)
  BY <1>1, AddFacts DEF ReleaseOK
<1>3. a.h \in Handles
  BY <1>2 DEF AddOK
<1>4. StreamOK(new, name, a.h, Nil)
  BY <1>3, EnabledStream
<1>5. driver_faults' = 0 => ~r.fault /\ ~a.fault
  BY <1>1, <1>2, FaultFacts DEF IInv, ReleaseOK, AddOK
<1> HIDE DEF new
<1>6. driver_faults' = 0 => Swapped(old, new)
  <2> SUFFICES ASSUME driver_faults' = 0 PROVE Swapped(old, new)
    OBVIOUS
  <2>1. r.live = driver \ Held(old) /\ driver' = r.live \cup {a.h} /\ a.h \notin r.live
    BY <1>1, <1>2, <1>5 DEF ReleaseOK, AddOK
  <2>2. Held(new) = {a.h} /\ ~new.dup
    BY <1>3, <1>4, ConstantsOK DEF StreamOK, WellFormed
  <2> QED
    BY <2>1, <2>2 DEF Swapped
<1> QED
  BY <1>2, <1>4, <1>6 DEF AddOK, new

(* ... and with two.                                                       *)
LEMMA SwapTwoLegs ==
  ASSUME IInv, NEW old \in Stream, NEW name \in Names,
         NEW d1 \in Addrs, NEW d2 \in Addrs,
         NEW r \in ReleaseResults(driver, old),
         NEW a \in AddResults(r.live), a.res = "ok",
         NEW b \in AddResults(a.live), b.res = "ok",
         driver' = b.live, DriverFault(r.fault \/ a.fault \/ b.fault)
  PROVE  /\ driver' \in SUBSET Handles
         /\ b.h # Nil
         /\ StreamOK(NewStream("enabled", name, d1, d2, a.h, b.h), name, a.h, b.h)
         /\ driver_faults' = 0 =>
              Swapped(old, NewStream("enabled", name, d1, d2, a.h, b.h))
<1> DEFINE new == NewStream("enabled", name, d1, d2, a.h, b.h)
<1>1. ReleaseOK(driver, old, r)
  BY ReleaseFacts DEF IInv, TypeOK
<1>2. AddOK(r.live, a)
  BY <1>1, AddFacts DEF ReleaseOK
<1>3. AddOK(a.live, b)
  BY <1>2, AddFacts DEF AddOK
<1>4. a.h \in Handles /\ b.h \in Handles /\ b.h # Nil
  BY <1>2, <1>3, ConstantsOK DEF AddOK
<1>5. StreamOK(new, name, a.h, b.h)
  BY <1>4, EnabledStream
<1>6. driver_faults' = 0 => ~r.fault /\ ~a.fault /\ ~b.fault
  BY <1>1, <1>2, <1>3, FaultFacts DEF IInv, ReleaseOK, AddOK
<1> HIDE DEF new
<1>7. driver_faults' = 0 => Swapped(old, new)
  <2> SUFFICES ASSUME driver_faults' = 0 PROVE Swapped(old, new)
    OBVIOUS
  <2>1. /\ r.live = driver \ Held(old)
        /\ driver' = r.live \cup {a.h, b.h}
        /\ a.h \notin r.live /\ b.h \notin r.live /\ a.h # b.h
    BY <1>1, <1>2, <1>3, <1>6 DEF ReleaseOK, AddOK
  <2>2. /\ Held(new) = {a.h, b.h}
        /\ new.dup => new.handle[1] = a.h /\ new.handle[2] = b.h
    BY <1>4, <1>5 DEF StreamOK
  <2> QED
    BY <2>1, <2>2 DEF Swapped
<1> QED
  BY <1>3, <1>4, <1>5, <1>7 DEF AddOK, new

(* The driver side of an addition refused at its first leg.                *)
LEMMA SwapRefused ==
  ASSUME IInv, NEW old \in Stream,
         NEW r \in ReleaseResults(driver, old),
         NEW a \in AddResults(r.live), a.res # "ok",
         driver' = a.live, DriverFault(r.fault \/ a.fault)
  PROVE  /\ driver' \in SUBSET Handles
         /\ driver_faults' = 0 => Swapped(old, NoStream)
<1>1. ReleaseOK(driver, old, r)
  BY ReleaseFacts DEF IInv, TypeOK
<1>2. AddOK(r.live, a)
  BY <1>1, AddFacts DEF ReleaseOK
<1>3. driver_faults' = 0 => ~r.fault /\ ~a.fault
  BY <1>1, <1>2, FaultFacts DEF IInv, ReleaseOK, AddOK
<1> QED
  BY <1>1, <1>2, <1>3, IdleStream DEF ReleaseOK, AddOK, Results, Swapped

(* An addition of an enabled source that the driver accepts.               *)
LEMMA AddSourceEnabledStep ==
  ASSUME IInv, NEW req \in Request(SourceIds), AddSourceEnabled(req)
  PROVE  Frame /\ SourceStep
<1> DEFINE old == sources[req.id]
           new(h, k) == NewStream("enabled", req.name, req.dest[1],
                          IF k = Nil THEN Nil ELSE req.dest[2], h, k)
           Stored(s) == /\ sources' = [sources EXCEPT ![req.id] = s]
                        /\ source_names' = Reindex(source_names, old, req.name, req.id)
                        /\ Regroup(old, s)
           OneLeg(r, a) == /\ driver' = a.live /\ DriverFault(r.fault \/ a.fault)
                           /\ Stored(new(a.h, Nil))
           TwoLegs(r, a, b) == /\ SecondLeg(req) /\ b.res = "ok"
                               /\ driver' = b.live
                               /\ DriverFault(r.fault \/ a.fault \/ b.fault)
                               /\ Stored(new(a.h, b.h))
<1>1. /\ req.id \in SourceIds /\ req.name \in Names
      /\ req.dest[1] \in Addrs /\ req.dest[2] \in Addrs \cup {Nil}
  BY RequestFacts
<1>2. /\ old \in Stream /\ igmp \in Groups
      /\ driver_faults \in 0..MaxFaults /\ igmp_faults \in 0..MaxFaults
      /\ sec_up' \in BOOLEAN /\ UNCHANGED <<sinks, sink_names>>
  BY <1>1 DEF IInv, TypeOK, Groups, AddSourceEnabled
<1>3. PICK r \in ReleaseResults(driver, old) : \E a \in AddResults(r.live) :
        /\ a.res = "ok"
        /\ OneLeg(r, a) \/ \E b \in AddResults(a.live) : TwoLegs(r, a, b)
  BY DEF AddSourceEnabled
<1>4. PICK a \in AddResults(r.live) :
        /\ a.res = "ok"
        /\ OneLeg(r, a) \/ \E b \in AddResults(a.live) : TwoLegs(r, a, b)
  BY <1>3
<1>5. /\ driver_faults' \in 0..MaxFaults
      /\ driver_faults' = 0 => driver_faults = 0
  <2>1. ReleaseOK(driver, old, r)
    BY <1>2, ReleaseFacts DEF IInv, TypeOK
  <2>2. AddOK(r.live, a)
    BY <2>1, AddFacts DEF ReleaseOK
  <2>3. \A b \in AddResults(a.live) : AddOK(a.live, b)
    BY <2>2, AddFacts DEF AddOK
  <2>4. \E f \in BOOLEAN : DriverFault(f)
    BY <1>4, <2>1, <2>2, <2>3 DEF ReleaseOK, AddOK
  <2> QED
    BY <2>4, FaultFacts DEF IInv
<1>6. ASSUME NEW s, NEW h, NEW k, StreamOK(s, req.name, h, k), Stored(s),
             driver' \in SUBSET Handles,
             driver_faults' = 0 => Swapped(old, s)
      PROVE  Frame /\ SourceStep
  <2>1. Frame
    BY <1>2, <1>5, <1>6, RegroupTyped DEF Frame
  <2> QED
    BY <1>1, <1>2, <1>6, <2>1 DEF SourceStep, Replaced, IndexStep, StreamOK
<1>7. CASE OneLeg(r, a)
  <2>1. new(a.h, Nil) = NewStream("enabled", req.name, req.dest[1], Nil, a.h, Nil)
    OBVIOUS
  <2>2. /\ driver' \in SUBSET Handles
        /\ StreamOK(new(a.h, Nil), req.name, a.h, Nil)
        /\ driver_faults' = 0 => Swapped(old, new(a.h, Nil))
    BY <1>1, <1>2, <1>4, <1>7, <2>1, SwapOneLeg
  <2> QED
    BY <1>6, <1>7, <2>2
<1>8. ASSUME NEW b \in AddResults(a.live), TwoLegs(r, a, b)
      PROVE  Frame /\ SourceStep
  <2> DEFINE two == NewStream("enabled", req.name, req.dest[1], req.dest[2], a.h, b.h)
  <2>1. req.dest[2] \in Addrs
    BY <1>1, <1>8 DEF SecondLeg
  <2>2. /\ driver' \in SUBSET Handles /\ b.h # Nil
        /\ StreamOK(two, req.name, a.h, b.h)
        /\ driver_faults' = 0 => Swapped(old, two)
    BY <1>1, <1>2, <1>4, <1>8, <2>1, SwapTwoLegs
  <2>3. Stored(two)
    BY <1>8, <2>2
  <2> QED
    <3> HIDE DEF two
    <3> QED  BY <1>6, <2>2, <2>3
<1> QED
  BY <1>4, <1>7, <1>8

LEMMA AddSourceRefusedStep ==
  ASSUME IInv, NEW req \in Request(SourceIds), AddSourceRefused(req)
  PROVE  Frame /\ SourceStep
<1> DEFINE old == sources[req.id]
<1>1. req.id \in SourceIds
  BY RequestFacts
<1>2. /\ old \in Stream /\ igmp \in Groups
      /\ driver_faults \in 0..MaxFaults /\ igmp_faults \in 0..MaxFaults
      /\ sec_up' \in BOOLEAN /\ UNCHANGED <<sinks, sink_names>>
  BY <1>1 DEF IInv, TypeOK, Groups, AddSourceRefused, SourceDropped
<1>3. /\ sources' = [sources EXCEPT ![req.id] = NoStream]
      /\ source_names' = Unindex(source_names, old)
      /\ Regroup(old, NoStream)
  BY DEF AddSourceRefused, SourceDropped
<1>4. PICK r \in ReleaseResults(driver, old) : \E a \in AddResults(r.live) :
        a.res # "ok" /\ driver' = a.live /\ DriverFault(r.fault \/ a.fault)
  BY DEF AddSourceRefused
<1>5. PICK a \in AddResults(r.live) :
        a.res # "ok" /\ driver' = a.live /\ DriverFault(r.fault \/ a.fault)
  BY <1>4
<1>6. /\ driver' \in SUBSET Handles
      /\ driver_faults' = 0 => Swapped(old, NoStream)
  BY <1>2, <1>5, SwapRefused
<1>6a. ReleaseOK(driver, old, r)
  BY <1>2, ReleaseFacts DEF IInv, TypeOK
<1>6b. AddOK(r.live, a)
  BY <1>6a, AddFacts DEF ReleaseOK
<1>6c. /\ driver_faults' \in 0..MaxFaults
       /\ driver_faults' = 0 => driver_faults = 0
  BY <1>5, <1>6a, <1>6b, FaultFacts DEF IInv, ReleaseOK, AddOK
<1>7. Frame
  BY <1>2, <1>3, <1>6, <1>6c, RegroupTyped DEF Frame
<1> QED
  BY <1>1, <1>2, <1>3, <1>6, <1>7, IdleStream DEF SourceStep, Replaced, IndexStep

LEMMA RemoveSourceStep ==
  ASSUME IInv, NEW id \in SourceIds, RemoveSource(id)
  PROVE  Frame /\ (SourceStep \/ KeptStep)
<1> DEFINE old == sources[id]
<1>1. /\ old \in Stream /\ igmp \in Groups /\ driver \in SUBSET Handles
      /\ driver_faults \in 0..MaxFaults /\ igmp_faults \in 0..MaxFaults
      /\ sec_up' \in BOOLEAN /\ UNCHANGED <<sinks, sink_names>>
  BY DEF IInv, TypeOK, Groups, RemoveSource
<1>2. PICK r \in RemoveResultsBoth(driver, old) :
        /\ driver' = r.live /\ DriverFault(r.fault)
        /\ IF r.res = "ok"
           THEN /\ sources' = [sources EXCEPT ![id] = NoStream]
                /\ source_names' = Unindex(source_names, old)
                /\ Regroup(old, NoStream)
           ELSE UNCHANGED <<sources, source_names, igmp, igmp_faults>>
  BY DEF RemoveSource
<1>3. RemoveBothOK(driver, old, r)
  BY <1>1, RemoveBothFacts
<1>4. /\ driver_faults' \in 0..MaxFaults
      /\ driver_faults' = 0 => driver_faults = 0 /\ ~r.fault
  BY <1>2, <1>3, FaultFacts DEF IInv, RemoveBothOK
<1>5. CASE r.res = "ok"
  <2>1. Frame
    BY <1>1, <1>2, <1>3, <1>4, <1>5, RegroupTyped DEF Frame, RemoveBothOK
  <2>2. driver_faults' = 0 => Swapped(old, NoStream)
    BY <1>2, <1>3, <1>4, <1>5, IdleStream DEF Swapped, RemoveBothOK
  <2> QED
    BY <1>1, <1>2, <1>5, <2>1, <2>2, IdleStream DEF SourceStep, Replaced, IndexStep
<1>6. CASE r.res # "ok"
  <2>1. Frame
    BY <1>1, <1>2, <1>3, <1>4, <1>6 DEF Frame, RemoveBothOK
  <2>2. driver_faults' # 0
    <3> SUFFICES ASSUME driver_faults' = 0 PROVE FALSE
      OBVIOUS
    <3>1. Held(old) \subseteq driver /\ (old.dup => old.handle[1] # old.handle[2])
      BY <1>1, <1>4 DEF IInv, TypeOK, StreamsTracked, HeldIn, NoneShared
    <3> QED
      BY <1>3, <1>4, <1>6, <3>1 DEF RemoveBothOK, Results
  <2> QED
    BY <1>1, <1>2, <1>6, <2>1, <2>2 DEF KeptStep
<1> QED
  BY <1>5, <1>6

(* The same for a sink.                                                    *)
LEMMA AddSinkStep ==
  ASSUME IInv, NEW req \in Request(SinkIds), AddSink(req)
  PROVE  Frame /\ SinkStep
<1> DEFINE old == sinks[req.id]
           new(h, k) == NewStream("enabled", req.name, req.dest[1],
                          IF k = Nil THEN Nil ELSE req.dest[2], h, k)
           Stored(s) == /\ sinks' = [sinks EXCEPT ![req.id] = s]
                        /\ sink_names' = Reindex(sink_names, old, req.name, req.id)
                        /\ Regroup(old, s)
           OneLeg(r, a) == /\ driver' = a.live /\ DriverFault(r.fault \/ a.fault)
                           /\ Stored(new(a.h, Nil))
           TwoLegs(r, a, b) == /\ SecondLeg(req) /\ b.res = "ok"
                               /\ driver' = b.live
                               /\ DriverFault(r.fault \/ a.fault \/ b.fault)
                               /\ Stored(new(a.h, b.h))
<1>1. /\ req.id \in SinkIds /\ req.name \in Names
      /\ req.dest[1] \in Addrs /\ req.dest[2] \in Addrs \cup {Nil}
  BY RequestFacts
<1>2. /\ old \in Stream /\ igmp \in Groups
      /\ driver_faults \in 0..MaxFaults /\ igmp_faults \in 0..MaxFaults
      /\ sec_up' \in BOOLEAN /\ UNCHANGED <<sources, source_names>>
  BY <1>1 DEF IInv, TypeOK, Groups, AddSink
<1>3. PICK r \in ReleaseResults(driver, old) : \E a \in AddResults(r.live) :
        /\ a.res = "ok"
        /\ OneLeg(r, a) \/ \E b \in AddResults(a.live) : TwoLegs(r, a, b)
  BY DEF AddSink
<1>4. PICK a \in AddResults(r.live) :
        /\ a.res = "ok"
        /\ OneLeg(r, a) \/ \E b \in AddResults(a.live) : TwoLegs(r, a, b)
  BY <1>3
<1>5. /\ driver_faults' \in 0..MaxFaults
      /\ driver_faults' = 0 => driver_faults = 0
  <2>1. ReleaseOK(driver, old, r)
    BY <1>2, ReleaseFacts DEF IInv, TypeOK
  <2>2. AddOK(r.live, a)
    BY <2>1, AddFacts DEF ReleaseOK
  <2>3. \A b \in AddResults(a.live) : AddOK(a.live, b)
    BY <2>2, AddFacts DEF AddOK
  <2>4. \E f \in BOOLEAN : DriverFault(f)
    BY <1>4, <2>1, <2>2, <2>3 DEF ReleaseOK, AddOK
  <2> QED
    BY <2>4, FaultFacts DEF IInv
<1>6. ASSUME NEW s, NEW h, NEW k, StreamOK(s, req.name, h, k), Stored(s),
             driver' \in SUBSET Handles,
             driver_faults' = 0 => Swapped(old, s)
      PROVE  Frame /\ SinkStep
  <2>1. Frame
    BY <1>2, <1>5, <1>6, RegroupTyped DEF Frame
  <2> QED
    BY <1>1, <1>2, <1>6, <2>1 DEF SinkStep, Replaced, IndexStep, StreamOK
<1>7. CASE OneLeg(r, a)
  <2>1. new(a.h, Nil) = NewStream("enabled", req.name, req.dest[1], Nil, a.h, Nil)
    OBVIOUS
  <2>2. /\ driver' \in SUBSET Handles
        /\ StreamOK(new(a.h, Nil), req.name, a.h, Nil)
        /\ driver_faults' = 0 => Swapped(old, new(a.h, Nil))
    BY <1>1, <1>2, <1>4, <1>7, <2>1, SwapOneLeg
  <2> QED
    BY <1>6, <1>7, <2>2
<1>8. ASSUME NEW b \in AddResults(a.live), TwoLegs(r, a, b)
      PROVE  Frame /\ SinkStep
  <2> DEFINE two == NewStream("enabled", req.name, req.dest[1], req.dest[2], a.h, b.h)
  <2>1. req.dest[2] \in Addrs
    BY <1>1, <1>8 DEF SecondLeg
  <2>2. /\ driver' \in SUBSET Handles /\ b.h # Nil
        /\ StreamOK(two, req.name, a.h, b.h)
        /\ driver_faults' = 0 => Swapped(old, two)
    BY <1>1, <1>2, <1>4, <1>8, <2>1, SwapTwoLegs
  <2>3. Stored(two)
    BY <1>8, <2>2
  <2> QED
    <3> HIDE DEF two
    <3> QED  BY <1>6, <2>2, <2>3
<1> QED
  BY <1>4, <1>7, <1>8

LEMMA AddSinkRefusedStep ==
  ASSUME IInv, NEW req \in Request(SinkIds), AddSinkRefused(req)
  PROVE  Frame /\ SinkStep
<1> DEFINE old == sinks[req.id]
<1>1. req.id \in SinkIds
  BY RequestFacts
<1>2. /\ old \in Stream /\ igmp \in Groups
      /\ driver_faults \in 0..MaxFaults /\ igmp_faults \in 0..MaxFaults
      /\ sec_up' \in BOOLEAN /\ UNCHANGED <<sources, source_names>>
  BY <1>1 DEF IInv, TypeOK, Groups, AddSinkRefused, SinkDropped
<1>3. /\ sinks' = [sinks EXCEPT ![req.id] = NoStream]
      /\ sink_names' = Unindex(sink_names, old)
      /\ Regroup(old, NoStream)
  BY DEF AddSinkRefused, SinkDropped
<1>4. PICK r \in ReleaseResults(driver, old) : \E a \in AddResults(r.live) :
        a.res # "ok" /\ driver' = a.live /\ DriverFault(r.fault \/ a.fault)
  BY DEF AddSinkRefused
<1>5. PICK a \in AddResults(r.live) :
        a.res # "ok" /\ driver' = a.live /\ DriverFault(r.fault \/ a.fault)
  BY <1>4
<1>6. /\ driver' \in SUBSET Handles
      /\ driver_faults' = 0 => Swapped(old, NoStream)
  BY <1>2, <1>5, SwapRefused
<1>6a. ReleaseOK(driver, old, r)
  BY <1>2, ReleaseFacts DEF IInv, TypeOK
<1>6b. AddOK(r.live, a)
  BY <1>6a, AddFacts DEF ReleaseOK
<1>6c. /\ driver_faults' \in 0..MaxFaults
       /\ driver_faults' = 0 => driver_faults = 0
  BY <1>5, <1>6a, <1>6b, FaultFacts DEF IInv, ReleaseOK, AddOK
<1>7. Frame
  BY <1>2, <1>3, <1>6, <1>6c, RegroupTyped DEF Frame
<1> QED
  BY <1>1, <1>2, <1>3, <1>6, <1>7, IdleStream DEF SinkStep, Replaced, IndexStep

LEMMA RemoveSinkStep ==
  ASSUME IInv, NEW id \in SinkIds, RemoveSink(id)
  PROVE  Frame /\ (SinkStep \/ KeptStep)
<1> DEFINE old == sinks[id]
<1>1. /\ old \in Stream /\ igmp \in Groups /\ driver \in SUBSET Handles
      /\ driver_faults \in 0..MaxFaults /\ igmp_faults \in 0..MaxFaults
      /\ sec_up' \in BOOLEAN /\ UNCHANGED <<sources, source_names>>
  BY DEF IInv, TypeOK, Groups, RemoveSink
<1>2. PICK r \in RemoveResultsBoth(driver, old) :
        /\ driver' = r.live /\ DriverFault(r.fault)
        /\ IF r.res = "ok"
           THEN /\ sinks' = [sinks EXCEPT ![id] = NoStream]
                /\ sink_names' = Unindex(sink_names, old)
                /\ Regroup(old, NoStream)
           ELSE UNCHANGED <<sinks, sink_names, igmp, igmp_faults>>
  BY DEF RemoveSink
<1>3. RemoveBothOK(driver, old, r)
  BY <1>1, RemoveBothFacts
<1>4. /\ driver_faults' \in 0..MaxFaults
      /\ driver_faults' = 0 => driver_faults = 0 /\ ~r.fault
  BY <1>2, <1>3, FaultFacts DEF IInv, RemoveBothOK
<1>5. CASE r.res = "ok"
  <2>1. Frame
    BY <1>1, <1>2, <1>3, <1>4, <1>5, RegroupTyped DEF Frame, RemoveBothOK
  <2>2. driver_faults' = 0 => Swapped(old, NoStream)
    BY <1>2, <1>3, <1>4, <1>5, IdleStream DEF Swapped, RemoveBothOK
  <2> QED
    BY <1>1, <1>2, <1>5, <2>1, <2>2, IdleStream DEF SinkStep, Replaced, IndexStep
<1>6. CASE r.res # "ok"
  <2>1. Frame
    BY <1>1, <1>2, <1>3, <1>4, <1>6 DEF Frame, RemoveBothOK
  <2>2. driver_faults' # 0
    <3> SUFFICES ASSUME driver_faults' = 0 PROVE FALSE
      OBVIOUS
    <3>1. Held(old) \subseteq driver /\ (old.dup => old.handle[1] # old.handle[2])
      BY <1>1, <1>4 DEF IInv, TypeOK, StreamsTracked, HeldIn, NoneShared
    <3> QED
      BY <1>3, <1>4, <1>6, <3>1 DEF RemoveBothOK, Results
  <2> QED
    BY <1>1, <1>2, <1>6, <2>1, <2>2 DEF KeptStep
<1> QED
  BY <1>5, <1>6

(* A source whose second leg is refused: the rollback removes the wrong    *)
(* handle, which is a fault.                                               *)
LEMMA AddSourceLeg2RefusedStep ==
  ASSUME IInv, NEW req \in Request(SourceIds), AddSourceLeg2Refused(req)
  PROVE  Frame /\ SourceStep
<1> DEFINE old == sources[req.id]
<1>1. req.id \in SourceIds
  BY RequestFacts
<1>2. /\ old \in Stream /\ igmp \in Groups /\ driver \in SUBSET Handles
      /\ driver_faults \in 0..MaxFaults /\ igmp_faults \in 0..MaxFaults
      /\ sec_up' \in BOOLEAN /\ UNCHANGED <<sinks, sink_names>>
  BY <1>1 DEF IInv, TypeOK, Groups, AddSourceLeg2Refused, SourceDropped
<1>3. /\ sources' = [sources EXCEPT ![req.id] = NoStream]
      /\ source_names' = Unindex(source_names, old)
      /\ Regroup(old, NoStream)
      /\ DriverFault(TRUE)
  BY DEF AddSourceLeg2Refused, SourceDropped
<1>4. PICK r \in ReleaseResults(driver, old) : \E a \in AddResults(r.live) :
        \E b \in AddResults(a.live) : \E h : \E u \in RemoveResults(b.live, h) :
          driver' = u.live
  BY DEF AddSourceLeg2Refused
<1>5. PICK a \in AddResults(r.live) :
        \E b \in AddResults(a.live) : \E h : \E u \in RemoveResults(b.live, h) :
          driver' = u.live
  BY <1>4
<1>5a. PICK b \in AddResults(a.live) :
         \E h : \E u \in RemoveResults(b.live, h) : driver' = u.live
  BY <1>5
<1>5b. PICK h : \E u \in RemoveResults(b.live, h) : driver' = u.live
  BY <1>5a
<1>6. PICK u \in RemoveResults(b.live, h) : driver' = u.live
  BY <1>5b
<1>7. r.live \in SUBSET Handles
  BY <1>2, ReleaseFacts DEF ReleaseOK
<1>8. a.live \in SUBSET Handles
  BY <1>7, AddFacts DEF AddOK
<1>9. b.live \in SUBSET Handles
  BY <1>8, AddFacts DEF AddOK
<1>10. driver' \in SUBSET Handles
  BY <1>6, <1>9, RemoveFacts DEF RemoveOK
<1>11. driver_faults' \in 0..MaxFaults /\ driver_faults' # 0
  BY <1>3, FaultFacts DEF IInv
<1>12. Frame
  BY <1>2, <1>3, <1>10, <1>11, RegroupTyped DEF Frame
<1> QED
  BY <1>1, <1>2, <1>3, <1>11, <1>12, IdleStream DEF SourceStep, Replaced, IndexStep

(* A sink whose second leg is refused: the first is taken back.            *)
LEMMA AddSinkLeg2RefusedStep ==
  ASSUME IInv, NEW req \in Request(SinkIds), AddSinkLeg2Refused(req)
  PROVE  Frame /\ SinkStep
<1> DEFINE old == sinks[req.id]
           Any(r, a, b, u) == r.fault \/ a.fault \/ b.fault \/ u.fault
<1>1. req.id \in SinkIds
  BY RequestFacts
<1>2. /\ old \in Stream /\ igmp \in Groups /\ driver \in SUBSET Handles
      /\ driver_faults \in 0..MaxFaults /\ igmp_faults \in 0..MaxFaults
      /\ sec_up' \in BOOLEAN /\ UNCHANGED <<sources, source_names>>
  BY <1>1 DEF IInv, TypeOK, Groups, AddSinkLeg2Refused, SinkDropped
<1>3. /\ sinks' = [sinks EXCEPT ![req.id] = NoStream]
      /\ sink_names' = Unindex(sink_names, old)
      /\ Regroup(old, NoStream)
  BY DEF AddSinkLeg2Refused, SinkDropped
<1>4. PICK r \in ReleaseResults(driver, old) : \E a \in AddResults(r.live) :
        /\ a.res = "ok"
        /\ \E b \in AddResults(a.live) : \E u \in RemoveResults(b.live, a.h) :
             b.res # "ok" /\ driver' = u.live /\ DriverFault(Any(r, a, b, u))
  BY DEF AddSinkLeg2Refused
<1>5. PICK a \in AddResults(r.live) :
        /\ a.res = "ok"
        /\ \E b \in AddResults(a.live) : \E u \in RemoveResults(b.live, a.h) :
             b.res # "ok" /\ driver' = u.live /\ DriverFault(Any(r, a, b, u))
  BY <1>4
<1>6. PICK b \in AddResults(a.live) : \E u \in RemoveResults(b.live, a.h) :
        b.res # "ok" /\ driver' = u.live /\ DriverFault(Any(r, a, b, u))
  BY <1>5
<1>7. PICK u \in RemoveResults(b.live, a.h) :
        b.res # "ok" /\ driver' = u.live /\ DriverFault(Any(r, a, b, u))
  BY <1>6
<1>8. ReleaseOK(driver, old, r)
  BY <1>2, ReleaseFacts
<1>9. AddOK(r.live, a)
  BY <1>8, AddFacts DEF ReleaseOK
<1>10. AddOK(a.live, b)
  BY <1>9, AddFacts DEF AddOK
<1>11. RemoveOK(b.live, a.h, u)
  BY <1>10, RemoveFacts DEF AddOK
<1>12. /\ driver_faults' \in 0..MaxFaults
       /\ driver_faults' = 0 => /\ driver_faults = 0
                                /\ ~r.fault /\ ~a.fault /\ ~b.fault /\ ~u.fault
  BY <1>7, <1>8, <1>9, <1>10, <1>11, FaultFacts
     DEF IInv, ReleaseOK, AddOK, RemoveOK
<1>13. driver_faults' = 0 => driver' = driver \ Held(old)
  BY <1>5, <1>7, <1>8, <1>9, <1>10, <1>11, <1>12
     DEF ReleaseOK, AddOK, RemoveOK, Results
<1>14. driver_faults' = 0 => Swapped(old, NoStream)
  BY <1>13, IdleStream DEF Swapped
<1>15. Frame
  BY <1>2, <1>3, <1>7, <1>11, <1>12, RegroupTyped DEF Frame, RemoveOK
<1> QED
  BY <1>1, <1>2, <1>3, <1>14, <1>15, IdleStream DEF SinkStep, Replaced, IndexStep

(* Every step, and a stuttering step too, is one of these.                 *)
LEMMA StepFacts ==
  ASSUME IInv, [Next]_vars
  PROVE  Frame /\ (SourceStep \/ SinkStep \/ KeptStep)
<1>1. CASE \E id \in SourceIds, n \in Names : AddSourceDisabled(id, n)
  BY <1>1, AddSourceDisabledStep
<1>2. CASE \E src \in Request(SourceIds) : AddSource(src)
  BY <1>2, AddSourceEnabledStep, AddSourceRefusedStep, AddSourceLeg2RefusedStep
     DEF AddSource
<1>3. CASE \E id \in SourceIds : RemoveSource(id)
  BY <1>3, RemoveSourceStep
<1>4. CASE \E snk \in Request(SinkIds) : AddSinkAny(snk)
  BY <1>4, AddSinkStep, AddSinkRefusedStep, AddSinkLeg2RefusedStep DEF AddSinkAny
<1>5. CASE \E id \in SinkIds : RemoveSink(id)
  BY <1>5, RemoveSinkStep
<1>6. CASE SecondaryChange
  BY <1>6 DEF SecondaryChange, Frame, KeptStep, IInv, TypeOK, Groups
<1>7. CASE UNCHANGED vars
  BY <1>7 DEF vars, Frame, KeptStep, IInv, TypeOK, Groups
<1> QED
  BY <1>1, <1>2, <1>3, <1>4, <1>5, <1>6, <1>7 DEF Next

-----------------------------------------------------------------------------
(* What replacing one entry preserves, for either table.                   *)

LEMMA TablePreserved ==
  ASSUME NEW Ids, Nil \notin Ids, NEW T \in [Ids -> Stream],
         \A i \in Ids : WellFormed(T[i]),
         NEW X \in [Names -> Ids \cup {Nil}], IndexSound(T, X),
         NEW T2, NEW X2, NEW id \in Ids, NEW new,
         Replaced(T, X, T2, X2, id, new)
  PROVE  /\ T2 \in [Ids -> Stream]
         /\ \A i \in Ids : WellFormed(T2[i])
         /\ X2 \in [Names -> Ids \cup {Nil}]
         /\ IndexSound(T2, X2)
<1> DEFINE old == T[id]
           Y == Unindex(X, old)
<1>1. /\ new \in Stream /\ WellFormed(new) /\ T2 = [T EXCEPT ![id] = new]
      /\ IndexStep(X, X2, old, new, id)
  BY DEF Replaced
<1>2. T2 \in [Ids -> Stream] /\ \A i \in Ids : WellFormed(T2[i])
  BY <1>1
<1>3. old.state = "enabled" => old.name \in Names
  BY DEF WellFormed
<1>4. Y \in [Names -> Ids \cup {Nil}]
  BY <1>3 DEF Unindex
(* What the update leaves in the index leads to other entries.             *)
<1>5. ASSUME NEW n \in Names, Trunc[n] = n, Y[n] # Nil
      PROVE  /\ Y[n] \in Ids \ {id}
             /\ T[Y[n]].state = "enabled" /\ T[Y[n]].name = n
  <2>1. X[n] = Y[n] /\ (old.state = "enabled" => n # old.name)
    BY <1>3, <1>5 DEF Unindex
  <2>2. T[X[n]].state = "enabled" /\ T[X[n]].name = n
    BY <1>5, <2>1 DEF IndexSound
  <2> QED
    BY <1>4, <1>5, <2>1, <2>2
<1> HIDE DEF Y
<1>6. CASE new.state # "enabled" /\ X2 = Y
  BY <1>1, <1>2, <1>4, <1>5, <1>6 DEF IndexSound
<1>7. ASSUME NEW m \in Names, new.state = "enabled", new.name = Trunc[m],
             X2 = [Y EXCEPT ![m] = id]
      PROVE  X2 \in [Names -> Ids \cup {Nil}] /\ IndexSound(T2, X2)
  <2>1. X2 \in [Names -> Ids \cup {Nil}]
    BY <1>4, <1>7
  <2>2. ASSUME NEW n \in Names, Trunc[n] = n, X2[n] # Nil
        PROVE  T2[X2[n]].state = "enabled" /\ T2[X2[n]].name = n
    <3>1. CASE n = m
      BY <1>1, <1>4, <1>7, <2>2, <3>1
    <3>2. CASE n # m
      <4>1. X2[n] = Y[n]
        BY <1>4, <1>7, <3>2
      <4> QED
        BY <1>1, <1>5, <2>2, <4>1
    <3> QED
      BY <3>1, <3>2
  <2> QED
    BY <2>1, <2>2 DEF IndexSound
<1> QED
  BY <1>1, <1>2, <1>6, <1>7 DEF IndexStep, Reindex, Y

Tracked(T, O, d) == NoneShared(T) /\ HeldIn(T) \cap O = {} /\ d = HeldIn(T) \cup O

LEMMA TrackingPreserved ==
  ASSUME NEW Ids, NEW T \in [Ids -> Stream], NEW O, Tracked(T, O, driver),
         NEW id \in Ids, NEW new \in Stream, Swapped(T[id], new)
  PROVE  Tracked([T EXCEPT ![id] = new], O, driver')
<1> USE DEF Tracked
<1> DEFINE T2 == [T EXCEPT ![id] = new]
<1>1. DOMAIN T = Ids /\ DOMAIN T2 = Ids
  OBVIOUS
<1>2. HeldIn(T) \ Held(T[id]) = UNION {Held(T[i]) : i \in Ids \ {id}}
  BY <1>1 DEF HeldIn, NoneShared
<1>3. HeldIn(T2) = (HeldIn(T) \ Held(T[id])) \cup Held(new)
  BY <1>1, <1>2 DEF HeldIn
<1>4. Held(T[id]) \subseteq HeldIn(T)
  BY <1>1 DEF HeldIn
<1>5. /\ driver' = (driver \ Held(T[id])) \cup Held(new)
      /\ Held(new) \cap (driver \ Held(T[id])) = {}
      /\ new.dup => new.handle[1] # new.handle[2]
  BY DEF Swapped
<1>6. HeldIn(T2) \cap O = {} /\ driver' = HeldIn(T2) \cup O
  BY <1>3, <1>4, <1>5
<1>7. \A i \in Ids \ {id} : Held(T[i]) \cap Held(new) = {}
  BY <1>2, <1>5
<1> QED
  BY <1>1, <1>5, <1>6, <1>7 DEF NoneShared

-----------------------------------------------------------------------------
(* The inductive invariant.                                                *)

LEMMA InitIInv == Init => IInv
<1> SUFFICES ASSUME Init PROVE IInv
  OBVIOUS
<1> USE DEF Init
<1>1. TypeOK
  BY IdleStream, ConstantsOK DEF TypeOK, Group
<1>2. NameIndexSound
  BY DEF NameIndexSound, IndexSound
<1>3. HeldIn(sources) = {} /\ HeldIn(sinks) = {}
  BY IdleStream DEF HeldIn
<1>4. NoneShared(sources) /\ NoneShared(sinks)
  BY IdleStream DEF NoneShared
<1> QED
  BY <1>1, <1>2, <1>3, <1>4 DEF IInv, StreamsTracked

LEMMA NextIInv == IInv /\ [Next]_vars => IInv'
<1> SUFFICES ASSUME IInv, [Next]_vars PROVE IInv'
  OBVIOUS
<1>1. Frame /\ (SourceStep \/ SinkStep \/ KeptStep)
  BY StepFacts
<1>2. Nil \notin SourceIds /\ Nil \notin SinkIds
  BY ConstantsOK
<1>3. CASE SourceStep
  <2>1. PICK id \in SourceIds, new \in Stream :
          Replaced(sources, source_names, sources', source_names', id, new)
    BY <1>3 DEF SourceStep
  <2>2. /\ sources' \in [SourceIds -> Stream]
        /\ \A i \in SourceIds : WellFormed(sources'[i])
        /\ source_names' \in [Names -> SourceIds \cup {Nil}]
        /\ IndexSound(sources', source_names')
    BY <1>2, <2>1, TablePreserved DEF IInv, TypeOK, NameIndexSound
  <2>3. TypeOK' /\ NameIndexSound'
    BY <1>1, <1>3, <2>2
       DEF SourceStep, Frame, Groups, IInv, TypeOK, NameIndexSound, IndexSound,
           WellFormed
  <2>4. StreamsTracked'
    <3> SUFFICES ASSUME driver_faults' = 0
                 PROVE  (/\ driver = HeldIn(sources) \cup HeldIn(sinks)
                         /\ HeldIn(sources) \cap HeldIn(sinks) = {}
                         /\ NoneShared(sources)
                         /\ NoneShared(sinks))'
      BY DEF StreamsTracked
    <3>1. /\ driver = HeldIn(sources) \cup HeldIn(sinks)
          /\ HeldIn(sources) \cap HeldIn(sinks) = {}
          /\ NoneShared(sources) /\ NoneShared(sinks)
      BY <1>1 DEF Frame, IInv, StreamsTracked
    <3>2. /\ sources' = [sources EXCEPT ![id] = new]
          /\ Swapped(sources[id], new)
          /\ sources \in [SourceIds -> Stream]
      BY <2>1 DEF Replaced, IInv, TypeOK
    <3>3. Tracked(sources', HeldIn(sinks), driver')
      <4>1. Tracked(sources, HeldIn(sinks), driver)
        BY <3>1 DEF Tracked
      <4> QED
        BY <3>2, <4>1, TrackingPreserved
    <3>4. sinks' = sinks
      BY <1>3 DEF SourceStep
    <3>5. HeldIn(sinks)' = HeldIn(sinks)
      BY <3>4 DEF HeldIn, Held
    <3>5a. NoneShared(sinks) => NoneShared(sinks)'
      BY <3>4 DEF NoneShared, Held
    <3>6. HeldIn(sources)' = HeldIn(sources') /\ NoneShared(sources)'
      BY <3>3 DEF Tracked, HeldIn, NoneShared, Held
    <3> QED
      BY <3>1, <3>3, <3>5, <3>5a, <3>6 DEF Tracked
  <2> QED
    BY <2>3, <2>4 DEF IInv
<1>4. CASE SinkStep
  <2>1. PICK id \in SinkIds, new \in Stream :
          Replaced(sinks, sink_names, sinks', sink_names', id, new)
    BY <1>4 DEF SinkStep
  <2>2. /\ sinks' \in [SinkIds -> Stream]
        /\ \A i \in SinkIds : WellFormed(sinks'[i])
        /\ sink_names' \in [Names -> SinkIds \cup {Nil}]
        /\ IndexSound(sinks', sink_names')
    BY <1>2, <2>1, TablePreserved DEF IInv, TypeOK, NameIndexSound
  <2>3. TypeOK' /\ NameIndexSound'
    BY <1>1, <1>4, <2>2
       DEF SinkStep, Frame, Groups, IInv, TypeOK, NameIndexSound, IndexSound,
           WellFormed
  <2>4. StreamsTracked'
    <3> SUFFICES ASSUME driver_faults' = 0
                 PROVE  (/\ driver = HeldIn(sources) \cup HeldIn(sinks)
                         /\ HeldIn(sources) \cap HeldIn(sinks) = {}
                         /\ NoneShared(sources)
                         /\ NoneShared(sinks))'
      BY DEF StreamsTracked
    <3>1. /\ driver = HeldIn(sinks) \cup HeldIn(sources)
          /\ HeldIn(sinks) \cap HeldIn(sources) = {}
          /\ NoneShared(sources) /\ NoneShared(sinks)
      BY <1>1 DEF Frame, IInv, StreamsTracked
    <3>2. /\ sinks' = [sinks EXCEPT ![id] = new]
          /\ Swapped(sinks[id], new)
          /\ sinks \in [SinkIds -> Stream]
      BY <2>1 DEF Replaced, IInv, TypeOK
    <3>3. Tracked(sinks', HeldIn(sources), driver')
      <4>1. Tracked(sinks, HeldIn(sources), driver)
        BY <3>1 DEF Tracked
      <4> QED
        BY <3>2, <4>1, TrackingPreserved
    <3>4. sources' = sources
      BY <1>4 DEF SinkStep
    <3>5. HeldIn(sources)' = HeldIn(sources)
      BY <3>4 DEF HeldIn, Held
    <3>5a. NoneShared(sources) => NoneShared(sources)'
      BY <3>4 DEF NoneShared, Held
    <3>6. HeldIn(sinks)' = HeldIn(sinks') /\ NoneShared(sinks)'
      BY <3>3 DEF Tracked, HeldIn, NoneShared, Held
    <3> QED
      BY <3>1, <3>3, <3>5, <3>5a, <3>6 DEF Tracked
  <2> QED
    BY <2>3, <2>4 DEF IInv
<1>5. CASE KeptStep
  <2>1. TypeOK' /\ NameIndexSound'
    BY <1>1, <1>5
       DEF KeptStep, Frame, Groups, IInv, TypeOK, NameIndexSound, IndexSound,
           WellFormed
  <2>2. StreamsTracked'
    <3>1. sources' = sources /\ sinks' = sinks
      BY <1>5 DEF KeptStep
    <3>2. HeldIn(sources)' = HeldIn(sources) /\ HeldIn(sinks)' = HeldIn(sinks)
      BY <3>1 DEF HeldIn, Held
    <3>3. (NoneShared(sources) /\ NoneShared(sinks)) =>
            (NoneShared(sources) /\ NoneShared(sinks))'
      BY <3>1 DEF NoneShared, Held
    <3>4. driver_faults' = 0 => driver_faults = 0 /\ driver' = driver
      BY <1>1, <1>5 DEF KeptStep, Frame
    <3> QED
      BY <3>2, <3>3, <3>4 DEF IInv, StreamsTracked
  <2> QED
    BY <2>1, <2>2 DEF IInv
<1> QED
  BY <1>1, <1>3, <1>4, <1>5

LEMMA AlwaysIInv == Spec => []IInv
  BY InitIInv, NextIInv, PTL DEF Spec

(* TypeOK holds in every reachable state of SessionManager's tables: no    *)
(* reference count of IGMP goes below zero and every enabled entry has its *)
(* handles, whichever driver commands and socket options fail.             *)
THEOREM TypeCorrect == Spec => []TypeOK
<1>1. IInv => TypeOK
  BY DEF IInv
<1> QED
  BY <1>1, AlwaysIInv, PTL

(* source_names_ and sink_names_ never lead to a stream that is gone, for  *)
(* any ids, names and truncation and any sequence of calls.                *)
THEOREM NamesSound == Spec => []NameIndexSound
<1>1. IInv => NameIndexSound
  BY DEF IInv
<1> QED
  BY <1>1, AlwaysIInv, PTL

(* The driver runs exactly the streams the tables hold until a failure     *)
(* that add_source, add_sink or their removals do not undo.                *)
THEOREM DriverTracked == Spec => []StreamsTracked
<1>1. IInv => StreamsTracked
  BY DEF IInv
<1> QED
  BY <1>1, AlwaysIInv, PTL

-----------------------------------------------------------------------------
(* Group membership.  While no join or leave has failed, the socket is a   *)
(* member of a group exactly when the count of the group is not zero, and  *)
(* the count moves by one for each stream that comes or goes.              *)

Balanced(g) == g.member <=> g.ref > 0

AllBalanced(ig) == \A l \in Legs, a \in McastAddrs : Balanced(ig[l][a])

(* What stream s contributes to the count of group a on leg l.             *)
Use(s, l, a) == IF l \in GroupLegs(s) /\ s.dest[l] = a THEN 1 ELSE 0

LEMMA JoinCounts ==
  ASSUME NEW g \in Group, Balanced(g), NEW j \in JoinResults(g), j.res = "ok"
  PROVE  j.g \in Group /\ j.g.ref = g.ref + 1 /\ Balanced(j.g)
<1>1. g.ref \in Nat /\ g.member \in BOOLEAN
  BY DEF Group
<1>2. CASE g.ref > 0
  <2>1. j = [g |-> [ref |-> g.ref + 1, member |-> g.member], res |-> "ok"]
    BY <1>2 DEF JoinResults
  <2>2. j.g.ref = g.ref + 1 /\ (j.g.member <=> g.member)
    BY <2>1
  <2>3. g.member
    BY <1>2 DEF Balanced
  <2>4. g.ref + 1 > 0
    BY <1>1
  <2> QED
    BY <2>2, <2>3, <2>4, JoinTyped DEF Balanced, GroupOK
<1>3. CASE ~(g.ref > 0)
  <2>1. j = [g |-> [ref |-> 1, member |-> TRUE], res |-> "ok"]
    BY <1>3 DEF JoinResults
  <2>2. j.g.ref = 1 /\ j.g.member
    BY <2>1
  <2>3. g.ref + 1 = 1 /\ 1 > 0
    BY <1>1, <1>3
  <2> QED
    BY <2>2, <2>3, JoinTyped DEF Balanced, GroupOK
<1> QED
  BY <1>2, <1>3

LEMMA LeaveCounts ==
  ASSUME NEW g \in Group, Balanced(g), NEW j \in LeaveResults(g), j.res = "ok"
  PROVE  j.g \in Group /\ j.g.ref = g.ref - 1 /\ Balanced(j.g)
<1>1. g.ref \in Nat /\ g.member \in BOOLEAN
  BY DEF Group
<1>2. CASE g.ref > 1
  <2>1. j = [g |-> [ref |-> g.ref - 1, member |-> g.member], res |-> "ok"]
    BY <1>1, <1>2 DEF LeaveResults
  <2>2. j.g.ref = g.ref - 1 /\ (j.g.member <=> g.member)
    BY <2>1
  <2>3. g.ref > 0 /\ g.ref - 1 > 0
    BY <1>1, <1>2
  <2>4. g.member
    BY <2>3 DEF Balanced
  <2> QED
    BY <2>2, <2>3, <2>4, LeaveTyped DEF Balanced, GroupOK
<1>3. CASE ~(g.ref > 1)
  <2>1. j = [g |-> [ref |-> 0, member |-> FALSE], res |-> "ok"] /\ g.ref # 0
    BY <1>3 DEF LeaveResults
  <2>2. j.g.ref = 0 /\ ~j.g.member
    BY <2>1
  <2>3. g.ref - 1 = 0 /\ ~(0 > 0)
    BY <1>1, <1>3, <2>1
  <2> QED
    BY <2>2, <2>3, LeaveTyped DEF Balanced, GroupOK
<1> QED
  BY <1>2, <1>3

(* One leg, then both.                                                     *)
LEMMA JoinLegCounts ==
  ASSUME NEW r, r.ig \in Groups, AllBalanced(r.ig), NEW l \in Legs, NEW s,
         NEW q \in JoinLeg(r, l, s), q.res # "error"
  PROVE  /\ r.res # "error" /\ q.ig \in Groups /\ AllBalanced(q.ig)
         /\ \A m \in Legs, a \in McastAddrs :
              q.ig[m][a].ref = r.ig[m][a].ref + (IF m = l THEN Use(s, l, a) ELSE 0)
<1>0. \A m \in Legs, a \in McastAddrs : r.ig[m][a].ref \in Nat
  BY DEF Groups, Group
<1>1. CASE l \notin GroupLegs(s)
  BY <1>0, <1>1 DEF JoinLeg, Use
<1>2. CASE l \in GroupLegs(s)
  <2> DEFINE b == s.dest[l]
             g == r.ig[l][b]
  <2>1. PICK j \in JoinResults(g) :
          q = [ig  |-> [r.ig EXCEPT ![l][b] = j.g],
               res |-> IF j.res = "ok" THEN r.res ELSE "error"]
    BY <1>2 DEF JoinLeg
  <2>2. q.ig = [r.ig EXCEPT ![l][b] = j.g] /\ q.res = IF j.res = "ok" THEN r.res ELSE "error"
    BY <2>1
  <2>3. j.res = "ok" /\ r.res # "error"
    BY <2>2
  <2>4. b \in McastAddrs
    BY <1>2 DEF GroupLegs, Legs
  <2>5. g \in Group /\ Balanced(g)
    BY <2>4 DEF Groups, AllBalanced
  <2>6. j.g \in Group /\ j.g.ref = g.ref + 1 /\ Balanced(j.g)
    BY <2>3, <2>5, JoinCounts
  <2>7. q.ig \in Groups
    BY <2>2, <2>4, <2>6 DEF Groups
  <2>8. \A m \in Legs, a \in McastAddrs :
          q.ig[m][a] = IF m = l /\ a = b THEN j.g ELSE r.ig[m][a]
    BY <2>2, <2>4 DEF Groups
  <2>9. AllBalanced(q.ig)
    BY <2>6, <2>8 DEF AllBalanced
  <2>10. ASSUME NEW m \in Legs, NEW a \in McastAddrs
         PROVE  q.ig[m][a].ref = r.ig[m][a].ref + (IF m = l THEN Use(s, l, a) ELSE 0)
    <3>1. CASE m = l /\ a = b
      BY <1>2, <2>6, <2>8, <3>1 DEF Use
    <3>2. CASE ~(m = l /\ a = b)
      <4>1. q.ig[m][a] = r.ig[m][a]
        BY <2>8, <3>2
      <4>2. (IF m = l THEN Use(s, l, a) ELSE 0) = 0
        BY <3>2 DEF Use
      <4> QED
        BY <1>0, <4>1, <4>2
    <3> QED
      BY <3>1, <3>2
  <2> QED
    BY <2>3, <2>7, <2>9, <2>10
<1> QED
  BY <1>1, <1>2

LEMMA LeaveLegCounts ==
  ASSUME NEW r, r.ig \in Groups, AllBalanced(r.ig), NEW l \in Legs, NEW s,
         NEW q \in LeaveLeg(r, l, s), q.res # "error"
  PROVE  /\ r.res # "error" /\ q.ig \in Groups /\ AllBalanced(q.ig)
         /\ \A m \in Legs, a \in McastAddrs :
              q.ig[m][a].ref = r.ig[m][a].ref - (IF m = l THEN Use(s, l, a) ELSE 0)
<1>0. \A m \in Legs, a \in McastAddrs : r.ig[m][a].ref \in Nat
  BY DEF Groups, Group
<1>1. CASE l \notin GroupLegs(s)
  BY <1>0, <1>1 DEF LeaveLeg, Use
<1>2. CASE l \in GroupLegs(s)
  <2> DEFINE b == s.dest[l]
             g == r.ig[l][b]
  <2>1. PICK j \in LeaveResults(g) :
          q = [ig  |-> [r.ig EXCEPT ![l][b] = j.g],
               res |-> IF j.res = "ok" THEN r.res ELSE "error"]
    BY <1>2 DEF LeaveLeg
  <2>2. q.ig = [r.ig EXCEPT ![l][b] = j.g] /\ q.res = IF j.res = "ok" THEN r.res ELSE "error"
    BY <2>1
  <2>3. j.res = "ok" /\ r.res # "error"
    BY <2>2
  <2>4. b \in McastAddrs
    BY <1>2 DEF GroupLegs, Legs
  <2>5. g \in Group /\ Balanced(g)
    BY <2>4 DEF Groups, AllBalanced
  <2>6. j.g \in Group /\ j.g.ref = g.ref - 1 /\ Balanced(j.g)
    BY <2>3, <2>5, LeaveCounts
  <2>7. q.ig \in Groups
    BY <2>2, <2>4, <2>6 DEF Groups
  <2>8. \A m \in Legs, a \in McastAddrs :
          q.ig[m][a] = IF m = l /\ a = b THEN j.g ELSE r.ig[m][a]
    BY <2>2, <2>4 DEF Groups
  <2>9. AllBalanced(q.ig)
    BY <2>6, <2>8 DEF AllBalanced
  <2>10. ASSUME NEW m \in Legs, NEW a \in McastAddrs
         PROVE  q.ig[m][a].ref = r.ig[m][a].ref - (IF m = l THEN Use(s, l, a) ELSE 0)
    <3>1. CASE m = l /\ a = b
      BY <1>2, <2>6, <2>8, <3>1 DEF Use
    <3>2. CASE ~(m = l /\ a = b)
      <4>1. q.ig[m][a] = r.ig[m][a]
        BY <2>8, <3>2
      <4>2. (IF m = l THEN Use(s, l, a) ELSE 0) = 0
        BY <3>2 DEF Use
      <4> QED
        BY <1>0, <4>1, <4>2
    <3> QED
      BY <3>1, <3>2
  <2> QED
    BY <2>3, <2>7, <2>9, <2>10
<1> QED
  BY <1>1, <1>2

(* A whole call in which no join and no leave fails.                       *)
LEMMA RegroupCounts ==
  ASSUME NEW old, NEW new, igmp \in Groups, AllBalanced(igmp), igmp_faults = 0,
         Regroup(old, new), igmp_faults' = 0
  PROVE  /\ AllBalanced(igmp')
         /\ \A l \in Legs, a \in McastAddrs :
              igmp'[l][a].ref = igmp[l][a].ref - Use(old, l, a) + Use(new, l, a)
<1>1. PICK r1 \in LeaveGroups(igmp, old) : \E r2 \in JoinGroups(r1.ig, new) :
        /\ igmp' = r2.ig
        /\ igmp_faults' = IF "error" \in {r1.res, r2.res} THEN igmp_faults + 1
                          ELSE igmp_faults
  BY DEF Regroup
<1>2. PICK r2 \in JoinGroups(r1.ig, new) :
        /\ igmp' = r2.ig
        /\ igmp_faults' = IF "error" \in {r1.res, r2.res} THEN igmp_faults + 1
                          ELSE igmp_faults
  BY <1>1
<1>3. r1.res # "error" /\ r2.res # "error"
  BY <1>2
<1>4. PICK p \in LeaveLeg([ig |-> igmp, res |-> "ok"], 1, old) : r1 \in LeaveLeg(p, 2, old)
  BY DEF LeaveGroups
<1>5. PICK q \in JoinLeg([ig |-> r1.ig, res |-> "ok"], 1, new) : r2 \in JoinLeg(q, 2, new)
  BY DEF JoinGroups
<1>6. 1 \in Legs /\ 2 \in Legs /\ \A l \in Legs : l = 1 \/ l = 2
  BY DEF Legs
<1>7. p.ig \in Groups
  BY <1>4, <1>6, LeaveLegTyped
<1>8. p.res # "error"
  <2>1. CASE 2 \notin GroupLegs(old)
    BY <1>3, <1>4, <2>1 DEF LeaveLeg
  <2>2. CASE 2 \in GroupLegs(old)
    BY <1>3, <1>4, <2>2 DEF LeaveLeg
  <2> QED
    BY <2>1, <2>2
<1>9. /\ AllBalanced(p.ig)
      /\ \A m \in Legs, a \in McastAddrs :
           p.ig[m][a].ref = igmp[m][a].ref - (IF m = 1 THEN Use(old, 1, a) ELSE 0)
  BY <1>4, <1>6, <1>8, LeaveLegCounts
<1>10. /\ r1.ig \in Groups /\ AllBalanced(r1.ig)
       /\ \A m \in Legs, a \in McastAddrs :
            r1.ig[m][a].ref = p.ig[m][a].ref - (IF m = 2 THEN Use(old, 2, a) ELSE 0)
  BY <1>3, <1>4, <1>6, <1>7, <1>9, LeaveLegCounts
<1>11. q.ig \in Groups
  BY <1>5, <1>6, <1>10, JoinLegTyped
<1>12. q.res # "error"
  <2>1. CASE 2 \notin GroupLegs(new)
    BY <1>3, <1>5, <2>1 DEF JoinLeg
  <2>2. CASE 2 \in GroupLegs(new)
    BY <1>3, <1>5, <2>2 DEF JoinLeg
  <2> QED
    BY <2>1, <2>2
<1>13. /\ AllBalanced(q.ig)
       /\ \A m \in Legs, a \in McastAddrs :
            q.ig[m][a].ref = r1.ig[m][a].ref + (IF m = 1 THEN Use(new, 1, a) ELSE 0)
  BY <1>5, <1>6, <1>10, <1>12, JoinLegCounts
<1>14. /\ AllBalanced(r2.ig)
       /\ \A m \in Legs, a \in McastAddrs :
            r2.ig[m][a].ref = q.ig[m][a].ref + (IF m = 2 THEN Use(new, 2, a) ELSE 0)
  BY <1>3, <1>5, <1>6, <1>11, <1>13, JoinLegCounts
<1>15. ASSUME NEW l \in Legs, NEW a \in McastAddrs
       PROVE  igmp'[l][a].ref = igmp[l][a].ref - Use(old, l, a) + Use(new, l, a)
  <2>1. igmp[l][a].ref \in Nat /\ Use(old, l, a) \in Nat /\ Use(new, l, a) \in Nat
    BY DEF Groups, Group, Use
  <2>2. CASE l = 1
    BY <1>2, <1>9, <1>10, <1>13, <1>14, <2>1, <2>2
  <2>3. CASE l = 2
    BY <1>2, <1>9, <1>10, <1>13, <1>14, <2>1, <2>3
  <2> QED
    BY <1>6, <2>2, <2>3
<1> QED
  BY <1>2, <1>14, <1>15

(* What the call of a step does to the groups.                             *)
GroupStep ==
  \/ /\ \E id \in SourceIds, new \in Stream :
          sources' = [sources EXCEPT ![id] = new] /\ Regroup(sources[id], new)
     /\ sinks' = sinks
  \/ /\ \E id \in SinkIds, new \in Stream :
          sinks' = [sinks EXCEPT ![id] = new] /\ Regroup(sinks[id], new)
     /\ sources' = sources
  \/ UNCHANGED <<sources, sinks, igmp, igmp_faults>>

LEMMA StepGroups ==
  ASSUME IInv, [Next]_vars
  PROVE  GroupStep
<1>1. NoStream \in Stream
  BY IdleStream
<1>2. ASSUME NEW id \in SourceIds, NEW n \in Names, AddSourceDisabled(id, n)
      PROVE  GroupStep
  <2> DEFINE new == NewStream("disabled", n, Nil, Nil, Nil, Nil)
  <2>1. new \in Stream /\ GroupLegs(new) = {} /\ GroupLegs(NoStream) = {}
    <3>1. new.state = "disabled" /\ NoStream.state = "absent" /\ new \in Stream
      BY IdleStream
    <3> QED
      BY <3>1 DEF GroupLegs
  <2>2. /\ sources' = [sources EXCEPT ![id] = new] /\ sinks' = sinks
        /\ Regroup(sources[id], NoStream)
    BY <1>2 DEF AddSourceDisabled
  <2>3. \A ig : JoinGroups(ig, new) = JoinGroups(ig, NoStream)
    <3>1. \A r, l : JoinLeg(r, l, new) = {r} /\ JoinLeg(r, l, NoStream) = {r}
      <4> HIDE DEF new
      <4> QED
        BY <2>1 DEF JoinLeg
    <3> HIDE DEF new
    <3> QED
      BY <3>1 DEF JoinGroups
  <2>4. Regroup(sources[id], new)
    <3> HIDE DEF new
    <3> QED
      BY <2>2, <2>3 DEF Regroup
  <2> HIDE DEF new
  <2> QED
    BY <2>1, <2>2, <2>4 DEF GroupStep
<1>3. ASSUME NEW req \in Request(SourceIds), AddSourceEnabled(req)
      PROVE  GroupStep
  <2>1. PICK h1, h2 :
          LET new == NewStream("enabled", req.name, req.dest[1],
                               IF h2 = Nil THEN Nil ELSE req.dest[2], h1, h2)
          IN  sources' = [sources EXCEPT ![req.id] = new] /\ Regroup(sources[req.id], new)
    BY <1>3 DEF AddSourceEnabled
  <2> DEFINE new == NewStream("enabled", req.name, req.dest[1],
                              IF h2 = Nil THEN Nil ELSE req.dest[2], h1, h2)
  <2>2. /\ sources' = [sources EXCEPT ![req.id] = new] /\ Regroup(sources[req.id], new)
        /\ sinks' = sinks /\ req.id \in SourceIds
    BY <1>3, <2>1 DEF AddSourceEnabled, Request
  <2>3. new \in Stream
    <3>1. Frame /\ SourceStep
      BY <1>3, AddSourceEnabledStep
    <3>2. sources' \in [SourceIds -> Stream]
      BY <3>1 DEF SourceStep, Replaced, IInv, TypeOK
    <3>3. sources \in [SourceIds -> Stream]
      BY DEF IInv, TypeOK
    <3> HIDE DEF new
    <3>4. sources'[req.id] = new
      BY <2>2, <3>3
    <3> QED
      BY <2>2, <3>2, <3>4
  <2> HIDE DEF new
  <2> QED
    BY <2>2, <2>3 DEF GroupStep
<1>4. ASSUME NEW req \in Request(SourceIds), AddSourceRefused(req) \/ AddSourceLeg2Refused(req)
      PROVE  GroupStep
  <2>1. SourceDropped(req) /\ req.id \in SourceIds
    BY <1>4 DEF AddSourceRefused, AddSourceLeg2Refused, Request
  <2> QED
    BY <1>1, <2>1 DEF SourceDropped, GroupStep
<1>5. ASSUME NEW id \in SourceIds, RemoveSource(id)
      PROVE  GroupStep
  <2>1. /\ sinks' = sinks
        /\ \/ sources' = [sources EXCEPT ![id] = NoStream] /\ Regroup(sources[id], NoStream)
           \/ UNCHANGED <<sources, igmp, igmp_faults>>
    BY <1>5 DEF RemoveSource
  <2> QED
    BY <1>1, <2>1 DEF GroupStep
<1>6. ASSUME NEW req \in Request(SinkIds), AddSink(req)
      PROVE  GroupStep
  <2>1. PICK h1, h2 :
          LET new == NewStream("enabled", req.name, req.dest[1],
                               IF h2 = Nil THEN Nil ELSE req.dest[2], h1, h2)
          IN  sinks' = [sinks EXCEPT ![req.id] = new] /\ Regroup(sinks[req.id], new)
    BY <1>6 DEF AddSink
  <2> DEFINE new == NewStream("enabled", req.name, req.dest[1],
                              IF h2 = Nil THEN Nil ELSE req.dest[2], h1, h2)
  <2>2. /\ sinks' = [sinks EXCEPT ![req.id] = new] /\ Regroup(sinks[req.id], new)
        /\ sources' = sources /\ req.id \in SinkIds
    BY <1>6, <2>1 DEF AddSink, Request
  <2>3. new \in Stream
    <3>1. Frame /\ SinkStep
      BY <1>6, AddSinkStep
    <3>2. sinks' \in [SinkIds -> Stream]
      BY <3>1 DEF SinkStep, Replaced, IInv, TypeOK
    <3>3. sinks \in [SinkIds -> Stream]
      BY DEF IInv, TypeOK
    <3> HIDE DEF new
    <3>4. sinks'[req.id] = new
      BY <2>2, <3>3
    <3> QED
      BY <2>2, <3>2, <3>4
  <2> HIDE DEF new
  <2> QED
    BY <2>2, <2>3 DEF GroupStep
<1>7. ASSUME NEW req \in Request(SinkIds), AddSinkRefused(req) \/ AddSinkLeg2Refused(req)
      PROVE  GroupStep
  <2>1. SinkDropped(req) /\ req.id \in SinkIds
    BY <1>7 DEF AddSinkRefused, AddSinkLeg2Refused, Request
  <2> QED
    BY <1>1, <2>1 DEF SinkDropped, GroupStep
<1>8. ASSUME NEW id \in SinkIds, RemoveSink(id)
      PROVE  GroupStep
  <2>1. /\ sources' = sources
        /\ \/ sinks' = [sinks EXCEPT ![id] = NoStream] /\ Regroup(sinks[id], NoStream)
           \/ UNCHANGED <<sinks, igmp, igmp_faults>>
    BY <1>8 DEF RemoveSink
  <2> QED
    BY <1>1, <2>1 DEF GroupStep
<1>9. CASE SecondaryChange \/ UNCHANGED vars
  BY <1>9 DEF SecondaryChange, vars, GroupStep
<1> QED
  BY <1>2, <1>3, <1>4, <1>5, <1>6, <1>7, <1>8, <1>9 DEF Next, AddSource, AddSinkAny

(* One user replaced by another, or by none.                               *)
LEMMA UserReplaced ==
  ASSUME NEW U, IsFiniteSet(U), NEW x, NEW V, NEW n \in {0, 1},
         V \ {x} = U \ {x}, x \in V <=> n = 1
  PROVE  /\ IsFiniteSet(V)
         /\ Cardinality(V) = Cardinality(U) - (IF x \in U THEN 1 ELSE 0) + n
<1> DEFINE W == U \ {x}
<1>1. /\ IsFiniteSet(W) /\ x \notin W
      /\ Cardinality(W) = Cardinality(U) - (IF x \in U THEN 1 ELSE 0)
  <2>1. Cardinality(U) \in Nat
    BY FS_CardinalityType
  <2> QED
    BY <2>1, FS_RemoveElement
<1>2. Cardinality(W) \in Nat
  BY <1>1, FS_CardinalityType
<1>3. CASE n = 1
  <2>1. V = W \cup {x}
    BY <1>3
  <2> QED
    BY <1>1, <1>2, <1>3, <2>1, FS_AddElement
<1>4. CASE n = 0
  <2>1. V = W
    BY <1>4
  <2> QED
    BY <1>1, <1>2, <1>4, <2>1
<1> QED
  BY <1>3, <1>4

(* A stream is a user of a group exactly when it contributes to its count. *)
LEMMA SourceUsers ==
  ASSUME sources \in [SourceIds -> Stream], NEW id \in SourceIds, NEW new \in Stream,
         sources' = [sources EXCEPT ![id] = new], sinks' = sinks,
         NEW l \in Legs, NEW a \in McastAddrs
  PROVE  /\ <<"source", id>> \in Users(l, a) <=> Use(sources[id], l, a) = 1
         /\ <<"source", id>> \in Users(l, a)' <=> Use(new, l, a) = 1
         /\ Users(l, a)' \ {<<"source", id>>} = Users(l, a) \ {<<"source", id>>}
<1>1. sources'[id] = new /\ \A i \in SourceIds : i # id => sources'[i] = sources[i]
  OBVIOUS
<1>2. \A s : GroupLegs(s)' = GroupLegs(s)
  BY DEF GroupLegs
<1>3. Users(l, a)' =
        {<<"source", i>> : i \in {j \in SourceIds : l \in GroupLegs(sources'[j])
                                                    /\ sources'[j].dest[l] = a}} \cup
        {<<"sink", i>> : i \in {j \in SinkIds : l \in GroupLegs(sinks[j])
                                                /\ sinks[j].dest[l] = a}}
  BY DEF Users, GroupLegs
<1>4. <<"source", id>> \in Users(l, a) <=>
        l \in GroupLegs(sources[id]) /\ sources[id].dest[l] = a
  BY DEF Users
<1>5. <<"source", id>> \in Users(l, a)' <=> l \in GroupLegs(new) /\ new.dest[l] = a
  BY <1>1, <1>3
<1>6. Users(l, a)' \ {<<"source", id>>} = Users(l, a) \ {<<"source", id>>}
  BY <1>1, <1>3 DEF Users
<1> QED
  BY <1>4, <1>5, <1>6 DEF Use

LEMMA SinkUsers ==
  ASSUME sinks \in [SinkIds -> Stream], NEW id \in SinkIds, NEW new \in Stream,
         sinks' = [sinks EXCEPT ![id] = new], sources' = sources,
         NEW l \in Legs, NEW a \in McastAddrs
  PROVE  /\ <<"sink", id>> \in Users(l, a) <=> Use(sinks[id], l, a) = 1
         /\ <<"sink", id>> \in Users(l, a)' <=> Use(new, l, a) = 1
         /\ Users(l, a)' \ {<<"sink", id>>} = Users(l, a) \ {<<"sink", id>>}
<1>1. sinks'[id] = new /\ \A i \in SinkIds : i # id => sinks'[i] = sinks[i]
  OBVIOUS
<1>3. Users(l, a)' =
        {<<"source", i>> : i \in {j \in SourceIds : l \in GroupLegs(sources[j])
                                                    /\ sources[j].dest[l] = a}} \cup
        {<<"sink", i>> : i \in {j \in SinkIds : l \in GroupLegs(sinks'[j])
                                                /\ sinks'[j].dest[l] = a}}
  BY DEF Users, GroupLegs
<1>4. <<"sink", id>> \in Users(l, a) <=> l \in GroupLegs(sinks[id]) /\ sinks[id].dest[l] = a
  BY DEF Users
<1>5. <<"sink", id>> \in Users(l, a)' <=> l \in GroupLegs(new) /\ new.dest[l] = a
  BY <1>1, <1>3
<1>6. Users(l, a)' \ {<<"sink", id>>} = Users(l, a) \ {<<"sink", id>>}
  BY <1>1, <1>3 DEF Users
<1> QED
  BY <1>4, <1>5, <1>6 DEF Use

(* The counts are exact.                                                   *)
Exact(l, a) == IsFiniteSet(Users(l, a)) /\ igmp[l][a].ref = Cardinality(Users(l, a))

GInv ==
  igmp_faults = 0 =>
    AllBalanced(igmp) /\ \A l \in Legs, a \in McastAddrs : Exact(l, a)

LEMMA ExactKept ==
  ASSUME NEW l, NEW a, NEW x, NEW u \in {0, 1}, NEW n \in {0, 1}, Exact(l, a),
         x \in Users(l, a) <=> u = 1, x \in Users(l, a)' <=> n = 1,
         Users(l, a)' \ {x} = Users(l, a) \ {x},
         igmp'[l][a].ref = igmp[l][a].ref - u + n
  PROVE  Exact(l, a)'
<1> DEFINE U == Users(l, a)
<1>1. IsFiniteSet(U) /\ igmp[l][a].ref = Cardinality(U)
  BY DEF Exact
<1>2. IsFiniteSet(U') /\ Cardinality(U') = Cardinality(U) - (IF x \in U THEN 1 ELSE 0) + n
  <2>1. IsFiniteSet(U) /\ U' \ {x} = U \ {x} /\ (x \in U' <=> n = 1)
    BY <1>1
  <2> HIDE DEF U
  <2> QED
    BY <2>1, UserReplaced
<1>3. (IF x \in U THEN 1 ELSE 0) = u
  OBVIOUS
<1> HIDE DEF U
<1>4. igmp'[l][a].ref = Cardinality(U')
  BY <1>1, <1>2, <1>3
<1> QED
  BY <1>2, <1>4 DEF Exact, U

LEMMA GInvInit == Init => GInv
<1> SUFFICES ASSUME Init PROVE GInv
  OBVIOUS
<1>1. \A l \in Legs, a \in McastAddrs : igmp[l][a] = [ref |-> 0, member |-> FALSE]
  BY DEF Init
<1>2. AllBalanced(igmp)
  BY <1>1 DEF AllBalanced, Balanced
<1>3. GroupLegs(NoStream) = {}
  BY IdleStream DEF GroupLegs
<1>4. ASSUME NEW l \in Legs, NEW a \in McastAddrs PROVE Exact(l, a)
  <2>1. Users(l, a) = {}
    BY <1>3 DEF Init, Users
  <2> QED
    BY <1>1, <2>1, FS_EmptySet DEF Exact
<1> QED
  BY <1>2, <1>4 DEF GInv

LEMMA GInvNext == IInv /\ GInv /\ [Next]_vars => GInv'
<1> SUFFICES ASSUME IInv, GInv, [Next]_vars, igmp_faults' = 0
             PROVE  (AllBalanced(igmp) /\ \A l \in Legs, a \in McastAddrs : Exact(l, a))'
  BY DEF GInv
<1>1. GroupStep /\ igmp \in Groups /\ igmp_faults \in Nat
  BY StepGroups DEF IInv, TypeOK, Groups
<1>2. \A s, l, a : Use(s, l, a) \in {0, 1}
  BY DEF Use
<1>3. ASSUME NEW id \in SourceIds, NEW new \in Stream, sinks' = sinks,
             sources' = [sources EXCEPT ![id] = new], Regroup(sources[id], new)
      PROVE  (AllBalanced(igmp) /\ \A l \in Legs, a \in McastAddrs : Exact(l, a))'
  <2>1. igmp_faults = 0
    BY <1>1, <1>3 DEF Regroup
  <2>2. /\ AllBalanced(igmp')
        /\ \A l \in Legs, a \in McastAddrs :
             igmp'[l][a].ref = igmp[l][a].ref - Use(sources[id], l, a) + Use(new, l, a)
    BY <1>1, <1>3, <2>1, RegroupCounts DEF GInv
  <2>3. ASSUME NEW l \in Legs, NEW a \in McastAddrs PROVE Exact(l, a)'
    <3>1. Exact(l, a)
      BY <2>1 DEF GInv
    <3>2. /\ <<"source", id>> \in Users(l, a) <=> Use(sources[id], l, a) = 1
          /\ <<"source", id>> \in Users(l, a)' <=> Use(new, l, a) = 1
          /\ Users(l, a)' \ {<<"source", id>>} = Users(l, a) \ {<<"source", id>>}
      BY <1>3, SourceUsers DEF IInv, TypeOK
    <3> QED
      BY <1>2, <2>2, <3>1, <3>2, ExactKept
  <2> QED
    BY <2>2, <2>3 DEF AllBalanced, Balanced, Legs
<1>4. ASSUME NEW id \in SinkIds, NEW new \in Stream, sources' = sources,
             sinks' = [sinks EXCEPT ![id] = new], Regroup(sinks[id], new)
      PROVE  (AllBalanced(igmp) /\ \A l \in Legs, a \in McastAddrs : Exact(l, a))'
  <2>1. igmp_faults = 0
    BY <1>1, <1>4 DEF Regroup
  <2>2. /\ AllBalanced(igmp')
        /\ \A l \in Legs, a \in McastAddrs :
             igmp'[l][a].ref = igmp[l][a].ref - Use(sinks[id], l, a) + Use(new, l, a)
    BY <1>1, <1>4, <2>1, RegroupCounts DEF GInv
  <2>3. ASSUME NEW l \in Legs, NEW a \in McastAddrs PROVE Exact(l, a)'
    <3>1. Exact(l, a)
      BY <2>1 DEF GInv
    <3>2. /\ <<"sink", id>> \in Users(l, a) <=> Use(sinks[id], l, a) = 1
          /\ <<"sink", id>> \in Users(l, a)' <=> Use(new, l, a) = 1
          /\ Users(l, a)' \ {<<"sink", id>>} = Users(l, a) \ {<<"sink", id>>}
      BY <1>4, SinkUsers DEF IInv, TypeOK
    <3> QED
      BY <1>2, <2>2, <3>1, <3>2, ExactKept
  <2> QED
    BY <2>2, <2>3 DEF AllBalanced, Balanced, Legs
<1>5. CASE UNCHANGED <<sources, sinks, igmp, igmp_faults>>
  <2>1. \A l, a : Users(l, a)' = Users(l, a)
    BY <1>5 DEF Users, GroupLegs
  <2>2. igmp_faults = 0 /\ igmp' = igmp
    BY <1>5
  <2> QED
    BY <2>1, <2>2 DEF GInv, AllBalanced, Balanced, Exact, Legs
<1> QED
  BY <1>1, <1>3, <1>4, <1>5 DEF GroupStep

(* IGMP::join and IGMP::leave keep one reference per stream and group, so  *)
(* the daemon is a member of exactly the groups its streams use, however   *)
(* many sources and sinks share them, until a join or a leave fails.       *)
THEOREM GroupsFollow == Spec => []GroupMembership
<1>1. IInv /\ GInv => GroupMembership
  <2> SUFFICES ASSUME GInv, igmp_faults = 0, NEW l \in Legs, NEW a \in McastAddrs
               PROVE  /\ igmp[l][a].ref = Cardinality(Users(l, a))
                      /\ igmp[l][a].member <=> Users(l, a) # {}
    BY DEF GroupMembership
  <2>1. /\ IsFiniteSet(Users(l, a)) /\ igmp[l][a].ref = Cardinality(Users(l, a))
        /\ igmp[l][a].member <=> igmp[l][a].ref > 0
    BY DEF GInv, Exact, AllBalanced, Balanced
  <2>2. igmp[l][a].ref > 0 <=> Users(l, a) # {}
    <3>1. Cardinality(Users(l, a)) \in Nat
      BY <2>1, FS_CardinalityType
    <3>2. Cardinality(Users(l, a)) = 0 <=> Users(l, a) = {}
      BY <2>1, FS_EmptySet
    <3> QED
      BY <2>1, <3>1, <3>2
  <2> QED
    BY <2>1, <2>2
<1> QED
  BY <1>1, AlwaysIInv, GInvInit, GInvNext, PTL DEF Spec
=============================================================================
