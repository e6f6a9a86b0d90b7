---------------------------- MODULE StreamTables ----------------------------
(***************************************************************************)
(* The stream tables of SessionManager (daemon/session_manager.cpp): the   *)
(* configured sources and sinks, the two name indexes, the RTP streams     *)
(* these entries hold open in the kernel driver, and the IGMP membership   *)
(* they need (daemon/igmp.hpp).                                            *)
(*                                                                         *)
(* add_source, remove_source, add_sink and remove_sink run on the threads  *)
(* of the HTTP server, of the NMOS manager and of the session worker.      *)
(* Everything modelled here happens under the unique lock of the table, so *)
(* one call is one step.  Each driver command and each socket option can   *)
(* fail on its own inside a call; what the code then undoes, and what it   *)
(* leaves behind, is what the properties are about.                        *)
(*                                                                         *)
(* The session version and the SDP text of a source are modelled in        *)
(* SessionVersion and SapAnnouncer: nothing here reads them.               *)
(***************************************************************************)
EXTENDS Naturals, FiniteSets

CONSTANTS
  SourceIds,    \* source ids, 0..stream_id_max in the code
  SinkIds,      \* sink ids, likewise
  Names,        \* stream names a client may use
  Trunc,        \* name -> what fits in TRTP_stream_info::m_cName
  Addrs,        \* RTP destination addresses
  McastAddrs,   \* those for which IN_MULTICAST holds
  Destinations, \* pairs of destinations, per leg, that clients ask for
  Handles,      \* stream handles of the kernel driver
  SecConfigured,\* config: interface_name(1) is not empty
  MaxFaults,    \* bound: calls in which the driver or the IGMP socket fails
  Nil           \* no id, no name, no address, no handle

ASSUME ConstantsOK ==
  /\ Trunc \in [Names -> Names]
  /\ \A n \in Names : Trunc[Trunc[n]] = Trunc[n]
  /\ McastAddrs \subseteq Addrs
  /\ Destinations \subseteq Addrs \X (Addrs \cup {Nil})
  /\ SecConfigured \in BOOLEAN
  /\ MaxFaults \in Nat
  /\ Nil \notin SourceIds \cup SinkIds \cup Names \cup Addrs \cup Handles

VARIABLES
  sources,       \* sources_ : id -> StreamInfo, NoStream when not in the map
  sinks,         \* sinks_
  source_names,  \* source_names_ : name -> id, Nil when not in the map
  sink_names,    \* sink_names_
  driver,        \* external: handles of the RTP streams the driver runs
  igmp,          \* igmp_[leg] : group -> reference count and kernel membership
  sec_up,        \* the secondary interface currently has an IP address
  driver_faults, \* history: calls in which a driver command failed, or got a
                 \* reply that is not its own, and the code does not undo it
  igmp_faults    \* history: calls in which joining or leaving a group failed

vars == <<sources, sinks, source_names, sink_names, driver, igmp, sec_up,
          driver_faults, igmp_faults>>

Legs == 1..2     \* leg 1 is index 0 of the code's arrays (Red), leg 2 index 1

(* The part of StreamInfo that the table operations read.  dest and handle *)
(* are indexed by leg; dup is st20227_enabled.                             *)
Stream == [state  : {"absent", "disabled", "enabled"},
           name   : Names \cup {Nil},
           dest   : [Legs -> Addrs \cup {Nil}],
           handle : [Legs -> Handles \cup {Nil}],
           dup    : BOOLEAN]

NoStream == [state  |-> "absent",
             name   |-> Nil,
             dest   |-> [l \in Legs |-> Nil],
             handle |-> [l \in Legs |-> Nil],
             dup    |-> FALSE]

(* What a client passes to add_source for an enabled source and to         *)
(* add_sink: the destinations after the fallback to the configured         *)
(* multicast bases, or as parse_sdp reads them from the SDP.  dest[2] is   *)
(* Nil when use_secondary is off (the SDP has no a=group:DUP).             *)
Request(ids) == [id : ids, name : Names, dest : Destinations]

(* What is in the entry of an id that is in use: the truncated name, and,  *)
(* when it is enabled, a destination and a handle for each leg it has.     *)
WellFormed(s) ==
  /\ s.state # "absent" => s.name \in Names /\ Trunc[s.name] = s.name
  /\ s.state = "enabled" => s.dest[1] \in Addrs /\ s.handle[1] \in Handles
  /\ s.dup => s.state = "enabled" /\ s.handle[2] \in Handles

Group == [ref : Nat, member : BOOLEAN]

(* Every entry and every reference count has its type; in particular the   *)
(* count of a group never goes below zero, whatever joins and leaves fail, *)
(* and no enabled stream lacks a handle or a destination (a join, a leave  *)
(* or a driver command always has its argument).                           *)
TypeOK ==
  /\ sources \in [SourceIds -> Stream]
  /\ sinks \in [SinkIds -> Stream]
  /\ \A i \in SourceIds : WellFormed(sources[i])
  /\ \A i \in SinkIds : WellFormed(sinks[i])
  /\ source_names \in [Names -> SourceIds \cup {Nil}]
  /\ sink_names \in [Names -> SinkIds \cup {Nil}]
  /\ driver \subseteq Handles
  /\ igmp \in [Legs -> [McastAddrs -> Group]]
  /\ sec_up \in BOOLEAN
  /\ driver_faults \in 0..MaxFaults
  /\ igmp_faults \in 0..MaxFaults

Init ==
  /\ sources = [i \in SourceIds |-> NoStream]
  /\ sinks = [i \in SinkIds |-> NoStream]
  /\ source_names = [n \in Names |-> Nil]
  /\ sink_names = [n \in Names |-> Nil]
  /\ driver = {}
  /\ igmp = [l \in Legs |-> [a \in McastAddrs |-> [ref |-> 0, member |-> FALSE]]]
  /\ sec_up \in BOOLEAN
  /\ driver_faults = 0
  /\ igmp_faults = 0

-----------------------------------------------------------------------------
(* Driver commands: the set of possible outcomes on a driver that runs the *)
(* streams d.  res (and h) is what the caller reads, fault says that it is *)
(* not the driver's verdict on this command: the reply was lost and an     *)
(* error returned instead, or retcode_ and recv_data_, which the caller    *)
(* reads after send_command released its mutex, are those of another       *)
(* thread's command (DriverChannel, run driver_race).  A faulty result     *)
(* says nothing of what the driver did, and its handle is any handle.      *)

(* MaxFaults bounds the calls with a failure the code does not undo.       *)
Faulty == driver_faults + igmp_faults < MaxFaults

RemoveResults(d, h) ==
  {[live |-> d \ {h}, res |-> IF h \in d THEN "ok" ELSE "error", fault |-> FALSE]}
  \cup
  (IF Faulty THEN [live : {d, d \ {h}}, res : {"ok", "error"}, fault : {TRUE}]
             ELSE {})

AddResults(d) ==
  LET done == {d \cup {h} : h \in Handles \ d} IN
  {[live |-> d \cup {h}, res |-> "ok", h |-> h, fault |-> FALSE] : h \in Handles \ d}
  \cup {[live |-> d, res |-> "error", h |-> Nil, fault |-> FALSE]}
  \cup
  (IF Faulty THEN [live : {d} \cup done, res : {"ok"}, h : Handles, fault : {TRUE}]
                  \cup [live : done, res : {"error"}, h : {Nil}, fault : {TRUE}]
             ELSE {})

(* Removing the legs of stream s one after the other and ignoring the      *)
(* errors, as an update of an id in use does.                              *)
ReleaseResults(d, s) ==
  IF s.state # "enabled" THEN {[live |-> d, res |-> "ok", fault |-> FALSE]}
  ELSE IF ~s.dup THEN RemoveResults(d, s.handle[1])
  ELSE UNION {{[r2 EXCEPT !.fault = r1.fault \/ r2.fault] :
                 r2 \in RemoveResults(r1.live, s.handle[2])} :
              r1 \in RemoveResults(d, s.handle[1])}

(* A call in which some driver command was faulty, or none.                *)
DriverFault(faulty) ==
  /\ faulty => Faulty
  /\ driver_faults' = IF faulty THEN driver_faults + 1 ELSE driver_faults

-----------------------------------------------------------------------------
(* IGMP::join and IGMP::leave on the entry g = [ref, member] of one group  *)
(* and one leg: the reference count the class keeps, and whether its       *)
(* socket is a member (the kernel refuses to join a group twice).          *)

JoinResults(g) ==
  IF g.ref > 0 THEN {[g |-> [ref |-> g.ref + 1, member |-> g.member], res |-> "ok"]}
  ELSE {[g |-> g, res |-> "error"]} \cup
       (IF g.member THEN {}
        ELSE {[g |-> [ref |-> 1, member |-> TRUE], res |-> "ok"]})

(* Mutants: the early return for an uncounted group is missing; the group  *)
(* is left although others still reference it.                             *)
LeaveResultsUnguarded(g) ==
  IF g.ref > 1 THEN {[g |-> [ref |-> g.ref - 1, member |-> g.member], res |-> "ok"]}
  ELSE {[g |-> [ref |-> g.ref - 1, member |-> FALSE], res |-> "ok"]}
LeaveResultsAlways(g) ==
  {[g |-> [ref |-> 0, member |-> FALSE], res |-> "ok"]}

LeaveResults(g) ==
  IF g.ref = 0 THEN {[g |-> g, res |-> "error"]}
  ELSE IF g.ref > 1 THEN {[g |-> [ref |-> g.ref - 1, member |-> g.member], res |-> "ok"]}
  ELSE {[g |-> [ref |-> 0, member |-> FALSE], res |-> "ok"],
        [g |-> [ref |-> 0, member |-> g.member], res |-> "error"]}

(* The groups of stream s: leg 2 only when it has two legs and its first   *)
(* destination is multicast too (the join of a unicast address fails and   *)
(* changes nothing).                                                       *)
GroupLegs(s) ==
  IF s.state # "enabled" \/ s.dest[1] \notin McastAddrs THEN {}
  ELSE {1} \cup (IF s.dup /\ s.dest[2] \in McastAddrs THEN {2} ELSE {})

(* One leg of on_add_* and of on_remove_*.  Without an interface address   *)
(* (only leg 2 can be without) join and leave return at once.              *)
JoinLeg(r, l, s) ==
  IF l \notin GroupLegs(s) THEN {r}
  ELSE IF l = 2 /\ ~sec_up THEN {[ig |-> r.ig, res |-> "error"]}
  ELSE {[ig  |-> [r.ig EXCEPT ![l][s.dest[l]] = j.g],
         res |-> IF j.res = "ok" THEN r.res ELSE "error"] :
          j \in JoinResults(r.ig[l][s.dest[l]])}

LeaveLeg(r, l, s) ==
  IF l \notin GroupLegs(s) THEN {r}
  ELSE IF l = 2 /\ ~sec_up THEN {[ig |-> r.ig, res |-> "error"]}
  ELSE {[ig  |-> [r.ig EXCEPT ![l][s.dest[l]] = j.g],
         res |-> IF j.res = "ok" THEN r.res ELSE "error"] :
          j \in LeaveResults(r.ig[l][s.dest[l]])}

JoinGroups(ig, s) ==
  UNION {JoinLeg(r, 2, s) : r \in JoinLeg([ig |-> ig, res |-> "ok"], 1, s)}
LeaveGroups(ig, s) ==
  UNION {LeaveLeg(r, 2, s) : r \in LeaveLeg([ig |-> ig, res |-> "ok"], 1, s)}

(* The IGMP side of a whole call: old leaves its groups, then new joins.   *)
Regroup(old, new) ==
  \E r1 \in LeaveGroups(igmp, old) : \E r2 \in JoinGroups(r1.ig, new) :
    LET failed == "error" \in {r1.res, r2.res} IN
    /\ failed => Faulty
    /\ igmp' = r2.ig
    /\ igmp_faults' = IF failed THEN igmp_faults + 1 ELSE igmp_faults

-----------------------------------------------------------------------------
(* Name indexes.  on_remove_* erases the truncated name kept in            *)
(* TRTP_stream_info, on_add_* sets the name the client gave.               *)

(* Mutant: the name of the stream that goes is left in the index.          *)
UnindexNothing(idx, s) == idx

Unindex(idx, s) == IF s.state = "enabled" THEN [idx EXCEPT ![s.name] = Nil]
                   ELSE idx

Reindex(idx, s, name, id) == [Unindex(idx, s) EXCEPT ![name] = id]

-----------------------------------------------------------------------------
(* add_source.                                                             *)

NewStream(state, name, dest1, dest2, h1, h2) ==
  [state  |-> state,
   name   |-> Trunc[name],
   dest   |-> [l \in Legs |-> IF l = 1 THEN dest1 ELSE dest2],
   handle |-> [l \in Legs |-> IF l = 1 THEN h1 ELSE h2],
   dup    |-> h2 # Nil]

(* A new id is refused when the name is indexed; an id in use is updated,  *)
(* whatever name it asks for.                                              *)
SourceAccepted(id, name) ==
  sources[id].state # "absent" \/ source_names[name] = Nil

(* use_secondary (a=group:DUP for a sink), a secondary interface in the    *)
(* configuration, and an address on it.                                    *)
SecondLeg(req) == req.dest[2] # Nil /\ SecConfigured /\ sec_up

(* A disabled source is only remembered; an update takes its old streams   *)
(* down.                                                                   *)
AddSourceDisabled(id, name) ==
  LET old == sources[id] IN
  /\ SourceAccepted(id, name)
  /\ \E r \in ReleaseResults(driver, old) :
       /\ driver' = r.live
       /\ DriverFault(r.fault)
  /\ Regroup(old, NoStream)
  /\ source_names' = Unindex(source_names, old)
  /\ sources' = [sources EXCEPT ![id] =
                   NewStream("disabled", name, Nil, Nil, Nil, Nil)]
  /\ UNCHANGED <<sinks, sink_names, sec_up>>

AddSourceEnabled(src) ==
  LET old == sources[src.id]
      new(h1, h2) == NewStream("enabled", src.name, src.dest[1],
                       IF h2 = Nil THEN Nil ELSE src.dest[2], h1, h2)
      Commit(h1, h2) ==
        /\ sources' = [sources EXCEPT ![src.id] = new(h1, h2)]
        /\ source_names' = Reindex(source_names, old, src.name, src.id)
        /\ Regroup(old, new(h1, h2))
  IN
  /\ SourceAccepted(src.id, src.name)
  /\ \E r \in ReleaseResults(driver, old) : \E a1 \in AddResults(r.live) :
       /\ a1.res = "ok"
       /\ IF SecondLeg(src)
          THEN \E a2 \in AddResults(a1.live) :
                 /\ a2.res = "ok"
                 /\ driver' = a2.live
                 /\ DriverFault(r.fault \/ a1.fault \/ a2.fault)
                 /\ Commit(a1.h, a2.h)
          ELSE /\ driver' = a1.live
               /\ DriverFault(r.fault \/ a1.fault)
               /\ Commit(a1.h, Nil)
  /\ UNCHANGED <<sinks, sink_names, sec_up>>

(* What a failed add_source leaves of the tables: an update has already    *)
(* run on_remove_source and erases the entry.                              *)
SourceDropped(src) ==
  /\ sources' = [sources EXCEPT ![src.id] = NoStream]
  /\ source_names' = Unindex(source_names, sources[src.id])
  /\ Regroup(sources[src.id], NoStream)
  /\ UNCHANGED <<sinks, sink_names, sec_up>>

(* The driver does not accept the first leg.                               *)
AddSourceRefused(src) ==
  /\ SourceAccepted(src.id, src.name)
  /\ \E r \in ReleaseResults(driver, sources[src.id]) :
       \E a1 \in AddResults(r.live) :
         /\ a1.res # "ok"
         /\ driver' = a1.live
         /\ DriverFault(r.fault \/ a1.fault)
  /\ SourceDropped(src)

(* The driver accepts the first leg and not the second.  The code removes  *)
(* handle[0] of the old entry, not of the new one; for a new id there is   *)
(* no old entry (it == sources_.end()) and the handle read is arbitrary.   *)
AddSourceLeg2Refused(src) ==
  LET old == sources[src.id]
      handles == IF old.state = "absent" THEN Handles \cup {Nil}
                                         ELSE {old.handle[1]}
  IN
  /\ SourceAccepted(src.id, src.name)
  /\ SecondLeg(src)
  /\ DriverFault(TRUE)
  /\ \E r \in ReleaseResults(driver, old) : \E a1 \in AddResults(r.live) :
       /\ a1.res = "ok"
       /\ \E a2 \in AddResults(a1.live) : \E h \in handles :
            /\ a2.res # "ok"
            /\ \E u \in RemoveResults(a2.live, h) : driver' = u.live
  /\ SourceDropped(src)

(* remove_source: an error of either leg keeps the entry, even when the    *)
(* stream of the first leg is already gone.                                *)
RemoveResultsBoth(d, s) ==
  IF s.state # "enabled" THEN {[live |-> d, res |-> "ok", fault |-> FALSE]}
  ELSE UNION {IF r1.res = "ok" /\ s.dup
              THEN {[r2 EXCEPT !.fault = r1.fault \/ r2.fault] :
                      r2 \in RemoveResults(r1.live, s.handle[2])}
              ELSE {r1} :
              r1 \in RemoveResults(d, s.handle[1])}

RemoveSource(id) ==
  LET old == sources[id] IN
  /\ old.state # "absent"
  /\ \E r \in RemoveResultsBoth(driver, old) :
       /\ driver' = r.live
       /\ DriverFault(r.fault)
       /\ IF r.res = "ok"
          THEN /\ sources' = [sources EXCEPT ![id] = NoStream]
               /\ source_names' = Unindex(source_names, old)
               /\ Regroup(old, NoStream)
          ELSE UNCHANGED <<sources, source_names, igmp, igmp_faults>>
  /\ UNCHANGED <<sinks, sink_names, sec_up>>

-----------------------------------------------------------------------------
(* add_sink, from the point where the SDP has been fetched and parsed.     *)

SinkAccepted(snk) ==
  sinks[snk.id].state # "absent" \/ sink_names[snk.name] = Nil

AddSink(snk) ==
  LET old == sinks[snk.id]
      new(h1, h2) == NewStream("enabled", snk.name, snk.dest[1],
                       IF h2 = Nil THEN Nil ELSE snk.dest[2], h1, h2)
      Commit(h1, h2) ==
        /\ sinks' = [sinks EXCEPT ![snk.id] = new(h1, h2)]
        /\ sink_names' = Reindex(sink_names, old, snk.name, snk.id)
        /\ Regroup(old, new(h1, h2))
  IN
  /\ SinkAccepted(snk)
  /\ \E r \in ReleaseResults(driver, old) : \E a1 \in AddResults(r.live) :
       /\ a1.res = "ok"
       /\ IF SecondLeg(snk)
          THEN \E a2 \in AddResults(a1.live) :
                 /\ a2.res = "ok"
                 /\ driver' = a2.live
                 /\ DriverFault(r.fault \/ a1.fault \/ a2.fault)
                 /\ Commit(a1.h, a2.h)
          ELSE /\ driver' = a1.live
               /\ DriverFault(r.fault \/ a1.fault)
               /\ Commit(a1.h, Nil)
  /\ UNCHANGED <<sources, source_names, sec_up>>

SinkDropped(snk) ==
  /\ sinks' = [sinks EXCEPT ![snk.id] = NoStream]
  /\ sink_names' = Unindex(sink_names, sinks[snk.id])
  /\ Regroup(sinks[snk.id], NoStream)
  /\ UNCHANGED <<sources, source_names, sec_up>>

AddSinkRefused(snk) ==
  /\ SinkAccepted(snk)
  /\ \E r \in ReleaseResults(driver, sinks[snk.id]) :
       \E a1 \in AddResults(r.live) :
         /\ a1.res # "ok"
         /\ driver' = a1.live
         /\ DriverFault(r.fault \/ a1.fault)
  /\ SinkDropped(snk)

(* Mutant: the rollback removes the handle of the old entry, as add_source *)
(* does.                                                                   *)
AddSinkLeg2RefusedOldHandle(snk) ==
  /\ SinkAccepted(snk)
  /\ SecondLeg(snk)
  /\ \E r \in ReleaseResults(driver, sinks[snk.id]) :
       \E a1 \in AddResults(r.live) :
         /\ a1.res = "ok"
         /\ \E a2 \in AddResults(a1.live) :
              \E u \in RemoveResults(a2.live, sinks[snk.id].handle[1]) :
                /\ a2.res # "ok"
                /\ driver' = u.live
                /\ DriverFault(r.fault \/ a1.fault \/ a2.fault)
  /\ SinkDropped(snk)

(* The second leg is refused: the stream of the first is removed again.    *)
AddSinkLeg2Refused(snk) ==
  /\ SinkAccepted(snk)
  /\ SecondLeg(snk)
  /\ \E r \in ReleaseResults(driver, sinks[snk.id]) :
       \E a1 \in AddResults(r.live) :
         /\ a1.res = "ok"
         /\ \E a2 \in AddResults(a1.live) :
              \E u \in RemoveResults(a2.live, a1.h) :
                /\ a2.res # "ok"
                /\ driver' = u.live
                /\ DriverFault(r.fault \/ a1.fault \/ a2.fault \/ u.fault)
  /\ SinkDropped(snk)

RemoveSink(id) ==
  LET old == sinks[id] IN
  /\ old.state # "absent"
  /\ \E r \in RemoveResultsBoth(driver, old) :
       /\ driver' = r.live
       /\ DriverFault(r.fault)
       /\ IF r.res = "ok"
          THEN /\ sinks' = [sinks EXCEPT ![id] = NoStream]
               /\ sink_names' = Unindex(sink_names, old)
               /\ Regroup(old, NoStream)
          ELSE UNCHANGED <<sinks, sink_names, igmp, igmp_faults>>
  /\ UNCHANGED <<sources, source_names, sec_up>>

(* The secondary interface gains or loses its address (get_interface_ip).  *)
SecondaryChange ==
  /\ SecConfigured
  /\ sec_up' = ~sec_up
  /\ UNCHANGED <<sources, sinks, source_names, sink_names, driver, igmp,
                 driver_faults, igmp_faults>>

AddSource(src) ==
  \/ AddSourceEnabled(src)
  \/ AddSourceRefused(src)
  \/ AddSourceLeg2Refused(src)

AddSinkAny(snk) ==
  \/ AddSink(snk)
  \/ AddSinkRefused(snk)
  \/ AddSinkLeg2Refused(snk)

Next ==
  \/ \E id \in SourceIds, n \in Names : AddSourceDisabled(id, n)
  \/ \E src \in Request(SourceIds) : AddSource(src)
  \/ \E id \in SourceIds : RemoveSource(id)
  \/ \E snk \in Request(SinkIds) : AddSinkAny(snk)
  \/ \E id \in SinkIds : RemoveSink(id)
  \/ SecondaryChange

Spec == Init /\ [][Next]_vars

-----------------------------------------------------------------------------
(* Properties.                                                             *)

IndexSound(table, idx) ==
  \A n \in Names : (Trunc[n] = n /\ idx[n] # Nil) =>
    table[idx[n]].state = "enabled" /\ table[idx[n]].name = n

(* A name that fits in TRTP_stream_info and is found in source_names_ (or  *)
(* sink_names_) leads to an enabled stream of that very name, whatever     *)
(* sequence of additions, renames, failed updates and partial removals led *)
(* there: get_source_id and the by-name lookups never reach a stream that  *)
(* is gone.  (The converse fails: an update may take over a name another   *)
(* entry uses, see the README.)                                            *)
NameIndexSound ==
  IndexSound(sources, source_names) /\ IndexSound(sinks, sink_names)

(* The driver streams that an entry, or a whole table, holds open.         *)
Held(s) ==
  IF s.state # "enabled" THEN {}
  ELSE IF s.dup THEN {s.handle[1], s.handle[2]} ELSE {s.handle[1]}

HeldIn(table) == UNION {Held(table[i]) : i \in DOMAIN table}

NoneShared(table) ==
  /\ \A i, j \in DOMAIN table : i # j => Held(table[i]) \cap Held(table[j]) = {}
  /\ \A i \in DOMAIN table : table[i].dup => table[i].handle[1] # table[i].handle[2]

(* The driver runs exactly the streams of the enabled entries, and no two  *)
(* legs share one, as long as no driver command (a) lost its reply or (b)  *)
(* returned the reply of another thread's command, and the driver never    *)
(* (c) refused the second leg of a source: add_source and add_sink undo    *)
(* every other failure, and none of the three is noticed or repaired.      *)
StreamsTracked ==
  driver_faults = 0 =>
    /\ driver = HeldIn(sources) \cup HeldIn(sinks)
    /\ HeldIn(sources) \cap HeldIn(sinks) = {}
    /\ NoneShared(sources)
    /\ NoneShared(sinks)

Users(l, a) ==
  {<<"source", i>> : i \in {j \in SourceIds : l \in GroupLegs(sources[j])
                                              /\ sources[j].dest[l] = a}} \cup
  {<<"sink", i>> : i \in {j \in SinkIds : l \in GroupLegs(sinks[j])
                                          /\ sinks[j].dest[l] = a}}

(* On each interface the daemon is a member of exactly the multicast       *)
(* groups its streams use, and counts one reference per stream, whatever   *)
(* the driver does, as long as no join or leave failed: a group shared by  *)
(* several sources and sinks is left with the last of them, not before.    *)
GroupMembership ==
  igmp_faults = 0 =>
    \A l \in Legs, a \in McastAddrs :
      /\ igmp[l][a].ref = Cardinality(Users(l, a))
      /\ igmp[l][a].member <=> Users(l, a) # {}
=============================================================================
