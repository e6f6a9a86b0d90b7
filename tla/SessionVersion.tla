--------------------------- MODULE SessionVersion ---------------------------
(***************************************************************************)
(* The session versions of the sources (o= line of their SDP) and the      *)
(* process-wide counter g_session_version they are taken from.             *)
(*                                                                         *)
(* add_source draws a version before it takes the lock of the source table *)
(* and stores it after, so other calls and the session worker come in      *)
(* between.  The worker raises the version of every source when the clock  *)
(* or the sample rate changed (on_update_sources) and raises the counter   *)
(* after it released the lock.  A restart of the daemon sets the counter   *)
(* to the system clock and adds the sources of the status file again.      *)
(*                                                                         *)
(* main stops the parts one after the other and waits for the threads it   *)
(* can wait for.  The threads that serve NMOS connections are detached: a  *)
(* request they are in the middle of (an IS-08 activation) goes on calling *)
(* add_source, also on a session manager that has been stopped, until main *)
(* destroys the managers.  What a thread still inside does then is         *)
(* undefined and not modelled.                                             *)
(*                                                                         *)
(* A version is kept relative to the session id of its source, which is    *)
(* fixed: session_version = session_id + what is modelled here.            *)
(***************************************************************************)
EXTENDS Integers, FiniteSets

CONSTANTS
  Ids,        \* source ids, ordered: the status file lists them in this order
  Clients,    \* threads of the HTTP server, which main waits for
  Detached,   \* threads that serve an NMOS connection, which nobody waits for
  Main,       \* the main thread, which runs load_status
  MaxVersion, \* bound on g_session_version
  MaxNow      \* bound on the clock

ASSUME VersionConstants ==
  /\ Ids \subseteq Nat
  /\ Main \notin Clients \cup Detached /\ Clients \cap Detached = {}
  /\ MaxVersion \in Nat /\ MaxNow \in Nat

VARIABLES
  now,      \* seconds of system_clock
  gver,     \* g_session_version
  sources,  \* id -> session_version of the entry in sources_, or None
  calls,    \* thread -> its add_source between the draw and the lock, or Idle
  worker,   \* "loop", or "bump": between the unlock and g_session_version++
  phase,    \* where main is in the life of the daemon, see Phases
  started,  \* when it was started
  file,     \* ids of the sources in the status file
  toload,   \* ids load_status has still to add
  high,     \* history: the highest version each id was ever published with
  before    \* history: the same, up to the end of the previous run

vars == <<now, gver, sources, calls, worker, phase, started, file, toload, high, before>>

(* No managers; running; the status is saved; the HTTP server has ended;   *)
(* the session manager has been terminated.                                *)
Phases == {"down", "up", "saved", "closed", "stopped"}

Threads == Clients \cup Detached \cup {Main}

None == -1

Call == [id : Ids, ver : Nat]
Idle == [id |-> None, ver |-> None]

(* When main destroys the managers, or none exist, nobody is left that it  *)
(* could wait for: the status file has been loaded, the worker is not      *)
(* inside its window and only a detached thread is between draw and lock.  *)
Quiescent ==
  /\ \A t \in Threads \ Detached : calls[t] = Idle
  /\ worker = "loop" /\ toload = {}

(* Types; no call and no entry without a session manager; and one that was *)
(* terminated has, of all its callers, only the detached NMOS threads.     *)
TypeOK ==
  /\ now \in Nat /\ gver \in Nat /\ started \in Nat
  /\ sources \in [Ids -> Nat \cup {None}]
  /\ calls \in [Threads -> Call \cup {Idle}]
  /\ worker \in {"loop", "bump"} /\ phase \in Phases
  /\ file \subseteq Ids /\ toload \subseteq Ids
  /\ high \in [Ids -> Nat \cup {None}] /\ before \in [Ids -> Nat \cup {None}]
  /\ phase \in {"stopped", "down"} => Quiescent
  /\ phase = "down" => /\ \A t \in Threads : calls[t] = Idle
                       /\ \A i \in Ids : sources[i] = None

Init ==
  /\ now = 1
  /\ gver = 0
  /\ sources = [i \in Ids |-> None]
  /\ calls = [t \in Threads |-> Idle]
  /\ worker = "loop" /\ phase = "down" /\ started = 0
  /\ file = {} /\ toload = {}
  /\ high = [i \in Ids |-> None] /\ before = [i \in Ids |-> None]

(* The versions of s become visible in SDPs.                               *)
Publish(s) ==
  /\ sources' = s
  /\ high' = [i \in Ids |-> IF s[i] # None /\ s[i] > high[i] THEN s[i] ELSE high[i]]

-----------------------------------------------------------------------------
(* add_source of thread t: first the draw, ...                             *)
Draw(t, id) ==
  /\ calls[t] = Idle
  /\ calls' = [calls EXCEPT ![t] = [id |-> id, ver |-> gver]]
  /\ gver' = gver + 1

(* The HTTP server takes requests from before the file is loaded until it  *)
(* is stopped; the NMOS manager starts after the load, and its detached    *)
(* threads go on whatever is stopped.                                      *)
AddSource(t, id) ==
  /\ gver < MaxVersion
  /\ \/ t \in Clients /\ phase \in {"up", "saved"}
     \/ t \in Detached /\ phase # "down" /\ toload = {} /\ calls[Main] = Idle
  /\ Draw(t, id)
  /\ UNCHANGED <<now, sources, worker, phase, started, file, toload, high, before>>

(* load_status adds the sources of the file one after the other.           *)
LoadSource ==
  /\ toload # {}
  /\ \E id \in toload : /\ \A i \in toload : id <= i
                        /\ Draw(Main, id)
                        /\ toload' = toload \ {id}
  /\ UNCHANGED <<now, sources, worker, phase, started, file, high, before>>

(* ... then, under the lock, the entry.                                    *)
Commit(t) ==
  /\ calls[t] # Idle
  /\ Publish([sources EXCEPT ![calls[t].id] = calls[t].ver])
  /\ calls' = [calls EXCEPT ![t] = Idle]
  /\ UNCHANGED <<now, gver, worker, phase, started, file, toload, before>>

(* The name is in use (new id) or the driver refuses the stream (an update *)
(* then erases the entry): either way the id has no entry afterwards.      *)
Refuse(t) ==
  /\ calls[t] # Idle
  /\ sources' = [sources EXCEPT ![calls[t].id] = None]
  /\ calls' = [calls EXCEPT ![t] = Idle]
  /\ UNCHANGED <<now, gver, worker, phase, started, file, toload, high, before>>

RemoveSource(id) ==
  /\ phase \in {"up", "saved"} /\ sources[id] # None
  /\ sources' = [sources EXCEPT ![id] = None]
  /\ UNCHANGED <<now, gver, calls, worker, phase, started, file, toload, high, before>>

-----------------------------------------------------------------------------
(* The session worker: on_update_sources.  The code raises a version once  *)
(* per observer of updates; the RTSP server is the only one, registered    *)
(* before any source can be added.                                         *)
OnUpdateSources ==
  /\ phase \in {"up", "saved", "closed"} /\ worker = "loop" /\ gver < MaxVersion
  /\ Publish([i \in Ids |-> IF sources[i] # None THEN sources[i] + 1 ELSE None])
  /\ worker' = "bump"
  /\ UNCHANGED <<now, gver, calls, phase, started, file, toload, before>>

(* Mutant: the counter stays behind the versions.                          *)
NoCounterUpdate ==
  /\ worker = "bump"
  /\ worker' = "loop"
  /\ UNCHANGED <<now, gver, sources, calls, phase, started, file, toload, high, before>>

CounterUpdate ==
  /\ worker = "bump"
  /\ gver' = gver + 1
  /\ worker' = "loop"
  /\ UNCHANGED <<now, sources, calls, phase, started, file, toload, high, before>>

-----------------------------------------------------------------------------
(* main: the status is saved first, while the servers still take requests. *)
SaveStatus ==
  /\ phase = "up" /\ toload = {} /\ calls[Main] = Idle
  /\ file' = {i \in Ids : sources[i] # None}
  /\ phase' = "saved"
  /\ UNCHANGED <<now, gver, sources, calls, worker, started, toload, high, before>>

(* HttpServer::terminate returns once its threads have ended.              *)
HttpStop ==
  /\ phase = "saved"
  /\ \A t \in Clients : calls[t] = Idle
  /\ phase' = "closed"
  /\ UNCHANGED <<now, gver, sources, calls, worker, started, file, toload, high, before>>

Stop ==
  /\ worker = "loop" /\ now > started
  /\ sources' = [i \in Ids |-> None]
  /\ phase' = "stopped"
  /\ UNCHANGED <<now, gver, calls, worker, started, file, toload, high, before>>

(* Mutant: the session manager is stopped before the HTTP server.          *)
TerminateEarly ==
  /\ phase = "saved"
  /\ Stop

(* SessionManager::terminate waits for the worker, which sleeps at least   *)
(* once for a second, and removes the sources; nothing in it waits for a   *)
(* caller.                                                                 *)
Terminate ==
  /\ phase = "closed"
  /\ Stop

(* The managers are destroyed at the end of main's try block.              *)
Destroy ==
  /\ phase = "stopped"
  /\ sources' = [i \in Ids |-> None]
  /\ calls' = [t \in Threads |-> Idle]
  /\ phase' = "down"
  /\ before' = high
  /\ UNCHANGED <<now, gver, worker, started, file, toload, high>>

(* Mutant: the counter starts from zero in every run.                      *)
StartFromZero ==
  /\ phase = "down"
  /\ phase' = "up"
  /\ gver' = 0 /\ started' = now
  /\ toload' = file
  /\ UNCHANGED <<now, sources, calls, worker, file, high, before>>

Start ==
  /\ phase = "down"
  /\ phase' = "up"
  /\ gver' = now /\ started' = now
  /\ toload' = file
  /\ UNCHANGED <<now, sources, calls, worker, file, high, before>>

Tick ==
  /\ now < MaxNow
  /\ now' = now + 1
  /\ UNCHANGED <<gver, sources, calls, worker, phase, started, file, toload, high, before>>

(* The clock has reached its bound: nothing more is asked of the model.    *)
Horizon == now = MaxNow /\ UNCHANGED vars

Next ==
  \/ \E t \in Clients \cup Detached, id \in Ids : AddSource(t, id)
  \/ LoadSource
  \/ \E t \in Threads : Commit(t) \/ Refuse(t)
  \/ \E id \in Ids : RemoveSource(id)
  \/ OnUpdateSources \/ CounterUpdate
  \/ SaveStatus \/ HttpStop \/ Terminate \/ Destroy \/ Start \/ Tick
  \/ Horizon

Spec == Init /\ [][Next]_vars

-----------------------------------------------------------------------------
(* Properties.                                                             *)

(* g_session_version is above every version in the table and every version *)
(* drawn but not yet stored, those of detached threads on a stopped        *)
(* manager included, except that the table may reach it while the          *)
(* worker is between its unlock and the increment.                         *)
VersionBelowCounter ==
  /\ \A t \in Threads : calls[t] # Idle => calls[t].ver < gver
  /\ \A i \in Ids : sources[i] # None =>
       sources[i] <= gver /\ (worker = "loop" => sources[i] < gver)

(* init takes the counter from the clock "to have an increasing session    *)
(* versions between restarts" (session_manager.hpp): a source published in *)
(* this run has a version above all those it had in earlier runs, provided *)
(* those were below the clock when this run began, that is, unless earlier *)
(* runs gave out versions faster than one a second.                        *)
IncreasingBetweenRestarts ==
  \A i \in Ids :
    sources[i] # None /\ before[i] < started => sources[i] > before[i]
=============================================================================
