----------------------------- MODULE SapBrowser -----------------------------
(***************************************************************************)
(* The SAP half of Browser::worker: how the table of remote sources is     *)
(* filled from announcements and deletions and how sessions that are       *)
(* announced no more are timed out, in whole seconds as the code counts.   *)
(* The clock of the model is the code's offset, the whole seconds since    *)
(* startup_, in which last_seen and announce_period are kept.              *)
(*                                                                         *)
(* The announcers are other nodes that run the same worker: each repeats   *)
(* its announcement after an interval, which it draws again every time     *)
(* when none is configured, and after up to a second more of its loop.     *)
(* Some repetitions are lost, and the network may deliver one a second     *)
(* time a second later.  Entries do not depend on each other; the model    *)
(* follows the entry of one session.                                       *)
(***************************************************************************)
EXTENDS Integers

CONSTANTS
  SapInterval,    \* sap_interval of this node's configuration
  MinGap,         \* seconds between two announcements, at least: the interval
                  \* must have passed; drawn at random it may be 2/3 of the
                  \* computed one
  MaxGap,         \* and at most: the worker's loop, and the rounding of both
                  \* times, add to the interval; drawn, it may be 4/3
  CheckInterval,  \* seconds between two checks for timeouts (10 in the code)
  Multiplier,     \* periods of silence that time a session out (10 in the code)
  MaxEchoes,      \* bound on the announcements delivered twice
  MaxNow          \* bound on the clock

ASSUME BrowserConstants ==
  /\ SapInterval \in Nat
  /\ MinGap \in Nat \ {0} /\ MaxGap \in Nat /\ MinGap <= MaxGap
  /\ CheckInterval \in Nat /\ Multiplier \in Nat \ {0}
  /\ MaxEchoes \in Nat /\ MaxNow \in Nat

VARIABLES
  now,        \* seconds since the start of the daemon
  entry,      \* the session in sources_, or NoEntry
  checked,    \* sap_timepoint: when the timeouts were checked last
  announcer,  \* "on", or "off" once its source is removed
  next,       \* when it announces next
  lost,       \* announcements lost since the last that arrived
  echo,       \* "due" when the network holds a copy of the last announcement
  echoes,     \* copies made
  clean       \* announcements that arrived since the last copy, at most 2

vars == <<now, entry, checked, announcer, next, lost, echo, echoes, clean>>

network == <<announcer, next, lost, echo, echoes, clean>>

Entry == [seen : Nat, period : Nat]
NoEntry == [seen |-> -1, period |-> -1]

(* Types; the clock never passes an announcement or a check that is due.   *)
TypeOK ==
  /\ now \in 0..MaxNow /\ checked \in 0..now
  /\ entry \in Entry \cup {NoEntry} /\ entry.seen <= now
  /\ announcer \in {"on", "off"}
  /\ lost \in Nat /\ echo \in {"due", "none"} /\ echoes \in 0..MaxEchoes
  /\ clean \in 0..2
  /\ now - checked <= CheckInterval + 2
  /\ announcer = "on" => next \in now..now + MaxGap

Init ==
  /\ now = 0 /\ checked = 0
  /\ entry = NoEntry
  /\ announcer = "on" /\ next \in 0..MaxGap
  /\ lost = 0 /\ echo = "none" /\ echoes = 0 /\ clean = 2

-----------------------------------------------------------------------------
(* Mutant: the period is measured and the time of the announcement is not. *)
HeardNotSeen ==
  IF entry = NoEntry
  THEN [seen |-> now, period |-> SapInterval]
  ELSE IF now # entry.seen THEN [entry EXCEPT !.period = now - entry.seen]
       ELSE entry

(* The worker receives an announcement: a new session is taken to have     *)
(* this node's own interval, a known one the time since it was last seen.  *)
Heard ==
  IF entry = NoEntry
  THEN [seen |-> now, period |-> SapInterval]
  ELSE IF now # entry.seen THEN [seen |-> now, period |-> now - entry.seen]
       ELSE entry

ReceiveAnnouncement == entry' = Heard

(* It receives a deletion.                                                 *)
ReceiveDeletion == entry' = NoEntry

(* Mutant: the period is rounded up.                                       *)
TimedOutLate(e) == now - e.seen > (e.period + 1) * Multiplier

TimedOut(e) == now - e.seen > e.period * Multiplier

(* Every CheckInterval seconds it removes what has timed out.  The time    *)
(* since the last check is rounded down, and receive() returns after a     *)
(* second at the latest: in the rounded clock a check falls one or two     *)
(* seconds after the interval.  (Mutant: it waits a second longer.)        *)
CheckLateBySecond == now - checked > CheckInterval + 2

CheckLate == now - checked > CheckInterval + 1

CheckDue == now - checked > CheckInterval

CheckTimeouts ==
  /\ CheckDue
  /\ checked' = now
  /\ entry' = IF entry # NoEntry /\ TimedOut(entry) THEN NoEntry ELSE entry
  /\ UNCHANGED <<now, network>>

-----------------------------------------------------------------------------
(* The announcer sends, the message arrives or is lost, ...                *)
AnnounceDue == announcer = "on" /\ next = now

Announce ==
  /\ AnnounceDue
  /\ ReceiveAnnouncement
  /\ next' \in now + MinGap..now + MaxGap
  /\ lost' = 0
  /\ clean' = IF clean = 2 \/ entry = NoEntry THEN 2 ELSE clean + 1
  /\ \/ UNCHANGED <<echo, echoes>>
     \/ echoes < MaxEchoes /\ echo' = "due" /\ echoes' = echoes + 1
  /\ UNCHANGED <<now, checked, announcer>>

LoseAnnouncement ==
  /\ AnnounceDue
  /\ next' \in now + MinGap..now + MaxGap
  /\ lost' = lost + 1
  /\ UNCHANGED <<now, entry, checked, announcer, echo, echoes, clean>>

(* ... a copy arrives in the next second, ...                              *)
Echo ==
  /\ echo = "due" /\ entry.seen # now
  /\ ReceiveAnnouncement
  /\ echo' = "none"
  /\ clean' = 0
  /\ UNCHANGED <<now, checked, announcer, next, lost, echoes>>

(* ... and the source is removed: its first deletion arrives or is lost,   *)
Withdraw ==
  /\ announcer = "on"
  /\ announcer' = "off"
  /\ ReceiveDeletion \/ UNCHANGED entry
  /\ UNCHANGED <<now, checked, next, lost, echo, echoes, clean>>

(* and so do the ones repeated at later intervals.                         *)
RepeatDeletion ==
  /\ announcer = "off" /\ entry # NoEntry
  /\ ReceiveDeletion
  /\ UNCHANGED <<now, checked, network>>

Tick ==
  /\ now < MaxNow
  /\ ~AnnounceDue /\ ~CheckLate /\ ~(echo = "due" /\ entry.seen # now)
  /\ now' = now + 1
  /\ UNCHANGED <<entry, checked, network>>

(* The clock has reached its bound: nothing more is asked of the model.    *)
Horizon == now = MaxNow /\ UNCHANGED vars

Next ==
  \/ Announce \/ LoseAnnouncement \/ Echo \/ Withdraw \/ RepeatDeletion
  \/ CheckTimeouts \/ Tick \/ Horizon

Spec == Init /\ [][Next]_vars

-----------------------------------------------------------------------------
(* Properties.                                                             *)

(* The shortest period an entry can have that no late copy touched.        *)
Shortest == IF SapInterval < MinGap THEN SapInterval ELSE MinGap

(* "remove all sessions no longer announced" (browser.cpp, worker): while  *)
(* its announcer is on, and unless a copy arrived late, a session leaves   *)
(* the table only when so many announcements in a row were lost that the   *)
(* time until the next one, at the longest gaps, exceeds Multiplier of the *)
(* shortest periods.  With sap_interval 30 on both nodes (gaps of 31 to 33 *)
(* seconds) that takes nine losses in a row; with an announcer that draws  *)
(* its interval, from 2/3 to 4/3 of what it computed, five, if this node's *)
(* own sap_interval is not shorter.  With 0 there it takes none: the next  *)
(* check may remove a session that was announced once.                     *)
KeptWhileAnnounced ==
  [][entry # NoEntry /\ entry' = NoEntry /\ announcer' = "on" /\ clean = 2
       => (lost + 1) * MaxGap > Multiplier * Shortest]_vars

(* A session that went silent without a deletion is gone after Multiplier  *)
(* of its periods and one round of checks.                                 *)
RemovedAfterSilence ==
  entry # NoEntry =>
    now - entry.seen <= entry.period * Multiplier + CheckInterval + 2
=============================================================================
