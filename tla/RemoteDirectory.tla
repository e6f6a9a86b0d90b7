-------------------------- MODULE RemoteDirectory --------------------------
(***************************************************************************)
(* What a node promises the others with its announcements, and no more: a  *)
(* directory that lists only what was announced, keeps what was never      *)
(* revoked, and follows what is published as long as that stays the same.  *)
(***************************************************************************)
CONSTANT Texts

VARIABLES
  published,  \* what the node wants the others to know
  announced,  \* what it has ever announced
  revoked,    \* what it has ever said to be gone
  listed      \* what the other node knows

vars == <<published, announced, revoked, listed>>

Init == published = {} /\ announced = {} /\ revoked = {} /\ listed = {}

(* The sources change; nobody is told yet.                                 *)
Publish ==
  /\ published' \subseteq Texts
  /\ UNCHANGED <<announced, revoked, listed>>

(* A round of announcements: what is published, and what no longer is.     *)
Announce ==
  /\ announced' = announced \cup published
  /\ revoked \subseteq revoked' /\ revoked' \subseteq revoked \cup (announced \ published)
  /\ UNCHANGED <<published, listed>>

(* The last words of a node that goes: nothing is published any more.      *)
Leave ==
  /\ published' = {}
  /\ revoked \subseteq revoked' /\ revoked' \subseteq revoked \cup announced
  /\ UNCHANGED <<announced, listed>>

List(h) ==
  /\ h \in announced
  /\ listed' = listed \cup {h}
  /\ UNCHANGED <<published, announced, revoked>>

(* A text leaves the directory only if it was revoked once, or is not      *)
(* published.                                                              *)
Unlist(h) ==
  /\ h \in revoked \/ h \notin published
  /\ listed' = listed \ {h}
  /\ UNCHANGED <<published, announced, revoked>>

Next == Publish \/ Announce \/ Leave \/ \E h \in Texts : List(h) \/ Unlist(h)

Spec == Init /\ [][Next]_vars

(* A text that stays published is listed in the end, and one that stays    *)
(* unpublished is not.                                                     *)
Fairness ==
  \A h \in Texts :
    /\ WF_vars(h \in published \ listed /\ List(h))
    /\ WF_vars(h \in listed \ published /\ Unlist(h))

FairSpec == Spec /\ Fairness
=============================================================================
