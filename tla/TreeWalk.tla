------------------------------ MODULE TreeWalk ------------------------------
(***************************************************************************)
(* What a push promises about the items of a forest, with the queue, the   *)
(* types, the links and the retries left out: parents first.  An item gets *)
(* its issue, and then its outcome, after its parent has an issue; each has*)
(* one outcome; and the walk is done when no item is left that could have  *)
(* one.  It may be given up at any time, with one issue more than it knows.*)
(***************************************************************************)
CONSTANTS Item, None
VARIABLES
  phase,     \* plan, walk, done, aborted
  up,        \* per item: its parent, or None
  issues,    \* the items that have an issue, some from before the push
  outcome    \* per item: none, issue, failed

Forest(p) == \A S \in SUBSET Item : S # {} => \E i \in S : p[i] \notin S

Init ==
  /\ phase = "plan" /\ up = [i \in Item |-> None]
  /\ issues \in SUBSET Item /\ outcome = [i \in Item |-> "none"]

Plan ==
  /\ phase = "plan" /\ phase' = "walk"
  /\ up' \in [Item -> Item \cup {None}] /\ Forest(up')
  /\ UNCHANGED <<issues, outcome>>

Ready(i) == outcome[i] = "none" /\ (up[i] = None \/ outcome[up[i]] = "issue")

Create(i) ==
  /\ phase = "walk" /\ Ready(i) /\ i \notin issues
  /\ issues' = issues \cup {i} /\ UNCHANGED <<phase, up, outcome>>

Settle(i) ==
  /\ phase = "walk" /\ Ready(i)
  /\ \/ issues' = issues \cup {i} /\ outcome' = [outcome EXCEPT ![i] = "issue"]
     \/ i \notin issues /\ UNCHANGED issues /\ outcome' = [outcome EXCEPT ![i] = "failed"]
  /\ UNCHANGED <<phase, up>>

Finish ==
  /\ phase = "walk" /\ phase' = "done" /\ \A i \in Item : ~ Ready(i)
  /\ UNCHANGED <<up, issues, outcome>>

Abort ==
  /\ phase = "walk" /\ phase' = "aborted"
  /\ \/ UNCHANGED issues
     \/ \E i \in Item \ issues : Ready(i) /\ issues' = issues \cup {i}
  /\ UNCHANGED <<up, outcome>>

Next == Plan \/ Finish \/ Abort \/ \E i \in Item : Create(i) \/ Settle(i)
Spec == Init /\ [][Next]_<<phase, up, issues, outcome>>
=============================================================================
