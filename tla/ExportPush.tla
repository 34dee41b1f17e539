----------------------------- MODULE ExportPush -----------------------------
(***************************************************************************)
(* The push of exported items to Jira or Trello: one request that creates  *)
(* one issue or card after the other in an external service, which may     *)
(* refuse any of the calls this takes, or leave one unanswered.            *)
(*                                                                         *)
(* Only Jira Software items form a tree.  It is normalised and repaired,   *)
(* then created (or, where the user mapped items to existing issues,       *)
(* updated) breadth-first from the roots, each child with a link to the    *)
(* issue of its parent; an issue that Jira refuses is tried with other     *)
(* links and without the fields that Jira names.  All other items are flat *)
(* and posted once; a Trello card is then given checklists and labels.     *)
(*                                                                         *)
(* An item is its index in the list; the issue made of item i has key i,   *)
(* and so has the existing issue that item i is mapped to.  Texts, labels, *)
(* priorities and sprints are left out: they only add warnings.            *)
(***************************************************************************)
EXTENDS Naturals, Sequences, FiniteSets

CONSTANTS
  N,             \* number of items
  None,          \* no parent, no key
  Schemes,       \* the sets of issue types the Jira project may have
  MaxExisting,   \* bound: items mapped to existing issues
  DistinctIds    \* TRUE if no two items have the same temp_id

Item == 1..N
Id   == 1..N
Nobody == N + 1   \* a parent_temp_id that no item has
Kind == {"software", "service_desk", "business", "trello"}
Type == {"epic", "feature", "story", "task", "sub-task", "bug"}

ASSUME SizeAssumption == N \in Nat \ {0} /\ MaxExisting \in Nat
ASSUME NoneAssumption == None \notin Nat
ASSUME SchemesAssumption == Schemes \subseteq SUBSET Type
ASSUME DistinctAssumption == DistinctIds \in BOOLEAN

VARIABLES
  kind,       \* what the items are pushed to, one of Kind
  scheme,     \* the issue types of the Jira project
  idOf,       \* per item: temp_id
  parent,     \* per item: parent_temp_id
  type,       \* per item: issue_type
  existing,   \* the items with an existing_issue_key
  pc,         \* raw, push (between items), post, dress (an item under way), done, aborted
  queue,      \* the BFS queue
  current,    \* the item under way
  method,     \* how its next POST links it: one of Method
  stripped,   \* its POSTs are the retry without the fields that Jira refused
  keyOf,      \* temp_to_key
  made,       \* history: issues created per item
  link,       \* history: the key that the issue of an item is linked to
  rows,       \* per item: result rows
  failed,     \* the items whose row says that no issue was created
  told        \* the items whose row has a warning about the link

input == <<kind, scheme, idOf, existing>>
tree  == <<parent, type>>
post  == <<current, method, stripped>>
jira  == <<made, link>>
result == <<rows, failed, told>>
vars  == <<input, tree, pc, queue, post, keyOf, jira, result>>

Method == {"parent", "unlinked", "epic_link", "none", "root"}

TypeOK ==
  /\ kind \in Kind
  /\ scheme \in Schemes /\ idOf \in [Item -> Id] /\ existing \subseteq Item
  /\ parent \in [Item -> 1..Nobody \cup {None}] /\ type \in [Item -> Type]
  /\ pc \in {"raw", "push", "post", "dress", "done", "aborted"}
  /\ queue \in Seq(Item) /\ current \in Item
  /\ method \in Method /\ stripped \in BOOLEAN
  /\ keyOf \in [Id -> Item \cup {None}]
  /\ made \in [Item -> Nat] /\ link \in [Item -> Item \cup {None}]
  /\ rows \in [Item -> Nat] /\ failed \subseteq Item /\ told \subseteq Item

\* What the extraction or the user hands in: any parents and any types.
Init ==
  /\ kind \in Kind
  /\ scheme \in Schemes
  /\ idOf \in [Item -> Id]
  /\ DistinctIds => \A i \in Item : idOf[i] = i
  /\ parent \in [Item -> 1..Nobody \cup {None}]
  /\ type \in [Item -> Type]
  /\ existing \in SUBSET Item /\ Cardinality(existing) <= MaxExisting
  /\ kind # "software" => /\ parent = [i \in Item |-> None] /\ existing = {}
                         /\ type = [i \in Item |-> "task"]
  /\ pc = "raw" /\ queue = <<>> /\ current = 1
  /\ method = "root" /\ stripped = FALSE
  /\ keyOf = [d \in Id |-> None]
  /\ made = [i \in Item |-> 0] /\ link = [i \in Item |-> None]
  /\ rows = [i \in Item |-> 0] /\ failed = {} /\ told = {}
-----------------------------------------------------------------------------
(* normalize_item drops a parent that is the item itself; repair_hierarchy *)
(* drops one that is unknown or may not have such a child, and then makes  *)
(* tasks of the sub-tasks that have none.                                  *)

Allowed == [ t \in Type |->
  CASE t = "epic"    -> {"feature", "story", "task", "bug"}
    [] t = "feature" -> {"story", "task", "bug"}
    [] t = "story"   -> {"task", "sub-task", "bug"}
    [] t = "task"    -> {"sub-task", "bug"}
    [] OTHER         -> {} ]

\* by_id and by_temp_id: the last item with an id is the one that counts.
Bears(i, d) == idOf[i] = d /\ \A j \in Item : idOf[j] = d => j <= i
Known(d)    == \E i \in Item : Bears(i, d)
Bearer(d)   == CHOOSE i \in Item : Bears(i, d)

MayKeep(i) ==
  /\ Known(parent[i]) /\ parent[i] # idOf[i]
  /\ type[i] \in Allowed[type[Bearer(parent[i])]]

Roots       == {i \in Item : ~ (Known(parent[i]) /\ parent[i] # idOf[i])}
Children(d) == {i \in Item : parent[i] = d /\ Known(d) /\ idOf[i] # d}

\* The items of a set in the order of the list: there is one such sequence.
Listings(S) ==
  {s \in [1..Cardinality(S) -> S] :
     /\ \A i \in S : \E k \in 1..Cardinality(S) : s[k] = i
     /\ \A k, l \in 1..Cardinality(S) : k < l => s[k] < s[l]}
Enqueue(q, S) == \E more \in Listings(S) : queue' = q \o more

\* Mutant: the sub-tasks that lose their parent stay sub-tasks.
Repair_KeepsTypes ==
  /\ pc = "raw" /\ pc' = "push"
  /\ parent' = [i \in Item |-> IF MayKeep(i) THEN parent[i] ELSE None]
  /\ UNCHANGED type
  /\ UNCHANGED <<input, post, keyOf, jira, result>>
  /\ Enqueue(<<>>, Roots')

Repair ==
  /\ pc = "raw" /\ pc' = "push"
  /\ parent' = [i \in Item |-> IF MayKeep(i) THEN parent[i] ELSE None]
  /\ type' = [i \in Item |-> IF type[i] = "sub-task" /\ ~ MayKeep(i)
                               THEN "task" ELSE type[i]]
  /\ UNCHANGED <<input, post, keyOf, jira, result>>
  /\ Enqueue(<<>>, Roots')

-----------------------------------------------------------------------------
(* The walk.  ParentKey is what temp_to_key says of the item's parent.     *)

Aliases == [ t \in Type |->
  CASE t = "feature"  -> <<"feature", "story", "task">>
    [] t = "story"    -> <<"story", "task">>
    [] t = "task"     -> <<"task", "story">>
    [] t = "bug"      -> <<"bug", "task">>
    [] t = "epic"     -> <<"epic">>
    [] t = "sub-task" -> <<"sub-task", "task">> ]

Resolve(t) ==
  LET offered == SelectSeq(Aliases[t], LAMBDA a : a \in scheme)
  IN  IF offered = <<>> THEN t ELSE Head(offered)

ParentKey(i) == IF parent[i] = None THEN None ELSE keyOf[parent[i]]
PushedType(i) ==
  Resolve(IF ParentKey(i) = None /\ type[i] = "sub-task" THEN "task" ELSE type[i])
AllowEpicLink(i) ==
  /\ ParentKey(i) # None /\ type[Bearer(parent[i])] = "epic"
  /\ PushedType(i) \notin {"epic", "sub-task"}

FirstMethod(i) == IF ParentKey(i) = None THEN "root" ELSE "parent"
\* "Parent ... was not created; this issue will be created as a root."
Orphaned(i) == parent[i] # None /\ ParentKey(i) = None

Row(i) == rows' = [rows EXCEPT ![i] = @ + 1]

\* Mutant: the children are queued when the item is taken, not when it is created.
BeginCreate_WithChildren(i) ==
  /\ pc = "push" /\ queue # <<>> /\ i = Head(queue) /\ i \notin existing
  /\ kind = "software"
  /\ pc' = "post" /\ current' = i /\ Enqueue(Tail(queue), Children(idOf[i]))
  /\ method' = FirstMethod(i) /\ stripped' = FALSE
  /\ told' = IF Orphaned(i) THEN told \cup {i} ELSE told
  /\ UNCHANGED <<input, tree, keyOf, jira, rows, failed>>

\* The item to be created is at the head of the queue.
BeginCreate(i) ==
  /\ pc = "push" /\ queue # <<>> /\ i = Head(queue) /\ i \notin existing
  /\ kind = "software"
  /\ pc' = "post" /\ current' = i /\ queue' = Tail(queue)
  /\ method' = FirstMethod(i) /\ stripped' = FALSE
  /\ told' = IF Orphaned(i) THEN told \cup {i} ELSE told
  /\ UNCHANGED <<input, tree, keyOf, jira, rows, failed>>

\* The other kinds of project: one POST, nothing is tried a second time.
BeginOnce(i) ==
  /\ pc = "push" /\ queue # <<>> /\ i = Head(queue)
  /\ pc' = "post" /\ current' = i /\ queue' = Tail(queue)
  /\ method' = "root" /\ stripped' = TRUE
  /\ UNCHANGED <<input, tree, keyOf, jira, result>>
BeginRequest(i)  == kind = "service_desk" /\ BeginOnce(i)
BeginBusiness(i) == kind = "business" /\ BeginOnce(i)
BeginCard(i)     == kind = "trello" /\ BeginOnce(i)

\* The item is mapped to an existing issue: PUT, once more without the fields
\* (perhaps the parent) that Jira refuses.  A failure is a warning only.
UpdateExisting(i) ==
  /\ pc = "push" /\ queue # <<>> /\ i = Head(queue) /\ i \in existing
  /\ keyOf' = [keyOf EXCEPT ![idOf[i]] = i]
  /\ \/ /\ link' = [link EXCEPT ![i] = ParentKey(i)]
        /\ told' = IF Orphaned(i) THEN told \cup {i} ELSE told
     \/ told' = told \cup {i} /\ UNCHANGED link
  /\ Enqueue(Tail(queue), Children(idOf[i]))
  /\ Row(i)
  /\ UNCHANGED <<input, tree, pc, post, made, failed>>

-----------------------------------------------------------------------------
(* One POST of the item under way, by what Jira answers.                   *)

\* Mutant: that the link was given up is not reported.
Accepted_Untold(i) ==
  /\ pc = "post" /\ i = current /\ pc' = "push"
  /\ made' = [made EXCEPT ![i] = @ + 1]
  /\ link' = IF method \in {"parent", "epic_link"}
               THEN [link EXCEPT ![i] = ParentKey(i)] ELSE link
  /\ keyOf' = [keyOf EXCEPT ![idOf[i]] = i]
  /\ Enqueue(queue, Children(idOf[i]))
  /\ Row(i)
  /\ UNCHANGED <<input, tree, post, failed, told>>

\* Jira creates the issue.  keyed: its answer names the key, as it should.
Accepted(i) ==
  /\ pc = "post" /\ i = current /\ pc' = "push" /\ kind # "trello"
  /\ made' = [made EXCEPT ![i] = @ + 1]
  /\ link' = IF method \in {"parent", "epic_link"}
               THEN [link EXCEPT ![i] = ParentKey(i)] ELSE link
  /\ told' = IF method = "none" THEN told \cup {i} ELSE told
  /\ \E keyed \in BOOLEAN :
       keyOf' = IF keyed THEN [keyOf EXCEPT ![idOf[i]] = i] ELSE keyOf
  /\ Enqueue(queue, Children(idOf[i]))
  /\ Row(i)
  /\ UNCHANGED <<input, tree, post, failed>>

\* Status 400, but there is another way to link the issue, or to do without.
NextMethod(i) ==
  /\ pc = "post" /\ i = current /\ method \in {"parent", "unlinked", "epic_link"}
  /\ method' = IF method # "epic_link" /\ AllowEpicLink(i) THEN "epic_link" ELSE "none"
  /\ UNCHANGED <<input, tree, pc, queue, current, stripped, keyOf, jira, result>>

\* Mutant: that the fields were stripped already is forgotten.
StripFields_Again(i) ==
  /\ pc = "post" /\ i = current /\ method \in {"none", "root"}
  /\ method' = FirstMethod(i)
  /\ UNCHANGED <<input, tree, pc, queue, current, stripped, keyOf, jira, result>>

\* Status 400 for fields that Jira does not know: once more without them.  Is
\* the parent one of them, then the row says so, and the first POST has no link.
StripFields(i) ==
  /\ pc = "post" /\ i = current /\ method \in {"none", "root"}
  /\ ~ stripped /\ stripped' = TRUE
  /\ \/ method' = FirstMethod(i) /\ UNCHANGED told
     \/ /\ ParentKey(i) # None /\ method' = "unlinked"
        /\ told' = told \cup {i}
  /\ UNCHANGED <<input, tree, pc, queue, current, keyOf, jira, rows, failed>>

\* Mutant: the children of a failed item are pushed all the same.
Fails_WithChildren(i) ==
  /\ pc = "post" /\ i = current /\ pc' = "push"
  /\ failed' = failed \cup {i} /\ Row(i)
  /\ Enqueue(queue, Children(idOf[i]))
  /\ UNCHANGED <<input, tree, post, keyOf, jira, told>>

\* The issue cannot be created: a row without a key, and no children.
Fails(i) ==
  /\ pc = "post" /\ i = current /\ pc' = "push" /\ kind # "trello"
  /\ failed' = failed \cup {i} /\ Row(i)
  /\ UNCHANGED <<input, tree, queue, post, keyOf, jira, told>>

\* No answer, or the sprint assignment of the new issue gets none: the whole
\* push ends with an error, whatever was made of the request.  Trello's refusal
\* of a card is such an error as well.
Lost(i) ==
  /\ \/ pc = "post" /\ i = current
     \/ pc = "push" /\ queue # <<>> /\ i = Head(queue) /\ i \in existing
  /\ pc' = "aborted"
  /\ \/ UNCHANGED made
     \/ i \notin existing /\ made' = [made EXCEPT ![i] = @ + 1]
  /\ UNCHANGED <<input, tree, queue, post, keyOf, link, result>>

-----------------------------------------------------------------------------
(* Trello: the card, then its checklists (a refusal ends the push, the card*)
(* stays), labels and custom fields (a refusal is a warning).              *)

CreateCard(i) ==
  /\ pc = "post" /\ i = current /\ pc' = "dress" /\ kind = "trello"
  /\ made' = [made EXCEPT ![i] = @ + 1]
  /\ UNCHANGED <<input, tree, queue, post, keyOf, link, result>>

DressCard(i) ==
  /\ pc = "dress" /\ i = current
  /\ \/ pc' = "push" /\ Row(i)
     \/ pc' = "aborted" /\ UNCHANGED rows
  /\ UNCHANGED <<input, tree, queue, post, keyOf, jira, failed, told>>

Finish ==
  /\ pc = "push" /\ queue = <<>> /\ pc' = "done"
  /\ UNCHANGED <<input, tree, queue, post, keyOf, jira, result>>

Push(i) ==
  \/ BeginCreate(i) \/ BeginRequest(i) \/ BeginBusiness(i) \/ BeginCard(i)
  \/ UpdateExisting(i)
Answer(i) ==
  \/ Accepted(i) \/ NextMethod(i) \/ StripFields(i) \/ Fails(i) \/ Lost(i)
  \/ CreateCard(i) \/ DressCard(i)

Next == Repair \/ Finish \/ \E i \in Item : Push(i) \/ Answer(i)
Spec == Init /\ [][Next]_vars

-----------------------------------------------------------------------------
(* Properties.                                                             *)

Rank == [ t \in Type |-> CASE t = "epic" -> 0 [] t = "feature" -> 1 [] t = "story" -> 2
                           [] t = "task" -> 3 [] OTHER -> 4 ]

\* What is pushed is a tree that Jira can hold, whatever parents and types came
\* in: every edge leads from a type to one that may be its child, down the ranks
\* (so there is no cycle), and no sub-task is a root.
RepairedIsLegal ==
  pc # "raw" =>
    /\ \A i \in Item : parent[i] # None =>
         /\ Known(parent[i])
         /\ type[i] \in Allowed[type[Bearer(parent[i])]]
         /\ Rank[type[Bearer(parent[i])]] < Rank[type[i]]
    /\ \A i \in Item : type[i] = "sub-task" => parent[i] # None

\* With distinct ids every item becomes one issue at most, however often its POST
\* is tried, and none if it has one already or its row says that it failed; and a
\* push that ends has one row for every item, save exactly those below a failed one.
Descends(S) ==
  \A j \in Item : parent[j] # None /\ Bearer(parent[j]) \in failed \cup S => j \in S
BelowFailed == {j \in Item : \A S \in SUBSET Item : Descends(S) => j \in S}
EveryItemAccounted ==
  DistinctIds => \A i \in Item :
    /\ made[i] <= IF i \in existing \cup failed THEN 0 ELSE 1
    /\ pc = "done" => rows[i] = IF i \in BelowFailed THEN 0 ELSE 1

\* "BFS from roots - guarantees parents are created before children": with distinct
\* ids a push is a walk of the repaired tree that settles parents first, makes no
\* issue below one that failed, and ends when nothing is left to be settled.
Phase    == IF pc = "raw" THEN "plan" ELSE IF pc \in {"done", "aborted"} THEN pc ELSE "walk"
Repaired == [i \in Item |-> IF pc = "raw" THEN None ELSE parent[i]]
Issues   == existing \cup {i \in Item : made[i] > 0}
Outcome  == [i \in Item |-> IF rows[i] = 0 THEN "none" ELSE
                             IF i \in failed THEN "failed" ELSE "issue"]
Walk == INSTANCE TreeWalk WITH phase <- Phase, up <- Repaired, issues <- Issues,
                               outcome <- Outcome
ImplementsWalk == Walk!Spec

\* An issue with a row is linked to the issue of its parent, or its row says
\* that it is not.
NoLinkLostSilently ==
  \A i \in Item :
    rows[i] > 0 /\ i \notin failed /\ parent[i] # None =>
      link[i] = Bearer(parent[i]) \/ i \in told

-----------------------------------------------------------------------------
(* Fairness: the handler runs on, and every call of Jira has a timeout.    *)

FairSpec == Spec /\ WF_vars(Next)

\* The push of a tree with distinct ids ends.
PushEnds == DistinctIds => <>(pc \in {"done", "aborted"})
=============================================================================
