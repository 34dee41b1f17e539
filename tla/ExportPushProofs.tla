--------------------------- MODULE ExportPushProofs ---------------------------
(***************************************************************************)
(* Proofs about ExportPush, for any number of items, any trees, and any    *)
(* issue types of the project.                                             *)
(*                                                                         *)
(* RepairedIsLegal rests on one step, Repair: nothing touches the tree     *)
(* after it.  NoLinkLostSilently needs to know more of an item under way:  *)
(* its method still has a parent's key to link to, or its row is already   *)
(* marked (UnderWay), and the keys are those of the items that bear the    *)
(* ids (Keyed), which is where the distinctness of ids comes in.           *)
(*                                                                         *)
(* EveryItemAccounted needs a view of the whole walk (Walking): an item is *)
(* due once its parent has its row and has not failed; every item that is  *)
(* due waits in the queue, is under way or has its one row, and no other   *)
(* item does.  When nothing waits any more, the items that never became    *)
(* due are those below a failed one, by induction on the five ranks.       *)
(* The same view shows that the push implements TreeWalk.                  *)
(***************************************************************************)
EXTENDS ExportPush, FiniteSetTheorems, TLAPS

LEMMA NoneIsNoId == None \notin Id /\ None \notin Item
BY NoneAssumption, SizeAssumption DEF Id, Item

LEMMA BearerFacts ==
  ASSUME NEW d, Known(d)
  PROVE  Bearer(d) \in Item /\ idOf[Bearer(d)] = d
BY DEF Known, Bearer, Bears

\* The bearer of an id depends on the ids alone, and those never change.
LEMMA SameBearers ==
  ASSUME UNCHANGED idOf, NEW d
  PROVE  (Known(d))' = Known(d) /\ (Bearer(d))' = Bearer(d)
BY DEF Known, Bearer, Bears

-----------------------------------------------------------------------------
(* The tree.                                                               *)

Tree == /\ idOf \in [Item -> Id]
        /\ parent \in [Item -> 1..Nobody \cup {None}] /\ type \in [Item -> Type]
TreeInv == Tree /\ RepairedIsLegal

LEMMA TreeInit == Init => TreeInv
BY DEF Init, TreeInv, Tree, RepairedIsLegal

\* Only the repair touches the tree; after it the push is past its raw state.
LEMMA TreeKept ==
  [Next]_vars => \/ Repair
                 \/ UNCHANGED <<tree, idOf>> /\ (pc = "raw" => pc' = "raw")
<1> SUFFICES ASSUME [Next]_vars, ~ Repair
             PROVE  UNCHANGED <<tree, idOf>> /\ (pc = "raw" => pc' = "raw")
  OBVIOUS
<1> USE DEF input, tree
<1>1. ASSUME NEW i \in Item, Push(i) PROVE UNCHANGED <<tree, idOf>> /\ pc # "raw"
  BY <1>1 DEF Push, BeginCreate, BeginRequest, BeginBusiness, BeginCard, BeginOnce,
              UpdateExisting
<1>2. ASSUME NEW i \in Item, Answer(i) PROVE UNCHANGED <<tree, idOf>> /\ pc # "raw"
  BY <1>2 DEF Answer, Accepted, NextMethod, StripFields, Fails, Lost, CreateCard, DressCard
<1>3. CASE Finish
  BY <1>3 DEF Finish
<1>4. CASE UNCHANGED vars
  BY <1>4 DEF vars
<1> QED BY <1>1, <1>2, <1>3, <1>4 DEF Next

\* A type that may be a child is of a lower rank, and no sub-task has children.
LEMMA ChildrenRankLower ==
  ASSUME NEW s \in Type, NEW t \in Type, t \in Allowed[s]
  PROVE  Rank[s] < Rank[t] /\ s # "sub-task"
BY DEF Type, Allowed, Rank

LEMMA RepairMakesLegal == Tree /\ Repair => TreeInv'
<1> SUFFICES ASSUME Tree, Repair PROVE TreeInv'
  OBVIOUS
<1>1. /\ idOf' = idOf
      /\ parent' = [i \in Item |-> IF MayKeep(i) THEN parent[i] ELSE None]
      /\ type' = [i \in Item |-> IF type[i] = "sub-task" /\ ~ MayKeep(i)
                                   THEN "task" ELSE type[i]]
  BY DEF Repair, input
<1>2. Tree'
  BY <1>1 DEF Tree, Type
<1>3. ASSUME NEW i \in Item, NEW d, d = parent'[i], d # None
      PROVE  /\ (Known(d))'
             /\ type'[i] \in Allowed[type'[(Bearer(d))']]
             /\ Rank[type'[(Bearer(d))']] < Rank[type'[i]]
  <2>1. MayKeep(i) /\ parent[i] = d /\ type'[i] = type[i]
    BY <1>1, <1>3
  <2>2. PICK b \in Item : b = Bearer(d)
    BY <2>1, BearerFacts DEF MayKeep
  <2>3. type[i] \in Type /\ type[b] \in Type /\ type[i] \in Allowed[type[b]]
    BY <2>1, <2>2 DEF MayKeep, Tree
  <2>4. Rank[type[b]] < Rank[type[i]] /\ type[b] # "sub-task"
    BY <2>3, ChildrenRankLower
  <2>5. type'[b] = type[b]
    BY <1>1, <2>4
  <2>6. (Known(d))' /\ (Bearer(d))' = b
    BY <1>1, <2>1, <2>2, SameBearers DEF MayKeep
  <2> QED BY <2>1, <2>3, <2>4, <2>5, <2>6
<1>4. ASSUME NEW i \in Item, type'[i] = "sub-task" PROVE parent'[i] # None
  <2>1. MayKeep(i) /\ parent'[i] = parent[i]
    BY <1>1, <1>4
  <2>2. idOf[Bearer(parent[i])] = parent[i] /\ Bearer(parent[i]) \in Item
    BY <2>1, BearerFacts DEF MayKeep
  <2> QED BY <2>1, <2>2, NoneIsNoId DEF Tree
<1> QED BY <1>2, <1>3, <1>4 DEF TreeInv, RepairedIsLegal

LEMMA TreeStep == TreeInv /\ [Next]_vars => TreeInv'
<1> SUFFICES ASSUME TreeInv, UNCHANGED <<tree, idOf>>, pc = "raw" => pc' = "raw"
             PROVE  TreeInv'
  BY TreeKept, RepairMakesLegal DEF TreeInv
<1>1. Tree'
  BY DEF TreeInv, Tree, tree
<1>2. ASSUME pc # "raw", NEW i \in Item, NEW d, d = parent[i], d # None
      PROVE  /\ (Known(d))'
             /\ type'[i] \in Allowed[type'[(Bearer(d))']]
             /\ Rank[type'[(Bearer(d))']] < Rank[type'[i]]
  BY <1>2, SameBearers DEF TreeInv, RepairedIsLegal, tree
<1> QED BY <1>1, <1>2 DEF TreeInv, RepairedIsLegal, tree

\* Whatever the extraction or the user hands in, what is pushed is a tree that Jira
\* can hold.
THEOREM LegalTree == Spec => []RepairedIsLegal
<1>1. TreeInv => RepairedIsLegal
  BY DEF TreeInv
<1> QED BY <1>1, TreeInit, TreeStep, PTL DEF Spec

-----------------------------------------------------------------------------
(* The walk, where no two items have the same temp_id.                     *)

Shape ==
  /\ keyOf \in [Id -> Item \cup {None}] /\ link \in [Item -> Item \cup {None}]
  /\ rows \in [Item -> Nat] /\ current \in Item

\* Only Jira Software items have parents; only Trello cards are dressed.
Flat == /\ kind # "software" => \A i \in Item : parent[i] = None
        /\ pc = "dress" => kind = "trello"

Keyed == /\ \A i \in Item : idOf[i] = i
         /\ \A d \in Id : keyOf[d] \in {None, d}

\* An item with a parent is created with a link to that parent's issue, or its row
\* says that it is not; the method tells which.
UnderWay ==
  pc = "post" /\ parent[current] # None =>
    /\ method \in Method
    /\ method # "root" => ParentKey(current) # None
    /\ method \in {"unlinked", "root"} => current \in told

WalkInv == TreeInv /\ Shape /\ Flat /\ Keyed /\ UnderWay /\ NoLinkLostSilently

\* Parents are items, whose keys are their own; an item without a parent's key is
\* an orphan.
LEMMA ParentKeys ==
  ASSUME TreeInv, Shape, Keyed, pc # "raw", NEW i \in Item, parent[i] # None
  PROVE  /\ parent[i] \in Item /\ Bearer(parent[i]) = parent[i]
         /\ ParentKey(i) \in {None, parent[i]}
         /\ Orphaned(i) <=> ParentKey(i) = None
<1>1. Known(parent[i])
  BY DEF TreeInv, RepairedIsLegal
<1>2. PICK d : d = parent[i]
  OBVIOUS
<1>3. Bearer(d) \in Item /\ idOf[Bearer(d)] = d
  BY <1>1, <1>2, BearerFacts
<1> QED BY <1>2, <1>3 DEF Keyed, ParentKey, Orphaned, Id, Item

LEMMA WalkInit == DistinctIds /\ Init => WalkInv
<1> SUFFICES ASSUME DistinctIds, Init PROVE WalkInv
  OBVIOUS
<1>1. 1 \in Item
  BY SizeAssumption DEF Item
<1>2. Shape
  BY <1>1 DEF Init, Shape
<1>3. Flat /\ Keyed /\ UnderWay /\ NoLinkLostSilently
  BY DEF Init, Flat, Keyed, UnderWay, NoLinkLostSilently
<1> QED BY <1>2, <1>3, TreeInit DEF WalkInv

\* The repair takes parents away, and does nothing else to the walk.
LEMMA RepairWalk == WalkInv /\ Repair => WalkInv'
<1> SUFFICES ASSUME WalkInv, Repair PROVE WalkInv'
  OBVIOUS
<1>1. /\ UNCHANGED <<idOf, kind, current, keyOf, link, rows, failed, told>> /\ pc' = "push"
      /\ \A i \in Item : parent'[i] # None => parent'[i] = parent[i]
  BY DEF Repair, input, post, jira, result
<1>2. ASSUME NEW i \in Item, NEW d, d = parent'[i], d # None, rows'[i] > 0, i \notin failed'
      PROVE  link'[i] = (Bearer(d))' \/ i \in told'
  <2>1. d = parent[i] /\ rows[i] > 0 /\ i \notin failed
    BY <1>1, <1>2
  <2>2. link[i] = Bearer(d) \/ i \in told
    BY <1>2, <2>1 DEF WalkInv, NoLinkLostSilently
  <2> QED BY <1>1, <2>2, SameBearers
<1>3. NoLinkLostSilently'
  BY <1>2 DEF NoLinkLostSilently
<1>4. TreeInv'
  BY RepairMakesLegal DEF WalkInv, TreeInv
<1>5. Shape' /\ Flat' /\ Keyed' /\ UnderWay'
  BY <1>1 DEF WalkInv, Shape, Flat, Keyed, UnderWay
<1> QED BY <1>3, <1>4, <1>5 DEF WalkInv

\* What the steps after the repair need: the links are as they were, but for one
\* item, which is linked to its parent, told of, or failed.
LEMMA OneMoreRow ==
  ASSUME WalkInv, pc # "raw", UNCHANGED <<tree, idOf>>, NEW i \in Item,
         \A j \in Item : j # i => link'[j] = link[j] /\ rows'[j] = rows[j],
         failed \subseteq failed', told \subseteq told',
         \/ link'[i] = link[i] /\ rows'[i] = rows[i]
         \/ i \in failed' \cup told' \/ parent[i] = None \/ link'[i] = parent[i]
  PROVE  NoLinkLostSilently'
<1>1. ASSUME NEW j \in Item, NEW d, d = parent'[j], d # None, rows'[j] > 0, j \notin failed'
      PROVE  link'[j] = (Bearer(d))' \/ j \in told'
  <2>1. d = parent[j] /\ Bearer(d) = parent[j]
    BY <1>1, ParentKeys DEF WalkInv, tree
  <2>2. (Bearer(d))' = Bearer(d)
    BY SameBearers
  <2>3. link'[j] = Bearer(d) \/ j \in told'
    BY <1>1, <2>1 DEF WalkInv, NoLinkLostSilently
  <2> QED BY <2>2, <2>3
<1> QED BY <1>1 DEF NoLinkLostSilently

\* The next item is taken from the queue.
LEMMA PushWalk == ASSUME WalkInv, NEW i \in Item, Push(i) PROVE WalkInv'
<1> USE DEF WalkInv, Shape, input, tree, post, jira, result
<1>1. TreeInv' /\ UNCHANGED <<tree, idOf, kind>> /\ pc # "raw" /\ pc' # "dress"
  <2>1. UNCHANGED <<tree, idOf, kind>> /\ pc # "raw" /\ pc' # "dress" /\ [Next]_vars
    BY DEF Push, BeginCreate, BeginRequest, BeginBusiness, BeginCard, BeginOnce,
           UpdateExisting, Next
  <2> QED BY <2>1, TreeStep
<1>2. Flat'
  BY <1>1 DEF Flat
<1>3. ASSUME parent[i] # None
      PROVE  /\ ParentKey(i) \in {None, parent[i]} /\ parent[i] \in Item
             /\ Orphaned(i) <=> ParentKey(i) = None
  BY <1>1, <1>3, ParentKeys
<1>4. CASE BeginCreate(i)
  <2>1. Shape' /\ Keyed'
    BY <1>4 DEF BeginCreate, Keyed
  <2>2. NoLinkLostSilently'
    BY <1>1, <1>4, OneMoreRow DEF BeginCreate
  <2>3. (ParentKey(i))' = ParentKey(i)
    BY <1>4 DEF BeginCreate, ParentKey
  <2>4. UnderWay'
    BY <1>3, <1>4, <2>3 DEF BeginCreate, UnderWay, FirstMethod, Method
  <2> QED BY <1>1, <1>2, <2>1, <2>2, <2>4
<1>5. CASE BeginRequest(i) \/ BeginBusiness(i) \/ BeginCard(i)
  <2> USE DEF BeginRequest, BeginBusiness, BeginCard, BeginOnce
  <2>1. Shape' /\ Keyed'
    BY <1>5 DEF Keyed
  <2>2. NoLinkLostSilently'
    BY <1>1, <1>5, OneMoreRow
  <2>3. UnderWay'
    BY <1>5 DEF UnderWay, Flat
  <2> QED BY <1>1, <1>2, <2>1, <2>2, <2>3
<1>6. CASE UpdateExisting(i)
  <2>1. Shape'
    <3>1. link' \in [Item -> Item \cup {None}]
      BY <1>3, <1>6 DEF UpdateExisting, ParentKey
    <3> QED BY <1>6, <3>1 DEF UpdateExisting, Row, Keyed, Id, Item
  <2>2. Keyed'
    BY <1>6 DEF UpdateExisting, Keyed, Id, Item
  <2>3. UnderWay'
    BY <1>6 DEF UpdateExisting, UnderWay
  <2>4. /\ \A j \in Item : j # i => link'[j] = link[j] /\ rows'[j] = rows[j]
        /\ failed \subseteq failed' /\ told \subseteq told'
    BY <1>6 DEF UpdateExisting, Row
  <2>5. i \in told' \/ parent[i] = None \/ link'[i] = parent[i]
    BY <1>3, <1>6 DEF UpdateExisting
  <2> QED BY <1>1, <1>2, <2>1, <2>2, <2>3, <2>4, <2>5, OneMoreRow
<1> QED BY <1>4, <1>5, <1>6 DEF Push

\* Jira or Trello answers, or does not.
LEMMA AnswerWalk == ASSUME WalkInv, NEW i \in Item, Answer(i) PROVE WalkInv'
<1> USE DEF WalkInv, Shape, input, tree, post, jira, result
<1>1. TreeInv' /\ UNCHANGED <<tree, idOf, kind, current>> /\ pc # "raw"
  <2>1. UNCHANGED <<tree, idOf, kind, current>> /\ pc # "raw" /\ [Next]_vars
    BY DEF Answer, Accepted, NextMethod, StripFields, Fails, Lost, CreateCard, DressCard,
           Next
  <2> QED BY <2>1, TreeStep
<1>2. ASSUME pc = "post", current = i, parent[i] # None
      PROVE  /\ ParentKey(i) \in {None, parent[i]} /\ parent[i] \in Item
             /\ method \in Method /\ (method # "root" => ParentKey(i) # None)
             /\ method \in {"unlinked", "root"} => i \in told
  BY <1>1, <1>2, ParentKeys DEF UnderWay
<1>3. CASE Accepted(i)
  <2>1. /\ \A j \in Item : j # i => link'[j] = link[j] /\ rows'[j] = rows[j]
        /\ failed \subseteq failed' /\ told \subseteq told'
    BY <1>3 DEF Accepted, Row
  <2>2. i \in told' \/ parent[i] = None \/ link'[i] = parent[i]
    BY <1>2, <1>3 DEF Accepted, Method
  <2>3. link' \in [Item -> Item \cup {None}]
    BY <1>2, <1>3 DEF Accepted, ParentKey
  <2>4. keyOf' \in [Id -> Item \cup {None}] /\ Keyed'
    BY <1>3 DEF Accepted, Keyed, Id, Item
  <2>5. Shape' /\ Flat' /\ UnderWay'
    BY <1>1, <1>3, <2>3, <2>4 DEF Accepted, Row, Flat, UnderWay
  <2> QED BY <1>1, <2>1, <2>2, <2>4, <2>5, OneMoreRow
<1>4. CASE NextMethod(i)
  <2>1. Shape' /\ Flat' /\ Keyed'
    BY <1>4 DEF NextMethod, Flat, Keyed
  <2>2. (ParentKey(i))' = ParentKey(i)
    BY <1>4 DEF NextMethod, ParentKey
  <2>3. UnderWay'
    BY <1>2, <1>4, <2>2 DEF NextMethod, UnderWay, Method
  <2>4. NoLinkLostSilently'
    BY <1>1, <1>4, OneMoreRow DEF NextMethod
  <2> QED BY <1>1, <2>1, <2>3, <2>4
<1>5. CASE StripFields(i)
  <2>1. Shape' /\ Flat' /\ Keyed'
    BY <1>5 DEF StripFields, Flat, Keyed
  <2>2. (ParentKey(i))' = ParentKey(i)
    BY <1>5 DEF StripFields, ParentKey
  <2>3. UnderWay'
    BY <1>2, <1>5, <2>2 DEF StripFields, UnderWay, FirstMethod, Method
  <2>4. NoLinkLostSilently'
    BY <1>1, <1>5, OneMoreRow DEF StripFields
  <2> QED BY <1>1, <2>1, <2>3, <2>4
<1>6. CASE Fails(i)
  <2>1. Shape' /\ Flat' /\ Keyed' /\ UnderWay'
    BY <1>6 DEF Fails, Row, Flat, Keyed, UnderWay
  <2>2. NoLinkLostSilently'
    BY <1>1, <1>6, OneMoreRow DEF Fails, Row
  <2> QED BY <1>1, <2>1, <2>2
<1>7. CASE Lost(i) \/ CreateCard(i)
  <2>1. Shape' /\ Flat' /\ Keyed' /\ UnderWay'
    BY <1>7 DEF Lost, CreateCard, Flat, Keyed, UnderWay
  <2>2. NoLinkLostSilently'
    BY <1>1, <1>7, OneMoreRow DEF Lost, CreateCard
  <2> QED BY <1>1, <2>1, <2>2
<1>8. CASE DressCard(i)
  <2>1. Shape' /\ Flat' /\ Keyed' /\ UnderWay'
    BY <1>8 DEF DressCard, Row, Flat, Keyed, UnderWay
  <2>2. parent[i] = None
    BY <1>8 DEF DressCard, Flat
  <2>3. NoLinkLostSilently'
    BY <1>1, <1>8, <2>2, OneMoreRow DEF DressCard, Row
  <2> QED BY <1>1, <2>1, <2>3
<1> QED BY <1>3, <1>4, <1>5, <1>6, <1>7, <1>8 DEF Answer

LEMMA WalkStep == WalkInv /\ [Next]_vars => WalkInv'
<1> SUFFICES ASSUME WalkInv, [Next]_vars PROVE WalkInv'
  OBVIOUS
<1>1. CASE Finish \/ UNCHANGED vars
  <2>1. UNCHANGED <<tree, idOf, kind, current, method, keyOf, link, rows, failed, told>>
        /\ (pc' = pc \/ pc' = "done")
    BY <1>1 DEF Finish, vars, input, tree, post, jira, result
  <2>2. TreeInv'
    BY TreeStep DEF WalkInv
  <2>3. Shape' /\ Flat' /\ Keyed' /\ UnderWay'
    BY <2>1 DEF WalkInv, Shape, Flat, Keyed, UnderWay, ParentKey, tree
  <2>4. NoLinkLostSilently'
    <3>1. ASSUME NEW j \in Item, NEW d, d = parent[j]
          PROVE  (Bearer(d))' = Bearer(d)
      BY <2>1, SameBearers
    <3> QED BY <2>1, <3>1 DEF WalkInv, NoLinkLostSilently, tree
  <2> QED BY <2>2, <2>3, <2>4 DEF WalkInv
<1> QED BY <1>1, RepairWalk, PushWalk, AnswerWalk DEF Next

\* With distinct ids, an issue that was created or updated is linked to its parent's
\* issue, or its row says that it is not: through every fallback that Jira may force.
THEOREM LinksAccounted == ASSUME DistinctIds PROVE Spec => []NoLinkLostSilently
<1>1. WalkInv => NoLinkLostSilently
  BY DEF WalkInv
<1>2. Init => WalkInv
  BY WalkInit
<1> QED BY <1>1, <1>2, WalkStep, PTL DEF Spec

-----------------------------------------------------------------------------
(* The queue, as the set of the items that wait in it, each once.          *)

Waiting(q) == {q[k] : k \in 1..Len(q)}
Once(q)    == \A k, l \in 1..Len(q) : q[k] = q[l] => k = l

LEMMA ListingFacts ==
  ASSUME NEW S \in SUBSET Item, NEW s \in Listings(S)
  PROVE  s \in Seq(Item) /\ Once(s) /\ Waiting(s) = S
<1> DEFINE n == Cardinality(S)
<1>1. n \in Nat
  <2>1. IsFiniteSet(1..N)
    BY SizeAssumption, FS_Interval
  <2>2. IsFiniteSet(S)
    BY <2>1, FS_Subset DEF Item
  <2> QED BY <2>2, FS_CardinalityType
<1> HIDE DEF n
<1>2. /\ s \in [1..n -> S] /\ \A i \in S : \E k \in 1..n : s[k] = i
      /\ \A k, l \in 1..n : k < l => s[k] < s[l]
  BY DEF Listings, n
<1>3. s \in Seq(Item) /\ Len(s) = n
  BY <1>1, <1>2
<1>4. Once(s)
  BY <1>1, <1>2, <1>3, SizeAssumption DEF Once, Item
<1>5. Waiting(s) = S
  BY <1>2, <1>3 DEF Waiting
<1> QED BY <1>3, <1>4, <1>5

LEMMA HeadLeaves ==
  ASSUME NEW q \in Seq(Item), q # <<>>, Once(q)
  PROVE  /\ Head(q) \in Waiting(q) /\ Tail(q) \in Seq(Item) /\ Once(Tail(q))
         /\ Waiting(Tail(q)) = Waiting(q) \ {Head(q)}
<1>1. /\ Len(q) \in Nat \ {0} /\ Head(q) = q[1] /\ Tail(q) \in Seq(Item)
      /\ Len(Tail(q)) = Len(q) - 1
      /\ \A k \in 1..Len(Tail(q)) : k + 1 \in 2..Len(q) /\ Tail(q)[k] = q[k + 1]
  OBVIOUS
<1>2. Once(Tail(q))
  BY <1>1 DEF Once
<1>3. \A k \in 2..Len(q) : k - 1 \in 1..Len(Tail(q)) /\ Tail(q)[k - 1] = q[k]
  BY <1>1
<1>4. ASSUME NEW i PROVE i \in Waiting(Tail(q)) <=> i \in Waiting(q) /\ i # Head(q)
  <2>1. ASSUME i \in Waiting(Tail(q)) PROVE i \in Waiting(q) /\ i # Head(q)
    <3>1. PICK k \in 1..Len(Tail(q)) : i = Tail(q)[k]
      BY <2>1 DEF Waiting
    <3>2. k + 1 \in 1..Len(q) /\ k + 1 # 1 /\ i = q[k + 1] /\ 1 \in 1..Len(q)
      BY <1>1, <3>1
    <3> QED BY <1>1, <3>2 DEF Waiting, Once
  <2>2. ASSUME i \in Waiting(q), i # Head(q) PROVE i \in Waiting(Tail(q))
    <3>1. PICK k \in 1..Len(q) : i = q[k]
      BY <2>2 DEF Waiting
    <3>2. k \in 2..Len(q)
      BY <1>1, <2>2, <3>1
    <3> QED BY <1>3, <3>1, <3>2 DEF Waiting
  <2> QED BY <2>1, <2>2
<1>5. Head(q) \in Waiting(q)
  BY <1>1 DEF Waiting
<1> QED BY <1>1, <1>2, <1>4, <1>5

LEMMA MoreWait ==
  ASSUME NEW q \in Seq(Item), Once(q), NEW S \in SUBSET Item, S \cap Waiting(q) = {},
         Enqueue(q, S)
  PROVE  queue' \in Seq(Item) /\ Once(queue') /\ Waiting(queue') = Waiting(q) \cup S
<1>1. PICK s \in Listings(S) : queue' = q \o s
  BY DEF Enqueue
<1>2. s \in Seq(Item) /\ Once(s) /\ Waiting(s) = S
  BY ListingFacts
<1>3. /\ queue' \in Seq(Item) /\ Len(queue') = Len(q) + Len(s)
      /\ Len(q) \in Nat /\ Len(s) \in Nat
      /\ \A k \in 1..Len(q) : queue'[k] = q[k]
      /\ \A k \in 1..Len(s) : queue'[Len(q) + k] = s[k]
  BY <1>1, <1>2
<1>4. \A k \in 1..Len(queue') : \/ k \in 1..Len(q) /\ queue'[k] = q[k] /\ q[k] \in Waiting(q)
                                \/ /\ k - Len(q) \in 1..Len(s)
                                   /\ queue'[k] = s[k - Len(q)] /\ s[k - Len(q)] \in S
  <2> SUFFICES ASSUME NEW k \in 1..Len(queue'), k \notin 1..Len(q)
               PROVE  k - Len(q) \in 1..Len(s) /\ queue'[k] = s[k - Len(q)]
    BY <1>2, <1>3 DEF Waiting
  <2>1. k - Len(q) \in 1..Len(s) /\ Len(q) + (k - Len(q)) = k
    BY <1>3
  <2> QED BY <1>3, <2>1
<1>5. Once(queue')
  <2> SUFFICES ASSUME NEW k \in 1..Len(queue'), NEW l \in 1..Len(queue'),
                      queue'[k] = queue'[l]
               PROVE  k = l
    BY DEF Once
  <2>1. CASE k \in 1..Len(q) /\ l \in 1..Len(q)
    BY <1>3, <2>1 DEF Once
  <2>2. CASE k \notin 1..Len(q) /\ l \notin 1..Len(q)
    <3>1. /\ k - Len(q) \in 1..Len(s) /\ l - Len(q) \in 1..Len(s)
          /\ s[k - Len(q)] = s[l - Len(q)]
      BY <1>4, <2>2
    <3>2. k - Len(q) = l - Len(q)
      BY <1>2, <3>1 DEF Once
    <3> QED BY <1>3, <3>2
  <2>3. CASE k \in 1..Len(q) /\ l \notin 1..Len(q)
    BY <1>4, <2>3
  <2>4. CASE k \notin 1..Len(q) /\ l \in 1..Len(q)
    BY <1>4, <2>4
  <2> QED BY <2>1, <2>2, <2>3, <2>4
<1>6. Waiting(q) \subseteq Waiting(queue') /\ S \subseteq Waiting(queue')
  <2>1. ASSUME NEW k \in 1..Len(q) PROVE q[k] \in Waiting(queue')
    BY <1>3 DEF Waiting
  <2>2. ASSUME NEW k \in 1..Len(s) PROVE s[k] \in Waiting(queue')
    <3>1. Len(q) + k \in 1..Len(queue')
      BY <1>3
    <3> QED BY <1>3, <3>1 DEF Waiting
  <2> QED BY <1>2, <2>1, <2>2 DEF Waiting
<1>7. Waiting(queue') \subseteq Waiting(q) \cup S
  BY <1>4 DEF Waiting
<1> QED BY <1>3, <1>5, <1>6, <1>7

-----------------------------------------------------------------------------
(* The rows, where no two items have the same temp_id.                     *)

Busy == IF pc \in {"post", "dress"} THEN {current} ELSE {}

\* An item that has its turn: a root, or one whose parent is done and not failed.
Due(i) == parent[i] = None \/ (rows[parent[i]] = 1 /\ parent[i] \notin failed)

\* Between the repair and the end: every item that has its turn waits, is under way
\* or has its row, one of the three; an issue is made under way, and for no other.
Walking ==
  /\ queue \in Seq(Item) /\ Once(queue) /\ Busy \cap Waiting(queue) = {}
  /\ \A i \in Item : rows[i] = IF Due(i) /\ i \notin Waiting(queue) \cup Busy THEN 1 ELSE 0
  /\ \A i \in Waiting(queue) \cup Busy : Due(i)
  /\ \A i \in failed : rows[i] = 1
  /\ \A i \in Item : rows[i] = 0 => made[i] = IF pc = "dress" /\ i = current THEN 1 ELSE 0
  /\ \A i \in Busy : i \notin existing

Fresh == /\ \A i \in Item : rows[i] = 0 /\ made[i] = 0
         /\ failed = {}

AtMostOne == \A i \in Item : made[i] <= IF i \in existing \cup failed THEN 0 ELSE 1

RowInv == /\ WalkInv /\ AtMostOne
          /\ made \in [Item -> Nat] /\ existing \subseteq Item /\ failed \subseteq Item
          /\ kind # "software" => existing = {}
          /\ pc = "raw" => Fresh
          /\ pc \notin {"raw", "aborted"} => Walking
          /\ pc = "done" => queue = <<>>

\* With distinct ids, parents are other items and Children are what the name says.
LEMMA Family ==
  ASSUME WalkInv, pc # "raw"
  PROVE  /\ \A i \in Item : parent[i] # None =>
              parent[i] \in Item /\ parent[i] # i /\ Bearer(parent[i]) = parent[i]
         /\ \A i \in Item : Children(idOf[i]) = {j \in Item : parent[j] = i}
<1>1. ASSUME NEW i \in Item, parent[i] # None
      PROVE  parent[i] \in Item /\ parent[i] # i /\ Bearer(parent[i]) = parent[i]
  <2>1. parent[i] \in Item /\ Bearer(parent[i]) = parent[i]
    BY <1>1, ParentKeys DEF WalkInv
  <2>2. PICK p \in Item : p = parent[i] /\ Bearer(parent[i]) = p
    BY <2>1
  <2>3. Rank[type[p]] < Rank[type[i]]
    BY <1>1, <2>2 DEF WalkInv, TreeInv, RepairedIsLegal
  <2>4. type[p] \in Type /\ Rank[type[p]] \in Nat
    BY DEF WalkInv, TreeInv, Tree, Rank
  <2>5. p # i
    BY <2>3, <2>4
  <2> QED BY <2>2, <2>5
<1>2. ASSUME NEW i \in Item PROVE Children(idOf[i]) = {j \in Item : parent[j] = i}
  <2>1. idOf[i] = i /\ Known(i)
    BY SizeAssumption DEF WalkInv, Keyed, Known, Bears, Item
  <2>2. \A j \in Item : parent[j] = i => idOf[j] # i
    BY <1>1, NoneIsNoId DEF WalkInv, Keyed
  <2> QED BY <2>1, <2>2 DEF Children
<1> QED BY <1>1, <1>2

LEMMA RowInit == DistinctIds /\ Init => RowInv
<1> SUFFICES ASSUME DistinctIds, Init PROVE RowInv
  OBVIOUS
<1>1. WalkInv
  BY WalkInit
<1>2. /\ made = [i \in Item |-> 0] /\ rows = [i \in Item |-> 0] /\ failed = {} /\ pc = "raw"
      /\ existing \subseteq Item /\ (kind # "software" => existing = {})
  BY DEF Init
<1> QED BY <1>1, <1>2 DEF RowInv, AtMostOne, Fresh

\* The item at the head of the queue is due, has no row and no issue of this push.
LEMMA HeadIsDue ==
  ASSUME Walking, pc = "push", queue # <<>>
  PROVE  /\ Busy = {} /\ Head(queue) \in Waiting(queue) /\ Due(Head(queue))
         /\ Tail(queue) \in Seq(Item) /\ Once(Tail(queue))
         /\ Waiting(Tail(queue)) = Waiting(queue) \ {Head(queue)}
BY HeadLeaves DEF Walking, Busy

\* What waits or is under way has no row; so it has not failed, and none of its
\* children have their turn.
LEMMA PendingFacts ==
  ASSUME WalkInv, Walking, pc # "raw", NEW i \in Item, i \in Waiting(queue) \cup Busy
  PROVE  /\ rows[i] = 0 /\ Due(i) /\ i \notin failed
         /\ made[i] = IF pc = "dress" /\ i = current THEN 1 ELSE 0
         /\ \A j \in Item : parent[j] = i =>
              j # i /\ ~ Due(j) /\ rows[j] = 0 /\ j \notin Waiting(queue) \cup Busy
<1>1. rows[i] = 0 /\ Due(i) /\ i \notin failed
  BY DEF Walking
<1>2. ASSUME NEW j \in Item, parent[j] = i PROVE j # i /\ ~ Due(j)
  BY <1>1, <1>2, Family, NoneIsNoId DEF Due
<1> QED BY <1>1, <1>2 DEF Walking

\* An item gets its row: its children have their turn then, unless it failed.
LEMMA RowGiven ==
  ASSUME WalkInv, Walking, pc # "raw", pc' = "push", UNCHANGED <<parent, existing>>,
         NEW i \in Item, i \in Waiting(queue) \cup Busy, pc = "dress" => i = current,
         Row(i), failed' = failed \/ failed' = failed \cup {i},
         NEW C, C = IF i \in failed' THEN {} ELSE {j \in Item : parent[j] = i},
         queue' \in Seq(Item), Once(queue'),
         Waiting(queue') = ((Waiting(queue) \cup Busy) \ {i}) \cup C,
         \A j \in Item : j # i => made'[j] = made[j]
  PROVE  Walking'
<1>1. /\ \A j \in Item : j # i => rows'[j] = rows[j] /\ (j \in failed' <=> j \in failed)
      /\ rows[i] = 0 /\ rows'[i] = 1 /\ Due(i) /\ i \notin failed
  BY PendingFacts DEF Row, WalkInv, Shape
<1>2. \A j \in Item : parent[j] = i =>
        j # i /\ ~ Due(j) /\ rows[j] = 0 /\ j \notin Waiting(queue) \cup Busy
  BY PendingFacts
<1>3. \A j \in Item : parent[j] # None => parent[j] \in Item
  BY Family
<1>4. \A j \in Item : Due(j)' <=> Due(j) \/ j \in C
  BY <1>1, <1>2, <1>3, NoneIsNoId DEF Due
<1>5. Busy' = {}
  BY DEF Busy
<1>6. \A j \in Item : j # i => (j \in Waiting(queue') <=> j \in Waiting(queue) \cup Busy \cup C)
  OBVIOUS
<1>7. i \notin C /\ i \notin Waiting(queue')
  BY <1>2
<1>8. \A j \in Item : rows'[j] = IF Due(j)' /\ j \notin Waiting(queue') THEN 1 ELSE 0
  <2> SUFFICES ASSUME NEW j \in Item
               PROVE  rows'[j] = IF Due(j)' /\ j \notin Waiting(queue') THEN 1 ELSE 0
    OBVIOUS
  <2>1. rows[j] = IF Due(j) /\ j \notin Waiting(queue) \cup Busy THEN 1 ELSE 0
    BY DEF Walking
  <2>2. CASE j = i
    BY <1>1, <1>4, <1>7, <2>2
  <2>3. CASE j # i /\ j \in C
    BY <1>1, <1>2, <1>6, <2>3
  <2>4. CASE j # i /\ j \notin C
    BY <1>1, <1>4, <1>6, <2>1, <2>4
  <2> QED BY <2>2, <2>3, <2>4
<1>9. \A j \in Waiting(queue') : Due(j)'
  <2>1. Waiting(queue') \subseteq Item /\ \A j \in Waiting(queue) \cup Busy : Due(j)
    BY DEF Walking, Waiting
  <2> QED BY <1>4, <2>1
<1>10. \A j \in failed' : rows'[j] = 1
  <2>1. failed \subseteq failed' /\ \A j \in failed : rows[j] = 1
    BY DEF Walking
  <2>2. ASSUME NEW j \in failed', j # i PROVE rows'[j] = 1
    BY <2>1, <2>2 DEF Row, WalkInv, Shape
  <2> QED BY <1>1, <2>2
<1>11. \A j \in Item : rows'[j] = 0 => made'[j] = 0
  <2> SUFFICES ASSUME NEW j \in Item, rows'[j] = 0 PROVE made'[j] = 0
    OBVIOUS
  <2>1. j # i /\ rows[j] = 0
    BY <1>1
  <2>2. ~ (pc = "dress" /\ j = current)
    BY <2>1
  <2> QED BY <2>1, <2>2 DEF Walking
<1> QED BY <1>5, <1>8, <1>9, <1>10, <1>11 DEF Walking

\* The repair: the roots are what waits, and nothing else has its turn.
LEMMA RepairRows == RowInv /\ Repair => RowInv'
<1> SUFFICES ASSUME RowInv, Repair PROVE RowInv'
  OBVIOUS
<1> USE DEF input, post, jira, result
<1>1. WalkInv' /\ Fresh /\ pc' = "push"
  BY RepairWalk DEF RowInv, Repair
<1>2. UNCHANGED <<kind, idOf, existing, made, rows, failed>>
  BY DEF Repair
<1> DEFINE S == {i \in Item : parent'[i] = None}
<1>3. Roots' = S
  <2>1. ASSUME NEW i \in Item, NEW d, d = parent'[i]
        PROVE  (Known(d))' /\ d # idOf'[i] <=> d # None
    <3>1. ASSUME d # None PROVE (Known(d))' /\ d # idOf'[i]
      <4>1. Known(d) /\ d # idOf[i]
        BY <2>1, <3>1 DEF Repair, MayKeep
      <4> QED BY <1>2, <4>1, SameBearers
    <3>2. ASSUME (Known(d))' PROVE d # None
      BY <1>1, <3>2, NoneIsNoId DEF Known, Bears, WalkInv, TreeInv, Tree
    <3> QED BY <3>1, <3>2
  <2> QED BY <2>1 DEF Roots
<1>4. queue' \in Seq(Item) /\ Once(queue') /\ Waiting(queue') = S
  <2>1. <<>> \in Seq(Item) /\ Once(<<>>) /\ Waiting(<<>>) = {}
    BY DEF Once, Waiting
  <2>2. Enqueue(<<>>, S)
    BY <1>3 DEF Repair
  <2> QED BY <2>1, <2>2, MoreWait
<1>5. \A i \in Item : Due(i)' <=> i \in S
  <2>1. ASSUME NEW i \in Item, parent'[i] # None PROVE rows'[parent'[i]] = 0
    <3>1. parent'[i] \in Item
      BY <2>1 DEF Repair, MayKeep, Known, Bears, RowInv, WalkInv, Keyed
    <3> QED BY <1>1, <1>2, <3>1 DEF Fresh
  <2> QED BY <2>1 DEF Due
<1>6. Walking'
  BY <1>1, <1>2, <1>4, <1>5 DEF Walking, Busy, Fresh
<1> QED BY <1>1, <1>2, <1>6 DEF RowInv, AtMostOne

\* The next item is taken from the queue, for a POST or for a PUT.
LEMMA PushRows == ASSUME RowInv, NEW i \in Item, Push(i) PROVE RowInv'
<1> USE DEF input, tree, post, jira, result
<1>1. WalkInv' /\ WalkInv /\ Walking /\ pc = "push" /\ queue # <<>> /\ i = Head(queue)
  BY PushWalk DEF RowInv, Push, BeginCreate, BeginRequest, BeginBusiness, BeginCard,
                  BeginOnce, UpdateExisting
<1>2. UNCHANGED <<kind, parent, existing, made, failed>> /\ pc' \in {"push", "post"}
  BY DEF Push, BeginCreate, BeginRequest, BeginBusiness, BeginCard, BeginOnce,
         UpdateExisting
<1>3. /\ Busy = {} /\ i \in Waiting(queue) /\ Due(i)
      /\ Tail(queue) \in Seq(Item) /\ Once(Tail(queue))
      /\ Waiting(Tail(queue)) = Waiting(queue) \ {i}
  BY <1>1, HeadIsDue
<1>4. CASE UpdateExisting(i)
  <2> DEFINE C == {j \in Item : parent[j] = i}
  <2>1. Enqueue(Tail(queue), C) /\ Row(i) /\ pc' = "push"
    BY <1>1, <1>4, Family DEF UpdateExisting
  <2>2. i \notin failed
    BY <1>1, <1>3, PendingFacts
  <2>3. C \cap Waiting(Tail(queue)) = {}
    BY <1>1, <1>3, PendingFacts
  <2>4. /\ queue' \in Seq(Item) /\ Once(queue')
        /\ Waiting(queue') = ((Waiting(queue) \cup Busy) \ {i}) \cup C
    BY <1>3, <2>1, <2>3, MoreWait
  <2> HIDE DEF C
  <2>5. C = IF i \in failed' THEN {} ELSE {j \in Item : parent[j] = i}
    BY <1>2, <2>2 DEF C
  <2>6. Walking'
    BY <1>1, <1>2, <1>3, <2>1, <2>4, <2>5, RowGiven
  <2> QED BY <1>1, <1>2, <2>1, <2>6 DEF RowInv, AtMostOne
<1>5. CASE BeginCreate(i) \/ BeginRequest(i) \/ BeginBusiness(i) \/ BeginCard(i)
  <2>1. pc' = "post" /\ current' = i /\ queue' = Tail(queue) /\ rows' = rows /\ i \notin existing
    BY <1>5 DEF BeginCreate, BeginRequest, BeginBusiness, BeginCard, BeginOnce, RowInv
  <2>2. Busy' = {i}
    BY <2>1 DEF Busy
  <2>3. Waiting(queue') \cup Busy' = Waiting(queue) \cup Busy
    BY <1>3, <2>1, <2>2
  <2>4. \A j \in Item : Due(j)' <=> Due(j)
    BY <1>2, <2>1 DEF Due
  <2>5. Busy' \cap Waiting(queue') = {}
    BY <1>3, <2>1, <2>2
  <2>6. Waiting(queue) \cup Busy \subseteq Item
    BY <1>1, <1>3 DEF Walking, Waiting
  <2>7. Walking'
    BY <1>1, <1>2, <1>3, <2>1, <2>2, <2>3, <2>4, <2>5, <2>6 DEF Walking
  <2> QED BY <1>1, <1>2, <2>1, <2>7 DEF RowInv, AtMostOne
<1> QED BY <1>4, <1>5 DEF Push

\* Jira or Trello answers, or does not.
LEMMA AnswerRows == ASSUME RowInv, NEW i \in Item, Answer(i) PROVE RowInv'
<1> USE DEF input, tree, post, jira, result
<1>1. /\ WalkInv' /\ WalkInv /\ Walking /\ pc \in {"push", "post", "dress"}
      /\ UNCHANGED <<kind, parent, existing, current>>
  BY AnswerWalk DEF RowInv, Answer, Accepted, NextMethod, StripFields, Fails, Lost,
                    CreateCard, DressCard
<1>2. AtMostOne /\ made \in [Item -> Nat] /\ failed \subseteq Item
  BY DEF RowInv
<1>3. ASSUME pc \in {"post", "dress"}, i = current
      PROVE  /\ Busy = {i} /\ i \notin Waiting(queue) /\ i \notin existing /\ i \notin failed
             /\ made[i] = (IF pc = "dress" THEN 1 ELSE 0)
  <2>1. Busy = {i}
    BY <1>3 DEF Busy
  <2> QED BY <1>1, <1>3, <2>1, PendingFacts DEF Walking
<1>4. CASE Accepted(i)
  <2> DEFINE C == {j \in Item : parent[j] = i}
  <2>1. /\ Enqueue(queue, C) /\ Row(i) /\ pc' = "push" /\ pc = "post" /\ i = current
        /\ failed' = failed /\ made' = [made EXCEPT ![i] = @ + 1]
    BY <1>1, <1>4, Family DEF Accepted
  <2>2. C \cap Waiting(queue) = {}
    BY <1>1, <1>3, <2>1, PendingFacts
  <2>3. /\ queue' \in Seq(Item) /\ Once(queue')
        /\ Waiting(queue') = ((Waiting(queue) \cup Busy) \ {i}) \cup C
    BY <1>1, <1>3, <2>1, <2>2, MoreWait DEF Walking
  <2> HIDE DEF C
  <2>4. C = IF i \in failed' THEN {} ELSE {j \in Item : parent[j] = i}
    BY <1>3, <2>1 DEF C
  <2>5. Walking'
    BY <1>1, <1>2, <1>3, <2>1, <2>3, <2>4, RowGiven
  <2>6. AtMostOne' /\ made' \in [Item -> Nat]
    BY <1>1, <1>2, <1>3, <2>1 DEF AtMostOne
  <2> QED BY <1>1, <2>1, <2>5, <2>6 DEF RowInv
<1>5. CASE NextMethod(i) \/ StripFields(i)
  <2>1. UNCHANGED <<pc, queue, made, rows, failed>>
    BY <1>5 DEF NextMethod, StripFields
  <2>2. Walking'
    BY <1>1, <2>1 DEF Walking, Busy, Due
  <2> QED BY <1>1, <2>1, <2>2 DEF RowInv, AtMostOne, Fresh
<1>6. CASE Fails(i)
  <2>1. /\ Row(i) /\ pc' = "push" /\ pc = "post" /\ i = current
        /\ failed' = failed \cup {i} /\ UNCHANGED <<made, queue>>
    BY <1>6 DEF Fails
  <2>2. Waiting(queue') = ((Waiting(queue) \cup Busy) \ {i}) \cup {}
    BY <1>3, <2>1
  <2>3. Walking'
    <3>1. queue' \in Seq(Item) /\ Once(queue')
      BY <1>1, <2>1 DEF Walking
    <3>2. {} = IF i \in failed' THEN {} ELSE {j \in Item : parent[j] = i}
      BY <2>1
    <3> QED BY <1>1, <1>3, <2>1, <2>2, <3>1, <3>2, RowGiven
  <2>4. AtMostOne'
    BY <1>1, <1>2, <1>3, <2>1 DEF AtMostOne
  <2> QED BY <1>1, <2>1, <2>3, <2>4 DEF RowInv
<1>7. CASE Lost(i)
  <2>1. pc' = "aborted" /\ UNCHANGED <<rows, failed>>
    BY <1>7 DEF Lost
  <2>2. AtMostOne' /\ made' \in [Item -> Nat]
    <3>1. CASE UNCHANGED made
      BY <1>1, <1>2, <2>1, <3>1 DEF AtMostOne
    <3>2. CASE i \notin existing /\ made' = [made EXCEPT ![i] = @ + 1]
      <4>1. pc = "post" /\ i = current
        BY <1>7, <3>2 DEF Lost
      <4> QED BY <1>1, <1>2, <1>3, <2>1, <3>2, <4>1 DEF AtMostOne
    <3> QED BY <1>7, <3>1, <3>2 DEF Lost
  <2> QED BY <1>1, <2>1, <2>2 DEF RowInv
<1>8. CASE CreateCard(i)
  <2>1. /\ pc = "post" /\ i = current /\ pc' = "dress" /\ made' = [made EXCEPT ![i] = @ + 1]
        /\ UNCHANGED <<queue, rows, failed>>
    BY <1>8 DEF CreateCard
  <2>2. Busy' = Busy /\ \A j \in Item : Due(j)' <=> Due(j)
    BY <1>1, <2>1 DEF Busy, Due
  <2>3. \A j \in Item : rows'[j] = 0 => made'[j] = IF j = i THEN 1 ELSE 0
    BY <1>1, <1>2, <1>3, <2>1 DEF Walking
  <2>4. Walking'
    <3>1. Waiting(queue) \cup Busy \subseteq Item
      BY <1>1, <1>3, <2>1 DEF Walking, Waiting
    <3> QED BY <1>1, <2>1, <2>2, <2>3, <3>1 DEF Walking
  <2>5. AtMostOne' /\ made' \in [Item -> Nat]
    BY <1>1, <1>2, <1>3, <2>1 DEF AtMostOne
  <2> QED BY <1>1, <2>1, <2>4, <2>5 DEF RowInv
<1>9. CASE DressCard(i)
  <2>1. pc = "dress" /\ i = current /\ UNCHANGED <<queue, made, failed>>
    BY <1>9 DEF DressCard
  <2>2. CASE pc' = "aborted"
    BY <1>1, <2>1, <2>2 DEF RowInv, AtMostOne
  <2>3. CASE pc' = "push" /\ Row(i)
    <3>1. {j \in Item : parent[j] = i} = {}
      BY <1>9, NoneIsNoId DEF DressCard, WalkInv, Flat, RowInv
    <3>2. /\ queue' \in Seq(Item) /\ Once(queue')
          /\ Waiting(queue') = ((Waiting(queue) \cup Busy) \ {i}) \cup {}
      BY <1>1, <1>3, <2>1 DEF Walking
    <3>3. {} = IF i \in failed' THEN {} ELSE {j \in Item : parent[j] = i}
      BY <3>1
    <3>4. Walking'
      BY <1>1, <1>2, <1>3, <2>1, <2>3, <3>2, <3>3, RowGiven
    <3> QED BY <1>1, <2>1, <2>3, <3>4 DEF RowInv, AtMostOne
  <2> QED BY <1>9, <2>2, <2>3 DEF DressCard
<1> QED BY <1>4, <1>5, <1>6, <1>7, <1>8, <1>9 DEF Answer

LEMMA RowStep == RowInv /\ [Next]_vars => RowInv'
<1> SUFFICES ASSUME RowInv, [Next]_vars PROVE RowInv'
  OBVIOUS
<1>1. CASE Finish \/ UNCHANGED vars
  <2>1. /\ UNCHANGED <<kind, parent, existing, queue, current, made, rows, failed>>
        /\ pc' = pc \/ (pc = "push" /\ queue = <<>> /\ pc' = "done")
    BY <1>1 DEF Finish, vars, input, tree, post, jira, result
  <2>2. WalkInv'
    BY WalkStep DEF RowInv
  <2>3. Walking => Walking'
    BY <2>1 DEF Walking, Busy, Due
  <2> QED BY <2>1, <2>2, <2>3 DEF RowInv, AtMostOne, Fresh
<1> QED BY <1>1, RepairRows, PushRows, AnswerRows DEF Next

\* At the end the items without their turn are exactly those below a failed one:
\* they are a set that descends, and any such set has them all, rank by rank.
LEMMA NotDueIsBelow ==
  ASSUME RowInv, pc = "done", NEW j \in Item
  PROVE  j \in BelowFailed <=> ~ Due(j)
<1> DEFINE U == {i \in Item : ~ Due(i)}
<1>1. WalkInv /\ Walking /\ \A i \in Item : rows[i] = IF Due(i) THEN 1 ELSE 0
  BY DEF RowInv, Walking, Busy, Waiting
<1>2. \A i \in Item : parent[i] # None =>
        parent[i] \in Item /\ parent[i] # i /\ Bearer(parent[i]) = parent[i]
  BY <1>1, Family
<1>3. \A i \in Item : i \in U <=> parent[i] # None /\ parent[i] \in failed \cup U
  BY <1>1, <1>2 DEF Due
<1> HIDE DEF U
<1>4. ASSUME j \in BelowFailed PROVE j \in U
  <2>1. U \in SUBSET Item /\ Descends(U)
    BY <1>2, <1>3 DEF Descends, U
  <2> QED BY <1>4, <2>1 DEF BelowFailed
<1>5. ASSUME NEW S \in SUBSET Item, Descends(S) PROVE U \subseteq S
  <2> DEFINE Upto(k) == \A i \in U : Rank[type[i]] < k => i \in S
  <2>1. \A i \in Item : Rank[type[i]] \in 0..4
    BY <1>1 DEF WalkInv, TreeInv, Tree, Rank
  <2>2. \A i \in Item : parent[i] # None => Rank[type[parent[i]]] < Rank[type[i]]
    <3> SUFFICES ASSUME NEW i \in Item, parent[i] # None
                 PROVE  Rank[type[parent[i]]] < Rank[type[i]]
      OBVIOUS
    <3>1. Rank[type[Bearer(parent[i])]] < Rank[type[i]]
      BY <1>1 DEF WalkInv, TreeInv, RepairedIsLegal
    <3> QED BY <1>2, <3>1
  <2>3. ASSUME NEW k \in 0..4, Upto(k) PROVE Upto(k + 1)
    <3> SUFFICES ASSUME NEW i \in U, Rank[type[i]] < k + 1 PROVE i \in S
      OBVIOUS
    <3>1. i \in Item /\ parent[i] # None /\ parent[i] \in failed \cup U
      BY <1>3 DEF U
    <3>2. parent[i] \in Item /\ Bearer(parent[i]) = parent[i]
      BY <1>2, <3>1
    <3>3. Rank[type[parent[i]]] < k
      BY <2>1, <2>2, <3>1, <3>2
    <3>4. Bearer(parent[i]) \in failed \cup S
      BY <2>3, <3>1, <3>2, <3>3
    <3> QED BY <1>5, <3>1, <3>4 DEF Descends
  <2>4. Upto(0)
    BY <2>1 DEF U
  <2> HIDE DEF Upto
  <2>5. Upto(1) /\ Upto(2) /\ Upto(3)
    <3>1. Upto(0 + 1)
      BY <2>3, <2>4
    <3>2. Upto(1 + 1)
      BY <2>3, <3>1
    <3>3. Upto(2 + 1)
      BY <2>3, <3>2
    <3> QED BY <3>1, <3>2, <3>3
  <2>6. Upto(5)
    <3>1. Upto(3 + 1)
      BY <2>3, <2>5
    <3>2. Upto(4 + 1)
      BY <2>3, <3>1
    <3> QED BY <3>2
  <2> QED BY <2>1, <2>6 DEF Upto, U
<1>6. ASSUME j \in U PROVE j \in BelowFailed
  BY <1>5, <1>6 DEF BelowFailed
<1> QED BY <1>4, <1>6 DEF U

\* With distinct ids no item becomes two issues, and none with an issue or a failed
\* row becomes one; a push that ends has told the user of every item, once, save of
\* those below an item that failed.
THEOREM RowsAccounted == Spec => []EveryItemAccounted
<1> DEFINE Accounts == DistinctIds => RowInv
<1>1. Accounts => EveryItemAccounted
  <2> SUFFICES ASSUME RowInv, NEW i \in Item
               PROVE  /\ made[i] <= IF i \in existing \cup failed THEN 0 ELSE 1
                      /\ pc = "done" => rows[i] = IF i \in BelowFailed THEN 0 ELSE 1
    BY DEF EveryItemAccounted
  <2>1. made[i] <= IF i \in existing \cup failed THEN 0 ELSE 1
    BY DEF RowInv, AtMostOne
  <2>2. ASSUME pc = "done" PROVE rows[i] = IF i \in BelowFailed THEN 0 ELSE 1
    <3>1. rows[i] = IF Due(i) THEN 1 ELSE 0
      BY <2>2 DEF RowInv, Walking, Busy, Waiting
    <3> QED BY <2>2, <3>1, NotDueIsBelow
  <2> QED BY <2>1, <2>2
<1>2. Init => Accounts
  BY RowInit
<1>3. Accounts /\ [Next]_vars => Accounts'
  BY RowStep
<1> QED BY <1>1, <1>2, <1>3, PTL DEF Spec

-----------------------------------------------------------------------------
(* The refinement: the push is a walk that settles parents first.          *)

WalkVars == <<Phase, Repaired, Issues, Outcome>>

\* In any set of items one of the lowest rank has its parent, if any, outside.
LEMMA Planted ==
  WalkInv /\ pc # "raw" =>
    Repaired \in [Item -> Item \cup {None}] /\ Walk!Forest(Repaired)
<1> SUFFICES ASSUME WalkInv, pc # "raw"
             PROVE  Repaired \in [Item -> Item \cup {None}] /\ Walk!Forest(Repaired)
  OBVIOUS
<1>1. Repaired = [i \in Item |-> parent[i]]
  BY DEF Repaired
<1>2. \A i \in Item : parent[i] # None => parent[i] \in Item /\ Bearer(parent[i]) = parent[i]
  BY Family
<1>3. ASSUME NEW S \in SUBSET Item, S # {} PROVE \E i \in S : Repaired[i] \notin S
  <2>1. \A i \in S : Rank[type[i]] \in 0..4
    BY DEF WalkInv, TreeInv, Tree, Rank
  <2>2. PICK i \in S : \A j \in S : Rank[type[i]] <= Rank[type[j]]
    <3> DEFINE At(k) == \E i \in S : Rank[type[i]] = k
    <3>1. At(0) \/ At(1) \/ At(2) \/ At(3) \/ At(4)
      BY <1>3, <2>1
    <3> QED BY <2>1, <3>1
  <2>3. ASSUME parent[i] \in S PROVE FALSE
    <3>1. parent[i] # None /\ Bearer(parent[i]) = parent[i]
      BY <1>2, <2>3, NoneIsNoId
    <3>2. Rank[type[Bearer(parent[i])]] < Rank[type[i]]
      BY <3>1 DEF WalkInv, TreeInv, RepairedIsLegal
    <3> QED BY <2>1, <2>2, <2>3, <3>1, <3>2
  <2> QED BY <1>1, <2>3
<1> QED BY <1>1, <1>2, <1>3 DEF Walk!Forest

LEMMA WalkBegins == DistinctIds /\ Init => Walk!Init
<1> SUFFICES ASSUME Init PROVE Walk!Init
  OBVIOUS
<1>1. /\ pc = "raw" /\ made = [i \in Item |-> 0] /\ rows = [i \in Item |-> 0]
      /\ existing \subseteq Item
  BY DEF Init
<1> QED BY <1>1 DEF Walk!Init, Phase, Repaired, Issues, Outcome

UnderWayPC == {"push", "post", "dress"}

LEMMA WalkStutters ==
  ASSUME pc \in UnderWayPC, pc' \in UnderWayPC, UNCHANGED <<parent, existing, made, rows, failed>>
  PROVE  UNCHANGED WalkVars
BY DEF UnderWayPC, WalkVars, Phase, Repaired, Issues, Outcome

\* What waits or is under way may be settled, and has an issue only if it is mapped
\* to one or if its card is being dressed.
LEMMA PendingIsReady ==
  ASSUME RowInv, pc \in UnderWayPC, NEW i \in Item, i \in Waiting(queue) \cup Busy
  PROVE  /\ Phase = "walk" /\ Walk!Ready(i) /\ i \notin failed
         /\ i \in Issues <=> i \in existing \/ (pc = "dress" /\ i = current)
<1>1. WalkInv /\ Walking /\ pc # "raw" /\ made \in [Item -> Nat]
  BY DEF RowInv, UnderWayPC
<1>2. /\ rows[i] = 0 /\ Due(i) /\ i \notin failed
      /\ made[i] = IF pc = "dress" /\ i = current THEN 1 ELSE 0
  BY <1>1, PendingFacts
<1>3. parent[i] # None => parent[i] \in Item
  BY <1>1, Family
<1>4. Walk!Ready(i)
  BY <1>1, <1>2, <1>3 DEF Walk!Ready, Outcome, Repaired, Due
<1>5. Phase = "walk"
  BY DEF Phase, UnderWayPC
<1> QED BY <1>2, <1>4, <1>5 DEF Issues

LEMMA WalkSettles ==
  ASSUME RowInv, pc \in UnderWayPC, pc' = "push", UNCHANGED <<parent, existing>>,
         NEW i \in Item, i \in Waiting(queue) \cup Busy, Row(i),
         \/ failed' = failed /\ Issues' = Issues \cup {i}
         \/ failed' = failed \cup {i} /\ Issues' = Issues /\ i \notin Issues
  PROVE  Walk!Settle(i)
<1>1. rows \in [Item -> Nat] /\ rows[i] = 0 /\ i \notin failed
  BY PendingFacts DEF RowInv, WalkInv, Shape, UnderWayPC
<1>2. Repaired' = Repaired /\ Phase' = Phase
  BY DEF Repaired, Phase, UnderWayPC
<1>3. rows' = [rows EXCEPT ![i] = 1]
  BY <1>1 DEF Row
<1>4. Outcome' = [Outcome EXCEPT ![i] = IF i \in failed' THEN "failed" ELSE "issue"]
  <2>1. \A j \in Item : j # i => rows'[j] = rows[j] /\ (j \in failed' <=> j \in failed)
    BY <1>1, <1>3
  <2>2. rows'[i] = 1
    BY <1>1, <1>3
  <2> DEFINE Out(j) == IF rows[j] = 0 THEN "none" ELSE IF j \in failed THEN "failed" ELSE "issue"
             Then(j) == IF rows'[j] = 0 THEN "none" ELSE
                        IF j \in failed' THEN "failed" ELSE "issue"
  <2>3. \A j \in Item : j # i => Then(j) = Out(j)
    BY <2>1
  <2>4. Then(i) = IF i \in failed' THEN "failed" ELSE "issue"
    BY <2>2
  <2>5. Outcome = [j \in Item |-> Out(j)] /\ Outcome' = [j \in Item |-> Then(j)]
    BY DEF Outcome
  <2> HIDE DEF Out, Then
  <2> QED BY <2>3, <2>4, <2>5
<1> QED BY <1>1, <1>2, <1>4, PendingIsReady DEF Walk!Settle

LEMMA WalkAborts ==
  ASSUME RowInv, pc \in UnderWayPC, pc' = "aborted", UNCHANGED <<parent, existing, rows, failed>>,
         \/ Issues' = Issues
         \/ \E i \in Item \ Issues : i \in Waiting(queue) \cup Busy /\ Issues' = Issues \cup {i}
  PROVE  Walk!Abort
<1>1. Repaired' = Repaired /\ Outcome' = Outcome /\ Phase = "walk" /\ Phase' = "aborted"
  BY DEF Repaired, Outcome, Phase, UnderWayPC
<1> QED BY <1>1, PendingIsReady DEF Walk!Abort

LEMMA PushSettles ==
  ASSUME RowInv, NEW i \in Item, Push(i) PROVE Walk!Settle(i) \/ UNCHANGED WalkVars
<1> USE DEF input, tree, post, jira, result
<1>1. Walking /\ pc = "push" /\ queue # <<>> /\ i = Head(queue)
  BY DEF RowInv, Push, BeginCreate, BeginRequest, BeginBusiness, BeginCard, BeginOnce,
         UpdateExisting
<1>2. i \in Waiting(queue)
  BY <1>1, HeadIsDue
<1>3. CASE UpdateExisting(i)
  <2>1. /\ pc' = "push" /\ UNCHANGED <<parent, existing, made, failed>>
        /\ Row(i) /\ i \in existing
    BY <1>1, <1>3 DEF UpdateExisting
  <2>2. Issues' = Issues \cup {i}
    BY <2>1 DEF Issues
  <2> QED BY <1>1, <1>2, <2>1, <2>2, WalkSettles DEF UnderWayPC
<1>4. CASE BeginCreate(i) \/ BeginRequest(i) \/ BeginBusiness(i) \/ BeginCard(i)
  <2>1. pc' = "post" /\ UNCHANGED <<parent, existing, made, rows, failed>>
    BY <1>4 DEF BeginCreate, BeginRequest, BeginBusiness, BeginCard, BeginOnce
  <2> QED BY <1>1, <2>1, WalkStutters DEF UnderWayPC
<1> QED BY <1>3, <1>4 DEF Push

LEMMA AnswerSettles ==
  ASSUME RowInv, NEW i \in Item, Answer(i)
  PROVE  Walk!Create(i) \/ Walk!Settle(i) \/ Walk!Abort \/ UNCHANGED WalkVars
<1> USE DEF input, tree, post, jira, result
<1>1. pc \in UnderWayPC /\ Walking /\ UNCHANGED <<parent, existing>> /\ made \in [Item -> Nat]
  BY DEF RowInv, UnderWayPC, Answer, Accepted, NextMethod, StripFields, Fails, Lost,
         CreateCard, DressCard
<1>2. ASSUME pc \in {"post", "dress"}, i = current
      PROVE  i \in Busy /\ i \notin existing /\ (i \in Issues <=> pc = "dress")
  <2>1. i \in Busy
    BY <1>2 DEF Busy
  <2> QED BY <1>1, <1>2, <2>1, PendingIsReady DEF Walking
<1>3. ASSUME made' = [made EXCEPT ![i] = @ + 1] PROVE Issues' = Issues \cup {i}
  BY <1>1, <1>3 DEF Issues
<1>4. ASSUME made' = made PROVE Issues' = Issues
  BY <1>1, <1>4 DEF Issues
<1>5. CASE Accepted(i)
  <2>1. /\ pc = "post" /\ i = current /\ pc' = "push" /\ failed' = failed /\ Row(i)
        /\ made' = [made EXCEPT ![i] = @ + 1]
    BY <1>5 DEF Accepted
  <2> QED BY <1>1, <1>2, <1>3, <2>1, WalkSettles
<1>6. CASE NextMethod(i) \/ StripFields(i)
  BY <1>1, <1>6, WalkStutters DEF NextMethod, StripFields
<1>7. CASE Fails(i)
  <2>1. /\ pc = "post" /\ i = current /\ pc' = "push" /\ failed' = failed \cup {i} /\ Row(i)
        /\ made' = made
    BY <1>7 DEF Fails
  <2> QED BY <1>1, <1>2, <1>4, <2>1, WalkSettles
<1>8. CASE Lost(i)
  <2>1. pc' = "aborted" /\ UNCHANGED <<rows, failed>>
    BY <1>8 DEF Lost
  <2>2. CASE UNCHANGED made
    BY <1>1, <1>4, <2>1, <2>2, WalkAborts
  <2>3. CASE i \notin existing /\ made' = [made EXCEPT ![i] = @ + 1]
    <3>1. pc = "post" /\ i = current
      BY <1>8, <2>3 DEF Lost
    <3> QED BY <1>1, <1>2, <1>3, <2>1, <2>3, <3>1, WalkAborts
  <2> QED BY <1>8, <2>2, <2>3 DEF Lost
<1>9. CASE CreateCard(i)
  <2>1. /\ pc = "post" /\ i = current /\ pc' = "dress" /\ UNCHANGED <<rows, failed>>
        /\ made' = [made EXCEPT ![i] = @ + 1]
    BY <1>9 DEF CreateCard
  <2>2. Repaired' = Repaired /\ Outcome' = Outcome /\ Phase' = Phase
    BY <1>1, <2>1 DEF Repaired, Outcome, Phase
  <2>3. Phase = "walk" /\ Walk!Ready(i)
    BY <1>1, <1>2, <2>1, PendingIsReady
  <2> QED BY <1>2, <1>3, <2>1, <2>2, <2>3 DEF Walk!Create
<1>10. CASE DressCard(i)
  <2>1. pc = "dress" /\ i = current /\ UNCHANGED <<made, failed>>
    BY <1>10 DEF DressCard
  <2>2. CASE pc' = "push" /\ Row(i)
    <3>1. Issues' = Issues \cup {i}
      BY <1>2, <1>4, <2>1
    <3> QED BY <1>1, <1>2, <2>1, <2>2, <3>1, WalkSettles
  <2>3. CASE pc' = "aborted" /\ UNCHANGED rows
    BY <1>1, <1>4, <2>1, <2>3, WalkAborts
  <2> QED BY <1>10, <2>2, <2>3 DEF DressCard
<1> QED BY <1>5, <1>6, <1>7, <1>8, <1>9, <1>10 DEF Answer

LEMMA WalkNext == RowInv /\ [Next]_vars => [Walk!Next]_WalkVars
<1> SUFFICES ASSUME RowInv, [Next]_vars PROVE Walk!Next \/ UNCHANGED WalkVars
  BY DEF WalkVars
<1>1. CASE Repair
  <2>1. WalkInv' /\ Fresh /\ pc = "raw" /\ pc' = "push" /\ UNCHANGED <<existing, made, rows, failed>>
    BY <1>1, RepairWalk DEF RowInv, Repair, input, jira, result
  <2>2. (Repaired \in [Item -> Item \cup {None}] /\ Walk!Forest(Repaired))'
    <3>1. (WalkInv /\ pc # "raw")'
      BY <2>1
    <3> QED BY <3>1, Planted, PTL
  <2>3. Issues' = Issues /\ Outcome' = Outcome /\ Phase = "plan" /\ Phase' = "walk"
    BY <2>1 DEF Issues, Outcome, Phase
  <2> QED BY <2>2, <2>3 DEF Walk!Next, Walk!Plan, Walk!Forest
<1>2. ASSUME NEW i \in Item, Push(i) PROVE Walk!Next \/ UNCHANGED WalkVars
  BY <1>2, PushSettles DEF Walk!Next
<1>3. ASSUME NEW i \in Item, Answer(i) PROVE Walk!Next \/ UNCHANGED WalkVars
  BY <1>3, AnswerSettles DEF Walk!Next
<1>4. CASE Finish
  <2>1. /\ pc = "push" /\ queue = <<>> /\ pc' = "done"
        /\ UNCHANGED <<parent, existing, made, rows, failed>>
    BY <1>4 DEF Finish, input, tree, jira, result
  <2>2. WalkInv /\ \A i \in Item : rows[i] = IF Due(i) THEN 1 ELSE 0
    BY <2>1 DEF RowInv, Walking, Busy, Waiting
  <2>3. /\ Repaired' = Repaired /\ Issues' = Issues /\ Outcome' = Outcome
        /\ Phase = "walk" /\ Phase' = "done"
    BY <2>1 DEF Repaired, Issues, Outcome, Phase
  <2>4. \A i \in Item : ~ Walk!Ready(i)
    <3>1. \A i \in Item : parent[i] # None => parent[i] \in Item
      BY <2>1, <2>2, Family
    <3> QED BY <2>1, <2>2, <3>1 DEF Walk!Ready, Outcome, Repaired, Due
  <2> QED BY <2>3, <2>4 DEF Walk!Next, Walk!Finish
<1>5. CASE UNCHANGED vars
  BY <1>5 DEF vars, input, tree, jira, result, WalkVars, Phase, Repaired, Issues, Outcome
<1> QED BY <1>1, <1>2, <1>3, <1>4, <1>5 DEF Next

\* With distinct ids a push is a walk that settles parents first: an issue is made of
\* an item only after its parent has its row and an issue, also where the push is
\* given up half-way; and it is done when no item is left that could have one.
THEOREM ParentsFirst == ASSUME DistinctIds PROVE Spec => ImplementsWalk
<1>1. Init => RowInv /\ Walk!Init
  BY RowInit, WalkBegins
<1>2. RowInv /\ [Next]_vars => [Walk!Next]_<<Phase, Repaired, Issues, Outcome>>
  BY WalkNext DEF WalkVars
<1> QED BY <1>1, <1>2, RowStep, PTL DEF Spec, ImplementsWalk, Walk!Spec

-----------------------------------------------------------------------------
(* Types, whatever the ids.                                                *)

LEMMA EnqueueTypes ==
  ASSUME NEW q \in Seq(Item), NEW S \in SUBSET Item, Enqueue(q, S)
  PROVE  queue' \in Seq(Item)
<1>1. PICK s \in Listings(S) : queue' = q \o s
  BY DEF Enqueue
<1> QED BY <1>1, ListingFacts

\* After the repair a parent is an id of an item, so it has an entry in temp_to_key.
LEMMA LinkTypes ==
  ASSUME TypeOK, TreeInv, pc # "raw", NEW i \in Item
  PROVE  /\ ParentKey(i) \in Item \cup {None}
         /\ [link EXCEPT ![i] = ParentKey(i)] \in [Item -> Item \cup {None}]
         /\ [keyOf EXCEPT ![idOf[i]] = i] \in [Id -> Item \cup {None}]
<1>1. parent[i] # None => parent[i] \in Id
  BY DEF TypeOK, TreeInv, RepairedIsLegal, Known, Bears
<1>2. ParentKey(i) \in Item \cup {None}
  BY <1>1 DEF TypeOK, ParentKey
<1> QED BY <1>2 DEF TypeOK

LEMMA TypeInit == Init => TypeOK
<1>1. 1 \in Item /\ <<>> \in Seq(Item)
  BY SizeAssumption DEF Item
<1> SUFFICES ASSUME Init PROVE TypeOK
  OBVIOUS
<1>2. /\ kind \in Kind /\ scheme \in Schemes /\ idOf \in [Item -> Id] /\ existing \subseteq Item
      /\ parent \in [Item -> 1..Nobody \cup {None}] /\ type \in [Item -> Type]
  BY DEF Init
<1>3. /\ pc = "raw" /\ queue \in Seq(Item) /\ current \in Item
      /\ method \in Method /\ stripped \in BOOLEAN
  BY <1>1 DEF Init, Method
<1>4. /\ keyOf \in [Id -> Item \cup {None}]
      /\ made \in [Item -> Nat] /\ link \in [Item -> Item \cup {None}]
      /\ rows \in [Item -> Nat] /\ failed \subseteq Item /\ told \subseteq Item
  BY DEF Init
<1> QED BY <1>2, <1>3, <1>4 DEF TypeOK

LEMMA TypeStep == TypeOK /\ TreeInv /\ [Next]_vars => TypeOK'
<1> SUFFICES ASSUME TypeOK, TreeInv, [Next]_vars PROVE TypeOK'
  OBVIOUS
<1> USE DEF TypeOK, input, tree, post, jira, result
<1>1. TreeInv'
  BY TreeStep
<1>2. CASE Repair
  <2>1. queue' \in Seq(Item)
    <3>1. <<>> \in Seq(Item) /\ Roots' \in SUBSET Item
      BY DEF Roots
    <3> QED BY <1>2, <3>1, EnqueueTypes DEF Repair
  <2>2. parent' \in [Item -> 1..Nobody \cup {None}] /\ type' \in [Item -> Type]
    BY <1>1 DEF TreeInv, Tree
  <2> QED BY <1>2, <2>1, <2>2 DEF Repair
<1>3. ASSUME NEW i \in Item, Push(i) PROVE TypeOK'
  <2>1. pc = "push" /\ queue # <<>> /\ Tail(queue) \in Seq(Item)
    BY <1>3 DEF Push, BeginCreate, BeginRequest, BeginBusiness, BeginCard, BeginOnce,
                UpdateExisting
  <2>2. CASE UpdateExisting(i)
    <3>1. queue' \in Seq(Item)
      <4>1. Children(idOf[i]) \in SUBSET Item
        BY DEF Children
      <4> QED BY <2>1, <2>2, <4>1, EnqueueTypes DEF UpdateExisting
    <3>2. keyOf' \in [Id -> Item \cup {None}] /\ link' \in [Item -> Item \cup {None}]
      <4>1. CASE UNCHANGED link
        BY <2>1, <2>2, <4>1, LinkTypes DEF UpdateExisting
      <4>2. CASE link' = [link EXCEPT ![i] = ParentKey(i)]
        BY <2>1, <2>2, <4>2, LinkTypes DEF UpdateExisting
      <4> QED BY <2>2, <4>1, <4>2 DEF UpdateExisting
    <3>3. rows' \in [Item -> Nat] /\ told' \subseteq Item
      BY <2>2 DEF UpdateExisting, Row
    <3> QED BY <2>2, <3>1, <3>2, <3>3 DEF UpdateExisting
  <2>3. CASE BeginCreate(i)
    BY <2>1, <2>3 DEF BeginCreate, FirstMethod, Method
  <2>4. CASE BeginRequest(i) \/ BeginBusiness(i) \/ BeginCard(i)
    BY <2>1, <2>4 DEF BeginRequest, BeginBusiness, BeginCard, BeginOnce, Method
  <2> QED BY <1>3, <2>2, <2>3, <2>4 DEF Push
<1>4. ASSUME NEW i \in Item, Answer(i) PROVE TypeOK'
  <2>1. CASE Accepted(i)
    <3>1. queue' \in Seq(Item)
      <4>1. Children(idOf[i]) \in SUBSET Item
        BY DEF Children
      <4> QED BY <2>1, <4>1, EnqueueTypes DEF Accepted
    <3>2. keyOf' \in [Id -> Item \cup {None}] /\ link' \in [Item -> Item \cup {None}]
      BY <2>1, LinkTypes DEF Accepted
    <3>3. /\ rows' \in [Item -> Nat] /\ made' \in [Item -> Nat]
          /\ told' \subseteq Item
      BY <2>1 DEF Accepted, Row
    <3> QED BY <2>1, <3>1, <3>2, <3>3 DEF Accepted
  <2>2. CASE NextMethod(i)
    BY <2>2 DEF NextMethod, Method
  <2>3. CASE StripFields(i)
    BY <2>3 DEF StripFields, FirstMethod, Method
  <2>4. CASE Fails(i)
    BY <2>4 DEF Fails, Row
  <2>5. CASE Lost(i)
    <3>1. made' \in [Item -> Nat]
      BY <2>5 DEF Lost
    <3> QED BY <2>5, <3>1 DEF Lost
  <2>6. CASE CreateCard(i)
    BY <2>6 DEF CreateCard
  <2>7. CASE DressCard(i)
    BY <2>7 DEF DressCard, Row
  <2> QED BY <1>4, <2>1, <2>2, <2>3, <2>4, <2>5, <2>6, <2>7 DEF Answer
<1>5. CASE Finish \/ UNCHANGED vars
  BY <1>5 DEF Finish, vars
<1> QED BY <1>2, <1>3, <1>4, <1>5 DEF Next

\* Every variable of the push keeps its type, whatever ids come in.
THEOREM TypeCorrect == Spec => []TypeOK
<1>1. Init => TypeOK /\ TreeInv
  BY TypeInit, TreeInit
<1>2. TypeOK /\ TreeInv /\ [Next]_vars => (TypeOK /\ TreeInv)'
  BY TypeStep, TreeStep
<1> QED BY <1>1, <1>2, PTL DEF Spec
=============================================================================
