------------------------ MODULE RemotePresenceProofs ------------------------
(***************************************************************************)
(* RemotePresence for every number of users, tokens, pages and faults.     *)
(*                                                                         *)
(* ToldWhenReady is not inductive: it says nothing of the gap between the  *)
(* snapshot and the subscription, where the panel has no inbox yet.        *)
(* NextRunWaits needs that a user who is counted as gone is offline.       *)
(***************************************************************************)
EXTENDS RemotePresence, TLAPS

USE PoolAssumption, CallerAssumption, BoundAssumption

\* The type of each variable is kept: TypeOK is inductive.
LEMMA TypeInit == Init => TypeOK
<1>1. Init => faults \in 0..MaxFaults
  BY DEF Init
<1> QED BY <1>1 DEF Init, TypeOK, SockStage, CallStage, HostStage, Subscribed

LEMMA TypeStep == TypeOK /\ [Next]_vars => TypeOK'
<1> SUFFICES ASSUME TypeOK, [Next]_vars PROVE TypeOK'
  OBVIOUS
<1> USE DEF TypeOK, SockStage, CallStage, HostStage, Subscribed, Caller,
            redis, panel, past, vars, Call, Move, Tab, Delivered, Gone, Unheard
<1>0. Fault => faults' \in 0..MaxFaults
  BY DEF Fault
<1>1. ASSUME NEW l \in Link, LinkStep(l) PROVE TypeOK'
  BY <1>1 DEF LinkStep, Invite, LinkExpires
<1>2. ASSUME NEW u \in Remote, UserStep(u) PROVE TypeOK'
  <2>1. CASE Ignore(u)           BY <2>1 DEF Ignore
  <2>2. CASE SetIgnored(u)       BY <2>2 DEF SetIgnored
  <2>3. CASE Unignore(u)         BY <2>3 DEF Unignore
  <2>4. CASE OnlineExpires(u)    BY <2>4 DEF OnlineExpires
  <2>5. CASE IgnoredExpires(u)   BY <2>5 DEF IgnoredExpires
  <2> QED BY <1>2, <2>1, <2>2, <2>3, <2>4, <2>5 DEF UserStep
<1>3. ASSUME NEW p \in Page, PageStep(p) PROVE TypeOK'
  <2>1. CASE Open(p)             BY <2>1 DEF Open
  <2>2. CASE ValidateOnline(p)   BY <2>2 DEF ValidateOnline
  <2>3. CASE SetOnline(p)        BY <2>3 DEF SetOnline
  <2>4. CASE Accept(p)           BY <2>4 DEF Accept
  <2>5. CASE Leave(p)            BY <2>5 DEF Leave
  <2>6. CASE ReadStatus(p)       BY <2>6 DEF ReadStatus
  <2>7. CASE DropOnline(p)       BY <2>7 DEF DropOnline
  <2>8. CASE SocketDies(p)       BY <2>8, <1>0 DEF SocketDies
  <2> QED BY <1>3, <2>1, <2>2, <2>3, <2>4, <2>5, <2>6, <2>7, <2>8 DEF PageStep
<1>4. ASSUME NEW c \in Caller, CallStep(c) PROVE TypeOK'
  <2>1. CASE Publish(c)          BY <2>1 DEF Publish
  <2>2. CASE CheckComplete(c)    BY <2>2 DEF CheckComplete
  <2>3. CASE Announce(c)         BY <2>3 DEF Announce, AllReady
  <2>4. CASE Fail(c)             BY <2>4, <1>0 DEF Fail
  <2> QED BY <1>4, <2>1, <2>2, <2>3, <2>4 DEF CallStep
<1>5. ASSUME HostStep PROVE TypeOK'
  <2>1. CASE Post \/ CheckReady \/ StartRun \/ RunEnds \/ Park
    BY <2>1 DEF Post, CheckReady, StartRun, RunEnds, Park
  <2>2. CASE Snapshot \/ Subscribe \/ Replay
    BY <2>2 DEF Snapshot, Subscribe, Replay
  <2>3. CASE HearComplete \/ HearUpdate
    BY <2>3 DEF HearComplete, HearUpdate
  <2>4. CASE Reread              BY <2>4 DEF Reread
  <2>5. CASE Reload              BY <2>5 DEF Reload
  <2>6. CASE ListenerDies        BY <2>6, <1>0 DEF ListenerDies
  <2>7. CASE RunRefused          BY <2>7, <1>0 DEF RunRefused
  <2> QED BY <1>5, <2>1, <2>2, <2>3, <2>4, <2>5, <2>6, <2>7 DEF HostStep
<1>6. CASE UNCHANGED vars
  BY <1>6
<1> QED
  BY <1>1, <1>2, <1>3, <1>4, <1>5, <1>6 DEF Next

\* Every variable keeps its type.
THEOREM TypeCorrect == Spec => []TypeOK
<1>1. Init => TypeOK                     BY TypeInit
<1>2. TypeOK /\ [Next]_vars => TypeOK'   BY TypeStep
<1> QED BY <1>1, <1>2, PTL DEF Spec

-----------------------------------------------------------------------------
(* The gate.  A user counted as gone has no status key; a run that the gate*)
(* has let through has seen that everybody has one.                        *)

GoneIsOffline == \A u \in dropped : presence[u] = "offline"
ClearedForAll == host = "clear" => dropped = {}
GateInv == TypeOK /\ GoneIsOffline /\ ClearedForAll

LEMMA GateStep == GateInv /\ [Next]_vars => GateInv'
<1> SUFFICES ASSUME TypeOK, GoneIsOffline, ClearedForAll, [Next]_vars
             PROVE  GoneIsOffline' /\ ClearedForAll'
  BY TypeStep DEF GateInv
<1> USE DEF GoneIsOffline, ClearedForAll, TypeOK, redis, panel, past, vars, Tab, Gone
<1>1. ASSUME NEW l \in Link, LinkStep(l) PROVE GoneIsOffline' /\ ClearedForAll'
  BY <1>1 DEF LinkStep, Invite, LinkExpires
<1>2. ASSUME NEW u \in Remote, UserStep(u) PROVE GoneIsOffline' /\ ClearedForAll'
  <2>1. CASE Ignore(u) \/ SetIgnored(u)
    BY <2>1 DEF Ignore, SetIgnored
  <2>2. CASE Unignore(u) \/ OnlineExpires(u) \/ IgnoredExpires(u)
    BY <2>2 DEF Unignore, OnlineExpires, IgnoredExpires
  <2> QED BY <1>2, <2>1, <2>2 DEF UserStep
<1>3. ASSUME NEW p \in Page, PageStep(p) PROVE GoneIsOffline' /\ ClearedForAll'
  <2>1. CASE SetOnline(p)        BY <2>1 DEF SetOnline
  <2>2. CASE DropOnline(p)       BY <2>2 DEF DropOnline
  <2>3. CASE Open(p) \/ ValidateOnline(p) \/ Accept(p) \/ Leave(p) \/ ReadStatus(p)
               \/ SocketDies(p)
    BY <2>3 DEF Open, ValidateOnline, Accept, Leave, ReadStatus, SocketDies
  <2> QED BY <1>3, <2>1, <2>2, <2>3 DEF PageStep
<1>4. ASSUME NEW c \in Caller, CallStep(c) PROVE GoneIsOffline' /\ ClearedForAll'
  BY <1>4 DEF CallStep, Publish, CheckComplete, Announce, Fail
<1>5. ASSUME HostStep PROVE GoneIsOffline' /\ ClearedForAll'
  <2>1. CASE CheckReady
    <3>1. AllReady => dropped = {}
      BY DEF AllReady
    <3> QED BY <2>1, <3>1 DEF CheckReady
  <2>2. CASE ~CheckReady
    BY <1>5, <2>2 DEF HostStep, Post, StartRun, RunRefused, RunEnds, Park, Snapshot, Subscribe,
                      HearComplete, HearUpdate, Reread, Replay, Reload, ListenerDies
  <2> QED BY <2>1, <2>2
<1>6. CASE UNCHANGED vars
  BY <1>6
<1> QED
  BY <1>1, <1>2, <1>3, <1>4, <1>5, <1>6 DEF Next

\* Only StartRun starts a run, and the gate has cleared it.
LEMMA OnlyStartRuns ==
  GateInv /\ [Next]_vars => [host # "running" /\ host' = "running" => dropped = {}]_vars
<1> SUFFICES ASSUME GateInv, Next, host # "running", host' = "running"
             PROVE  dropped = {}
  OBVIOUS
<1>1. CASE StartRun
  BY <1>1 DEF StartRun, Tab, GateInv, ClearedForAll
<1>2. CASE ~StartRun
  <2>1. CASE HostStep
    BY <1>2, <2>1 DEF HostStep, Tab, Post, CheckReady, RunRefused, RunEnds, Park, Snapshot, Subscribe,
                      HearComplete, HearUpdate, Reread, Replay, Reload, ListenerDies
  <2>2. ASSUME NEW l \in Link, LinkStep(l) PROVE FALSE
    BY <2>2 DEF LinkStep, Invite, LinkExpires, panel
  <2>3. ASSUME NEW u \in Remote, UserStep(u) PROVE FALSE
    BY <2>3 DEF UserStep, Ignore, SetIgnored, Unignore, OnlineExpires, IgnoredExpires, panel
  <2>4. ASSUME NEW p \in Page, PageStep(p) PROVE FALSE
    BY <2>4 DEF PageStep, Open, ValidateOnline, SetOnline, Accept, Leave, ReadStatus,
                DropOnline, SocketDies, panel
  <2>5. ASSUME NEW c \in Caller, CallStep(c) PROVE FALSE
    BY <2>5 DEF CallStep, Publish, CheckComplete, Announce, Fail, panel
  <2> QED BY <2>1, <2>2, <2>3, <2>4, <2>5 DEF Next
<1> QED BY <1>1, <1>2

\* No run starts while a user who went away during the run before is missing.
THEOREM GateHolds == Spec => NextRunWaits
<1>1. Init => GateInv
  BY TypeInit DEF GateInv, GoneIsOffline, ClearedForAll, Init
<1>2. GateInv /\ [Next]_vars => GateInv'
  BY GateStep
<1>3. GateInv /\ [Next]_vars
        => [host # "running" /\ host' = "running" => dropped = {}]_vars
  BY OnlyStartRuns
<1> QED BY <1>1, <1>2, <1>3, PTL DEF Spec, NextRunWaits

-----------------------------------------------------------------------------
(* The panel's wake-up.  What ToldWhenReady says of a panel that listens   *)
(* holds of one that is about to subscribe as well.                        *)

Awake == host \in {"gap", "listening"} /\ AllReady /\ ~missed
           => inbox # {} \/ Announcing
ToldInv == TypeOK /\ Awake

\* A request on its last steps goes on doing so unless it is the one that moved.
LEMMA StillAnnouncing ==
  ASSUME TypeOK, Announcing, NEW c \in Caller, NEW s,
         step' = [step EXCEPT ![c] = s],
         step[c] \notin {"publish", "check", "ready"} \/ s \in {"publish", "check", "ready"}
  PROVE  Announcing'
BY DEF Announcing, TypeOK

\* A user who has just lost the status key keeps the others waiting.
LEMMA OneMissing ==
  ASSUME TypeOK, NEW u \in Remote, presence' = [presence EXCEPT ![u] = "offline"]
  PROVE  ~AllReady'
BY DEF AllReady, TypeOK

LEMMA ToldStep == ToldInv /\ [Next]_vars => ToldInv'
<1> SUFFICES ASSUME TypeOK, Awake, [Next]_vars PROVE Awake'
  BY TypeStep DEF ToldInv
<1> USE DEF redis, panel, past, vars
<1>1. ASSUME NEW l \in Link, LinkStep(l) PROVE Awake'
  BY <1>1 DEF LinkStep, Invite, LinkExpires, Awake, AllReady, Announcing
<1>2. ASSUME NEW u \in Remote, UserStep(u) PROVE Awake'
  <2>1. CASE Ignore(u)
    BY <2>1, StillAnnouncing DEF Ignore, Call, Awake, AllReady, Caller
  <2>2. CASE SetIgnored(u)
    BY <2>2 DEF SetIgnored, Call, Awake, Announcing, TypeOK, Caller
  <2>3. CASE Unignore(u) \/ OnlineExpires(u) \/ IgnoredExpires(u)
    BY <2>3, OneMissing DEF Unignore, OnlineExpires, IgnoredExpires, Awake
  <2> QED BY <1>2, <2>1, <2>2, <2>3 DEF UserStep
<1>3. ASSUME NEW p \in Page, PageStep(p) PROVE Awake'
  <2>1. CASE Open(p) \/ ValidateOnline(p)
    BY <2>1, StillAnnouncing DEF Open, ValidateOnline, Call, Awake, AllReady, Caller
  <2>2. CASE SetOnline(p)
    BY <2>2 DEF SetOnline, Call, Awake, Announcing, TypeOK, Caller
  <2>3. CASE DropOnline(p)
    BY <2>3, OneMissing DEF DropOnline, Awake
  <2>4. CASE Accept(p) \/ Leave(p) \/ ReadStatus(p) \/ SocketDies(p)
    BY <2>4 DEF Accept, Leave, ReadStatus, SocketDies, Awake, AllReady, Announcing
  <2> QED BY <1>3, <2>1, <2>2, <2>3, <2>4 DEF PageStep
<1>4. ASSUME NEW c \in Caller, CallStep(c) PROVE Awake'
  <2>1. CASE Publish(c)
    BY <2>1, StillAnnouncing DEF Publish, Call, Delivered, Subscribed, Awake, AllReady,
                                 Announcing, TypeOK
  <2>2. CASE CheckComplete(c)
    BY <2>2, StillAnnouncing DEF CheckComplete, Call, Awake, AllReady
  <2>3. CASE Announce(c)
    BY <2>3 DEF Announce, Delivered, Subscribed, Unheard, Awake, AllReady
  <2>4. CASE Fail(c)
    BY <2>4, StillAnnouncing DEF Fail, Call, Unheard, Awake, AllReady
  <2> QED BY <1>4, <2>1, <2>2, <2>3, <2>4 DEF CallStep
<1>5. ASSUME HostStep PROVE Awake'
  <2>1. CASE Subscribe
    BY <2>1 DEF Subscribe, Tab, Awake, AllReady, Announcing
  <2>2. CASE Snapshot \/ Reread
    BY <2>2 DEF Snapshot, Reread, Tab, Awake, AllReady
  <2>3. CASE ~(Subscribe \/ Snapshot \/ Reread)
    BY <1>5, <2>3 DEF HostStep, Tab, Awake, Post, CheckReady, StartRun, RunRefused, RunEnds, Park,
                      HearComplete, HearUpdate, Replay, Reload, ListenerDies
  <2> QED BY <2>1, <2>2, <2>3
<1>6. CASE UNCHANGED vars
  BY <1>6 DEF Awake, AllReady, Announcing
<1> QED
  BY <1>1, <1>2, <1>3, <1>4, <1>5, <1>6 DEF Next

\* A panel that listens while all are there has an event, or will be sent one.
THEOREM NoLostWakeUp == Spec => []ToldWhenReady
<1>1. Init => ToldInv
  BY TypeInit DEF ToldInv, Awake, Init
<1>2. ToldInv /\ [Next]_vars => ToldInv'
  BY ToldStep
<1>3. ToldInv => ToldWhenReady
  BY DEF ToldInv, Awake, ToldWhenReady
<1> QED BY <1>1, <1>2, <1>3, PTL DEF Spec
=============================================================================
