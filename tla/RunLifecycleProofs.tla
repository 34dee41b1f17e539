------------------------- MODULE RunLifecycleProofs -------------------------
(***************************************************************************)
(* Theorems about RunLifecycle, for every number of workers, requests and  *)
(* tabs, every configuration of the gates, every set of faults.  Those on  *)
(* the lease assume Punctual: its TTL outlasts the gaps between heartbeats.*)
(***************************************************************************)
EXTENDS RunLifecycle, TLAPS

(***************************************************************************)
(* Every action keeps the types: statuses are those the handlers test for, *)
(* and a run is never at a point that the handler does not have.           *)
(***************************************************************************)
LEMMA TypeInit == Init => TypeOK
<1> SUFFICES ASSUME Init PROVE TypeOK
  OBVIOUS
<1> USE DEF Init
<1>1. status \in Status /\ round \in Nat /\ saved \in BOOLEAN
  BY DEF Status, Runnable
<1>2. pc \in [Run -> PC]
  BY DEF PC
<1>3. up \in [Worker -> BOOLEAN] /\ cancelSignal \in BOOLEAN
  OBVIOUS
<1> QED BY <1>1, <1>2, <1>3 DEF TypeOK

USE DEF mongo, redis, process, host, history

LEMMA TypeStep == TypeOK /\ [Next]_vars => TypeOK'
<1> SUFFICES ASSUME TypeOK, [Next]_vars PROVE TypeOK'
  OBVIOUS
<1> USE DEF TypeOK, Goto, SetStatus, Status, Runnable
<1>1. ASSUME NEW r \in Run, Prepare(r) PROVE TypeOK'
  <2>1. CASE Park(r)
    BY <2>1, ConfigAssumption DEF Park, PC, Ended
  <2>2. CASE AcquireLease(r)
    <3>1. on[r] \in Worker \cup {None}
      OBVIOUS
    <3> QED BY <2>2, <3>1 DEF AcquireLease, PC, Preparing
  <2>3. CASE RefuseLease(r)
    BY <2>3 DEF RefuseLease, PC, Ended
  <2>4. CASE ClearCancelBefore(r)
    BY <2>4 DEF ClearCancelBefore, PC, Preparing
  <2>5. CASE TakeRunning(r)
    BY <2>5 DEF TakeRunning, PC, Preparing, Starting
  <2>6. CASE AbortRelease(r)
    BY <2>6 DEF AbortRelease, ReleaseLease, PC, Ended
  <2> QED BY <1>1, <2>1, <2>2, <2>3, <2>4, <2>5, <2>6 DEF Prepare
<1>2. ASSUME NEW r \in Run, Stream(r) PROVE TypeOK'
  <2> USE DEF PC, Starting, Streaming, Closing
  <2>1. CASE BuildTeam(r)
    BY <2>1 DEF BuildTeam
  <2>2. CASE BuildFails(r)
    BY <2>2 DEF BuildFails, Evict, Ended
  <2>3. CASE ResetCancelToken(r)
    BY <2>3 DEF ResetCancelToken
  <2>4. CASE SetupFails(r) \/ StartStream(r)
    BY <2>4 DEF SetupFails, StartStream
  <2>5. CASE FinishTurn(r)
    BY <2>5 DEF FinishTurn, Checkpoint
  <2>6. CASE Interrupt(r) \/ AgentError(r)
    BY <2>6 DEF Interrupt, AgentError
  <2>7. CASE PauseAtGate(r)
    BY <2>7 DEF PauseAtGate, CountRound
  <2>8. CASE Complete(r)
    BY <2>8 DEF Complete, Evict
  <2>9. CASE WriteStopped(r) \/ WriteFailed(r)
    BY <2>9 DEF WriteStopped, WriteFailed, Evict, Checkpoint
  <2> QED BY <1>2, <2>1, <2>2, <2>3, <2>4, <2>5, <2>6, <2>7, <2>8, <2>9 DEF Stream
<1>3. ASSUME NEW r \in Run, Close(r) PROVE TypeOK'
  <2>1. CASE ReadStuck(r) \/ Unstick(r)
    BY <2>1 DEF ReadStuck, Unstick, Evict, PC, Closing
  <2>2. CASE Release(r)
    BY <2>2 DEF Release, ReleaseLease, PC
  <2>3. CASE ClearCancelAfter(r)
    BY <2>3 DEF ClearCancelAfter, PC, Ended
  <2> QED BY <1>3, <2>1, <2>2, <2>3 DEF Close
<1>4. ASSUME NEW r \in Run, NEW w \in Worker, Admit(r, w) PROVE TypeOK'
  BY <1>4 DEF Admit, PC
<1>5. ASSUME NEW r \in Run, PollCancel(r) \/ HeartbeatLost(r) PROVE TypeOK'
  BY <1>5 DEF PollCancel, HeartbeatLost
<1>6. ASSUME NEW r \in Run, Disconnect(r) PROVE TypeOK'
  <2>1. AfterDisconnect(r) \subseteq PC
    BY DEF AfterDisconnect, PC, Preparing, Starting, Streaming, Closing, Ended
  <2>2. status' \in Status /\ round' \in Nat
    BY <1>6 DEF Disconnect, WriteUnderWay, CountRound
  <2> QED BY <1>6, <2>1, <2>2 DEF Disconnect, Checkpoint
<1>7. ASSUME NEW t \in Tab, NEW c \in HostCalls, HostCall(t, c) PROVE TypeOK'
  BY <1>7 DEF HostCall
<1>8. ASSUME NEW t \in Tab, NEW w \in Worker, RespondStop(t, w) PROVE TypeOK'
  BY <1>8 DEF RespondStop, Evict
<1>9. ASSUME NEW t \in Tab, WriteIdle(t) PROVE TypeOK'
  BY <1>9 DEF WriteIdle
<1>10. ASSUME NEW w \in Worker, SignalCancel(w) \/ CancelTeam(w) PROVE TypeOK'
  BY <1>10 DEF SignalCancel, CancelTeam
<1>11. ASSUME NEW w \in Worker, Crash(w) PROVE TypeOK'
  BY <1>11 DEF Crash, PC, Ended
<1>12. ASSUME NEW w \in Worker, Boot(w) PROVE TypeOK'
  BY <1>12 DEF Boot
<1>13. CASE DeleteSession \/ LeaseExpires \/ CancelExpires
  BY <1>13 DEF DeleteSession, LeaseExpires, CancelExpires
<1>14. CASE UNCHANGED vars
  BY <1>14 DEF vars
<1> QED
  BY <1>1, <1>2, <1>3, <1>4, <1>5, <1>6, <1>7, <1>8, <1>9, <1>10, <1>11,
     <1>12, <1>13, <1>14 DEF Next, Step

\* The variables keep their types, whatever the faults and the timing.
THEOREM TypeCorrect == Spec => []TypeOK
BY TypeInit, TypeStep, PTL DEF Spec

-----------------------------------------------------------------------------
(***************************************************************************)
(* Mutual exclusion is not inductive: a run takes the lease when the key is*)
(* absent, and that says nothing of the other runs unless every run that   *)
(* holds still finds the key naming its worker.  Held says so; it needs    *)
(* Punctual, since a lease that expires under its holder breaks it.        *)
(***************************************************************************)
Placed == \A r \in Run : pc[r] # "new" => on[r] \in Worker
Held   == \A r \in Run : pc[r] \in Holding => lease = on[r]

LeaseInv == TypeOK /\ Placed /\ Held /\ MutualExclusion

\* One run moves within the holders, or out of them, and the lease and the
\* placement of runs stay: the lease invariant stays.
LEMMA MoveKeepsLease ==
  ASSUME LeaseInv, NEW r \in Run, NEW to \in PC,
         pc[r] # "new", to # "new",
         to \in Holding => pc[r] \in Holding,
         pc' = [pc EXCEPT ![r] = to], UNCHANGED <<lease, on>>
  PROVE  (Placed /\ Held /\ MutualExclusion)'
BY DEF LeaseInv, TypeOK, Placed, Held, MutualExclusion, Holders

\* A run gives the lease back while it leaves the holders: nobody else held.
LEMMA ReleaseKeepsLease ==
  ASSUME LeaseInv, NEW r \in Run, NEW to \in PC \ (Holding \cup {"new"}),
         pc[r] \in Holding, pc' = [pc EXCEPT ![r] = to],
         ReleaseLease(r), UNCHANGED on
  PROVE  (Placed /\ Held /\ MutualExclusion)'
<1>1. \A s \in Run : pc'[s] \in Holding => FALSE
  BY DEF LeaseInv, TypeOK, MutualExclusion, Holders
<1>2. pc[r] # "new"
  BY DEF Holding, Preparing, Starting, Streaming, Closing
<1> QED BY <1>1, <1>2 DEF LeaseInv, TypeOK, Placed, Held, MutualExclusion, Holders

\* The steps that leave where the runs are, and the lease, alone.
LEMMA StillKeepsLease ==
  ASSUME LeaseInv, UNCHANGED <<pc, lease, on>>
  PROVE  (Placed /\ Held /\ MutualExclusion)'
BY DEF LeaseInv, Placed, Held, MutualExclusion, Holders

LEMMA LeaseInit == Init => LeaseInv
<1> SUFFICES ASSUME Init PROVE LeaseInv
  OBVIOUS
<1>1. \A r \in Run : pc[r] \notin Holding /\ pc[r] = "new"
  BY DEF Init, Holding, Preparing, Starting, Streaming, Closing
<1> QED BY <1>1, TypeInit DEF LeaseInv, Placed, Held, MutualExclusion, Holders

LEMMA LeaseStep == ASSUME Punctual, LeaseInv, [Next]_vars PROVE LeaseInv'
<1>0. TypeOK'
  BY TypeStep DEF LeaseInv
<1> SUFFICES (Placed /\ Held /\ MutualExclusion)'
  BY <1>0 DEF LeaseInv
<1> USE DEF Goto
<1>1. ASSUME NEW r \in Run, Prepare(r) PROVE (Placed /\ Held /\ MutualExclusion)'
  <2> USE DEF PC, Holding, Preparing, Starting, Streaming, Closing, Ended
  <2>1. CASE Park(r)
    BY <2>1, MoveKeepsLease DEF Park
  <2>2. CASE AcquireLease(r)
    <3>1. \A s \in Run : pc[s] \notin Holding
      BY <2>2, NoneAssumption DEF AcquireLease, LeaseInv, Held, Placed, Streaming, Closing
    <3> QED BY <2>2, <3>1 DEF AcquireLease, LeaseInv, TypeOK, Placed, Held, MutualExclusion, Holders
  <2>3. CASE RefuseLease(r)
    BY <2>3, MoveKeepsLease DEF RefuseLease
  <2>4. CASE ClearCancelBefore(r)
    BY <2>4, MoveKeepsLease DEF ClearCancelBefore
  <2>5. CASE TakeRunning(r)
    BY <2>5, MoveKeepsLease DEF TakeRunning
  <2>6. CASE AbortRelease(r)
    BY <2>6, ReleaseKeepsLease, MoveKeepsLease DEF AbortRelease, Streaming, Closing
  <2> QED BY <1>1, <2>1, <2>2, <2>3, <2>4, <2>5, <2>6 DEF Prepare
<1>2. ASSUME NEW r \in Run, Stream(r) PROVE (Placed /\ Held /\ MutualExclusion)'
  <2> USE DEF PC, Holding, Starting, Streaming, Closing, Ended
  <2>1. CASE BuildTeam(r) \/ BuildFails(r) \/ ResetCancelToken(r)
    BY <2>1, MoveKeepsLease DEF BuildTeam, BuildFails, ResetCancelToken
  <2>2. CASE SetupFails(r) \/ StartStream(r) \/ FinishTurn(r)
    BY <2>2, MoveKeepsLease DEF SetupFails, StartStream, FinishTurn
  <2>3. CASE Interrupt(r) \/ AgentError(r) \/ PauseAtGate(r)
    BY <2>3, MoveKeepsLease DEF Interrupt, AgentError, PauseAtGate
  <2>4. CASE Complete(r) \/ WriteStopped(r) \/ WriteFailed(r)
    BY <2>4, MoveKeepsLease DEF Complete, WriteStopped, WriteFailed
  <2> QED BY <1>2, <2>1, <2>2, <2>3, <2>4 DEF Stream
<1>3. ASSUME NEW r \in Run, Close(r) PROVE (Placed /\ Held /\ MutualExclusion)'
  <2> USE DEF PC, Holding, Closing, Ended, Preparing, Starting, Streaming
  <2>1. CASE ReadStuck(r) \/ Unstick(r) \/ ClearCancelAfter(r)
    BY <2>1, MoveKeepsLease DEF ReadStuck, Unstick, ClearCancelAfter
  <2>2. CASE Release(r) /\ ReleaseLease(r)
    BY <2>2, ReleaseKeepsLease DEF Release
  <2>3. CASE Release(r) /\ UNCHANGED lease
    BY <2>3, MoveKeepsLease DEF Release
  <2> QED BY <1>3, <2>1, <2>2, <2>3 DEF Close, Release
<1>4. ASSUME NEW r \in Run, NEW w \in Worker, Admit(r, w)
      PROVE  (Placed /\ Held /\ MutualExclusion)'
  <2>1. "admitted" \notin Holding /\ "new" \notin Holding
    BY DEF Holding, Preparing, Starting, Streaming, Closing
  <2> QED BY <1>4, <2>1 DEF Admit, LeaseInv, TypeOK, Placed, Held, MutualExclusion, Holders
<1>5. ASSUME NEW r \in Run, Disconnect(r) PROVE (Placed /\ Held /\ MutualExclusion)'
  <2>1. PICK to \in AfterDisconnect(r) : pc' = [pc EXCEPT ![r] = to]
    BY <1>5 DEF Disconnect
  <2>2. to \in PC /\ to # "new" /\ pc[r] # "new" /\ (to \in Holding => pc[r] \in Holding)
    BY <2>1 DEF AfterDisconnect, PC, Holding, Preparing, Starting, Streaming, Closing, Ended
  <2> QED BY <1>5, <2>1, <2>2, MoveKeepsLease DEF Disconnect
<1>6. ASSUME NEW w \in Worker, Crash(w) PROVE (Placed /\ Held /\ MutualExclusion)'
  <2>1. \A r \in Run : pc'[r] \in Holding => pc[r] \in Holding
    BY <1>6 DEF Crash, Holding, Preparing, Starting, Streaming, Closing
  <2>2. \A r \in Run : pc'[r] # "new" => pc[r] # "new" \/ on[r] = w
    BY <1>6 DEF Crash
  <2> QED BY <1>6, <2>1, <2>2 DEF Crash, LeaseInv, Placed, Held, MutualExclusion, Holders
<1>7. CASE LeaseExpires
  BY <1>7 DEF LeaseExpires, LeaseInv, Placed, Held, MutualExclusion, Holders
<1>8. ASSUME NEW r \in Run, PollCancel(r) \/ HeartbeatLost(r)
      PROVE  (Placed /\ Held /\ MutualExclusion)'
  BY <1>8, StillKeepsLease DEF PollCancel, HeartbeatLost
<1>9. ASSUME NEW t \in Tab, NEW c \in HostCalls, HostCall(t, c)
      PROVE  (Placed /\ Held /\ MutualExclusion)'
  BY <1>9, StillKeepsLease DEF HostCall
<1>10. ASSUME NEW t \in Tab, WriteIdle(t) \/ \E w \in Worker : RespondStop(t, w)
       PROVE  (Placed /\ Held /\ MutualExclusion)'
  BY <1>10, StillKeepsLease DEF RespondStop, WriteIdle
<1>11. ASSUME NEW w \in Worker, SignalCancel(w) \/ CancelTeam(w) \/ Boot(w)
       PROVE  (Placed /\ Held /\ MutualExclusion)'
  BY <1>11, StillKeepsLease DEF SignalCancel, CancelTeam, Boot
<1>12. CASE DeleteSession \/ CancelExpires \/ UNCHANGED vars
  BY <1>12, StillKeepsLease DEF DeleteSession, CancelExpires, vars
<1> QED
  BY <1>1, <1>2, <1>3, <1>4, <1>5, <1>6, <1>7, <1>8, <1>9, <1>10, <1>11, <1>12
     DEF Next, Step

(***************************************************************************)
(* The lease admits one run at a time, for any number of workers, requests *)
(* and tabs, and whichever faults occur.                                   *)
(***************************************************************************)
THEOREM OneRunAtATime == ASSUME Punctual PROVE Spec => []MutualExclusion
<1>1. LeaseInv /\ [Next]_vars => LeaseInv'
  BY LeaseStep
<1>2. LeaseInv => MutualExclusion
  BY DEF LeaseInv
<1> QED BY LeaseInit, <1>1, <1>2, PTL DEF Spec

-----------------------------------------------------------------------------
(***************************************************************************)
(* The refinement: the holders of the lease are the occupant of RunSlot.   *)
(***************************************************************************)
SlotNext == [Slot!Next]_<<Holders, round>>

\* A step that moves a run within the holders, or outside, is a stutter.
LEMMA MoveStutters ==
  ASSUME TypeOK, NEW r \in Run, NEW to \in PC,
         to \in Holding <=> pc[r] \in Holding,
         pc' = [pc EXCEPT ![r] = to], UNCHANGED round
  PROVE  SlotNext
BY DEF SlotNext, Holders, TypeOK

\* A run that leaves the holders ends its occupation of the slot.
LEMMA LeaveEnds ==
  ASSUME LeaseInv, NEW r \in Run, NEW to \in PC \ Holding, pc[r] \in Holding,
         pc' = [pc EXCEPT ![r] = to], UNCHANGED round
  PROVE  SlotNext
<1>1. Holders = {r} /\ Holders' = {}
  BY DEF LeaseInv, TypeOK, MutualExclusion, Holders
<1> QED BY <1>1 DEF SlotNext, Slot!Next, Slot!End

\* The pause of the run that holds the slot, whatever the run does next.
LEMMA CountPauses ==
  ASSUME LeaseInv, NEW r \in Run, NEW to \in PC \cap Holding, pc[r] \in Holding,
         pc' = [pc EXCEPT ![r] = to], CountRound
  PROVE  SlotNext
<1>1. Holders = {r} /\ Holders' = {r}
  BY DEF LeaseInv, TypeOK, MutualExclusion, Holders
<1> QED BY <1>1 DEF CountRound, SlotNext, Slot!Next, Slot!Pause

LEMMA SlotInit == Init => Slot!Init
BY DEF Init, Slot!Init, Holders, Holding, Preparing, Starting, Streaming, Closing

LEMMA SlotStep == ASSUME LeaseInv, [Next]_vars PROVE SlotNext
<1>0. TypeOK
  BY DEF LeaseInv
<1> USE DEF Goto
<1>1. ASSUME NEW r \in Run, Prepare(r) PROVE SlotNext
  <2> USE DEF PC, Holding, Preparing, Starting, Streaming, Closing, Ended
  <2>1. CASE AcquireLease(r)
    <3>1. Holders = {}
      BY <2>1, NoneAssumption DEF AcquireLease, LeaseInv, Held, Placed, Holders
    <3>2. Holders' = {r}
      BY <2>1, <3>1, <1>0 DEF AcquireLease, TypeOK, Holders
    <3> QED BY <2>1, <3>1, <3>2 DEF AcquireLease, mongo, SlotNext, Slot!Next, Slot!Start
  <2>2. CASE AbortRelease(r)
    BY <2>2, LeaveEnds DEF AbortRelease
  <2>3. CASE Park(r) \/ RefuseLease(r)
    BY <2>3, <1>0, MoveStutters DEF Park, RefuseLease
  <2>4. CASE ClearCancelBefore(r) \/ TakeRunning(r)
    BY <2>4, <1>0, MoveStutters DEF ClearCancelBefore, TakeRunning
  <2> QED BY <1>1, <2>1, <2>2, <2>3, <2>4 DEF Prepare
<1>2. ASSUME NEW r \in Run, Stream(r) PROVE SlotNext
  <2> USE DEF PC, Holding, Starting, Streaming, Closing, Ended
  <2>1. CASE BuildFails(r)
    BY <2>1, LeaveEnds DEF BuildFails, Preparing
  <2>2. CASE PauseAtGate(r)
    BY <2>2, CountPauses DEF PauseAtGate
  <2>4. CASE BuildTeam(r) \/ ResetCancelToken(r) \/ SetupFails(r) \/ StartStream(r)
    BY <2>4, <1>0, MoveStutters DEF BuildTeam, ResetCancelToken, SetupFails, StartStream
  <2>5. CASE FinishTurn(r) \/ Interrupt(r) \/ AgentError(r)
    BY <2>5, <1>0, MoveStutters DEF FinishTurn, Interrupt, AgentError
  <2>6. CASE Complete(r) \/ WriteStopped(r) \/ WriteFailed(r)
    BY <2>6, <1>0, MoveStutters DEF Complete, WriteStopped, WriteFailed
  <2> QED BY <1>2, <2>1, <2>2, <2>4, <2>5, <2>6 DEF Stream
<1>3. ASSUME NEW r \in Run, Close(r) PROVE SlotNext
  <2> USE DEF PC, Holding, Preparing, Starting, Streaming, Closing, Ended
  <2>1. CASE Release(r)
    BY <2>1, LeaveEnds DEF Release
  <2>2. CASE ReadStuck(r) \/ Unstick(r) \/ ClearCancelAfter(r)
    BY <2>2, <1>0, MoveStutters DEF ReadStuck, Unstick, ClearCancelAfter
  <2> QED BY <1>3, <2>1, <2>2 DEF Close
<1>4. ASSUME NEW r \in Run, NEW w \in Worker, Admit(r, w) PROVE SlotNext
  BY <1>4, <1>0, MoveStutters
     DEF Admit, PC, Holding, Preparing, Starting, Streaming, Closing
<1>5. ASSUME NEW r \in Run, Disconnect(r) PROVE SlotNext
  <2>1. PICK to \in AfterDisconnect(r) : pc' = [pc EXCEPT ![r] = to]
    BY <1>5 DEF Disconnect
  <2>2. to \in PC /\ (to \in Holding => pc[r] \in Holding)
    BY <2>1 DEF AfterDisconnect, PC, Holding, Preparing, Starting, Streaming, Closing, Ended
  <2>3. CASE pc[r] = "gating" /\ CountRound
    <3>1. to \in Holding /\ pc[r] \in Holding
      BY <2>1, <2>3 DEF AfterDisconnect, Holding, Preparing, Starting, Streaming, Closing
    <3> QED BY <2>1, <2>2, <3>1, <2>3, CountPauses
  <2>4. CASE UNCHANGED round
    BY <1>0, <2>1, <2>2, <2>4, MoveStutters, LeaveEnds
  <2> QED BY <1>5, <2>3, <2>4 DEF Disconnect, WriteUnderWay
<1>6. ASSUME NEW w \in Worker, Crash(w) PROVE SlotNext
  <2>1. CASE \E r \in Run : pc[r] \in Holding /\ on[r] = w
    <3>1. PICK r \in Run : pc[r] \in Holding /\ on[r] = w
      BY <2>1
    <3>2. Holders = {r}
      BY <3>1 DEF LeaseInv, MutualExclusion, Holders
    <3>3. Holders' = {}
      BY <1>6, <3>1, <3>2 DEF Crash, Holders, Holding, Preparing, Starting, Streaming, Closing, Ended
    <3> QED BY <1>6, <3>2, <3>3 DEF Crash, SlotNext, Slot!Next, Slot!End
  <2>2. CASE ~ \E r \in Run : pc[r] \in Holding /\ on[r] = w
    <3>1. Holders' = Holders
      BY <1>6, <2>2 DEF Crash, Holders, Holding, Preparing, Starting, Streaming, Closing
    <3> QED BY <1>6, <3>1 DEF Crash, SlotNext
  <2> QED BY <2>1, <2>2
<1>7. ASSUME UNCHANGED <<pc, round>> PROVE SlotNext
  BY <1>7 DEF SlotNext, Holders
<1>8. ASSUME NEW r \in Run, PollCancel(r) \/ HeartbeatLost(r) PROVE SlotNext
  BY <1>8, <1>7 DEF PollCancel, HeartbeatLost
<1>9. ASSUME NEW t \in Tab, NEW c \in HostCalls, HostCall(t, c) PROVE SlotNext
  BY <1>9, <1>7 DEF HostCall
<1>10. ASSUME NEW t \in Tab, WriteIdle(t) \/ \E w \in Worker : RespondStop(t, w)
       PROVE  SlotNext
  BY <1>10, <1>7 DEF RespondStop, WriteIdle
<1>11. ASSUME NEW w \in Worker, SignalCancel(w) \/ CancelTeam(w) \/ Boot(w)
       PROVE  SlotNext
  BY <1>11, <1>7 DEF SignalCancel, CancelTeam, Boot
<1>12. CASE DeleteSession \/ LeaseExpires \/ CancelExpires \/ UNCHANGED vars
  BY <1>12, <1>7 DEF DeleteSession, LeaseExpires, CancelExpires, vars
<1> QED
  BY <1>1, <1>2, <1>3, <1>4, <1>5, <1>6, <1>8, <1>9, <1>10, <1>11, <1>12
     DEF Next, Step

(***************************************************************************)
(* The handlers implement RunSlot: one occupant at a time, and a round that*)
(* only the occupant advances, by one.                                     *)
(***************************************************************************)
THEOREM SlotRefinement == ASSUME Punctual PROVE Spec => ImplementsSlot
<1>1. LeaseInv /\ [Next]_vars => LeaseInv'
  BY LeaseStep
<1>2. LeaseInv /\ [Next]_vars => [Slot!Next]_<<Holders, round>>
  BY SlotStep DEF SlotNext
<1> QED BY LeaseInit, SlotInit, <1>1, <1>2, PTL DEF Spec, ImplementsSlot, Slot!Spec

-----------------------------------------------------------------------------
(***************************************************************************)
(* The round bound: FinishTurn compares the round in one step and          *)
(* PauseAtGate increments it in a later one.  What holds in between is     *)
(* BelowLimit, and it survives because no other run is at the gate.        *)
(***************************************************************************)
BelowLimit ==
  \A r \in Run : pc[r] = "gating" => SingleChat \/ status = "deleted" \/ round < MaxIter

RoundInv == LeaseInv /\ RoundsBounded /\ BelowLimit

\* The client leaves while the pause is written.
CountedAndLeft(r) == pc[r] = "gating" /\ Disconnect(r) /\ CountRound

\* Every step but these three leaves the round, and brings no run to the gate.
LEMMA OnlyGateCounts ==
  ASSUME TypeOK, [Next]_vars,
         \A r \in Run : ~ FinishTurn(r) /\ ~ PauseAtGate(r) /\ ~ CountedAndLeft(r)
  PROVE  /\ round' = round
         /\ \A r \in Run : pc'[r] = "gating" => pc[r] = "gating"
         /\ status = "deleted" => status' = "deleted"
<1> DEFINE Goal == /\ round' = round
                   /\ \A r \in Run : pc'[r] = "gating" => pc[r] = "gating"
                   /\ status = "deleted" => status' = "deleted"
<1> SUFFICES Goal
  OBVIOUS
<1> USE DEF Goto, SetStatus, TypeOK
<1>1. ASSUME NEW r \in Run, Prepare(r) PROVE Goal
  BY <1>1 DEF Prepare, Park, AcquireLease, RefuseLease, ClearCancelBefore, TakeRunning,
              AbortRelease, Runnable
<1>2. ASSUME NEW r \in Run, BuildTeam(r) \/ BuildFails(r) \/ ResetCancelToken(r)
                             \/ SetupFails(r) \/ StartStream(r) PROVE Goal
  BY <1>2 DEF BuildTeam, BuildFails, ResetCancelToken, SetupFails, StartStream
<1>3. ASSUME NEW r \in Run, Interrupt(r) \/ AgentError(r) \/ Complete(r)
                             \/ WriteStopped(r) \/ WriteFailed(r) PROVE Goal
  BY <1>3 DEF Interrupt, AgentError, Complete, WriteStopped, WriteFailed
<1>4. ASSUME NEW r \in Run, Close(r) PROVE Goal
  BY <1>4 DEF Close, ReadStuck, Unstick, Release, ClearCancelAfter
<1>5. ASSUME NEW r \in Run, NEW w \in Worker, Admit(r, w) PROVE Goal
  BY <1>5 DEF Admit
<1>6. ASSUME NEW r \in Run, Disconnect(r) PROVE Goal
  <2>1. "gating" \notin AfterDisconnect(r)
    BY DEF AfterDisconnect
  <2>2. round' = round
    BY <1>6 DEF Disconnect, WriteUnderWay, CountedAndLeft
  <2>3. status = "deleted" => status' = "deleted"
    BY <1>6 DEF Disconnect, WriteUnderWay
  <2> QED BY <1>6, <2>1, <2>2, <2>3 DEF Disconnect
<1>7. ASSUME NEW r \in Run, PollCancel(r) \/ HeartbeatLost(r) PROVE Goal
  BY <1>7 DEF PollCancel, HeartbeatLost
<1>8. ASSUME NEW t \in Tab, NEW c \in HostCalls, HostCall(t, c) PROVE Goal
  BY <1>8 DEF HostCall
<1>9. ASSUME NEW t \in Tab, WriteIdle(t) \/ \E w \in Worker : RespondStop(t, w) PROVE Goal
  BY <1>9 DEF WriteIdle, RespondStop
<1>10. ASSUME NEW w \in Worker, SignalCancel(w) \/ CancelTeam(w) \/ Crash(w) \/ Boot(w)
       PROVE  Goal
  BY <1>10 DEF SignalCancel, CancelTeam, Crash, Boot
<1>11. CASE DeleteSession \/ LeaseExpires \/ CancelExpires \/ UNCHANGED vars
  BY <1>11 DEF DeleteSession, LeaseExpires, CancelExpires, vars
<1> HIDE DEF Goal
<1> QED
  BY <1>1, <1>2, <1>3, <1>4, <1>5, <1>6, <1>7, <1>8, <1>9, <1>10, <1>11
     DEF Next, Step, Stream

LEMMA RoundStep == ASSUME Punctual, RoundInv, [Next]_vars PROVE RoundInv'
<1>0. LeaseInv' /\ TypeOK /\ TypeOK' /\ MaxIter \in Nat
  BY LeaseStep, ConfigAssumption DEF RoundInv, LeaseInv
<1> SUFFICES (RoundsBounded /\ BelowLimit)'
  BY <1>0 DEF RoundInv
<1>1. ASSUME NEW r \in Run, FinishTurn(r) PROVE (RoundsBounded /\ BelowLimit)'
  BY <1>0, <1>1 DEF FinishTurn, Goto, RoundInv, RoundsBounded, BelowLimit, TypeOK
<1>2. ASSUME NEW r \in Run, PauseAtGate(r) \/ CountedAndLeft(r)
      PROVE  (RoundsBounded /\ BelowLimit)'
  <2>0. /\ pc[r] = "gating" /\ CountRound
        /\ \E to \in PC \ {"gating"} : pc' = [pc EXCEPT ![r] = to]
        /\ status = "deleted" => status' = "deleted"
    BY <1>2 DEF PauseAtGate, CountedAndLeft, Disconnect, AfterDisconnect, WriteUnderWay,
                Goto, SetStatus, PC, Streaming, Closing
  <2>1. \A s \in Run : pc'[s] # "gating"
    BY <1>0, <2>0 DEF RoundInv, LeaseInv, TypeOK, MutualExclusion,
                      Holders, Holding, Streaming
  <2> QED BY <1>0, <2>0, <2>1
          DEF CountRound, RoundInv, RoundsBounded, BelowLimit, TypeOK
<1>3. CASE \A r \in Run : ~ FinishTurn(r) /\ ~ PauseAtGate(r) /\ ~ CountedAndLeft(r)
  BY <1>0, <1>3, OnlyGateCounts DEF RoundInv, RoundsBounded, BelowLimit
<1> QED BY <1>1, <1>2, <1>3

(***************************************************************************)
(* A team session pauses at its gate at most max_iterations times.         *)
(***************************************************************************)
THEOREM RoundLimit == ASSUME Punctual PROVE Spec => []RoundsBounded
<1>1. Init => RoundInv
  BY LeaseInit, ConfigAssumption DEF Init, RoundInv, RoundsBounded, BelowLimit
<1>2. RoundInv /\ [Next]_vars => RoundInv'
  BY RoundStep
<1>3. RoundInv => RoundsBounded
  BY DEF RoundInv
<1> QED BY <1>1, <1>2, <1>3, PTL DEF Spec

-----------------------------------------------------------------------------
(***************************************************************************)
(* Who owns the status "running".  The assumption excludes the errors and  *)
(* disconnects that reach the outer finally block only: they release the   *)
(* lease and leave the session "running".                                  *)
(***************************************************************************)
Owners == Owning \cup {"guard", "unstick", "leaked", "dead"}

\* Only TakeRunning writes "running"; an owner stops to own only when the
\* status is, or becomes, another one.
LEMMA OwnersStay ==
  ASSUME "setup" \notin Faults, "disconnect" \notin Faults, TypeOK, [Next]_vars,
         status' = "running", \A r \in Run : ~ TakeRunning(r)
  PROVE  status = "running" /\ \A r \in Run : pc[r] \in Owners => pc'[r] \in Owners
<1> DEFINE Goal == /\ status = "running"
                   /\ \A r \in Run : pc[r] \in Owners => pc'[r] \in Owners
<1> SUFFICES Goal
  OBVIOUS
<1> USE DEF Goto, SetStatus, TypeOK, Owners, Owning, Starting, Streaming
<1>1. ASSUME NEW r \in Run, Prepare(r), ~ TakeRunning(r) PROVE Goal
  BY <1>1, ConfigAssumption
     DEF Prepare, Park, AcquireLease, RefuseLease, ClearCancelBefore, AbortRelease, Preparing
<1>2. ASSUME NEW r \in Run, BuildTeam(r) \/ BuildFails(r) \/ ResetCancelToken(r)
                             \/ SetupFails(r) \/ StartStream(r) PROVE Goal
  BY <1>2 DEF BuildTeam, BuildFails, ResetCancelToken, SetupFails, StartStream
<1>3. ASSUME NEW r \in Run, FinishTurn(r) \/ Interrupt(r) \/ AgentError(r) PROVE Goal
  BY <1>3 DEF FinishTurn, Interrupt, AgentError
<1>4. ASSUME NEW r \in Run, PauseAtGate(r) \/ Complete(r) \/ WriteStopped(r)
                             \/ WriteFailed(r) PROVE Goal
  BY <1>4 DEF PauseAtGate, Complete, WriteStopped, WriteFailed
<1>5. ASSUME NEW r \in Run, Close(r) PROVE Goal
  BY <1>5 DEF Close, ReadStuck, Unstick, Release, ClearCancelAfter
<1>6. ASSUME NEW r \in Run, NEW w \in Worker, Admit(r, w) PROVE Goal
  BY <1>6 DEF Admit
<1>7. ASSUME NEW r \in Run, PollCancel(r) \/ HeartbeatLost(r) \/ Disconnect(r) PROVE Goal
  BY <1>7 DEF PollCancel, HeartbeatLost, Disconnect
<1>8. ASSUME NEW t \in Tab, NEW c \in HostCalls, HostCall(t, c) PROVE Goal
  BY <1>8 DEF HostCall
<1>9. ASSUME NEW t \in Tab, WriteIdle(t) \/ \E w \in Worker : RespondStop(t, w) PROVE Goal
  BY <1>9 DEF WriteIdle, RespondStop
<1>10. ASSUME NEW w \in Worker, SignalCancel(w) \/ CancelTeam(w) \/ Crash(w) \/ Boot(w)
       PROVE  Goal
  BY <1>10 DEF SignalCancel, CancelTeam, Crash, Boot
<1>11. CASE DeleteSession \/ LeaseExpires \/ CancelExpires \/ UNCHANGED vars
  BY <1>11 DEF DeleteSession, LeaseExpires, CancelExpires, vars
<1> HIDE DEF Goal
<1>12. ASSUME NEW r \in Run, Step(r) PROVE Goal
  BY <1>12, <1>1, <1>2, <1>3, <1>4, <1>5 DEF Step, Stream
<1> QED
  BY <1>6, <1>7, <1>8, <1>9, <1>10, <1>11, <1>12 DEF Next

(***************************************************************************)
(* Without those faults, a "running" session has a run that owns it.       *)
(***************************************************************************)
THEOREM RunningOwned ==
  ASSUME "setup" \notin Faults, "disconnect" \notin Faults
  PROVE  Spec => []RunningIsOwned
<1>1. Init => TypeOK /\ RunningIsOwned
  BY TypeInit DEF Init, RunningIsOwned
<1>2. TypeOK /\ RunningIsOwned /\ [Next]_vars => (TypeOK /\ RunningIsOwned)'
  <2> SUFFICES ASSUME TypeOK, RunningIsOwned, [Next]_vars, status' = "running"
               PROVE  \E r \in Run : pc'[r] \in Owners
    BY TypeStep DEF RunningIsOwned, Owners
  <2>1. ASSUME NEW r \in Run, TakeRunning(r) PROVE \E q \in Run : pc'[q] \in Owners
    <3>1. pc'[r] = "running" \/ status' = status
      BY <2>1 DEF TakeRunning, Goto, TypeOK
    <3>2. CASE pc'[r] = "running"
      BY <3>2 DEF Owners, Owning, Starting
    <3>3. CASE status' = status
      <4>1. PICK q \in Run : pc[q] \in Owners
        BY <3>3 DEF RunningIsOwned, Owners
      <4>2. q # r
        BY <2>1, <4>1 DEF TakeRunning, Goto, Owners, Owning, Starting, Streaming
      <4> QED BY <2>1, <4>1, <4>2 DEF TakeRunning, Goto, TypeOK
    <3> QED BY <3>1, <3>2, <3>3
  <2>2. CASE \A r \in Run : ~ TakeRunning(r)
    BY <2>2, OwnersStay DEF RunningIsOwned, Owners
  <2> QED BY <2>1, <2>2
<1> QED BY <1>1, <1>2, PTL DEF Spec

-----------------------------------------------------------------------------
(***************************************************************************)
(* Completed and stopped sessions.  RevivedByRestart speaks of one step;   *)
(* what it needs of the states before is that a run which may still write  *)
(* the status never does so over a final one (Unsettled).  The status is   *)
(* taken once, under the lease, so the lease invariant carries it.  The    *)
(* assumptions name what the code does let overwrite a final status: a     *)
(* lease lost to a late heartbeat, a pre-run gate that parks the session,  *)
(* a /respond/ whose status check was passed by another call, and a client *)
(* that leaves while "completed" is written, which then becomes "stopped". *)
(***************************************************************************)
Final == {"completed", "stopped"}
Unsettled == \A r \in Run : pc[r] \in Owning \cup {"unstick"} => status \notin Final
CallsMade == \A t \in Tab : calls[t] # "none" => calls[t] \in HostCalls

FinalInv == LeaseInv /\ Unsettled /\ CallsMade

Undisturbed ==
  /\ Punctual /\ "disconnect" \notin Faults
  /\ ParkStates = {} /\ {"stop", "continue"} \cap HostCalls = {}

\* A run moves on among its owning states, or leaves them, and the status is kept.
LEMMA MoveKeepsFinal ==
  ASSUME FinalInv, NEW r \in Run, NEW to \in PC,
         to \in Owning \cup {"unstick"} => pc[r] \in Owning \cup {"unstick"},
         pc' = [pc EXCEPT ![r] = to], UNCHANGED status
  PROVE  Unsettled' /\ RevivedByRestart
BY DEF FinalInv, LeaseInv, TypeOK, Unsettled, RevivedByRestart

\* A run that owns the session leaves, and says how it ended: nobody else owns it.
LEMMA SettleKeepsFinal ==
  ASSUME FinalInv, NEW r \in Run, NEW to \in PC \ (Owning \cup {"unstick"}),
         pc[r] \in Owning \cup {"unstick"}, pc' = [pc EXCEPT ![r] = to]
  PROVE  Unsettled' /\ RevivedByRestart
<1>1. \A s \in Run : pc'[s] \notin Owning \cup {"unstick"}
  BY DEF FinalInv, LeaseInv, TypeOK, MutualExclusion, Holders, Holding, Owning, Closing
<1>2. status \notin Final
  BY DEF FinalInv, Unsettled
<1> QED BY <1>1, <1>2 DEF Unsettled, RevivedByRestart, Final

\* The steps that leave the runs where they are, and the status final if it was.
LEMMA StillKeepsFinal ==
  ASSUME FinalInv, UNCHANGED pc, status' \in Final => status \in Final,
         status \in Final => status' = status \/ status' = "deleted"
  PROVE  Unsettled' /\ RevivedByRestart
BY DEF FinalInv, Unsettled, RevivedByRestart, Final

LEMMA FinalStep ==
  ASSUME Undisturbed, FinalInv, [Next]_vars PROVE FinalInv' /\ RevivedByRestart
<1>0. LeaseInv' /\ TypeOK /\ TypeOK'
  BY LeaseStep DEF Undisturbed, FinalInv, LeaseInv
<1>00. CallsMade'
  <2>1. \/ UNCHANGED calls
        \/ \E t \in Tab, c \in HostCalls \cup {"none"} : calls' = [calls EXCEPT ![t] = c]
    BY DEF Next, Step, Prepare, Stream, Close, Park, AcquireLease, RefuseLease,
           ClearCancelBefore, TakeRunning, AbortRelease, BuildTeam, BuildFails,
           ResetCancelToken, SetupFails, StartStream, FinishTurn, Interrupt, AgentError,
           PauseAtGate, Complete, WriteStopped, WriteFailed, ReadStuck, Unstick, Release,
           ClearCancelAfter, Admit, PollCancel, HeartbeatLost, Disconnect, HostCall,
           RespondStop, WriteIdle, SignalCancel, CancelTeam, Crash, Boot, DeleteSession,
           LeaseExpires, CancelExpires, vars
  <2> QED BY <2>1, <1>0 DEF FinalInv, CallsMade, TypeOK
<1> SUFFICES Unsettled' /\ RevivedByRestart
  BY <1>0, <1>00 DEF FinalInv
<1> USE DEF Goto, SetStatus, Owning, Starting, Streaming
<1>1. ASSUME NEW r \in Run, Prepare(r) PROVE Unsettled' /\ RevivedByRestart
  <2> USE DEF PC, Preparing, Ended
  <2>1. CASE Park(r)
    BY <2>1 DEF Park, Undisturbed
  <2>2. CASE AcquireLease(r) \/ RefuseLease(r) \/ ClearCancelBefore(r) \/ AbortRelease(r)
    BY <2>2, MoveKeepsFinal DEF AcquireLease, RefuseLease, ClearCancelBefore, AbortRelease, mongo
  <2>3. CASE TakeRunning(r) /\ status \in Runnable
    BY <2>3 DEF TakeRunning, Unsettled, RevivedByRestart, Runnable, Final
  <2>4. CASE TakeRunning(r) /\ status \notin Runnable
    BY <2>4, MoveKeepsFinal DEF TakeRunning
  <2> QED BY <1>1, <2>1, <2>2, <2>3, <2>4 DEF Prepare
<1>2. ASSUME NEW r \in Run, Stream(r) PROVE Unsettled' /\ RevivedByRestart
  <2> USE DEF PC, Closing, Ended
  <2>1. CASE BuildTeam(r) \/ ResetCancelToken(r) \/ SetupFails(r) \/ StartStream(r)
    BY <2>1, MoveKeepsFinal DEF BuildTeam, ResetCancelToken, SetupFails, StartStream, mongo
  <2>2. CASE FinishTurn(r) \/ Interrupt(r) \/ AgentError(r)
    BY <2>2, MoveKeepsFinal DEF FinishTurn, Interrupt, AgentError, mongo
  <2>3. CASE BuildFails(r) \/ PauseAtGate(r) \/ Complete(r) \/ WriteStopped(r) \/ WriteFailed(r)
    BY <2>3, SettleKeepsFinal DEF BuildFails, PauseAtGate, Complete, WriteStopped, WriteFailed
  <2> QED BY <1>2, <2>1, <2>2, <2>3 DEF Stream
<1>3. ASSUME NEW r \in Run, Close(r) PROVE Unsettled' /\ RevivedByRestart
  <2> USE DEF PC, Closing, Ended
  <2>1. CASE ReadStuck(r)
    BY <2>1, <1>0 DEF ReadStuck, FinalInv, Unsettled, RevivedByRestart, Final, mongo, TypeOK
  <2>2. CASE Unstick(r)
    BY <2>2, SettleKeepsFinal DEF Unstick
  <2>3. CASE Release(r) \/ ClearCancelAfter(r)
    BY <2>3, MoveKeepsFinal DEF Release, ClearCancelAfter, mongo
  <2> QED BY <1>3, <2>1, <2>2, <2>3 DEF Close
<1>4. ASSUME NEW r \in Run, NEW w \in Worker, Admit(r, w)
      PROVE  Unsettled' /\ RevivedByRestart
  BY <1>4, MoveKeepsFinal DEF Admit, PC, mongo
<1>5. ASSUME NEW r \in Run, Disconnect(r) PROVE FALSE
  BY <1>5 DEF Disconnect, Undisturbed
<1>6. ASSUME NEW w \in Worker, Crash(w) PROVE Unsettled' /\ RevivedByRestart
  BY <1>6 DEF Crash, FinalInv, Unsettled, RevivedByRestart, mongo
<1>7. ASSUME NEW t \in Tab, WriteIdle(t) PROVE Unsettled' /\ RevivedByRestart
  <2>1. calls[t] = "restart" /\ calls'[t] = "none"
    BY <1>0, <1>7 DEF WriteIdle, FinalInv, CallsMade, Undisturbed, TypeOK
  <2> QED BY <1>7, <2>1 DEF WriteIdle, FinalInv, Unsettled, RevivedByRestart, Final
<1>8. ASSUME NEW t \in Tab, NEW w \in Worker, RespondStop(t, w)
      PROVE  Unsettled' /\ RevivedByRestart
  BY <1>8 DEF RespondStop, FinalInv, CallsMade, Undisturbed
<1>9. ASSUME NEW r \in Run, PollCancel(r) \/ HeartbeatLost(r)
      PROVE  Unsettled' /\ RevivedByRestart
  BY <1>9, StillKeepsFinal DEF PollCancel, HeartbeatLost, mongo
<1>10. ASSUME NEW t \in Tab, NEW c \in HostCalls, HostCall(t, c)
       PROVE  Unsettled' /\ RevivedByRestart
  BY <1>10, StillKeepsFinal DEF HostCall, mongo
<1>11. ASSUME NEW w \in Worker, SignalCancel(w) \/ CancelTeam(w) \/ Boot(w)
       PROVE  Unsettled' /\ RevivedByRestart
  BY <1>11, StillKeepsFinal DEF SignalCancel, CancelTeam, Boot, mongo, Final
<1>12. CASE DeleteSession \/ LeaseExpires \/ CancelExpires \/ UNCHANGED vars
  BY <1>12, StillKeepsFinal DEF DeleteSession, LeaseExpires, CancelExpires, vars, mongo, Final
<1> QED
  BY <1>1, <1>2, <1>3, <1>4, <1>5, <1>6, <1>7, <1>8, <1>9, <1>10, <1>11, <1>12
     DEF Next, Step

(***************************************************************************)
(* A completed or stopped session is revived by a restart only, whichever  *)
(* /run/ requests were admitted before, on any number of workers.          *)
(***************************************************************************)
THEOREM FinalUntilRestart == ASSUME Undisturbed PROVE Spec => OnlyRestartRevives
<1>1. Init => FinalInv
  BY LeaseInit DEF Init, FinalInv, Unsettled, CallsMade, Final
<1>2. FinalInv /\ [Next]_vars => FinalInv' /\ RevivedByRestart
  BY FinalStep
<1>3. FinalInv /\ [Next]_vars => [RevivedByRestart]_vars
  BY <1>2
<1> QED BY <1>1, <1>2, <1>3, PTL DEF Spec, OnlyRestartRevives

-----------------------------------------------------------------------------
(***************************************************************************)
(* Stops.  A run that a /stop/ was signalled to had passed its own clear of*)
(* the cancel key by then, and never comes back to it (OwedIsPast); the    *)
(* lease keeps every other run away from that clear.  What is left is the  *)
(* clear of a run that has already given the lease back.                   *)
(***************************************************************************)
Heeding    == Starting \cup {"streaming"}
OwedIsPast == \A r \in owed : pc[r] \notin {"new", "admitted"} \cup Preparing

StopInv == LeaseInv /\ OwedIsPast

\* The points of a run are left for good.
LEMMA OwedStaysPast == TypeOK /\ OwedIsPast /\ [Next]_vars => OwedIsPast'
<1> SUFFICES ASSUME TypeOK, OwedIsPast, [Next]_vars PROVE OwedIsPast'
  OBVIOUS
<1> USE DEF Goto, OwedIsPast, TypeOK, Preparing
<1>1. ASSUME NEW r \in Run, Prepare(r) PROVE OwedIsPast'
  BY <1>1 DEF Prepare, Park, AcquireLease, RefuseLease, ClearCancelBefore, TakeRunning,
              AbortRelease
<1>2. ASSUME NEW r \in Run, Stream(r) PROVE OwedIsPast'
  BY <1>2 DEF Stream, BuildTeam, BuildFails, ResetCancelToken, SetupFails, StartStream,
              FinishTurn, Interrupt, AgentError, PauseAtGate, Complete, WriteStopped,
              WriteFailed
<1>3. ASSUME NEW r \in Run, Close(r) PROVE OwedIsPast'
  BY <1>3 DEF Close, ReadStuck, Unstick, Release, ClearCancelAfter
<1>4. ASSUME NEW r \in Run, NEW w \in Worker, Admit(r, w) PROVE OwedIsPast'
  BY <1>4 DEF Admit
<1>5. ASSUME NEW r \in Run, Disconnect(r) PROVE OwedIsPast'
  <2>1. PICK to \in AfterDisconnect(r) : pc' = [pc EXCEPT ![r] = to]
    BY <1>5 DEF Disconnect
  <2>2. to \notin {"new", "admitted"} \cup Preparing
    BY <2>1 DEF AfterDisconnect
  <2> QED BY <1>5, <2>1, <2>2 DEF Disconnect
<1>6. ASSUME NEW w \in Worker, SignalCancel(w) PROVE OwedIsPast'
  BY <1>6 DEF SignalCancel, Starting
<1>7. ASSUME NEW w \in Worker, CancelTeam(w) \/ Crash(w) \/ Boot(w) PROVE OwedIsPast'
  BY <1>7 DEF CancelTeam, Crash, Boot
<1>8. ASSUME NEW r \in Run, PollCancel(r) \/ HeartbeatLost(r) PROVE OwedIsPast'
  BY <1>8 DEF PollCancel, HeartbeatLost
<1>9. ASSUME NEW t \in Tab, NEW c \in HostCalls, HostCall(t, c) PROVE OwedIsPast'
  BY <1>9 DEF HostCall
<1>10. ASSUME NEW t \in Tab, WriteIdle(t) \/ \E w \in Worker : RespondStop(t, w)
       PROVE  OwedIsPast'
  BY <1>10 DEF WriteIdle, RespondStop
<1>11. CASE DeleteSession \/ LeaseExpires \/ CancelExpires \/ UNCHANGED vars
  BY <1>11 DEF DeleteSession, LeaseExpires, CancelExpires, vars
<1> QED
  BY <1>1, <1>2, <1>3, <1>4, <1>5, <1>6, <1>7, <1>8, <1>9, <1>10, <1>11 DEF Next, Step

\* A step that neither drops the key nor revives a token, and brings no run that is
\* owed a stop back to where it heeds one.
LEMMA KeyKept ==
  ASSUME StopRemembered, owed' = owed, cancelSignal => cancelSignal',
         \A r \in owed : /\ pc'[r] \in Heeding => pc[r] \in Heeding
                         /\ token[r] = "cancelled" => token'[r] = "cancelled"
  PROVE  StopRemembered'
BY DEF StopRemembered, Heeding

LEMMA StopStep ==
  ASSUME Punctual, StopInv, StopRemembered, [Next]_vars,
         \A s \in Run : ~ ClearCancelAfter(s)
  PROVE  StopRemembered'
<1> USE DEF Goto, Heeding, Starting, Preparing, StopInv, LeaseInv, TypeOK, OwedIsPast
<1>1. ASSUME NEW r \in Run, Prepare(r) PROVE StopRemembered'
  <2>1. CASE ClearCancelBefore(r) /\ pc'[r] = "cleared"
    <3>1. \A s \in owed : pc[s] \notin Heeding
      BY <2>1 DEF ClearCancelBefore, MutualExclusion, Holders, Holding, Streaming
    <3> QED BY <2>1, <3>1 DEF ClearCancelBefore, StopRemembered
  <2>2. CASE ClearCancelBefore(r) /\ pc'[r] # "cleared"
    BY <2>2, KeyKept DEF ClearCancelBefore
  <2>3. CASE Park(r) \/ AcquireLease(r) \/ RefuseLease(r) \/ TakeRunning(r) \/ AbortRelease(r)
    BY <2>3, KeyKept DEF Park, AcquireLease, RefuseLease, TakeRunning, AbortRelease
  <2> QED BY <1>1, <2>1, <2>2, <2>3 DEF Prepare
<1>2. ASSUME NEW r \in Run, Stream(r) PROVE StopRemembered'
  BY <1>2, KeyKept DEF Stream, BuildTeam, BuildFails, ResetCancelToken, SetupFails,
     StartStream, FinishTurn, Interrupt, AgentError, PauseAtGate, Complete, WriteStopped,
     WriteFailed
<1>3. ASSUME NEW r \in Run, Close(r) PROVE StopRemembered'
  BY <1>3, KeyKept DEF Close, ReadStuck, Unstick, Release
<1>4. ASSUME NEW r \in Run, NEW w \in Worker, Admit(r, w) PROVE StopRemembered'
  BY <1>4, KeyKept DEF Admit
<1>5. ASSUME NEW r \in Run, Disconnect(r) PROVE StopRemembered'
  <2>1. PICK to \in AfterDisconnect(r) : pc' = [pc EXCEPT ![r] = to]
    BY <1>5 DEF Disconnect
  <2>2. to \notin Heeding
    BY <2>1 DEF AfterDisconnect
  <2> QED BY <1>5, <2>1, <2>2, KeyKept DEF Disconnect
<1>6. ASSUME NEW w \in Worker, SignalCancel(w) PROVE StopRemembered'
  BY <1>6 DEF SignalCancel, StopRemembered
<1>7. ASSUME NEW w \in Worker, CancelTeam(w) \/ Crash(w) \/ Boot(w) PROVE StopRemembered'
  BY <1>7, KeyKept DEF CancelTeam, Crash, Boot
<1>8. ASSUME NEW r \in Run, PollCancel(r) \/ HeartbeatLost(r) PROVE StopRemembered'
  BY <1>8, KeyKept DEF PollCancel, HeartbeatLost
<1>9. ASSUME NEW t \in Tab, NEW c \in HostCalls, HostCall(t, c) PROVE StopRemembered'
  BY <1>9, KeyKept DEF HostCall
<1>10. ASSUME NEW t \in Tab, WriteIdle(t) \/ \E w \in Worker : RespondStop(t, w)
       PROVE  StopRemembered'
  BY <1>10, KeyKept DEF WriteIdle, RespondStop
<1>11. CASE CancelExpires
  BY <1>11 DEF CancelExpires, StopRemembered
<1>12. CASE DeleteSession \/ LeaseExpires \/ UNCHANGED vars
  BY <1>12, KeyKept DEF DeleteSession, LeaseExpires, vars
<1> QED
  BY <1>1, <1>2, <1>3, <1>4, <1>5, <1>6, <1>7, <1>8, <1>9, <1>10, <1>11, <1>12
     DEF Next, Step

LEMMA StopInvariant == ASSUME Punctual PROVE Spec => []StopInv
<1>1. Init => StopInv
  BY LeaseInit DEF Init, StopInv, OwedIsPast
<1>2. StopInv /\ [Next]_vars => StopInv'
  BY LeaseStep, OwedStaysPast DEF StopInv, LeaseInv
<1> QED BY <1>1, <1>2, PTL DEF Spec

(***************************************************************************)
(* For any number of requests: the one step of the system that can make it *)
(* forget a stop is the clear at the end of a run that no longer holds the *)
(* lease.                                                                  *)
(***************************************************************************)
LateClear == \E s \in Run : ClearCancelAfter(s)

THEOREM OnlyLateClearForgets ==
  ASSUME Punctual
  PROVE  Spec => [][StopRemembered => StopRemembered' \/ LateClear]_vars
<1>1. StopInv /\ [Next]_vars => [StopRemembered => StopRemembered' \/ LateClear]_vars
  BY StopStep DEF LateClear
<1> QED BY <1>1, StopInvariant, PTL DEF Spec

(***************************************************************************)
(* Where no second request follows the first, a signalled stop is never     *)
(* forgotten, whichever faults occur and whichever worker serves the call. *)
(***************************************************************************)
THEOREM StopIsRemembered ==
  ASSUME Punctual, \A r, s \in Run : r = s
  PROVE  Spec => []StopRemembered
<1>1. Init => StopRemembered
  BY DEF Init, StopRemembered
<1>2. StopInv /\ StopRemembered /\ [Next]_vars => StopRemembered'
  <2> SUFFICES ASSUME StopInv, StopRemembered, [Next]_vars, NEW s \in Run, ClearCancelAfter(s)
               PROVE  StopRemembered'
    BY StopStep
  <2>1. \A r \in owed : pc'[r] = "done"
    BY DEF ClearCancelAfter, Goto, StopInv, LeaseInv, TypeOK, history
  <2> QED BY <2>1 DEF StopRemembered, Starting, ClearCancelAfter, history
<1> QED BY <1>1, <1>2, StopInvariant, PTL DEF Spec
=============================================================================
