---------------------------- MODULE RunLifecycle ----------------------------
(***************************************************************************)
(* The life of the POST /run/ requests of ONE chat session.                *)
(*                                                                         *)
(* A session is a MongoDB document with a status and a round counter, a    *)
(* lease and a cancel key in Redis, and, in every worker process, a cached *)
(* AutoGen team with the cancellation token registered for it.  Several    *)
(* workers serve requests for the same session; every await of the handler *)
(* server/views.py chat_session_run is a point where another request, an   *)
(* expiry or a crash may come in between.  A run r walks through pc[r];    *)
(* the comment on each action names the code between two such points.      *)
(***************************************************************************)
EXTENDS Naturals, FiniteSets

CONSTANTS
  Worker,      \* worker processes, named by get_instance_id() (host:pid)
  Run,         \* the POST /run/ requests made for the session: a bounded pool
  Tab,         \* the host's browser tabs, each with one other call at a time
  None,        \* no worker, no run
  HasGate,     \* project.human_gate.enabled
  SingleChat,  \* gate enabled, one assistant, no remote users
  MaxIter,     \* project.team.max_iterations
  ParkStates,  \* which pre-run gates are configured (OAuth, remote users)
  HostCalls,   \* which of the host's other calls are made
  Faults,      \* which faults occur
  Punctual     \* TTLs outlast the gaps between heartbeats and between polls

Runnable == {"idle", "awaiting_input", "awaiting_mcp_oauth", "awaiting_remote_users"}
Status   == Runnable \cup {"running", "completed", "stopped", "deleted"}

(***************************************************************************)
(* Program counters of a run.  "leaked" is a request that ended without    *)
(* the handler's finally block: lease and status stay as they were.        *)
(***************************************************************************)
Preparing == {"leased", "cleared", "aborting"}
Starting  == {"running", "built", "armed"}
Streaming == {"streaming", "gating", "completing", "interrupted", "failed"}
Closing   == {"guard", "unstick", "closing"}
Ended     == {"done", "leaked", "dead"}
PC        == {"new", "admitted", "released"} \cup Preparing \cup Starting
                \cup Streaming \cup Closing \cup Ended

Holding == Preparing \cup Starting \cup Streaming \cup Closing

ASSUME NoneAssumption == None \notin Worker /\ None \notin Run

ASSUME ConfigAssumption ==
  /\ HasGate \in BOOLEAN /\ SingleChat \in BOOLEAN /\ Punctual \in BOOLEAN
  /\ SingleChat => HasGate
  /\ MaxIter \in Nat \ {0}
  /\ ParkStates \subseteq {"awaiting_mcp_oauth", "awaiting_remote_users"}
  /\ HostCalls \subseteq {"stop", "continue", "restart", "abort", "delete"}
  /\ Faults \subseteq {"crash", "disconnect", "build", "setup", "redis", "agent"}

VARIABLES
  status,       \* chat_sessions.status; "deleted" once the document is gone
  round,        \* chat_sessions.current_round
  saved,        \* chat_sessions.agent_state has been written
  lease,        \* the Redis lease: its owner_id, or None
  cancelSignal, \* the Redis cancel key exists
  pc,           \* where each run is
  on,           \* the worker that serves each run
  token,        \* the run's own CancellationToken
  team,         \* per worker: the cached team and its ExternalTermination
  registered,   \* per worker: whose token _CANCEL_TOKENS holds
  up,           \* per worker: the process is alive
  calls,        \* per tab: the call past its status check, not yet written
  stopAt,       \* the worker of a /stop/ between its Redis and local halves
  acquirer,     \* history: the run whose SET NX created the lease
  owed          \* history: runs a /stop/ was signalled to while they ran

mongo   == <<status, round, saved>>
redis   == <<lease, cancelSignal>>
process == <<team, registered, up>>
host    == <<calls, stopAt>>
history == <<acquirer, owed>>
vars    == <<mongo, redis, pc, on, token, process, host, history>>

TypeOK ==
  /\ status \in Status /\ round \in Nat /\ saved \in BOOLEAN
  /\ lease \in Worker \cup {None} /\ cancelSignal \in BOOLEAN
  /\ pc \in [Run -> PC]
  /\ on \in [Run -> Worker \cup {None}]
  /\ token \in [Run -> {"live", "cancelled"}]
  /\ team \in [Worker -> {"none", "built", "stopping"}]
  /\ registered \in [Worker -> Run \cup {None}]
  /\ up \in [Worker -> BOOLEAN]
  /\ calls \in [Tab -> {"none", "stop", "continue", "restart"}]
  /\ stopAt \in Worker \cup {None}
  /\ acquirer \in Run \cup {None}
  /\ owed \subseteq Run

Init ==
  /\ status = "idle" /\ round = 0 /\ saved = FALSE
  /\ lease = None /\ cancelSignal = FALSE
  /\ pc = [r \in Run |-> "new"]
  /\ on = [r \in Run |-> None]
  /\ token = [r \in Run |-> "live"]
  /\ team = [w \in Worker |-> "none"]
  /\ registered = [w \in Worker |-> None]
  /\ up = [w \in Worker |-> TRUE]
  /\ calls = [t \in Tab |-> "none"] /\ stopAt = None
  /\ acquirer = None /\ owed = {}

-----------------------------------------------------------------------------
(* Writes the handlers share.                                              *)

\* update_one on a deleted document matches nothing.
SetStatus(s) == status' = IF status = "deleted" THEN "deleted" ELSE s

Goto(r, from, to) == pc[r] = from /\ pc' = [pc EXCEPT ![r] = to]

\* checkpoint_state(): an oversized state is logged and skipped.
Checkpoint == saved' \in {saved, TRUE}

Evict(w) ==
  /\ team' = [team EXCEPT ![w] = "none"]
  /\ registered' = [registered EXCEPT ![w] = None]
  /\ UNCHANGED up

\* The Lua compare-and-delete: it removes the key when it names this worker.
ReleaseLease(r) ==
  /\ lease' = IF lease = on[r] THEN None ELSE lease
  /\ acquirer' = IF lease = on[r] THEN None ELSE acquirer

-----------------------------------------------------------------------------
(* chat_session_run up to the StreamingHttpResponse.                       *)

Admit(r, w) ==
  /\ up[w] /\ status \in Runnable
  /\ Goto(r, "new", "admitted")
  /\ on' = [on EXCEPT ![r] = w]
  /\ UNCHANGED <<mongo, redis, token, process, host, history>>

\* Mutant: a status that the session document does not know.
\* A pending pre-run gate parks the session, whatever its status is by now.
Park(r) ==
  /\ \E s \in ParkStates : SetStatus(s)
  /\ Goto(r, "admitted", "done")
  /\ UNCHANGED <<round, saved, redis, on, token, process, host, history>>

\* Mutant: SET without NX.
AcquireLease_WithoutNX(r) ==
  /\ Goto(r, "admitted", "leased")
  /\ lease' = on[r] /\ acquirer' = r
  /\ UNCHANGED <<mongo, cancelSignal, on, token, process, host, owed>>

AcquireLease(r) ==
  /\ lease = None
  /\ Goto(r, "admitted", "leased")
  /\ lease' = on[r] /\ acquirer' = r
  /\ UNCHANGED <<mongo, cancelSignal, on, token, process, host, owed>>

\* 409 when the lease is taken, 503 when Redis is unreachable.
RefuseLease(r) ==
  /\ lease # None \/ "redis" \in Faults
  /\ Goto(r, "admitted", "done")
  /\ UNCHANGED <<mongo, redis, on, token, process, host, history>>

ClearCancelBefore(r) ==
  /\ \/ Goto(r, "leased", "cleared") /\ cancelSignal' = FALSE
     \/ /\ "redis" \in Faults
        /\ Goto(r, "leased", "aborting") /\ UNCHANGED cancelSignal
  /\ UNCHANGED <<mongo, lease, on, token, process, host, history>>

\* Mutants: an unconditional update, and a write before the status check.
TakeRunning_Unconditional(r) ==
  /\ Goto(r, "cleared", "running") /\ SetStatus("running")
  /\ UNCHANGED <<round, saved, redis, on, token, process, host, history>>

TakeRunning_WriteThenCheck(r) ==
  /\ Goto(r, "cleared", IF status \in Runnable THEN "running" ELSE "aborting")
  /\ SetStatus("running")
  /\ UNCHANGED <<round, saved, redis, on, token, process, host, history>>

\* try_set_session_running(): one update_one filtered on the four statuses.
TakeRunning(r) ==
  /\ IF status \in Runnable
       THEN Goto(r, "cleared", "running") /\ status' = "running"
       ELSE Goto(r, "cleared", "aborting") /\ UNCHANGED status
  /\ UNCHANGED <<round, saved, redis, on, token, process, host, history>>

AbortRelease(r) ==
  /\ Goto(r, "aborting", "done")
  /\ \/ ReleaseLease(r)
     \/ "redis" \in Faults /\ UNCHANGED <<lease, acquirer>>
  /\ UNCHANGED <<mongo, cancelSignal, on, token, process, host, owed>>

-----------------------------------------------------------------------------
(* event_stream(): team, token, stream.                                    *)

BuildTeam(r) ==
  /\ Goto(r, "running", "built")
  /\ IF team[on[r]] = "none"
       THEN /\ team' = [team EXCEPT ![on[r]] = "built"]
            /\ registered' = [registered EXCEPT ![on[r]] = None]
       ELSE UNCHANGED <<team, registered>>
  /\ UNCHANGED <<mongo, redis, on, token, up, host, history>>

\* Both failure paths return before the try whose finally releases the lease.
BuildFails(r) ==
  /\ "build" \in Faults
  /\ Goto(r, "running", "leaked")
  /\ team[on[r]] = "none"
  /\ \/ saved /\ SetStatus("stopped")
     \/ SetStatus("idle")
     \/ "awaiting_mcp_oauth" \in ParkStates /\ SetStatus("awaiting_mcp_oauth")
  /\ Evict(on[r])
  /\ UNCHANGED <<round, saved, redis, on, token, host, history>>

ResetCancelToken(r) ==
  /\ Goto(r, "built", "armed")
  /\ registered' = [registered EXCEPT ![on[r]] = r]
  /\ UNCHANGED <<mongo, redis, on, token, team, up, host, history>>

\* An error before the inner try reaches the outer finally only.
SetupFails(r) ==
  /\ "setup" \in Faults
  /\ Goto(r, "armed", "closing")
  /\ UNCHANGED <<mongo, redis, on, token, process, host, history>>

\* Mutant: the cancel key is cleared when the stream starts, not before.
StartStream_ClearsCancel(r) ==
  /\ Goto(r, "armed", "streaming")
  /\ cancelSignal' = FALSE
  /\ UNCHANGED <<mongo, lease, on, token, process, host, history>>

StartStream(r) ==
  /\ Goto(r, "armed", "streaming")
  /\ UNCHANGED <<mongo, redis, on, token, process, host, history>>

\* Every message of the team polls the cancel key; Redis errors count as lost.
PollCancel(r) ==
  /\ pc[r] = "streaming" /\ token[r] = "live"
  /\ cancelSignal \/ "redis" \in Faults
  /\ token' = [token EXCEPT ![r] = "cancelled"]
  /\ UNCHANGED <<mongo, redis, pc, on, process, host, history>>

\* _lease_heartbeat: the compare-and-expire fails, or Redis is unreachable.
HeartbeatLost(r) ==
  /\ pc[r] \in Streaming /\ token[r] = "live"
  /\ lease # on[r] \/ "redis" \in Faults
  /\ token' = [token EXCEPT ![r] = "cancelled"]
  /\ UNCHANGED <<mongo, redis, pc, on, process, host, history>>

\* Mutant: <= where the code has <.
FinishTurn_OneMore(r) ==
  /\ IF HasGate /\ (SingleChat \/ round <= MaxIter)
       THEN Goto(r, "streaming", "gating")
       ELSE Goto(r, "streaming", "completing")
  /\ Checkpoint
  /\ UNCHANGED <<status, round, redis, on, token, process, host, history>>

\* The TaskResult: AutoGen resets the termination condition that fired, the
\* handler checkpoints and re-reads the round; a cancel seen here is ignored.
FinishTurn(r) ==
  LET current == IF status = "deleted" THEN 0 ELSE round
  IN  /\ IF HasGate /\ (SingleChat \/ current < MaxIter)
           THEN Goto(r, "streaming", "gating")
           ELSE Goto(r, "streaming", "completing")
      /\ Checkpoint
      /\ team' = [team EXCEPT ![on[r]] = IF @ = "stopping" THEN "built" ELSE @]
      /\ UNCHANGED <<status, round, redis, on, token, registered, up, host, history>>

\* Mutant: a pause that counts two rounds.
PauseAtGate_CountsTwice(r) ==
  /\ Goto(r, "gating", "guard")
  /\ SetStatus("awaiting_input")
  /\ round' = round + 2
  /\ UNCHANGED <<saved, redis, on, token, process, host, history>>

CountRound == round' = IF status = "deleted" THEN round ELSE round + 1

PauseAtGate(r) ==
  /\ Goto(r, "gating", "guard")
  /\ SetStatus("awaiting_input") /\ CountRound
  /\ UNCHANGED <<saved, redis, on, token, process, host, history>>

Complete(r) ==
  /\ Goto(r, "completing", "guard")
  /\ SetStatus("completed")
  /\ Evict(on[r])
  /\ UNCHANGED <<round, saved, redis, on, token, host, history>>

Interrupt(r) ==
  /\ token[r] = "cancelled"
  /\ Goto(r, "streaming", "interrupted")
  /\ UNCHANGED <<mongo, redis, on, token, process, host, history>>

WriteStopped(r) ==
  /\ Goto(r, "interrupted", "guard")
  /\ SetStatus("stopped") /\ Checkpoint
  /\ Evict(on[r])
  /\ UNCHANGED <<round, redis, on, token, host, history>>

AgentError(r) ==
  /\ "agent" \in Faults
  /\ Goto(r, "streaming", "failed")
  /\ UNCHANGED <<mongo, redis, on, token, process, host, history>>

WriteFailed(r) ==
  /\ Goto(r, "failed", "guard")
  /\ SetStatus("idle") /\ Checkpoint
  /\ Evict(on[r])
  /\ UNCHANGED <<round, redis, on, token, host, history>>

-----------------------------------------------------------------------------
(* The two finally blocks.                                                 *)

ReadStuck(r) ==
  /\ Goto(r, "guard", IF status = "running" THEN "unstick" ELSE "closing")
  /\ UNCHANGED <<mongo, redis, on, token, process, host, history>>

Unstick(r) ==
  /\ Goto(r, "unstick", "closing")
  /\ SetStatus("idle")
  /\ Evict(on[r])
  /\ UNCHANGED <<round, saved, redis, on, token, host, history>>

Release(r) ==
  /\ Goto(r, "closing", "released")
  /\ \/ ReleaseLease(r)
     \/ "redis" \in Faults /\ UNCHANGED <<lease, acquirer>>
  /\ UNCHANGED <<mongo, cancelSignal, on, token, process, host, owed>>

ClearCancelAfter(r) ==
  /\ Goto(r, "released", "done")
  /\ cancelSignal' \in (IF "redis" \in Faults THEN {FALSE, cancelSignal} ELSE {FALSE})
  /\ UNCHANGED <<mongo, lease, on, token, process, host, history>>

-----------------------------------------------------------------------------
(* The client of a run goes away: CancelledError at an await of the handler,*)
(* GeneratorExit at a yield of its generator.                              *)

AfterDisconnect(r) ==
  CASE pc[r] \in {"admitted", "released"}            -> {"done"}
    [] pc[r] \in Preparing \cup {"running", "built"} -> {"leaked"}
    [] pc[r] = "armed"                               -> {"closing"}
    [] pc[r] = "streaming"                           -> {"interrupted", "guard"}
    [] pc[r] \in {"gating", "completing"}            -> {"interrupted"}
    [] pc[r] \in {"interrupted", "failed"}           -> {"guard"}
    [] pc[r] \in {"guard", "unstick"}                -> {"closing"}
    [] pc[r] = "closing"                             -> {"leaked"}
    [] OTHER                                         -> {}

\* A thread that writes the status goes on when the await of it is cancelled.
WriteUnderWay(r) ==
  \/ pc[r] = "gating" /\ SetStatus("awaiting_input") /\ CountRound
  \/ /\ UNCHANGED round
     /\ \/ pc[r] = "completing"  /\ SetStatus("completed")
        \/ pc[r] = "interrupted" /\ SetStatus("stopped")
        \/ pc[r] \in {"failed", "unstick"} /\ SetStatus("idle")

Disconnect(r) ==
  /\ "disconnect" \in Faults
  /\ \E to \in AfterDisconnect(r) : pc' = [pc EXCEPT ![r] = to]
  /\ UNCHANGED <<status, round>> \/ WriteUnderWay(r)
  /\ IF pc[r] \in {"interrupted", "failed"} THEN Checkpoint ELSE UNCHANGED saved
  /\ UNCHANGED <<redis, on, token, process, host, history>>

-----------------------------------------------------------------------------
(* The host's other calls.                                                 *)

\* /respond/ and /restart/ read the status and write it later.
HostCall(t, c) ==
  /\ c \in HostCalls /\ calls[t] = "none"
  /\ \/ c \in {"stop", "continue"} /\ status = "awaiting_input"
     \/ c = "restart" /\ status \in {"completed", "stopped"} /\ saved
  /\ calls' = [calls EXCEPT ![t] = c]
  /\ UNCHANGED <<mongo, redis, pc, on, token, process, stopAt, history>>

RespondStop(t, w) ==
  /\ calls[t] = "stop" /\ up[w]
  /\ calls' = [calls EXCEPT ![t] = "none"]
  /\ SetStatus("stopped")
  /\ Evict(w)
  /\ UNCHANGED <<round, saved, redis, pc, on, token, stopAt, history>>

\* Continue without a quorum, and restart, only make the session idle.
WriteIdle(t) ==
  /\ calls[t] \in {"continue", "restart"}
  /\ calls' = [calls EXCEPT ![t] = "none"]
  /\ SetStatus("idle")
  /\ UNCHANGED <<round, saved, redis, pc, on, token, process, stopAt, history>>

\* Mutant: a /stop/ that reaches the runs of its own worker only.
SignalCancel_LocalOnly(w) ==
  /\ "abort" \in HostCalls /\ up[w] /\ stopAt = None
  /\ stopAt' = w
  /\ owed' = owed \cup {r \in Run : pc[r] \in Starting \cup {"streaming"}}
  /\ UNCHANGED <<mongo, redis, pc, on, token, process, calls, acquirer>>

\* /stop/: the Redis half, for a run that lives anywhere ...
SignalCancel(w) ==
  /\ "abort" \in HostCalls /\ up[w] /\ stopAt = None
  /\ stopAt' = w
  /\ cancelSignal' = TRUE
  /\ owed' = owed \cup {r \in Run : pc[r] \in Starting \cup {"streaming"}}
  /\ UNCHANGED <<mongo, lease, pc, on, token, process, calls, acquirer>>

\* ... then cancel_team() for a run of the worker that serves the call.
CancelTeam(w) ==
  /\ stopAt = w /\ stopAt' = None
  /\ team' = [team EXCEPT ![w] = IF HasGate /\ @ = "built" THEN "stopping" ELSE @]
  /\ token' = [r \in Run |-> IF registered[w] = r THEN "cancelled" ELSE token[r]]
  /\ UNCHANGED <<mongo, redis, pc, on, registered, up, calls, history>>

\* chat_session_delete removes the document; a run in flight is not told.
DeleteSession ==
  /\ "delete" \in HostCalls /\ status # "deleted"
  /\ status' = "deleted"
  /\ UNCHANGED <<round, saved, redis, pc, on, token, process, host, history>>

-----------------------------------------------------------------------------
(* Expiry, crash, boot.                                                    *)

\* Mutant: a lease set without EX.
LeaseExpires_WithoutTTL == FALSE /\ UNCHANGED vars

LeaseExpires ==
  /\ lease # None
  /\ Punctual => \A r \in Run : pc[r] \in Holding => on[r] # lease
  /\ lease' = None /\ acquirer' = None
  /\ UNCHANGED <<mongo, cancelSignal, pc, on, token, process, host, owed>>

CancelExpires ==
  /\ cancelSignal
  /\ Punctual => \A r \in Run : pc[r] \notin Starting \cup {"streaming"}
  /\ cancelSignal' = FALSE
  /\ UNCHANGED <<mongo, lease, pc, on, token, process, host, history>>

Crash(w) ==
  /\ "crash" \in Faults /\ up[w]
  /\ up' = [up EXCEPT ![w] = FALSE]
  /\ team' = [team EXCEPT ![w] = "none"]
  /\ registered' = [registered EXCEPT ![w] = None]
  /\ pc' = [r \in Run |-> IF on[r] = w /\ pc[r] \notin Ended THEN "dead" ELSE pc[r]]
  /\ stopAt' = IF stopAt = w THEN None ELSE stopAt
  /\ UNCHANGED <<mongo, redis, on, token, calls, history>>

\* Mutant: no reset at the start of a process.
Boot_WithoutReset(w) ==
  /\ ~up[w]
  /\ up' = [up EXCEPT ![w] = TRUE]
  /\ UNCHANGED <<mongo, redis, pc, on, token, team, registered, host, history>>

\* ServerConfig.ready(): every running session becomes idle, whoever runs it.
Boot(w) ==
  /\ ~up[w]
  /\ up' = [up EXCEPT ![w] = TRUE]
  /\ status' = IF status = "running" THEN "idle" ELSE status
  /\ UNCHANGED <<round, saved, redis, pc, on, token, team, registered, host, history>>

-----------------------------------------------------------------------------
Prepare(r) ==
  \/ Park(r) \/ AcquireLease(r) \/ RefuseLease(r)
  \/ ClearCancelBefore(r) \/ TakeRunning(r) \/ AbortRelease(r)

Stream(r) ==
  \/ BuildTeam(r) \/ BuildFails(r) \/ ResetCancelToken(r)
  \/ SetupFails(r) \/ StartStream(r)
  \/ FinishTurn(r) \/ Interrupt(r) \/ AgentError(r)
  \/ PauseAtGate(r) \/ Complete(r) \/ WriteStopped(r) \/ WriteFailed(r)

Close(r) == ReadStuck(r) \/ Unstick(r) \/ Release(r) \/ ClearCancelAfter(r)

Step(r) == Prepare(r) \/ Stream(r) \/ Close(r)

Next ==
  \/ \E r \in Run :
       \/ \E w \in Worker : Admit(r, w)
       \/ Step(r) \/ PollCancel(r) \/ HeartbeatLost(r) \/ Disconnect(r)
  \/ \E t \in Tab :
       \/ \E c \in HostCalls : HostCall(t, c)
       \/ \E w \in Worker : RespondStop(t, w)
       \/ WriteIdle(t)
  \/ \E w \in Worker :
       \/ SignalCancel(w) \/ CancelTeam(w)
       \/ Crash(w) \/ Boot(w)
  \/ DeleteSession \/ LeaseExpires \/ CancelExpires

Spec == Init /\ [][Next]_vars

-----------------------------------------------------------------------------
(* Properties.                                                             *)

Owning  == Starting \cup Streaming
Holders == {r \in Run : pc[r] \in Holding}

\* At most one run is between its SET NX of the lease and its release: the
\* lease serialises the handlers of all workers, through crashes and restarts.
MutualExclusion == \A r, s \in Run : r \in Holders /\ s \in Holders => r = s

\* A session is "running" only while a run owns that status and has not yet
\* settled it, or after one ended without its finally blocks (leaked) or died
\* with its worker.
RunningIsOwned ==
  status = "running" =>
    \E r \in Run : pc[r] \in Owning \cup {"guard", "unstick", "leaked", "dead"}

\* A team session pauses at its gate at most max_iterations times, although
\* the handler reads the round and increments it in two separate steps.
RoundsBounded == SingleChat \/ round <= MaxIter

\* A stop signalled to a starting or streaming run is not forgotten: the
\* cancel key stays until the run has seen it.
StopRemembered ==
  \A r \in owed : pc[r] \in Starting \cup {"streaming"} =>
                   cancelSignal \/ token[r] = "cancelled"

\* A completed or stopped session leaves that status only by a restart (or by
\* its deletion), whatever /run/ requests were admitted before.
RevivedByRestart ==
  status \in {"completed", "stopped"} /\ status' # status =>
    \/ status' = "deleted"
    \/ status' = "idle" /\ \E t \in Tab : calls[t] = "restart" /\ calls'[t] = "none"
OnlyRestartRevives == [][RevivedByRestart]_vars

\* The lease and the status together give what RunSlot promises: one occupant
\* at a time, and a round that only the occupant advances.
Slot == INSTANCE RunSlot WITH active <- Holders
ImplementsSlot == Slot!Spec

-----------------------------------------------------------------------------
(* Fairness: an async handler resumes after its awaits, a dead worker is   *)
(* restarted, keys with a TTL expire.  That a team speaks on (PollCancel)  *)
(* and finishes its turn are promises of the model calls and of the        *)
(* termination condition, so they are assumed only where named.            *)

Scheduling ==
  /\ \A r \in Run :
       /\ WF_vars(Prepare(r)) /\ WF_vars(Close(r)) /\ WF_vars(HeartbeatLost(r))
       /\ WF_vars(BuildTeam(r) \/ ResetCancelToken(r) \/ StartStream(r))
       /\ WF_vars(PauseAtGate(r) \/ Complete(r))
       /\ WF_vars(Interrupt(r) \/ WriteStopped(r) \/ WriteFailed(r))
  /\ \A w \in Worker : WF_vars(Boot(w))
  /\ WF_vars(LeaseExpires)

TeamSpeaks == \A r \in Run : WF_vars(PollCancel(r))
TurnsEnd   == \A r \in Run : WF_vars(FinishTurn(r))

FairSpec   == Spec /\ Scheduling /\ TeamSpeaks
EndingSpec == FairSpec /\ TurnsEnd

\* A stop ends the run it was signalled to even if the team would talk on for
\* ever, on whichever worker the call arrives.
StopEndsRun == \A r \in Run : r \in owed ~> pc[r] \in Ended

\* A running session does not stay running: its run ends, or its worker died
\* and the next boot resets it.
RunningEnds == status = "running" ~> status # "running"

\* The lease is always given back: released, or expired after a crash.
LeaseFreed == lease # None ~> lease = None
=============================================================================
