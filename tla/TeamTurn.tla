------------------------------ MODULE TeamTurn ------------------------------
(***************************************************************************)
(* team_choice: remote users speak as agents of the team.  When the team   *)
(* selects a proxy agent, the agent offers a turn to its user through the  *)
(* active_request key, polls Redis for the answer, and withdraws the offer.*)
(* The user's POST reads the offer, claims it and stores the answer.       *)
(*                                                                         *)
(* A turn is named by its request id.  AutoGen lets the handler of an agent*)
(* run on when the stream that started it is torn down, and the agent drops*)
(* its cancellation token: an abandoned turn goes on next to the next run. *)
(***************************************************************************)
EXTENDS Naturals

CONSTANTS
  Remote,     \* remote users
  Tabs,       \* bound: tabs, each with one request at a time, per user
  Turn,       \* bound: the pool of turns, by request id
  None,       \* no turn, no offer, no user
  MaxFaults   \* bound: abandoned runs, Redis errors

Client == Remote \X (1..Tabs)
User(c) == c[1]

ASSUME NoneAssumption == None \notin Remote /\ None \notin Turn
ASSUME BoundAssumption == Tabs \in Nat \ {0} /\ MaxFaults \in Nat

\* What the agent of a turn is doing.
Stage == {"new", "asked", "waiting", "closing", "deleting", "done"}
Open  == {"waiting", "closing", "deleting"}

VARIABLES
  status,    \* chat_sessions.status; "stopped": any that takes no answers
  cancel,    \* the cancel key exists
  current,   \* the turn that the run waits for
  stage,     \* per turn
  target,    \* per turn: its remote user
  heard,     \* turns whose answer the agent has popped
  active,    \* the active_request key: the turn on offer
  claims,    \* turns whose claim key exists
  responses, \* turns whose response key exists
  at,        \* per client: the point its POST has reached
  req,       \* per client: the turn its POST has read
  said,      \* per turn: messages appended to discussions[]
  abandoned, \* history: turns whose run was torn down
  stranded,  \* history: turns whose offer Redis did not let the agent withdraw
  faults     \* history: faults so far

run  == <<status, cancel, current>>
turn == <<stage, target, heard>>
keys == <<active, claims, responses>>
post == <<at, req, said>>
past == <<abandoned, stranded, faults>>
vars == <<run, turn, keys, post, past>>

TypeOK ==
  /\ status \in {"running", "awaiting_input", "stopped"} /\ cancel \in BOOLEAN
  /\ current \in Turn \cup {None}
  /\ stage \in [Turn -> Stage] /\ target \in [Turn -> Remote \cup {None}]
  /\ heard \subseteq Turn /\ active \in Turn \cup {None}
  /\ claims \subseteq Turn /\ responses \subseteq Turn
  /\ at \in [Client -> {"none", "posted", "read", "claimed", "stored"}]
  /\ req \in [Client -> Turn \cup {None}]
  /\ said \in [Turn -> Nat]
  /\ abandoned \subseteq Turn /\ stranded \subseteq Turn /\ faults \in 0..MaxFaults

Init ==
  /\ status = "running" /\ cancel = FALSE /\ current = None
  /\ stage = [t \in Turn |-> "new"] /\ target = [t \in Turn |-> None]
  /\ heard = {} /\ active = None /\ claims = {} /\ responses = {}
  /\ at = [c \in Client |-> "none"] /\ req = [c \in Client |-> None]
  /\ said = [t \in Turn |-> 0]
  /\ abandoned = {} /\ stranded = {} /\ faults = 0

Fault == faults < MaxFaults /\ faults' = faults + 1
Step(t, from, to) == stage[t] = from /\ stage' = [stage EXCEPT ![t] = to]
Move(c, from, to) == at[c] = from /\ at' = [at EXCEPT ![c] = to]
Return(c) == at' = [at EXCEPT ![c] = "none"] /\ req' = [req EXCEPT ![c] = None]

\* The agent's response lets the run go on, if the run still waits for it.
GoOn(t) == current' = IF current = t THEN None ELSE current

-----------------------------------------------------------------------------
(* The run, as far as turns are concerned.                                 *)

StartRun ==
  /\ status # "running" /\ status' = "running"
  /\ cancel' = FALSE
  /\ UNCHANGED <<current, turn, keys, post, past>>

SelectProxy(t, u) ==
  /\ status = "running" /\ current = None /\ current' = t
  /\ Step(t, "new", "asked")
  /\ target' = [target EXCEPT ![t] = u]
  /\ UNCHANGED <<status, cancel, heard, keys, post, past>>

\* Mutant: a status that the POST handlers do not know.
EndRun ==
  /\ status = "running" /\ current = None
  /\ status' \in {"awaiting_input", "stopped"} /\ cancel' = FALSE
  /\ UNCHANGED <<current, turn, keys, post, past>>

\* /stop/ on another worker: the key alone.
SignalCancel ==
  /\ status = "running" /\ cancel' = TRUE
  /\ UNCHANGED <<status, current, turn, keys, post, past>>

\* /stop/ on this worker, a lost lease, a client that goes away: the stream
\* ends and its finally clears the cancel key, while the agent polls on.
Abandon ==
  /\ Fault
  /\ status = "running" /\ current # None
  /\ status' = "stopped" /\ cancel' = FALSE /\ current' = None
  /\ abandoned' = abandoned \cup {current}
  /\ UNCHANGED <<turn, keys, post, stranded>>

-----------------------------------------------------------------------------
(* The agent of a turn.                                                    *)

Offer(t) ==
  /\ Step(t, "asked", "waiting")
  /\ active' = t
  /\ UNCHANGED <<run, target, heard, claims, responses, post, past>>

WaitCancelled(t) ==
  /\ cancel /\ Step(t, "waiting", "closing")
  /\ UNCHANGED <<run, target, heard, keys, post, past>>

\* Mutant: the agent answers the team before it withdraws the offer.
PopResponse_AnswersFirst(t) ==
  /\ t \in responses /\ Step(t, "waiting", "closing")
  /\ responses' = responses \ {t} /\ heard' = heard \cup {t}
  /\ GoOn(t)
  /\ UNCHANGED <<status, cancel, target, active, claims, post, past>>

PopResponse(t) ==
  /\ t \in responses /\ Step(t, "waiting", "closing")
  /\ responses' = responses \ {t} /\ heard' = heard \cup {t}
  /\ UNCHANGED <<run, target, active, claims, post, past>>

\* Mutant: a wait without a deadline.
WaitTimesOut_Never(t) == FALSE /\ UNCHANGED vars

\* The deadline is checked after an unsuccessful pop: an answer that comes in
\* between is left in Redis.
WaitTimesOut(t) ==
  /\ Step(t, "waiting", "closing")
  /\ UNCHANGED <<run, target, heard, keys, post, past>>

\* A Redis error while the turn is offered or awaited counts as no answer.
TurnFails(t) ==
  /\ Fault
  /\ stage[t] \in {"asked", "waiting"} /\ stage' = [stage EXCEPT ![t] = "closing"]
  /\ UNCHANGED <<run, target, heard, keys, post, abandoned, stranded>>

\* Mutant: an offer is left alone unless the agent got an answer.
ReadOffer_OnlyIfHeard(t) ==
  /\ Step(t, "closing", IF t \in heard THEN "deleting" ELSE "done")
  /\ IF t \in heard THEN UNCHANGED current ELSE GoOn(t)
  /\ UNCHANGED <<status, cancel, target, heard, keys, post, past>>

\* clear_team_choice_active_request(): GET; another turn's offer is left alone.
ReadOffer(t) ==
  /\ IF active \in {None, t}
       THEN Step(t, "closing", "deleting") /\ UNCHANGED current
       ELSE Step(t, "closing", "done") /\ GoOn(t)
  /\ UNCHANGED <<status, cancel, target, heard, keys, post, past>>

\* ... and then one DEL of the offer, whosever it is by now, and this turn's
\* claim and response.
DeleteKeys(t) ==
  /\ Step(t, "deleting", "done") /\ GoOn(t)
  /\ active' = None
  /\ claims' = claims \ {t} /\ responses' = responses \ {t}
  /\ UNCHANGED <<status, cancel, target, heard, post, past>>

CleanupFails(t) ==
  /\ Fault
  /\ stage[t] \in {"closing", "deleting"} /\ stage' = [stage EXCEPT ![t] = "done"]
  /\ GoOn(t)
  /\ stranded' = stranded \cup {t}
  /\ UNCHANGED <<status, cancel, target, heard, keys, post, abandoned>>

\* Mutant: an offer without EX.
OfferExpires_WithoutTTL == FALSE /\ UNCHANGED vars

\* REDIS_TEAM_CHOICE_TURN_TTL_SECONDS outlasts the wait for an answer.
OfferExpires ==
  /\ active # None /\ stage[active] \notin Open
  /\ active' = None
  /\ UNCHANGED <<run, turn, claims, responses, post, past>>

-----------------------------------------------------------------------------
(* remote_user_respond in team_choice mode.                                *)

Post(c) ==
  /\ status \in {"running", "awaiting_input"}
  /\ Move(c, "none", "posted")
  /\ UNCHANGED <<run, turn, keys, req, said, past>>

\* Only the user whom the offer names goes on; attachments are loaded then.
ReadTurn(c) ==
  /\ at[c] = "posted"
  /\ IF active # None /\ target[active] = User(c)
       THEN /\ at' = [at EXCEPT ![c] = "read"]
            /\ req' = [req EXCEPT ![c] = active]
       ELSE Return(c)
  /\ UNCHANGED <<run, turn, keys, said, past>>

\* Mutant: SET without NX.
Claim_WithoutNX(c) ==
  /\ Move(c, "read", "claimed") /\ claims' = claims \cup {req[c]}
  /\ UNCHANGED <<run, turn, active, responses, req, said, past>>

Claim(c) ==
  /\ at[c] = "read"
  /\ IF req[c] \notin claims
       THEN Move(c, "read", "claimed") /\ claims' = claims \cup {req[c]} /\ UNCHANGED req
       ELSE Return(c) /\ UNCHANGED claims
  /\ UNCHANGED <<run, turn, active, responses, said, past>>

StoreResponse(c) ==
  /\ Move(c, "claimed", "stored")
  /\ responses' = responses \cup {req[c]}
  /\ UNCHANGED <<run, turn, active, claims, req, said, past>>

AppendMessage(c) ==
  /\ at[c] = "stored" /\ Return(c)
  /\ said' = [said EXCEPT ![req[c]] = @ + 1]
  /\ UNCHANGED <<run, turn, keys, past>>

\* A Redis or MongoDB error ends the request where it is.
PostFails(c) ==
  /\ Fault
  /\ at[c] # "none" /\ Return(c)
  /\ UNCHANGED <<run, turn, keys, said, abandoned, stranded>>

-----------------------------------------------------------------------------
Agent(t) ==
  Offer(t) \/ WaitCancelled(t) \/ PopResponse(t) \/ WaitTimesOut(t)
    \/ ReadOffer(t) \/ DeleteKeys(t)

Handle(c) == ReadTurn(c) \/ Claim(c) \/ StoreResponse(c) \/ AppendMessage(c)

Next ==
  \/ StartRun \/ EndRun \/ SignalCancel \/ Abandon \/ OfferExpires
  \/ \E t \in Turn :
       \/ \E u \in Remote : SelectProxy(t, u)
       \/ Agent(t) \/ TurnFails(t) \/ CleanupFails(t)
  \/ \E c \in Client : Post(c) \/ Handle(c) \/ PostFails(c)

Spec == Init /\ [][Next]_vars

-----------------------------------------------------------------------------
(* Properties.                                                             *)

\* The requests whose answer to a turn was accepted, before discussions[] has it.
Carrying(t) == {c \in Client : req[c] = t /\ at[c] \in {"claimed", "stored"}}

OneAnswer(t) ==
  /\ said[t] <= 1
  /\ \A c \in Carrying(t) : said[t] = 0 /\ Carrying(t) = {c}

\* While a turn is open, one answer at most is accepted, in however many tabs
\* the user posts one.
OneAnswerWhileOpen == \A t \in Turn : stage[t] \in Open => OneAnswer(t)

\* A turn on offer has an agent that still waits for the answer or is about to
\* withdraw the offer, also when the run of that agent, or of another, was torn
\* down, and when turns and POSTs fail: only a failed withdrawal leaves one behind.
OfferHasAgent == active # None => stage[active] \in Open \/ active \in stranded

\* The turn that a run waits for is the one on offer, so its user can answer
\* it, as long as no earlier run was torn down in the middle of a turn.
CurrentIsOnOffer ==
  current # None /\ abandoned = {} =>
    (stage[current] = "waiting" => active = current)

-----------------------------------------------------------------------------
(* Fairness: agents and handlers run on, the deadline comes, keys expire.  *)

FairSpec ==
  /\ Spec
  /\ \A t \in Turn : WF_vars(Agent(t))
  /\ \A c \in Client : WF_vars(Handle(c))
  /\ WF_vars(OfferExpires)

\* A turn ends although nobody may ever answer it, and an offer goes away even
\* if its agent could not withdraw it.
TurnEnds  == \A t \in Turn : stage[t] = "asked" ~> stage[t] = "done"
OfferEnds == \A t \in Turn : active = t ~> active # t
=============================================================================
