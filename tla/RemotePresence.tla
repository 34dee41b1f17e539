--------------------------- MODULE RemotePresence ---------------------------
(***************************************************************************)
(* Who is there: the presence of the remote users of one session, and the  *)
(* gate that holds a run back until all of them are online or ignored.     *)
(*                                                                         *)
(* A remote user opens a page with an invitation link; the page posts      *)
(* "online" and opens a socket, at the same time.  The socket's end, and   *)
(* the TTL of the status key, take the user offline.  The host posts a run;*)
(* if somebody is missing the session is parked, and the host's panel      *)
(* waits on a socket that first reads the statuses and then listens.       *)
(*                                                                         *)
(* Left out, because no step depends on it: the readiness_latch key, which *)
(* the run request reads only to delete it; the forward key of a token,    *)
(* which only says which token an ignore request revokes; and the eviction *)
(* event, which asks a page to do what it may do at any time, to leave.    *)
(***************************************************************************)
EXTENDS Naturals

CONSTANTS
  Remote,    \* the configured remote users of the project
  Link,      \* bound: invitation tokens, issued again once nothing names them
  Owner,     \* the user whom the reverse key of a token names
  Page,      \* bound: page loads at a time
  Via,       \* the link that a page was loaded with
  MaxFaults  \* bound: handlers that fail, sockets that die with their worker

Caller == Page \cup Remote   \* "online" requests of pages, "ignore" requests

ASSUME PoolAssumption == Owner \in [Link -> Remote] /\ Via \in [Page -> Link]
ASSUME CallerAssumption == Page \cap Remote = {}
ASSUME BoundAssumption == MaxFaults \in Nat

VARIABLES
  presence,  \* per user: the status key, "offline" if there is none
  valid,     \* tokens whose reverse key exists
  sock,      \* per page: its chat socket
  step,      \* per caller: the point its request has reached
  host,      \* what the host's tab, its run request or its panel is doing
  inbox,     \* events on their way to the panel's listener
  dropped,   \* history: users gone during a run and not back since
  missed,    \* history: "everybody is there" was announced to nobody
  faults     \* history: faults so far

redis == <<presence, valid>>
panel == <<host, inbox>>
past  == <<dropped, missed, faults>>
vars  == <<redis, sock, step, panel, past>>

SockStage == {"closed", "connecting", "open", "leaving", "dropping"}
CallStage == {"none", "posted", "validated", "revoked", "publish", "check", "ready"}
HostStage == {"free", "posted", "clear", "park", "running",
              "panel", "gap", "listening", "hearing", "deaf", "told"}
Subscribed == host \in {"listening", "hearing"}

TypeOK ==
  /\ presence \in [Remote -> {"offline", "online", "ignored"}]
  /\ valid \subseteq Link
  /\ sock \in [Page -> SockStage] /\ step \in [Caller -> CallStage]
  /\ host \in HostStage
  /\ inbox \subseteq {"update", "complete"} /\ (inbox # {} => Subscribed)
  /\ dropped \subseteq Remote /\ missed \in BOOLEAN
  /\ faults \in 0..MaxFaults

Init ==
  /\ presence = [u \in Remote |-> "offline"] /\ valid = {}
  /\ sock = [p \in Page |-> "closed"] /\ step = [c \in Caller |-> "none"]
  /\ host = "free" /\ inbox = {}
  /\ dropped = {} /\ missed = FALSE /\ faults = 0

\* compute_pending_remote_users returns None; the panel and the "online" and
\* "ignore" requests apply the same test.
AllReady == \A u \in Remote : presence[u] \in {"online", "ignored"}

Owns(u, p) == Owner[Via[p]] = u

\* Pub/sub reaches only those subscribed now.
Delivered(m) == inbox' = IF Subscribed THEN inbox \cup {m} ELSE inbox
\* The last word that everybody is there is lost on a panel that waits for it.
Unheard == missed' = (missed \/ (host \in {"gap", "listening", "hearing"} /\ AllReady))

Fault == faults < MaxFaults /\ faults' = faults + 1
Call(c, from, to) == step[c] = from /\ step' = [step EXCEPT ![c] = to]
Move(p, from, to) == sock[p] = from /\ sock' = [sock EXCEPT ![p] = to]
Tab(from, to)     == host = from /\ host' = to

-----------------------------------------------------------------------------
(* Invitations.                                                            *)

\* The tokens before it keep their reverse keys.
Invite(l) ==
  /\ l \notin valid /\ valid' = valid \cup {l}
  /\ \A p \in Page : Via[p] = l => sock[p] = "closed" /\ step[p] = "none"
  /\ UNCHANGED <<presence, sock, step, panel, past>>

LinkExpires(l) ==
  /\ l \in valid /\ valid' = valid \ {l}
  /\ UNCHANGED <<presence, sock, step, panel, past>>

-----------------------------------------------------------------------------
(* A remote user's page: markOnline() and connect() run concurrently.      *)

Open(p) ==
  /\ Via[p] \in valid
  /\ Move(p, "closed", "connecting") /\ Call(p, "none", "posted")
  /\ UNCHANGED <<redis, panel, past>>

ValidateOnline(p) ==
  /\ Call(p, "posted", IF Via[p] \in valid THEN "validated" ELSE "none")
  /\ UNCHANGED <<redis, sock, panel, past>>

\* The status key is set whatever it was.
SetOnline(p) ==
  /\ Call(p, "validated", "publish")
  /\ presence' = [presence EXCEPT ![Owner[Via[p]]] = "online"]
  /\ dropped' = dropped \ {Owner[Via[p]]}
  /\ UNCHANGED <<valid, sock, panel, missed, faults>>

Accept(p) ==
  /\ Move(p, "connecting", IF Via[p] \in valid THEN "open" ELSE "closed")
  /\ UNCHANGED <<redis, step, panel, past>>

Leave(p) ==
  /\ Move(p, "open", "leaving")
  /\ UNCHANGED <<redis, step, panel, past>>

ReadStatus(p) ==
  /\ Move(p, "leaving",
          IF presence[Owner[Via[p]]] = "online" THEN "dropping" ELSE "closed")
  /\ UNCHANGED <<redis, step, panel, past>>

Gone(u) == dropped' = IF host = "running" THEN dropped \cup {u} ELSE dropped

\* The key is deleted whatever it is by now.
DropOnline(p) ==
  /\ Move(p, "dropping", "closed")
  /\ presence' = [presence EXCEPT ![Owner[Via[p]]] = "offline"]
  /\ Delivered("update") /\ Gone(Owner[Via[p]])
  /\ UNCHANGED <<valid, step, host, missed, faults>>

\* Mutant: the status key is set without TTL.
OnlineExpires_WithoutTTL(u) == FALSE /\ UNCHANGED vars

\* No open socket renews the status; the expiry of a key is not published.
OnlineExpires(u) ==
  /\ presence[u] = "online"
  /\ \A p \in Page : Owns(u, p) => sock[p] # "open"
  /\ presence' = [presence EXCEPT ![u] = "offline"] /\ Gone(u)
  /\ UNCHANGED <<valid, sock, step, panel, missed, faults>>

IgnoredExpires(u) ==
  /\ presence[u] = "ignored"
  /\ presence' = [presence EXCEPT ![u] = "offline"]
  /\ UNCHANGED <<valid, sock, step, panel, past>>

-----------------------------------------------------------------------------
(* The host's check box.                                                   *)

\* One token at most is revoked: the one that the forward key holds.
Ignore(u) ==
  /\ Call(u, "none", "revoked")
  /\ valid' \in {valid} \cup {valid \ {l} : l \in {k \in Link : Owner[k] = u}}
  /\ UNCHANGED <<presence, sock, panel, past>>

\* Mutant: the status changes without an event.
SetIgnored_Silent(u) ==
  /\ Call(u, "revoked", "none")
  /\ presence' = [presence EXCEPT ![u] = "ignored"] /\ dropped' = dropped \ {u}
  /\ UNCHANGED <<valid, sock, panel, missed, faults>>

SetIgnored(u) ==
  /\ Call(u, "revoked", "publish")
  /\ presence' = [presence EXCEPT ![u] = "ignored"] /\ dropped' = dropped \ {u}
  /\ UNCHANGED <<valid, sock, panel, missed, faults>>

Unignore(u) ==
  /\ presence' = [presence EXCEPT ![u] = "offline"] /\ Delivered("update")
  /\ UNCHANGED <<valid, sock, step, host, past>>

-----------------------------------------------------------------------------
(* The end of an "online" or "ignore" request.                             *)

Publish(c) ==
  /\ Call(c, "publish", "check") /\ Delivered("update")
  /\ UNCHANGED <<redis, sock, host, past>>

CheckComplete(c) ==
  /\ Call(c, "check", IF AllReady THEN "ready" ELSE "none")
  /\ UNCHANGED <<redis, sock, panel, past>>

Announce(c) ==
  /\ Call(c, "ready", "none") /\ Delivered("complete")
  /\ IF host = "gap" THEN Unheard ELSE UNCHANGED missed
  /\ UNCHANGED <<redis, sock, host, dropped, faults>>

\* An error ends the request; that a publication fails does not, the request
\* goes on to the next one.
Fail(c) ==
  /\ Fault /\ step[c] # "none"
  /\ \/ Call(c, "publish", "check") /\ UNCHANGED missed
     \/ /\ step' = [step EXCEPT ![c] = "none"]
        /\ IF step[c] \in {"publish", "check", "ready"} THEN Unheard
                                                       ELSE UNCHANGED missed
  /\ UNCHANGED <<redis, sock, panel, dropped>>

\* The socket ends with its worker, or Redis refuses: the status stays.
SocketDies(p) ==
  /\ Fault /\ sock[p] # "closed" /\ sock' = [sock EXCEPT ![p] = "closed"]
  /\ UNCHANGED <<redis, step, panel, dropped, missed>>

-----------------------------------------------------------------------------
(* The host's run request.                                                 *)

Post ==
  /\ Tab("free", "posted")
  /\ UNCHANGED <<redis, sock, step, inbox, past>>

CheckReady ==
  /\ Tab("posted", IF AllReady THEN "clear" ELSE "park")
  /\ UNCHANGED <<redis, sock, step, inbox, past>>

\* What else an admission takes is in RunLifecycle.
StartRun ==
  /\ Tab("clear", "running")
  /\ UNCHANGED <<redis, sock, step, inbox, past>>

\* An error, or the lease is not to be had.
RunRefused ==
  /\ Fault /\ \E from \in {"posted", "clear", "park"} : Tab(from, "free")
  /\ UNCHANGED <<redis, sock, step, inbox, dropped, missed>>

RunEnds ==
  /\ Tab("running", "free")
  /\ UNCHANGED <<redis, sock, step, inbox, past>>

\* The session becomes awaiting_remote_users, and the tab shows the panel.
Park ==
  /\ Tab("park", "panel")
  /\ UNCHANGED <<redis, sock, step, inbox, past>>

-----------------------------------------------------------------------------
(* The host's panel and the consumer behind it.                            *)

\* Mutant: the consumer shows the statuses and does not look whether all are there.
Snapshot_NoComplete ==
  /\ Tab("panel", "gap")
  /\ UNCHANGED <<redis, sock, step, inbox, past>>

Snapshot ==
  /\ Tab("panel", IF AllReady THEN "told" ELSE "gap")
  /\ UNCHANGED <<redis, sock, step, inbox, past>>

Subscribe ==
  /\ Tab("gap", "listening")
  /\ UNCHANGED <<redis, sock, step, inbox, past>>

HearComplete ==
  /\ "complete" \in inbox /\ Tab("listening", "told")
  /\ inbox' = {} /\ missed' = FALSE
  /\ UNCHANGED <<redis, sock, step, dropped, faults>>

HearUpdate ==
  /\ "update" \in inbox /\ Tab("listening", "hearing")
  /\ inbox' = inbox \ {"update"}
  /\ UNCHANGED <<redis, sock, step, past>>

\* The consumer trusts no news: it reads the statuses again.
Reread ==
  /\ Tab("hearing", IF AllReady THEN "told" ELSE "listening")
  /\ IF AllReady THEN inbox' = {} /\ missed' = FALSE ELSE UNCHANGED <<inbox, missed>>
  /\ UNCHANGED <<redis, sock, step, dropped, faults>>

\* Mutant: a run that the panel resumes is not gated again.
Replay_Ungated ==
  /\ Tab("told", "clear")
  /\ UNCHANGED <<redis, sock, step, inbox, past>>

\* The panel posts the run again, and the server gates it again.
Replay ==
  /\ Tab("told", "posted")
  /\ UNCHANGED <<redis, sock, step, inbox, past>>

\* Mutant: the new panel is given the events of the old one.
Reload_KeepsInbox ==
  /\ \E from \in {"gap", "listening", "hearing", "deaf"} : Tab(from, "panel")
  /\ missed' = FALSE
  /\ UNCHANGED <<redis, sock, step, inbox, dropped, faults>>

\* The page shows the panel again, for the session is still parked.
Reload ==
  /\ \E from \in {"gap", "listening", "hearing", "deaf"} : Tab(from, "panel")
  /\ inbox' = {} /\ missed' = FALSE
  /\ UNCHANGED <<redis, sock, step, dropped, faults>>

ListenerDies ==
  /\ Fault /\ \E from \in {"gap", "listening", "hearing"} : Tab(from, "deaf")
  /\ inbox' = {} /\ missed' = FALSE
  /\ UNCHANGED <<redis, sock, step, dropped>>

-----------------------------------------------------------------------------
LinkStep(l) == Invite(l) \/ LinkExpires(l)
UserStep(u) == \/ Ignore(u) \/ SetIgnored(u) \/ Unignore(u)
               \/ OnlineExpires(u) \/ IgnoredExpires(u)
PageStep(p) == \/ Open(p) \/ ValidateOnline(p) \/ SetOnline(p) \/ Accept(p)
               \/ Leave(p) \/ ReadStatus(p) \/ DropOnline(p) \/ SocketDies(p)
CallStep(c) == Publish(c) \/ CheckComplete(c) \/ Announce(c) \/ Fail(c)
HostStep == \/ Post \/ CheckReady \/ StartRun \/ RunRefused \/ RunEnds \/ Park
            \/ Snapshot \/ Subscribe \/ HearComplete \/ HearUpdate \/ Reread
            \/ Replay \/ Reload \/ ListenerDies

Next == \/ \E l \in Link : LinkStep(l)
        \/ \E u \in Remote : UserStep(u)
        \/ \E p \in Page : PageStep(p)
        \/ \E c \in Caller : CallStep(c)
        \/ HostStep

\* Requests and consumers that have begun go on; a key whose TTL nobody renews
\* expires.  People may do nothing, and a run may last: opening, leaving,
\* ignoring, inviting, posting and reloading are not fair.
Fairness ==
  /\ \A p \in Page : /\ WF_vars(ValidateOnline(p)) /\ WF_vars(SetOnline(p))
                     /\ WF_vars(Accept(p))
                     /\ WF_vars(ReadStatus(p)) /\ WF_vars(DropOnline(p))
  /\ \A u \in Remote : WF_vars(SetIgnored(u)) /\ WF_vars(OnlineExpires(u))
  /\ \A c \in Caller : /\ WF_vars(Publish(c)) /\ WF_vars(CheckComplete(c))
                       /\ WF_vars(Announce(c))
  /\ WF_vars(CheckReady) /\ WF_vars(StartRun) /\ WF_vars(Park)
  /\ WF_vars(Snapshot) /\ WF_vars(Subscribe)
  /\ WF_vars(HearComplete \/ HearUpdate) /\ WF_vars(Reread) /\ WF_vars(Replay)

Spec == Init /\ [][Next]_vars
FairSpec == Spec /\ Fairness

-----------------------------------------------------------------------------
(* Properties.                                                             *)

\* Somebody is about to publish, or to check and announce, that all are there.
Announcing == \E c \in Caller : step[c] \in {"publish", "check", "ready"}

\* No wake-up is lost: while the panel listens and everybody is there, an event
\* is on its way or a request that will publish one is under way; except for
\* what was announced between snapshot and subscription, or failed.
ToldWhenReady == host = "listening" /\ AllReady /\ ~missed => inbox # {} \/ Announcing

\* The next run waits for every user who went away during the one before, and
\* for this the gate needs no latch.
NextRunWaits == [][host # "running" /\ host' = "running" => dropped = {}]_vars

\* A parked session whose users are all there, and stay, goes on by itself; or
\* its request is answered with an error, or its socket died.
Waiting == host \in {"panel", "gap", "listening", "hearing", "told"}
RunsWhenReady ==
  Waiting /\ AllReady ~> host \in {"running", "free", "deaf"} \/ missed \/ ~AllReady

\* A user without a page is not taken for online for ever, however the page
\* ended.
HasPage(u) == \E p \in Page : Owns(u, p) /\ (sock[p] # "closed" \/ step[p] # "none")
NoGhost == \A u \in Remote :
  presence[u] = "online" /\ ~HasPage(u) ~> presence[u] # "online" \/ HasPage(u)
=============================================================================
