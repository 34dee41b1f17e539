----------------------------- MODULE OAuthGate ------------------------------
(***************************************************************************)
(* The gate that holds a run back until every MCP server that asks for     *)
(* OAuth has a Bearer token: the check of /run/, the consent windows and   *)
(* their callbacks, the readiness counter and its channel, the socket that *)
(* follows it, and the card of the host's tab that posts the run again.    *)
(*                                                                         *)
(* Four parties move: the run handler, the callbacks (one per window, a    *)
(* new one when the host clicks again), the socket, and the tab.  One      *)
(* action stands for one Redis call and what follows it up to the next.    *)
(* The host opens the card's buttons only; a message typed past the card,  *)
(* a first message of attachments alone, and a second tab are left out.    *)
(***************************************************************************)
EXTENDS Naturals, FiniteSets, Sequences

CONSTANTS
  Server,     \* the reachable MCP servers that require OAuth
  Flow,       \* bound: consent flows under way at a time
  None,       \* no flow in the window
  Chats,      \* what the project may be: TRUE for one assistant and no remote users
  MaxFaults   \* bound: failed calls, lost messages, expiries, second clicks, reloads

ASSUME ServerAssumption == Server # {} /\ IsFiniteSet(Server)
ASSUME FlowAssumption == None \notin Flow \cup Server
ASSUME FaultsAssumption == MaxFaults \in Nat /\ Chats \subseteq BOOLEAN

Total == Cardinality(Server)

VARIABLES
  chat,       \* the project is in single-assistant chat mode
  task,       \* the run that is posted, or that the card will post, has a text
  status,     \* chat_sessions.status, as far as the gate writes it
  run,        \* where the run handler is
  lacking,    \* the servers its last look found without a token
  lease,      \* "leaked": kept by a build that failed, until it expires
  team,       \* the cached team: None, or the servers it has a Bearer for
  token,      \* servers whose token key exists
  counter,    \* the readiness counter
  card,       \* the tab shows the authorization card
  rows,       \* the card's rows
  stash,      \* the pending list the card was opened with
  ws,         \* the readiness socket
  inbox,      \* frames on their way to the tab
  win,        \* per server: the flow its consent window shows
  flow,       \* per flow: its server, its step, the count it was told
  faults

words   == <<chat, task>>
gate    == <<status, run, lacking, lease, team>>
redis   == <<token, counter>>
tab     == <<card, rows, stash>>
socket  == <<ws, inbox>>
consent == <<win, flow>>
vars    == <<words, gate, redis, tab, socket, consent, faults>>

Free == [of |-> None, at |-> "free", count |-> 0]
Row  == {"absent", "pending", "authorized"}
Frame == [type : {"state"}, servers : SUBSET Server]
           \cup [type : {"update"}, server : Server] \cup [type : {"complete"}]

TypeOK ==
  /\ chat \in Chats /\ task \in BOOLEAN
  /\ status \in {"idle", "awaiting_mcp_oauth", "running"}
  /\ run \in {"none", "posted", "parking", "refused", "passed", "streaming"}
  /\ lacking \subseteq Server /\ lease \in {"free", "leaked"}
  /\ team \in {None} \cup SUBSET Server
  /\ token \subseteq Server /\ counter \in Nat
  /\ card \in BOOLEAN /\ rows \in [Server -> Row] /\ stash \subseteq Server
  /\ ws \in {"none", "accepted", "sent", "subscribed"} /\ inbox \in Seq(Frame)
  /\ win \in [Server -> Flow \cup {None}]
  /\ flow \in [Flow -> [of : Server \cup {None}, count : Nat,
                         at : {"free", "consent", "redeem", "stored", "counted", "done"}]]
  /\ faults \in 0..MaxFaults

NoRows == [s \in Server |-> "absent"]

\* A session that has never run: some tokens may be left from an earlier one.
Init ==
  /\ chat \in Chats /\ task = FALSE
  /\ status = "idle" /\ run = "none" /\ lacking = {} /\ lease = "free" /\ team = None
  /\ token \in SUBSET Server /\ counter = 0
  /\ card = FALSE /\ rows = NoRows /\ stash = {}
  /\ ws = "none" /\ inbox = <<>>
  /\ win = [s \in Server |-> None] /\ flow = [f \in Flow |-> Free]
  /\ faults = 0

Smooth == faults' = faults
Faulty == faults < MaxFaults /\ faults' = faults + 1

-----------------------------------------------------------------------------
(* The run handler.                                                        *)

\* compute_pending_oauth_servers: a Redis error counts every server.
Look ==
  \/ lacking' = Server \ token /\ Smooth
  \/ lacking' = Server /\ Faulty

\* The host sends a message.
PostRun ==
  /\ run = "none" /\ ~card /\ status = "idle"
  /\ run' = "posted" /\ task' = TRUE
  /\ UNCHANGED <<chat, status, lacking, lease, team, redis, tab, socket, consent, faults>>

\* 400: in chat mode an empty task is accepted from no session that is parked.
Empty == chat /\ ~task
RefuseEmpty ==
  /\ run = "posted" /\ Empty
  /\ run' = "none"
  /\ UNCHANGED <<words, status, lacking, lease, team, redis, tab, socket, consent, faults>>

\* Nothing lacking: the lease, the status and the counter's deletion (silent when
\* Redis fails), unless a failed build still holds the lease.
CheckTokens ==
  /\ run = "posted" /\ ~Empty
  /\ \/ /\ Look /\ lacking' # {} /\ run' = "parking"
        /\ UNCHANGED <<status, counter>>
     \/ /\ Look /\ lacking' = {} /\ lease = "leaked" /\ run' = "none"
        /\ UNCHANGED <<status, counter>>
     \/ /\ token = Server /\ lacking' = {} /\ lease = "free" /\ run' = "passed"
        /\ status' = "running"
        /\ \/ counter' = 0 /\ Smooth
           \/ UNCHANGED counter /\ Faulty
  /\ UNCHANGED <<words, lease, team, token, tab, socket, consent>>

Park_FromZero ==
  /\ run = "parking" /\ run' = "refused"
  /\ counter' = 0 /\ Smooth
  /\ status' = "awaiting_mcp_oauth"
  /\ UNCHANGED <<words, lacking, lease, team, token, tab, socket, consent>>

\* init_mcp_oauth_readiness (silent when Redis fails), then the status.
Park ==
  /\ run = "parking" /\ run' = "refused"
  /\ \/ counter' = Total - Cardinality(lacking) /\ Smooth
     \/ UNCHANGED counter /\ Faulty
  /\ status' = "awaiting_mcp_oauth"
  /\ UNCHANGED <<words, lacking, lease, team, token, tab, socket, consent>>

\* get_or_build_team: a cached team is reused as it is; a new one needs every
\* token, and a failed build looks again.  It returns with the lease held, and
\* the card that its event opens has no text to post again.
Builds_Lenient == TRUE
Builds == token = Server
BuildTeam ==
  /\ run = "passed"
  /\ \/ /\ team # None \/ Builds
        /\ team' = (IF team = None THEN token ELSE team)
        /\ run' = "streaming"
        /\ UNCHANGED <<status, lacking, lease, task, faults>>
     \/ /\ team = None
        /\ \/ ~Builds /\ Look
           \/ Builds /\ Faulty /\ lacking' \in {{}, Server}
        /\ team' = None /\ lease' = "leaked"
        /\ \/ lacking' # {} /\ run' = "parking" /\ task' = FALSE /\ UNCHANGED status
           \/ lacking' = {} /\ run' = "none" /\ status' = "idle" /\ UNCHANGED task
  /\ UNCHANGED <<chat, redis, tab, socket, consent>>

\* The run pauses with its team cached, or ends and evicts it.
EndRun ==
  /\ run = "streaming" /\ run' = "none" /\ status' = "idle"
  /\ team' \in {team, None}
  /\ UNCHANGED <<words, lacking, lease, redis, tab, socket, consent, faults>>

LeaseExpires ==
  /\ lease = "leaked" /\ lease' = "free"
  /\ UNCHANGED <<words, status, run, lacking, team, redis, tab, socket, consent, faults>>

-----------------------------------------------------------------------------
(* The consent windows.  A window has the server's name, so a second click *)
(* navigates it to a new flow; the callback of the first goes on unseen.   *)

Set(f, of, at, count) == flow' = [flow EXCEPT ![f] = [of |-> of, at |-> at, count |-> count]]
Shown(f)   == flow[f].of # None /\ win[flow[f].of] = f
Close(f)   == win' = [s \in Server |-> IF win[s] = f THEN None ELSE win[s]]

\* The state key is set (silently not, if Redis fails: the callback refuses).
Authorize(s, f) ==
  /\ card /\ rows[s] = "pending" /\ flow[f].at = "free"
  /\ IF win[s] = None THEN Smooth ELSE Faulty
  /\ win' = [win EXCEPT ![s] = f]
  /\ flow' = [g \in Flow |->
       IF g = f THEN [of |-> s, at |-> "consent", count |-> 0]
       ELSE IF g = win[s] /\ flow[g].at = "consent" THEN Free ELSE flow[g]]
  /\ UNCHANGED <<words, gate, redis, tab, socket>>

\* get_and_delete_mcp_oauth_state.
Recover(f) ==
  /\ flow[f].at = "consent" /\ Set(f, flow[f].of, "redeem", 0)
  /\ UNCHANGED <<words, win, gate, redis, tab, socket, faults>>

\* Denied, state expired or used, exchange failed: an error page.
Refuse(f) ==
  /\ flow[f].at \in {"consent", "redeem"} /\ Faulty
  /\ Close(f) /\ flow' = [flow EXCEPT ![f] = Free]
  /\ UNCHANGED <<words, gate, redis, tab, socket>>

\* set_mcp_oauth_token: silent when Redis fails.
StoreToken(f) ==
  /\ flow[f].at = "redeem" /\ Set(f, flow[f].of, "stored", 0)
  /\ \/ token' = token \cup {flow[f].of} /\ Smooth
     \/ UNCHANGED token /\ Faulty
  /\ UNCHANGED <<words, counter, win, gate, tab, socket>>

\* The INCR of publish_oauth_server_authorized; without it nothing is published.
Increment(f) ==
  /\ flow[f].at = "stored"
  /\ \/ counter' = counter + 1 /\ Set(f, flow[f].of, "counted", counter + 1) /\ Smooth
     \/ UNCHANGED counter /\ Set(f, flow[f].of, "done", 0) /\ Faulty
  /\ UNCHANGED <<words, token, win, gate, tab, socket>>

\* The frames one event makes, and whether the socket goes on listening.
Enough(n) == n >= Total
Complete  == [type |-> "complete"]
Update(s) == [type |-> "update", server |-> s]

\* The PUBLISH, and what the socket makes of the event if it has subscribed.
Publish(f) ==
  /\ flow[f].at = "counted" /\ Set(f, flow[f].of, "done", 0)
  /\ \/ /\ ws = "subscribed" /\ Smooth
        /\ inbox' = inbox \o <<Update(flow[f].of)>>
                      \o (IF Enough(flow[f].count) THEN <<Complete>> ELSE <<>>)
        /\ ws' = IF Enough(flow[f].count) THEN "none" ELSE ws
     \/ /\ IF ws = "subscribed" THEN Faulty ELSE Smooth
        /\ UNCHANGED <<ws, inbox>>
  /\ UNCHANGED <<words, win, gate, redis, tab>>

TokenExpires(s) ==
  /\ s \in token /\ token' = token \ {s} /\ Faulty
  /\ UNCHANGED <<words, counter, gate, tab, socket, consent>>

-----------------------------------------------------------------------------
(* The socket: the snapshot first, the subscription after it.              *)

Snapshot ==
  /\ ws = "accepted"
  /\ \E seen \in {token, {}} :
       /\ IF seen = token THEN Smooth ELSE Faulty
       /\ inbox' = Append(inbox, [type |-> "state", servers |-> seen])
                     \o (IF seen = Server THEN <<Complete>> ELSE <<>>)
       /\ ws' = IF seen = Server THEN "none" ELSE "sent"
  /\ UNCHANGED <<words, gate, redis, tab, consent>>

Subscribe ==
  /\ ws = "sent"
  /\ \/ ws' = "subscribed" /\ Smooth
     \/ ws' = "none" /\ Faulty
  /\ UNCHANGED <<words, inbox, gate, redis, tab, consent>>

-----------------------------------------------------------------------------
(* The tab.                                                                *)

OpenCard(list) ==
  card' = TRUE /\ rows' = NoRows /\ stash' = list /\ ws' = "accepted" /\ inbox' = <<>>

\* The 409 of /run/, or the awaiting_mcp_oauth event of its stream.
ShowCard ==
  /\ run = "refused" /\ run' = "none" /\ OpenCard(lacking)
  /\ UNCHANGED <<words, status, lacking, lease, team, redis, consent, faults>>

\* Rows are rendered once: a row that is there already keeps what it says.
Render(names, authorized) ==
  [s \in Server |-> IF rows[s] # "absent" \/ s \notin names THEN rows[s]
                    ELSE IF s \in authorized THEN "authorized" ELSE "pending"]
Mark(table, s) == IF table[s] = "absent" THEN table ELSE [table EXCEPT ![s] = "authorized"]
AllRows(table) ==
  /\ \E s \in Server : table[s] # "absent"
  /\ \A s \in Server : table[s] # "pending"

Replay_TeardownOnly ==
  /\ card' = FALSE /\ rows' = NoRows /\ stash' = {}
  /\ ws' = "none" /\ inbox' = <<>>
  /\ run' = run

\* _onAllAuthorized: the card goes and the run is posted again.
Replay ==
  /\ card' = FALSE /\ rows' = NoRows /\ stash' = {}
  /\ ws' = "none" /\ inbox' = <<>>
  /\ run' = "posted"

\* The window's postMessage, unless the window shows another flow or is lost.
HearWindow(f) ==
  /\ flow[f].at = "done" /\ Close(f) /\ flow' = [flow EXCEPT ![f] = Free]
  /\ LET table == Mark(Render(stash, {}), flow[f].of) IN
       \/ /\ Shown(f) /\ card /\ AllRows(table) /\ Replay /\ Smooth
       \/ /\ Shown(f) /\ card /\ ~AllRows(table) /\ Smooth
          /\ rows' = table /\ stash' = {}
          /\ UNCHANGED <<card, ws, inbox, run>>
       \/ /\ IF Shown(f) /\ card THEN Faulty ELSE Smooth
          /\ UNCHANGED <<tab, socket, run>>
  /\ UNCHANGED <<words, status, lacking, lease, team, redis>>

\* A frame of the socket.  "update" marks its row and never counts the rows.
Receive ==
  /\ card /\ inbox # <<>>
  /\ LET m == Head(inbox) IN
       \/ /\ m.type = "complete" /\ Replay
       \/ /\ m.type = "state" /\ rows' = Render(Server, m.servers)
          /\ stash' = {} /\ inbox' = Tail(inbox) /\ UNCHANGED <<card, ws, run>>
       \/ /\ m.type = "update" /\ rows' = Mark(Render(stash, {}), m.server)
          /\ stash' = {} /\ inbox' = Tail(inbox) /\ UNCHANGED <<card, ws, run>>
  /\ UNCHANGED <<words, status, lacking, lease, team, redis, consent, faults>>

\* The card has no button left to press, and nothing is coming.
Idle == /\ run = "none" /\ ws \notin {"accepted", "sent"} /\ inbox = <<>>
        /\ \A f \in Flow : flow[f].at = "free"
        /\ \A s \in Server : rows[s] # "pending"

\* The host reloads then, or at any time; the server renders the card of a parked
\* session again, but the text that the card was to post is gone.
Reload ==
  /\ status = "awaiting_mcp_oauth" /\ run = "none" /\ OpenCard({})
  /\ task' = FALSE
  /\ IF Idle THEN Smooth ELSE Faulty
  /\ UNCHANGED <<chat, gate, redis, consent>>

Next ==
  \/ PostRun \/ RefuseEmpty \/ CheckTokens \/ Park \/ BuildTeam \/ EndRun \/ LeaseExpires
  \/ Snapshot \/ Subscribe \/ ShowCard \/ Receive \/ Reload
  \/ \E s \in Server : TokenExpires(s) \/ \E f \in Flow : Authorize(s, f)
  \/ \E f \in Flow : Recover(f) \/ Refuse(f) \/ StoreToken(f) \/ Increment(f)
                       \/ Publish(f) \/ HearWindow(f)

Spec == Init /\ [][Next]_vars

-----------------------------------------------------------------------------
(* Fairness: handlers, callbacks, the socket and the tab go on; the host    *)
(* presses the buttons there are, consents, and reloads a dead card.        *)

FairSpec ==
  /\ Spec
  /\ WF_vars(RefuseEmpty) /\ WF_vars(CheckTokens) /\ WF_vars(Park)
  /\ WF_vars(BuildTeam) /\ WF_vars(LeaseExpires)
  /\ WF_vars(Snapshot) /\ WF_vars(Subscribe)
  /\ WF_vars(ShowCard) /\ WF_vars(Receive) /\ WF_vars(Idle /\ Reload)
  /\ \A f \in Flow : /\ WF_vars(\E s \in Server : Authorize(s, f))
                     /\ WF_vars(Recover(f)) /\ WF_vars(StoreToken(f))
                     /\ WF_vars(Increment(f)) /\ WF_vars(Publish(f)) /\ WF_vars(HearWindow(f))

\* The counter is moved by the gate and by callbacks, and the tokens by
\* callbacks alone.  Where no call failed and no button was pressed twice they
\* agree: at rest the count is the number of tokens, and a "complete" frame
\* tells the truth, in the gap before the subscription too.
CounterIsHonest ==
  faults = 0 =>
    /\ card /\ (\A f \in Flow : flow[f].at = "free") => counter = Cardinality(token)
    /\ (\E i \in DOMAIN inbox : inbox[i] = Complete) => token = Server

\* Whatever the panel was told, and whatever expired between the gate and the
\* build: a run streams only with a team that has a Bearer for every server.
NoRunWithoutBearer == run = "streaming" => team = Server

\* A parked session gets going again, or fails in the open: lost frames, a
\* missed subscription, failed stores and early completes only delay it.  Not so
\* in chat mode once the card has lost its text: what it posts is refused for ever.
Resumes ==
  status = "awaiting_mcp_oauth" ~> (run = "streaming" \/ status = "idle" \/ Empty)

\* The run that a full card posts again is not turned away: it starts, or the
\* gate parks it anew.
ReplayAccepted ==
  [][run = "posted" /\ status = "awaiting_mcp_oauth" => run' # "none"]_vars
=============================================================================
