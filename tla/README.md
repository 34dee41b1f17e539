# Verification of the product-discovery server

The repository is a Django/ASGI server on which a host drives teams of AutoGen
agents: a chat session runs a team, pauses at a human gate, takes the answers of
the host and of remote users, and goes on.  Several workers serve the same
sessions; MongoDB holds the documents and Redis the leases, signals, answers
and offers that coordinate the workers.  Around the runs stand the projects that
configure them, the OAuth consent that their tools need, the attachments and the
discussion of a session, and the export of items to Jira and Trello.  This
directory models that system in TLA+, checks it with TLC and proves its main
invariants with TLAPS.

Paths below are relative to `src/`.

## 1. The system

| Component | State | Operations | Hard behaviours | What makes it correct |
|---|---|---|---|---|
| Run lifecycle (`server/views.py` `chat_session_run`, `_respond`, `_restart`, `_stop`, `_delete`; `server/services.py`) | `chat_sessions.status`, `current_round`, `agent_state` | POST `/run/` as a stream, gate pause, completion, stop, restart, delete | every `await` lets another request, an expiry or a crash in; two nested `finally` blocks; client disconnects | one run at a time; a running session has a run; rounds bounded; finished sessions revived by restart only |
| Run coordination (`agents/session_coordination.py`) | Redis lease (SET NX EX, Lua compare-and-expire and compare-and-delete), cancel key | acquire, renew, release, signal, poll | owner id is the process, not the run; keys expire | mutual exclusion; a stop is not forgotten; a lease always comes back |
| Team runtime cache (`agents/runtime.py`) | per process: cached team, ExternalTermination, cancellation token | get or build, evict, reset token, cancel | stale token or termination left by another run | a stop ends the run it was meant for |
| Boot (`server/apps.py`) | — | `ready()` makes running sessions idle | other workers may be streaming | a crash leaves no session stuck; live runs are spared |
| Human gate and quorum (`views.chat_session_respond`, `remote_user_views.remote_user_respond`) | gate_response, gate_winner, pending_task keys; discussions[] | first_win: claim, store, queue, clear, commit; all: answer, check, host finalizes | answers race on several workers; handlers fail between two keys; keys expire | one winner; everybody heard, once; the task reaches the next run only |
| team_choice turns (`agents/team_choice_proxy_agent.py`) | active_request, claim and response keys | the agent offers, waits, withdraws; the user posts | the agent of a torn-down run polls on; claim deleted under a late POST | one answer per turn; offers have agents; turns end |
| Remote user presence (`remote_user_views.py`, `consumers.py`) | invitation tokens, status keys, readiness latch, sockets | invite, join, online, ignore, disconnect; host readiness socket | get-then-delete on the status; snapshot before subscription | the next run waits for required users; the host is told when all are there |
| MCP OAuth readiness (`server/mcp_views.py`, `consumers.py`, `home.js`, `agents/mcp_tools.py`) | PKCE state, Bearer tokens, readiness counter, consent windows, the host's card | gate of `/run/`, start, callback, readiness socket, window message, replay | the counter is kept apart from the tokens; snapshot before subscription; a second click; expiry between gate and build | no run without its Bearers; a parked session gets going; the replay is accepted |
| Projects (`server/services.py`, `schemas.py`, `trello_service.py`) | versioned documents with secrets | create, load, save, clone, guarded delete, Trello token | forms open for a long time; a save reads, merges, replaces; check-then-delete | masks replace no secret; a session resumes under its own team |
| Discussions and export payloads (`services.py`, `jira_service.py`, `trello_service.py`) | `discussions[]` | append; read and rewrite of the whole array; mark after push | lost updates, a mark on items that changed | what was said stays; what is marked was pushed |
| Attachments (`attachment_service.py`, `storage_backends.py`) | blob, document, cached text | upload, bind, extract, withdraw, delete with the session | three stores, partial failure, overlapping calls | metadata names bytes; deletion leaves none; texts go with their attachments |
| Jira and Trello export (`jira_client.py`, `jira_software_service.py`, `trello_client.py`) | items, BFS queue, keys of created issues | normalise, repair, create, retry, update | refusals, unanswered calls, malformed trees | a legal tree; each item once, and reported |
| Guest access (`guest_views.py`) | one token per session, presence flag | invite, revoke, watch | — | not modelled |
| Extraction, team construction, model catalogue, tracing, settings | none shared | — | — | not modelled |
| Browser code | — | posts requests, listens to sockets | any tab at any time | the environment of the models, but for the host's panel and card |

The components meet in four places.  The **session status** is written by runs,
by the gate, by restarts, by pre-run gates and at boot.  The **Redis keys** of a
session are shared by all workers.  The **pending task** and the **answers of a
turn** carry words from a responder's POST into a run on another worker.  The
**session document** holds the discussion, which runs append to and export
dialogs rewrite, and goes last when a session and its attachments are deleted.

## 2. Modules

| Module | Contents |
|---|---|
| `RunSlot` | Abstract specification: a slot for one run and a round counter only its occupant advances. |
| `RunLifecycle` | The POST `/run/` requests of one session on several workers, with the host's other calls, faults and expiries. Implements `RunSlot`. |
| `MCRunLifecycle` | Symmetry for TLC. |
| `RunLifecycleProofs` | Type correctness, mutual exclusion, the refinement, the round limit, ownership of running sessions, finished sessions, stops. |
| `QuorumGate`, `MCQuorumGate` | A human gate round in first_win and all mode. |
| `QuorumGateProofs` | Types, one winner at a time, the words on record; the properties of all mode with one host tab. |
| `TeamTurn`, `MCTeamTurn` | The turns of team_choice proxies and the POSTs that answer them. |
| `TeamTurnProofs` | Types, agents behind offers, answerable turns, one answer per open turn. |
| `RemotePresence`, `MCRemotePresence` | Presence of the remote users, and the gate before a run that waits for them. |
| `RemotePresenceProofs` | Types, the gate, no lost wake-up. |
| `OAuthGate`, `MCOAuthGate` | The gate before a run that waits for Bearer tokens, the consent flows that bring them, and the card that posts the run again. |
| `OAuthGateProofs` | Types, no run without its Bearers, the counter. |
| `Projects`, `MCProjects` | A project document, the forms that edit it, its clone, its token, a session of it. |
| `ProjectsProofs` | Types, masks, resumed sessions, the token. |
| `Discussions` | The discussions array and the export dialogs that rewrite it. |
| `Attachments`, `MCSessionStores` | Attachments over three stores, a run that binds them, deletion of the session; composed with `Discussions` (EXTENDS), whose messages its run appends and whose document its deletion removes. |
| `AttachmentsProofs` | Types, stores, cache, and the intact discussion. |
| `TreeWalk` | Abstract specification: the items of a forest get their issues and outcomes, parents first. |
| `ExportPush`, `MCExportPush` | One push request to Jira (three kinds of project) or Trello. Implements `TreeWalk`. |
| `ExportPushProofs` | Types, the repaired tree, the links, the rows, the refinement. |

### RunLifecycle and the code

`pc[r]` says where a run is; a step of the model is the code between two points
at which others can see or change something.

| pc | Code (`server/views.py` unless named) |
|---|---|
| new, admitted | status check 1071; then the pre-run gates 1104-1193 (`Park`) or the lease |
| leased, cleared | `acquire_run_lease` 1226, `clear_cancel_signal` 1236, `try_set_session_running` 1246 |
| aborting | 503/409 with the lease given back, 1238-1257, unless Redis fails at that too |
| running, built, armed | start of `event_stream`: `get_or_build_team` 1334-1390, `reset_cancel_token` 1392 |
| streaming | the loop over the team's messages 1439-1530; `PollCancel` is 1526, `HeartbeatLost` 1312-1332 |
| gating, completing | after the TaskResult 1532-1546: pause (1547-1568) or completion (1569-1576) |
| interrupted, failed | `except CancelledError` 1650 and `except Exception` 1666 |
| guard, unstick | inner `finally` 1702-1715, which makes a stuck session idle |
| closing, released | outer `finally`: lease 1716-1723, cancel key 1724 |
| leaked | the request ended and no `finally` ran |
| dead | the worker died |

`Disconnect` is a CancelledError at an await: it may hit the outcomes, the guard and
the closing steps as well.  A status that `to_thread` is writing at that moment is
written all the same (`WriteUnderWay`), at once or not at all: that the thread
overtakes later steps of the handler is left out.

`lease`, `cancelSignal` are the Redis keys; `team`, `registered`, `token` the
process-local objects of `agents/runtime.py`; `calls` holds the host's
`/respond/` and `/restart/` requests between their status check and their write;
`stopAt` a `/stop/` between its Redis half and its local half.  `acquirer` and
`owed` are history variables: they occur in no guard.

### QuorumGate and the code

`at[c]` is the point a responder's request has reached: read (the session and
the statuses), claimed, spoken, queued, cleared (the key operations of the
first_win branch and of the host's final continue), silent, stored, checking,
ready (the all branch).  A remote user may have several pages and post from two at
once (`Doubles`); the look-up of his answer, the message and the storing of the
answer are three steps (`remote_user_views.py` 645-660).  The host's order is the
other one: store, then the message (`views.py` 1894-1908).  `req[c]` is what the
request read at its start and still uses.  Words are represented by their authors,
and an answer by whether it has any, since an empty one is skipped in the task (503)
and an empty task is not stored (1870).  The run is reduced to none, started (pending
task not yet taken) and streaming.

### TeamTurn and the code

`stage[t]` is the agent of a turn: asked, waiting (offer published, polling),
closing (in the `finally` of `on_messages_stream`), deleting (offer found to be
its own), done.  `at[c]` is a tab's POST: posted (status checked), read (offer
read), claimed, stored.  `heard` are the turns whose answer the agent popped.
`abandoned` and `stranded` are history: turns whose run was torn down, and turns
whose offer Redis did not let the agent withdraw.

### RemotePresence and the code

`presence[u]` is the status key of a user (none is offline), `valid` the tokens
whose reverse key exists.  Three kinds of actor change or read them.

| State | Code |
|---|---|
| `sock[p]`: connecting, open | `RemoteChatConsumer` in `server/consumers.py`: the token is looked up, the socket accepted |
| `sock[p]`: leaving, dropping | its end: `set_remote_user_offline_if_online` has begun, has read online and will delete the key (`agents/session_coordination.py` 1388) |
| `step[c]`: posted, validated | POST online of a page (`server/remote_user_views.py`): before and after the token's check |
| `step[c]`: revoked | POST ignore of the host: the token is revoked, the status not yet set |
| `step[c]`: publish, check, ready | either request: status set; update published; found that all are there, complete not yet published |
| `host`: posted, clear, park | the run request in `server/views.py`: gate not yet passed, passed, refused |
| `host`: panel, gap, listening, hearing | the host's readiness socket: not yet connected, snapshot sent but not subscribed, subscribed, an event read and the statuses not yet |
| `host`: deaf, told | the listener died; the panel knows that all are there and will post the run again (`home.js` 1131) |

`inbox` holds the events between publication and the listener; `update` and
`complete` each at most once, since the consumer does the same on the second.
`dropped` and `missed` are history variables.  The model has one tab of the
host; two tabs would each have a panel and a run request, and which of the
requests gets the session is the matter of `RunLifecycle`.  Left out are keys
and events that no modelled step depends on: the readiness latch (read only to be
deleted), the forward key of a token, export keys, the eviction event (it asks a
page to leave, which it may do at any time) and the purge on session delete.

### OAuthGate and the code

| State | Code |
|---|---|
| `run`: posted, parking, refused, passed, streaming | `/run/` in `server/views.py`: request received; tokens found missing (1118), counter and status not yet written; 409 or event on its way to the tab; lease, status and counter's deletion done; team built (1334) |
| `lease` = leaked | the return of a failed build (1350, 1386, 1390) without the `finally`; nothing else of the lease matters here |
| `flow[f]`: consent, redeem, stored, counted, done | a consent window and its callback in `server/mcp_views.py`: at the provider; state key taken (`get_and_delete_mcp_oauth_state`); token exchanged and stored; counter incremented; event published, page not yet in the window |
| `win[s]` | which flow the window named after server s shows: a second click navigates it |
| `ws`: accepted, sent, subscribed | `OAuthReadinessConsumer`: before the snapshot, in the gap after it, listening |
| `card`, `rows`, `stash`, `inbox` | the authorization card of `home.js`: its rows, the list it was opened with, the frames not yet handled |

Redis errors that the code swallows are branches of the action that meets them
(`Look`, `CheckTokens`, `Park`, `StoreToken`, `Increment`); each costs a fault.  So
does an expiry, a refusal, a lost message, a second click, and a reload that nothing
called for.  `task` says whether the run that is posted, or that the card will post,
has a text: the card of a 409 keeps it, that of a failed build (`home.js` 1506) and
that of a reload (1882-1890) do not.  In single-assistant chat mode (`chat`) `/run/`
answers 400 to an empty task (`RefuseEmpty`, `views.py` 1101-1102).  A message that
the host types past the card, and a first message of attachments alone, are left out.

### Projects and the code

`ReadForSave` is `update_project` up to its `find_one`, with the form as
`_build_project_data` reads it; `Replace` is the rest (restored secrets, version,
`replace_one`).  `form[t]` is what `normalize_project` showed when the page was
loaded.  `token` and `key` are the two ways secrets are restored: the Trello token
comes from another page and is kept when a form shows none, every other secret
goes if the form says so.  `trello` is the section's switch in the form: off, the
section is stored without a token (`Validated`, `schemas.py` 590-604).  `session` and `creating` are a chat session's insertion
in two steps (`create_chat_session`), `deleting` the two of `delete_project`.

### Discussions, Attachments and the code

A dialog's request is at `reading`, `writing` (`set_discussion_export_payload`,
before and after its `find_one`), `push` (the call of ExportPush) or `pushed`
(before `save_push_result`).  `Att` go through `upload_session_attachments`,
`bind_attachments_to_message`, `build_attachment_context_block`,
`delete_staged_attachment` and `delete_session_attachments`; an action is what one
of them does to one store.  `strays`, `missing` and `stale` are history variables:
bytes that the deletion could not have erased, or failed to; bytes erased by a call
that reported a failure; texts cached after the purge meant for them, or left by it
because Redis was out of reach (the purges log that and go on).  A text and its entry
in the session's `index` are two commands without a transaction, and the purge of a
session reads the index, then deletes what it has read (`toPurge`): a text entered
in between is `stale` too.  `clobbered` marks
the moment at which a rewrite replaces an array it has not read.

### ExportPush and the code

`Repair` is `normalize_item` and `repair_hierarchy` as a whole.  `BeginCreate`,
`UpdateExisting` and the answers are one pass of the loop of
`push_issues_software`; `method` says how the next POST links the issue (`parent`;
after a refusal `epic_link`; then `none`), and `stripped` that the retry without
the refused fields is under way.  `BeginRequest`, `BeginBusiness` and `BeginCard`
are the loops over flat items.  The roots, and the children of an item, are sets;
`Enqueue` appends such a set in the order of the list, as the two loops of the code
do.  `Lost` is an unanswered call: it ends the request,
whether or not the issue was made.

## 3. Runs

| Run | Question | Bounds, and why they suffice |
|---|---|---|
| `RunLifecycle_core` | With everything switched on, is there one run at a time, are rounds bounded, is `RunSlot` implemented? | 2 workers, 2 runs, 1 tab, max_iterations 1, all gates, calls and faults. Exclusion, stale status and stale round are conflicts of two parties; the theorems lift the bound. |
| `RunLifecycle_live` | Does every running session have a run, is a finished one revived by restart only, does it stop running, does the lease come back? | 2 workers, 3 runs (one finishes, one was admitted before, one after), crash, build and agent faults, restart. |
| `RunLifecycle_stop` | Is a stop remembered until seen, and does it end the run? | 1 run, 2 workers: the stop comes to the run's own or to the other worker. |
| `QuorumGate_rounds` | One winner at a time, everybody heard, a round of all mode committed once, the task's words in the discussion of its round; no words of an earlier round; the gate moves on. | host and 1 remote user with 2 pages (double posts), 2 rounds, both modes, 1 fault at any point, ignore/unignore unbounded. Races at a gate are of two responders; the host and a remote user take different paths through the code, and a second remote user is in `QuorumGate_twice`. All but GateMovesOn are proved for any number of remote users and rounds. |
| `TeamTurn_offers` | One answer per open turn, no offer without an agent, turns and offers end. | 2 turns (the agent of a torn-down run next to the one of the new run), 1 user with 2 tabs, any 2 of torn-down runs and Redis errors. |
| `RemotePresence_gate` | Is the host's panel told when all are there, does the run then start by itself, does the next run wait for those who left, does a user without a page go offline? | 2 users, one with a link and a page, the other ignored or missing, so that one user's request can complete what the other's is about to announce; 1 fault at any point. The theorems lift the bound for the two safety properties, to several pages of one user among others. |
| `OAuthGate_resume` | Does a run stream without a Bearer, is the counter right as long as nothing failed, does a parked session get going again? | 2 servers, so that the count can reach the total while one is missing; 2 flows, so that callbacks overlap; 2 faults of any kind (an expiry and a lost message together leave a card without a way out but the reload); projects with and without single-assistant chat mode. |
| `Projects_versions` | Do old forms harm secrets or versions; does a session resume under its own team? | 2 forms, 1 secret, 3 saves, clones or tokens: enough to change the team, undo it, and save an old form after that; or to enable Trello, give it a token, and save a form that shows neither. |
| `SessionStores_agree` | Do the three stores agree; does a text outlive its attachment in the cache; is the discussion intact unless a rewrite overlapped? | 2 dialogs and a late message (a rewrite can lose the message or the other dialog's payload), 2 drafts, 1 attachment (they do not depend on each other), 1 failing call. |
| `ExportPush_tree` | Is the pushed tree legal, every item created at most once and reported, parents first, is a lost link told, is `TreeWalk` implemented, does the push end? | 3 items with any parents and types (a chain of three ranks, a cycle, an unknown parent), a project with all types and one without features and sub-tasks, 1 item with an existing issue, every answer at every call. |

Two runs look for a behaviour that a document of the repository excludes, and
find it.

| Run | What happens | What the text says |
|---|---|---|
| `QuorumGate_twice` | first_win: the winner key is deleted before the status changes, so a second responder claims and commits the same round. | `docs/agent_teams.md:83`, `agents/session_coordination.py:1002` |
| `OAuthGate_replay` | The team cannot be built, and Redis does not answer when the handler asks which tokens there are, so that all count as missing (an expired token has the same effect). The session is parked again and the handler returns with the lease held; the card's socket finds every token, the card completes without a new consent and posts the run, which is refused with 409 until the lease expires. | `docs/chat_session_readiness_cards.md:115`, `.agents/skills/active_session_coordination/SKILL.md:42` |

`CHECK_DEADLOCK FALSE` everywhere: the pools of runs, turns, rounds, drafts and
saves are finite, a push ends, and a session that is completed, stopped or deleted
may stay so.

### Fairness

- `Scheduling` (RunLifecycle): a handler that is not waiting for the team goes
  on, because asyncio resumes a coroutine whose await is done; the heartbeat is
  a task of its own; a dead worker is restarted by its supervisor; a key set
  with EX expires.  No fairness for requests, faults, or the host's calls.
- `TeamSpeaks`: the team produces messages, so the cancel key is polled.  This
  is a promise of the model service, therefore separate; without it a stop on
  another worker may not end the run (section 6).
- `TurnsEnd`: a team turn ends.  `AgentMessageTermination` and AutoGen's loop
  promise it if the model calls return.  Only `RunLifecycle_live` assumes it.
- QuorumGate: weak fairness of handlers and of the winner key's TTL; strong
  fairness, per person, of a `Post` from any page, since a user who is ignored and invited again over and
  over is able to post only now and then.  `GateMovesOn` speaks of a gate at
  which people do answer.
- TeamTurn: weak fairness of agents (the poll loop has a deadline), of handlers
  and of the offer's TTL.  None of the users' POSTs: a turn ends although nobody
  answers.
- RemotePresence: weak fairness of the steps of requests and consumers that have
  begun, of the panel's automatic POST, and of the TTL of a status key that no
  open socket renews.  People open, leave, ignore and reload as they like, and a
  run may last: none of it is fair.

- OAuthGate: weak fairness of the run handler, the callbacks, the socket, the tab
  and the lease's TTL; and of the host, who presses a button that is there
  (`Authorize`), consents (`Recover`), and reloads a card that has no button left
  and nothing coming (`Reload`).  That is what "resumes" asks of a person: the
  code itself cannot consent.  None for faults; they are bounded, as a provider
  that refuses for ever lets no run resume.
- ExportPush: weak fairness of the whole (`WF_vars(Next)`): the handler runs on,
  and each of its calls has a timeout (15 or 20 s), so that it is answered or
  `Lost`.
- Projects, Discussions and Attachments promise no progress; their runs check
  safety under `Spec`.

### Punctual

`Punctual` says that the lease TTL outlasts the gap between two heartbeats and
the time from the lease to the first heartbeat, and that the cancel key outlasts
the gap between two polls.  With the defaults (lease 300 s, heartbeat a third of
that, cancel key 120 s) this is what the settings aim at, but nothing enforces
it: a stalled event loop, or a long team build, may exceed the TTL.  Without it
MutualExclusion fails: the lease expires under a run and another worker starts
a second one; the release cannot tell two runs of one process apart, because
the owner id is host:pid.

## 4. Proofs

The theorems hold for any numbers of workers, runs, tabs, users, rounds, turns
and faults.  Every invariant and every action property of the passing runs is
proved.  Some theorems assume something of the constants, which the sections below
name: Punctual TTLs, one host tab in all mode, distinct `temp_id`s, or that certain
faults or calls are left out.  Each of these stands for a case in which the code does
violate the property, described in section 6 or under Punctual above.

**RunLifecycleProofs.**  MutualExclusion is not inductive: nothing in it
connects the lease with the runs.  The invariant `LeaseInv` adds `Held` (a run
between acquisition and release has its worker in the lease key, and is its
`acquirer`) and `Placed` (such a run has a worker).  With these, a second SET NX
is impossible, a compare-and-delete deletes the run's own lease only, and
expiry, by Punctual, hits no run that is alive.
- `TypeCorrect`: `Spec => []TypeOK`.
- `OneRunAtATime` (Punctual): `Spec => []MutualExclusion`.
- `SlotRefinement` (Punctual): `Spec => ImplementsSlot`.  Holders gives the
  slot; each action maps to Start, Pause, End or a stutter.
- `RoundLimit` (Punctual): `RoundInv` adds that in a team session a run between
  its read of the round and its increment still has `round < MaxIter`; mutual
  exclusion is what keeps another run from incrementing in between.
- `RunningOwned` (no disconnect, no set-up failure): a running session has an
  owner.  `Owners` says that a run past TakeRunning and the status change
  together; the two faults are excluded because the code does violate it then
  (section 6).
- `FinalUntilRestart` (`Undisturbed`: Punctual, no pre-run gates, no stop or
  continue calls, no disconnect): `Spec => OnlyRestartRevives`.  A run that still has to write its
  outcome would revive a session that was completed meanwhile.  `Unsettled` says that
  there is none: while the session is final no run is between TakeRunning and its
  outcome, nor about to unstick the session; `CallsMade` that no call under way is of
  the kind left out.
- `OnlyLateClearForgets` (Punctual): for any number of run requests, the one step
  that can turn a remembered stop into a forgotten one is the clear of the cancel
  key by a run that has already given back its lease.  `OwedIsPast` says that a run
  which a stop was signalled to has passed its own clear; the lease keeps all others
  from theirs.
- `StopIsRemembered` (Punctual, one run request): `Spec => []StopRemembered`.  With
  a second request the late clear is a real loss (section 6).

**QuorumGateProofs.**  `TypeCorrect`.  `OneWinnerAtATime`: `LockInv` says that for a
request between claim and clear the winner key of its round is set, and that no
other request is there.  WinnerExpires is the delicate step: its guard is the
assumption that the TTL outlasts a handler.

The theorems on all mode assume one host tab (`OneTab`; `QuorumGate_twice` shows
what two do) and hold for any number of remote users, rounds and faults.
`AllModeCommitsOnce`, `AllModeHears` and `AllModeIsCurrent`
rest on `AllInv`: while the tab's request is under way
(`Serving`) the session stays at that gate and no run starts; no remote user's
request gets past CheckAll; from there on the host's holds the words of all it
expects; who is not expected was ignored in the round (`Heard`); no round is
committed before it is reached, nor while its gate is open (`Counted`).

`WordsOnRecord` (TaskOnRecord) needs no assumption: `Answering` says that whoever's
answer is stored has spoken, or is about to, the host of an all round excepted, and
`Carrying` that a request which composes carries only such words.  Neither depends
on how many pages post at once or which handlers fail.

**TeamTurnProofs.**  `TypeCorrect`; `AgentBehindOffer` (an offered turn's agent is
still there, whatever runs are torn down, unless its withdrawal has failed); `TurnCanBeAnswered` (no torn-down run:
only one turn is between asked and done, so the offer is the current one);
`OneAnswerAtATime` by `AnswerInv`: an accepted answer has its claim key as long
as the turn is open, and a turn never offered has none.

**RemotePresenceProofs.**  `TypeCorrect`.  `GateHolds` (NextRunWaits):
`GoneIsOffline` (a user who left during a run and is not back has no status) and
`ClearedForAll` (a request that has passed the gate has nobody of these to wait
for) are what ties the gate's test to the start of the run, which comes later.
`NoLostWakeUp` (ToldWhenReady): by itself the property is not inductive, because
the panel comes to listening from the gap; `Awake` states it from the snapshot
on, where nothing can be in the inbox yet, so that some request is still to
announce, or `missed` says that it has done so in vain.

**OAuthGateProofs.**  `TypeCorrect`.  `BearerForEveryServer`: the property by itself says
nothing of a team that waits in the cache.  `TeamComplete` does: a cached team was
built when every token was there (`Builds`), and it keeps its Bearers, whatever
happens to the tokens, the counter or the card.

`CountHonest` (CounterIsHonest): the property looks at the gate at rest, and says
nothing of what leads there.  `HonestInv` says it of every state without a fault, as
one of three phases.  `Unopened`: the card was never shown, and the run handler alone
counts.  `Opened`: each flow under way has the window of its server (`Consented`);
the count is that of the tokens whose callback has counted them (`Counted`); a row
lags behind the tokens only where a flow or a frame is on its way (`RowsFollow`); and
each frame not yet received is true (`FramesTrue`), also the snapshot that was
overtaken in the gap.  `Authorized`: every server has its token and the card is
closed for good.  A second consent for the same server would count it twice; it
cannot begin because the button of a server that has its token, or a flow, is gone.
The proof uses that the constant `None` is neither a flow nor a server
(FlowAssumption): a window that names no flow is told from one that does.

**ProjectsProofs.**  `TypeCorrect`.  `SecretsSurvive`: `Clean` says that the
documents which saves have read are free of masks, as a masked secret is restored
from these, not from the project.  It holds for overlapping saves too.
`ResumedAsCreated`: equal versions mean equal teams only because versions grow:
`Serial` (the one save under way has read the project as it is) and `Dated` (a
session, or one about to be inserted, is no newer than the project, and if it is
as new, of its configuration).  `TokenKept` follows from `Serial`: what a save puts
back is the token of the project it replaces, unless its form switches Trello off.

**ExportPushProofs.**  `LegalTree`: `Repair` makes the tree, later steps leave it,
and the ranks of the types make every edge go down, which excludes cycles.
`LinksAccounted` needs three parts: `TreeInv`, `UnderWay` (how the item under way
is to be linked, and what its row says if its link was given up), and `Keyed` (a
key in temp_to_key is the item's own, hence the assumption of distinct ids).

`RowsAccounted` (EveryItemAccounted, which itself speaks of distinct ids): `Walking`
sees the walk as a whole.  An item is `Due` if it is a root, or if its parent has its
row and has not failed; every due item waits in the queue, once, or is under way
(`Busy`), or has its one row, and nothing else waits or has a row.  The lemmas
`ListingFacts`, `HeadLeaves` and `MoreWait` turn the queue, a sequence, into the set
of those that wait; `RowGiven` is the one step that matters: a row makes the children
due in the moment in which they are appended, or, if the item failed, neither.  At
the end nothing waits, so the items without a row are those that never became due.
`NotDueIsBelow` shows that these are exactly BelowFailed: they form a set that
descends, and, rank by rank (five ranks, no induction over data), every set that
descends has them all.

`ParentsFirst` (distinct ids): `Spec => ImplementsWalk`, the claim of the comment at
`jira_client.py` 764 ("guarantees parents are created before children") for every
answer that Jira may give, and for Trello.  A queue says nothing of parents, so the
step that matters, `PendingIsReady`, comes from `Walking`: what waits or is under way
is due, hence `Ready` in `TreeWalk`.  `Repair` is its `Plan`: `Planted` shows that the
repaired parents are a forest, since in any set of items one of the lowest rank has
its parent outside.  A row is a `Settle`, a Trello card before its checklists a
`Create`, an unanswered call an `Abort` with or without one more issue; the retries
and the head leaving the queue are stutters.

`TypeCorrect` needs `TreeInv` as well: after the repair a parent is an id with an
entry in temp_to_key.

**AttachmentsProofs.**  `TypeCorrect`.  `StoresConsistent`: `Backed` (an upload that
has sent its bytes, and a withdrawal that has not erased them, still have them) and
`Swept` (from the erasure of the prefix on, only strays are left).
`CacheConsistent` adds `Purged` (a cached text that is not stale is in the index, or
its run is about to enter it; once the deletion has read the index, it is among what
it read; after the purge there is none) and, in `Backed`, that the row of a withdrawn attachment stays gone
until its text is purged: a run that binds meanwhile does not bring it back.
`DiscussionIntact`: `Current` says that, as long as no rewrite has clobbered the
array, the document shows what a dialog between its save and its mark shows, so that
the mark lands on the items that were pushed.

## 5. Model-checked only

Liveness (RunningEnds, LeaseFreed, StopEndsRun, GateMovesOn, TurnEnds,
OfferEnds, RunsWhenReady, NoGhost, Resumes, PushEnds) is out of the prover's
reach, as is ENABLED, on which fairness rests.  No safety property of a passing
run is left to TLC alone.

## 6. Known divergences and limits

Found while modelling, without a run of their own:

- A client that leaves, or a failure, between `reset_cancel_token` and the inner
  `try` reaches the `finally` that releases the lease but not the guard; the
  session stays running until a restart (`views.py` 1392-1437).  A disconnect
  before the outer `try`, or in the closing steps themselves (1718), leaks the lease.
- A client that leaves while "completed" is being written is handled as a stop: the
  session is made "stopped" and its team evicted (1650-1660).  OnlyRestartRevives is
  therefore checked, and proved, without disconnects.
- A session that is deleted while a run streams (`views.py` 851-888) tells the run
  nothing: it goes on to its end, writes to a document that is gone, and leaves its
  team in the cache.  The properties of RunLifecycle hold through it, none forbids it.
- A run's last step clears the session's cancel key (`views.py` 1725) after it
  has given up the lease: a stop meant for the next run is lost if it arrives in
  between.  StopRemembered is therefore checked with one run; `OnlyLateClearForgets`
  shows that nothing else loses a stop, with any number of them.
- A pre-run gate parks the session unconditionally (`services.py` 871-901): a
  slow request may park a session that was completed meanwhile.
  OnlyRestartRevives is checked without pre-run gates, and without delayed
  continue calls, which do the same.
- `/restart/` and `/respond/` write idle after a stale check, also over running.
- ExternalTermination set by a stop survives on the cached team if the run ends
  another way; the next run stops at once (`runtime.py` 115-131).
- In all mode a remote user's words may enter the discussion twice: two POSTs at
  once both find no answer (`remote_user_views.py` 645) before either has stored one
  (654), a retry after a failure between the message and the answer repeats the
  message, and so does a POST between the clearing of the answers and the commit.
  TaskOnRecord says that they enter at least once, and the task once.
- A host whose handler fails between his stored answer and his message (`views.py`
  1894-1908) does not get into the discussion: the retry finds the answer.
  TaskOnRecord excepts him.
- In first_win the host's stop (`views.py` 1804) is overwritten by an answer that is
  under way and sets the session to idle (1873, or the remote user's commit).  In all
  mode only the host's own tab could do so.
- The composed task lives five minutes; if no run takes it the words reach no
  agent, though they stand in the discussion.
- The agent of a torn-down run may delete the next run's offer: its GET and DEL
  are two steps (`session_coordination.py` 711-726).  CurrentIsOnOffer speaks of
  behaviours without a torn-down run.
- An offer that Redis does not let its agent withdraw stands until its TTL, with
  nobody behind it (`stranded` in OfferHasAgent).
- The quorum chosen for the session is used when the team is built and shown to
  users, but `/respond/` reads the project's.
- The readiness consumer sends its snapshot before it subscribes
  (`consumers.py` 412): if the last user comes online in between, the panel is
  not told, although it says that "the run will resume automatically once all
  required users are online" (`home.js` 933).  `missed` marks this case, and
  ToldWhenReady and RunsWhenReady except it.
- `set_remote_user_offline_if_online` "preserves durable 'ignored' status", but
  reads the key and deletes it in two steps (`session_coordination.py`
  1388-1402): an ignore in between is lost, as is the online of a page that was
  reloaded.
- A new invitation leaves the old link valid, and an ignore revokes only the
  newest: an ignored user with an older link may come online again.
- The expiry of a status is not published: panels show it at the next event.
- The readiness latch decides nothing: the gate reads the statuses anyway.
- `docs/agent_teams.md` 314-321 lets another instance resume a run after a crash;
  the code makes the session idle and waits for the host.
- A failed team build returns with the lease held (`views.py` 1350, 1386, 1390):
  until its TTL every run is refused (`OAuthGate_replay` shows one consequence).
- `ready()` makes idle also the sessions that other workers are streaming
  (`apps.py` 44-49: "stuck in 'running' state from a previous server process").
- The heartbeat renews the lease and no more (`views.py` 1312-1332), although
  `docs/agent_teams.md` 310-312 has it poll the cancel key: a stop on another
  worker does not reach a team that is silent in a long call.
- A POST that read a turn's offer before the turn ended claims it again after the
  claim key was deleted (`session_coordination.py` 726), is told that it was
  accepted, and enters the discussion, though no agent reads it.
  OneAnswerWhileOpen speaks of the open turn.
- OAuth: a cached team keeps the Bearer it was built with after the host has
  authorized anew (`docs/mcp_integration.md` 446 asks to "re-authorize for the
  next run"); `update` frames mark rows but never count them, so that a card may
  show every row authorized and wait for a `complete` that was lost, until the
  host reloads.
- OAuth: the card of a reload, and of a failed build, posts an empty task
  (`home.js` 813, 1506, 1882-1890).  In single-assistant chat mode `/run/` refuses it
  with 400 (`views.py` 1101-1102) whatever the tokens, and the card that comes back
  posts the same: the session stays parked unless the host types a message past it,
  though "on full authorization, the run is replayed automatically"
  (`docs/chat_session_readiness_cards.md` 115).  Resumes excepts this case (`Empty`).
- A clone does not carry `mcp_oauth_configs` (`services.py` 655-664 does not list
  it), and `docs/ARCHITECTURE.md` 80 calls it a copy.
- Two saves that overlap, or a save and a new Trello token, lose a version bump or
  the token: the save replaces what it has not read.  SameVersionSameTeam and
  TokenNotLost speak of saves that do not overlap.
- A save whose form has Trello, or all integrations, switched off removes the stored
  token (`schemas.py` 590-604, after `services.py` 575-577 has restored it), also if
  the form was loaded before Trello was enabled, although
  `docs/trello_integration.md` 47 says: "Expiry: **never** — tokens persist until
  regenerated".  TokenNotLost excepts exactly this case, and no other.
- `delete_project` checks, then deletes: a session inserted in between has no
  project.
- Whole-array rewrites lose messages appended since the read, though "every human
  input, every agent output" is to be persisted (`PROJECT_CHARTER.md` 146).
  IntactUnlessClobbered says that nothing else loses them.
- A withdrawal deletes the row whatever it says by then: an attachment that a run
  has bound meanwhile is gone from its message.  A run may put a text into the
  cache after the purge, or between the purge's reading of the index and its
  deletion, where it stays for a day (`stale`); an upload that
  overlaps the deletion of its session leaves bytes (`strays`).
- `build_attachment_context_block` says that after an "extraction error: the result
  is **not** written to Redis" (`attachment_service.py` 416-418), and its comment at
  473 names a pypdf error.  The parsers' errors are caught inside
  `_extract_text_for_extension` (269-270) and give an empty text, which is cached
  like that of an empty file; the next run does not try again until it expires.
  `Extracted` has both outcomes.
- Jira: `temp_id`s that occur twice are not told apart, so that children hang
  below the last item with the id and a walk over such items may meet an item
  twice (hence DistinctIds); the items below one that failed are left out without
  a row, while `docs/jira_integration.md` 164 says of a child whose parent failed:
  "append a warning (`Parent '<id>' was not created; this issue will be created as a
  root.`) and proceed without a parent reference. Descendants of a failed root are
  skipped", and `.agents/skills/hierarchical_export_items/SKILL.md` 113 "demotes the
  child to root": the branch exists (`jira_client.py` 778-781), but nothing below a
  failed item gets into the queue; an unanswered call discards the rows of the issues that were made.
- `save_push_result` runs after the items were pushed; if it fails, the request
  reports an error and a second push creates the issues again.

## 7. Not modelled

Contents of messages, attachments and SSE frames; HTML; tracing; settings.  The
reads of Jira and Trello (projects, types, sprints, boards), which are the inputs
of a push, and the creation of a board or list, one call each.  Construction of
models and agents, which is a function of the configuration, and the extraction
of items, one model call: their results are inputs of the models.  Guest access:
a token and a presence flag, one key each, on which no other part depends.
Images among the attachments, which have no cached text.  The session's own
quorum, the readiness latch, MCP workbenches and the connection test of a
project's OAuth configuration.  Redis and MongoDB are taken to be linearizable
stores; an error of theirs is a fault of the model.

The modules are composed where components share state step by step (`Discussions`
in `Attachments`); elsewhere a module has the other's effect as an action of its
own (`Park` in `RunLifecycle`, the reduced run of `QuorumGate`, `TeamTurn`,
`RemotePresence` and `OAuthGate`).

## 8. What is left

1. An abstract gate (who waits is told; who starts has passed) that `OAuthGate`
   and `RemotePresence` both implement.
2. One session whose runs, gate rounds and team turns are those of `RunLifecycle`,
   `QuorumGate` and `TeamTurn`, with the status as the shared variable.
