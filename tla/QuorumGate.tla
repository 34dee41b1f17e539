----------------------------- MODULE QuorumGate -----------------------------
(***************************************************************************)
(* The human gate of a session whose project has remote users: how the     *)
(* answers of the host and of the remote users close a gate round, and how *)
(* their words reach the next run.                                         *)
(*                                                                         *)
(* Host and remote users answer by POSTs that other workers may serve: each*)
(* is a sequence of Redis and MongoDB calls, and every action below stands *)
(* for the calls of one handler up to the next one that others can see.    *)
(* The run itself is reduced to what it does to the gate (RunLifecycle     *)
(* has the rest): it takes the pending task, then pauses or completes.     *)
(***************************************************************************)
EXTENDS Naturals, FiniteSets

CONSTANTS
  HostTab,    \* browser tabs of the host, each with one request at a time
  Page,       \* pages of remote users, each with one request at a time
  Remote,     \* remote users
  Owner,      \* whose page it is; a user may have several, and answer twice at once
  Gate,       \* the host's name at the gate
  None,       \* no winner, no pending task
  Quorums,    \* the quorum modes the project may have
  MaxRound,   \* bound: gate rounds
  MaxFaults   \* bound: handlers that fail half-way, answers that expire, double posts

Client == HostTab \cup Page
Person == Remote \cup {Gate}
Round  == 1..MaxRound
Name(c) == IF c \in HostTab THEN Gate ELSE Owner[c]

ASSUME NamesAssumption ==
  /\ HostTab \cap Page = {} /\ Owner \in [Page -> Remote]
  /\ Gate \notin Remote /\ None \notin Person
ASSUME BoundsAssumption ==
  /\ MaxRound \in Nat \ {0} /\ MaxFaults \in Nat
  /\ Quorums \subseteq {"first_win", "all"}

(* Where a handler is.  From "claimed" on it holds the winner key.         *)
Winning == {"claimed", "spoken", "queued"}
Point   == {"none", "read", "silent", "stored", "checking", "ready", "cleared"} \cup Winning
Reply   == {"none", "empty", "words"}
Request == [round : Round, expected : SUBSET Person, words : SUBSET Person]
NoRequest == [round |-> 1, expected |-> {}, words |-> {}]

VARIABLES
  quorum,    \* project.human_gate.quorum
  status,    \* chat_sessions.status
  round,     \* chat_sessions.current_round
  run,       \* the run: none, started (task not yet taken), streaming
  winner,    \* per round: the gate_winner key
  answers,   \* per round and person: the gate_response key, and whether it says anything
  pending,   \* the pending_task key: round and authors of its text
  ignored,   \* remote users whose status key says "ignored"
  said,      \* per round: who has a message in discussions[]
  at,        \* per client: the point its request has reached
  req,       \* per client: what its request has read
  commits,   \* history: how often a round was committed
  excused,   \* history: remote users ignored at some time in the round at hand
  faults     \* history: faults so far

keys    == <<winner, answers, pending>>
session == <<status, round, run>>
history == <<commits, excused>>
vars    == <<quorum, session, keys, ignored, said, at, req, history, faults>>

TypeOK ==
  /\ quorum \in Quorums
  /\ status \in {"awaiting_input", "idle", "running", "completed", "stopped"}
  /\ round \in Round /\ run \in {"none", "started", "streaming"}
  /\ winner \in [Round -> Person \cup {None}]
  /\ answers \in [Round -> [Person -> Reply]]
  /\ pending \in {None} \cup [round : Round, words : SUBSET Person]
  /\ ignored \subseteq Remote
  /\ said \in [Round -> SUBSET Person]
  /\ at \in [Client -> Point] /\ req \in [Client -> Request]
  /\ commits \in [Round -> Nat] /\ excused \subseteq Remote
  /\ faults \in 0..MaxFaults

\* The first run has paused at the gate.
Init ==
  /\ quorum \in Quorums
  /\ status = "awaiting_input" /\ round = 1 /\ run = "none"
  /\ winner = [n \in Round |-> None] /\ answers = [n \in Round |-> [p \in Person |-> "none"]]
  /\ pending = None /\ ignored = {}
  /\ said = [n \in Round |-> {}]
  /\ at = [c \in Client |-> "none"]
  /\ req = [c \in Client |-> NoRequest]
  /\ commits = [n \in Round |-> 0] /\ excused = {}
  /\ faults = 0

Move(c, from, to) == at[c] = from /\ at' = [at EXCEPT ![c] = to]
Return(c) == at' = [at EXCEPT ![c] = "none"] /\ req' = [req EXCEPT ![c] = NoRequest]
Say(c)   == said' = [said EXCEPT ![req[c].round] = @ \cup {Name(c)}]
Store(c) == answers' = [answers EXCEPT ![req[c].round][Name(c)] =
                          IF req[c].words = {} THEN "empty" ELSE "words"]
Answered(n) == {p \in Person : answers[n][p] # "none"}
WithWords(n) == {p \in Person : answers[n][p] = "words"}

-----------------------------------------------------------------------------
(* A request reads the session, then the statuses of the remote users.  The*)
(* host may continue without a word; a remote user must say something, and *)
(* may do so again while his first request is under way.                   *)

Doubles(c) == \E d \in Client \ {c} : Name(d) = Name(c) /\ at[d] # "none"

Post(c) ==
  /\ status = "awaiting_input"
  /\ IF Doubles(c) /\ c \in Page
       THEN faults < MaxFaults /\ faults' = faults + 1 ELSE UNCHANGED faults
  /\ Name(c) \notin ignored
  /\ Move(c, "none", "read")
  /\ \E words \in {{}, {Name(c)}} :
       /\ words = {} => c \in HostTab
       /\ req' = [req EXCEPT ![c] = [round |-> round, words |-> words,
                                     expected |-> Person \ ignored]]
  /\ UNCHANGED <<quorum, session, keys, ignored, said, history>>

\* The host stops the session instead.
Stop(h) ==
  /\ at[h] = "read" /\ Return(h)
  /\ status' = "stopped"
  /\ UNCHANGED <<quorum, round, run, keys, ignored, said, history, faults>>

-----------------------------------------------------------------------------
(* first_win: the first claim commits.  all: the host's final continue.    *)

\* Mutant: SET without NX.
Claim_WithoutNX(c) ==
  /\ at[c] = (IF quorum = "first_win" THEN "read" ELSE "ready")
  /\ winner' = [winner EXCEPT ![req[c].round] = Name(c)]
  /\ at' = [at EXCEPT ![c] = IF quorum = "first_win" THEN "claimed" ELSE "spoken"]
  /\ UNCHANGED <<quorum, session, answers, pending, ignored, said, req, history, faults>>

Claim(c) ==
  /\ at[c] = (IF quorum = "first_win" THEN "read" ELSE "ready")
  /\ IF winner[req[c].round] = None
       THEN /\ winner' = [winner EXCEPT ![req[c].round] = Name(c)]
            /\ at' = [at EXCEPT ![c] = IF quorum = "first_win" THEN "claimed" ELSE "spoken"]
            /\ UNCHANGED req
       ELSE Return(c) /\ UNCHANGED winner
  /\ UNCHANGED <<quorum, session, answers, pending, ignored, said, history, faults>>

\* The winner of first_win stores its answer and speaks; nobody reads the one.
Speak(c) ==
  /\ Move(c, "claimed", "spoken")
  /\ Store(c) /\ Say(c)
  /\ UNCHANGED <<quorum, session, winner, pending, ignored, req, history, faults>>

\* An empty composition leaves the pending task as it is.
Queue(c) ==
  /\ Move(c, "spoken", "queued")
  /\ pending' = IF req[c].words = {} THEN pending
                ELSE [round |-> req[c].round, words |-> req[c].words]
  /\ UNCHANGED <<quorum, session, winner, answers, ignored, said, req, history, faults>>

\* One DEL for the answers of the expected responders and the winner key.
Clear(c) ==
  /\ Move(c, "queued", "cleared")
  /\ answers' = [answers EXCEPT ![req[c].round] =
                   [p \in Person |-> IF p \in req[c].expected THEN "none" ELSE @[p]]]
  /\ winner' = [winner EXCEPT ![req[c].round] = None]
  /\ UNCHANGED <<quorum, session, pending, ignored, said, req, history, faults>>

Commit(c) ==
  /\ at[c] = "cleared" /\ Return(c)
  /\ status' = "idle"
  /\ commits' = [commits EXCEPT ![req[c].round] = @ + 1]
  /\ UNCHANGED <<quorum, round, run, keys, ignored, said, excused, faults>>

-----------------------------------------------------------------------------
(* all: who has an answer stored does not answer again, but the look-up and*)
(* the write are two steps, so that two pages of a user may both say it.   *)
(* The host stores, then speaks; a remote user speaks, then stores.        *)

Look(c) ==
  /\ quorum = "all"
  /\ Move(c, "read", IF Name(c) \in Answered(req[c].round) THEN "checking" ELSE "silent")
  /\ UNCHANGED <<quorum, session, keys, ignored, said, req, history, faults>>

\* Mutant: everybody stores, then speaks.
Answer_StoresFirst(c) ==
  /\ \/ Move(c, "silent", "stored") /\ Store(c) /\ UNCHANGED said
     \/ /\ Move(c, "stored", "checking") /\ UNCHANGED answers
        /\ IF req[c].words = {} THEN UNCHANGED said ELSE Say(c)
  /\ UNCHANGED <<quorum, session, winner, pending, ignored, req, history, faults>>

Answer(c) ==
  /\ \/ Move(c, "silent", "stored")
        /\ IF c \in HostTab
             THEN Store(c) /\ UNCHANGED said
             ELSE Say(c) /\ UNCHANGED answers
     \/ Move(c, "stored", "checking")
        /\ IF c \in HostTab
             THEN /\ IF req[c].words = {} THEN UNCHANGED said ELSE Say(c)
                  /\ UNCHANGED answers
             ELSE Store(c) /\ UNCHANGED said
  /\ UNCHANGED <<quorum, session, winner, pending, ignored, req, history, faults>>

\* The composition has the answers that say something; an empty one is skipped.
Proceed(c) ==
  /\ at' = [at EXCEPT ![c] = "ready"]
  /\ req' = [req EXCEPT ![c].words = req[c].expected \cap WithWords(req[c].round)]

\* Mutants: the last remote user commits; the host need not wait for all.
CheckAll_RemoteCommits(c) ==
  /\ at[c] = "checking"
  /\ IF req[c].expected \subseteq Answered(req[c].round) THEN Proceed(c) ELSE Return(c)
  /\ UNCHANGED <<quorum, session, keys, ignored, said, history, faults>>

CheckAll_NotAll(c) ==
  /\ at[c] = "checking"
  /\ IF c \in HostTab THEN Proceed(c) ELSE Return(c)
  /\ UNCHANGED <<quorum, session, keys, ignored, said, history, faults>>

\* Everybody the request expects must have answered; only the host goes on.
CheckAll(c) ==
  /\ at[c] = "checking"
  /\ IF c \in HostTab /\ req[c].expected \subseteq Answered(req[c].round)
       THEN Proceed(c) ELSE Return(c)
  /\ UNCHANGED <<quorum, session, keys, ignored, said, history, faults>>

-----------------------------------------------------------------------------
(* The host ignores a remote user, or takes that back.                     *)

Ignore(p) ==
  /\ p \notin ignored
  /\ ignored' = ignored \cup {p}
  /\ excused' = excused \cup {p}
  /\ UNCHANGED <<quorum, session, keys, said, at, req, commits, faults>>

Unignore(p) ==
  /\ p \in ignored
  /\ ignored' = ignored \ {p}
  /\ UNCHANGED <<quorum, session, keys, said, at, req, history, faults>>

-----------------------------------------------------------------------------
(* The run, as far as the gate sees it.                                    *)

StartRun(h) ==
  /\ at[h] = "none" /\ run = "none"
  /\ status \in {"idle", "awaiting_input"}
  /\ status' = "running" /\ run' = "started"
  /\ UNCHANGED <<quorum, round, keys, ignored, said, at, req, history, faults>>

\* Mutant: GET where the code has GETDEL.
PopPending_Keeps ==
  /\ run = "started" /\ run' = "streaming"
  /\ UNCHANGED <<quorum, status, round, keys, ignored, said, at, req, history, faults>>

PopPending ==
  /\ run = "started" /\ run' = "streaming"
  /\ pending' = None
  /\ UNCHANGED <<quorum, status, round, winner, answers, ignored, said, at, req, history, faults>>

PauseAtGate ==
  /\ run = "streaming" /\ run' = "none"
  /\ round < MaxRound
  /\ status' = "awaiting_input" /\ round' = round + 1
  /\ excused' = ignored
  /\ UNCHANGED <<quorum, keys, ignored, said, at, req, commits, faults>>

Complete ==
  /\ run = "streaming" /\ run' = "none"
  /\ status' = "completed"
  /\ UNCHANGED <<quorum, round, keys, ignored, said, at, req, history, faults>>

-----------------------------------------------------------------------------
(* Faults: a Redis or MongoDB error ends a handler where it is; keys expire.*)

Fail(c) ==
  /\ faults < MaxFaults /\ faults' = faults + 1
  /\ at[c] # "none" /\ Return(c)
  /\ UNCHANGED <<quorum, session, keys, ignored, said, history>>

AnswerExpires(n, p) ==
  /\ faults < MaxFaults /\ faults' = faults + 1
  /\ answers[n][p] # "none" /\ answers' = [answers EXCEPT ![n][p] = "none"]
  /\ UNCHANGED <<quorum, session, winner, pending, ignored, said, at, req, history>>

\* Mutant: a winner key set without EX.
WinnerExpires_WithoutTTL(n) == FALSE /\ UNCHANGED vars

\* The TTL of the winner key outlasts the handler that holds it.
WinnerExpires(n) ==
  /\ winner[n] # None
  /\ \A c \in Client : ~ (at[c] \in Winning /\ req[c].round = n)
  /\ winner' = [winner EXCEPT ![n] = None]
  /\ UNCHANGED <<quorum, session, answers, pending, ignored, said, at, req, history, faults>>

PendingExpires ==
  /\ pending # None /\ pending' = None
  /\ UNCHANGED <<quorum, session, winner, answers, ignored, said, at, req, history, faults>>

-----------------------------------------------------------------------------
Handle(c) ==
  \/ Claim(c) \/ Speak(c) \/ Queue(c) \/ Clear(c) \/ Commit(c)
  \/ Look(c) \/ Answer(c) \/ CheckAll(c)

Next ==
  \/ \E c \in Client : Post(c) \/ Handle(c) \/ Fail(c)
  \/ \E p \in Remote : Ignore(p) \/ Unignore(p)
  \/ \E h \in HostTab : Stop(h) \/ StartRun(h)
  \/ PopPending \/ PauseAtGate \/ Complete \/ PendingExpires
  \/ \E n \in Round : WinnerExpires(n) \/ \E p \in Person : AnswerExpires(n, p)

Spec == Init /\ [][Next]_vars

-----------------------------------------------------------------------------
(* Properties.                                                             *)

\* Of all the requests that answer a round, on whatever workers, one at a time
\* composes, queues and clears.
ClaimExclusive ==
  \A c, d \in Client :
    at[c] \in Winning /\ at[d] \in Winning /\ req[c].round = req[d].round => c = d

\* A gate round is committed by one responder, once.
RoundCommitsOnce == \A n \in Round : commits[n] <= 1

\* In all mode that is so with one host tab: nobody else finalizes.
AllCommitsOnce == quorum = "all" => RoundCommitsOnce

\* The task that an all round hands to the run has the words of every remote user
\* who was never ignored in that round, through expired answers, double posts and
\* failed requests.
AllAreHeard ==
  quorum = "all" /\ pending # None /\ pending.round = round =>
    Remote \ excused \subseteq pending.words

\* A run never takes the words of an earlier round: with one host tab in all
\* mode the pending task belongs to the round at hand.
PendingIsCurrent == quorum = "all" /\ pending # None => pending.round = round

\* Whose words the next run is handed has them in the discussion of that round,
\* though handlers fail between the two writes and a second page of a user, or an
\* expired answer, makes him say them again.  The host of an all round is excepted:
\* he stores his answer first, and a retry does not repeat what is stored.
TaskOnRecord ==
  pending # None =>
    \A p \in pending.words : p \in said[pending.round] \/ (quorum = "all" /\ p = Gate)

-----------------------------------------------------------------------------
(* Fairness: handlers run on, keys with a TTL expire, and the people at the*)
(* gate answer when they can: a remote user who is ignored and invited     *)
(* again, over and over, still finds a moment to answer.                   *)

FairSpec ==
  /\ Spec
  /\ \A c \in Client : WF_vars(Handle(c))
  /\ \A p \in Person : SF_vars(\E c \in Client : Name(c) = p /\ Post(c))
  /\ \A n \in Round : WF_vars(WinnerExpires(n))

\* A gate at which people answer does not stay shut, although a winner may fail
\* with the winner key in its hands.
GateMovesOn == status = "awaiting_input" ~> status # "awaiting_input"
=============================================================================
