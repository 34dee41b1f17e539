--------------------------- MODULE OAuthGateProofs ---------------------------
(***************************************************************************)
(* Proofs about OAuthGate for any set of servers, any number of flows and  *)
(* of faults.                                                              *)
(*                                                                         *)
(* NoRunWithoutBearer is not inductive by itself: a run that finds a cached*)
(* team takes it as it is, so the team must be known to be complete        *)
(* whenever there is one (TeamComplete), which no token expiry can break.  *)
(*                                                                         *)
(* CounterIsHonest needs the whole course of a consent without faults, in  *)
(* four phases (Unopened, Opened, Closed, Authorized), of which the second *)
(* relates flows, windows, tokens, the counter, the rows of the card and   *)
(* the frames on their way to it: a server is counted once because its     *)
(* button is pressed only where no flow of it is under way and no token is *)
(* stored.                                                                 *)
(***************************************************************************)
EXTENDS OAuthGate, FiniteSetTheorems, TLAPS

TeamComplete == team = None \/ team = Server
IInv == TeamComplete /\ NoRunWithoutBearer

LEMMA InitIInv == Init => IInv
BY DEF Init, IInv, TeamComplete, NoRunWithoutBearer

\* The run handler is the only one that moves a run or its team.
LEMMA NextIInv == IInv /\ [Next]_vars => IInv'
<1> SUFFICES ASSUME IInv, [Next]_vars PROVE IInv'
  OBVIOUS
<1> USE DEF IInv, TeamComplete, NoRunWithoutBearer
<1>1. CASE PostRun \/ RefuseEmpty
  BY <1>1 DEF PostRun, RefuseEmpty
<1>2. CASE CheckTokens
  BY <1>2 DEF CheckTokens
<1>3. CASE Park
  BY <1>3 DEF Park
<1>4. CASE BuildTeam
  BY <1>4 DEF BuildTeam, Builds
<1>5. CASE EndRun
  BY <1>5 DEF EndRun
<1>6. CASE LeaseExpires
  BY <1>6 DEF LeaseExpires
<1>7. CASE Snapshot \/ Subscribe
  BY <1>7 DEF Snapshot, Subscribe, gate
<1>8. CASE ShowCard
  BY <1>8 DEF ShowCard
<1>9. CASE Receive
  BY <1>9 DEF Receive, Replay
<1>10. CASE Reload
  BY <1>10 DEF Reload, gate
<1>11. ASSUME NEW s \in Server, TokenExpires(s) \/ \E f \in Flow : Authorize(s, f)
       PROVE IInv'
  BY <1>11 DEF TokenExpires, Authorize, gate
<1>12. ASSUME NEW f \in Flow,
              Recover(f) \/ Refuse(f) \/ StoreToken(f) \/ Increment(f) \/ Publish(f)
       PROVE IInv'
  BY <1>12 DEF Recover, Refuse, StoreToken, Increment, Publish, gate
<1>13. ASSUME NEW f \in Flow, HearWindow(f) PROVE IInv'
  BY <1>13 DEF HearWindow, Replay
<1>14. CASE UNCHANGED vars
  BY <1>14 DEF vars, gate
<1>15. QED
  BY <1>1, <1>2, <1>3, <1>4, <1>5, <1>6, <1>7, <1>8, <1>9, <1>10, <1>11, <1>12, <1>13,
     <1>14 DEF Next

\* A run streams only with a team that has a Bearer for every server that asks for
\* one: get_or_build_team, whatever the gate saw before and whatever expired since.
THEOREM BearerForEveryServer == Spec => []NoRunWithoutBearer
<1>1. IInv => NoRunWithoutBearer
  BY DEF IInv
<1>2. QED
  BY <1>1, InitIInv, NextIInv, PTL DEF Spec

-----------------------------------------------------------------------------
(***************************************************************************)
(* Types.  A flow that is not free has a server: without it a stored token *)
(* could be anybody's.                                                     *)
(***************************************************************************)
Owned   == \A f \in Flow : flow[f].at # "free" => flow[f].of \in Server
TypeInv == TypeOK /\ Owned

FlowState == [of : Server \cup {None}, count : Nat,
              at : {"free", "consent", "redeem", "stored", "counted", "done"}]

LEMMA TypeInit == Init => TypeInv
<1> SUFFICES ASSUME Init PROVE TypeInv
  OBVIOUS
<1>1. rows \in [Server -> Row] /\ inbox \in Seq(Frame) /\ faults \in 0..MaxFaults
  BY FaultsAssumption DEF Init, NoRows, Row
<1>2. flow \in [Flow -> FlowState] /\ win \in [Server -> Flow \cup {None}]
  BY DEF Init, Free, FlowState
<1>3. TypeOK
  BY <1>1, <1>2 DEF Init, TypeOK, FlowState
<1> QED BY <1>3 DEF TypeInv, Owned, Init, Free

\* What the tab makes of its rows are rows again.
LEMMA RowTypes ==
  ASSUME rows \in [Server -> Row], NEW A, NEW B
  PROVE  /\ Render(A, B) \in [Server -> Row]
         /\ \A s \in Server : Mark(Render(A, B), s) \in [Server -> Row]
BY DEF Render, Mark, Row

\* One flow moves on, or is free again.
LEMMA FlowTypes ==
  ASSUME TypeInv, NEW f \in Flow, NEW g \in FlowState, g.at = "free" \/ g.of \in Server,
         flow' = [flow EXCEPT ![f] = g]
  PROVE  flow' \in [Flow -> FlowState] /\ Owned'
BY DEF TypeInv, TypeOK, FlowState, Owned

LEMMA FreeState == Free \in FlowState /\ Free.at = "free"
BY DEF Free, FlowState

LEMMA BusyState ==
  ASSUME NEW s \in Server, NEW n \in Nat,
         NEW at \in {"consent", "redeem", "stored", "counted", "done"}
  PROVE  /\ [of |-> s, at |-> at, count |-> n] \in FlowState
         /\ [of |-> s, at |-> at, count |-> n].of = s
BY DEF FlowState

LEMMA NoFrames == <<>> \in Seq(Frame)
OBVIOUS

USE DEF words, gate, redis, tab, socket, consent

LEMMA TypeStep == TypeInv /\ [Next]_vars => TypeInv'
<1> SUFFICES ASSUME TypeInv, [Next]_vars PROVE TypeOK' /\ Owned'
  BY DEF TypeInv
<1> USE DEF TypeInv, TypeOK, Smooth, Faulty, Owned
<1>0. faults < MaxFaults => faults + 1 \in 0..MaxFaults
  BY FaultsAssumption
<1>1. CASE PostRun \/ RefuseEmpty \/ LeaseExpires \/ EndRun
  BY <1>1 DEF PostRun, RefuseEmpty, LeaseExpires, EndRun
<1>2. CASE CheckTokens
  BY <1>0, <1>2 DEF CheckTokens, Look
<1>3. CASE Park
  <2>1. Cardinality(Server) \in Nat /\ Total - Cardinality(lacking) \in Nat
    BY ServerAssumption, FS_CardinalityType, FS_Subset DEF Total
  <2> QED BY <1>0, <1>3, <2>1 DEF Park
<1>4. CASE BuildTeam
  BY <1>0, <1>4 DEF BuildTeam, Builds, Look
<1>5. CASE Snapshot
  <2>1. PICK seen \in SUBSET Server :
          inbox' = Append(inbox, [type |-> "state", servers |-> seen])
                     \o (IF seen = Server THEN <<Complete>> ELSE <<>>)
    BY <1>5 DEF Snapshot
  <2>2. [type |-> "state", servers |-> seen] \in Frame /\ Complete \in Frame
    BY DEF Frame, Complete
  <2>3. inbox' \in Seq(Frame)
    BY <2>1, <2>2
  <2> QED BY <1>0, <1>5, <2>3 DEF Snapshot
<1>6. CASE Subscribe
  BY <1>0, <1>6 DEF Subscribe
<1>7. CASE ShowCard \/ Reload
  <2>1. NoRows \in [Server -> Row]
    BY DEF NoRows, Row
  <2> QED BY <1>0, <1>7, <2>1, NoFrames DEF ShowCard, Reload, OpenCard
<1>8. CASE Receive
  <2>1. NoRows \in [Server -> Row]
    BY DEF NoRows, Row
  <2>2. Head(inbox) \in Frame /\ Tail(inbox) \in Seq(Frame)
    BY <1>8 DEF Receive
  <2>3. Head(inbox).type = "update" => Head(inbox).server \in Server
    BY <2>2 DEF Frame
  <2>4. CASE Replay
    BY <1>8, <2>1, <2>4, NoFrames DEF Receive, Replay
  <2>5. CASE rows' = Render(Server, Head(inbox).servers) /\ inbox' = Tail(inbox)
    <3>1. rows' \in [Server -> Row]
      BY <2>5, RowTypes
    <3> QED BY <1>8, <2>2, <2>5, <3>1 DEF Receive, Replay
  <2>6. CASE /\ rows' = Mark(Render(stash, {}), Head(inbox).server) /\ inbox' = Tail(inbox)
             /\ Head(inbox).type = "update"
    <3>1. rows' \in [Server -> Row]
      BY <2>3, <2>6, RowTypes
    <3> QED BY <1>8, <2>2, <2>6, <3>1 DEF Receive, Replay
  <2> QED BY <1>8, <2>4, <2>5, <2>6 DEF Receive
<1>9. ASSUME NEW s \in Server, TokenExpires(s) PROVE TypeOK' /\ Owned'
  BY <1>0, <1>9 DEF TokenExpires
<1>10. ASSUME NEW s \in Server, NEW f \in Flow, Authorize(s, f) PROVE TypeOK' /\ Owned'
  <2>1. [of |-> s, at |-> "consent", count |-> 0] \in FlowState
    BY BusyState
  <2>2. /\ flow' \in [Flow -> FlowState]
        /\ \A g \in Flow : flow'[g].at # "free" => flow'[g].of \in Server
    BY <1>10, <2>1, FreeState DEF Authorize, FlowState
  <2>3. win' \in [Server -> Flow \cup {None}] /\ faults' \in 0..MaxFaults
    BY <1>0, <1>10 DEF Authorize
  <2> QED BY <1>10, <2>2, <2>3 DEF Authorize, FlowState
<1>11. ASSUME NEW f \in Flow, Recover(f) \/ Refuse(f) PROVE TypeOK' /\ Owned'
  <2>0. flow[f].of \in Server
    BY <1>11 DEF Recover, Refuse
  <2>1. PICK g \in FlowState :
          (g.at = "free" \/ g.of \in Server) /\ flow' = [flow EXCEPT ![f] = g]
    BY <1>11, <2>0, FreeState, BusyState DEF Recover, Refuse, Set
  <2>3. flow' \in [Flow -> FlowState] /\ Owned'
    BY <2>1, FlowTypes
  <2>2. win' \in [Server -> Flow \cup {None}] /\ faults' \in 0..MaxFaults
    BY <1>0, <1>11 DEF Recover, Refuse, Close
  <2> QED BY <1>11, <2>2, <2>3 DEF Recover, Refuse, FlowState
<1>12. ASSUME NEW f \in Flow, StoreToken(f) \/ Increment(f) PROVE TypeOK' /\ Owned'
  <2>0. flow[f].of \in Server /\ counter + 1 \in Nat
    BY <1>12 DEF StoreToken, Increment
  <2>1. PICK g \in FlowState : g.of \in Server /\ flow' = [flow EXCEPT ![f] = g]
    BY <1>12, <2>0, BusyState DEF StoreToken, Increment, Set
  <2>3. flow' \in [Flow -> FlowState] /\ Owned'
    BY <2>1, FlowTypes
  <2>2. token' \subseteq Server /\ counter' \in Nat /\ faults' \in 0..MaxFaults
    BY <1>0, <1>12 DEF StoreToken, Increment
  <2> QED BY <1>12, <2>2, <2>3 DEF StoreToken, Increment, FlowState
<1>13. ASSUME NEW f \in Flow, Publish(f) PROVE TypeOK' /\ Owned'
  <2>1. flow' \in [Flow -> FlowState] /\ Owned'
    BY <1>13, FreeState, BusyState, FlowTypes DEF Publish, Set
  <2>2. Update(flow[f].of) \in Frame /\ Complete \in Frame
    BY <1>13 DEF Publish, Update, Complete, Frame
  <2>3. <<Update(flow[f].of)>> \in Seq(Frame) /\ <<Complete>> \in Seq(Frame)
        /\ <<>> \in Seq(Frame)
    BY <2>2
  <2>4. inbox' \in Seq(Frame)
    <3> DEFINE last == IF Enough(flow[f].count) THEN <<Complete>> ELSE <<>>
    <3>1. last \in Seq(Frame)
      BY <2>3
    <3> HIDE DEF last
    <3>2. inbox \o <<Update(flow[f].of)>> \o last \in Seq(Frame)
      BY <2>3, <3>1
    <3> QED BY <1>13, <3>2 DEF Publish, last
  <2> QED BY <1>0, <1>13, <2>1, <2>4 DEF Publish, FlowState
<1>14. ASSUME NEW f \in Flow, HearWindow(f) PROVE TypeOK' /\ Owned'
  <2>1. flow' \in [Flow -> FlowState] /\ Owned'
    BY <1>14, FreeState, BusyState, FlowTypes DEF HearWindow
  <2>2. win' \in [Server -> Flow \cup {None}] /\ faults' \in 0..MaxFaults
    BY <1>0, <1>14 DEF HearWindow, Close
  <2>3. rows' \in [Server -> Row]
    <3>1. NoRows \in [Server -> Row]
      BY DEF NoRows, Row
    <3> QED BY <1>14, <3>1, RowTypes DEF HearWindow, Replay
  <2>4. inbox' \in Seq(Frame) /\ stash' \subseteq Server /\ card' \in BOOLEAN
        /\ ws' \in {"none", "accepted", "sent", "subscribed"}
        /\ run' \in {"none", "posted", "parking", "refused", "passed", "streaming"}
    BY <1>14, NoFrames DEF HearWindow, Replay
  <2> QED BY <1>14, <2>1, <2>2, <2>3, <2>4 DEF HearWindow, FlowState
<1>15. CASE UNCHANGED vars
  BY <1>15 DEF vars
<1> QED BY <1>1, <1>2, <1>3, <1>4, <1>5, <1>6, <1>7, <1>8, <1>9, <1>10, <1>11, <1>12,
           <1>13, <1>14, <1>15 DEF Next

\* Every variable keeps its type, whatever fails, is lost or expires.
THEOREM TypeCorrect == Spec => []TypeOK
<1>1. TypeInv => TypeOK
  BY DEF TypeInv
<1> QED BY <1>1, TypeInit, TypeStep, PTL DEF Spec

-----------------------------------------------------------------------------
(***************************************************************************)
(* The counter.  Without faults the gate lives through four phases.  In    *)
(* the first the card was never open, and the tokens are those of earlier  *)
(* sessions; in the second it is open, and the run waits for it.  In the   *)
(* third every server has its token, which nothing takes away, and the card*)
(* has posted the run, which may be refused for its empty task and brought *)
(* back by a reload; in the last the run has passed the gate and the card  *)
(* stays closed for good, whatever becomes of the counter.                 *)
(***************************************************************************)
Unopened ==
  /\ ~card /\ ws = "none" /\ inbox = <<>>
  /\ \A f \in Flow : flow[f].at = "free"
  /\ \A s \in Server : win[s] = None
  /\ run \in {"none", "posted", "parking", "refused"}
  /\ run \in {"none", "posted"} => status # "awaiting_mcp_oauth"
  /\ run \in {"parking", "refused"} => lacking = Server \ token
  /\ run = "refused" => counter = Cardinality(token) /\ status = "awaiting_mcp_oauth"

\* Consent: a server with a flow under way has its window, and its token exactly
\* when the callback has stored it.
Consented ==
  /\ \A f \in Flow : flow[f].at # "free" => win[flow[f].of] = f
  /\ \A s \in Server : win[s] # None => flow[win[s]].of = s /\ flow[win[s]].at # "free"
  /\ \A f \in Flow : flow[f].at \in {"consent", "redeem"} => flow[f].of \notin token
  /\ \A f \in Flow : flow[f].at \in {"stored", "counted", "done"} => flow[f].of \in token
  /\ \A f \in Flow : flow[f].at = "counted" /\ Enough(flow[f].count) => token = Server

\* The tokens that were counted: all but those whose callback is about to count.
Counted == {s \in token : win[s] # None => flow[win[s]].at # "stored"}

Accounted == Consented /\ counter = Cardinality(Counted)

\* What the card shows lags behind the tokens, but only where a flow is under way
\* or a frame is: a button that could be pressed is that of a server without token.
RowsFollow ==
  \A s \in Server :
    /\ rows[s] = "authorized" => s \in token
    /\ rows[s] = "pending" => s \notin token \/ win[s] # None
    /\ rows[s] = "absent" => win[s] = None
    /\ rows[s] = "absent" /\ s \in stash => s \notin token

NothingShown == stash = {} /\ \A s \in Server : rows[s] = "absent"
AllShown     == \A s \in Server : rows[s] # "absent" \/ s \in stash \cup token

Truthful(m) ==
  \/ /\ m.type = "state" /\ m.servers \subseteq token
     /\ \A s \in token : s \in m.servers \/ rows[s] # "absent"
  \/ m.type = "update" /\ m.server \in token
  \/ m.type = "complete" /\ token = Server
FramesTrue == \A i \in 1..Len(inbox) : Truthful(inbox[i])

Opened ==
  /\ card /\ run = "none" /\ status = "awaiting_mcp_oauth"
  /\ Accounted
  /\ RowsFollow /\ (NothingShown \/ AllShown) /\ FramesTrue

Closed ==
  /\ token = Server /\ ~card /\ ws = "none" /\ inbox = <<>>
  /\ run \in {"none", "posted"} /\ status = "awaiting_mcp_oauth"
  /\ Accounted

Authorized ==
  /\ token = Server /\ ~card /\ ws = "none" /\ inbox = <<>>
  /\ run \in {"none", "posted", "passed", "streaming"}
  /\ run \in {"none", "posted"} => status # "awaiting_mcp_oauth"

Phases    == lease = "free" /\ (Unopened \/ Opened \/ Closed \/ Authorized)
HonestInv == TypeInv /\ (faults = 0 => Phases)

LEMMA CountTokens ==
  ASSUME TypeInv
  PROVE  /\ IsFiniteSet(token) /\ Cardinality(token) \in Nat
         /\ Cardinality(token) = Total - Cardinality(Server \ token)
<1>1. token \subseteq Server
  BY DEF TypeInv, TypeOK
<1>2. IsFiniteSet(token) /\ Cardinality(token) \in Nat /\ Cardinality(Server) \in Nat
  BY <1>1, ServerAssumption, FS_Subset, FS_CardinalityType
<1>3. Cardinality(Server \ token) = Cardinality(Server) - Cardinality(Server \cap token)
  BY ServerAssumption, FS_Difference
<1>4. Server \cap token = token
  BY <1>1
<1> QED BY <1>2, <1>3, <1>4 DEF Total

LEMMA EnoughIsAll ==
  ASSUME NEW S \in SUBSET Server, Enough(Cardinality(S)) PROVE S = Server
<1>1. Cardinality(S) \in Nat /\ Cardinality(Server) \in Nat /\ Cardinality(S) <= Cardinality(Server)
  BY ServerAssumption, FS_Subset, FS_CardinalityType
<1> QED BY <1>1, ServerAssumption, FS_Subset DEF Enough, Total

LEMMA HonestInit == Init => HonestInv
<1> SUFFICES ASSUME Init PROVE HonestInv
  OBVIOUS
<1>1. Unopened /\ lease = "free"
  BY DEF Init, Unopened, Free
<1> QED BY <1>1, TypeInit DEF HonestInv, Phases

\* Before the card: the handler only, which counts what it saw.
LEMMA UnopenedStep ==
  ASSUME TypeInv, Unopened, lease = "free", ~ Faulty, [Next]_vars
  PROVE  Phases'
<1> USE DEF Unopened, Phases
<1>1. CASE PostRun \/ RefuseEmpty
  BY <1>1 DEF PostRun, RefuseEmpty
<1>2. CASE CheckTokens
  <2>1. lacking' = Server \ token
    BY <1>2 DEF CheckTokens, Look
  <2>2. CASE lacking' # {}
    BY <1>2, <2>1, <2>2 DEF CheckTokens
  <2>3. CASE lacking' = {}
    <3>1. token = Server
      BY <2>1, <2>3 DEF TypeInv, TypeOK
    <3> QED BY <1>2, <2>3, <3>1 DEF CheckTokens, Authorized
  <2> QED BY <2>2, <2>3
<1>3. CASE Park
  BY <1>3, CountTokens DEF Park
<1>4. CASE ShowCard
  <2>1. /\ card' /\ run' = "none" /\ status' = "awaiting_mcp_oauth" /\ rows' = NoRows /\ stash' = Server \ token /\ inbox' = <<>>
        /\ UNCHANGED <<token, win, flow, counter, lease>> /\ counter = Cardinality(token)
    BY <1>4 DEF ShowCard, OpenCard
  <2>2. Consented'
    BY <2>1 DEF Consented
  <2>3. RowsFollow' /\ AllShown'
    BY <2>1 DEF RowsFollow, AllShown, NoRows
  <2>4. FramesTrue'
    BY <2>1 DEF FramesTrue
  <2>5. Counted' = token
    BY <2>1 DEF Counted, TypeInv, TypeOK
  <2> QED BY <2>1, <2>2, <2>3, <2>4, <2>5 DEF Opened, Accounted
<1>5. ASSUME BuildTeam \/ EndRun \/ LeaseExpires \/ Snapshot \/ Subscribe \/ Receive \/ Reload
      PROVE  FALSE
  BY <1>5 DEF BuildTeam, EndRun, LeaseExpires, Snapshot, Subscribe, Receive, Reload
<1>6. ASSUME NEW s \in Server, TokenExpires(s) \/ \E f \in Flow : Authorize(s, f) PROVE FALSE
  BY <1>6 DEF TokenExpires, Authorize
<1>7. ASSUME NEW f \in Flow, \/ Recover(f) \/ Refuse(f) \/ StoreToken(f) \/ Increment(f)
                             \/ Publish(f) \/ HearWindow(f)
      PROVE  FALSE
  BY <1>7 DEF Recover, Refuse, StoreToken, Increment, Publish, HearWindow
<1>8. CASE UNCHANGED vars
  BY <1>8 DEF vars
<1> QED BY <1>1, <1>2, <1>3, <1>4, <1>5, <1>6, <1>7, <1>8 DEF Next

\* Once every server has its token: the card stays closed, and flows that are still
\* under way tell nobody.
LEMMA AuthorizedStep ==
  ASSUME TypeInv, Authorized, lease = "free", ~ Faulty, [Next]_vars
  PROVE  Phases'
<1> USE DEF Authorized, Phases
<1>1. CASE PostRun \/ RefuseEmpty \/ CheckTokens
  BY <1>1 DEF PostRun, RefuseEmpty, CheckTokens, Look
<1>2. CASE BuildTeam \/ EndRun
  BY <1>2 DEF BuildTeam, Builds, EndRun
<1>3. ASSUME Park \/ LeaseExpires \/ Snapshot \/ Subscribe \/ ShowCard \/ Receive \/ Reload
      PROVE  FALSE
  BY <1>3 DEF Park, LeaseExpires, Snapshot, Subscribe, ShowCard, Receive, Reload
<1>4. ASSUME NEW s \in Server, TokenExpires(s) \/ \E f \in Flow : Authorize(s, f) PROVE FALSE
  BY <1>4 DEF TokenExpires, Authorize
<1>5. ASSUME NEW f \in Flow, StoreToken(f) PROVE Phases'
  <2>1. flow[f].of \in Server
    BY <1>5 DEF StoreToken, TypeInv, Owned
  <2> QED BY <1>5, <2>1 DEF StoreToken
<1>6. ASSUME NEW f \in Flow, \/ Recover(f) \/ Refuse(f) \/ Increment(f) \/ Publish(f)
                             \/ HearWindow(f)
      PROVE  Phases'
  BY <1>6 DEF Recover, Refuse, Increment, Publish, HearWindow
<1>7. CASE UNCHANGED vars
  BY <1>7 DEF vars
<1> QED BY <1>1, <1>2, <1>3, <1>4, <1>5, <1>6, <1>7 DEF Next

-----------------------------------------------------------------------------
(* The card is open.                                                       *)

\* One flow moves on within its window; its server is known.
LEMMA FlowMoves ==
  ASSUME TypeInv, Consented, NEW f \in Flow, flow[f].at # "free",
         NEW at \in {"consent", "redeem", "stored", "counted", "done"}, NEW n \in Nat,
         Set(f, flow[f].of, at, n), win' = win
  PROVE  /\ flow[f].of \in Server /\ win[flow[f].of] = f
         /\ flow'[f].of = flow[f].of /\ flow'[f].at = at /\ flow'[f].count = n
         /\ \A g \in Flow : g # f => /\ flow'[g] = flow[g]
                                     /\ flow[g].at # "free" => flow[g].of # flow[f].of
         /\ \A s \in Server : s # flow[f].of /\ win[s] # None =>
              win[s] \in Flow /\ win[s] # f /\ flow'[win[s]] = flow[win[s]]
BY DEF TypeInv, TypeOK, Owned, Consented, Set

LEMMA AuthorizeOpened ==
  ASSUME TypeInv, Opened, ~ Faulty, NEW s \in Server, NEW f \in Flow, Authorize(s, f)
  PROVE  Opened'
<1>1. /\ win[s] = None /\ s \notin token
      /\ UNCHANGED <<card, run, status, rows, stash, inbox, token, counter>>
  BY FlowAssumption DEF Authorize, Opened, RowsFollow
<1>2. /\ flow'[f].of = s /\ flow'[f].at = "consent"
      /\ \A g \in Flow : g # f => flow'[g] = flow[g]
  BY <1>1, FlowAssumption DEF Authorize, TypeInv, TypeOK
<1>3. win'[s] = f /\ f # None /\ \A t \in Server : t # s => win'[t] = win[t] /\ win[t] # f
  BY FlowAssumption DEF Authorize, TypeInv, TypeOK, Opened, Accounted, Consented
<1>4. \A g \in Flow : g # f /\ flow[g].at # "free" => flow[g].of \in Server /\ flow[g].of # s
  BY <1>1, FlowAssumption DEF Opened, Accounted, Consented, TypeInv, Owned
<1>5. \A t \in Server : win[t] # None => win[t] \in Flow
  BY DEF TypeInv, TypeOK
<1>6. Consented'
  BY <1>1, <1>2, <1>3, <1>4, <1>5 DEF Opened, Accounted, Consented
<1>7. Counted' = Counted
  BY <1>1, <1>2, <1>3, <1>5 DEF Counted, TypeInv, TypeOK
<1>8. RowsFollow'
  BY <1>1, <1>3 DEF Authorize, Opened, RowsFollow
<1>9. (NothingShown \/ AllShown)' /\ FramesTrue'
  BY <1>1 DEF Opened, NothingShown, AllShown, FramesTrue, Truthful
<1> QED BY <1>1, <1>6, <1>7, <1>8, <1>9 DEF Opened, Accounted

LEMMA RecoverOpened ==
  ASSUME TypeInv, Opened, NEW f \in Flow, Recover(f) PROVE Opened'
<1>1. Set(f, flow[f].of, "redeem", 0) /\ flow[f].at = "consent" /\ win' = win
      /\ UNCHANGED <<card, run, status, rows, stash, inbox, token, counter>>
  BY DEF Recover
<1>2. Consented'
  BY <1>1, FlowMoves DEF Opened, Accounted, Consented, TypeInv, Owned
<1>3. Counted' = Counted
  BY <1>1, FlowMoves DEF Counted, Opened, Accounted, Consented, TypeInv, TypeOK
<1>4. RowsFollow' /\ (NothingShown \/ AllShown)' /\ FramesTrue'
  BY <1>1 DEF Opened, RowsFollow, NothingShown, AllShown, FramesTrue, Truthful
<1> QED BY <1>1, <1>2, <1>3, <1>4 DEF Opened, Accounted

LEMMA StoreOpened ==
  ASSUME TypeInv, Opened, ~ Faulty, NEW f \in Flow, StoreToken(f) PROVE Opened'
<1> DEFINE s == flow[f].of
<1>1. Set(f, s, "stored", 0) /\ flow[f].at = "redeem" /\ win' = win
      /\ UNCHANGED <<card, run, status, rows, stash, inbox, counter>> /\ token' = token \cup {s}
  BY DEF StoreToken
<1>2. s \in Server /\ s \notin token /\ win[s] = f /\ f # None
  BY <1>1, FlowMoves, FlowAssumption DEF Opened, Accounted, Consented
<1>3. Consented'
  BY <1>1, <1>2, FlowMoves DEF Opened, Accounted, Consented, TypeInv, Owned
<1>9. /\ flow'[f].at = "stored" /\ win' = win /\ win[s] = f /\ f # None
      /\ \A t \in Server : t # s /\ win[t] # None =>
           win[t] \in Flow /\ win[t] # f /\ flow'[win[t]] = flow[win[t]]
  BY <1>1, FlowMoves, FlowAssumption DEF Opened, Accounted
<1>4. Counted' = Counted
  <2>1. \A t \in Server : t \in Counted' <=> t \in Counted
    BY <1>1, <1>2, <1>9 DEF Counted
  <2> QED BY <1>1, <1>2, <2>1 DEF Counted, TypeInv, TypeOK
<1>5. RowsFollow' /\ (NothingShown \/ AllShown)'
  BY <1>1, <1>2 DEF Opened, RowsFollow, NothingShown, AllShown
<1>6. FramesTrue'
  <2>1. rows[s] # "absent"
    BY <1>2 DEF Opened, RowsFollow
  <2> QED BY <1>1, <1>2, <2>1 DEF Opened, FramesTrue, Truthful, TypeInv, TypeOK
<1> QED BY <1>1, <1>3, <1>4, <1>5, <1>6 DEF Opened, Accounted

\* The steps of a flow that was stored: they may come when the card is gone.
LEMMA IncrementAccounts ==
  ASSUME TypeInv, Accounted, ~ Faulty, NEW f \in Flow, Increment(f) PROVE Accounted'
<1> DEFINE s == flow[f].of
<1>1. Set(f, s, "counted", counter + 1) /\ flow[f].at = "stored" /\ win' = win
      /\ UNCHANGED token /\ counter' = counter + 1
  BY DEF Increment
<1>2. s \in Server /\ s \in token /\ win[s] = f /\ f # None /\ counter + 1 \in Nat
  BY <1>1, FlowMoves, FlowAssumption DEF Accounted, Consented, TypeInv, TypeOK
<1>9. /\ flow'[f].at = "counted" /\ win' = win /\ win[s] = f /\ f # None
      /\ \A t \in Server : t # s /\ win[t] # None =>
           win[t] \in Flow /\ win[t] # f /\ flow'[win[t]] = flow[win[t]]
  BY <1>1, <1>2, FlowMoves DEF Accounted
<1>3. Counted' = Counted \cup {s} /\ s \notin Counted
  <2>1. s \notin Counted /\ \A t \in Server : t \in Counted' <=> t \in Counted \/ t = s
    BY <1>1, <1>2, <1>9 DEF Counted
  <2> QED BY <1>1, <1>2, <2>1 DEF Counted, TypeInv, TypeOK
<1>4. Counted' \subseteq token /\ token \subseteq Server /\ IsFiniteSet(Counted)
      /\ counter' = Cardinality(Counted')
  <2>1. IsFiniteSet(Counted)
    BY CountTokens, FS_Subset DEF Counted
  <2>2. Cardinality(Counted \cup {s}) = Cardinality(Counted) + 1
    BY <1>3, <2>1, FS_AddElement
  <2> QED BY <1>1, <1>2, <1>3, <2>1, <2>2 DEF Accounted, Counted, TypeInv, TypeOK
<1>5. Enough(counter + 1) => token = Server
  <2>1. Counted' \in SUBSET Server
    BY <1>4
  <2> QED BY <1>1, <1>4, <2>1, EnoughIsAll
<1>6. Consented'
  BY <1>1, <1>2, <1>5, FlowMoves DEF Accounted, Consented, TypeInv, Owned
<1> QED BY <1>4, <1>6 DEF Accounted

LEMMA PublishAccounts ==
  ASSUME TypeInv, Accounted, NEW f \in Flow, Publish(f) PROVE Accounted'
<1> DEFINE s == flow[f].of
<1>1. Set(f, s, "done", 0) /\ flow[f].at = "counted" /\ UNCHANGED <<win, token, counter>>
  BY DEF Publish
<1>2. s \in Server /\ s \in token
  BY <1>1, FlowMoves DEF Accounted, Consented
<1>3. Consented'
  BY <1>1, <1>2, FlowMoves DEF Accounted, Consented, TypeInv, Owned
<1>9. /\ flow'[f].at = "done" /\ win[s] = f
      /\ \A t \in Server : t # s /\ win[t] # None =>
           win[t] \in Flow /\ win[t] # f /\ flow'[win[t]] = flow[win[t]]
  BY <1>1, FlowMoves DEF Accounted
<1>4. Counted' = Counted
  <2>1. \A t \in Server : t \in Counted' <=> t \in Counted
    BY <1>1, <1>2, <1>9 DEF Counted
  <2> QED BY <1>1, <1>2, <2>1 DEF Counted, TypeInv, TypeOK
<1> QED BY <1>1, <1>3, <1>4 DEF Accounted

LEMMA HearAccounts ==
  ASSUME TypeInv, Accounted, NEW f \in Flow, HearWindow(f)
  PROVE  /\ Accounted' /\ flow[f].of \in token /\ win[flow[f].of] = f
         /\ win'[flow[f].of] = None
         /\ \A t \in Server : t # flow[f].of => win'[t] = win[t]
<1> DEFINE s == flow[f].of
<1>1. flow[f].at = "done" /\ s \in Server /\ s \in token /\ win[s] = f /\ f # None /\ s # None
  BY FlowAssumption DEF HearWindow, TypeInv, Owned, Accounted, Consented
<1>2. /\ flow' = [flow EXCEPT ![f] = Free] /\ UNCHANGED <<token, counter>>
      /\ win' = [t \in Server |-> IF win[t] = f THEN None ELSE win[t]]
  BY DEF HearWindow, Close
<1>3. /\ flow'[f].at = "free" /\ \A g \in Flow : g # f => flow'[g] = flow[g]
      /\ win'[s] = None /\ \A t \in Server : t # s => win'[t] = win[t] /\ win[t] # f
  BY <1>1, <1>2 DEF Free, TypeInv, TypeOK, Accounted, Consented
<1>4. \A g \in Flow : g # f /\ flow[g].at # "free" => flow[g].of \in Server /\ flow[g].of # s
  BY <1>1 DEF Accounted, Consented, TypeInv, Owned
<1>5. \A t \in Server : win[t] # None => win[t] \in Flow
  BY DEF TypeInv, TypeOK
<1>6. Consented'
  BY <1>2, <1>3, <1>4, <1>5 DEF Accounted, Consented
<1>7. Counted' = Counted
  BY <1>1, <1>2, <1>3, <1>5 DEF Counted, TypeInv, TypeOK
<1> QED BY <1>1, <1>2, <1>3, <1>6, <1>7 DEF Accounted

LEMMA IncrementOpened ==
  ASSUME TypeInv, Opened, ~ Faulty, NEW f \in Flow, Increment(f) PROVE Opened'
<1>1. win' = win /\ UNCHANGED <<card, run, status, rows, stash, inbox, token>>
  BY DEF Increment
<1>2. RowsFollow' /\ (NothingShown \/ AllShown)' /\ FramesTrue'
  BY <1>1 DEF Opened, RowsFollow, NothingShown, AllShown, FramesTrue, Truthful
<1> QED BY <1>1, <1>2, IncrementAccounts DEF Opened

\* Frames are added behind those that are under way.
LEMMA MoreFrames ==
  ASSUME TypeInv, FramesTrue, UNCHANGED <<token, rows>>, NEW more \in Seq(Frame),
         inbox' = inbox \o more, \A i \in 1..Len(more) : Truthful(more[i])
  PROVE  FramesTrue'
<1>1. \A m : Truthful(m)' <=> Truthful(m)
  BY DEF Truthful
<1>2. \A i \in 1..Len(inbox') : \/ i \in 1..Len(inbox) /\ inbox'[i] = inbox[i]
                                \/ \E k \in 1..Len(more) : inbox'[i] = more[k]
  BY DEF TypeInv, TypeOK
<1> QED BY <1>1, <1>2 DEF FramesTrue

LEMMA PublishOpened ==
  ASSUME TypeInv, Opened, ~ Faulty, NEW f \in Flow, Publish(f) PROVE Opened'
<1> DEFINE s == flow[f].of
           last == IF Enough(flow[f].count) THEN <<Complete>> ELSE <<>>
<1>1. Set(f, s, "done", 0) /\ flow[f].at = "counted" /\ win' = win
      /\ UNCHANGED <<card, run, status, rows, stash, token, counter>>
      /\ (inbox' = inbox \o <<Update(s)>> \o last \/ inbox' = inbox)
  BY DEF Publish
<1>2. s \in Server /\ s \in token /\ (Enough(flow[f].count) => token = Server)
  BY <1>1, FlowMoves DEF Opened, Accounted, Consented
<1>3. Accounted'
  BY PublishAccounts DEF Opened
<1>5. RowsFollow' /\ (NothingShown \/ AllShown)'
  BY <1>1 DEF Opened, RowsFollow, NothingShown, AllShown
<1>6. FramesTrue'
  <2>1. Update(s) \in Frame /\ Complete \in Frame
    BY <1>2 DEF Update, Complete, Frame
  <2>2. Truthful(Update(s)) /\ (token = Server => Truthful(Complete))
    BY <1>2 DEF Truthful, Update, Complete
  <2>3. CASE inbox' = inbox
    BY <1>1, <2>3 DEF Opened, FramesTrue, Truthful
  <2>4. CASE inbox' = inbox \o <<Update(s)>> \o <<Complete>> /\ Enough(flow[f].count)
    <3> DEFINE more == <<Update(s), Complete>>
    <3>1. more \in Seq(Frame) /\ inbox' = inbox \o more
      BY <2>1, <2>4 DEF TypeInv, TypeOK
    <3>2. \A i \in 1..Len(more) : Truthful(more[i])
      BY <1>2, <2>2, <2>4
    <3> QED BY <1>1, <3>1, <3>2, MoreFrames DEF Opened
  <2>5. CASE inbox' = inbox \o <<Update(s)>> \o <<>>
    <3> DEFINE more == <<Update(s)>>
    <3>1. more \in Seq(Frame) /\ inbox' = inbox \o more
      BY <2>1, <2>5 DEF TypeInv, TypeOK
    <3>2. \A i \in 1..Len(more) : Truthful(more[i])
      BY <2>2
    <3> QED BY <1>1, <3>1, <3>2, MoreFrames DEF Opened
  <2> QED BY <1>1, <2>3, <2>4, <2>5
<1> QED BY <1>1, <1>3, <1>5, <1>6 DEF Opened

\* The window is heard.  Its row is on the card, so the tab learns of this token;
\* when no row is left that asks for one, every server has it.
LEMMA HearOpened ==
  ASSUME TypeInv, Opened, lease = "free", ~ Faulty, NEW f \in Flow, HearWindow(f)
  PROVE  Phases'
<1> DEFINE s == flow[f].of
           table == Mark(Render(stash, {}), s)
<1>1. /\ s \in Server /\ s \in token /\ win[s] = f /\ win'[s] = None
      /\ \A t \in Server : t # s => win'[t] = win[t]
  BY HearAccounts DEF TypeInv, TypeOK, Opened
<1>0. f # None /\ Accounted' /\ UNCHANGED <<token, status, lease>>
  BY HearAccounts, FlowAssumption DEF HearWindow, Opened
<1>2. rows[s] # "absent" /\ AllShown
  BY <1>0, <1>1 DEF Opened, RowsFollow, NothingShown
<1>3. table[s] = "authorized" /\ \A t \in Server \ {s} :
        table[t] = IF rows[t] = "absent" /\ t \in stash THEN "pending" ELSE rows[t]
  BY <1>1, <1>2 DEF Mark, Render
<1>4. card /\ Shown(f)
  BY <1>0, <1>1, FlowAssumption DEF Opened, Shown
<1>5. CASE AllRows(table) /\ Replay
  <2>1. \A t \in Server : t \in token
    BY <1>1, <1>2, <1>3, <1>5 DEF AllRows, AllShown, Opened, RowsFollow, TypeInv, TypeOK, Row
  <2>2. token' = Server /\ status' = "awaiting_mcp_oauth"
    BY <1>0, <2>1 DEF Opened, TypeInv, TypeOK
  <2> QED BY <1>0, <1>5, <2>2 DEF Replay, Phases, Closed
<1>6. CASE rows' = table /\ stash' = {} /\ UNCHANGED <<card, ws, inbox, run>>
  <2> HIDE DEF table
  <2>7. \A t \in Server : rows'[t] = IF t = s THEN "authorized"
                                     ELSE IF rows[t] = "absent" /\ t \in stash THEN "pending"
                                     ELSE rows[t]
    BY <1>3, <1>6
  <2>8. RowsFollow' /\ AllShown'
    BY <1>0, <1>1, <1>2, <1>6, <2>7 DEF Opened, RowsFollow, AllShown
  <2>9. FramesTrue'
    <3>1. \A t \in Server : rows[t] # "absent" => rows'[t] # "absent"
      BY <2>7
    <3> QED BY <1>0, <1>6, <3>1 DEF Opened, FramesTrue, Truthful, TypeInv, TypeOK
  <2> QED BY <1>0, <1>4, <1>6, <2>8, <2>9 DEF Opened, Phases
<1> QED BY <1>4, <1>5, <1>6 DEF HearWindow

\* A frame is received.
LEMMA ReceiveOpened ==
  ASSUME TypeInv, Opened, lease = "free", Receive PROVE Phases'
<1> DEFINE m == Head(inbox)
<1>1. Truthful(m) /\ \A i \in 1..Len(Tail(inbox)) : Truthful(Tail(inbox)[i])
  BY DEF Receive, Opened, FramesTrue, TypeInv, TypeOK
<1>2. UNCHANGED <<lease, status, token, counter, win, flow>>
  BY DEF Receive
<1>3. Accounted'
  BY <1>2 DEF Opened, Accounted, Consented, Counted
<1>4. CASE m.type = "complete" /\ Replay
  BY <1>1, <1>2, <1>3, <1>4 DEF Opened, Replay, Truthful, Phases, Closed
<1>5. ASSUME UNCHANGED <<card, run>>, inbox' = Tail(inbox), RowsFollow', (NothingShown \/ AllShown)',
             \A t \in Server : rows[t] # "absent" => rows'[t] # "absent"
      PROVE  Phases'
  <2>1. FramesTrue'
    BY <1>1, <1>2, <1>5 DEF FramesTrue, Truthful, TypeInv, TypeOK
  <2> QED BY <1>2, <1>3, <1>5, <2>1 DEF Opened, Phases
<1>6. CASE /\ m.type = "state" /\ rows' = Render(Server, m.servers) /\ stash' = {}
           /\ inbox' = Tail(inbox) /\ UNCHANGED <<card, ws, run>>
  <2>1. m.servers \subseteq token /\ \A t \in token : t \in m.servers \/ rows[t] # "absent"
    BY <1>1, <1>6 DEF Truthful
  <2>2. \A t \in Server : rows'[t] = IF rows[t] # "absent" THEN rows[t]
                                     ELSE IF t \in m.servers THEN "authorized" ELSE "pending"
    BY <1>6 DEF Render
  <2>3. RowsFollow' /\ AllShown'
    BY <1>2, <1>6, <2>1, <2>2 DEF Opened, RowsFollow, AllShown
  <2> QED BY <1>5, <1>6, <2>2, <2>3
<1>7. CASE /\ m.type = "update" /\ rows' = Mark(Render(stash, {}), m.server) /\ stash' = {}
           /\ inbox' = Tail(inbox) /\ UNCHANGED <<card, ws, run>>
  <2>1. m.server \in token /\ m.server \in Server
    BY <1>1, <1>7 DEF Truthful, TypeInv, TypeOK
  <2>2. \A t \in Server : rows'[t] =
          IF rows[t] = "absent" /\ t \notin stash THEN "absent"
          ELSE IF t = m.server THEN "authorized"
          ELSE IF rows[t] = "absent" THEN "pending" ELSE rows[t]
    BY <1>7, <2>1 DEF Render, Mark
  <2>3. RowsFollow' /\ (NothingShown \/ AllShown)'
    BY <1>2, <1>7, <2>1, <2>2 DEF Opened, RowsFollow, NothingShown, AllShown
  <2> QED BY <1>5, <1>7, <2>2, <2>3
<1> QED BY <1>4, <1>6, <1>7 DEF Receive

LEMMA SnapshotOpened ==
  ASSUME TypeInv, Opened, ~ Faulty, Snapshot PROVE Opened'
<1> DEFINE state == [type |-> "state", servers |-> token]
<1>1. /\ inbox' = Append(inbox, state) \o (IF token = Server THEN <<Complete>> ELSE <<>>)
      /\ UNCHANGED <<card, run, status, rows, stash, token, counter, win, flow>>
  BY DEF Snapshot
<1>2. state \in Frame /\ Complete \in Frame
  BY DEF Frame, Complete, TypeInv, TypeOK
<1>3. Truthful(state) /\ (token = Server => Truthful(Complete))
  BY DEF Truthful, Complete
<1>4. FramesTrue'
  <2> HIDE DEF state
  <2>1. CASE inbox' = Append(inbox, state) \o <<Complete>> /\ token = Server
    <3> DEFINE more == <<state, Complete>>
    <3>1. more \in Seq(Frame) /\ inbox' = inbox \o more
      BY <1>2, <2>1 DEF TypeInv, TypeOK
    <3>2. \A i \in 1..Len(more) : Truthful(more[i])
      BY <1>3, <2>1
    <3> QED BY <1>1, <3>1, <3>2, MoreFrames DEF Opened
  <2>2. CASE inbox' = Append(inbox, state) \o <<>>
    <3> DEFINE more == <<state>>
    <3>1. more \in Seq(Frame) /\ inbox \in Seq(Frame)
      BY <1>2 DEF TypeInv, TypeOK
    <3>3. inbox' = inbox \o more
      BY <1>2, <2>2, <3>1
    <3>2. \A i \in 1..Len(more) : Truthful(more[i])
      BY <1>3
    <3> QED BY <1>1, <3>1, <3>2, <3>3, MoreFrames DEF Opened
  <2> QED BY <1>1, <2>1, <2>2
<1>5. Accounted' /\ RowsFollow' /\ (NothingShown \/ AllShown)'
  BY <1>1 DEF Opened, Accounted, Consented, Counted, RowsFollow, NothingShown, AllShown
<1> QED BY <1>1, <1>4, <1>5 DEF Opened

\* The host reloads when nothing is left to press: no flow is under way.
LEMMA ReloadOpens ==
  ASSUME TypeInv, Accounted, ~ Faulty, Reload PROVE Opened'
<1>1. /\ rows' = NoRows /\ stash' = {} /\ inbox' = <<>> /\ card'
      /\ run' = "none" /\ status' = "awaiting_mcp_oauth"
      /\ UNCHANGED <<token, counter, win, flow>> /\ \A f \in Flow : flow[f].at = "free"
  BY DEF Reload, OpenCard, Idle
<1>2. \A s \in Server : win[s] = None
  BY <1>1 DEF Accounted, Consented, TypeInv, TypeOK
<1>3. Accounted'
  BY <1>1 DEF Accounted, Consented, Counted
<1>4. RowsFollow' /\ NothingShown' /\ FramesTrue'
  BY <1>1, <1>2 DEF RowsFollow, NothingShown, FramesTrue, NoRows
<1> QED BY <1>1, <1>3, <1>4 DEF Opened

LEMMA OpenedStep ==
  ASSUME TypeInv, Opened, lease = "free", ~ Faulty, [Next]_vars PROVE Phases'
<1>1. CASE Snapshot
  BY <1>1, SnapshotOpened DEF Snapshot, Phases
<1>2. CASE Subscribe \/ UNCHANGED vars
  <2>1. UNCHANGED <<lease, card, run, status, token, counter, win, flow, rows, stash, inbox>>
    BY <1>2 DEF Subscribe, vars
  <2>2. Accounted' /\ RowsFollow' /\ (NothingShown \/ AllShown)'
    BY <2>1 DEF Opened, Accounted, Consented, Counted, RowsFollow, NothingShown, AllShown
  <2>3. FramesTrue'
    BY <2>1 DEF Opened, FramesTrue, Truthful
  <2> QED BY <2>1, <2>2, <2>3 DEF Opened, Phases
<1>3. CASE Receive
  BY <1>3, ReceiveOpened
<1>4. CASE Reload
  BY <1>4, ReloadOpens DEF Opened, Reload, Phases
<1>5. ASSUME PostRun \/ RefuseEmpty \/ CheckTokens \/ Park \/ BuildTeam \/ EndRun \/ LeaseExpires \/ ShowCard
      PROVE  FALSE
  BY <1>5 DEF Opened, PostRun, RefuseEmpty, CheckTokens, Park, BuildTeam, EndRun, LeaseExpires, ShowCard
<1>6. ASSUME NEW s \in Server, NEW f \in Flow, Authorize(s, f) PROVE Phases'
  BY <1>6, AuthorizeOpened DEF Authorize, Phases
<1>7. ASSUME NEW f \in Flow, Recover(f) PROVE Phases'
  BY <1>7, RecoverOpened DEF Recover, Phases
<1>8. ASSUME NEW f \in Flow, StoreToken(f) PROVE Phases'
  BY <1>8, StoreOpened DEF StoreToken, Phases
<1>9. ASSUME NEW f \in Flow, Increment(f) PROVE Phases'
  BY <1>9, IncrementOpened DEF Increment, Phases
<1>10. ASSUME NEW f \in Flow, Publish(f) PROVE Phases'
  BY <1>10, PublishOpened DEF Publish, Phases
<1>11. ASSUME NEW f \in Flow, HearWindow(f) PROVE Phases'
  BY <1>11, HearOpened
<1>12. ASSUME NEW f \in Flow, Refuse(f) PROVE FALSE
  BY <1>12 DEF Refuse
<1>13. ASSUME NEW s \in Server, TokenExpires(s) PROVE FALSE
  BY <1>13 DEF TokenExpires
<1> QED BY <1>1, <1>2, <1>3, <1>4, <1>5, <1>6, <1>7, <1>8, <1>9, <1>10, <1>11, <1>12,
           <1>13 DEF Next

\* The card is gone and has posted the run.
LEMMA ClosedStep ==
  ASSUME TypeInv, Closed, lease = "free", ~ Faulty, [Next]_vars PROVE Phases'
<1>1. CASE RefuseEmpty \/ UNCHANGED vars
  <2>1. /\ run' \in {"none", "posted"}
        /\ UNCHANGED <<lease, token, card, ws, inbox, status, counter, win, flow>>
    BY <1>1 DEF RefuseEmpty, vars, Closed
  <2>2. Accounted'
    BY <2>1 DEF Closed, Accounted, Consented, Counted
  <2> QED BY <2>1, <2>2 DEF Closed, Phases
<1>2. CASE CheckTokens
  BY <1>2 DEF CheckTokens, Look, Closed, Phases, Authorized
<1>3. CASE Reload
  BY <1>3, ReloadOpens DEF Reload, Closed, Phases
<1>4. ASSUME NEW f \in Flow, Increment(f) \/ Publish(f) \/ HearWindow(f) PROVE Phases'
  <2>1. Accounted'
    BY <1>4, IncrementAccounts, PublishAccounts, HearAccounts DEF Closed
  <2>2. UNCHANGED <<lease, token, card, ws, inbox, run, status>>
    BY <1>4 DEF Increment, Publish, HearWindow, Closed
  <2> QED BY <2>1, <2>2 DEF Closed, Phases
<1>5. ASSUME \/ PostRun \/ Park \/ BuildTeam \/ EndRun \/ LeaseExpires \/ Snapshot
             \/ Subscribe \/ ShowCard \/ Receive
      PROVE  FALSE
  BY <1>5 DEF Closed, PostRun, Park, BuildTeam, EndRun, LeaseExpires, Snapshot, Subscribe,
              ShowCard, Receive
<1>6. ASSUME NEW s \in Server, TokenExpires(s) \/ \E f \in Flow : Authorize(s, f) PROVE FALSE
  BY <1>6 DEF TokenExpires, Authorize, Closed
<1>7. ASSUME NEW f \in Flow, Recover(f) \/ Refuse(f) \/ StoreToken(f) PROVE FALSE
  BY <1>7 DEF Recover, Refuse, StoreToken, Closed, Accounted, Consented, TypeInv, Owned
<1> QED BY <1>1, <1>2, <1>3, <1>4, <1>5, <1>6, <1>7 DEF Next

-----------------------------------------------------------------------------
\* A step without a fault leaves their number; the number never falls.
LEMMA FaultsCount == [Next]_vars => Faulty \/ faults' = faults
<1> SUFFICES ASSUME [Next]_vars, ~ Faulty PROVE faults' = faults
  OBVIOUS
<1>1. CASE \/ PostRun \/ RefuseEmpty \/ CheckTokens \/ Park \/ BuildTeam \/ EndRun
           \/ LeaseExpires
  BY <1>1 DEF PostRun, RefuseEmpty, CheckTokens, Look, Park, BuildTeam, EndRun, LeaseExpires, Smooth
<1>2. CASE Snapshot \/ Subscribe \/ ShowCard \/ Receive \/ Reload \/ UNCHANGED vars
  BY <1>2 DEF Snapshot, Subscribe, ShowCard, Receive, Reload, Smooth, vars
<1>3. ASSUME NEW s \in Server, TokenExpires(s) \/ \E f \in Flow : Authorize(s, f)
      PROVE  faults' = faults
  BY <1>3 DEF TokenExpires, Authorize, Smooth
<1>4. ASSUME NEW f \in Flow, \/ Recover(f) \/ Refuse(f) \/ StoreToken(f) \/ Increment(f)
                             \/ Publish(f) \/ HearWindow(f)
      PROVE  faults' = faults
  BY <1>4 DEF Recover, Refuse, StoreToken, Increment, Publish, HearWindow, Smooth
<1> QED BY <1>1, <1>2, <1>3, <1>4 DEF Next

LEMMA HonestStep == HonestInv /\ [Next]_vars => HonestInv'
<1> SUFFICES ASSUME HonestInv, [Next]_vars, faults' = 0 PROVE Phases'
  BY TypeStep DEF HonestInv
<1>1. ~ Faulty /\ faults = 0
  BY FaultsCount DEF HonestInv, TypeInv, TypeOK, Faulty
<1> QED BY <1>1, UnopenedStep, OpenedStep, ClosedStep, AuthorizedStep DEF HonestInv, Phases

(***************************************************************************)
(* Where no call failed and no button was pressed twice, the count at rest *)
(* is the number of tokens, and "complete" is said of all of them only, in *)
(* the gap before the subscription too: for any number of servers, flows.  *)
(***************************************************************************)
THEOREM CountHonest == Spec => []CounterIsHonest
<1>1. HonestInv => CounterIsHonest
  <2> SUFFICES ASSUME TypeInv, Phases PROVE CounterIsHonest
    BY DEF HonestInv, CounterIsHonest
  <2>1. CASE Unopened \/ Closed \/ Authorized
    BY <2>1 DEF Unopened, Closed, Authorized, CounterIsHonest
  <2>2. CASE Opened
    <3>1. ASSUME \A f \in Flow : flow[f].at = "free" PROVE counter = Cardinality(token)
      <4>1. Counted = token
        BY <2>2, <3>1 DEF Counted, Opened, Accounted, Consented, TypeInv, TypeOK
      <4> QED BY <2>2, <4>1 DEF Opened, Accounted
    <3>2. ASSUME NEW i \in DOMAIN inbox, inbox[i] = Complete PROVE token = Server
      BY <2>2, <3>2 DEF Opened, FramesTrue, Truthful, Complete, TypeInv, TypeOK
    <3> QED BY <3>1, <3>2 DEF CounterIsHonest
  <2> QED BY <2>1, <2>2 DEF Phases
<1> QED BY <1>1, HonestInit, HonestStep, PTL DEF Spec
=============================================================================
