-------------------------- MODULE QuorumGateProofs --------------------------
(***************************************************************************)
(* Theorems about QuorumGate, for every number of host tabs, of remote     *)
(* users and of pages they have open, both quorum modes, every number of   *)
(* rounds and of faults; those about all mode assume one host tab, as its  *)
(* properties do.                                                          *)
(***************************************************************************)
EXTENDS QuorumGate, TLAPS

(***************************************************************************)
(* What the proofs below need of the types.                                *)
(***************************************************************************)
Shapes ==
  /\ round \in Round
  /\ winner \in [Round -> Person \cup {None}]
  /\ at \in [Client -> Point] /\ req \in [Client -> Request]

USE DEF session, keys, history

LEMMA NameIsPerson == \A c \in Client : Name(c) \in Person /\ Name(c) # None
BY NamesAssumption DEF Name, Client, Person

LEMMA ShapesInit == Init => Shapes
<1>1. 1 \in Round
  BY BoundsAssumption DEF Round
<1> QED BY <1>1 DEF Init, Shapes, Point, Request, NoRequest

LEMMA ShapesStep == Shapes /\ [Next]_vars => Shapes'
<1> SUFFICES ASSUME Shapes, [Next]_vars PROVE Shapes'
  OBVIOUS
<1>n. 1 \in Round /\ NoRequest \in Request
  BY BoundsAssumption DEF Round, NoRequest, Request
<1> USE DEF Shapes, Move, Return
<1>1. ASSUME NEW c \in Client, Post(c) PROVE Shapes'
  <2>1. PICK words \in {{}, {Name(c)}} :
          req' = [req EXCEPT ![c] = [round |-> round, words |-> words,
                                     expected |-> Person \ ignored]]
    BY <1>1 DEF Post
  <2>2. [round |-> round, words |-> words, expected |-> Person \ ignored] \in Request
    BY NameIsPerson DEF Request
  <2> QED BY <1>1, <2>1, <2>2 DEF Post, Point
<1>2. ASSUME NEW c \in Client, Claim(c) PROVE Shapes'
  <2>1. req[c].round \in Round
    BY DEF Request
  <2> QED BY <1>2, <1>n, <2>1, NameIsPerson DEF Claim, Point, Winning
<1>3. ASSUME NEW c \in Client, Speak(c) \/ Queue(c) \/ Look(c) \/ Answer(c) PROVE Shapes'
  BY <1>3 DEF Speak, Queue, Look, Answer, Point, Winning
<1>4. ASSUME NEW c \in Client, Clear(c) PROVE Shapes'
  <2>1. req[c].round \in Round
    BY DEF Request
  <2> QED BY <1>4, <2>1 DEF Clear, Point
<1>5. ASSUME NEW c \in Client, Commit(c) \/ Stop(c) \/ Fail(c) PROVE Shapes'
  BY <1>5, <1>n DEF Commit, Stop, Fail, Point
<1>6. ASSUME NEW c \in Client, CheckAll(c) PROVE Shapes'
  <2>1. [req[c] EXCEPT !.words = req[c].expected \cap WithWords(req[c].round)] \in Request
    BY DEF Request, WithWords
  <2> QED BY <1>6, <1>n, <2>1 DEF CheckAll, Proceed, Point
<1>7. ASSUME NEW p \in Remote, Ignore(p) \/ Unignore(p) PROVE Shapes'
  BY <1>7 DEF Ignore, Unignore
<1>8. ASSUME NEW h \in HostTab, StartRun(h) PROVE Shapes'
  BY <1>8 DEF StartRun
<1>9. CASE PauseAtGate
  BY <1>9, BoundsAssumption DEF PauseAtGate, Round
<1>10. CASE PopPending \/ Complete \/ PendingExpires \/ UNCHANGED vars
  BY <1>10 DEF PopPending, Complete, PendingExpires, vars
<1>11. ASSUME NEW n \in Round, WinnerExpires(n) PROVE Shapes'
  BY <1>11 DEF WinnerExpires
<1>12. ASSUME NEW n \in Round, NEW p \in Person, AnswerExpires(n, p) PROVE Shapes'
  BY <1>12 DEF AnswerExpires
<1> HIDE DEF Shapes, Move, Return
<1>13. ASSUME NEW h \in HostTab, Stop(h) PROVE Shapes'
  BY <1>13, <1>5 DEF Client
<1>14. ASSUME NEW c \in Client, Handle(c) PROVE Shapes'
  BY <1>14, <1>2, <1>3, <1>4, <1>5, <1>6 DEF Handle
<1> QED
  BY <1>1, <1>14, <1>5, <1>7, <1>8, <1>9, <1>10, <1>11, <1>12, <1>13 DEF Next

\* What the actions do to the answers, key by key.
LEMMA StoreFacts ==
  ASSUME answers \in [Round -> [Person -> Reply]],
         NEW c \in Client, req[c].round \in Round, Store(c)
  PROVE  /\ answers' \in [Round -> [Person -> Reply]]
         /\ \A n \in Round, p \in Person :
              answers'[n][p] = IF n = req[c].round /\ p = Name(c)
                                 THEN IF req[c].words = {} THEN "empty" ELSE "words"
                                 ELSE answers[n][p]
<1> DEFINE r == req[c].round
           reply == IF req[c].words = {} THEN "empty" ELSE "words"
<1>1. reply \in Reply /\ Name(c) \in Person /\ r \in Round
  BY NameIsPerson DEF Reply
<1>2. answers' = [answers EXCEPT ![r] = [answers[r] EXCEPT ![Name(c)] = reply]]
  BY DEF Store
<1> HIDE DEF r, reply
<1>3. /\ answers' \in [Round -> [Person -> Reply]]
      /\ \A n \in Round, p \in Person :
           answers'[n][p] = IF n = r /\ p = Name(c) THEN reply ELSE answers[n][p]
  BY <1>1, <1>2
<1> QED BY <1>3 DEF r, reply

LEMMA ClearFacts ==
  ASSUME answers \in [Round -> [Person -> Reply]],
         NEW c \in Client, req[c].round \in Round, Clear(c)
  PROVE  /\ answers' \in [Round -> [Person -> Reply]]
         /\ \A n \in Round, p \in Person : answers'[n][p] \in {"none", answers[n][p]}
<1> DEFINE r == req[c].round
           left == [p \in Person |-> IF p \in req[c].expected THEN "none" ELSE answers[r][p]]
<1>1. r \in Round /\ left \in [Person -> Reply]
      /\ \A p \in Person : left[p] \in {"none", answers[r][p]}
  BY DEF Reply
<1>2. answers' = [answers EXCEPT ![r] = left]
  BY DEF Clear
<1> HIDE DEF r, left
<1> QED BY <1>1, <1>2

LEMMA ExpiryFacts ==
  ASSUME answers \in [Round -> [Person -> Reply]],
         NEW n \in Round, NEW p \in Person, AnswerExpires(n, p)
  PROVE  /\ answers' \in [Round -> [Person -> Reply]]
         /\ \A k \in Round, q \in Person : answers'[k][q] \in {"none", answers[k][q]}
<1>1. answers' = [answers EXCEPT ![n] = [answers[n] EXCEPT ![p] = "none"]]
  BY DEF AnswerExpires
<1>2. "none" \in Reply
  BY DEF Reply
<1> QED BY <1>1, <1>2

\* Every variable keeps its type, in both modes.
THEOREM TypeCorrect == Spec => []TypeOK
<1>1. Init => TypeOK
  <2>1. 1 \in Round /\ 0 \in 0..MaxFaults
    BY BoundsAssumption DEF Round
  <2>2. Init => Shapes
    BY ShapesInit
  <2> QED BY <2>1, <2>2 DEF Init, TypeOK, Shapes, Reply
<1>2. TypeOK => Shapes
  BY DEF TypeOK, Shapes
<1>3. ASSUME TypeOK, [Next]_vars PROVE TypeOK'
  <2>s. Shapes /\ Shapes'
    BY <1>2, <1>3, ShapesStep
  <2> DEFINE Rest == /\ quorum \in Quorums
                     /\ status \in {"awaiting_input", "idle", "running", "completed", "stopped"}
                     /\ run \in {"none", "started", "streaming"}
                     /\ answers \in [Round -> [Person -> Reply]]
                     /\ pending \in {None} \cup [round : Round, words : SUBSET Person]
                     /\ ignored \subseteq Remote /\ said \in [Round -> SUBSET Person]
                     /\ commits \in [Round -> Nat] /\ excused \subseteq Remote
                     /\ faults \in 0..MaxFaults
  <2>r. Rest /\ \A c \in Client : req[c] \in Request /\ Name(c) \in Person
    BY <1>3, <2>s, NameIsPerson DEF TypeOK
  <2>w. \A c \in Client : req[c].round \in Round /\ req[c].words \in SUBSET Person
    BY <2>r DEF Request
  <2>f. \A c \in Client : Say(c) => said' \in [Round -> SUBSET Person]
    BY <2>r, <2>w DEF Say
  <2>g. \A c \in Client : Store(c) => answers' \in [Round -> [Person -> Reply]]
    BY <2>r, <2>w, StoreFacts
  <2>1. ASSUME NEW c \in Client, Post(c) \/ Claim(c) \/ Look(c) \/ CheckAll(c) PROVE Rest'
    BY <2>1, <2>r, BoundsAssumption DEF Post, Claim, Look, CheckAll
  <2>2. ASSUME NEW c \in Client, Speak(c) \/ Answer(c) PROVE Rest'
    <3>1. UNCHANGED <<quorum, status, run, pending, ignored, commits, excused, faults>>
      BY <2>2 DEF Speak, Answer
    <3>2. (Store(c) \/ UNCHANGED answers) /\ (Say(c) \/ UNCHANGED said)
      BY <2>2 DEF Speak, Answer
    <3> QED BY <2>f, <2>g, <2>r, <3>1, <3>2
  <2>3. ASSUME NEW c \in Client, Queue(c) \/ Clear(c) PROVE Rest'
    <3>1. CASE Queue(c)
      BY <3>1, <2>r, <2>w DEF Queue
    <3>2. CASE Clear(c)
      BY <3>2, <2>r, <2>w, ClearFacts DEF Clear
    <3> QED BY <2>3, <3>1, <3>2
  <2>4. ASSUME NEW c \in Client, Commit(c) PROVE Rest'
    BY <2>4, <2>r, <2>w DEF Commit
  <2>5. ASSUME NEW c \in Client, Fail(c) PROVE Rest'
    BY <2>5, <2>r, BoundsAssumption DEF Fail
  <2>6. ASSUME NEW p \in Remote, Ignore(p) \/ Unignore(p) PROVE Rest'
    BY <2>6, <2>r, <2>s DEF Ignore, Unignore, Shapes
  <2>7. ASSUME NEW h \in HostTab, Stop(h) \/ StartRun(h) PROVE Rest'
    BY <2>7, <2>r DEF Stop, StartRun
  <2>8. ASSUME PopPending \/ Complete \/ PendingExpires \/ UNCHANGED vars PROVE Rest'
    BY <2>8, <2>r DEF PopPending, Complete, PendingExpires, vars
  <2>9. ASSUME PauseAtGate PROVE Rest'
    BY <2>9, <2>r DEF PauseAtGate
  <2>10. ASSUME NEW n \in Round, WinnerExpires(n) PROVE Rest'
    BY <2>10, <2>r DEF WinnerExpires
  <2>11. ASSUME NEW n \in Round, NEW p \in Person, AnswerExpires(n, p) PROVE Rest'
    <3>1. answers' \in [Round -> [Person -> Reply]]
      BY <2>11, <2>r, ExpiryFacts
    <3> QED BY <2>11, <2>r, <3>1, BoundsAssumption DEF AnswerExpires
  <2> HIDE DEF Rest
  <2>12. ASSUME NEW c \in Client, Handle(c) PROVE Rest'
    BY <2>1, <2>2, <2>3, <2>4, <2>12 DEF Handle
  <2>13. Rest'
    BY <1>3, <2>1, <2>5, <2>6, <2>7, <2>8, <2>9, <2>10, <2>11, <2>12 DEF Next
  <2> QED BY <2>13, <2>s DEF Rest, TypeOK, Shapes
<1> QED BY <1>1, <1>3, PTL DEF Spec

-----------------------------------------------------------------------------
(***************************************************************************)
(* Exclusion is inductive together with Locked: a request that composes the*)
(* answer of a round still finds the winner key of that round.             *)
(***************************************************************************)
Locked == \A c \in Client : at[c] \in Winning => winner[req[c].round] # None

LockInv == Shapes /\ Locked /\ ClaimExclusive

\* One request moves on without a claim; the others and the keys stay.
LEMMA MoveKeepsLock ==
  ASSUME LockInv, NEW c \in Client, UNCHANGED winner,
         \A d \in Client \ {c} : at'[d] = at[d] /\ req'[d] = req[d],
         at'[c] \in Winning => at[c] \in Winning /\ req'[c] = req[c]
  PROVE  (Locked /\ ClaimExclusive)'
BY DEF LockInv, Locked, ClaimExclusive

LEMMA LockStep == LockInv /\ [Next]_vars => LockInv'
<1> SUFFICES ASSUME LockInv, [Next]_vars PROVE (Locked /\ ClaimExclusive)'
  BY ShapesStep DEF LockInv
<1> DEFINE Goal == (Locked /\ ClaimExclusive)'
<1>s. Shapes
  BY DEF LockInv
<1>r. ASSUME NEW c \in Client PROVE req[c].round \in Round
  BY <1>s DEF Shapes, Request
<1> USE DEF Move, Return, Winning
<1>1. ASSUME NEW c \in Client, Claim(c) PROVE Goal
  <2>1. CASE winner[req[c].round] = None
    <3>1. \A d \in Client : at[d] \in Winning => req[d].round # req[c].round
      BY <2>1 DEF LockInv, Locked
    <3>2. UNCHANGED req /\ \A d \in Client \ {c} : at'[d] = at[d]
      BY <1>1, <1>s, <2>1 DEF Claim, Shapes
    <3>3. winner' = [winner EXCEPT ![req[c].round] = Name(c)]
      BY <1>1, <2>1 DEF Claim
    <3>4. \A n \in Round : winner'[n] = IF n = req[c].round THEN Name(c) ELSE winner[n]
      BY <1>s, <3>3 DEF Shapes
    <3>5. Locked'
      BY <1>r, <1>s, <3>1, <3>2, <3>4, NameIsPerson DEF LockInv, Locked
    <3>6. ClaimExclusive'
      BY <3>1, <3>2 DEF LockInv, ClaimExclusive
    <3> QED BY <3>5, <3>6
  <2>2. CASE winner[req[c].round] # None
    BY <1>1, <1>s, <2>2, MoveKeepsLock DEF Claim, Shapes
  <2> QED BY <2>1, <2>2
<1>2. ASSUME NEW c \in Client, Clear(c) PROVE Goal
  <2>1. \A d \in Client : d # c /\ at[d] \in Winning => req[d].round # req[c].round
    BY <1>2 DEF Clear, LockInv, ClaimExclusive
  <2>2. UNCHANGED req /\ \A d \in Client : at'[d] = IF d = c THEN "cleared" ELSE at[d]
    BY <1>2, <1>s DEF Clear, Shapes
  <2>3. \A n \in Round : n # req[c].round => winner'[n] = winner[n]
    BY <1>2, <1>s DEF Clear, Shapes
  <2> QED BY <1>r, <2>1, <2>2, <2>3 DEF LockInv, Locked, ClaimExclusive
<1>3. ASSUME NEW n \in Round, WinnerExpires(n) PROVE Goal
  BY <1>3, <1>r, <1>s DEF WinnerExpires, Shapes, LockInv, Locked, ClaimExclusive
<1>4. ASSUME NEW c \in Client, Post(c) PROVE Goal
  BY <1>4, <1>s, MoveKeepsLock DEF Post, Shapes
<1>5. ASSUME NEW c \in Client, Speak(c) \/ Queue(c) \/ Look(c) \/ Answer(c) PROVE Goal
  BY <1>5, <1>s, MoveKeepsLock DEF Speak, Queue, Look, Answer, Shapes
<1>6. ASSUME NEW c \in Client, Commit(c) \/ Stop(c) \/ Fail(c) PROVE Goal
  BY <1>6, <1>s, MoveKeepsLock DEF Commit, Stop, Fail, Shapes
<1>7. ASSUME NEW c \in Client, CheckAll(c) PROVE Goal
  BY <1>7, <1>s, MoveKeepsLock DEF CheckAll, Proceed, Shapes
<1>8. ASSUME UNCHANGED <<at, req, winner>> PROVE Goal
  BY <1>8 DEF LockInv, Locked, ClaimExclusive
<1>9. ASSUME NEW p \in Remote, Ignore(p) \/ Unignore(p) PROVE Goal
  BY <1>8, <1>9 DEF Ignore, Unignore
<1>10. ASSUME NEW h \in HostTab, StartRun(h) PROVE Goal
  BY <1>8, <1>10 DEF StartRun
<1>11. ASSUME PopPending \/ PauseAtGate \/ Complete \/ PendingExpires \/ UNCHANGED vars
       PROVE  Goal
  BY <1>8, <1>11 DEF PopPending, PauseAtGate, Complete, PendingExpires, vars
<1>12. ASSUME NEW n \in Round, NEW p \in Person, AnswerExpires(n, p) PROVE Goal
  BY <1>8, <1>12 DEF AnswerExpires
<1> HIDE DEF Goal, Move, Return, Winning
<1>13. ASSUME NEW h \in HostTab, Stop(h) PROVE Goal
  BY <1>13, <1>6 DEF Client
<1>14. ASSUME NEW c \in Client, Handle(c) PROVE Goal
  BY <1>14, <1>1, <1>2, <1>5, <1>6, <1>7 DEF Handle
<1>15. Goal
  BY <1>3, <1>4, <1>6, <1>9, <1>10, <1>11, <1>12, <1>13, <1>14 DEF Next
<1> QED BY <1>15 DEF Goal

(***************************************************************************)
(* Two requests never hold the claim of the same round, however many tabs  *)
(* and remote users answer at once and wherever handlers fail.             *)
(***************************************************************************)
THEOREM OneWinnerAtATime == Spec => []ClaimExclusive
<1>1. Init => LockInv
  BY ShapesInit DEF Init, LockInv, Locked, ClaimExclusive, Winning
<1>2. LockInv => ClaimExclusive
  BY DEF LockInv
<1> QED BY <1>1, <1>2, LockStep, PTL DEF Spec

-----------------------------------------------------------------------------
(***************************************************************************)
(* Words reach the task by way of the answers, or of the winner's request. *)
(* An answer that says something is on record, except the host's in all    *)
(* mode; a page that has not stored yet has spoken; and from ready on, or  *)
(* from spoken in first_win, a request carries nothing but what is on      *)
(* record.  What a page posts, and what is stored of it, is never empty.   *)
(***************************************************************************)
OnRecord(n, p) == p \in said[n] \/ (quorum = "all" /\ p = Gate)

RecordTypes ==
  /\ quorum \in {"first_win", "all"}
  /\ said \in [Round -> SUBSET Person] /\ answers \in [Round -> [Person -> Reply]]
  /\ pending # None => pending.round \in Round

Answering ==
  /\ \A n \in Round, p \in Person :
       /\ answers[n][p] = "words" => OnRecord(n, p)
       /\ p \in Remote => answers[n][p] # "empty"
  /\ \A c \in Client :
       /\ c \in Page /\ at[c] \in {"read", "claimed", "silent", "stored"} => req[c].words # {}
       /\ c \in Page /\ at[c] = "stored" => OnRecord(req[c].round, Name(c))

Carrying ==
  \A c \in Client :
    /\ at[c] \in {"silent", "stored"} => quorum = "all"
    /\ at[c] \in {"read", "claimed"} => req[c].words \subseteq {Name(c)}
    /\ at[c] \in {"ready", "spoken", "queued"} =>
         \A p \in req[c].words : OnRecord(req[c].round, p)

RecordInv == Shapes /\ RecordTypes /\ Answering /\ Carrying /\ TaskOnRecord

LEMMA RecordInit == Init => RecordInv
BY ShapesInit, BoundsAssumption
   DEF Init, RecordInv, RecordTypes, Answering, Carrying, TaskOnRecord, Reply

\* A request moves on, nothing is stored and nothing is said.
LEMMA MoveKeepsRecord ==
  ASSUME RecordInv, NEW c \in Client, UNCHANGED <<quorum, said, answers, pending>>,
         \A d \in Client \ {c} : at'[d] = at[d] /\ req'[d] = req[d],
         \/ at'[c] \in {"none", "checking", "cleared"}
         \/ /\ req'[c] = req[c]
            /\ \/ at[c] = "read" /\ at'[c] = "claimed"
               \/ at[c] = "read" /\ at'[c] = "silent" /\ quorum = "all"
               \/ at[c] = "ready" /\ at'[c] = "spoken"
  PROVE  (RecordTypes /\ Answering /\ Carrying /\ TaskOnRecord)'
BY DEF RecordInv, RecordTypes, Answering, Carrying, TaskOnRecord, OnRecord

LEMMA RecordStep == RecordInv /\ [Next]_vars => RecordInv'
<1> SUFFICES ASSUME RecordInv, [Next]_vars
             PROVE  (RecordTypes /\ Answering /\ Carrying /\ TaskOnRecord)'
  BY ShapesStep DEF RecordInv
<1> DEFINE Goal == (RecordTypes /\ Answering /\ Carrying /\ TaskOnRecord)'
<1>s. Shapes /\ RecordTypes
  BY DEF RecordInv
<1>r. \A c \in Client : req[c].round \in Round /\ req[c].words \subseteq Person
  BY <1>s DEF Shapes, Request
<1>h. HostTab \subseteq Client
  BY DEF Client
<1> USE DEF Move, Return
<1>1. ASSUME NEW c \in Client, Post(c) PROVE Goal
  <2>1. PICK words \in {{}, {Name(c)}} :
          /\ words = {} => c \in HostTab
          /\ req' = [req EXCEPT ![c] = [round |-> round, words |-> words,
                                        expected |-> Person \ ignored]]
    BY <1>1 DEF Post
  <2>2. /\ req'[c].words = words /\ at'[c] = "read"
        /\ \A d \in Client \ {c} : at'[d] = at[d] /\ req'[d] = req[d]
        /\ UNCHANGED <<quorum, said, answers, pending>>
    BY <1>1, <1>s, <2>1 DEF Post, Shapes
  <2>3. c \in Page => words # {}
    BY <2>1, NamesAssumption
  <2> QED BY <2>1, <2>2, <2>3
          DEF RecordInv, RecordTypes, Answering, Carrying, TaskOnRecord, OnRecord
<1>2. ASSUME NEW c \in Client, Claim(c) \/ Clear(c) \/ Look(c) \/ Commit(c) \/ Fail(c) PROVE Goal
  <2>1. CASE ~ Clear(c)
    <3>1. UNCHANGED <<quorum, said, answers, pending>>
      BY <1>2, <2>1 DEF Claim, Look, Commit, Fail
    <3>2. \A d \in Client \ {c} : at'[d] = at[d] /\ req'[d] = req[d]
      BY <1>2, <1>s, <2>1 DEF Claim, Look, Commit, Fail, Shapes
    <3>3. \/ at'[c] \in {"none", "checking", "cleared"}
          \/ /\ req'[c] = req[c]
             /\ \/ at[c] = "read" /\ at'[c] = "claimed"
                \/ at[c] = "read" /\ at'[c] = "silent" /\ quorum = "all"
                \/ at[c] = "ready" /\ at'[c] = "spoken"
      BY <1>2, <1>s, <2>1 DEF Claim, Look, Commit, Fail, Shapes
    <3> QED BY <3>1, <3>2, <3>3, MoveKeepsRecord
  <2>2. CASE Clear(c)
    <3>1. /\ at'[c] = "cleared" /\ UNCHANGED <<quorum, said, pending, req>>
          /\ \A d \in Client \ {c} : at'[d] = at[d]
      BY <1>s, <2>2 DEF Clear, Shapes
    <3>2. /\ answers' \in [Round -> [Person -> Reply]]
          /\ \A n \in Round, p \in Person : answers'[n][p] \in {"none", answers[n][p]}
      BY <1>r, <1>s, <2>2, ClearFacts DEF RecordTypes
    <3>3. RecordTypes' /\ TaskOnRecord'
      BY <1>s, <3>1, <3>2 DEF RecordInv, RecordTypes, TaskOnRecord
    <3>4. Answering'
      BY <3>1, <3>2 DEF RecordInv, Answering, OnRecord
    <3>5. Carrying'
      BY <3>1 DEF RecordInv, Carrying, OnRecord
    <3> QED BY <3>3, <3>4, <3>5
  <2> QED BY <2>1, <2>2
<1>3. ASSUME NEW c \in Client, Speak(c) \/ Answer(c) PROVE Goal
  <2> DEFINE r == req[c].round
  <2>1. /\ UNCHANGED <<quorum, pending, req>> /\ r \in Round /\ Name(c) \in Person
        /\ \A d \in Client \ {c} : at'[d] = at[d]
    BY <1>3, <1>r, <1>s, NameIsPerson DEF Speak, Answer, Shapes
  <2>2. /\ said' \in [Round -> SUBSET Person]
        /\ \A n \in Round : said[n] \subseteq said'[n]
        /\ Say(c) => Name(c) \in said'[r]
    BY <1>3, <1>s, <2>1 DEF Speak, Answer, Say, RecordTypes
  <2>3. \/ UNCHANGED answers
        \/ /\ answers' \in [Round -> [Person -> Reply]]
           /\ \A n \in Round, p \in Person :
                answers'[n][p] = IF n = r /\ p = Name(c)
                                   THEN IF req[c].words = {} THEN "empty" ELSE "words"
                                   ELSE answers[n][p]
    BY <1>3, <1>s, <2>1, StoreFacts DEF Speak, Answer, RecordTypes
  <2>4. answers' # answers =>
          /\ OnRecord(r, Name(c))' \/ req[c].words = {}
          /\ Name(c) \in Remote => req[c].words # {}
    <3>0. Name(c) \in Remote => c \in Page
      BY NamesAssumption DEF Name, Client
    <3>1. CASE Speak(c)
      BY <2>2, <3>0, <3>1 DEF Speak, OnRecord, RecordInv, Answering
    <3>2. CASE Answer(c) /\ c \in HostTab
      BY <1>s, <2>1, <3>2, NamesAssumption
         DEF Answer, OnRecord, Name, RecordInv, Carrying
    <3>3. CASE Answer(c) /\ c \notin HostTab
      BY <1>s, <2>1, <2>2, <3>3 DEF Answer, OnRecord, Client, RecordInv, Answering
    <3> QED BY <1>3, <3>1, <3>2, <3>3
  <2>5. /\ \A n \in Round, p \in Person : OnRecord(n, p) => OnRecord(n, p)'
        /\ RecordTypes'
    BY <1>s, <2>1, <2>2, <2>3 DEF OnRecord, RecordTypes
  <2>6. ASSUME NEW n \in Round, NEW p \in Person
        PROVE  /\ answers'[n][p] = "words" => OnRecord(n, p)'
               /\ p \in Remote => answers'[n][p] # "empty"
    <3>1. CASE answers' = answers \/ n # r \/ p # Name(c)
      BY <2>3, <2>5, <3>1 DEF RecordInv, Answering
    <3>2. CASE answers' # answers /\ n = r /\ p = Name(c)
      BY <2>1, <2>3, <2>4, <3>2
    <3> QED BY <3>1, <3>2
  <2>7. \/ at'[c] = "spoken" /\ Say(c) /\ at[c] = "claimed"
        \/ at'[c] = "checking" /\ at[c] = "stored"
        \/ at'[c] = "stored" /\ at[c] = "silent" /\ (c \in Page => Say(c))
    <3>1. CASE Speak(c)
      BY <1>s, <3>1 DEF Speak, Shapes
    <3>2. CASE Answer(c)
      BY <1>s, <3>2, NamesAssumption DEF Answer, Shapes
    <3> QED BY <1>3, <3>1, <3>2
  <2>8. \A d \in Client : req[d].words \subseteq Person
    BY <1>r
  <2>9. Answering'
    <3>1. ASSUME NEW d \in Client
          PROVE  /\ d \in Page /\ at'[d] \in {"read", "claimed", "silent", "stored"}
                      => req'[d].words # {}
                 /\ d \in Page /\ at'[d] = "stored" => OnRecord(req[d].round, Name(d))'
      <4>1. CASE d = c
        <5>1. c \in Page /\ at'[c] \in {"read", "claimed", "silent", "stored"} =>
                at'[c] = "stored" /\ at[c] = "silent" /\ Say(c)
          BY <2>7
        <5>2. c \in Page /\ at[c] = "silent" => req[c].words # {}
          BY DEF RecordInv, Answering
        <5>3. Say(c) => OnRecord(r, Name(c))'
          BY <2>1, <2>2 DEF OnRecord
        <5> QED BY <2>1, <4>1, <5>1, <5>2, <5>3
      <4>2. CASE d # c
        BY <1>r, <2>1, <2>5, <4>2, NameIsPerson DEF RecordInv, Answering
      <4> QED BY <4>1, <4>2
    <3> QED BY <2>6, <3>1 DEF Answering
  <2>10. Carrying'
    <3>1. ASSUME NEW d \in Client
          PROVE  /\ at'[d] \in {"silent", "stored"} => quorum' = "all"
                 /\ at'[d] \in {"read", "claimed"} => req'[d].words \subseteq {Name(d)}
                 /\ at'[d] \in {"ready", "spoken", "queued"} =>
                      \A p \in req'[d].words : OnRecord(req[d].round, p)'
      <4>1. CASE d = c
        <5>1. \/ at'[c] = "spoken" /\ Say(c) /\ at[c] = "claimed"
              \/ at'[c] \in {"stored", "checking"} /\ at[c] \in {"silent", "stored"}
          BY <2>7
        <5>2. /\ at[c] \in {"silent", "stored"} => quorum = "all"
              /\ at[c] = "claimed" => req[c].words \subseteq {Name(c)}
          BY DEF RecordInv, Carrying
        <5>3. Say(c) => OnRecord(r, Name(c))'
          BY <2>1, <2>2 DEF OnRecord
        <5> QED BY <2>1, <4>1, <5>1, <5>2, <5>3
      <4>2. CASE d # c
        BY <1>r, <2>1, <2>5, <4>2 DEF RecordInv, Carrying
      <4> QED BY <4>1, <4>2
    <3> QED BY <3>1 DEF Carrying
  <2>11. TaskOnRecord'
    BY <2>1, <2>2 DEF RecordInv, RecordTypes, TaskOnRecord
  <2> QED BY <2>5, <2>9, <2>10, <2>11
<1>4. ASSUME NEW c \in Client, Queue(c) PROVE Goal
  <2>1. /\ UNCHANGED <<quorum, said, answers, req>> /\ at[c] = "spoken"
        /\ \A d \in Client : at'[d] = IF d = c THEN "queued" ELSE at[d]
        /\ pending' = IF req[c].words = {} THEN pending
                      ELSE [round |-> req[c].round, words |-> req[c].words]
    BY <1>4, <1>s DEF Queue, Shapes
  <2> QED BY <1>r, <2>1 DEF RecordInv, RecordTypes, Answering, Carrying, TaskOnRecord, OnRecord
<1>5. ASSUME NEW c \in Client, CheckAll(c) PROVE Goal
  <2>1. UNCHANGED <<quorum, said, answers, pending>>
    BY <1>5 DEF CheckAll
  <2>2. \A d \in Client \ {c} : at'[d] = at[d] /\ req'[d] = req[d]
    BY <1>5, <1>s DEF CheckAll, Proceed, Shapes
  <2>3. CASE c \in HostTab /\ req[c].expected \subseteq Answered(req[c].round)
    <3>1. /\ req'[c].round = req[c].round /\ at'[c] = "ready"
          /\ req'[c].words = req[c].expected \cap WithWords(req[c].round)
      BY <1>5, <1>s, <2>3 DEF CheckAll, Proceed, Shapes, Request
    <3> QED BY <1>r, <2>1, <2>2, <3>1
            DEF RecordInv, RecordTypes, Answering, Carrying, TaskOnRecord, OnRecord, WithWords
  <2>4. CASE ~ (c \in HostTab /\ req[c].expected \subseteq Answered(req[c].round))
    BY <1>5, <1>s, <2>1, <2>2, <2>4, MoveKeepsRecord DEF CheckAll, Shapes
  <2> QED BY <2>3, <2>4
<1>6. ASSUME NEW h \in HostTab, Stop(h) PROVE Goal
  BY <1>6, <1>h, <1>s, MoveKeepsRecord DEF Stop, Shapes
<1>7. ASSUME UNCHANGED <<quorum, said, answers, at, req>>, pending' \in {pending, None} PROVE Goal
  BY <1>7 DEF RecordInv, RecordTypes, Answering, Carrying, TaskOnRecord, OnRecord
<1>8. ASSUME NEW p, Ignore(p) \/ Unignore(p) \/ StartRun(p) PROVE Goal
  BY <1>7, <1>8 DEF Ignore, Unignore, StartRun
<1>9. ASSUME PopPending \/ PauseAtGate \/ Complete \/ PendingExpires \/ UNCHANGED vars PROVE Goal
  BY <1>7, <1>9 DEF PopPending, PauseAtGate, Complete, PendingExpires, vars
<1>10. ASSUME NEW n \in Round, WinnerExpires(n) PROVE Goal
  BY <1>7, <1>10 DEF WinnerExpires
<1>11. ASSUME NEW n \in Round, NEW p \in Person, AnswerExpires(n, p) PROVE Goal
  <2>1. UNCHANGED <<quorum, said, pending, at, req>>
    BY <1>11 DEF AnswerExpires
  <2>2. /\ answers' \in [Round -> [Person -> Reply]]
        /\ \A k \in Round, q \in Person : answers'[k][q] \in {"none", answers[k][q]}
    BY <1>11, <1>s, ExpiryFacts DEF RecordTypes
  <2> QED BY <2>1, <2>2 DEF RecordInv, RecordTypes, Answering, Carrying, TaskOnRecord, OnRecord
<1> HIDE DEF Goal, Move, Return
<1>12. ASSUME NEW c \in Client, Handle(c) PROVE Goal
  BY <1>12, <1>2, <1>3, <1>4, <1>5 DEF Handle
<1>13. Goal
  BY <1>1, <1>2, <1>6, <1>8, <1>9, <1>10, <1>11, <1>12 DEF Next
<1> QED BY <1>13 DEF Goal

\* Nobody's words reach the next run that the discussion of the round does not have,
\* but the host's of an all round, however often pages post at once and wherever
\* handlers fail.
THEOREM WordsOnRecord == Spec => []TaskOnRecord
<1>1. RecordInv => TaskOnRecord
  BY DEF RecordInv
<1> QED BY <1>1, RecordInit, RecordStep, PTL DEF Spec

-----------------------------------------------------------------------------
(***************************************************************************)
(* All mode with one host tab.  Whatever else answers, the tab takes part  *)
(* in one thing at a time: as long as its request is under way (Serving)   *)
(* the session stays at the gate of that round, no run starts, and from    *)
(* CheckAll on the request holds the words of every remote user it expects.*)
(***************************************************************************)
OneTab == \E h \in HostTab : HostTab = {h}

Final == {"ready", "cleared"} \cup Winning

Serving ==
  \A c \in Client :
    /\ c \in HostTab /\ at[c] # "none" =>
         /\ run = "none" /\ status = "awaiting_input" /\ req[c].round = round
         /\ Remote \ excused \subseteq req[c].expected
    /\ at[c] \in Final => c \in HostTab /\ req[c].expected \cap Remote \subseteq req[c].words

Counted ==
  /\ commits \in [Round -> Nat]
  /\ \A n \in Round : commits[n] <= 1 /\ (n > round => commits[n] = 0)
  /\ status = "awaiting_input" => commits[round] = 0

Heard ==
  /\ ignored \subseteq excused
  /\ pending # None => pending.round = round /\ Remote \ excused \subseteq pending.words

Running == /\ run # "none" => status = "running"
           /\ run = "streaming" => pending = None

AllParts == Serving /\ Counted /\ Heard /\ Running
AllInv   == RecordInv /\ (quorum = "all" => AllParts)

LEMMA AllInit == Init => AllInv
<1> SUFFICES ASSUME Init PROVE AllParts
  BY RecordInit DEF AllInv
<1>1. 1 \in Round
  BY BoundsAssumption DEF Round
<1> QED BY <1>1, NamesAssumption DEF Init, AllParts, Serving, Counted, Heard, Running, Final, Winning

\* A request moves on, and no step of it is final that was not so before.
LEMMA MoveKeepsAll ==
  ASSUME AllParts, NEW c \in Client,
         UNCHANGED <<round, run, status, excused, ignored, pending, commits>>,
         \A d \in Client \ {c} : at'[d] = at[d] /\ req'[d] = req[d],
         \/ at'[c] = "none"
         \/ /\ at[c] # "none" /\ UNCHANGED req
            /\ at'[c] \in Final => at[c] \in Final
  PROVE  AllParts'
<1>1. Serving'
  BY DEF AllParts, Serving, Final, Winning
<1> QED BY <1>1 DEF AllParts, Counted, Heard, Running

LEMMA AllStep == ASSUME OneTab, AllInv, [Next]_vars PROVE AllInv'
<1> SUFFICES ASSUME quorum = "all", AllParts PROVE AllParts'
  <2>1. quorum' = quorum
    BY DEF Next, Handle, Post, Claim, Speak, Queue, Clear, Commit, Look, Answer, CheckAll,
           Fail, Ignore, Unignore, Stop, StartRun, PopPending, PauseAtGate, Complete,
           PendingExpires, WinnerExpires, AnswerExpires, vars
  <2> QED BY <2>1, RecordStep DEF AllInv
<1>s. Shapes
  BY DEF AllInv, RecordInv
<1>r. \A c \in Client : req[c].round \in Round
  BY <1>s DEF Shapes, Request
<1>h. HostTab \subseteq Client
  BY DEF Client
<1> USE DEF Move, Return
<1>1. ASSUME NEW c \in Client, Post(c) PROVE AllParts'
  <2>1. PICK words \in {{}, {Name(c)}} :
          req' = [req EXCEPT ![c] = [round |-> round, words |-> words,
                                     expected |-> Person \ ignored]]
    BY <1>1 DEF Post
  <2>2. /\ req'[c].round = round /\ req'[c].expected = Person \ ignored /\ at'[c] = "read"
        /\ \A d \in Client \ {c} : at'[d] = at[d] /\ req'[d] = req[d]
    BY <1>1, <1>s, <2>1 DEF Post, Shapes
  <2>3. status = "awaiting_input" /\ run = "none"
    BY <1>1 DEF Post, AllParts, Running
  <2>4. UNCHANGED <<round, run, status, excused, ignored, pending, commits>>
    BY <1>1 DEF Post
  <2>5. Serving'
    BY <2>2, <2>3, <2>4, NamesAssumption DEF AllParts, Serving, Heard, Final, Winning, Person
  <2> QED BY <2>4, <2>5 DEF AllParts, Counted, Heard, Running
<1>2. ASSUME NEW c \in Client, Claim(c) \/ Speak(c) \/ Clear(c) \/ Look(c) \/ Answer(c) \/ Fail(c)
      PROVE  AllParts'
  <2>1. \A d \in Client \ {c} : at'[d] = at[d] /\ req'[d] = req[d]
    BY <1>2, <1>s DEF Claim, Speak, Clear, Look, Answer, Fail, Shapes
  <2>2. UNCHANGED <<round, run, status, excused, ignored, pending, commits>>
    BY <1>2 DEF Claim, Speak, Clear, Look, Answer, Fail
  <2>3. \/ at'[c] = "none"
        \/ /\ at[c] # "none" /\ UNCHANGED req
           /\ at'[c] \in Final => at[c] \in Final
    BY <1>2, <1>s DEF Claim, Speak, Clear, Look, Answer, Fail, Shapes, Final, Winning
  <2> QED BY <2>1, <2>2, <2>3, MoveKeepsAll
<1>3. ASSUME NEW c \in Client, Queue(c) PROVE AllParts'
  <2>1. c \in HostTab /\ at[c] = "spoken" /\ req[c].expected \cap Remote \subseteq req[c].words
    BY <1>3 DEF Queue, AllParts, Serving, Final, Winning
  <2>2. /\ run = "none" /\ req[c].round = round
        /\ Remote \ excused \subseteq req[c].words
    BY <2>1 DEF AllParts, Serving
  <2>3. /\ UNCHANGED <<round, run, status, excused, ignored, commits, req>>
        /\ \A d \in Client : at'[d] = IF d = c THEN "queued" ELSE at[d]
    BY <1>3, <1>s DEF Queue, Shapes
  <2>4. Serving'
    BY <2>1, <2>3 DEF AllParts, Serving, Final, Winning
  <2>5. Heard'
    BY <1>3, <2>2, <2>3 DEF Queue, AllParts, Heard
  <2> QED BY <2>2, <2>3, <2>4, <2>5 DEF AllParts, Counted, Running
<1>4. ASSUME NEW c \in Client, Commit(c) PROVE AllParts'
  <2>1. c \in HostTab /\ at[c] = "cleared"
    BY <1>4 DEF Commit, AllParts, Serving, Final
  <2>2. /\ run = "none" /\ req[c].round = round /\ commits[round] = 0 /\ round \in Round
    BY <1>s, <2>1 DEF AllParts, Serving, Counted, Shapes
  <2>3. /\ UNCHANGED <<round, run, excused, ignored, pending>> /\ status' = "idle"
        /\ commits' = [commits EXCEPT ![round] = 1]
    BY <1>4, <2>2 DEF Commit, AllParts, Counted
  <2>4. /\ at'[c] = "none"
        /\ \A d \in Client \ {c} : at'[d] = at[d] /\ req'[d] = req[d]
    BY <1>4, <1>s DEF Commit, Shapes
  <2>5. \A d \in HostTab : d = c
    BY <2>1 DEF OneTab
  <2>6. Serving'
    BY <2>3, <2>4, <2>5 DEF AllParts, Serving, Final, Winning
  <2>7. Counted'
    BY <2>2, <2>3 DEF AllParts, Counted, Round
  <2> QED BY <2>2, <2>3, <2>6, <2>7 DEF AllParts, Heard, Running
<1>5. ASSUME NEW c \in Client, CheckAll(c) PROVE AllParts'
  <2>1. UNCHANGED <<round, run, status, excused, ignored, pending, commits>>
    BY <1>5 DEF CheckAll
  <2>2. \A d \in Client \ {c} : at'[d] = at[d] /\ req'[d] = req[d]
    BY <1>5, <1>s DEF CheckAll, Proceed, Shapes
  <2>3. CASE c \in HostTab /\ req[c].expected \subseteq Answered(req[c].round)
    <3>1. req' = [req EXCEPT ![c].words = req[c].expected \cap WithWords(req[c].round)]
      BY <1>5, <2>3 DEF CheckAll, Proceed
    <3>2. /\ req'[c].round = req[c].round /\ req'[c].expected = req[c].expected
          /\ req'[c].words = req[c].expected \cap WithWords(req[c].round)
      BY <1>s, <3>1 DEF Shapes, Request
    <3>3. ASSUME NEW p \in Remote, p \in req[c].expected PROVE p \in WithWords(req[c].round)
      BY <1>r, <2>3, <3>3
         DEF AllInv, RecordInv, RecordTypes, Answering, Answered, WithWords, Person, Reply
    <3>4. Serving'
      BY <1>5, <2>1, <2>2, <2>3, <3>2, <3>3 DEF CheckAll, AllParts, Serving
    <3> QED BY <2>1, <3>4 DEF AllParts, Counted, Heard, Running
  <2>4. CASE ~ (c \in HostTab /\ req[c].expected \subseteq Answered(req[c].round))
    BY <1>5, <1>s, <2>1, <2>2, <2>4, MoveKeepsAll DEF CheckAll, Shapes
  <2> QED BY <2>3, <2>4
<1>6. ASSUME NEW h \in HostTab, Stop(h) PROVE AllParts'
  <2>1. run = "none" /\ status' = "stopped"
        /\ UNCHANGED <<round, run, excused, ignored, pending, commits>>
    BY <1>6, <1>h DEF Stop, AllParts, Serving
  <2>2. at'[h] = "none" /\ \A d \in Client \ {h} : at'[d] = at[d] /\ req'[d] = req[d]
    BY <1>6, <1>h, <1>s DEF Stop, Shapes
  <2>3. \A d \in HostTab : d = h
    BY DEF OneTab
  <2>4. Serving'
    BY <2>1, <2>2, <2>3 DEF AllParts, Serving, Final, Winning
  <2> QED BY <2>1, <2>4 DEF AllParts, Counted, Heard, Running
<1>7. ASSUME NEW p \in Remote, Ignore(p) \/ Unignore(p) PROVE AllParts'
  <2>1. UNCHANGED <<round, run, status, pending, commits, at, req>>
    BY <1>7 DEF Ignore, Unignore
  <2>2. excused \subseteq excused' /\ ignored' \subseteq excused'
    BY <1>7 DEF Ignore, Unignore, AllParts, Heard
  <2> QED BY <2>1, <2>2 DEF AllParts, Serving, Counted, Heard, Running
<1>8. ASSUME NEW h \in HostTab, StartRun(h) PROVE AllParts'
  <2>1. /\ at[h] = "none" /\ status' = "running" /\ run' = "started"
        /\ UNCHANGED <<round, excused, ignored, pending, commits, at, req>>
    BY <1>8 DEF StartRun
  <2>2. \A d \in HostTab : d = h
    BY DEF OneTab
  <2>3. Serving'
    BY <2>1, <2>2 DEF AllParts, Serving, Final, Winning
  <2> QED BY <2>1, <2>3 DEF AllParts, Counted, Heard, Running
<1>9. CASE PauseAtGate
  <2>1. run = "streaming" /\ run' = "none" /\ pending = None /\ round' = round + 1
        /\ UNCHANGED <<ignored, pending, commits, at, req>>
        /\ excused' = ignored
    BY <1>9 DEF PauseAtGate, AllParts, Running
  <2>2. round \in Nat /\ round + 1 \in Round
    BY <1>9, <1>s, BoundsAssumption DEF PauseAtGate, Shapes, Round
  <2>3. Serving'
    BY <2>1 DEF AllParts, Serving, Final, Winning
  <2>4. Counted'
    BY <2>1, <2>2 DEF AllParts, Counted, Round
  <2>5. Heard'
    BY <1>s, <2>1, <2>2 DEF AllParts, Heard, Shapes
  <2> QED BY <2>1, <2>3, <2>4, <2>5 DEF AllParts, Running
<1>10. CASE PopPending \/ PendingExpires
  BY <1>10 DEF PopPending, PendingExpires, AllParts, Serving, Counted, Heard, Running
<1>11. CASE Complete
  BY <1>11 DEF Complete, AllParts, Serving, Counted, Heard, Running
<1>12. ASSUME UNCHANGED <<round, run, status, excused, ignored, pending, commits, at, req>>
       PROVE  AllParts'
  BY <1>12 DEF AllParts, Serving, Counted, Heard, Running
<1>13. ASSUME NEW n \in Round, \/ WinnerExpires(n)
                               \/ \E p \in Person : AnswerExpires(n, p)
       PROVE  AllParts'
  BY <1>12, <1>13 DEF WinnerExpires, AnswerExpires
<1>14. CASE UNCHANGED vars
  BY <1>12, <1>14 DEF vars
<1> QED BY <1>1, <1>2, <1>3, <1>4, <1>5, <1>6, <1>7, <1>8, <1>9, <1>10, <1>11, <1>13, <1>14
        DEF Next, Handle

\* In all mode a round is committed once: a remote user's request never gets to
\* the claim, and the tab that commits leaves the gate.
THEOREM AllModeCommitsOnce == ASSUME OneTab PROVE Spec => []AllCommitsOnce
<1>1. AllInv => AllCommitsOnce
  BY DEF AllInv, AllParts, Counted, AllCommitsOnce, RoundCommitsOnce
<1>2. AllInv /\ [Next]_vars => AllInv'
  BY AllStep
<1> QED BY <1>1, <1>2, AllInit, PTL DEF Spec

\* In all mode the next run gets the words of everybody who was never ignored in the
\* round, through expired answers and failed requests.
THEOREM AllModeHears == ASSUME OneTab PROVE Spec => []AllAreHeard
<1>1. AllInv => AllAreHeard
  BY DEF AllInv, AllParts, Heard, AllAreHeard
<1>2. AllInv /\ [Next]_vars => AllInv'
  BY AllStep
<1> QED BY <1>1, <1>2, AllInit, PTL DEF Spec

\* In all mode the next run never gets the words of an earlier round.
THEOREM AllModeIsCurrent == ASSUME OneTab PROVE Spec => []PendingIsCurrent
<1>1. AllInv => PendingIsCurrent
  BY DEF AllInv, AllParts, Heard, PendingIsCurrent
<1>2. AllInv /\ [Next]_vars => AllInv'
  BY AllStep
<1> QED BY <1>1, <1>2, AllInit, PTL DEF Spec
=============================================================================
