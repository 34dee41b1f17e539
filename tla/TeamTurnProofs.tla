--------------------------- MODULE TeamTurnProofs ---------------------------
(***************************************************************************)
(* Proofs about TeamTurn, for every number of remote users, tabs and turns.*)
(***************************************************************************)
EXTENDS TeamTurn, TLAPS

\* A step of the agent of one turn, with the faults that may strike it.
TurnStep(t) ==
  Offer(t) \/ WaitCancelled(t) \/ PopResponse(t) \/ WaitTimesOut(t)
    \/ ReadOffer(t) \/ DeleteKeys(t) \/ TurnFails(t) \/ CleanupFails(t)

RunStep ==
  \/ StartRun \/ EndRun \/ SignalCancel \/ Abandon \/ OfferExpires
  \/ \E t \in Turn, u \in Remote : SelectProxy(t, u)

PostStep(c) ==
  Post(c) \/ ReadTurn(c) \/ Claim(c) \/ StoreResponse(c) \/ AppendMessage(c)
    \/ PostFails(c)

\* Next, sorted by the actor that takes the step.
LEMMA Steps ==
  [Next]_vars <=> \/ RunStep
                  \/ \E t \in Turn : TurnStep(t)
                  \/ \E c \in Client : PostStep(c)
                  \/ UNCHANGED vars
BY DEF Next, RunStep, TurnStep, PostStep, Agent, Handle

-----------------------------------------------------------------------------
\* A request that has read an offer, and no other, carries the turn it read.
Carries == \A c \in Client : at[c] \in {"read", "claimed", "stored"} <=> req[c] # None

TypeInv == TypeOK /\ Carries

LEMMA TypeInit == Init => TypeInv
<1>1. ASSUME Init PROVE TypeOK
  <2>1. faults \in 0..MaxFaults /\ abandoned \subseteq Turn /\ stranded \subseteq Turn
      /\ said \in [Turn -> Nat]
    BY <1>1, BoundAssumption DEF Init
  <2>2. stage \in [Turn -> Stage] /\ target \in [Turn -> Remote \cup {None}]
    BY <1>1 DEF Init, Stage
  <2> QED BY <1>1, <2>1, <2>2 DEF Init, TypeOK
<1>2. Init => Carries
  BY DEF Init, Carries
<1> QED BY <1>1, <1>2 DEF TypeInv

LEMMA TypeStep == TypeInv /\ [Next]_vars => TypeInv'
<1> SUFFICES ASSUME TypeOK, Carries, [Next]_vars PROVE TypeOK' /\ Carries'
  BY DEF TypeInv
<1> USE NoneAssumption, BoundAssumption DEF TypeOK, Stage
<1>1. CASE RunStep
  <2>1. CASE StartRun \/ EndRun \/ SignalCancel
    BY <2>1 DEF StartRun, EndRun, SignalCancel, turn, keys, post, past, Carries
  <2>2. CASE OfferExpires
    BY <2>2 DEF OfferExpires, run, turn, post, past, Carries
  <2>4. CASE Abandon
    <3>1. faults' \in 0..MaxFaults /\ abandoned' \subseteq Turn
      BY <2>4 DEF Abandon, Fault
    <3> QED BY <2>4, <3>1 DEF Abandon, turn, keys, post, Carries
  <2>3. ASSUME NEW t \in Turn, NEW u \in Remote, SelectProxy(t, u)
        PROVE  TypeOK' /\ Carries'
    BY <2>3 DEF SelectProxy, Step, keys, post, past, Carries
  <2> QED BY <1>1, <2>1, <2>2, <2>3, <2>4 DEF RunStep
<1>2. ASSUME NEW t \in Turn, TurnStep(t) PROVE TypeOK' /\ Carries'
  <2>1. CASE Offer(t) \/ WaitCancelled(t) \/ PopResponse(t) \/ WaitTimesOut(t)
    BY <2>1 DEF Offer, WaitCancelled, PopResponse, WaitTimesOut, Step,
                run, keys, post, past, Carries
  <2>2. CASE ReadOffer(t) \/ DeleteKeys(t)
    BY <2>2 DEF ReadOffer, DeleteKeys, Step, GoOn, keys, post, past, Carries
  <2>3. CASE TurnFails(t) \/ CleanupFails(t)
    BY <2>3 DEF TurnFails, CleanupFails, Fault, GoOn, run, keys, post, Carries
  <2> QED BY <1>2, <2>1, <2>2, <2>3 DEF TurnStep
<1>3. ASSUME NEW c \in Client, PostStep(c) PROVE TypeOK' /\ Carries'
  <2>1. CASE Post(c)
    BY <1>3, <2>1 DEF Post, Move, run, turn, keys, past, Carries
  <2>2. CASE ReadTurn(c)
    BY <1>3, <2>2 DEF ReadTurn, Return, run, turn, keys, past, Carries
  <2>3. CASE Claim(c)
    BY <1>3, <2>3 DEF Claim, Move, Return, run, turn, past, Carries
  <2>4. CASE StoreResponse(c)
    BY <1>3, <2>4 DEF StoreResponse, Move, run, turn, past, Carries
  <2>5. CASE AppendMessage(c)
    BY <1>3, <2>5 DEF AppendMessage, Return, run, turn, keys, past, Carries
  <2>6. CASE PostFails(c)
    BY <1>3, <2>6 DEF PostFails, Return, Fault, run, turn, keys, Carries
  <2> QED BY <1>3, <2>1, <2>2, <2>3, <2>4, <2>5, <2>6 DEF PostStep
<1>4. CASE UNCHANGED vars
  BY <1>4 DEF vars, run, turn, keys, post, past, Carries
<1> QED BY <1>1, <1>2, <1>3, <1>4, Steps

\* Every variable keeps its type.
THEOREM TypeCorrect == Spec => []TypeOK
<1>1. TypeInv => TypeOK
  BY DEF TypeInv
<1> QED BY <1>1, TypeInit, TypeStep, PTL DEF Spec

-----------------------------------------------------------------------------
\* An offer without an agent comes from a Redis error at its withdrawal alone, and
\* neither from a torn-down run whose agent meets the agents of the next one nor from
\* a failed turn or POST: the agent that leaves an offer standing has seen that it is
\* not its own.
THEOREM AgentBehindOffer == Spec => []OfferHasAgent
<1>1. Init => OfferHasAgent
  BY DEF Init, OfferHasAgent
<1>2. TypeInv /\ OfferHasAgent /\ [Next]_vars => OfferHasAgent'
  <2> SUFFICES ASSUME TypeOK, OfferHasAgent, [Next]_vars PROVE OfferHasAgent'
    BY DEF TypeInv
  <2> USE NoneAssumption, BoundAssumption DEF OfferHasAgent, TypeOK, Open
  <2>1. CASE RunStep
    <3>1. CASE StartRun \/ EndRun \/ SignalCancel \/ OfferExpires
      BY <3>1 DEF StartRun, EndRun, SignalCancel, OfferExpires,
                  turn, keys, past
    <3>2. CASE Abandon
      BY <3>2 DEF Abandon, Fault, turn, keys
    <3>3. ASSUME NEW t \in Turn, NEW u \in Remote, SelectProxy(t, u)
          PROVE  OfferHasAgent'
      BY <3>3 DEF SelectProxy, Step, keys, past
    <3> QED BY <2>1, <3>1, <3>2, <3>3 DEF RunStep
  <2>2. ASSUME NEW t \in Turn, TurnStep(t) PROVE OfferHasAgent'
    <3>1. CASE Offer(t)
      BY <3>1 DEF Offer, Step, past
    <3>2. CASE WaitCancelled(t) \/ PopResponse(t) \/ WaitTimesOut(t)
      BY <3>2 DEF WaitCancelled, PopResponse, WaitTimesOut, Step, keys, past
    <3>3. CASE ReadOffer(t) \/ DeleteKeys(t)
      BY <3>3 DEF ReadOffer, DeleteKeys, Step, keys, past
    <3>4. CASE TurnFails(t) \/ CleanupFails(t)
      BY <3>4 DEF TurnFails, CleanupFails, Fault, keys
    <3> QED BY <2>2, <3>1, <3>2, <3>3, <3>4 DEF TurnStep
  <2>3. ASSUME NEW c \in Client, PostStep(c) PROVE OfferHasAgent'
    BY <2>3 DEF PostStep, Post, ReadTurn, Claim, StoreResponse, AppendMessage,
                PostFails, Fault, turn, keys, past
  <2>4. CASE UNCHANGED vars
    BY <2>4 DEF vars, turn, keys, past
  <2> QED BY <2>1, <2>2, <2>3, <2>4, Steps
<1> QED BY <1>1, <1>2, TypeInit, TypeStep, PTL DEF Spec

-----------------------------------------------------------------------------
(* One run in one turn at a time: unless a run was torn down, every turn   *)
(* that has begun and is not over is the one its run waits for.            *)

OneTurn ==
  abandoned = {} => \A t \in Turn : stage[t] \notin {"new", "done"} => current = t

\* The user whose turn it is can answer: no other turn takes its offer away,
\* as long as no run was torn down in a turn.
THEOREM TurnCanBeAnswered == Spec => []CurrentIsOnOffer
<1>1. Init => OneTurn /\ CurrentIsOnOffer
  BY DEF Init, OneTurn, CurrentIsOnOffer
<1>2. TypeInv /\ OneTurn /\ CurrentIsOnOffer /\ [Next]_vars
        => OneTurn' /\ CurrentIsOnOffer'
  <2> SUFFICES ASSUME TypeOK, OneTurn, CurrentIsOnOffer, [Next]_vars
               PROVE  OneTurn' /\ CurrentIsOnOffer'
    BY DEF TypeInv
  <2> USE NoneAssumption, BoundAssumption
      DEF OneTurn, CurrentIsOnOffer, TypeOK, Open, Stage
  <2>1. CASE RunStep
    <3>1. CASE StartRun \/ EndRun \/ SignalCancel \/ OfferExpires
      BY <3>1 DEF StartRun, EndRun, SignalCancel, OfferExpires,
                  run, turn, keys, past
    <3>2. CASE Abandon
      BY <3>2 DEF Abandon, turn, keys
    <3>3. ASSUME NEW t \in Turn, NEW u \in Remote, SelectProxy(t, u)
          PROVE  OneTurn' /\ CurrentIsOnOffer'
      BY <3>3 DEF SelectProxy, Step, keys, past
    <3> QED BY <2>1, <3>1, <3>2, <3>3 DEF RunStep
  <2>2. ASSUME NEW t \in Turn, TurnStep(t) PROVE OneTurn' /\ CurrentIsOnOffer'
    <3>1. CASE Offer(t)
      BY <3>1 DEF Offer, Step, run, past
    <3>2. CASE WaitCancelled(t) \/ PopResponse(t) \/ WaitTimesOut(t)
      BY <3>2 DEF WaitCancelled, PopResponse, WaitTimesOut, Step, run, keys, past
    <3>3. CASE ReadOffer(t)
      BY <3>3 DEF ReadOffer, Step, GoOn, keys, past
    <3>4. CASE DeleteKeys(t)
      BY <3>4 DEF DeleteKeys, Step, GoOn, past
    <3>5. CASE TurnFails(t) \/ CleanupFails(t)
      BY <3>5 DEF TurnFails, CleanupFails, GoOn, run, keys
    <3> QED BY <2>2, <3>1, <3>2, <3>3, <3>4, <3>5 DEF TurnStep
  <2>3. ASSUME NEW c \in Client, PostStep(c) PROVE OneTurn' /\ CurrentIsOnOffer'
    BY <2>3 DEF PostStep, Post, ReadTurn, Claim, StoreResponse, AppendMessage,
                PostFails, run, turn, keys, past
  <2>4. CASE UNCHANGED vars
    BY <2>4 DEF vars, run, turn, keys, past
  <2> QED BY <2>1, <2>2, <2>3, <2>4, Steps
<1> QED BY <1>1, <1>2, TypeInit, TypeStep, PTL DEF Spec

-----------------------------------------------------------------------------
(* One answer per open turn.  No request knows a turn before it is offered;*)
(* from then on the claim key stands for the answer that was accepted, and *)
(* only the end of the turn removes it.                                    *)

Fresh ==
  \A t \in Turn : stage[t] \in {"new", "asked"} =>
    active # t /\ said[t] = 0 /\ \A c \in Client : req[c] # t

Claimed ==
  \A t \in Turn : stage[t] \in Open /\ t \notin claims =>
    said[t] = 0 /\ \A c \in Client : req[c] = t => at[c] = "read"

\* OneAnswerWhileOpen without sets of requests.
Single ==
  \A t \in Turn : stage[t] \in Open =>
    /\ said[t] <= 1
    /\ \A c \in Client : req[c] = t /\ at[c] \in {"claimed", "stored"} =>
         /\ said[t] = 0
         /\ \A d \in Client : req[d] = t /\ at[d] \in {"claimed", "stored"} => d = c

AnswerInv == Fresh /\ Claimed /\ Single

LEMMA AnswerInit == Init => AnswerInv
BY NoneAssumption DEF Init, AnswerInv, Fresh, Claimed, Single, Open

LEMMA AnswerStep == TypeInv /\ AnswerInv /\ [Next]_vars => AnswerInv'
<1> SUFFICES ASSUME TypeOK, Carries, AnswerInv, [Next]_vars PROVE AnswerInv'
  BY DEF TypeInv
<1> USE NoneAssumption, BoundAssumption
    DEF AnswerInv, Fresh, Claimed, Single, Open, TypeOK
<1>1. CASE RunStep
  <2>1. CASE StartRun \/ EndRun \/ SignalCancel \/ Abandon
    BY <2>1 DEF StartRun, EndRun, SignalCancel, Abandon, turn, keys, post
  <2>2. CASE OfferExpires
    BY <2>2 DEF OfferExpires, turn, post
  <2>3. ASSUME NEW t \in Turn, NEW u \in Remote, SelectProxy(t, u) PROVE AnswerInv'
    BY <2>3 DEF SelectProxy, Step, keys, post
  <2> QED BY <1>1, <2>1, <2>2, <2>3 DEF RunStep
<1>2. ASSUME NEW t \in Turn, TurnStep(t) PROVE AnswerInv'
  <2>1. CASE Offer(t)
    BY <2>1 DEF Offer, Step, post
  <2>2. CASE WaitCancelled(t) \/ PopResponse(t) \/ WaitTimesOut(t)
    BY <2>2 DEF WaitCancelled, PopResponse, WaitTimesOut, Step, keys, post
  <2>3. CASE ReadOffer(t)
    BY <2>3 DEF ReadOffer, Step, keys, post
  <2>4. CASE DeleteKeys(t)
    BY <2>4 DEF DeleteKeys, Step, post
  <2>5. CASE TurnFails(t)
    BY <2>5 DEF TurnFails, keys, post
  <2>6. CASE CleanupFails(t)
    BY <2>6 DEF CleanupFails, keys, post
  <2> QED BY <1>2, <2>1, <2>2, <2>3, <2>4, <2>5, <2>6 DEF TurnStep
<1>3. ASSUME NEW c \in Client, PostStep(c) PROVE AnswerInv'
  <2>1. CASE Post(c)
    BY <1>3, <2>1 DEF Post, Move, turn, keys, Carries
  <2>2. CASE ReadTurn(c)
    BY <1>3, <2>2 DEF ReadTurn, Return, turn, keys, Carries
  <2>3. CASE Claim(c)
    <3>1. req[c] \in Turn
      BY <1>3, <2>3 DEF Claim, Carries
    <3> QED BY <1>3, <2>3, <3>1 DEF Claim, Move, Return, turn
  <2>4. CASE StoreResponse(c)
    BY <1>3, <2>4 DEF StoreResponse, Move, turn
  <2>5. CASE AppendMessage(c)
    <3>1. req[c] \in Turn
      BY <1>3, <2>5 DEF AppendMessage, Carries
    <3> QED BY <1>3, <2>5, <3>1 DEF AppendMessage, Return, turn, keys
  <2>6. CASE PostFails(c)
    BY <1>3, <2>6 DEF PostFails, Return, turn, keys
  <2> QED BY <1>3, <2>1, <2>2, <2>3, <2>4, <2>5, <2>6 DEF PostStep
<1>4. CASE UNCHANGED vars
  BY <1>4 DEF vars, turn, keys, post
<1> QED BY <1>1, <1>2, <1>3, <1>4, Steps

\* While the agent of a turn is listening, one answer is accepted, whatever the
\* number of tabs that post one and however their requests interleave or fail.
THEOREM OneAnswerAtATime == Spec => []OneAnswerWhileOpen
<1>1. AnswerInv => OneAnswerWhileOpen
  BY DEF AnswerInv, Single, OneAnswerWhileOpen, OneAnswer, Carrying
<1> QED BY <1>1, TypeInit, TypeStep, AnswerInit, AnswerStep, PTL DEF Spec
=============================================================================
