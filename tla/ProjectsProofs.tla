---------------------------- MODULE ProjectsProofs ----------------------------
(***************************************************************************)
(* Proofs about Projects, for any number of tabs, secrets and saves.       *)
(*                                                                         *)
(* Types first.  Then Clean: no document that is stored, cloned or held by *)
(* a save under way has a mask for a secret.  Then, for saves that do not  *)
(* overlap, Serial: the one save under way holds the project as it is; and *)
(* Dated, which says of sessions what makes comparing versions sound: they *)
(* are no newer than the project, and of its configuration if as new.      *)
(***************************************************************************)
EXTENDS Projects, TLAPS

Form   == [config : Config, trello : BOOLEAN, token : Stored, key : Stored]
Origin == [version : Nat, config : Config]

\* A save under way has a form and has read a document.
Saving == \A t \in Tab : at[t] = "read" => existing[t] \in Document /\ form[t] \in Form
TypeInv == TypeOK /\ Saving

LEMMA ShownType == \A doc \in Document : Shown(doc) \in Form
BY DEF Shown, Masked, Document, Form, Stored

LEMMA TypeInit == Init => TypeInv
<1> SUFFICES ASSUME Init PROVE TypeInv
  OBVIOUS
<1>1. project \in Document
  BY DEF Init, Document, Stored
<1>2. saves \in 0..MaxSaves
  BY BoundAssumption DEF Init
<1> QED BY <1>1, <1>2 DEF Init, TypeInv, TypeOK, Saving

LEMMA TypeStep == TypeInv /\ [Next]_vars => TypeInv'
<1> SUFFICES ASSUME TypeInv, [Next]_vars PROVE TypeInv'
  OBVIOUS
<1> USE DEF TypeInv, Saving
<1>a. Count => saves' \in 0..MaxSaves
  BY BoundAssumption DEF Count, TypeOK
<1>1. ASSUME NEW t \in Tab, Load(t) PROVE TypeInv'
  <2>1. Shown(project) \in Form
    BY <1>1, ShownType DEF Load, TypeOK
  <2> QED BY <1>1, <2>1 DEF Load, TypeOK, chat, Form
<1>2. ASSUME NEW t \in Tab, ReadForSave(t) PROVE TypeInv'
  <2>1. form[t] \in Form /\ project \in Document
    BY <1>2 DEF ReadForSave, TypeOK, Form
  <2>2. \A c \in Config, on \in BOOLEAN, k \in {form[t].key, Absent} \cup Secret :
          [config |-> c, trello |-> on, token |-> form[t].token, key |-> k] \in Form
    BY <2>1 DEF Form, Stored
  <2>3. form' \in [Tab -> Form \cup {Absent}] /\ form'[t] \in Form
    BY <1>2, <2>2 DEF ReadForSave, TypeOK, Form
  <2>4. \A u \in Tab : u # t => form'[u] = form[u]
    BY <1>2 DEF ReadForSave, TypeOK
  <2>5. TypeOK'
    BY <1>2, <1>a, <2>3 DEF ReadForSave, TypeOK, chat, Form
  <2> QED BY <1>2, <2>1, <2>3, <2>4, <2>5 DEF ReadForSave, TypeOK
<1>3. ASSUME NEW t \in Tab, Replace(t) PROVE TypeInv'
  <2>1. existing[t] \in Document /\ form[t] \in Form
    BY <1>3 DEF Replace
  <2>2. Validated(form[t].trello, RestoredToken(t)) \in Stored /\ RestoredKey(t) \in Stored
    BY <2>1 DEF Validated, RestoredToken, RestoredKey, Document, Form, Stored
  <2>3. VersionBump(existing[t], form[t].config) \in Nat
    BY <2>1 DEF VersionBump, Document, Form
  <2>4. [version |-> VersionBump(existing[t], form[t].config), config |-> form[t].config,
         trello |-> form[t].trello, token |-> Validated(form[t].trello, RestoredToken(t)),
         key |-> RestoredKey(t)] \in Document
    BY <2>1, <2>2, <2>3 DEF Document, Form
  <2>5. project' \in Document \cup {Absent} /\ form' \in [Tab -> Form \cup {Absent}]
    BY <1>3, <2>4, ShownType DEF Replace, TypeOK, Form
  <2>6. \A u \in Tab : u # t => /\ form'[u] = form[u] /\ at'[u] = at[u]
                                /\ existing'[u] = existing[u]
    BY <1>3 DEF Replace, TypeOK
  <2>7. TypeOK'
    BY <1>3, <2>5 DEF Replace, TypeOK, chat, Form
  <2> QED BY <1>3, <2>6, <2>7 DEF Replace, TypeOK
<1>4. ASSUME NEW t \in Tab, Refuse(t) PROVE TypeInv'
  BY <1>4 DEF Refuse, TypeOK, chat
<1>5. CASE StoreToken
  <2>1. \A s \in Secret : [project EXCEPT !.token = s] \in Document
    BY <1>5 DEF StoreToken, TypeOK, Document, Stored
  <2> QED BY <1>5, <1>a, <2>1 DEF StoreToken, TypeOK, saving, chat
<1>6. CASE Clone
  <2>1. NextMajor(project.version) \in Nat
    BY <1>6 DEF Clone, TypeOK, Document, NextMajor
  <2>2. copy' \in Document
    BY <1>6, <2>1 DEF Clone, TypeOK, Document, Validated, Stored
  <2> QED BY <1>6, <1>a, <2>2 DEF Clone, TypeOK, saving, chat
<1>7. CASE ReadVersion \/ InsertSession \/ DeleteSession
  <2>1. session' \in Origin \cup {Absent} /\ creating' \in Origin \cup {Absent}
    BY <1>7 DEF ReadVersion, InsertSession, DeleteSession, TypeOK, Document, Origin
  <2> QED BY <1>7, <2>1 DEF ReadVersion, InsertSession, DeleteSession, TypeOK, saving, Origin
<1>8. CASE CheckSessions \/ DeleteProject
  BY <1>8 DEF CheckSessions, DeleteProject, TypeOK, saving, chat
<1>9. CASE UNCHANGED vars
  BY <1>9 DEF vars, saving, chat, TypeOK
<1> QED BY <1>1, <1>2, <1>3, <1>4, <1>5, <1>6, <1>7, <1>8, <1>9 DEF Next

\* Every variable keeps its type: what a save composes of a form and of the document
\* it has read is a document.
THEOREM TypeCorrect == Spec => []TypeOK
<1>1. TypeInv => TypeOK
  BY DEF TypeInv
<1> QED BY <1>1, TypeInit, TypeStep, PTL DEF Spec

-----------------------------------------------------------------------------
\* The documents there are: the project, its clone, those that saves have read.
NoMask(doc) == doc = Absent \/ (doc.token # Mask /\ doc.key # Mask)
Clean ==
  /\ NoMask(project) /\ NoMask(copy)
  /\ \A t \in Tab : at[t] = "read" => NoMask(existing[t])

LEMMA CleanInit == Init => Clean
BY SecretsAssumption DEF Init, Clean, NoMask

LEMMA CleanStep == TypeInv /\ Clean /\ [Next]_vars => Clean'
<1> SUFFICES ASSUME TypeInv, Clean, [Next]_vars PROVE Clean'
  OBVIOUS
<1> USE DEF Clean, NoMask
<1>1. ASSUME NEW t \in Tab, Load(t) \/ Refuse(t) PROVE Clean'
  BY <1>1 DEF Load, Refuse, TypeInv, TypeOK
<1>2. ASSUME NEW t \in Tab, ReadForSave(t) PROVE Clean'
  BY <1>2 DEF ReadForSave, TypeInv, TypeOK
<1>3. ASSUME NEW t \in Tab, Replace(t) PROVE Clean'
  <2>1. existing[t] \in Document /\ existing[t] # Absent
    BY <1>3, NoDocumentAssumption DEF Replace, TypeInv, Saving
  <2>2. Validated(form[t].trello, RestoredToken(t)) # Mask /\ RestoredKey(t) # Mask
    BY <1>3, <2>1, SecretsAssumption DEF Replace, RestoredToken, RestoredKey, Validated
  <2>3. NoMask(project')
    BY <1>3, <2>2 DEF Replace
  <2> QED BY <1>3, <2>3 DEF Replace, TypeInv, TypeOK
<1>4. CASE StoreToken
  <2>1. \A s \in Secret : NoMask([project EXCEPT !.token = s])
    BY <1>4, SecretsAssumption DEF StoreToken, TypeInv, TypeOK, Document
  <2> QED BY <1>4, <2>1 DEF StoreToken, saving
<1>5. CASE Clone
  <2>1. NoMask(copy')
    BY <1>5, SecretsAssumption DEF Clone, Validated, TypeInv, TypeOK, Document
  <2> QED BY <1>5, <2>1 DEF Clone, saving
<1>6. CASE ReadVersion \/ InsertSession \/ DeleteSession \/ CheckSessions \/ DeleteProject
  BY <1>6 DEF ReadVersion, InsertSession, DeleteSession, CheckSessions, DeleteProject, saving
<1>7. CASE UNCHANGED vars
  BY <1>7 DEF vars, saving
<1> QED BY <1>1, <1>2, <1>3, <1>4, <1>5, <1>6, <1>7 DEF Next

\* Whatever saves, clones and forms overlap, the mask of a secret is never stored.
THEOREM SecretsSurvive == Spec => []MaskNeverStored
<1>1. Clean => MaskNeverStored
  BY DEF Clean, NoMask, MaskNeverStored
<1> QED BY <1>1, TypeInit, TypeStep, CleanInit, CleanStep, PTL DEF Spec

-----------------------------------------------------------------------------
\* While saves do not overlap: there is one at a time, and while it is between its
\* read and its write nothing but a deletion touches the project.
Serial ==
  ~ SavesOverlap =>
    \A t \in Tab : at[t] = "read" =>
      /\ project = existing[t] \/ project = Absent
      /\ \A u \in Tab : at[u] = "read" => u = t

\* What a session remembers of the project, against the project as it is now.
NotNewer(origin) ==
  origin # Absent /\ project # Absent =>
    /\ origin.version <= project.version
    /\ origin.version = project.version => origin.config = project.config
Dated == ~ SavesOverlap => NotNewer(session) /\ NotNewer(creating)

VersionInv == Serial /\ Dated

LEMMA VersionInit == Init => VersionInv
BY DEF Init, VersionInv, Serial, Dated, NotNewer

\* The version grows with every change of what it stands for.
LEMMA BumpGrows ==
  ASSUME NEW old \in Document, NEW new \in Config
  PROVE  /\ VersionBump(old, new) >= old.version
         /\ VersionBump(old, new) = old.version => new = old.config
BY DEF VersionBump, Document, Config

LEMMA VersionStep == TypeInv /\ VersionInv /\ [Next]_vars => VersionInv'
<1> SUFFICES ASSUME TypeInv, Serial, Dated, [Next]_vars, ~ SavesOverlap
             PROVE  Serial' /\ Dated'
  BY DEF VersionInv, Serial, Dated
<1>1. ASSUME NEW t \in Tab, Load(t) \/ Refuse(t) PROVE Serial' /\ Dated'
  BY <1>1 DEF Load, Refuse, TypeInv, TypeOK, Serial, Dated, NotNewer, chat
<1>2. ASSUME NEW t \in Tab, ReadForSave(t) PROVE Serial' /\ Dated'
  BY <1>2 DEF ReadForSave, Quiet, TypeInv, TypeOK, Serial, Dated, NotNewer, chat
<1>3. ASSUME NEW t \in Tab, Replace(t) PROVE Serial' /\ Dated'
  <2>1. existing[t] \in Document /\ form[t].config \in Config
    BY <1>3 DEF Replace, TypeInv, Saving, Form
  <2>2. \A u \in Tab : at'[u] # "read"
    BY <1>3 DEF Replace, TypeInv, TypeOK, Serial
  <2>3. CASE project = Absent
    BY <1>3, <2>2, <2>3 DEF Replace, Serial, Dated, NotNewer, chat
  <2>4. CASE project # Absent
    <3>1. project = existing[t]
      BY <1>3, <2>4 DEF Replace, Serial
    <3>2. /\ project'.version = VersionBump(project, form[t].config)
          /\ project'.config = form[t].config
      BY <1>3, <2>4, <3>1 DEF Replace
    <3>3. /\ project'.version >= project.version
          /\ project'.version = project.version => project'.config = project.config
      BY <2>1, <3>1, <3>2, BumpGrows
    <3>4. project.version \in Nat /\ project'.version \in Nat
      BY <2>1, <3>1, <3>2 DEF VersionBump, Document
    <3>5. ASSUME NEW o \in {session, creating} PROVE NotNewer(o)'
      <4>1. CASE o = Absent
        BY <4>1, <1>3 DEF NotNewer, Replace, chat
      <4>2. CASE o # Absent
        <5>1. /\ o.version \in Nat /\ o.version <= project.version
              /\ o.version = project.version => o.config = project.config
          BY <2>4, <4>2 DEF Dated, NotNewer, TypeInv, TypeOK
        <5> QED BY <5>1, <3>3, <3>4 DEF NotNewer
      <4> QED BY <4>1, <4>2
    <3> QED BY <1>3, <2>2, <3>5 DEF Serial, Dated, NotNewer, Replace, chat
  <2> QED BY <2>3, <2>4
<1>4. CASE StoreToken
  <2>1. project'.version = project.version /\ project'.config = project.config
    BY <1>4 DEF StoreToken, TypeInv, TypeOK, Document
  <2> QED BY <1>4, <2>1 DEF StoreToken, Quiet, Serial, Dated, NotNewer, saving, chat
<1>5. CASE ReadVersion
  <2>1. NotNewer(creating)'
    BY <1>5 DEF ReadVersion, NotNewer, TypeInv, TypeOK, Document
  <2> QED BY <1>5, <2>1 DEF ReadVersion, Serial, Dated, NotNewer, saving
<1>6. CASE InsertSession \/ DeleteSession
  BY <1>6 DEF InsertSession, DeleteSession, Serial, Dated, NotNewer, saving
<1>7. CASE Clone \/ CheckSessions \/ DeleteProject
  BY <1>7 DEF Clone, CheckSessions, DeleteProject, Serial, Dated, NotNewer, saving, chat
<1>8. CASE UNCHANGED vars
  BY <1>8 DEF vars, Serial, Dated, NotNewer, saving, chat
<1> QED BY <1>1, <1>2, <1>3, <1>4, <1>5, <1>6, <1>7, <1>8 DEF Next

\* Where saves do not overlap, a session that may be resumed finds the configuration
\* it was created under, however often the project changed in between.
THEOREM ResumedAsCreated == Spec => []SameVersionSameTeam
<1>1. VersionInv => SameVersionSameTeam
  BY DEF VersionInv, Dated, NotNewer, SameVersionSameTeam, MayResume
<1> QED BY <1>1, TypeInit, TypeStep, VersionInit, VersionStep, PTL DEF Spec

\* Where saves do not overlap with it, a token once stored stays until the project is
\* deleted or a form is saved in which Trello is switched off, whatever else that form
\* shows and however long it was open.
THEOREM TokenKept == Spec => TokenNotLost
<1> DEFINE Kept == ~ SavesOverlap /\ project # Absent /\ project' # Absent
                     /\ project.token # Absent /\ project'.token = Absent => ~ project'.trello
<1>1. ASSUME TypeInv, VersionInv, [Next]_vars PROVE [Kept]_vars
  <2>1. ASSUME NEW t \in Tab, Replace(t) PROVE Kept
    <3>1. ~ SavesOverlap /\ project # Absent => project = existing[t]
      BY <1>1, <2>1 DEF VersionInv, Serial, Replace
    <3>2. project # Absent /\ project' # Absent =>
            /\ project'.trello = form[t].trello
            /\ project'.token = Validated(form[t].trello, RestoredToken(t))
      BY <2>1 DEF Replace
    <3> QED BY <3>1, <3>2 DEF RestoredToken, Validated
  <2>2. CASE StoreToken
    BY <1>1, <2>2, SecretsAssumption DEF StoreToken, TypeInv, TypeOK, Document
  <2>3. CASE DeleteProject
    BY <2>3 DEF DeleteProject
  <2>4. CASE project' = project
    BY <2>4
  <2>5. CASE UNCHANGED vars
    BY <2>5
  <2> QED BY <1>1, <2>1, <2>2, <2>3, <2>4, <2>5
          DEF Next, Load, ReadForSave, Refuse, Clone, ReadVersion, InsertSession,
              DeleteSession, CheckSessions
<1>2. QED
  BY <1>1, TypeInit, TypeStep, VersionInit, VersionStep, PTL DEF Spec, TokenNotLost
=============================================================================
