------------------------------ MODULE Projects ------------------------------
(***************************************************************************)
(* The configuration of a project: one MongoDB document that administrators*)
(* edit as a whole, in forms that may be open for a long time and show     *)
(* masks in place of secrets; the Trello token, which another page writes  *)
(* into the document; the version that a save computes from what it        *)
(* replaces; and the chat sessions, which remember the version they were   *)
(* created under and may only be resumed under that one.                   *)
(*                                                                         *)
(* A save reads the document, restores the masked secrets, validates and   *)
(* replaces the document; two saves can overlap.  Of the configuration the *)
(* model keeps what the version depends on, whether Trello is enabled with *)
(* its token, and one MCP secret; versions count in tenths.                *)
(***************************************************************************)
EXTENDS Naturals

CONSTANTS
  Tab,           \* pages of administrators, each with a form
  Secret,        \* the secrets they may enter
  Absent,        \* no secret, no document, no form
  Mask,          \* what a form shows of a secret
  MaxSaves,      \* bound: saves, clones and tokens stored
  SavesOverlap   \* TRUE if a write may come between read and write of a save

Config == [type : {"round_robin", "selector"}, team_choice : BOOLEAN]
Stored == Secret \cup {Absent, Mask}
Document == [version : Nat, config : Config, trello : BOOLEAN, token : Stored, key : Stored]

ASSUME SecretsAssumption == Absent \notin Secret /\ Mask \notin Secret /\ Mask # Absent
ASSUME NoDocumentAssumption == Absent \notin Document
ASSUME BoundAssumption == MaxSaves \in Nat /\ SavesOverlap \in BOOLEAN

VARIABLES
  project,    \* the document, or Absent
  copy,       \* the document of its clone, or Absent
  form,       \* per tab: what its form shows, or Absent
  at,         \* per tab: none, read (a save is between its read and its write)
  existing,   \* per tab: the document that the save has read
  session,    \* a chat session: the version and configuration it was created under
  creating,   \* the same of a session about to be inserted, or Absent
  deleting,   \* a deletion has found no sessions
  saves       \* history: saves, clones and tokens so far

saving == <<form, at, existing>>
chat   == <<session, creating>>
vars   == <<project, copy, saving, chat, deleting, saves>>

TypeOK ==
  /\ project \in Document \cup {Absent} /\ copy \in Document \cup {Absent}
  /\ form \in [Tab -> [config : Config, trello : BOOLEAN, token : Stored, key : Stored]
                      \cup {Absent}]
  /\ at \in [Tab -> {"none", "read"}]
  /\ existing \in [Tab -> Document \cup {Absent}]
  /\ session \in [version : Nat, config : Config] \cup {Absent}
  /\ creating \in [version : Nat, config : Config] \cup {Absent}
  /\ deleting \in BOOLEAN /\ saves \in 0..MaxSaves

Masked(s) == IF s = Absent THEN Absent ELSE Mask
\* normalize_project: what a page shows of a document, nothing of Trello when off.
Shown(doc) == [config |-> doc.config, trello |-> doc.trello,
               token  |-> IF doc.trello THEN Masked(doc.token) ELSE Absent,
               key    |-> Masked(doc.key)]

\* A new project: no version but the first, no token yet.
Init ==
  /\ \E c \in Config, on \in BOOLEAN, k \in Secret \cup {Absent} :
       project = [version |-> 10, config |-> c, trello |-> on, token |-> Absent, key |-> k]
  /\ copy = Absent
  /\ form = [t \in Tab |-> Absent] /\ at = [t \in Tab |-> "none"]
  /\ existing = [t \in Tab |-> Absent]
  /\ session = Absent /\ creating = Absent /\ deleting = FALSE
  /\ saves = 0

Quiet == SavesOverlap \/ \A t \in Tab : at[t] = "none"
Count == saves < MaxSaves /\ saves' = saves + 1

-----------------------------------------------------------------------------
(* Saving a form.                                                          *)

Load(t) ==
  /\ at[t] = "none" /\ project # Absent
  /\ form' = [form EXCEPT ![t] = Shown(project)]
  /\ UNCHANGED <<project, copy, at, existing, chat, deleting, saves>>

\* The administrator changes the configuration, switches Trello on or off, enters
\* or removes the key, and submits; the handler reads the document.
ReadForSave(t) ==
  /\ at[t] = "none" /\ form[t] # Absent /\ project # Absent /\ Quiet /\ Count
  /\ \E c \in Config, on \in BOOLEAN, k \in {form[t].key, Absent} \cup Secret :
       form' = [form EXCEPT ![t] = [config |-> c, trello |-> on,
                                    token |-> form[t].token, key |-> k]]
  /\ existing' = [existing EXCEPT ![t] = project]
  /\ at' = [at EXCEPT ![t] = "read"]
  /\ UNCHANGED <<project, copy, chat, deleting>>

\* _restore_masked_secrets.  A key that is masked but no longer stored is
\* dropped; a token is kept even if the form did not show one.
RestoredKey(t) == IF form[t].key = Mask THEN existing[t].key ELSE form[t].key

\* Mutant: only the mask brings the token back.
RestoredToken_OnlyMask(t) ==
  IF form[t].token = Mask THEN existing[t].token ELSE form[t].token

RestoredToken(t) ==
  IF form[t].token \in {Mask, Absent} THEN existing[t].token ELSE form[t].token

\* validate_integrations: a document in which Trello is off keeps nothing of it.
Validated(on, token) == IF on THEN token ELSE Absent

\* Mutant: crossing the team_choice boundary does not count as a change.
VersionBump_TypeOnly(old, new) ==
  IF old.config.type # new.type THEN old.version + 1 ELSE old.version

VersionBump(old, new) ==
  IF old.config.type # new.type \/ old.config.team_choice # new.team_choice
    THEN old.version + 1 ELSE old.version

\* replace_one, which matches nothing if the project was deleted meanwhile.
Replace(t) ==
  /\ at[t] = "read" /\ at' = [at EXCEPT ![t] = "none"]
  /\ LET cleaned == [version |-> VersionBump(existing[t], form[t].config),
                     config  |-> form[t].config,
                     trello  |-> form[t].trello,
                     token   |-> Validated(form[t].trello, RestoredToken(t)),
                     key     |-> RestoredKey(t)]
     IN  IF project = Absent
           THEN UNCHANGED <<project, form>>
           ELSE project' = cleaned /\ form' = [form EXCEPT ![t] = Shown(cleaned)]
  /\ existing' = [existing EXCEPT ![t] = Absent]
  /\ UNCHANGED <<copy, chat, deleting, saves>>

\* Validation refuses the form, or its name is taken.
Refuse(t) ==
  /\ at[t] = "read" /\ at' = [at EXCEPT ![t] = "none"]
  /\ existing' = [existing EXCEPT ![t] = Absent]
  /\ UNCHANGED <<project, copy, form, chat, deleting, saves>>

\* Trello's authorization page delivers a token: $set of that field only.
StoreToken ==
  /\ project # Absent /\ Quiet /\ Count
  /\ \E s \in Secret : project' = [project EXCEPT !.token = s]
  /\ UNCHANGED <<copy, saving, chat, deleting>>

NextMajor(version) == 10 * (version \div 10 + 1)

\* Mutant: the clone is built from the project as pages show it.
Clone_Shown ==
  /\ project # Absent /\ copy = Absent /\ Count
  /\ copy' = [version |-> NextMajor(project.version), config |-> project.config,
              trello |-> project.trello, token |-> Shown(project).token,
              key |-> Shown(project).key]
  /\ UNCHANGED <<project, saving, chat, deleting>>

Clone ==
  /\ project # Absent /\ copy = Absent /\ Count
  /\ copy' = [project EXCEPT !.version = NextMajor(project.version),
                             !.token = Validated(project.trello, project.token)]
  /\ UNCHANGED <<project, saving, chat, deleting>>

-----------------------------------------------------------------------------
(* Chat sessions of the project.                                           *)

\* The version is read, then the session inserted.
ReadVersion ==
  /\ project # Absent /\ creating = Absent /\ session = Absent
  /\ creating' = [version |-> project.version, config |-> project.config]
  /\ UNCHANGED <<project, copy, saving, session, deleting, saves>>

InsertSession ==
  /\ creating # Absent
  /\ session' = creating /\ creating' = Absent
  /\ UNCHANGED <<project, copy, saving, deleting, saves>>

DeleteSession ==
  /\ session # Absent /\ session' = Absent
  /\ UNCHANGED <<project, copy, saving, creating, deleting, saves>>

\* delete_project: refused while there are sessions.
CheckSessions ==
  /\ project # Absent /\ ~ deleting /\ session = Absent
  /\ deleting' = TRUE
  /\ UNCHANGED <<project, copy, saving, chat, saves>>

DeleteProject ==
  /\ deleting /\ deleting' = FALSE
  /\ project' = Absent
  /\ UNCHANGED <<copy, saving, chat, saves>>

Next ==
  \/ \E t \in Tab : Load(t) \/ ReadForSave(t) \/ Replace(t) \/ Refuse(t)
  \/ StoreToken \/ Clone \/ ReadVersion \/ InsertSession \/ DeleteSession
  \/ CheckSessions \/ DeleteProject
Spec == Init /\ [][Next]_vars

-----------------------------------------------------------------------------
(* Properties.                                                             *)

\* As long as saves do not overlap: /restart/ lets a session resume (the versions
\* are equal) only if the project has the configuration the session was created
\* under, however many forms were open, and changes undone, in between.
MayResume == session # Absent /\ project # Absent /\ session.version = project.version
SameVersionSameTeam == ~ SavesOverlap /\ MayResume => session.config = project.config

\* The mask that stands for a secret in a form is never stored in its place, by a
\* save or a clone, although secrets may be gone when the form that shows them is
\* submitted.
MaskNeverStored ==
  \A doc \in {project, copy} : doc # Absent => doc.token # Mask /\ doc.key # Mask

\* As long as saves do not overlap with it, a token once stored is lost to no form
\* that was loaded before, whatever that form shows of it: only a save in whose
\* form Trello is switched off takes it away.
TokenNotLost ==
  [][~ SavesOverlap /\ project # Absent /\ project' # Absent
       /\ project.token # Absent /\ project'.token = Absent => ~ project'.trello]_vars
=============================================================================
