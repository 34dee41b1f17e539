---------------------------- MODULE Discussions -----------------------------
(***************************************************************************)
(* The discussions array of a chat session document: messages are pushed   *)
(* onto it one at a time, while the export dialog of a message keeps its   *)
(* payload (the extracted items, and whether they were exported) inside the*)
(* array, and saves it by reading and rewriting the whole array.           *)
(*                                                                         *)
(* The dialog works for one message, in one browser tab; a push to Jira or *)
(* Trello (ExportPush) is one step here.  A payload is a draft number (0   *)
(* if there is none) and the exported flag.  Of the providers and kinds of *)
(* project, whose payloads live side by side, the model has one.           *)
(***************************************************************************)
EXTENDS Naturals

CONSTANTS
  Card,      \* messages that are there from the beginning, each with a dialog
  Late,      \* messages that are appended later
  Absent,    \* no such message, no dialog open
  MaxDraft   \* bound: versions of the items

Message == Card \cup Late
Payload == [draft : 0..MaxDraft, exported : BOOLEAN]
NoExport == [draft |-> 0, exported |-> FALSE]
Array == [Message -> Payload \cup {Absent}]

ASSUME CardsAssumption == Card \cap Late = {} /\ MaxDraft \in Nat
ASSUME AbsentAssumption == Absent \notin Payload

VARIABLES
  alive,      \* the session document exists
  doc,        \* its discussions: per message the export payload, or Absent
  at,         \* per card: where its dialog's request is
  then,       \* per card: where the request goes on after its rewrite
  dialog,     \* per card: the payload its dialog shows, or Absent
  payload,    \* per card: the payload its request is to save
  array,      \* per card: the array its request has read
  drafts,     \* history: drafts made so far
  pushed,     \* history: the drafts that were pushed, with their cards
  said,       \* history: the late messages appended
  clobbered   \* history: a rewrite has replaced an array that it had not read

request == <<at, then, payload, array>>
exports == <<doc, request, dialog, drafts, pushed, said, clobbered>>
discVars == <<alive, exports>>

DiscInit ==
  /\ alive = TRUE
  /\ doc = [m \in Message |-> IF m \in Card THEN NoExport ELSE Absent]
  /\ at = [c \in Card |-> "none"] /\ then = [c \in Card |-> "none"]
  /\ dialog = [c \in Card |-> Absent]
  /\ payload = [c \in Card |-> NoExport] /\ array = [c \in Card |-> doc]
  /\ drafts = 0 /\ pushed = {} /\ said = {} /\ clobbered = FALSE

Goto(c, to) == at' = [at EXCEPT ![c] = to]
\* What is to be saved, and where the request goes on when it is.
Rewrite(c, p, next) ==
  /\ payload' = [payload EXCEPT ![c] = p]
  /\ then' = [then EXCEPT ![c] = next]
  /\ Goto(c, "reading")

-----------------------------------------------------------------------------
(* append_messages: $push, which matches nothing if the session is gone.   *)

AppendMessages(m) ==
  /\ doc' = IF alive THEN [doc EXCEPT ![m] = NoExport] ELSE doc
  /\ said' = said \cup {m}

-----------------------------------------------------------------------------
(* The requests of the dialog.                                             *)

\* The dialog loads the saved payload.
OpenDialog(c) ==
  /\ at[c] = "none" /\ alive
  /\ dialog' = [dialog EXCEPT ![c] = doc[c]]
  /\ UNCHANGED <<alive, doc, request, drafts, pushed, said, clobbered>>

\* The extraction makes a new draft of the message, also of an exported one.
Extract(c) ==
  /\ at[c] = "none" /\ dialog[c] # Absent /\ alive
  /\ drafts < MaxDraft /\ drafts' = drafts + 1
  /\ Rewrite(c, [draft |-> drafts + 1, exported |-> FALSE], "none")
  /\ UNCHANGED <<alive, doc, array, dialog, pushed, said, clobbered>>

\* The user edits the items, then saves them, or pushes them, which saves them
\* first.  A dialog that shows an export is locked.
SaveOrPush(c) ==
  /\ at[c] = "none" /\ dialog[c] # Absent /\ ~ dialog[c].exported
  /\ drafts < MaxDraft /\ drafts' = drafts + 1
  /\ \E next \in {"none", "push"} :
       Rewrite(c, [draft |-> drafts + 1, exported |-> FALSE], next)
  /\ UNCHANGED <<alive, doc, array, dialog, pushed, said, clobbered>>

\* set_discussion_export_payload: find_one ...
ReadArray(c) ==
  /\ at[c] = "reading"
  /\ IF alive
       THEN Goto(c, "writing") /\ array' = [array EXCEPT ![c] = doc]
       ELSE Goto(c, "none") /\ UNCHANGED array
  /\ UNCHANGED <<alive, doc, then, dialog, payload, drafts, pushed, said, clobbered>>

\* ... and $set of the whole array.
WriteArray(c) ==
  /\ at[c] = "writing" /\ Goto(c, then[c])
  /\ IF alive
       THEN /\ doc' = [array[c] EXCEPT ![c] = payload[c]]
            /\ clobbered' = (clobbered \/ doc # array[c])
       ELSE UNCHANGED <<doc, clobbered>>
  /\ dialog' = [dialog EXCEPT ![c] = payload[c]]
  /\ UNCHANGED <<alive, then, payload, array, drafts, pushed, said>>

\* Mutant: a push that fails is recorded all the same.
Push_RecordsFailure(c) ==
  /\ at[c] = "push" /\ Goto(c, "pushed")
  /\ \/ pushed' = pushed \cup {<<c, dialog[c].draft>>}
     \/ UNCHANGED pushed
  /\ UNCHANGED <<alive, doc, then, dialog, payload, array, drafts, said, clobbered>>

\* The items of the dialog are pushed; an error ends the request.
Push(c) ==
  /\ at[c] = "push"
  /\ \/ pushed' = pushed \cup {<<c, dialog[c].draft>>} /\ Goto(c, "pushed")
     \/ UNCHANGED pushed /\ Goto(c, "none")
  /\ UNCHANGED <<alive, doc, then, dialog, payload, array, drafts, said, clobbered>>

\* save_push_result: the payload saved last is marked as exported.
MarkExported(c) ==
  /\ at[c] = "pushed"
  /\ IF alive
       THEN Rewrite(c, [doc[c] EXCEPT !.exported = TRUE], "none")
       ELSE Goto(c, "none") /\ UNCHANGED <<then, payload>>
  /\ UNCHANGED <<alive, doc, array, dialog, drafts, pushed, said, clobbered>>

Dialog(c) ==
  \/ OpenDialog(c) \/ Extract(c) \/ SaveOrPush(c)
  \/ ReadArray(c) \/ WriteArray(c) \/ Push(c) \/ MarkExported(c)

\* The document goes last when a session is deleted.
DeleteDocument ==
  /\ alive /\ alive' = FALSE
  /\ doc' = [m \in Message |-> Absent]
  /\ UNCHANGED <<request, dialog, drafts, pushed, said, clobbered>>

-----------------------------------------------------------------------------
(* Properties.                                                             *)

\* Overlapping rewrites are the only way to lose what was said; without one, an
\* export that is marked as exported holds the very items that were pushed.
IntactUnlessClobbered ==
  alive /\ ~ clobbered =>
    /\ \A m \in said : doc[m] # Absent
    /\ \A c \in Card : doc[c].exported => <<c, doc[c].draft>> \in pushed
=============================================================================
