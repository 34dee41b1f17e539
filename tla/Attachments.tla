---------------------------- MODULE Attachments -----------------------------
(***************************************************************************)
(* The attachments of a chat session, in three stores: the bytes in blob   *)
(* storage, the metadata in MongoDB, the extracted text in a Redis cache.  *)
(* They are staged by an upload, bound to a message by the run that sends  *)
(* it, or withdrawn while staged, and deleted with the session.  No        *)
(* operation spans two stores, and each may fail between two of its steps. *)
(*                                                                         *)
(* The session document and its messages are those of Discussions; the     *)
(* module composes both.  An attachment is uploaded once; images, which    *)
(* are not cached, are left out.  The cache is found again by the index of *)
(* the session's texts, written after the text, and read before a purge.   *)
(***************************************************************************)
EXTENDS Discussions, FiniteSets

CONSTANTS
  Att,        \* attachments
  MaxFaults   \* bound: calls of a store that fail

ASSUME FaultsAssumption == MaxFaults \in Nat

VARIABLES
  blobs,      \* attachments whose bytes are in blob storage
  row,        \* per attachment: none, staged, bound
  cache,      \* per attachment: none, text, empty (the text of a document without one)
  index,      \* the session's index of cached texts
  upload,     \* per attachment: none, looked (at the session), sent (the bytes), over
  withdraw,   \* per attachment: none, found (the staged row), erased (the bytes),
              \* deleted (the row)
  turn,       \* the run: none, found (the rows), bound, reading (the attachments)
  message,    \* the message the run sends
  picked,     \* the attachments it binds
  context,    \* per attachment: none, todo, missed (the cache), loaded, failed, written
              \* (the text, not yet the index)
  ending,     \* the deletion of the session: no, listed, purged, erased, cleared
  toPurge,    \* what the index held when the deletion read it
  strays,     \* history: bytes sent after the session's were erased, or kept then by a fault
  missing,    \* history: bytes erased although the call that did it failed
  stale,      \* history: texts cached after, or left by, the purge meant for them
  faults      \* history: faults so far

texts   == <<cache, index>>
stores  == <<blobs, row, texts>>
run     == <<turn, message, picked, context>>
history == <<strays, missing, stale, faults>>
deletion == <<ending, toPurge>>
attVars == <<stores, upload, withdraw, run, deletion, history>>
vars    == <<discVars, attVars>>

TypeOK ==
  /\ blobs \subseteq Att /\ row \in [Att -> {"none", "staged", "bound"}]
  /\ cache \in [Att -> {"none", "text", "empty"}] /\ index \subseteq Att
  /\ upload \in [Att -> {"none", "looked", "sent", "over"}]
  /\ withdraw \in [Att -> {"none", "found", "erased", "deleted"}]
  /\ turn \in {"none", "found", "bound", "reading"}
  /\ message \in Message /\ picked \subseteq Att
  /\ context \in [Att -> {"none", "todo", "missed", "loaded", "failed", "written"}]
  /\ ending \in {"no", "listed", "purged", "erased", "cleared"} /\ toPurge \subseteq Att
  /\ strays \subseteq Att /\ missing \subseteq Att /\ stale \subseteq Att
  /\ faults \in 0..MaxFaults

Init ==
  /\ DiscInit
  /\ blobs = {} /\ row = [a \in Att |-> "none"] /\ cache = [a \in Att |-> "none"]
  /\ index = {} /\ toPurge = {}
  /\ upload = [a \in Att |-> "none"] /\ withdraw = [a \in Att |-> "none"]
  /\ turn = "none" /\ message \in Late /\ picked = {}
  /\ context = [a \in Att |-> "none"]
  /\ ending = "no" /\ strays = {} /\ missing = {} /\ stale = {} /\ faults = 0

Fault == faults < MaxFaults /\ faults' = faults + 1

-----------------------------------------------------------------------------
(* Upload: the session is looked up, the bytes sent, the row inserted.     *)

LookUp(a) ==
  /\ upload[a] = "none" /\ alive
  /\ upload' = [upload EXCEPT ![a] = "looked"]
  /\ UNCHANGED <<discVars, stores, withdraw, run, deletion, history>>

SendBytes(a) ==
  /\ upload[a] = "looked" /\ upload' = [upload EXCEPT ![a] = "sent"]
  /\ blobs' = blobs \cup {a}
  /\ strays' = IF ending \in {"erased", "cleared"} THEN strays \cup {a} ELSE strays
  /\ UNCHANGED <<discVars, row, texts, withdraw, run, deletion, missing, stale, faults>>

InsertRow(a) ==
  /\ upload[a] = "sent" /\ upload' = [upload EXCEPT ![a] = "over"]
  /\ row' = [row EXCEPT ![a] = "staged"]
  /\ UNCHANGED <<discVars, blobs, texts, withdraw, run, deletion, history>>

\* The upload ends with an error; nothing that it did is undone.
UploadFails(a) ==
  /\ upload[a] \in {"looked", "sent"} /\ Fault
  /\ upload' = [upload EXCEPT ![a] = "over"]
  /\ UNCHANGED <<discVars, stores, withdraw, run, deletion, strays, missing, stale>>

-----------------------------------------------------------------------------
(* A run binds the attachments of its message and reads their texts.       *)

FindRows ==
  /\ turn = "none" /\ alive /\ message \notin said
  /\ turn' = "found" /\ picked' = {a \in Att : row[a] = "staged"} /\ picked' # {}
  /\ UNCHANGED <<discVars, stores, upload, withdraw, message, context, deletion, history>>

\* update_many; what is read again, and was not withdrawn, is put into the task.
Bind ==
  /\ turn = "found" /\ turn' = "reading"
  /\ row' = [a \in Att |-> IF a \in picked /\ row[a] # "none" THEN "bound" ELSE row[a]]
  /\ context' = [a \in Att |-> IF a \in picked /\ row[a] # "none" THEN "todo" ELSE "none"]
  /\ UNCHANGED <<discVars, blobs, texts, upload, withdraw, message, picked, deletion, history>>

LookInCache(a) ==
  /\ context[a] = "todo"
  /\ context' = [context EXCEPT ![a] = IF cache[a] = "none" THEN "missed" ELSE "none"]
  /\ UNCHANGED <<discVars, stores, upload, withdraw, turn, message, picked, deletion, history>>

\* The download fails if the bytes are gone, or for a reason of its own.
Download(a) ==
  /\ context[a] = "missed"
  /\ \/ a \in blobs /\ context' = [context EXCEPT ![a] = "loaded"] /\ UNCHANGED faults
     \/ a \notin blobs /\ context' = [context EXCEPT ![a] = "failed"] /\ UNCHANGED faults
     \/ a \in blobs /\ Fault /\ context' = [context EXCEPT ![a] = "failed"]
  /\ UNCHANGED <<discVars, stores, upload, withdraw, turn, message, picked, deletion,
                 strays, missing, stale>>

\* A text that cannot be extracted is empty, like that of a document without one.
Extracted == {"text", "empty"}

\* The row may be gone by now, or the session's cache purged.
Overtaken(a) ==
  stale' = IF row[a] = "none" \/ ending # "no" THEN stale \cup {a} ELSE stale

\* What could not be downloaded is not cached; the cache may also be out of reach.
CacheText(a) ==
  /\ context[a] \in {"loaded", "failed"}
  /\ \/ /\ context[a] = "loaded" /\ \E t \in Extracted : cache' = [cache EXCEPT ![a] = t]
        /\ context' = [context EXCEPT ![a] = "written"] /\ Overtaken(a)
     \/ context' = [context EXCEPT ![a] = "none"] /\ UNCHANGED <<cache, stale>>
  /\ UNCHANGED <<discVars, blobs, row, index, upload, withdraw, turn, message, picked,
                 deletion, strays, missing, faults>>

\* The pipeline is no transaction: the text may be there without its entry.
IndexText(a) ==
  /\ context[a] = "written" /\ context' = [context EXCEPT ![a] = "none"]
  /\ \/ index' = index \cup {a} /\ UNCHANGED <<stale, faults>>
     \/ UNCHANGED index /\ stale' = stale \cup {a} /\ Fault
  /\ UNCHANGED <<discVars, blobs, row, cache, upload, withdraw, turn, message, picked,
                 deletion, strays, missing>>

CacheExpires(a) ==
  /\ cache[a] # "none" /\ cache' = [cache EXCEPT ![a] = "none"]
  /\ UNCHANGED <<discVars, blobs, row, index, upload, withdraw, run, deletion, history>>

\* The message of the run enters the discussion when the run is checkpointed.
SayMessage ==
  /\ turn = "reading" /\ turn' = "none" /\ \A a \in Att : context[a] = "none"
  /\ AppendMessages(message)
  /\ UNCHANGED <<alive, request, dialog, drafts, pushed, clobbered,
                 stores, upload, withdraw, message, picked, context, deletion, history>>

-----------------------------------------------------------------------------
(* A staged attachment is withdrawn: found, bytes erased, row deleted, its *)
(* text, if there is one, purged.                                          *)

FindStaged(a) ==
  /\ withdraw[a] = "none" /\ alive /\ row[a] = "staged"
  /\ withdraw' = [withdraw EXCEPT ![a] = "found"]
  /\ UNCHANGED <<discVars, stores, upload, run, deletion, history>>

\* An error ends the request, whether or not the bytes are gone.
EraseBytes(a) ==
  /\ withdraw[a] = "found"
  /\ \/ /\ withdraw' = [withdraw EXCEPT ![a] = "erased"] /\ blobs' = blobs \ {a}
        /\ UNCHANGED <<missing, faults>>
     \/ /\ withdraw' = [withdraw EXCEPT ![a] = "none"] /\ Fault
        /\ \/ UNCHANGED <<blobs, missing>>
           \/ blobs' = blobs \ {a} /\ missing' = missing \cup {a}
  /\ UNCHANGED <<discVars, row, texts, upload, run, deletion, strays, stale>>

\* Mutant: a staged attachment is thought to have no text.
DeleteRow_Only(a) ==
  /\ withdraw[a] = "erased" /\ withdraw' = [withdraw EXCEPT ![a] = "none"]
  /\ row' = [row EXCEPT ![a] = "none"]
  /\ UNCHANGED <<discVars, blobs, texts, upload, run, deletion, history>>

\* Whatever the row says by now: a run may have bound it, and read the text.
DeleteRow(a) ==
  /\ withdraw[a] = "erased" /\ withdraw' = [withdraw EXCEPT ![a] = "deleted"]
  /\ row' = [row EXCEPT ![a] = "none"]
  /\ UNCHANGED <<discVars, blobs, texts, upload, run, deletion, history>>

\* The purges are silent if the cache is out of reach.
PurgeText(a) ==
  /\ withdraw[a] = "deleted" /\ withdraw' = [withdraw EXCEPT ![a] = "none"]
  /\ \/ /\ cache' = [cache EXCEPT ![a] = "none"] /\ index' = index \ {a}
        /\ UNCHANGED <<stale, faults>>
     \/ UNCHANGED texts /\ Fault /\ stale' = stale \cup {a}
  /\ UNCHANGED <<discVars, blobs, row, upload, run, deletion, strays, missing>>

-----------------------------------------------------------------------------
(* Deletion of the session: cached texts, bytes, rows, then the document.  *)

Cached == {a \in Att : cache[a] # "none"}

\* A run may be between a text and its entry; out of reach, the cache is left.
ReadIndex ==
  /\ alive /\ ending = "no"
  /\ \/ /\ ending' = "listed" /\ toPurge' = index /\ UNCHANGED faults
        /\ stale' = stale \cup {a \in Att : context[a] = "written"}
     \/ /\ ending' = "purged" /\ UNCHANGED toPurge /\ Fault /\ stale' = stale \cup Cached
  /\ UNCHANGED <<discVars, stores, upload, withdraw, run, strays, missing>>

PurgeCache ==
  /\ ending = "listed" /\ ending' = "purged" /\ toPurge' = {}
  /\ \/ /\ cache' = [a \in Att |-> IF a \in toPurge THEN "none" ELSE cache[a]] /\ index' = {}
        /\ UNCHANGED <<stale, faults>>
     \/ UNCHANGED texts /\ Fault /\ stale' = stale \cup Cached
  /\ UNCHANGED <<discVars, blobs, row, upload, withdraw, run, strays, missing>>

\* Mutant: only the bytes that a row names are erased.
EraseAll_ByRow ==
  /\ ending = "purged" /\ ending' = "erased"
  /\ blobs' = {a \in blobs : row[a] = "none"}
  /\ UNCHANGED <<discVars, row, texts, upload, withdraw, run, toPurge, history>>

\* Everything under the session's prefix; an error is logged, no more.
EraseAll ==
  /\ ending = "purged" /\ ending' = "erased"
  /\ \/ blobs' = {} /\ UNCHANGED <<strays, faults>>
     \/ UNCHANGED blobs /\ strays' = strays \cup blobs /\ Fault
  /\ UNCHANGED <<discVars, row, texts, upload, withdraw, run, toPurge, missing, stale>>

DeleteRows ==
  /\ ending = "erased" /\ ending' = "cleared"
  /\ row' = [a \in Att |-> "none"]
  /\ UNCHANGED <<discVars, blobs, texts, upload, withdraw, run, toPurge, history>>

DeleteSession ==
  /\ ending = "cleared" /\ DeleteDocument
  /\ UNCHANGED attVars

-----------------------------------------------------------------------------
Attachment(a) ==
  \/ LookUp(a) \/ SendBytes(a) \/ InsertRow(a) \/ UploadFails(a)
  \/ LookInCache(a) \/ Download(a) \/ CacheText(a) \/ IndexText(a)
  \/ CacheExpires(a) \/ FindStaged(a) \/ EraseBytes(a) \/ DeleteRow(a) \/ PurgeText(a)

Next ==
  \/ \E a \in Att : Attachment(a)
  \/ FindRows \/ Bind \/ SayMessage
  \/ ReadIndex \/ PurgeCache \/ EraseAll \/ DeleteRows \/ DeleteSession
  \/ (\E c \in Card : Dialog(c)) /\ UNCHANGED attVars
Spec == Init /\ [][Next]_vars

-----------------------------------------------------------------------------
(* Properties.                                                             *)

\* Metadata never names bytes that are not there, unless a withdrawal is under way
\* or failed, or the session is being deleted; and a deleted session leaves no
\* bytes behind, those of failed uploads included, save uploads that overlapped
\* with the deletion and bytes that it failed to erase.
StoresAgree ==
  /\ ending \in {"no", "listed", "purged"} =>
       \A a \in Att : row[a] # "none" /\ withdraw[a] = "none" => a \in blobs \cup missing
  /\ ~ alive => blobs \subseteq strays

\* The texts of attachments that were withdrawn, or deleted with their session, do
\* not linger in the cache, unless a run was still reading them, or the cache was
\* out of reach.
CacheFollowsRows ==
  \A a \in Att : cache[a] # "none" /\ row[a] = "none" => withdraw[a] = "deleted" \/ a \in stale
=============================================================================
