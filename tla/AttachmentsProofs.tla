-------------------------- MODULE AttachmentsProofs --------------------------
(***************************************************************************)
(* Proofs about Attachments and the discussions it composes with, for any  *)
(* number of attachments, messages, dialogs and faults.                    *)
(*                                                                         *)
(* The stores: an upload that has sent its bytes, and a withdrawal that    *)
(* has not erased them, still have them (Backed), and from the erasure of  *)
(* the session's prefix on only strays are left (Swept).  A text that is   *)
(* not stale is in the index, or about to be, until the index is read, and *)
(* then in what is to be purged, and then gone (Purged); between two runs  *)
(* none is about to be (Idle).                                             *)
(*                                                                         *)
(* The discussions: as long as no rewrite has replaced an array that it    *)
(* had not read, the document shows what each dialog between its save and  *)
(* its mark shows (Current), so that the mark is set on what was pushed.   *)
(***************************************************************************)
EXTENDS Attachments, TLAPS

-----------------------------------------------------------------------------
(* The stores.                                                             *)

Types ==
  /\ row \in [Att -> {"none", "staged", "bound"}]
  /\ upload \in [Att -> {"none", "looked", "sent", "over"}]
  /\ withdraw \in [Att -> {"none", "found", "erased", "deleted"}]
  /\ cache \in [Att -> {"none", "text", "empty"}]
  /\ blobs \subseteq Att /\ stale \subseteq Att
  /\ index \subseteq Att /\ toPurge \subseteq Att
  /\ context \in [Att -> {"none", "todo", "missed", "loaded", "failed", "written"}]
  /\ ending \in {"no", "listed", "purged", "erased", "cleared"}

Early == ending \in {"no", "listed", "purged"}
Backed ==
  \A a \in Att :
    /\ upload[a] # "over" => row[a] = "none" /\ withdraw[a] = "none"
    /\ Early /\ upload[a] = "sent" => a \in blobs
    /\ Early /\ withdraw[a] = "found" => a \in blobs \cup missing
    /\ Early /\ row[a] # "none" /\ withdraw[a] = "none" => a \in blobs \cup missing
    /\ withdraw[a] = "deleted" => row[a] = "none"
Swept == /\ ~ Early => blobs \subseteq strays
         /\ ~ alive => ending = "cleared"

Purged ==
  \A a \in Att : cache[a] # "none" =>
    \/ a \in stale
    \/ ending = "no" /\ (a \in index \/ context[a] = "written")
    \/ ending = "listed" /\ a \in toPurge

Idle == turn # "reading" => \A a \in Att : context[a] = "none"

StoreInv == Types /\ Idle /\ Backed /\ Swept /\ Purged /\ CacheFollowsRows

LEMMA StoreInit == Init => StoreInv
BY DEF Init, DiscInit, StoreInv, Types, Idle, Backed, Swept, Purged, CacheFollowsRows, Early

LEMMA StoreStep == StoreInv /\ [Next]_vars => StoreInv'
<1> SUFFICES ASSUME StoreInv, [Next]_vars PROVE StoreInv'
  OBVIOUS
<1> USE DEF StoreInv, Types, Idle, Backed, Swept, Purged, CacheFollowsRows, Early,
            stores, texts, deletion, run, history, attVars, discVars, exports
<1>1. ASSUME NEW a \in Att, LookUp(a) \/ InsertRow(a) \/ UploadFails(a) PROVE StoreInv'
  BY <1>1 DEF LookUp, InsertRow, UploadFails
<1>2. ASSUME NEW a \in Att, SendBytes(a) PROVE StoreInv'
  BY <1>2 DEF SendBytes
<1>3. ASSUME NEW a \in Att, LookInCache(a) \/ Download(a) \/ CacheExpires(a)
      PROVE StoreInv'
  BY <1>3 DEF LookInCache, Download, CacheExpires
<1>12. ASSUME NEW a \in Att, CacheText(a) PROVE StoreInv'
  BY <1>12 DEF CacheText, Extracted, Overtaken
<1>13. ASSUME NEW a \in Att, IndexText(a) PROVE StoreInv'
  BY <1>13 DEF IndexText
<1>4. ASSUME NEW a \in Att, FindStaged(a) \/ DeleteRow(a) \/ PurgeText(a) PROVE StoreInv'
  <2>1. CASE FindStaged(a)
    BY <1>4, <2>1 DEF FindStaged
  <2>2. CASE DeleteRow(a)
    BY <1>4, <2>2 DEF DeleteRow
  <2>3. CASE PurgeText(a)
    <3>1. UNCHANGED <<alive, blobs, row, upload, ending, toPurge, turn, context, strays, missing>>
      BY <2>3 DEF PurgeText
    <3>2. /\ withdraw[a] = "deleted" /\ withdraw'[a] = "none"
          /\ withdraw' \in [Att -> {"none", "found", "erased", "deleted"}]
          /\ \A b \in Att : b # a => withdraw'[b] = withdraw[b]
      BY <1>4, <2>3 DEF PurgeText
    <3>3. /\ cache' \in [Att -> {"none", "text", "empty"}] /\ stale' \subseteq Att
          /\ stale \subseteq stale' /\ (cache'[a] # "none" => a \in stale')
          /\ \A b \in Att : b # a => cache'[b] = cache[b] /\ (b \in index => b \in index')
          /\ index' \subseteq Att
      BY <1>4, <2>3 DEF PurgeText
    <3>4. Types' /\ Idle' /\ Swept' /\ Purged'
      BY <1>4, <3>1, <3>2, <3>3
    <3>5. CacheFollowsRows'
      BY <1>4, <3>1, <3>2, <3>3
    <3>6. Backed'
      BY <1>4, <3>1, <3>2
    <3> QED BY <3>4, <3>5, <3>6
  <2> QED BY <1>4, <2>1, <2>2, <2>3
<1>5. ASSUME NEW a \in Att, EraseBytes(a) PROVE StoreInv'
  BY <1>5 DEF EraseBytes
<1>6. CASE FindRows \/ Bind
  BY <1>6 DEF FindRows, Bind
<1>7. CASE SayMessage
  BY <1>7 DEF SayMessage
<1>14. CASE ReadIndex \/ PurgeCache
  BY <1>14 DEF ReadIndex, PurgeCache, Cached
<1>8. CASE EraseAll \/ DeleteRows
  BY <1>8 DEF EraseAll, DeleteRows
<1>9. CASE DeleteSession
  BY <1>9 DEF DeleteSession, DeleteDocument
<1>10. ASSUME NEW c \in Card, Dialog(c), UNCHANGED attVars PROVE StoreInv'
  <2>1. UNCHANGED alive
    BY <1>10 DEF Dialog, OpenDialog, Extract, SaveOrPush, ReadArray, WriteArray, Push,
                 MarkExported
  <2> QED BY <1>10, <2>1
<1>11. CASE UNCHANGED vars
  BY <1>11 DEF vars
<1> QED BY <1>1, <1>2, <1>3, <1>4, <1>5, <1>6, <1>7, <1>8, <1>9, <1>10, <1>11,
      <1>12, <1>13, <1>14 DEF Next, Attachment

\* Metadata names bytes that are there, and a deleted session leaves none but strays,
\* whichever of the calls fail and however uploads, withdrawals and runs interleave.
THEOREM StoresConsistent == Spec => []StoresAgree
<1>1. StoreInv => StoresAgree
  BY DEF StoreInv, Backed, Swept, Early, StoresAgree
<1> QED BY <1>1, StoreInit, StoreStep, PTL DEF Spec

\* No text outlives its attachment in the cache, save one that a run was reading when
\* it was to be purged, or whose purge failed.
THEOREM CacheConsistent == Spec => []CacheFollowsRows
<1>1. StoreInv => CacheFollowsRows
  BY DEF StoreInv
<1> QED BY <1>1, StoreInit, StoreStep, PTL DEF Spec

-----------------------------------------------------------------------------
(* The discussions.                                                        *)

\* The messages that have dialogs are there as long as the session is, and in every
\* array that a request has read.
DiscTypes ==
  /\ doc \in Array /\ array \in [Card -> Array]
  /\ alive => \A c \in Card : doc[c] # Absent
  /\ \A c, d \in Card : at[c] = "writing" => array[c][d] # Absent
  /\ at \in [Card -> {"none", "reading", "writing", "push", "pushed"}]
  /\ then \in [Card -> {"none", "push"}]
  /\ payload \in [Card -> Payload] /\ dialog \in [Card -> Payload \cup {Absent}]
  /\ drafts \in 0..MaxDraft
  /\ message \in Late /\ said \subseteq Late

\* What a dialog has saved and is about to mark is what the document shows and what
\* it has pushed; a payload that is marked was pushed.
Current ==
  \A c \in Card :
    /\ at[c] \in {"push", "pushed"} => doc[c] = dialog[c]
    /\ at[c] = "pushed" => <<c, dialog[c].draft>> \in pushed
    /\ at[c] \in {"reading", "writing"} /\ payload[c].exported =>
         <<c, payload[c].draft>> \in pushed

DiscInv == DiscTypes /\ (alive /\ ~ clobbered => Current) /\ IntactUnlessClobbered

LEMMA NoExportFacts ==
  NoExport \in Payload /\ NoExport # Absent /\ NoExport.exported = FALSE
<1>1. NoExport \in Payload /\ NoExport.exported = FALSE
  BY CardsAssumption DEF NoExport, Payload
<1> QED BY <1>1, AbsentAssumption

LEMMA DiscInvInit == Init => DiscInv
<1> SUFFICES ASSUME Init PROVE DiscInv
  OBVIOUS
<1>1. NoExport \in Payload /\ NoExport # Absent /\ NoExport.exported = FALSE
  BY NoExportFacts
<1>2. doc \in Array /\ \A c \in Card : doc[c] = NoExport
  BY <1>1 DEF Init, DiscInit, Array, Message
<1>3. /\ array = [c \in Card |-> doc] /\ at = [c \in Card |-> "none"]
      /\ then = [c \in Card |-> "none"] /\ payload = [c \in Card |-> NoExport]
      /\ dialog = [c \in Card |-> Absent] /\ drafts = 0 /\ said = {} /\ message \in Late
  BY DEF Init, DiscInit
<1>4. array \in [Card -> Array]
  BY <1>2, <1>3
<1>5. payload \in [Card -> Payload] /\ dialog \in [Card -> Payload \cup {Absent}]
  BY <1>1, <1>3
<1>6. at \in [Card -> {"none", "reading", "writing", "push", "pushed"}]
      /\ then \in [Card -> {"none", "push"}] /\ \A c \in Card : at[c] = "none"
  BY <1>3
<1>7. drafts \in 0..MaxDraft
  BY <1>3, CardsAssumption
<1>8. DiscTypes
  BY <1>1, <1>2, <1>3, <1>4, <1>5, <1>6, <1>7 DEF DiscTypes
<1> QED BY <1>1, <1>2, <1>3, <1>6, <1>8 DEF DiscInv, Current, IntactUnlessClobbered

\* A request has chosen what to save.
LEMMA RewriteKeeps ==
  ASSUME DiscInv, NEW c \in Card, NEW p \in Payload, NEW next \in {"none", "push"},
         Rewrite(c, p, next),
         UNCHANGED <<alive, doc, array, dialog, pushed, said, clobbered, message>>,
         drafts' \in 0..MaxDraft, at[c] \in {"none", "pushed"},
         alive /\ ~ clobbered /\ p.exported => <<c, p.draft>> \in pushed
  PROVE  DiscInv'
<1>1. DiscTypes'
  BY DEF DiscInv, DiscTypes, Rewrite, Goto
<1>2. alive /\ ~ clobbered => Current'
  BY DEF DiscInv, DiscTypes, Current, Rewrite, Goto
<1> QED BY <1>1, <1>2 DEF DiscInv, IntactUnlessClobbered

LEMMA DialogKeeps ==
  ASSUME DiscInv, NEW c \in Card, Dialog(c), UNCHANGED message PROVE DiscInv'
<1>1. CASE OpenDialog(c)
  <2>1. DiscTypes'
    BY <1>1 DEF DiscInv, DiscTypes, OpenDialog, request, Array, Message
  <2>2. alive /\ ~ clobbered => Current'
    BY <1>1 DEF DiscInv, DiscTypes, Current, OpenDialog, request
  <2> QED BY <1>1, <2>1, <2>2 DEF DiscInv, IntactUnlessClobbered, OpenDialog
<1>2. CASE Extract(c) \/ SaveOrPush(c)
  <2>1. drafts + 1 \in 0..MaxDraft
    BY <1>2, CardsAssumption DEF Extract, SaveOrPush, DiscInv, DiscTypes
  <2>2. PICK next \in {"none", "push"} :
          Rewrite(c, [draft |-> drafts + 1, exported |-> FALSE], next)
    BY <1>2 DEF Extract, SaveOrPush
  <2>3. [draft |-> drafts + 1, exported |-> FALSE] \in Payload
    BY <2>1 DEF Payload
  <2> QED BY <1>2, <2>1, <2>2, <2>3, RewriteKeeps DEF Extract, SaveOrPush
<1>3. CASE ReadArray(c)
  <2>1. DiscTypes'
    BY <1>3 DEF DiscInv, DiscTypes, ReadArray, Goto
  <2>2. alive /\ ~ clobbered => Current'
    BY <1>3 DEF DiscInv, DiscTypes, Current, ReadArray, Goto
  <2> QED BY <1>3, <2>1, <2>2 DEF DiscInv, IntactUnlessClobbered, ReadArray
<1>4. CASE WriteArray(c)
  <2> DEFINE p == payload[c]
  <2>1. p \in Payload /\ p # Absent /\ c \in Message
    BY AbsentAssumption DEF DiscInv, DiscTypes, Message
  <2>2. ASSUME alive PROVE doc' \in Array /\ \A d \in Card : doc'[d] # Absent
    <3>1. array[c] \in Array /\ doc' = [array[c] EXCEPT ![c] = p]
      BY <1>4, <2>2 DEF WriteArray, DiscInv, DiscTypes
    <3>2. doc' \in Array
      BY <2>1, <3>1 DEF Array
    <3>3. \A d \in Card : array[c][d] # Absent
      BY <1>4 DEF WriteArray, DiscInv, DiscTypes
    <3>4. \A d \in Card : doc'[d] # Absent
      BY <2>1, <3>1, <3>3 DEF Array, Message
    <3> QED BY <3>2, <3>4
  <2>3. doc' \in Array /\ (alive => \A d \in Card : doc'[d] # Absent)
    BY <1>4, <2>2 DEF WriteArray, DiscInv, DiscTypes
  <2>4. /\ at' \in [Card -> {"none", "reading", "writing", "push", "pushed"}]
        /\ \A d \in Card : at'[d] = "writing" => at[d] = "writing"
    BY <1>4 DEF WriteArray, Goto, DiscInv, DiscTypes
  <2>5. dialog' \in [Card -> Payload \cup {Absent}]
    BY <1>4, <2>1 DEF WriteArray, DiscInv, DiscTypes
  <2>6. UNCHANGED <<alive, array, then, payload, drafts, message, said>>
    BY <1>4 DEF WriteArray
  <2>7. DiscTypes'
    BY <2>3, <2>4, <2>5, <2>6 DEF DiscInv, DiscTypes
  <2>8. ASSUME alive', ~ clobbered' PROVE Current' /\ IntactUnlessClobbered'
    <3>1. /\ doc = array[c] /\ ~ clobbered /\ alive
          /\ doc' = [doc EXCEPT ![c] = payload[c]] /\ c \in Message
      BY <1>4, <2>8 DEF WriteArray, Message
    <3>2. doc'[c] = payload[c] /\ \A m \in Message : m # c => doc'[m] = doc[m]
      BY <3>1 DEF DiscInv, DiscTypes, Array
    <3>3. Current'
      BY <1>4, <3>1, <3>2 DEF DiscInv, DiscTypes, Current, WriteArray, Goto, Message
    <3>4. payload[c] # Absent
      BY AbsentAssumption DEF DiscInv, DiscTypes
    <3>5. said' = said /\ pushed' = pushed /\ said \subseteq Message
      BY <1>4 DEF WriteArray, DiscInv, DiscTypes, Message
    <3>6. \A m \in said : doc'[m] # Absent
      BY <3>1, <3>2, <3>4, <3>5 DEF DiscInv, IntactUnlessClobbered
    <3>7. ASSUME NEW d \in Card, doc'[d].exported PROVE <<d, doc'[d].draft>> \in pushed
      <4>1. CASE d = c
        BY <1>4, <3>1, <3>2, <3>7, <4>1 DEF WriteArray, DiscInv, Current
      <4>2. CASE d # c
        BY <3>1, <3>2, <3>7, <4>2 DEF DiscInv, IntactUnlessClobbered, Message
      <4> QED BY <4>1, <4>2
    <3>8. IntactUnlessClobbered'
      BY <3>5, <3>6, <3>7 DEF IntactUnlessClobbered
    <3> QED BY <3>3, <3>8
  <2> QED BY <2>7, <2>8 DEF DiscInv, IntactUnlessClobbered
<1>5. CASE Push(c)
  <2>1. DiscTypes'
    BY <1>5 DEF DiscInv, DiscTypes, Push, Goto
  <2>2. alive /\ ~ clobbered => Current'
    BY <1>5 DEF DiscInv, DiscTypes, Current, Push, Goto
  <2> QED BY <1>5, <2>1, <2>2 DEF DiscInv, IntactUnlessClobbered, Push
<1>6. CASE MarkExported(c)
  <2>1. CASE alive
    <3>1. doc[c] \in Payload
      BY <2>1 DEF DiscInv, DiscTypes, Array, Message
    <3> DEFINE p == [doc[c] EXCEPT !.exported = TRUE]
    <3>2. p \in Payload /\ p.draft = doc[c].draft
      BY <3>1 DEF Payload
    <3>3. alive /\ ~ clobbered => <<c, p.draft>> \in pushed
      BY <1>6, <3>2 DEF MarkExported, DiscInv, Current
    <3> QED BY <1>6, <2>1, <3>2, <3>3, RewriteKeeps DEF MarkExported, DiscInv, DiscTypes
  <2>2. CASE ~ alive
    <3>1. DiscTypes'
      BY <1>6, <2>2 DEF DiscInv, DiscTypes, MarkExported, Goto
    <3> QED BY <1>6, <2>2, <3>1 DEF DiscInv, IntactUnlessClobbered, MarkExported
  <2> QED BY <2>1, <2>2
<1> QED BY <1>1, <1>2, <1>3, <1>4, <1>5, <1>6 DEF Dialog

LEMMA DiscStep == DiscInv /\ [Next]_vars => DiscInv'
<1> SUFFICES ASSUME DiscInv, [Next]_vars PROVE DiscInv'
  OBVIOUS
<1>1. ASSUME NEW c \in Card, Dialog(c), UNCHANGED attVars PROVE DiscInv'
  BY <1>1, DialogKeeps DEF attVars, run
<1>2. CASE SayMessage
  <2>1. message \in Late /\ message \in Message /\ message \notin Card
    BY CardsAssumption DEF DiscInv, DiscTypes, Message
  <2>2. NoExport \in Payload /\ NoExport # Absent
    BY NoExportFacts
  <2>3. /\ doc' = (IF alive THEN [doc EXCEPT ![message] = NoExport] ELSE doc)
        /\ said' = said \cup {message}
        /\ UNCHANGED <<alive, at, then, payload, array, dialog, drafts, pushed, clobbered,
                       message>>
    BY <1>2 DEF SayMessage, AppendMessages, request
  <2>4. /\ \A c \in Card : doc'[c] = doc[c]
        /\ alive => doc'[message] = NoExport /\ \A m \in said : m # message => doc'[m] = doc[m]
        /\ doc' \in Array
    BY <2>1, <2>2, <2>3 DEF DiscInv, DiscTypes, Array, Message
  <2>5. DiscTypes'
    BY <2>1, <2>3, <2>4 DEF DiscInv, DiscTypes
  <2>6. alive /\ ~ clobbered => Current'
    BY <2>3, <2>4 DEF DiscInv, Current
  <2>7. IntactUnlessClobbered'
    BY <2>2, <2>3, <2>4 DEF DiscInv, IntactUnlessClobbered
  <2> QED BY <2>3, <2>5, <2>6, <2>7 DEF DiscInv
<1>3. CASE DeleteSession
  <2>1. ~ alive' /\ DiscTypes'
    BY <1>3 DEF DeleteSession, DeleteDocument, DiscInv, DiscTypes, Array, request, attVars, run
  <2> QED BY <2>1 DEF DiscInv, IntactUnlessClobbered
<1>4. CASE UNCHANGED <<discVars, message>>
  BY <1>4 DEF discVars, exports, request, DiscInv, DiscTypes, Current, IntactUnlessClobbered
<1>5. ASSUME NEW a \in Att, Attachment(a) PROVE UNCHANGED <<discVars, message>>
  BY <1>5 DEF Attachment, LookUp, SendBytes, InsertRow, UploadFails, LookInCache, Download,
              CacheText, IndexText, CacheExpires, FindStaged, EraseBytes, DeleteRow, PurgeText, run
<1>6. CASE FindRows \/ Bind \/ ReadIndex \/ PurgeCache \/ EraseAll \/ DeleteRows
  BY <1>4, <1>6 DEF FindRows, Bind, ReadIndex, PurgeCache, EraseAll, DeleteRows, run
<1>7. CASE UNCHANGED vars
  BY <1>4, <1>7 DEF vars, attVars, run
<1> QED BY <1>1, <1>2, <1>3, <1>4, <1>5, <1>6, <1>7 DEF Next

\* Overlapping rewrites of the array are the only way to lose what was said, or to
\* mark as exported what was not pushed.
THEOREM DiscussionIntact == Spec => []IntactUnlessClobbered
<1>1. DiscInv => IntactUnlessClobbered
  BY DEF DiscInv
<1> QED BY <1>1, DiscInvInit, DiscStep, PTL DEF Spec

-----------------------------------------------------------------------------
(* Types.                                                                  *)

LEMMA TypeStep == TypeOK /\ [Next]_vars => TypeOK'
<1> SUFFICES ASSUME TypeOK, [Next]_vars PROVE TypeOK'
  OBVIOUS
<1> USE FaultsAssumption DEF TypeOK, stores, texts, deletion, run, history, attVars
<1>1. ASSUME NEW a \in Att, LookUp(a) \/ SendBytes(a) \/ InsertRow(a) PROVE TypeOK'
  BY <1>1 DEF LookUp, SendBytes, InsertRow
<1>2. ASSUME NEW a \in Att, UploadFails(a) PROVE TypeOK'
  BY <1>2 DEF UploadFails, Fault
<1>3. ASSUME NEW a \in Att, LookInCache(a) \/ CacheExpires(a) \/ FindStaged(a) \/ DeleteRow(a)
      PROVE  TypeOK'
  BY <1>3 DEF LookInCache, CacheExpires, FindStaged, DeleteRow
<1>4. ASSUME NEW a \in Att, Download(a) PROVE TypeOK'
  BY <1>4 DEF Download, Fault
<1>5. ASSUME NEW a \in Att, CacheText(a) PROVE TypeOK'
  BY <1>5 DEF CacheText, Overtaken, Extracted
<1>12. ASSUME NEW a \in Att, IndexText(a) PROVE TypeOK'
  BY <1>12 DEF IndexText, Fault
<1>6. ASSUME NEW a \in Att, EraseBytes(a) PROVE TypeOK'
  BY <1>6 DEF EraseBytes, Fault
<1>7. ASSUME NEW a \in Att, PurgeText(a) PROVE TypeOK'
  BY <1>7 DEF PurgeText, Fault
<1>8. CASE FindRows \/ Bind \/ SayMessage
  BY <1>8 DEF FindRows, Bind, SayMessage
<1>9. CASE ReadIndex \/ PurgeCache
  BY <1>9 DEF ReadIndex, PurgeCache, Cached, Fault
<1>10. CASE EraseAll \/ DeleteRows \/ DeleteSession
  BY <1>10 DEF EraseAll, DeleteRows, DeleteSession, Fault
<1>11. CASE UNCHANGED attVars
  BY <1>11
<1> QED BY <1>1, <1>2, <1>3, <1>4, <1>5, <1>6, <1>7, <1>8, <1>9, <1>10, <1>11,
      <1>12 DEF Next, Attachment, vars

\* Every variable of the three stores and of the requests that change them keeps its
\* type.
THEOREM TypeCorrect == Spec => []TypeOK
<1>1. Init => TypeOK
  BY FaultsAssumption DEF Init, TypeOK, Message
<1> QED BY <1>1, TypeStep, PTL DEF Spec
=============================================================================
