--------------------------- MODULE ArtifactsProofs ---------------------------
(***************************************************************************)
(* The invariant of Artifacts, for any number of keys, reapers and tries,  *)
(* as facts about its steps: RemoteDelegationProofs cites them for the     *)
(* system the artifacts are a part of.                                     *)
(***************************************************************************)
EXTENDS Artifacts, TLAPS

\* No reaper holds a claim on k.
Unclaimed(k) == \A r \in Reaper : reaper[r].pc # "idle" => reaper[r].key # k

\* What the position of a create() says about the tables, the storage and the
\* reapers of its key.
WriterInv(k) ==
  /\ writer[k] = "free" => ~blob[k] /\ ~row[k] /\ intent[k] = "none" /\ Unclaimed(k)
  /\ writer[k] = "scheduled" => ~row[k] /\ Unclaimed(k)
  /\ writer[k] = "stored" => blob[k] /\ ~row[k] /\ Unclaimed(k)
  /\ writer[k] = "created" => row[k] /\ blob[k] /\ intent[k] = "completed" /\ Unclaimed(k)
  /\ writer[k] \in {"undo", "undone", "gone"} => ~row[k]
  /\ writer[k] = "undone" => ~blob[k]
  /\ writer[k] \in Writing => intent[k] = "pending"
  /\ writer[k] \in {"undo", "gone"} /\ blob[k] => intent[k] \in Open \cup {"failed"}

\* A reaper that is about to complete an intent has deleted the blob.
ReaperInv(r) == reaper[r].pc = "complete" /\ ~torn[reaper[r].key] => ~blob[reaper[r].key]

ArtifactInv ==
  /\ ArtifactTypeOK
  /\ \A k \in Key : torn[k] \/ WriterInv(k)
  /\ \A k \in Key : writer[k] = "created" => row[k]
  /\ \A r \in Reaper : ReaperInv(r)

\* The initial state, with no key in use.
LEMMA ArtifactInitInv == ASSUME ArtifactInit PROVE ArtifactInv
  BY ArtifactAssumption DEF ArtifactInit, ArtifactInv, ArtifactTypeOK, WriterInv, ReaperInv,
     Unclaimed, Writing, Claimed, Open

\* scheduleUploadCleanup keeps the invariant.
LEMMA ScheduleInv ==
  ASSUME ArtifactInv, NEW k \in Key, ScheduleUpload(k) PROVE ArtifactInv'
  BY ArtifactAssumption DEF ArtifactInv, ArtifactTypeOK, WriterInv, ReaperInv,
     Unclaimed, Writing, Claimed, Open, ScheduleUpload

\* So does every other step of create(), its death included.
LEMMA CreateInv ==
  ASSUME ArtifactInv, NEW k \in Key, CreateStep(k) \/ WriterDies(k) PROVE ArtifactInv'
<1> USE ArtifactAssumption DEF ArtifactInv, ArtifactTypeOK, WriterInv, ReaperInv,
     Unclaimed, Writing, Claimed, Open
<1>1. CASE Upload(k)
  <2>1. writer[k] = "scheduled" /\ UNCHANGED <<row, intent, tries, reaper, torn>>
    BY <1>1 DEF Upload
  <2>2. CASE writer' = [writer EXCEPT ![k] = "stored"] /\ blob' = [blob EXCEPT ![k] = TRUE]
    BY <2>1, <2>2
  <2>3. CASE writer' = [writer EXCEPT ![k] = "gone"] /\ blob' = blob
    BY <2>1, <2>3
  <2>4. CASE writer' = [writer EXCEPT ![k] = "gone"] /\ blob' = [blob EXCEPT ![k] = TRUE]
    BY <2>1, <2>4
  <2> QED BY <1>1, <2>2, <2>3, <2>4 DEF Upload
<1>2. CASE Register(k) BY <1>2 DEF Register
<1>3. CASE RegisterFails(k)
  <2>1. writer[k] = "stored" /\ writer' = [writer EXCEPT ![k] = "undo"] /\ UNCHANGED <<blob, tries, reaper>>
    BY <1>3 DEF RegisterFails
  <2>2. CASE UNCHANGED <<row, intent, torn>> BY <2>1, <2>2
  <2>3. CASE /\ row' = [row EXCEPT ![k] = TRUE] /\ intent' = [intent EXCEPT ![k] = "completed"]
             /\ torn' = [torn EXCEPT ![k] = TRUE]
    BY <2>1, <2>3
  <2> QED BY <1>3, <2>2, <2>3 DEF RegisterFails
<1>4. CASE UndoUpload(k)
  <2>1. writer[k] = "undo" /\ UNCHANGED <<row, intent, tries, reaper, torn>>
    BY <1>4 DEF UndoUpload
  <2>2. CASE writer' = [writer EXCEPT ![k] = "undone"] /\ blob' = [blob EXCEPT ![k] = FALSE]
    BY <2>1, <2>2
  <2>3. CASE writer' = [writer EXCEPT ![k] = "gone"] /\ UNCHANGED blob
    BY <2>1, <2>3
  <2> QED BY <1>4, <2>2, <2>3 DEF UndoUpload
<1>5. CASE UndoIntent(k) BY <1>5 DEF UndoIntent
<1>6. CASE WriterDies(k) BY <1>6 DEF WriterDies
<1> QED BY <1>1, <1>2, <1>3, <1>4, <1>5, <1>6 DEF CreateStep

\* And every step of a reaper.
LEMMA ReapInv ==
  ASSUME ArtifactInv, NEW r \in Reaper, ReapStep(r) \/ ReaperDies(r) PROVE ArtifactInv'
<1> USE ArtifactAssumption DEF ArtifactInv, ArtifactTypeOK, WriterInv, ReaperInv,
     Unclaimed, Writing, Claimed, Open, ReaperAt
<1>1. ASSUME NEW k \in Key, ClaimCleanup(r, k) PROVE ArtifactInv'
  <2>1. PICK n \in 0..MaxTries :
          /\ tries' = [tries EXCEPT ![k] = n]
          /\ reaper' = [reaper EXCEPT ![r] = [pc |-> "delete", key |-> k, tries |-> n]]
    <3>1. tries[k] \in 0..MaxTries /\ (tries[k] < MaxTries => tries[k] + 1 \in 0..MaxTries)
          /\ MaxTries \in 0..MaxTries
      OBVIOUS
    <3> QED BY <1>1, <3>1 DEF ClaimCleanup
  <2>2. /\ intent[k] \in Open /\ intent' = [intent EXCEPT ![k] = "processing"]
        /\ torn' = [torn EXCEPT ![k] = @ \/ writer[k] \in Writing] /\ UNCHANGED <<writer, blob, row>>
    BY <1>1 DEF ClaimCleanup
  <2>3. ArtifactTypeOK'
    <3>1. torn' \in [Key -> BOOLEAN] BY <2>2, Zenon
    <3> QED BY <2>1, <2>2, <3>1
  <2>4. ASSUME NEW j \in Key PROVE torn'[j] \/ WriterInv(j)'
    <3>1. CASE j = k BY <2>1, <2>2, <3>1
    <3>2. CASE j # k BY <2>1, <2>2, <3>2
    <3> QED BY <3>1, <3>2
  <2>5. ASSUME NEW s \in Reaper PROVE ReaperInv(s)'
    BY <2>1, <2>2
  <2>6. \A j \in Key : writer'[j] = "created" => row'[j]
    BY <2>2
  <2> QED BY <2>3, <2>4, <2>5, <2>6
<1>2. CASE DeleteBlob(r)
  <2>1. reaper[r].pc = "delete" /\ UNCHANGED <<writer, row, intent, tries, torn>>
    BY <1>2 DEF DeleteBlob
  <2>2. CASE ReaperAt(r, "complete") /\ blob' = [blob EXCEPT ![reaper[r].key] = FALSE]
    BY <2>1, <2>2
  <2>3. CASE ReaperAt(r, "retry") /\ UNCHANGED blob
    BY <2>1, <2>3
  <2> QED BY <1>2, <2>2, <2>3 DEF DeleteBlob
<1>3. CASE CompleteCleanup(r)
  <2>1. reaper[r].pc = "complete" /\ UNCHANGED <<writer, blob, row, tries, torn>>
    BY <1>3 DEF CompleteCleanup
  <2>2. PICK l \in {"idle", "retry"} : ReaperAt(r, l)
    BY <1>3 DEF CompleteCleanup
  <2>3. CASE intent' = intent
    BY <2>1, <2>2, <2>3
  <2>4. CASE intent' = [intent EXCEPT ![reaper[r].key] = "completed"]
    BY <2>1, <2>2, <2>4
  <2> QED BY <1>3, <2>3, <2>4 DEF CompleteCleanup
<1>4. CASE RetryCleanup(r) BY <1>4 DEF RetryCleanup
<1>5. CASE ReaperDies(r) BY <1>5 DEF ReaperDies
<1> QED BY <1>1, <1>2, <1>3, <1>4, <1>5 DEF ReapStep

\* The invariant implies the two safety properties of the artifacts.
LEMMA ArtifactSafety == ArtifactInv => LiveContent /\ ContentOwned
  BY DEF ArtifactInv, ArtifactTypeOK, WriterInv, LiveContent, ContentOwned, Writing, Open

\* Steps that leave the artifacts alone leave their invariant alone.
LEMMA ArtifactsKeep == ArtifactInv /\ UNCHANGED artifactVars => ArtifactInv'
  BY DEF artifactVars, ArtifactInv, ArtifactTypeOK, WriterInv, ReaperInv, Unclaimed

\* Whoever creates artifacts, and whenever: the artifacts by themselves have no
\* live row without its content, and no content that nothing remembers.
THEOREM ArtifactsSafe == ArtifactSpec => [](LiveContent /\ ContentOwned)
<1>1. ArtifactInit => ArtifactInv BY ArtifactInitInv
<1>2. ArtifactInv /\ [ArtifactNext]_artifactVars => ArtifactInv'
  BY ScheduleInv, CreateInv, ReapInv, ArtifactsKeep DEF ArtifactNext
<1> QED BY <1>1, <1>2, ArtifactSafety, PTL DEF ArtifactSpec

=============================================================================
