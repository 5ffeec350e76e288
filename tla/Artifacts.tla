------------------------------ MODULE Artifacts ------------------------------
(***************************************************************************)
(* Artifacts: a file in the blob storage, an artifact row that refers to   *)
(* it, and a cleanup intent that the reaper works off.  The storage and    *)
(* the database share no transaction, so ArtifactService.create() writes   *)
(* the intent first, then the blob, then the row together with the end of  *)
(* the intent.  Any of these steps may fail, the process may die between   *)
(* two of them, and the reapers of several worker processes overlap.       *)
(*                                                                         *)
(* Every create() uses a storage key of its own: a key is a create().      *)
(***************************************************************************)
EXTENDS Naturals

CONSTANTS
  Key,       \* the storage keys that may be used
  Reaper,    \* passes of reapCleanup() that may run at once
  MaxTries   \* attempts after which a cleanup is given up (the code: 10)

ASSUME ArtifactAssumption == Key # {} /\ MaxTries \in Nat \ {0}

VARIABLES
  writer,  \* where the create() of a key stands
  blob,    \* the storage holds the blob
  row,     \* artifact row of the key, status "live"
  intent,  \* artifact_cleanup.status
  tries,   \* artifact_cleanup.attempts
  reaper,  \* what a reaper is doing: to which key, and the attempts it read
  torn     \* ghost: the two cases in which the code loses a live row's blob

artifactVars == <<writer, blob, row, intent, tries, reaper, torn>>

Writing == {"scheduled", "stored"}
Claimed == {"delete", "complete", "retry"}
Open == {"pending", "retrying", "processing"}

ArtifactTypeOK ==
  /\ writer \in [Key -> {"free", "undo", "undone", "created", "gone"} \cup Writing]
  /\ blob \in [Key -> BOOLEAN] /\ row \in [Key -> BOOLEAN] /\ torn \in [Key -> BOOLEAN]
  /\ intent \in [Key -> {"none", "completed", "failed"} \cup Open]
  /\ tries \in [Key -> 0..MaxTries]
  /\ reaper \in [Reaper -> [pc : {"idle"} \cup Claimed, key : Key, tries : 0..MaxTries]]

ArtifactInit ==
  /\ writer = [k \in Key |-> "free"]
  /\ blob = [k \in Key |-> FALSE] /\ row = [k \in Key |-> FALSE]
  /\ torn = [k \in Key |-> FALSE]
  /\ intent = [k \in Key |-> "none"]
  /\ tries = [k \in Key |-> 0]
  /\ reaper \in [Reaper -> [pc : {"idle"}, key : {CHOOSE k \in Key : TRUE}, tries : {0}]]

-----------------------------------------------------------------------------
(* create() *)

\* scheduleUploadCleanup: the intent comes first, due in fifteen minutes.
ScheduleUpload(k) ==
  /\ writer[k] = "free"
  /\ writer' = [writer EXCEPT ![k] = "scheduled"]
  /\ intent' = [intent EXCEPT ![k] = "pending"]
  /\ UNCHANGED <<blob, row, tries, reaper, torn>>

\* storage.upload: done, or failed with or without a blob left behind.
Upload(k) ==
  /\ writer[k] = "scheduled"
  /\ \/ writer' = [writer EXCEPT ![k] = "stored"] /\ blob' = [blob EXCEPT ![k] = TRUE]
     \/ writer' = [writer EXCEPT ![k] = "gone"] /\ blob' \in {blob, [blob EXCEPT ![k] = TRUE]}
  /\ UNCHANGED <<row, intent, tries, reaper, torn>>

\* repository.create: the row and the end of the intent, whatever its status.
RegisterOpen(k) ==                                                        \* mutant
  /\ writer[k] = "stored"
  /\ writer' = [writer EXCEPT ![k] = "created"] /\ row' = [row EXCEPT ![k] = TRUE]
  /\ UNCHANGED <<blob, intent, tries, reaper, torn>>

Register(k) ==
  /\ writer[k] = "stored"
  /\ writer' = [writer EXCEPT ![k] = "created"]
  /\ row' = [row EXCEPT ![k] = TRUE]
  /\ intent' = [intent EXCEPT ![k] = "completed"]
  /\ UNCHANGED <<blob, tries, reaper, torn>>

\* repository.create throws.  The transaction was rolled back, or it committed
\* and its answer was lost, which create() cannot tell apart.
RegisterFails(k) ==
  /\ writer[k] = "stored"
  /\ writer' = [writer EXCEPT ![k] = "undo"]
  /\ \/ UNCHANGED <<row, intent, torn>>
     \/ /\ row' = [row EXCEPT ![k] = TRUE]
        /\ intent' = [intent EXCEPT ![k] = "completed"]
        /\ torn' = [torn EXCEPT ![k] = TRUE]
  /\ UNCHANGED <<blob, tries, reaper>>

\* The catch block deletes the blob; when that fails the intent stays.
UndoUpload(k) ==
  /\ writer[k] = "undo"
  /\ \/ writer' = [writer EXCEPT ![k] = "undone"] /\ blob' = [blob EXCEPT ![k] = FALSE]
     \/ writer' = [writer EXCEPT ![k] = "gone"] /\ UNCHANGED blob
  /\ UNCHANGED <<row, intent, tries, reaper, torn>>

UndoIntent(k) ==
  /\ writer[k] = "undone"
  /\ writer' = [writer EXCEPT ![k] = "gone"]
  /\ intent' \in {intent, [intent EXCEPT ![k] = "completed"]}
  /\ UNCHANGED <<blob, row, tries, reaper, torn>>

\* The process that runs create() dies.
WriterDies(k) ==
  /\ writer[k] \in Writing \cup {"undo", "undone"}
  /\ writer' = [writer EXCEPT ![k] = "gone"]
  /\ UNCHANGED <<blob, row, intent, tries, reaper, torn>>

-----------------------------------------------------------------------------
(* reapCleanup() *)

\* An intent whose reaper died is not claimed again.
ClaimWaiting(r, k) ==                                                     \* mutant
  /\ reaper[r].pc = "idle" /\ intent[k] \in {"pending", "retrying"}
  /\ LET n == IF tries[k] < MaxTries THEN tries[k] + 1 ELSE MaxTries
     IN /\ tries' = [tries EXCEPT ![k] = n]
        /\ reaper' = [reaper EXCEPT ![r] = [pc |-> "delete", key |-> k, tries |-> n]]
  /\ intent' = [intent EXCEPT ![k] = "processing"]
  /\ torn' = [torn EXCEPT ![k] = @ \/ writer[k] \in Writing]
  /\ UNCHANGED <<writer, blob, row>>

\* claimCleanup: an intent that is due, or one whose reaper has been silent for
\* five minutes.  Time is not modelled, so a writer that outlives its fifteen
\* minutes is met here, and marked as torn.
ClaimCleanup(r, k) ==
  /\ reaper[r].pc = "idle" /\ intent[k] \in Open
  /\ LET n == IF tries[k] < MaxTries THEN tries[k] + 1 ELSE MaxTries
     IN /\ tries' = [tries EXCEPT ![k] = n]
        /\ reaper' = [reaper EXCEPT ![r] = [pc |-> "delete", key |-> k, tries |-> n]]
  /\ intent' = [intent EXCEPT ![k] = "processing"]
  /\ torn' = [torn EXCEPT ![k] = @ \/ writer[k] \in Writing]
  /\ UNCHANGED <<writer, blob, row>>

ReaperAt(r, l) == reaper' = [reaper EXCEPT ![r].pc = l]

\* storage.delete succeeds or throws.
DeleteBlob(r) ==
  /\ reaper[r].pc = "delete"
  /\ \/ ReaperAt(r, "complete") /\ blob' = [blob EXCEPT ![reaper[r].key] = FALSE]
     \/ ReaperAt(r, "retry") /\ UNCHANGED blob
  /\ UNCHANGED <<writer, row, intent, tries, torn>>

\* completeCleanup asks neither for the claim nor for the status.  When it throws,
\* done or not, the cleanup is retried.
CompleteCleanup(r) ==
  LET completed == [intent EXCEPT ![reaper[r].key] = "completed"]
  IN /\ reaper[r].pc = "complete"
     /\ \/ ReaperAt(r, "idle") /\ intent' = completed
        \/ ReaperAt(r, "retry") /\ intent' \in {intent, completed}
     /\ UNCHANGED <<writer, blob, row, tries, torn>>

\* retryCleanup reported as completed: nothing remembers the blob.
RetryForgets(r) ==                                                        \* mutant
  /\ reaper[r].pc = "retry" /\ ReaperAt(r, "idle")
  /\ intent' = [intent EXCEPT ![reaper[r].key] = "completed"]
  /\ UNCHANGED <<writer, blob, row, tries, torn>>

RetryCleanup(r) ==
  /\ reaper[r].pc = "retry" /\ ReaperAt(r, "idle")
  /\ intent' = [intent EXCEPT ![reaper[r].key] =
                  IF reaper[r].tries >= MaxTries THEN "failed" ELSE "retrying"]
  /\ UNCHANGED <<writer, blob, row, tries, torn>>

\* The worker process dies with its claims.
ReaperDies(r) ==
  /\ reaper[r].pc \in Claimed /\ ReaperAt(r, "idle")
  /\ UNCHANGED <<writer, blob, row, intent, tries, torn>>

CreateStep(k) ==
  Upload(k) \/ Register(k) \/ RegisterFails(k) \/ UndoUpload(k) \/ UndoIntent(k)
ReapStep(r) ==
  (\E k \in Key : ClaimCleanup(r, k)) \/ DeleteBlob(r) \/ CompleteCleanup(r) \/ RetryCleanup(r)

ArtifactNext ==
  \/ \E k \in Key : ScheduleUpload(k) \/ CreateStep(k) \/ WriterDies(k)
  \/ \E r \in Reaper : ReapStep(r) \/ ReaperDies(r)

\* The artifacts by themselves: anybody may create one at any time.
ArtifactSpec == ArtifactInit /\ [][ArtifactNext]_artifactVars

-----------------------------------------------------------------------------
(* Properties *)

\* A live artifact row refers to a blob that exists, whatever fails or dies in
\* create() and however its reapers overlap, except where create() outlived the
\* grace of its intent or lost the answer of its commit.
LiveContent == \A k \in Key : row[k] => blob[k] \/ torn[k]

\* No blob is forgotten: one without a row is still being written or undone, or
\* an intent that is open or was given up remembers it (same exceptions).
ContentOwned ==
  \A k \in Key : blob[k] /\ ~row[k] =>
    writer[k] \in Writing \cup {"undo"} \/ intent[k] \in Open \cup {"failed"} \/ torn[k]

\* A blob whose create() did not finish is deleted in the end, unless storage
\* refused it MaxTries times.
ContentReaped ==
  \A k \in Key : writer[k] = "gone" /\ blob[k] ~> ~blob[k] \/ intent[k] = "failed" \/ torn[k]

=============================================================================
