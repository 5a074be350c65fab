----------------------------- MODULE ServerData -----------------------------
(***************************************************************************)
(* The data of one server: rebuilds, snapshots, restores, the JVM, and a   *)
(* backend that may die at any await.                                      *)
(***************************************************************************)
EXTENDS PackRebuild, SnapshotJobs

-----------------------------------------------------------------------------
(* A crash of the backend, and what its next start does *)

\* How far the call the backend waited for may have come.
Halfway ==
  /\ pack' \in CASE At("rs_clear") \/ (At("pr_undo") /\ act.published) -> Ruins(pack)
                 [] At("rs_extract") -> {NoDir, PartDir}
                 [] OTHER -> {pack}
  /\ previous' \in IF At("rs_clear") \/ At("pr_drop") THEN Ruins(previous) ELSE {previous}

\* As it would be without the start-up statement.
JobOutlivesCrash == job

\* snapshotJobStore's start-up statement: a job that was running has failed,
\* and its phase says whether data may be missing.
JobAfterCrash ==
  IF job.status # "running" THEN job
  ELSE [job EXCEPT !.status = "failed",
          !.message = IF job.operation = "create" THEN "interrupted"
                      ELSE IF job.phase \in {"validating", "backup"} THEN "untouched"
                      ELSE IF job.safety = 0 THEN "partial" ELSE "partial, safety kept"]

Crash ==
  /\ Halfway
  /\ staging' = NoDir
  /\ job' = JobAfterCrash
  /\ act' = IdleAct
  /\ deleting' = [d \in Deleter |-> [pc |-> "idle", target |-> 0]]
  /\ UNCHANGED <<shelf, status, jvm, history, asked, removed>>

-----------------------------------------------------------------------------
Requests ==
  \/ Prepare \/ CreateSnapshot
  \/ \E n \in Job : Restore(n) \/ Cancel(n)
  \/ \E d \in Deleter : (\E n \in Job : BeginDelete(d, n)) \/ DeleteFile(d) \/ DeleteRow(d)

Machine == Play \/ Autosave \/ JvmEnds \/ Start \/ StartUnanswered \/ Stop \/ Refresh

OperationStep == RebuildStep \/ JobStep

Next == Requests \/ Machine \/ OperationStep \/ Crash

Spec == Init /\ [][Next]_vars

\* Calls to the disk, Docker and RCON return, with a result or an error: RCON
\* has a timeout, and the archive worker exits.
FairSpec == Spec /\ WF_vars(OperationStep)

-----------------------------------------------------------------------------
(* Properties *)

RebuildLabels == {"pr_stage", "pr_move", "pr_publish", "pr_container", "pr_drop",
                  "pr_undo", "pr_back"}
JobLabels     == {"ar_check", "ar_flush", "ar_archive", "ar_resume", "ar_record", "ar_remove",
                  "rs_validate", "rs_ready", "rs_clear", "rs_extract", "rs_permissions"}
Labels        == {"idle"} \cup RebuildLabels \cup JobLabels
Errors == {"none", "failed", "cancelled", "autosave off"}

Phases   == {"none", "checking-files", "validating", "backup", "clearing", "extracting", "permissions"}
Outcomes == {"none", "running", "completed", "failed", "cancelled"}
Messages == Errors \cup {"interrupted", "untouched", "partial", "partial, safety kept"}

DiskTypeOK  == pack \in Directory /\ previous \in Directory /\ staging \in Directory
ShelfTypeOK == archive \in [Job -> File] /\ recorded \subseteq Job
JobTypeOK   ==
  job \in [n: 0..MaxJob, operation: {"create", "restore"}, status: Outcomes, phase: Phases,
           target: 0..MaxJob, safety: 0..MaxJob, cancel: BOOLEAN, message: Messages]
JvmTypeOK   ==
  /\ running \in BOOLEAN /\ autosave \in BOOLEAN /\ mem \in World /\ clock \in World
  /\ pausedBy \in 0..MaxJob /\ status \in {"live", "down"}
ActTypeOK   ==
  act \in [pc: Labels, err: Errors, live: BOOLEAN, flushed: BOOLEAN,
           backup: BOOLEAN, moved: BOOLEAN, published: BOOLEAN]
RestTypeOK  ==
  /\ deleting \in [Deleter -> [pc: {"idle", "file", "row"}, target: 0..MaxJob]]
  /\ saved \in World /\ asOf \in [Job -> World] /\ touchedBy \in 0..MaxJob
  /\ source \in 0..MaxJob
  /\ blind \subseteq Job /\ asked \in BOOLEAN /\ removed \subseteq Job

\* Every variable stays in its domain; an operation that works for a job has one.
TypeOK ==
  /\ DiskTypeOK /\ ShelfTypeOK /\ JobTypeOK /\ JvmTypeOK /\ ActTypeOK /\ RestTypeOK
  /\ act.pc \in JobLabels => job.n \in Job

\* Worlds that are still somewhere a person can get them from.
Kept ==
  {pack.world, previous.world} \cup
  UNION {{archive[n].pack.world, archive[n].previous.world} :
           n \in {m \in recorded : archive[m].state \in {"torn", "whole"}}}

\* The world the server is meant to hold survives every step, failure and crash
\* of a rebuild or a restore: it is in the pack, in the pack set aside, or in a
\* listed snapshot.  Only somebody who deletes the snapshot of a restore that was
\* begun and not completed may take it away.
WorldKept == saved \in Kept \/ (touchedBy # 0 /\ source \in removed)

\* The panel never starts a server on anything but its own world: a rebuild
\* that failed or was cut short does not make it begin a fresh one.  A restore
\* that ended half way is told to the user and is not part of this.
StartsOwnWorld == [][~running /\ running' /\ touchedBy = 0 => mem' = saved]_vars

\* A listed snapshot holds everything played before it was asked for, read at
\* one moment, if the stored status did not hide that the JVM ran; a deletion
\* under way may have taken its archive.
SnapshotsHonest ==
  \A n \in recorded \ blind :
                      \/ archive[n].state = "none" /\ n \in removed
                      \/ archive[n].state = "whole" /\ archive[n].pack.world >= asOf[n]

\* A snapshot that left autosaving off is never reported as done or cancelled,
\* with the same proviso.
SavingResumed == pausedBy # 0 /\ pausedBy = job.n /\ job.n \notin blind => job.status \in {"running", "failed"}

\* What a listed snapshot promises of its archive and of the game it was taken from.
SnapshotsKeepFaith == SnapshotsHonest /\ SavingResumed

\* A restore that failed with "existing server data has not been replaced" has
\* removed nothing, whether it failed by itself or by a crash of the backend;
\* and one that promises a safety backup has one in the list.
RestoreTellsTheTruth ==
  /\ job.message = "untouched" => touchedBy # job.n
  /\ job.message = "partial, safety kept" =>
       job.safety \in recorded \/ job.safety \in removed

\* A snapshot is cancelled only if somebody asked to cancel that one, an
\* accepted request never ends in a listed snapshot, and a cancelled one
\* leaves no archive behind.
CancelExact ==
  /\ job.status = "cancelled" => asked /\ archive[job.n] = NoFile
  /\ job.cancel /\ job.status # "running" => job.status # "completed" /\ job.n \notin recorded

\* A pack kept aside while no operation runs is a complete installation.
RetainedIsComplete == Idle /\ previous # NoDir => previous.files = "whole"

\* A job ends, by itself or because the backend started again.
JobEnds == (job.status = "running") ~> (job.status # "running")

=============================================================================
