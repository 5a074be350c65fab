----------------------------- MODULE DataPromises ----------------------------
(***************************************************************************)
(* What is proved of a server's data, for any bounds, any number of        *)
(* deletions under way and calls that may fail:                            *)
(*   - every variable keeps to its type (DataTypeCorrect);                 *)
(*   - what a failed restore tells its user is so (RestoreTold);           *)
(*   - cancelling a snapshot means what it says (CancelMeant);             *)
(*   - the world a server is meant to hold is never lost (WorldSurvives),  *)
(*     and no other is started (OwnWorldStarts);                           *)
(*   - a snapshot in the list holds what was played before it was asked    *)
(*     for, and one that left autosaving off is not reported as done       *)
(*     (SnapshotsKept).                                                    *)
(* TypeOK alone is not inductive: a restore reads and a deletion removes   *)
(* the archive of its target, so the targets must be snapshots (Aimed).    *)
(* The promises rest on the bookkeeping of jobs (BookInv): a job runs      *)
(* exactly while an operation works for it, and nothing on disk or in the  *)
(* list is of a later job.  The world is followed from directory to        *)
(* directory by HomeInv, and what a snapshot has read by FaithInv.         *)
(***************************************************************************)
EXTENDS ServerData, TLAPS

-----------------------------------------------------------------------------
(* Types and targets.                                                      *)

RestoreLabels == {"rs_validate", "rs_ready", "rs_clear", "rs_extract", "rs_permissions"}

\* What works on a snapshot has one to work on.
Aimed ==
  /\ act.pc \in RestoreLabels => job.operation = "restore"
  /\ job.operation = "restore" => job.target \in Job
  /\ \A d \in Deleter : deleting[d].pc # "idle" => deleting[d].target \in Job

IInv == TypeOK /\ Aimed

LEMMA NoDirType == NoDir \in Directory
BY BoundAssumption DEF NoDir, Directory, World

LEMMA PartDirType == PartDir \in Directory
BY BoundAssumption DEF PartDir, Directory, World

LEMMA RuinsType == ASSUME NEW d \in Directory PROVE Ruins(d) \subseteq Directory
BY NoDirType, PartDirType DEF Ruins

LEMMA WithWorld ==
  ASSUME NEW d \in Directory, NEW w \in World PROVE [d EXCEPT !.world = w] \in Directory
BY DEF Directory

LEMMA NoFileType == NoFile \in File
BY NoDirType DEF NoFile, File

LEMMA ZeroType == 0 \in 0..MaxJob /\ 0 \in World /\ 1 \in World
BY BoundAssumption DEF World

\* The records of act, and where an operation ends up.
Act == [pc: Labels, err: Errors, live: BOOLEAN, flushed: BOOLEAN,
        backup: BOOLEAN, moved: BOOLEAN, published: BOOLEAN]

LEMMA IdleActType == IdleAct \in Act /\ IdleAct.pc = "idle"
BY DEF IdleAct, Act, Labels, Errors

LEMMA GoType ==
  ASSUME ActTypeOK, NEW l \in Labels, Go(l)
  PROVE  ActTypeOK' /\ act'.pc = l
BY DEF ActTypeOK, Go

LEMMA PhaseType ==
  ASSUME JobTypeOK, NEW p \in Phases, Phase(p)
  PROVE  JobTypeOK' /\ job'.n = job.n /\ job'.operation = job.operation /\ job'.target = job.target
BY DEF JobTypeOK, Phase

LEMMA JobFailsType ==
  ASSUME JobTypeOK, NEW e \in Errors, JobFails(e)
  PROVE  /\ JobTypeOK' /\ ActTypeOK' /\ act'.pc = "idle" /\ job'.n = job.n
         /\ job'.operation = job.operation /\ job'.target = job.target
<1>1. RestoreMessage \in Messages /\ e \in Messages /\ "none" \in Messages
  BY DEF RestoreMessage, Messages, Errors
<1>2. QED BY <1>1, IdleActType DEF JobFails, JobTypeOK, ActTypeOK, Act, Outcomes

LEMMA JobCompletesType ==
  ASSUME JobTypeOK, JobCompletes
  PROVE  /\ JobTypeOK' /\ ActTypeOK' /\ act'.pc = "idle" /\ job'.n = job.n
         /\ job'.operation = job.operation /\ job'.target = job.target
BY IdleActType DEF JobCompletes, JobTypeOK, ActTypeOK, Act, Outcomes

LEMMA InitType == Init => IInv
<1> SUFFICES ASSUME Init PROVE IInv
  OBVIOUS
<1>1. DiskTypeOK
  <2>1. pack \in Directory
    BY BoundAssumption DEF Init, Directory, World
  <2>2. QED BY <2>1, NoDirType DEF Init, DiskTypeOK
<1>2. ShelfTypeOK
  BY NoFileType DEF Init, ShelfTypeOK
<1>3. JobTypeOK
  <2>2. "none" \in Outcomes \cap Phases \cap Messages
    BY DEF Outcomes, Phases, Messages, Errors
  <2>3. QED BY <2>2, ZeroType DEF Init, JobTypeOK, NoJob
<1>4. JvmTypeOK
  BY ZeroType DEF Init, JvmTypeOK
<1>5. ActTypeOK
  BY IdleActType DEF Init, ActTypeOK, Act
<1>6. RestTypeOK
  <2>1. deleting \in [Deleter -> [pc: {"idle", "file", "row"}, target: 0..MaxJob]]
    BY ZeroType DEF Init
  <2>2. saved \in World
    BY ZeroType DEF Init
  <2>3. QED BY <2>1, <2>2, ZeroType DEF Init, RestTypeOK
<1>7. act.pc = "idle" /\ job.operation = "create"
  BY DEF Init, IdleAct, NoJob
<1>8. Aimed
  BY <1>7 DEF Init, Aimed, RestoreLabels
<1>9. QED
  BY <1>1, <1>2, <1>3, <1>4, <1>5, <1>6, <1>7, <1>8 DEF IInv, TypeOK, JobLabels

LEMMA JvmWritesType ==
  ASSUME IInv, JvmWrites
  PROVE  pack' \in Directory /\ saved' \in World /\ archive' \in [Job -> File]
<1> USE DEF IInv, TypeOK
<1>1. archive' \in [Job -> File]
  <2>1. \A f \in File : [f EXCEPT !.state = "torn"] \in File
    BY DEF File
  <2>2. QED BY <2>1 DEF ShelfTypeOK, JvmWrites
<1>2. QED BY <1>1, WithWorld DEF DiskTypeOK, JvmTypeOK, JvmWrites

LEMMA MachineType == IInv /\ Machine => IInv'
<1> SUFFICES ASSUME IInv, Machine PROVE IInv'
  OBVIOUS
<1> USE DEF IInv, TypeOK
<1>1. CASE Play
  <2>1. JvmTypeOK'
    BY <1>1, BoundAssumption DEF Play, JvmTypeOK, World
  <2>2. QED
    BY <1>1, <2>1 DEF Play, DiskTypeOK, ShelfTypeOK, JobTypeOK, ActTypeOK, RestTypeOK, Aimed,
       disk, shelf, history
<1>2. CASE Autosave
  BY <1>2, JvmWritesType DEF Autosave, DiskTypeOK, ShelfTypeOK, JobTypeOK, JvmTypeOK, ActTypeOK,
     RestTypeOK, Aimed, jvm
<1>3. ASSUME JvmGone, status' \in {"live", "down"}, UNCHANGED clock PROVE JvmTypeOK'
  BY <1>3, ZeroType DEF JvmGone, JvmTypeOK
<1>4. CASE JvmEnds
  <2>1. pack' \in Directory /\ saved' \in World /\ archive' \in [Job -> File]
    BY <1>4, JvmWritesType DEF JvmEnds, DiskTypeOK, ShelfTypeOK, RestTypeOK
  <2>2. JvmTypeOK'
    BY <1>3, <1>4 DEF JvmEnds, JvmTypeOK
  <2>3. QED
    BY <1>4, <2>1, <2>2 DEF JvmEnds, DiskTypeOK, ShelfTypeOK, JobTypeOK, ActTypeOK, RestTypeOK, Aimed
<1>5. CASE Stop
  <2>1. pack' \in Directory /\ saved' \in World /\ archive' \in [Job -> File]
    BY <1>5, JvmWritesType DEF Stop
  <2>2. JvmTypeOK'
    BY <1>3, <1>5 DEF Stop
  <2>3. QED
    BY <1>5, <2>1, <2>2 DEF Stop, DiskTypeOK, ShelfTypeOK, JobTypeOK, ActTypeOK, RestTypeOK, Aimed
<1>6. ASSUME JvmBoots, status' \in {"live", "down"} PROVE IInv'
  <2>1. pack.world \in World
    BY DEF DiskTypeOK, Directory
  <2>2. JvmTypeOK'
    BY <1>6, <2>1 DEF JvmBoots, JvmTypeOK
  <2>3. QED
    BY <1>6, <2>2 DEF JvmBoots, DiskTypeOK, ShelfTypeOK, JobTypeOK, ActTypeOK, RestTypeOK, Aimed,
       disk, shelf, history
<1>7. CASE Start \/ StartUnanswered
  BY <1>6, <1>7 DEF Start, StartUnanswered
<1>8. CASE Refresh
  BY <1>8 DEF Refresh, DiskTypeOK, ShelfTypeOK, JobTypeOK, JvmTypeOK, ActTypeOK, RestTypeOK, Aimed,
     disk, shelf, jvm, history
<1>9. QED BY <1>1, <1>2, <1>4, <1>5, <1>7, <1>8 DEF Machine

\* A step of a rebuild leaves everything but the three directories alone.
LEMMA QuietType ==
  ASSUME IInv, UNCHANGED quiet, DiskTypeOK', ActTypeOK', act'.pc \notin JobLabels
  PROVE  IInv'
BY DEF IInv, TypeOK, Aimed, quiet, shelf, jvm, history, ShelfTypeOK, JobTypeOK, JvmTypeOK,
   RestTypeOK, RestoreLabels, JobLabels

LEMMA RebuildOverType ==
  ASSUME RebuildOver PROVE staging' \in Directory /\ ActTypeOK' /\ act'.pc = "idle"
BY NoDirType, IdleActType DEF RebuildOver, ActTypeOK, Act

LEMMA RebuildType == IInv /\ (Prepare \/ RebuildStep) => IInv'
<1> SUFFICES ASSUME IInv, Prepare \/ RebuildStep PROVE IInv'
  OBVIOUS
<1>0. /\ ActTypeOK /\ pack \in Directory /\ previous \in Directory /\ staging \in Directory
      /\ RebuildLabels \subseteq Labels /\ RebuildLabels \cap JobLabels = {}
      /\ "idle" \in Labels \ JobLabels
  BY DEF IInv, TypeOK, DiskTypeOK, Labels, RebuildLabels, JobLabels
<1> SUFFICES UNCHANGED quiet /\ DiskTypeOK' /\ ActTypeOK' /\ act'.pc \in RebuildLabels \cup {"idle"}
  BY <1>0, QuietType
<1> USE DEF DiskTypeOK
<1>1. CASE Prepare
  BY <1>0, <1>1, GoType, PartDirType DEF Prepare, RebuildLabels
<1>2. CASE BuildStaging
  <2>1. [files |-> "whole", world |-> pack.world] \in Directory
    BY <1>0 DEF Directory
  <2>2. QED BY <1>0, <1>2, <2>1, GoType DEF BuildStaging, RebuildLabels
<1>3. CASE MoveOld
  <2>1. CASE pack = NoDir
    BY <1>0, <1>3, <2>1, GoType DEF MoveOld, RebuildLabels
  <2>2. CASE pack # NoDir
    BY <1>0, <1>3, <2>2, NoDirType DEF MoveOld, ActTypeOK, Labels, RebuildLabels
  <2>3. QED BY <2>1, <2>2
<1>4. CASE Publish
  BY <1>0, <1>4, NoDirType DEF Publish, ActTypeOK, Labels, RebuildLabels
<1>5. CASE Recontain
  <2>1. CASE act.moved
    BY <1>0, <1>5, <2>1, GoType DEF Recontain, RebuildLabels
  <2>2. CASE ~act.moved
    BY <1>0, <1>5, <2>2, RebuildOverType DEF Recontain
  <2>3. QED BY <2>1, <2>2
<1>6. CASE DropOld
  BY <1>0, <1>6, RebuildOverType, RuinsType, NoDirType DEF DropOld
<1>7. CASE RebuildFails
  BY <1>0, <1>7, GoType DEF RebuildFails, RebuildLabels, disk
<1>8. CASE Unpublish
  <2>1. pack' \in Directory
    BY <1>0, <1>8, RuinsType, NoDirType DEF Unpublish
  <2>2. CASE Go("pr_back") /\ UNCHANGED staging
    BY <1>0, <1>8, <2>1, <2>2, GoType DEF Unpublish, RebuildLabels
  <2>3. CASE RebuildOver
    BY <1>0, <1>8, <2>1, <2>3, RebuildOverType DEF Unpublish
  <2>4. QED BY <1>8, <2>2, <2>3 DEF Unpublish
<1>9. CASE MoveBack
  BY <1>0, <1>9, RebuildOverType, NoDirType DEF MoveBack
<1>10. QED
  BY <1>1, <1>2, <1>3, <1>4, <1>5, <1>6, <1>7, <1>8, <1>9 DEF RebuildStep

LEMMA NewJobType ==
  ASSUME JobTypeOK, job.n < MaxJob, NEW o \in {"create", "restore"}, NEW t \in 0..MaxJob
  PROVE  /\ NewJob(o, t) \in [n: 0..MaxJob, operation: {"create", "restore"}, status: Outcomes,
                             phase: Phases, target: 0..MaxJob, safety: 0..MaxJob,
                             cancel: BOOLEAN, message: Messages]
         /\ NewJob(o, t).n \in Job
         /\ NewJob(o, t).operation = o /\ NewJob(o, t).target = t
<1>1. job.n + 1 \in 0..MaxJob /\ job.n + 1 \in Job
  BY BoundAssumption DEF JobTypeOK, Job
<1>2. /\ "running" \in Outcomes /\ "none" \in Messages
      /\ "validating" \in Phases /\ "checking-files" \in Phases
  BY DEF Outcomes, Messages, Errors, Phases
<1>3. QED BY <1>1, <1>2, ZeroType DEF NewJob, NoJob

LEMMA JobAskedType ==
  ASSUME IInv, JobAsked, job.n < MaxJob, UNCHANGED <<deleting, saved, touchedBy, source>>
  PROVE  RestTypeOK'
<1>1. (IF running THEN mem ELSE pack.world) \in World
  BY DEF IInv, TypeOK, DiskTypeOK, JvmTypeOK, Directory
<1>2. asOf' \in [Job -> World]
  BY <1>1, ZeroType DEF IInv, TypeOK, RestTypeOK, JobAsked
<1>3. job.n + 1 \in Job
  BY BoundAssumption DEF IInv, TypeOK, JobTypeOK, Job
<1>4. blind' \subseteq Job /\ asked' \in BOOLEAN /\ removed' \subseteq Job
  BY <1>3 DEF IInv, TypeOK, RestTypeOK, JobAsked
<1>5. QED BY <1>2, <1>4 DEF IInv, TypeOK, RestTypeOK

LEMMA RequestType ==
  ASSUME IInv,
         \/ CreateSnapshot
         \/ \E n \in Job : Restore(n) \/ Cancel(n)
         \/ \E d \in Deleter : (\E n \in Job : BeginDelete(d, n)) \/ DeleteFile(d) \/ DeleteRow(d)
  PROVE  IInv'
<1> USE DEF IInv, TypeOK
<1>1. CASE CreateSnapshot
  <2>1. JobTypeOK' /\ job'.n \in Job /\ job'.operation = "create"
    BY <1>1, NewJobType, ZeroType DEF CreateSnapshot, JobTypeOK
  <2>2. ActTypeOK' /\ act'.pc = "ar_check"
    BY <1>1, IdleActType DEF CreateSnapshot, ActTypeOK, Act, Labels, JobLabels
  <2>3. RestTypeOK'
    BY <1>1, JobAskedType DEF CreateSnapshot
  <2>4. DiskTypeOK' /\ ShelfTypeOK' /\ JvmTypeOK'
    BY <1>1 DEF CreateSnapshot, disk, shelf, jvm, DiskTypeOK, ShelfTypeOK, JvmTypeOK
  <2>5. Aimed'
    BY <1>1, <2>1, <2>2 DEF CreateSnapshot, Aimed, RestoreLabels
  <2>6. QED BY <2>1, <2>2, <2>3, <2>4, <2>5
<1>2. ASSUME NEW n \in Job, Restore(n) PROVE IInv'
  <2>0. n \in 0..MaxJob
    BY DEF Job
  <2>1. JobTypeOK' /\ job'.n \in Job /\ job'.operation = "restore" /\ job'.target = n
    <3>1. job' = NewJob("restore", n) /\ job.n < MaxJob
      BY <1>2 DEF Restore
    <3>2. QED BY <2>0, <3>1, NewJobType DEF JobTypeOK
  <2>2. ActTypeOK' /\ act'.pc = "rs_validate"
    BY <1>2, IdleActType DEF Restore, ActTypeOK, Act, Labels, JobLabels
  <2>3. RestTypeOK'
    BY <1>2, JobAskedType DEF Restore
  <2>4. DiskTypeOK' /\ ShelfTypeOK' /\ JvmTypeOK'
    BY <1>2 DEF Restore, disk, shelf, jvm, DiskTypeOK, ShelfTypeOK, JvmTypeOK
  <2>5. Aimed'
    BY <1>2, <2>1, <2>2 DEF Restore, Aimed, RestoreLabels
  <2>6. QED BY <2>1, <2>2, <2>3, <2>4, <2>5
<1>3. ASSUME NEW n \in Job, Cancel(n) PROVE IInv'
  <2>1. /\ JobTypeOK' /\ job'.n = job.n /\ job'.operation = job.operation
        /\ job'.target = job.target
    BY <1>3 DEF Cancel, JobTypeOK
  <2>2. RestTypeOK'
    BY <1>3 DEF Cancel, RestTypeOK, history
  <2>3. DiskTypeOK' /\ ShelfTypeOK' /\ JvmTypeOK' /\ ActTypeOK'
    BY <1>3 DEF Cancel, disk, shelf, jvm, DiskTypeOK, ShelfTypeOK, JvmTypeOK, ActTypeOK
  <2>4. Aimed'
    BY <1>3, <2>1 DEF Cancel, Aimed
  <2>5. QED BY <1>3, <2>1, <2>2, <2>3, <2>4 DEF Cancel
<1>4. ASSUME NEW d \in Deleter, UNCHANGED <<disk, job, status, jvm, act, history, asked>>,
             ShelfTypeOK', removed' \subseteq Job,
             NEW r \in [pc: {"idle", "file", "row"}, target: 0..MaxJob],
             r.pc # "idle" => r.target \in Job,
             deleting' = [deleting EXCEPT ![d] = r]
      PROVE  IInv'
  <2>1. RestTypeOK'
    BY <1>4 DEF RestTypeOK, history
  <2>2. DiskTypeOK' /\ JvmTypeOK' /\ ActTypeOK' /\ JobTypeOK'
    BY <1>4 DEF disk, jvm, DiskTypeOK, JvmTypeOK, ActTypeOK, JobTypeOK
  <2>3. Aimed'
    BY <1>4 DEF Aimed, RestTypeOK
  <2>4. QED BY <1>4, <2>1, <2>2, <2>3
<1> DEFINE none == [pc |-> "idle", target |-> 0]
<1>5. none \in [pc: {"idle", "file", "row"}, target: 0..MaxJob]
  BY ZeroType
<1>6. ASSUME NEW d \in Deleter, NEW n \in Job, BeginDelete(d, n) PROVE IInv'
  <2> DEFINE r == [pc |-> "file", target |-> n]
  <2>1. r \in [pc: {"idle", "file", "row"}, target: 0..MaxJob] /\ r.target \in Job
    BY DEF Job
  <2>2. ShelfTypeOK' /\ removed' \subseteq Job
    BY <1>6 DEF BeginDelete, shelf, ShelfTypeOK, RestTypeOK
  <2>3. deleting' = [deleting EXCEPT ![d] = r]
    BY <1>6 DEF BeginDelete
  <2>4. QED BY <1>4, <1>6, <2>1, <2>2, <2>3 DEF BeginDelete
<1>7. ASSUME NEW d \in Deleter, DeleteFile(d) PROVE IInv'
  <2>1. deleting[d].target \in Job
    BY <1>7 DEF DeleteFile, Aimed
  <2>2. ShelfTypeOK' /\ removed' \subseteq Job
    BY <1>7, <2>1, NoFileType DEF DeleteFile, ShelfTypeOK, RestTypeOK
  <2>3. CASE deleting' = [deleting EXCEPT ![d].pc = "row"]
    <3> DEFINE r == [deleting[d] EXCEPT !.pc = "row"]
    <3>1. r \in [pc: {"idle", "file", "row"}, target: 0..MaxJob] /\ r.target \in Job
      BY <2>1 DEF RestTypeOK
    <3>2. deleting' = [deleting EXCEPT ![d] = r]
      BY <2>3
    <3>3. QED BY <1>4, <1>7, <2>2, <3>1, <3>2 DEF DeleteFile
  <2>4. CASE deleting' = [deleting EXCEPT ![d] = none]
    BY <1>4, <1>5, <1>7, <2>2, <2>4 DEF DeleteFile
  <2>5. QED BY <1>7, <2>3, <2>4 DEF DeleteFile
<1>8. ASSUME NEW d \in Deleter, DeleteRow(d) PROVE IInv'
  <2>1. ShelfTypeOK' /\ removed' \subseteq Job
    BY <1>8 DEF DeleteRow, ShelfTypeOK, RestTypeOK
  <2>2. deleting' = [deleting EXCEPT ![d] = none]
    BY <1>8 DEF DeleteRow
  <2>3. QED BY <1>4, <1>5, <1>8, <2>1, <2>2 DEF DeleteRow
<1>9. QED BY <1>1, <1>2, <1>3, <1>6, <1>7, <1>8

\* A flush and a save-on leave the JVM, the pack and the world it holds typed.
LEMMA FlushType == IInv /\ Flush => IInv'
<1> SUFFICES ASSUME IInv, Flush PROVE IInv'
  OBVIOUS
<1> USE DEF IInv, TypeOK
<1>1. pack' \in Directory /\ saved' \in World
  BY WithWorld DEF Flush, DiskTypeOK, JvmTypeOK, RestTypeOK
<1>2. job.n \in Job
  BY DEF Flush, At, JobLabels
<1>3. JvmTypeOK'
  BY <1>2, ZeroType DEF Flush, JvmTypeOK, self, JobTypeOK
<1>4. ActTypeOK' /\ act'.pc \in {"ar_archive", "ar_resume"}
  <2>1. PICK e \in Errors, reply \in BOOLEAN :
          act' = [act EXCEPT !.pc = IF e = "none" THEN "ar_archive" ELSE "ar_resume",
                             !.err = e, !.flushed = reply]
    BY DEF Flush, Errors
  <2>2. QED BY <2>1 DEF ActTypeOK, Labels, JobLabels
<1>5. ShelfTypeOK'
  <2>1. [state |-> "partial", pack |-> pack', previous |-> previous] \in File
    BY <1>1 DEF File, DiskTypeOK
  <2>2. \/ UNCHANGED archive
        \/ archive' = [archive EXCEPT ![self] =
                        [state |-> "partial", pack |-> pack', previous |-> previous]]
    BY DEF Flush
  <2>3. UNCHANGED recorded
    BY DEF Flush
  <2>4. QED BY <2>1, <2>2, <2>3 DEF ShelfTypeOK
<1>6. DiskTypeOK' /\ JobTypeOK' /\ RestTypeOK'
  BY <1>1 DEF Flush, DiskTypeOK, JobTypeOK, RestTypeOK
<1>7. Aimed'
  BY <1>4 DEF Flush, Aimed, RestoreLabels
<1>8. QED BY <1>2, <1>3, <1>4, <1>5, <1>6, <1>7 DEF Flush

LEMMA ResumeType == IInv /\ Resume => IInv'
<1> SUFFICES ASSUME IInv, Resume PROVE IInv'
  OBVIOUS
<1> USE DEF IInv, TypeOK
<1>1. JvmTypeOK'
  BY ZeroType DEF Resume, JvmTypeOK
<1>2. ActTypeOK' /\ act'.pc \in {"ar_record", "ar_remove"} /\ job.n \in Job
  BY DEF Resume, ActTypeOK, Labels, JobLabels, Errors, At
<1>3. DiskTypeOK' /\ ShelfTypeOK' /\ JobTypeOK' /\ RestTypeOK'
  BY DEF Resume, disk, shelf, history, DiskTypeOK, ShelfTypeOK, JobTypeOK, RestTypeOK
<1>4. Aimed'
  BY <1>2 DEF Resume, Aimed, RestoreLabels
<1>5. QED BY <1>1, <1>2, <1>3, <1>4 DEF Resume

\* A step of a job that leaves the JVM alone: what it has to show.
LEMMA JobStepType ==
  ASSUME IInv, UNCHANGED <<status, jvm, deleting>>,
         DiskTypeOK', ShelfTypeOK', JobTypeOK', ActTypeOK',
         saved' \in World, touchedBy' \in 0..MaxJob, source' \in 0..MaxJob,
         UNCHANGED <<asOf, blind, asked, removed>>,
         job'.n = job.n, job'.operation = job.operation, job'.target = job.target,
         job.n \in Job, act'.pc \in RestoreLabels => job.operation = "restore"
  PROVE  IInv'
<1> USE DEF IInv, TypeOK
<1>1. JvmTypeOK' /\ RestTypeOK'
  BY DEF jvm, JvmTypeOK, RestTypeOK
<1>2. Aimed'
  BY DEF Aimed
<1>3. QED BY <1>1, <1>2

LEMMA SnapshotStepType ==
  ASSUME IInv, CheckFiles \/ WriteArchive \/ Record \/ RemovePartial
  PROVE  IInv'
<1>0. /\ ActTypeOK /\ JobTypeOK /\ ShelfTypeOK /\ DiskTypeOK /\ job.n \in Job
      /\ saved \in World /\ touchedBy \in 0..MaxJob /\ source \in 0..MaxJob
      /\ {"cancelled", "failed", "none"} \subseteq Errors
  BY DEF IInv, TypeOK, CheckFiles, WriteArchive, Record, RemovePartial, At, JobLabels, RestTypeOK,
     Errors
<1>1. /\ DiskTypeOK' /\ saved' \in World /\ touchedBy' \in 0..MaxJob /\ source' \in 0..MaxJob
      /\ UNCHANGED <<status, jvm, deleting, asOf, blind, asked, removed>>
  BY <1>0 DEF CheckFiles, WriteArchive, Record, RemovePartial, disk, history, DiskTypeOK
<1> SUFFICES /\ ShelfTypeOK' /\ JobTypeOK' /\ ActTypeOK' /\ job'.n = job.n
             /\ job'.operation = job.operation /\ job'.target = job.target
             /\ act'.pc \in RestoreLabels => job.operation = "restore"
  BY <1>0, <1>1, JobStepType
<1>2. ASSUME NEW e \in Errors, JobFails(e)
      PROVE  /\ JobTypeOK' /\ ActTypeOK' /\ job'.n = job.n
             /\ job'.operation = job.operation /\ job'.target = job.target
             /\ act'.pc \in RestoreLabels => job.operation = "restore"
  BY <1>0, <1>2, JobFailsType DEF RestoreLabels
<1>3. CASE CheckFiles
  <2>1. CASE Go("ar_flush") /\ UNCHANGED job
    BY <1>0, <1>3, <2>1, GoType DEF CheckFiles, shelf, ShelfTypeOK, JobTypeOK, Labels, JobLabels,
       RestoreLabels
  <2>2. CASE JobFails("cancelled") \/ JobFails("failed")
    BY <1>0, <1>2, <1>3, <2>2 DEF CheckFiles, shelf, ShelfTypeOK
  <2>3. QED BY <1>3, <2>1, <2>2 DEF CheckFiles
<1>4. CASE WriteArchive
  <2>1. ShelfTypeOK'
    <3>1. \A f \in File : [f EXCEPT !.state = "whole"] \in File
      BY DEF File
    <3>2. QED BY <1>0, <1>4, <3>1 DEF WriteArchive, ShelfTypeOK
  <2>2. ActTypeOK' /\ act'.pc = "ar_resume"
    BY <1>0, <1>4 DEF WriteArchive, ActTypeOK, Labels, JobLabels, Errors
  <2>3. QED BY <1>0, <1>4, <2>1, <2>2 DEF WriteArchive, JobTypeOK, RestoreLabels
<1>5. CASE Record
  <2>1. ShelfTypeOK'
    BY <1>0, <1>5 DEF Record, ShelfTypeOK, self
  <2>2. CASE JobCompletes /\ job.operation = "create"
    BY <1>0, <2>1, <2>2, JobCompletesType DEF RestoreLabels
  <2>3. CASE Go("rs_ready") /\ job' = [job EXCEPT !.safety = self] /\ job.operation # "create"
    <3>1. JobTypeOK' /\ job'.n = job.n /\ job'.operation = job.operation /\ job'.target = job.target
      BY <1>0, <2>3 DEF JobTypeOK, self
    <3>2. job.operation = "restore"
      BY <1>0, <2>3 DEF JobTypeOK
    <3>3. ActTypeOK'
      BY <1>0, <2>3, GoType DEF Labels, JobLabels
    <3>4. QED BY <2>1, <3>1, <3>2, <3>3
  <2>4. CASE /\ act' = [act EXCEPT !.pc = "ar_remove",
                                  !.err = IF job.cancel THEN "cancelled" ELSE "failed"]
             /\ UNCHANGED <<recorded, job>>
    <3>1. ActTypeOK' /\ act'.pc = "ar_remove"
      BY <1>0, <2>4 DEF ActTypeOK, Labels, JobLabels
    <3>2. QED BY <1>0, <2>1, <2>4, <3>1 DEF JobTypeOK, RestoreLabels
  <2>5. QED BY <1>5, <2>2, <2>3, <2>4 DEF Record
<1>6. CASE RemovePartial
  <2>1. ShelfTypeOK'
    BY <1>0, <1>6, NoFileType DEF RemovePartial, ShelfTypeOK
  <2>2. act.err \in Errors
    BY <1>0 DEF ActTypeOK
  <2>3. QED BY <1>0, <1>2, <1>6, <2>1, <2>2 DEF RemovePartial
<1>7. QED BY <1>3, <1>4, <1>5, <1>6

LEMMA RestoreStepType ==
  ASSUME IInv, Validate \/ BeginReplacing \/ Clear \/ Extract \/ RepairPermissions
  PROVE  IInv'
<1>0. /\ ActTypeOK /\ JobTypeOK /\ ShelfTypeOK /\ DiskTypeOK /\ job.n \in Job
      /\ saved \in World /\ touchedBy \in 0..MaxJob /\ source \in 0..MaxJob /\ "failed" \in Errors
      /\ job.operation = "restore" /\ job.target \in Job
  BY DEF IInv, TypeOK, Validate, BeginReplacing, Clear, Extract, RepairPermissions, At, JobLabels,
     RestTypeOK, Errors, Aimed, RestoreLabels
<1>1. archive[job.target] \in File /\ archive[job.target].pack \in Directory
      /\ archive[job.target].previous \in Directory /\ archive[job.target].pack.world \in World
  BY <1>0 DEF ShelfTypeOK, File, Directory
<1>2. /\ ShelfTypeOK' /\ saved' \in World /\ touchedBy' \in 0..MaxJob /\ source' \in 0..MaxJob
      /\ UNCHANGED <<status, jvm, deleting, asOf, blind, asked, removed>>
  BY <1>0, <1>1, ZeroType DEF Validate, BeginReplacing, Clear, Extract, RepairPermissions, shelf,
     history, ShelfTypeOK, self, JobTypeOK
<1>3. DiskTypeOK'
  BY <1>0, <1>1, NoDirType, PartDirType, RuinsType
     DEF Validate, BeginReplacing, Clear, Extract, RepairPermissions, disk, DiskTypeOK
<1> SUFFICES /\ JobTypeOK' /\ ActTypeOK' /\ job'.n = job.n
             /\ job'.operation = job.operation /\ job'.target = job.target
  BY <1>0, <1>2, <1>3, JobStepType
<1>4. CASE JobFails("failed")
  BY <1>0, <1>4, JobFailsType
<1>5. ASSUME NEW l \in JobLabels, NEW p \in Phases, Go(l), Phase(p) \/ UNCHANGED job
      PROVE  /\ JobTypeOK' /\ ActTypeOK' /\ job'.n = job.n
             /\ job'.operation = job.operation /\ job'.target = job.target
  <2>1. ActTypeOK'
    BY <1>0, <1>5, GoType DEF Labels
  <2>2. QED BY <1>0, <1>5, <2>1, PhaseType DEF JobTypeOK
<1>6. {"backup", "clearing", "extracting", "permissions"} \subseteq Phases
  BY DEF Phases
<1>7. {"ar_check", "rs_ready", "rs_clear", "rs_extract", "rs_permissions"} \subseteq JobLabels
  BY DEF JobLabels
<1>8. CASE Validate
  BY <1>4, <1>5, <1>6, <1>7, <1>8 DEF Validate
<1>9. CASE BeginReplacing
  BY <1>4, <1>5, <1>6, <1>7, <1>9 DEF BeginReplacing
<1>10. CASE Clear
  BY <1>4, <1>5, <1>6, <1>7, <1>10 DEF Clear
<1>11. CASE Extract
  BY <1>4, <1>5, <1>6, <1>7, <1>11 DEF Extract
<1>12. CASE RepairPermissions
  BY <1>0, <1>4, <1>12, JobCompletesType DEF RepairPermissions
<1>13. QED BY <1>8, <1>9, <1>10, <1>11, <1>12

LEMMA CrashType == IInv /\ Crash => IInv'
<1> SUFFICES ASSUME IInv, Crash PROVE IInv'
  OBVIOUS
<1> USE DEF IInv, TypeOK
<1>1. DiskTypeOK'
  BY NoDirType, PartDirType, RuinsType DEF Crash, Halfway, DiskTypeOK
<1>2. JobTypeOK' /\ job'.n = job.n /\ job'.operation = job.operation /\ job'.target = job.target
  <2>1. {"interrupted", "untouched", "partial", "partial, safety kept"} \subseteq Messages
        /\ "failed" \in Outcomes
    BY DEF Messages, Outcomes
  <2>2. QED BY <2>1 DEF Crash, JobAfterCrash, JobTypeOK
<1>3. ActTypeOK' /\ act'.pc = "idle"
  BY IdleActType DEF Crash, ActTypeOK, Act
<1>4. RestTypeOK' /\ \A d \in Deleter : deleting'[d].pc = "idle"
  <2>1. [pc |-> "idle", target |-> 0] \in [pc: {"idle", "file", "row"}, target: 0..MaxJob]
    BY ZeroType
  <2>2. QED BY <2>1 DEF Crash, RestTypeOK, history
<1>5. ShelfTypeOK' /\ JvmTypeOK'
  BY DEF Crash, shelf, jvm, ShelfTypeOK, JvmTypeOK
<1>6. Aimed'
  BY <1>2, <1>3, <1>4 DEF Aimed, RestoreLabels
<1>7. QED BY <1>1, <1>2, <1>3, <1>4, <1>5, <1>6 DEF JobLabels

LEMMA NextType == IInv /\ [Next]_vars => IInv'
<1> SUFFICES ASSUME IInv, [Next]_vars PROVE IInv'
  OBVIOUS
<1>1. CASE Requests
  BY <1>1, RebuildType, RequestType DEF Requests
<1>2. CASE Machine
  BY <1>2, MachineType
<1>3. CASE OperationStep
  BY <1>3, RebuildType, FlushType, ResumeType, SnapshotStepType, RestoreStepType
     DEF OperationStep, JobStep
<1>4. CASE Crash
  BY <1>4, CrashType
<1>5. CASE UNCHANGED vars
  BY <1>5 DEF vars, IInv, TypeOK, Aimed, disk, shelf, jvm, history, DiskTypeOK, ShelfTypeOK,
     JobTypeOK, JvmTypeOK, ActTypeOK, RestTypeOK
<1>6. QED BY <1>1, <1>2, <1>3, <1>4, <1>5 DEF Next

\* Whatever is done to a server's data, and wherever the backend dies, every
\* variable stays in its domain and an operation on a job has its job.
THEOREM DataTypeCorrect == Spec => []TypeOK
<1>1. Init => IInv
  BY InitType
<1>2. IInv /\ [Next]_vars => IInv'
  BY NextType
<1>3. IInv => TypeOK
  BY DEF IInv
<1>4. QED BY <1>1, <1>2, <1>3, PTL DEF Spec

-----------------------------------------------------------------------------
(* Promises.                                                               *)

Replacing == {"rs_clear", "rs_extract", "rs_permissions"}

\* The job row and the operation agree, and jobs are numbered in order.
BookInv ==
  /\ job.status = "running" <=> act.pc \in JobLabels
  /\ job.status = "running" => job.message = "none"
  /\ touchedBy <= job.n
  /\ \A n \in recorded : n <= job.n
  /\ \A d \in Deleter : deleting[d].pc # "idle" => deleting[d].target <= job.n

\* Data is touched only once the phase says so, and a safety backup is in the
\* list unless it has been deleted since.
RestoreInv ==
  /\ act.pc \in JobLabels \ Replacing => touchedBy # job.n
  /\ act.pc \in Replacing => job.operation = "restore" /\ job.phase \notin {"validating", "backup"}
  /\ job.message = "untouched" => touchedBy # job.n
  /\ job.safety \in {0, job.n}
  /\ job.safety # 0 => job.safety \in recorded \cup removed
  /\ job.message = "partial, safety kept" => job.safety # 0
  /\ \A d \in Deleter :
       deleting[d].pc = "row" /\ deleting[d].target = job.n => job.n \in removed

\* Only an asked-for cancellation becomes the outcome, nothing of the job is in
\* the list, and what it wrote goes before the job is reported cancelled.
CancelInv ==
  /\ job.cancel => asked /\ job.operation = "create" /\ job.status # "completed"
                   /\ job.n \notin recorded
  /\ act.pc \in JobLabels /\ job.operation = "create" => job.n \notin recorded
  /\ act.pc \in JobLabels /\ act.err = "cancelled" => job.cancel
  /\ act.pc \in {"ar_check", "rs_validate"} \/ job.status = "cancelled" => archive[job.n] = NoFile
  /\ \A n \in Job : n > job.n => archive[n] = NoFile
  /\ job.status = "cancelled" => asked /\ job.n \in Job

-----------------------------------------------------------------------------
\* A step that no job, deletion or crash takes.
Elsewhere ==
  /\ UNCHANGED <<job, recorded, deleting, touchedBy, asked, removed>>
  /\ act' = act \/ (act.pc \notin JobLabels /\ act'.pc \notin JobLabels)
  /\ \/ archive' = archive
     \/ At("ar_archive") /\ archive' = [archive EXCEPT ![job.n].state = "torn"]

LEMMA MachineElsewhere == Machine => Elsewhere
BY DEF Machine, Play, Autosave, JvmEnds, Start, StartUnanswered, Stop, Refresh, JvmBoots, JvmWrites,
   Elsewhere, shelf, history

LEMMA RebuildElsewhere == IInv /\ (Prepare \/ RebuildStep) => Elsewhere
<1> SUFFICES ASSUME IInv, Prepare \/ RebuildStep PROVE Elsewhere
  OBVIOUS
<1>1. UNCHANGED quiet
  BY DEF Prepare, RebuildStep, BuildStaging, MoveOld, Publish, Recontain, DropOld, RebuildFails,
     Unpublish, MoveBack
<1>2. act.pc \in RebuildLabels \cup {"idle"}
  BY DEF Prepare, RebuildStep, BuildStaging, MoveOld, Publish, Recontain, DropOld, RebuildFails,
     Unpublish, MoveBack, At, Idle, RebuildLabels
<1>3. act'.pc \in RebuildLabels \cup {"idle"}
  <2>1. ASSUME NEW l \in RebuildLabels, Go(l) PROVE act'.pc \in RebuildLabels
    BY <2>1 DEF Go, IInv, TypeOK, ActTypeOK
  <2>2. ASSUME RebuildOver PROVE act'.pc = "idle"
    BY <2>2 DEF RebuildOver, IdleAct
  <2>3. {"pr_stage", "pr_move", "pr_publish", "pr_container", "pr_drop", "pr_undo", "pr_back"}
          \subseteq RebuildLabels
    BY DEF RebuildLabels
  <2>4. QED
    BY <2>1, <2>2, <2>3 DEF Prepare, RebuildStep, BuildStaging, MoveOld, Publish, Recontain,
       DropOld, RebuildFails, Unpublish, MoveBack, IInv, TypeOK, ActTypeOK
<1>4. QED BY <1>1, <1>2, <1>3 DEF Elsewhere, quiet, shelf, history, RebuildLabels, JobLabels

LEMMA IdleElsewhere == UNCHANGED vars => Elsewhere
BY DEF vars, shelf, history, Elsewhere

LEMMA StepKinds ==
  ASSUME IInv, [Next]_vars
  PROVE  \/ Elsewhere \/ CreateSnapshot \/ JobStep \/ Crash
         \/ \E n \in Job : Restore(n) \/ Cancel(n)
         \/ \E d \in Deleter : (\E n \in Job : BeginDelete(d, n)) \/ DeleteFile(d) \/ DeleteRow(d)
BY MachineElsewhere, RebuildElsewhere, IdleElsewhere DEF Next, Requests, OperationStep

-----------------------------------------------------------------------------
(* What a step of a job may do *)

\* It fails, with its own error or as cancelled.
Fails ==
  \E e \in Errors :
    /\ JobFails(e) /\ UNCHANGED <<recorded, touchedBy>>
    /\ e # "cancelled" =>
         archive' = archive \/ archive' = [archive EXCEPT ![job.n] = NoFile]
    /\ e = "cancelled" =>
         \/ act.pc = "ar_check" /\ job.cancel /\ UNCHANGED archive
         \/ act.pc = "ar_remove" /\ act.err = e /\ archive' = [archive EXCEPT ![job.n] = NoFile]

\* It completes: a snapshot is listed, or restored data is whole.
Completes ==
  /\ JobCompletes /\ UNCHANGED archive
  /\ \/ /\ act.pc = "ar_record" /\ ~job.cancel /\ job.operation = "create"
        /\ recorded' = recorded \cup {job.n} /\ UNCHANGED touchedBy
     \/ act.pc = "rs_permissions" /\ touchedBy' = 0 /\ UNCHANGED recorded

\* Or it goes on.
Goes ==
  /\ act'.pc \in JobLabels
  /\ job'.n = job.n /\ job'.operation = job.operation /\ job'.status = job.status
  /\ job'.cancel = job.cancel /\ job'.message = job.message
  /\ act'.err = "cancelled" => act.err = "cancelled" \/ job.cancel
  /\ \A n \in Job : n # job.n => archive'[n] = archive[n]
  /\ act'.pc \in {"ar_check", "rs_validate"} => act.pc = "rs_validate" /\ UNCHANGED archive
  /\ \/ UNCHANGED recorded /\ job'.safety = job.safety
     \/ recorded' = recorded \cup {job.n} /\ job'.safety = job.n /\ job.operation = "restore"
  /\ \/ UNCHANGED touchedBy /\ (act'.pc \in Replacing => act.pc \in Replacing)
     \/ touchedBy' = job.n /\ act'.pc = "rs_clear"
  /\ act.pc \in Replacing => act'.pc \in Replacing
  /\ act'.pc \in Replacing => job.operation = "restore" /\ job'.phase \notin {"validating", "backup"}

LEMMA GoFact ==
  ASSUME IInv, NEW l, Go(l) PROVE act'.pc = l /\ act'.err = act.err
BY DEF IInv, TypeOK, ActTypeOK, Go

LEMMA PhaseFact ==
  ASSUME IInv, NEW p, Phase(p)
  PROVE  /\ job'.n = job.n /\ job'.operation = job.operation /\ job'.status = job.status
         /\ job'.cancel = job.cancel /\ job'.message = job.message /\ job'.safety = job.safety
         /\ job'.phase = p
BY DEF IInv, TypeOK, JobTypeOK, Phase

LEMMA JobStepKinds ==
  ASSUME IInv, JobStep
  PROVE  /\ act.pc \in JobLabels /\ UNCHANGED <<deleting, asked, removed>>
         /\ Fails \/ Completes \/ Goes
<1>1. act.pc \in JobLabels
  BY DEF JobStep, CheckFiles, Flush, WriteArchive, Resume, Record, RemovePartial, Validate,
     BeginReplacing, Clear, Extract, RepairPermissions, At, JobLabels
<1>2. UNCHANGED <<deleting, asked, removed>>
  BY DEF JobStep, CheckFiles, Flush, WriteArchive, Resume, Record, RemovePartial, Validate,
     BeginReplacing, Clear, Extract, RepairPermissions
<1> SUFFICES Fails \/ Completes \/ Goes
  BY <1>1, <1>2
<1>3. "failed" \in Errors /\ "cancelled" \in Errors
  BY DEF Errors
<1>4. ASSUME JobFails("failed"), UNCHANGED <<recorded, touchedBy, archive>> PROVE Fails
  BY <1>3, <1>4 DEF Fails
<1>5. CASE CheckFiles
  <2>1. CASE Go("ar_flush") /\ UNCHANGED job
    BY <1>5, <2>1, GoFact DEF CheckFiles, Goes, At, JobLabels, Replacing, shelf, history
  <2>2. CASE JobFails("cancelled") /\ job.cancel
    BY <1>3, <1>5, <2>2 DEF CheckFiles, Fails, At, shelf, history
  <2>3. CASE JobFails("failed")
    BY <1>4, <1>5, <2>3 DEF CheckFiles, shelf, history
  <2>4. QED BY <1>5, <2>1, <2>2, <2>3 DEF CheckFiles
<1>6. CASE Flush
  <2>1. PICK e \in Errors, reply \in BOOLEAN :
          act' = [act EXCEPT !.pc = IF e = "none" THEN "ar_archive" ELSE "ar_resume",
                             !.err = e, !.flushed = reply]
    BY <1>6 DEF Flush, Errors
  <2>2. act'.pc \in {"ar_archive", "ar_resume"}
    BY <2>1 DEF IInv, TypeOK, ActTypeOK
  <2>0. act'.err = "cancelled" => job.cancel
    BY <1>6 DEF Flush, IInv, TypeOK, ActTypeOK
  <2>3. \E f : archive' = archive \/ archive' = [archive EXCEPT ![job.n] = f]
    BY <1>6 DEF Flush, self
  <2>4. \A n \in Job : n # job.n => archive'[n] = archive[n]
    BY <2>3 DEF IInv, TypeOK, ShelfTypeOK
  <2>5. act.pc = "ar_flush" /\ UNCHANGED <<job, recorded, touchedBy>>
    BY <1>6 DEF Flush, At
  <2>6. QED BY <2>0, <2>2, <2>4, <2>5 DEF Goes, JobLabels, Replacing
<1>7. CASE WriteArchive
  <2>1. act'.pc = "ar_resume" /\ (act'.err = "cancelled" => act.err = "cancelled" \/ job.cancel)
    BY <1>7 DEF WriteArchive, IInv, TypeOK, ActTypeOK
  <2>2. \A n \in Job : n # job.n => archive'[n] = archive[n]
    BY <1>7 DEF WriteArchive, self, IInv, TypeOK, ShelfTypeOK
  <2>3. act.pc = "ar_archive" /\ UNCHANGED <<job, recorded, touchedBy>>
    BY <1>7 DEF WriteArchive, At, history
  <2>4. QED BY <2>1, <2>2, <2>3 DEF Goes, JobLabels, Replacing
<1>8. CASE Resume
  <2>1. PICK e \in Errors :
          /\ act' = [act EXCEPT !.pc = IF e = "none" THEN "ar_record" ELSE "ar_remove", !.err = e]
          /\ e = "cancelled" => act.err = "cancelled" \/ job.cancel
    <3>1. act.err \in Errors
      BY DEF IInv, TypeOK, ActTypeOK
    <3>2. QED BY <1>8, <3>1 DEF Resume, Errors
  <2>2. act'.pc \in {"ar_record", "ar_remove"} /\ act'.err = e
    BY <2>1 DEF IInv, TypeOK, ActTypeOK
  <2>3. act.pc = "ar_resume" /\ UNCHANGED <<job, recorded, touchedBy, archive>>
    BY <1>8 DEF Resume, At, shelf, history
  <2>4. QED BY <2>1, <2>2, <2>3 DEF Goes, JobLabels, Replacing
<1>9. CASE Record
  <2>1. act.pc = "ar_record" /\ UNCHANGED <<archive, touchedBy>>
    BY <1>9 DEF Record, At, history
  <2>2. CASE ~job.cancel /\ recorded' = recorded \cup {self} /\ job.operation = "create" /\ JobCompletes
    BY <2>1, <2>2 DEF Completes, self
  <2>3. CASE /\ recorded' = recorded \cup {self} /\ job.operation = "restore"
             /\ Go("rs_ready") /\ job' = [job EXCEPT !.safety = self]
    <3>1. /\ job'.n = job.n /\ job'.operation = job.operation /\ job'.status = job.status
          /\ job'.cancel = job.cancel /\ job'.message = job.message /\ job'.safety = job.n
      BY <2>3 DEF IInv, TypeOK, JobTypeOK, self
    <3>2. act'.pc = "rs_ready" /\ act'.err = act.err
      BY <2>3, GoFact
    <3>3. QED BY <2>1, <2>3, <3>1, <3>2 DEF Goes, JobLabels, Replacing, self
  <2>4. CASE /\ act' = [act EXCEPT !.pc = "ar_remove",
                                   !.err = IF job.cancel THEN "cancelled" ELSE "failed"]
             /\ UNCHANGED <<recorded, job>>
    <3>1. act'.pc = "ar_remove" /\ (act'.err = "cancelled" => job.cancel)
      BY <2>4 DEF IInv, TypeOK, ActTypeOK
    <3>2. QED BY <2>1, <2>4, <3>1 DEF Goes, JobLabels, Replacing
  <2>5. job.operation # "create" => job.operation = "restore"
    BY DEF IInv, TypeOK, JobTypeOK
  <2>6. QED BY <1>9, <2>2, <2>3, <2>4, <2>5 DEF Record
<1>10. CASE RemovePartial
  <2>1. act.pc = "ar_remove" /\ UNCHANGED <<recorded, touchedBy>>
    BY <1>10 DEF RemovePartial, At, history
  <2>2. CASE archive' = [archive EXCEPT ![self] = NoFile] /\ JobFails(act.err)
    <3>1. act.err \in Errors
      BY DEF IInv, TypeOK, ActTypeOK
    <3>2. QED BY <2>1, <2>2, <3>1 DEF Fails, self
  <2>3. CASE JobFails("failed") /\ UNCHANGED archive
    BY <1>4, <2>1, <2>3
  <2>4. QED BY <1>10, <2>2, <2>3 DEF RemovePartial
<1>11. ASSUME NEW l \in JobLabels, NEW p, Go(l), Phase(p), UNCHANGED <<recorded, archive>>,
              job.operation = "restore", p \notin {"validating", "backup"} \/ l \notin Replacing,
              l \in {"ar_check", "rs_validate"} => act.pc = "rs_validate",
              act.pc \in Replacing => l \in Replacing,
              \/ UNCHANGED touchedBy /\ (l \in Replacing => act.pc \in Replacing)
              \/ touchedBy' = job.n /\ l = "rs_clear"
       PROVE  Goes
  BY <1>11, GoFact, PhaseFact DEF Goes
<1>12. ASSUME Validate \/ BeginReplacing \/ Clear \/ Extract
       PROVE  job.operation = "restore" /\ UNCHANGED <<recorded, archive>>
  BY <1>12 DEF Validate, BeginReplacing, Clear, Extract, At, shelf, IInv, Aimed, RestoreLabels
<1>13. CASE Validate
  <2>1. act.pc = "rs_validate" /\ UNCHANGED touchedBy
    BY <1>13 DEF Validate, At, history
  <2>2. CASE Go("ar_check") /\ Phase("backup")
    BY <1>11, <1>12, <1>13, <2>1, <2>2 DEF JobLabels, Replacing
  <2>3. CASE Go("rs_ready") /\ UNCHANGED job
    BY <1>12, <1>13, <2>1, <2>3, GoFact DEF Goes, JobLabels, Replacing
  <2>4. CASE JobFails("failed")
    BY <1>4, <1>12, <1>13, <2>1, <2>4
  <2>5. QED BY <1>13, <2>2, <2>3, <2>4 DEF Validate
<1>14. CASE BeginReplacing
  <2>1. act.pc = "rs_ready"
    BY <1>14 DEF BeginReplacing, At
  <2>2. CASE Phase("clearing") /\ Go("rs_clear") /\ touchedBy' = self
    BY <1>11, <1>12, <1>14, <2>1, <2>2 DEF JobLabels, Replacing, self
  <2>3. CASE JobFails("failed") /\ UNCHANGED touchedBy
    BY <1>4, <1>12, <1>14, <2>3
  <2>4. QED BY <1>14, <2>2, <2>3 DEF BeginReplacing
<1>15. CASE Clear
  <2>1. act.pc = "rs_clear" /\ UNCHANGED touchedBy
    BY <1>15 DEF Clear, At, history
  <2>2. CASE Phase("extracting") /\ Go("rs_extract")
    BY <1>11, <1>12, <1>15, <2>1, <2>2 DEF JobLabels, Replacing
  <2>3. CASE JobFails("failed")
    BY <1>4, <1>12, <1>15, <2>1, <2>3
  <2>4. QED BY <1>15, <2>2, <2>3 DEF Clear
<1>16. CASE Extract
  <2>1. act.pc = "rs_extract" /\ UNCHANGED touchedBy
    BY <1>16 DEF Extract, At, history
  <2>2. CASE Phase("permissions") /\ Go("rs_permissions")
    BY <1>11, <1>12, <1>16, <2>1, <2>2 DEF JobLabels, Replacing
  <2>3. CASE JobFails("failed")
    BY <1>4, <1>12, <1>16, <2>1, <2>3
  <2>4. QED BY <1>16, <2>2, <2>3 DEF Extract
<1>17. CASE RepairPermissions
  BY <1>4, <1>17 DEF RepairPermissions, Completes, At, shelf
<1>18. QED
  BY <1>1, <1>2, <1>5, <1>6, <1>7, <1>8, <1>9, <1>10, <1>13, <1>14, <1>15, <1>16, <1>17 DEF JobStep

\* What the end of a job, and the beginning of one, leave in the row.
LEMMA FailsFact ==
  ASSUME IInv, NEW e \in Errors, JobFails(e)
  PROVE  /\ act'.pc = "idle"
         /\ job'.n = job.n /\ job'.operation = job.operation /\ job'.safety = job.safety
         /\ job'.cancel = job.cancel /\ job'.status \in {"cancelled", "failed"}
         /\ job'.status = "cancelled" => e = "cancelled"
         /\ job'.message = "untouched" => job.operation = "restore" /\ act.pc \notin Replacing
         /\ job'.message = "partial, safety kept" => job.safety # 0
<1>1. act'.pc = "idle"
  BY DEF JobFails, IdleAct
<1>2. job' = [job EXCEPT !.status  = job'.status, !.message = job'.message]
  BY DEF JobFails, IInv, TypeOK, JobTypeOK
<1>3. /\ job'.n = job.n /\ job'.operation = job.operation /\ job'.safety = job.safety
      /\ job'.cancel = job.cancel
  BY <1>2 DEF IInv, TypeOK, JobTypeOK
<1>4. job'.status = IF e = "cancelled" THEN "cancelled" ELSE "failed"
  BY DEF JobFails, IInv, TypeOK, JobTypeOK
<1>5. job'.message = IF job.operation = "restore" THEN RestoreMessage
                     ELSE IF e = "cancelled" THEN "none" ELSE e
  BY DEF JobFails, IInv, TypeOK, JobTypeOK
<1>6. QED BY <1>1, <1>3, <1>4, <1>5 DEF RestoreMessage, Replacing, Errors

LEMMA CompletesFact ==
  ASSUME IInv, JobCompletes
  PROVE  /\ act'.pc = "idle" /\ job'.status = "completed"
         /\ job'.n = job.n /\ job'.operation = job.operation /\ job'.safety = job.safety
         /\ job'.cancel = job.cancel /\ job'.message = job.message
BY DEF JobCompletes, IdleAct, IInv, TypeOK, JobTypeOK

\* A job begins.
Begins ==
  /\ Idle /\ job.n < MaxJob /\ JobAsked
  /\ job'.n = job.n + 1 /\ job'.status = "running" /\ ~job'.cancel /\ job'.safety = 0
  /\ job'.message = "none" /\ act'.pc \in {"ar_check", "rs_validate"} /\ act'.err = "none"
  /\ UNCHANGED <<archive, recorded, deleting, touchedBy>>

LEMMA BeginFact ==
  ASSUME IInv, CreateSnapshot \/ \E n \in Job : Restore(n) PROVE Begins
<1>1. ASSUME NEW o, NEW t PROVE /\ NewJob(o, t).n = job.n + 1 /\ NewJob(o, t).status = "running"
                                /\ ~NewJob(o, t).cancel /\ NewJob(o, t).safety = 0
                                /\ NewJob(o, t).message = "none"
  BY DEF NewJob, NoJob
<1>2. CASE CreateSnapshot
  BY <1>1, <1>2 DEF CreateSnapshot, Begins, IdleAct, shelf
<1>3. CASE \E n \in Job : Restore(n)
  <2>1. PICK n \in Job : Restore(n)
    BY <1>3
  <2>2. job' = NewJob("restore", n) /\ act'.pc = "rs_validate" /\ act'.err = "none"
    BY <2>1 DEF Restore, IdleAct
  <2>3. /\ job'.n = job.n + 1 /\ job'.status = "running" /\ ~job'.cancel
        /\ job'.safety = 0 /\ job'.message = "none"
    BY <1>1, <2>2
  <2>4. /\ Idle /\ job.n < MaxJob /\ JobAsked
        /\ UNCHANGED <<archive, recorded, deleting, touchedBy>>
    BY <2>1 DEF Restore, shelf
  <2>5. QED BY <2>2, <2>3, <2>4 DEF Begins
<1>4. QED BY <1>2, <1>3

LEMMA CancelFact ==
  ASSUME IInv, NEW n \in Job, Cancel(n)
  PROVE  /\ job'.n = job.n /\ job'.operation = job.operation /\ job'.status = job.status
         /\ job'.safety = job.safety /\ job'.message = job.message /\ job'.phase = job.phase
         /\ job'.cancel => job.cancel \/ (asked' /\ job.operation = "create" /\ job.status = "running")
         /\ job.cancel => job'.cancel
         /\ asked => asked'
         /\ UNCHANGED <<archive, recorded, deleting, touchedBy, removed, act>>
BY DEF Cancel, IInv, TypeOK, JobTypeOK, RestTypeOK, shelf, history

LEMMA CrashFact ==
  ASSUME IInv, Crash
  PROVE  /\ act'.pc = "idle" /\ \A d \in Deleter : deleting'[d].pc = "idle"
         /\ job'.n = job.n /\ job'.operation = job.operation /\ job'.cancel = job.cancel
         /\ job'.safety = job.safety /\ job'.status # "running"
         /\ job'.status \in {"cancelled", "completed"} => job'.status = job.status
         /\ job'.message = "untouched" =>
              \/ job'.message = job.message
              \/ /\ job.status = "running" /\ job.operation = "restore"
                 /\ job.phase \in {"validating", "backup"}
         /\ job'.message = "partial, safety kept" => job'.message = job.message \/ job.safety # 0
         /\ UNCHANGED <<archive, recorded, touchedBy, asked, removed>>
BY DEF Crash, JobAfterCrash, IdleAct, IInv, TypeOK, JobTypeOK, shelf, history

-----------------------------------------------------------------------------
LEMMA BookStep == IInv /\ BookInv /\ [Next]_vars => BookInv'
<1> SUFFICES ASSUME IInv, BookInv, [Next]_vars PROVE BookInv'
  OBVIOUS
<1>0. job.n \in Nat /\ touchedBy \in Nat /\ recorded \subseteq Nat
      /\ \A d \in Deleter : deleting[d].target \in Nat
  BY DEF IInv, TypeOK, JobTypeOK, RestTypeOK, ShelfTypeOK, Job
<1> USE DEF BookInv
<1>1. CASE Elsewhere
  BY <1>1 DEF Elsewhere
<1>2. CASE Begins
  BY <1>0, <1>2 DEF Begins, JobLabels
<1>3. ASSUME NEW n \in Job, Cancel(n) PROVE BookInv'
  BY <1>3, CancelFact
<1>4. ASSUME NEW d \in Deleter, NEW n \in Job, BeginDelete(d, n) PROVE BookInv'
  <2>1. \A f \in Deleter : deleting'[f].pc # "idle" => deleting'[f].target <= job.n
    BY <1>4 DEF BeginDelete, IInv, TypeOK, RestTypeOK
  <2>2. QED BY <1>4, <2>1 DEF BeginDelete, shelf, history
<1>5. ASSUME NEW d \in Deleter, DeleteFile(d) PROVE BookInv'
  <2>1. \A f \in Deleter : deleting'[f].pc # "idle" => deleting'[f].target <= job.n
    BY <1>5 DEF DeleteFile, IInv, TypeOK, RestTypeOK
  <2>2. QED BY <1>5, <2>1 DEF DeleteFile, history
<1>6. ASSUME NEW d \in Deleter, DeleteRow(d) PROVE BookInv'
  <2>1. \A f \in Deleter : deleting'[f].pc # "idle" => deleting'[f].target <= job.n
    BY <1>6 DEF DeleteRow, IInv, TypeOK, RestTypeOK
  <2>2. QED BY <1>6, <2>1 DEF DeleteRow, history
<1>7. CASE JobStep
  <2>1. job.status = "running" /\ job.message = "none" /\ UNCHANGED deleting
    BY <1>7, JobStepKinds
  <2>2. CASE Fails
    BY <2>1, <2>2, FailsFact DEF Fails, JobLabels
  <2>3. CASE Completes
    <3>1. /\ job'.n = job.n /\ job'.status = "completed" /\ act'.pc = "idle"
          /\ recorded' \subseteq recorded \cup {job.n} /\ touchedBy' \in {touchedBy, 0}
      BY <2>3, CompletesFact DEF Completes
    <3>2. touchedBy' <= job.n /\ \A n \in recorded' : n <= job.n
      BY <1>0, <3>1
    <3>3. QED BY <2>1, <3>1, <3>2 DEF JobLabels
  <2>4. CASE Goes
    <3>1. /\ job'.n = job.n /\ job'.status = job.status /\ job'.message = job.message
          /\ act'.pc \in JobLabels
          /\ recorded' \subseteq recorded \cup {job.n} /\ touchedBy' \in {touchedBy, job.n}
      BY <2>4 DEF Goes
    <3>2. touchedBy' <= job.n /\ \A n \in recorded' : n <= job.n
      BY <1>0, <3>1
    <3>3. QED BY <2>1, <3>1, <3>2
  <2>5. QED BY <1>7, <2>2, <2>3, <2>4, JobStepKinds
<1>8. CASE Crash
  BY <1>8, CrashFact DEF JobLabels
<1>9. QED
  BY <1>1, <1>2, <1>3, <1>4, <1>5, <1>6, <1>7, <1>8, StepKinds, BeginFact

LEMMA RestoreStep == IInv /\ BookInv /\ RestoreInv /\ [Next]_vars => RestoreInv'
<1> SUFFICES ASSUME IInv, BookInv, RestoreInv, [Next]_vars PROVE RestoreInv'
  OBVIOUS
<1>0. job.n \in Nat /\ touchedBy \in Nat /\ recorded \subseteq Nat
      /\ \A d \in Deleter : deleting[d].target \in Nat
  BY DEF IInv, TypeOK, JobTypeOK, RestTypeOK, ShelfTypeOK, Job
<1>a. touchedBy # job.n + 1
  <2>1. touchedBy <= job.n
    BY DEF BookInv
  <2>2. QED BY <1>0, <2>1
<1>b. \A d \in Deleter : deleting[d].pc # "idle" => deleting[d].target # job.n + 1
  <2>1. \A d \in Deleter : deleting[d].pc # "idle" => deleting[d].target <= job.n
    BY DEF BookInv
  <2>2. QED BY <1>0, <2>1
<1> USE DEF RestoreInv
<1>1. CASE Elsewhere
  BY <1>1 DEF Elsewhere, JobLabels, Replacing
<1>2. CASE Begins
  BY <1>0, <1>2, <1>a, <1>b DEF Begins, Replacing
<1>3. ASSUME NEW n \in Job, Cancel(n) PROVE RestoreInv'
  BY <1>3, CancelFact
<1>4. ASSUME NEW d \in Deleter, NEW n \in Job, BeginDelete(d, n) PROVE RestoreInv'
  <2>1. \A f \in Deleter :
          deleting'[f].pc = "row" => deleting[f].pc = "row" /\ deleting'[f] = deleting[f]
    BY <1>4 DEF BeginDelete, IInv, TypeOK, RestTypeOK
  <2>2. QED BY <1>4, <2>1 DEF BeginDelete, shelf, history
<1>5. ASSUME NEW d \in Deleter, DeleteFile(d) PROVE RestoreInv'
  <2>1. UNCHANGED <<job, act, recorded, touchedBy>> /\ removed \subseteq removed'
    BY <1>5 DEF DeleteFile, history
  <2>2. \A f \in Deleter : deleting'[f].pc = "row" =>
          \/ deleting[f].pc = "row" /\ deleting'[f] = deleting[f]
          \/ deleting'[f].target \in removed'
    <3> SUFFICES ASSUME NEW f \in Deleter, deleting'[f].pc = "row"
                 PROVE  \/ deleting[f].pc = "row" /\ deleting'[f] = deleting[f]
                        \/ deleting'[f].target \in removed'
      OBVIOUS
    <3>1. CASE f # d
      BY <1>5, <3>1 DEF DeleteFile, IInv, TypeOK, RestTypeOK
    <3>2. CASE f = d /\ deleting' = [deleting EXCEPT ![d].pc = "row"]
                   /\ removed' = removed \cup {deleting[d].target}
      BY <3>2 DEF IInv, TypeOK, RestTypeOK
    <3>3. CASE f = d /\ deleting' = [deleting EXCEPT ![d] = [pc |-> "idle", target |-> 0]]
      BY <3>3 DEF IInv, TypeOK, RestTypeOK
    <3>4. QED BY <1>5, <3>1, <3>2, <3>3 DEF DeleteFile
  <2>3. QED BY <2>1, <2>2
<1>6. ASSUME NEW d \in Deleter, DeleteRow(d) PROVE RestoreInv'
  <2>1. UNCHANGED <<job, act, removed, touchedBy>>
    BY <1>6 DEF DeleteRow, history
  <2>2. \A f \in Deleter :
          deleting'[f].pc = "row" => deleting[f].pc = "row" /\ deleting'[f] = deleting[f]
    BY <1>6 DEF DeleteRow, IInv, TypeOK, RestTypeOK
  <2>3. job.safety # 0 => job.safety \in recorded' \cup removed
    BY <1>6 DEF DeleteRow
  <2>4. QED BY <2>1, <2>2, <2>3
<1>7. CASE JobStep
  <2>1. act.pc \in JobLabels /\ job.message = "none" /\ UNCHANGED <<deleting, removed>>
    BY <1>7, JobStepKinds DEF BookInv
  <2>2. CASE Fails
    BY <2>1, <2>2, FailsFact DEF Fails, JobLabels, Replacing
  <2>3. CASE Completes
    BY <1>0, <2>1, <2>3, CompletesFact DEF Completes, JobLabels, Replacing
  <2>4. CASE Goes
    BY <1>0, <2>1, <2>4 DEF Goes, Replacing
  <2>5. QED BY <1>7, <2>2, <2>3, <2>4, JobStepKinds
<1>8. CASE Crash
  BY <1>8, CrashFact DEF BookInv, JobLabels, Replacing
<1>9. QED
  BY <1>1, <1>2, <1>3, <1>4, <1>5, <1>6, <1>7, <1>8, StepKinds, BeginFact

LEMMA CancelStep == IInv /\ BookInv /\ CancelInv /\ [Next]_vars => CancelInv'
<1> SUFFICES ASSUME IInv, BookInv, CancelInv, [Next]_vars PROVE CancelInv'
  OBVIOUS
<1>0. job.n \in Nat /\ recorded \subseteq Nat /\ archive \in [Job -> File]
  BY DEF IInv, TypeOK, JobTypeOK, ShelfTypeOK, Job
<1> USE DEF CancelInv
<1>1. CASE Elsewhere
  <2>1. At("ar_archive") => job.n \in Job /\ job.status = "running"
    BY DEF IInv, TypeOK, BookInv, At, JobLabels
  <2>2. CASE UNCHANGED archive
    BY <1>1, <2>2 DEF Elsewhere, JobLabels
  <2>3. CASE At("ar_archive") /\ archive' = [archive EXCEPT ![job.n].state = "torn"]
    <3>1. act.pc = "ar_archive" /\ act' = act /\ job.status = "running" /\ UNCHANGED <<job, recorded, asked>>
      BY <1>1, <2>1, <2>3 DEF Elsewhere, At, JobLabels
    <3>2. \A n \in Job : n > job.n => archive'[n] = archive[n]
      BY <1>0, <2>3 DEF Job
    <3>3. QED BY <3>1, <3>2
  <2>4. QED BY <1>1, <2>2, <2>3 DEF Elsewhere
<1>2. CASE Begins
  <2>1. job.n + 1 \in Job
    BY <1>0, <1>2, BoundAssumption DEF Begins, Job
  <2>2. QED BY <1>0, <1>2, <2>1 DEF Begins, BookInv, JobLabels, Job
<1>3. ASSUME NEW n \in Job, Cancel(n) PROVE CancelInv'
  BY <1>3, CancelFact DEF BookInv
<1>4. ASSUME NEW d \in Deleter, NEW n \in Job, BeginDelete(d, n) PROVE CancelInv'
  BY <1>4 DEF BeginDelete, shelf, history
<1>5. ASSUME NEW d \in Deleter, DeleteFile(d) PROVE CancelInv'
  <2>1. \A n \in Job : archive[n] = NoFile => archive'[n] = NoFile
    BY <1>0, <1>5 DEF DeleteFile
  <2>2. act.pc \in {"ar_check", "rs_validate"} => job.n \in Job
    BY DEF IInv, TypeOK, JobLabels
  <2>3. QED BY <1>5, <2>1, <2>2 DEF DeleteFile, history
<1>6. ASSUME NEW d \in Deleter, DeleteRow(d) PROVE CancelInv'
  BY <1>6 DEF DeleteRow, history
<1>7. CASE JobStep
  <2>1. act.pc \in JobLabels /\ job.status = "running" /\ UNCHANGED <<deleting, removed, asked>>
    BY <1>7, JobStepKinds DEF BookInv
  <2>2. job.n \in Job
    BY <2>1 DEF IInv, TypeOK
  <2>3. CASE Fails
    <3>1. PICK e \in Errors :
            /\ JobFails(e) /\ UNCHANGED <<recorded, touchedBy>>
            /\ e # "cancelled" =>
                 archive' = archive \/ archive' = [archive EXCEPT ![job.n] = NoFile]
            /\ e = "cancelled" =>
                 \/ act.pc = "ar_check" /\ job.cancel /\ UNCHANGED archive
                 \/ /\ act.pc = "ar_remove" /\ act.err = e
                    /\ archive' = [archive EXCEPT ![job.n] = NoFile]
      BY <2>3 DEF Fails
    <3>2. \A n \in Job : archive[n] = NoFile => archive'[n] = NoFile
      BY <1>0, <3>1
    <3>3. e = "cancelled" => job.cancel /\ archive'[job.n] = NoFile
      BY <1>0, <2>1, <2>2, <3>1
    <3>4. QED BY <2>1, <2>2, <3>1, <3>2, <3>3, FailsFact DEF JobLabels
  <2>4. CASE Completes
    <3>1. ~job.cancel
      BY <2>4 DEF Completes, IInv, Aimed, RestoreLabels
    <3>2. QED BY <2>1, <2>4, <3>1, CompletesFact DEF Completes, JobLabels
  <2>5. CASE Goes
    <3>1. /\ job'.n = job.n /\ job'.operation = job.operation /\ job'.cancel = job.cancel
          /\ job'.status = "running"
      BY <2>1, <2>5 DEF Goes
    <3>2. \A n \in Job : n > job.n => archive'[n] = archive[n]
      BY <1>0, <2>2, <2>5 DEF Goes, Job
    <3>3. act'.pc \in {"ar_check", "rs_validate"} => archive'[job.n] = NoFile
      BY <2>5 DEF Goes
    <3>4. job.operation = "create" => UNCHANGED recorded
      BY <2>5 DEF Goes
    <3>5. job.cancel => job.operation = "create" /\ asked
      OBVIOUS
    <3>6. act'.err = "cancelled" => job.cancel
      BY <2>1, <2>5 DEF Goes
    <3>7. QED BY <2>1, <2>2, <3>1, <3>2, <3>3, <3>4, <3>5, <3>6
  <2>6. QED BY <1>7, <2>3, <2>4, <2>5, JobStepKinds
<1>8. CASE Crash
  BY <1>8, CrashFact DEF JobLabels
<1>9. QED
  BY <1>1, <1>2, <1>3, <1>4, <1>5, <1>6, <1>7, <1>8, StepKinds, BeginFact

-----------------------------------------------------------------------------
LEMMA InitPromises == Init => IInv /\ BookInv /\ RestoreInv /\ CancelInv
<1> SUFFICES ASSUME Init PROVE IInv /\ BookInv /\ RestoreInv /\ CancelInv
  OBVIOUS
<1>1. /\ job.n = 0 /\ job.status = "none" /\ job.message = "none" /\ job.safety = 0
      /\ ~job.cancel /\ act.pc = "idle"
  BY DEF Init, NoJob, IdleAct
<1>2. QED
  BY <1>1, InitType DEF Init, BookInv, RestoreInv, CancelInv, JobLabels, Replacing

\* "Existing server data has not been replaced" is told only of a restore that
\* removed nothing, also by a backend that came back after dying anywhere in
\* it; and a safety backup that is promised is in the list.
THEOREM RestoreTold == Spec => []RestoreTellsTheTruth
<1>1. Init => IInv /\ BookInv /\ RestoreInv
  BY InitPromises
<1>2. IInv /\ BookInv /\ RestoreInv /\ [Next]_vars => (IInv /\ BookInv /\ RestoreInv)'
  BY NextType, BookStep, RestoreStep
<1>3. RestoreInv => RestoreTellsTheTruth
  BY DEF RestoreInv, RestoreTellsTheTruth
<1>4. QED BY <1>1, <1>2, <1>3, PTL DEF Spec

\* A snapshot is cancelled only on request, an accepted request never ends in
\* a listed snapshot, and nothing a cancelled one wrote remains.
THEOREM CancelMeant == Spec => []CancelExact
<1>1. Init => IInv /\ BookInv /\ CancelInv
  BY InitPromises
<1>2. IInv /\ BookInv /\ CancelInv /\ [Next]_vars => (IInv /\ BookInv /\ CancelInv)'
  BY NextType, BookStep, CancelStep
<1>3. CancelInv => CancelExact
  BY DEF CancelInv, CancelExact
<1>4. QED BY <1>1, <1>2, <1>3, PTL DEF Spec

-----------------------------------------------------------------------------
(* Where each step of a job lands.                                         *)

Archiving == {"ar_check", "ar_flush", "ar_archive", "ar_resume", "ar_record", "ar_remove"}

\* What every step of a job leaves alone.
JobFrame ==
  /\ UNCHANGED <<running, mem, clock, status, asOf, blind, staging, deleting, asked, removed>>
  /\ job'.n = job.n /\ job'.operation = job.operation /\ job'.target = job.target
  /\ act'.live = act.live \/ act'.pc = "idle"

LEMMA GoLeaves ==
  ASSUME IInv, NEW l, Go(l)
  PROVE  /\ act'.pc = l /\ act'.err = act.err /\ act'.live = act.live
         /\ act'.moved = act.moved /\ act'.published = act.published
BY DEF Go, IInv, TypeOK, ActTypeOK

LEMMA FailsLeaves ==
  ASSUME IInv, NEW e, JobFails(e)
  PROVE  /\ act'.pc = "idle" /\ job'.n = job.n /\ job'.operation = job.operation
         /\ job'.target = job.target /\ job'.status = IF e = "cancelled" THEN "cancelled" ELSE "failed"
BY DEF JobFails, IdleAct, IInv, TypeOK, JobTypeOK

LEMMA CompletesLeaves ==
  ASSUME IInv, JobCompletes
  PROVE  /\ act'.pc = "idle" /\ job'.n = job.n /\ job'.operation = job.operation
         /\ job'.target = job.target /\ job'.status = "completed"
BY DEF JobCompletes, IdleAct, IInv, TypeOK, JobTypeOK

LEMMA PhaseLeaves ==
  ASSUME IInv, NEW p, Phase(p)
  PROVE  /\ job'.n = job.n /\ job'.operation = job.operation /\ job'.target = job.target
         /\ job'.status = job.status
BY DEF Phase, IInv, TypeOK, JobTypeOK

LEMMA CheckLands ==
  ASSUME IInv, CheckFiles
  PROVE  /\ act.pc = "ar_check" /\ JobFrame
         /\ UNCHANGED <<pack, previous, archive, recorded, autosave, pausedBy, saved, touchedBy, source>>
         /\ \/ act'.pc = "ar_flush"
            \/ act'.pc = "idle" /\ job'.status \in {"failed", "cancelled"}
<1>1. CASE Go("ar_flush") /\ UNCHANGED job
  BY <1>1, GoLeaves DEF CheckFiles, JobFrame, At, disk, shelf, jvm, history
<1>2. ASSUME NEW e, JobFails(e)
      PROVE  JobFrame /\ act'.pc = "idle" /\ job'.status \in {"failed", "cancelled"}
  BY <1>2, FailsLeaves DEF CheckFiles, JobFrame, disk, jvm, history
<1>3. QED
  BY <1>1, <1>2 DEF CheckFiles, At, disk, shelf, jvm, history

LEMMA FlushLands ==
  ASSUME IInv, Flush
  PROVE  /\ act.pc = "ar_flush" /\ JobFrame /\ job' = job
         /\ UNCHANGED <<previous, recorded, touchedBy, source>>
         /\ pausedBy' \in {pausedBy, job.n} /\ (pausedBy' # pausedBy => running)
         /\ \/ UNCHANGED <<pack, saved>>
            \/ running /\ pack' = [pack EXCEPT !.world = mem] /\ saved' = mem
         /\ \/ act'.pc = "ar_resume" /\ act'.err # "none" /\ UNCHANGED archive
            \/ /\ act'.pc = "ar_archive" /\ act'.err = "none"
               /\ archive' = [archive EXCEPT ![job.n] =
                                [state |-> "partial", pack |-> pack', previous |-> previous]]
               /\ act.live => /\ running /\ ~autosave'
                              /\ pack' = [pack EXCEPT !.world = mem]
<1>1. PICK off \in BOOLEAN, flush \in BOOLEAN, reply \in BOOLEAN, noted \in {TRUE, ~Faulty} :
       /\ (reply => flush) /\ (flush => off) /\ (off => running)
       /\ autosave' = (autosave /\ ~off)
       /\ pausedBy' = IF off THEN self ELSE pausedBy
       /\ pack' = IF flush THEN [pack EXCEPT !.world = mem] ELSE pack
       /\ saved' = IF flush THEN mem ELSE saved
       /\ LET e == IF job.cancel THEN "cancelled"
                   ELSE IF (~reply /\ act.live) \/ ~noted THEN "failed" ELSE "none"
          IN /\ act' = [act EXCEPT !.pc = IF e = "none" THEN "ar_archive" ELSE "ar_resume",
                                   !.err = e, !.flushed = reply]
             /\ archive' = IF e = "none"
                           THEN [archive EXCEPT ![self] =
                                   [state |-> "partial", pack |-> pack', previous |-> previous]]
                           ELSE archive
  BY DEF Flush
<1> DEFINE e == IF job.cancel THEN "cancelled"
                ELSE IF (~reply /\ act.live) \/ ~noted THEN "failed" ELSE "none"
<1>2. /\ act'.pc = (IF e = "none" THEN "ar_archive" ELSE "ar_resume")
      /\ act'.err = e /\ act'.live = act.live
  BY <1>1 DEF IInv, TypeOK, ActTypeOK
<1>3. JobFrame /\ job' = job /\ act.pc = "ar_flush" /\ UNCHANGED <<previous, recorded, touchedBy, source>>
  BY <1>2 DEF Flush, JobFrame, At
<1>4. CASE e = "none"
  <2>1. archive' = [archive EXCEPT ![job.n] = [state |-> "partial", pack |-> pack', previous |-> previous]]
    BY <1>1, <1>4 DEF self
  <2>2. act.live => reply
    BY <1>4
  <2>3. QED
    BY <1>1, <1>2, <1>3, <1>4, <2>1, <2>2 DEF self
<1>5. CASE e # "none"
  <2>1. UNCHANGED archive
    BY <1>1, <1>5
  <2>2. QED
    BY <1>1, <1>2, <1>3, <1>5, <2>1 DEF self
<1>6. QED
  BY <1>4, <1>5

LEMMA WriteLands ==
  ASSUME IInv, WriteArchive
  PROVE  /\ act.pc = "ar_archive" /\ JobFrame /\ job' = job
         /\ UNCHANGED <<pack, previous, recorded, autosave, pausedBy, saved, touchedBy, source>>
         /\ act'.pc = "ar_resume"
         /\ \/ act'.err # "none" /\ UNCHANGED archive
            \/ archive[job.n].state # "partial" /\ UNCHANGED archive
            \/ archive[job.n].state = "partial" /\ archive' = [archive EXCEPT ![job.n].state = "whole"]
<1>1. act'.pc = "ar_resume" /\ act'.live = act.live
  BY DEF WriteArchive, IInv, TypeOK, ActTypeOK
<1>2. \/ act'.err # "none" /\ UNCHANGED archive
      \/ archive[job.n].state # "partial" /\ UNCHANGED archive
      \/ archive[job.n].state = "partial" /\ archive' = [archive EXCEPT ![job.n].state = "whole"]
  BY DEF WriteArchive, IInv, TypeOK, ActTypeOK, self
<1>3. QED
  BY <1>1, <1>2 DEF WriteArchive, JobFrame, At, disk, jvm, history

LEMMA ResumeLands ==
  ASSUME IInv, Resume
  PROVE  /\ act.pc = "ar_resume" /\ JobFrame /\ job' = job
         /\ UNCHANGED <<pack, previous, archive, recorded, saved, touchedBy, source>>
         /\ pausedBy' \in {pausedBy, 0}
         /\ \/ act'.pc = "ar_remove" /\ act'.err # "none"
            \/ act'.pc = "ar_record" /\ act'.err = "none" /\ act.err = "none"
         /\ act.live /\ act'.err \in {"none", "cancelled"} => running /\ pausedBy' = 0
<1>1. PICK on \in BOOLEAN, reply \in BOOLEAN, noted \in {TRUE, ~Faulty} :
       /\ (reply => on) /\ (on => running)
       /\ pausedBy' = IF on THEN 0 ELSE pausedBy
       /\ LET e == IF ~reply /\ (act.flushed \/ act.live) THEN "autosave off"
                   ELSE IF ~noted THEN "failed"
                   ELSE IF act.err = "none" /\ job.cancel THEN "cancelled"
                   ELSE act.err
          IN act' = [act EXCEPT !.pc = IF e = "none" THEN "ar_record" ELSE "ar_remove",
                                !.err = e]
  BY DEF Resume
<1> DEFINE e == IF ~reply /\ (act.flushed \/ act.live) THEN "autosave off"
                ELSE IF ~noted THEN "failed"
                ELSE IF act.err = "none" /\ job.cancel THEN "cancelled"
                ELSE act.err
<1>2. /\ act'.pc = (IF e = "none" THEN "ar_record" ELSE "ar_remove")
      /\ act'.err = e /\ act'.live = act.live
  BY <1>1 DEF IInv, TypeOK, ActTypeOK
<1>3. e = "none" => act.err = "none"
  OBVIOUS
<1>4. act.live /\ e \in {"none", "cancelled"} => reply
  OBVIOUS
<1>5. /\ act.pc = "ar_resume" /\ JobFrame /\ job' = job
      /\ UNCHANGED <<pack, previous, archive, recorded, saved, touchedBy, source>>
  BY <1>2 DEF Resume, JobFrame, At, disk, shelf, history
<1> HIDE DEF e
<1>6. QED
  BY <1>1, <1>2, <1>3, <1>4, <1>5

LEMMA RecordLands ==
  ASSUME IInv, Record
  PROVE  /\ act.pc = "ar_record" /\ JobFrame
         /\ UNCHANGED <<pack, previous, archive, autosave, pausedBy, saved, touchedBy, source>>
         /\ \/ act'.pc = "ar_remove" /\ UNCHANGED <<recorded, job>>
            \/ /\ act'.pc = "idle" /\ job'.status = "completed" /\ job.operation = "create"
               /\ recorded' = recorded \cup {job.n}
            \/ /\ act'.pc = "rs_ready" /\ job.operation = "restore"
               /\ recorded' = recorded \cup {job.n} /\ job'.status = job.status
<1>1. CASE JobCompletes /\ recorded' = recorded \cup {self} /\ job.operation = "create"
  BY <1>1, CompletesLeaves DEF Record, JobFrame, At, disk, jvm, history, self
<1>2. CASE Go("rs_ready") /\ job' = [job EXCEPT !.safety = self] /\ job.operation # "create"
           /\ recorded' = recorded \cup {self}
  <2>1. /\ job'.n = job.n /\ job'.operation = job.operation /\ job'.target = job.target
        /\ job'.status = job.status /\ job.operation = "restore"
    BY <1>2 DEF IInv, TypeOK, JobTypeOK
  <2>2. QED
    BY <1>2, <2>1, GoLeaves DEF Record, JobFrame, At, disk, jvm, history, self
<1>3. CASE /\ act' = [act EXCEPT !.pc = "ar_remove",
                                 !.err = IF job.cancel THEN "cancelled" ELSE "failed"]
           /\ UNCHANGED <<recorded, job>>
  <2>1. act'.pc = "ar_remove" /\ act'.live = act.live
    BY <1>3 DEF IInv, TypeOK, ActTypeOK
  <2>2. QED
    BY <1>3, <2>1 DEF Record, JobFrame, At, disk, jvm, history
<1>4. QED
  BY <1>1, <1>2, <1>3 DEF Record

LEMMA RemoveLands ==
  ASSUME IInv, RemovePartial
  PROVE  /\ act.pc = "ar_remove" /\ JobFrame /\ act'.pc = "idle"
         /\ UNCHANGED <<pack, previous, recorded, autosave, pausedBy, saved, touchedBy, source>>
         /\ UNCHANGED archive \/ archive' = [archive EXCEPT ![job.n] = NoFile]
         /\ job'.status = "failed" \/ (job'.status = "cancelled" /\ act.err = "cancelled")
<1>1. CASE archive' = [archive EXCEPT ![self] = NoFile] /\ JobFails(act.err)
  BY <1>1, FailsLeaves DEF RemovePartial, JobFrame, At, disk, jvm, history, self
<1>2. CASE JobFails("failed") /\ UNCHANGED archive
  BY <1>2, FailsLeaves DEF RemovePartial, JobFrame, At, disk, jvm, history
<1>3. QED
  BY <1>1, <1>2 DEF RemovePartial

LEMMA ValidateLands ==
  ASSUME IInv, Validate
  PROVE  /\ act.pc = "rs_validate" /\ JobFrame
         /\ UNCHANGED <<pack, previous, archive, recorded, autosave, pausedBy, saved, touchedBy, source>>
         /\ \/ act'.pc = "idle" /\ job'.status = "failed"
            \/ /\ act'.pc \in {"ar_check", "rs_ready"}
               /\ job.target \in recorded /\ archive[job.target].state # "none"
<1>1. CASE JobFails("failed")
  BY <1>1, FailsLeaves DEF Validate, JobFrame, At, disk, shelf, jvm, history
<1>2. CASE /\ job.target \in recorded /\ archive[job.target].state # "none"
           /\ \/ Go("ar_check") /\ Phase("backup")
              \/ Go("rs_ready") /\ UNCHANGED job
  BY <1>2, GoLeaves, PhaseLeaves DEF Validate, JobFrame, At, disk, shelf, jvm, history
<1>3. QED
  BY <1>1, <1>2 DEF Validate

LEMMA ReplaceLands ==
  ASSUME IInv, BeginReplacing
  PROVE  /\ act.pc = "rs_ready" /\ JobFrame
         /\ UNCHANGED <<pack, previous, archive, recorded, autosave, pausedBy>>
         /\ \/ /\ act'.pc = "idle" /\ job'.status = "failed"
               /\ UNCHANGED <<saved, touchedBy, source>>
            \/ /\ act'.pc = "rs_clear" /\ touchedBy' = job.n /\ source' = job.target
               /\ saved' = archive[job.target].pack.world
<1>1. CASE JobFails("failed") /\ UNCHANGED <<touchedBy, source, saved>>
  BY <1>1, FailsLeaves DEF BeginReplacing, JobFrame, At, disk, shelf, jvm
<1>2. CASE /\ Phase("clearing") /\ Go("rs_clear") /\ touchedBy' = self /\ source' = job.target
           /\ saved' = archive[job.target].pack.world
  BY <1>2, GoLeaves, PhaseLeaves DEF BeginReplacing, JobFrame, At, disk, shelf, jvm, self
<1>3. QED
  BY <1>1, <1>2 DEF BeginReplacing

LEMMA ClearLands ==
  ASSUME IInv, Clear
  PROVE  /\ act.pc = "rs_clear" /\ JobFrame
         /\ UNCHANGED <<archive, recorded, autosave, pausedBy, saved, touchedBy, source>>
         /\ pack' \in Ruins(pack) /\ previous' \in Ruins(previous)
         /\ act'.pc = "rs_extract" \/ (act'.pc = "idle" /\ job'.status = "failed")
<1>1. NoDir \in Ruins(pack) /\ NoDir \in Ruins(previous)
  BY DEF Ruins
<1>2. CASE /\ pack' \in Ruins(pack) /\ previous' \in Ruins(previous) /\ JobFails("failed")
  BY <1>2, FailsLeaves DEF Clear, JobFrame, At, shelf, jvm, history
<1>3. CASE pack' = NoDir /\ previous' = NoDir /\ Phase("extracting") /\ Go("rs_extract")
  BY <1>1, <1>3, GoLeaves, PhaseLeaves DEF Clear, JobFrame, At, shelf, jvm, history
<1>4. QED
  BY <1>2, <1>3 DEF Clear

LEMMA ExtractLands ==
  ASSUME IInv, Extract
  PROVE  /\ act.pc = "rs_extract" /\ JobFrame
         /\ UNCHANGED <<archive, recorded, autosave, pausedBy, saved, touchedBy, source>>
         /\ \/ /\ act'.pc = "rs_permissions" /\ archive[job.target].state # "none"
               /\ pack' = archive[job.target].pack /\ previous' = archive[job.target].previous
            \/ /\ act'.pc = "idle" /\ job'.status = "failed"
               /\ pack' \in {NoDir, PartDir} /\ previous' = previous
<1>1. CASE /\ archive[job.target].state # "none"
           /\ pack' = archive[job.target].pack /\ previous' = archive[job.target].previous
           /\ Phase("permissions") /\ Go("rs_permissions")
  BY <1>1, GoLeaves, PhaseLeaves DEF Extract, JobFrame, At, shelf, jvm, history
<1>2. CASE pack' \in {NoDir, PartDir} /\ UNCHANGED previous /\ JobFails("failed")
  BY <1>2, FailsLeaves DEF Extract, JobFrame, At, shelf, jvm, history
<1>3. QED
  BY <1>1, <1>2 DEF Extract

LEMMA RepairLands ==
  ASSUME IInv, RepairPermissions
  PROVE  /\ act.pc = "rs_permissions" /\ JobFrame /\ act'.pc = "idle"
         /\ UNCHANGED <<pack, previous, archive, recorded, autosave, pausedBy, saved>>
         /\ \/ job'.status = "completed" /\ touchedBy' = 0 /\ source' = 0
            \/ job'.status = "failed" /\ UNCHANGED <<touchedBy, source>>
<1>1. CASE JobCompletes /\ touchedBy' = 0 /\ source' = 0
  BY <1>1, CompletesLeaves DEF RepairPermissions, JobFrame, At, disk, shelf, jvm
<1>2. CASE JobFails("failed") /\ UNCHANGED <<touchedBy, source>>
  BY <1>2, FailsLeaves DEF RepairPermissions, JobFrame, At, disk, shelf, jvm
<1>3. QED
  BY <1>1, <1>2 DEF RepairPermissions

\* What the other requests leave alone.
LEMMA JobSteps ==
  ASSUME IInv, JobStep
  PROVE  JobFrame /\ act.pc \in JobLabels /\ act'.pc \in JobLabels \cup {"idle"}
BY CheckLands, FlushLands, WriteLands, ResumeLands, RecordLands, RemoveLands, ValidateLands,
   ReplaceLands, ClearLands, ExtractLands, RepairLands DEF JobStep, JobLabels

RequestFrame ==
  /\ UNCHANGED <<disk, status, jvm, act, saved, asOf, touchedBy, source, blind>>
  /\ job'.n = job.n /\ job'.operation = job.operation /\ job'.target = job.target
  /\ job'.status = job.status

LEMMA CancelLeaves ==
  ASSUME IInv, NEW n \in Job, Cancel(n)
  PROVE  RequestFrame /\ UNCHANGED <<shelf, deleting, removed>>
BY DEF Cancel, RequestFrame, history, IInv, TypeOK, JobTypeOK

LEMMA BeginDeleteLeaves ==
  ASSUME IInv, NEW d \in Deleter, NEW n \in Job, BeginDelete(d, n)
  PROVE  /\ RequestFrame /\ UNCHANGED <<shelf, removed>>
         /\ act.pc = "idle" /\ job.status # "running" /\ n \in recorded
         /\ \A f \in Deleter : \/ deleting'[f] = deleting[f]
                               \/ f = d /\ deleting'[f].pc = "file" /\ deleting'[f].target = n
BY DEF BeginDelete, RequestFrame, history, Idle, IInv, TypeOK, RestTypeOK

LEMMA DeleteFileLeaves ==
  ASSUME IInv, NEW d \in Deleter, DeleteFile(d)
  PROVE  /\ RequestFrame /\ UNCHANGED recorded
         /\ deleting[d].pc # "idle" /\ deleting[d].target \in Job
         /\ \/ /\ archive' = [archive EXCEPT ![deleting[d].target] = NoFile]
               /\ removed' = removed \cup {deleting[d].target}
               /\ \A f \in Deleter : deleting'[f] = deleting[f] \/ (f = d /\ deleting'[f].target = deleting[d].target)
            \/ /\ UNCHANGED <<archive, removed>>
               /\ \A f \in Deleter : deleting'[f] = deleting[f] \/ deleting'[f].pc = "idle"
<1>1. RequestFrame /\ UNCHANGED recorded /\ deleting[d].pc # "idle"
  BY DEF DeleteFile, RequestFrame, history
<1>2. deleting[d].target \in Job
  BY <1>1 DEF IInv, Aimed
<1>3. CASE /\ archive' = [archive EXCEPT ![deleting[d].target] = NoFile]
           /\ removed' = removed \cup {deleting[d].target}
           /\ deleting' = [deleting EXCEPT ![d].pc = "row"]
  BY <1>1, <1>2, <1>3 DEF IInv, TypeOK, RestTypeOK
<1>4. CASE /\ UNCHANGED <<archive, removed>>
           /\ deleting' = [deleting EXCEPT ![d] = [pc |-> "idle", target |-> 0]]
  BY <1>1, <1>2, <1>4 DEF IInv, TypeOK, RestTypeOK
<1>5. QED
  BY <1>3, <1>4 DEF DeleteFile

LEMMA DeleteRowLeaves ==
  ASSUME IInv, NEW d \in Deleter, DeleteRow(d)
  PROVE  /\ RequestFrame /\ UNCHANGED <<archive, removed>>
         /\ deleting[d].pc = "row" /\ deleting[d].target \in Job
         /\ recorded' = recorded \ {deleting[d].target}
         /\ \A f \in Deleter : deleting'[f] = deleting[f] \/ deleting'[f].pc = "idle"
<1>1. RequestFrame /\ UNCHANGED <<archive, removed>> /\ deleting[d].pc = "row"
  BY DEF DeleteRow, RequestFrame, history
<1>2. deleting[d].target \in Job
  BY <1>1 DEF IInv, Aimed
<1>3. QED
  BY <1>1, <1>2 DEF DeleteRow, IInv, TypeOK, RestTypeOK

\* A job begins, and this is what it finds.
Asks ==
  /\ act.pc = "idle" /\ job.status # "running" /\ job.n < MaxJob /\ JobAsked
  /\ job'.n = job.n + 1 /\ job'.status = "running"
  /\ act'.live = (status = "live")
  /\ \/ act'.pc = "ar_check" /\ job'.operation = "create"
     \/ act'.pc = "rs_validate" /\ job'.operation = "restore" /\ ~running
  /\ UNCHANGED <<disk, shelf, status, jvm, deleting, saved, touchedBy, source>>

LEMMA AskLands ==
  ASSUME IInv, CreateSnapshot \/ \E n \in Job : Restore(n) PROVE Asks
<1>1. ASSUME NEW o, NEW t
      PROVE  /\ NewJob(o, t).n = job.n + 1 /\ NewJob(o, t).status = "running"
             /\ NewJob(o, t).operation = o
  BY DEF NewJob, NoJob
<1>2. CASE CreateSnapshot
  BY <1>1, <1>2 DEF CreateSnapshot, Asks, IdleAct, Idle
<1>3. ASSUME NEW n \in Job, Restore(n) PROVE Asks
  <2>1. PICK backup \in BOOLEAN :
          /\ job' = NewJob("restore", n)
          /\ act' = [IdleAct EXCEPT !.pc = "rs_validate", !.live = (status = "live"),
                                    !.backup = backup]
    BY <1>3 DEF Restore
  <2>2. act'.pc = "rs_validate" /\ act'.live = (status = "live")
    BY <2>1 DEF IdleAct
  <2>3. job'.n = job.n + 1 /\ job'.status = "running" /\ job'.operation = "restore"
    BY <1>1, <2>1
  <2>4. QED
    BY <1>3, <2>2, <2>3 DEF Restore, Asks, Idle
<1>4. QED
  BY <1>2, <1>3

LEMMA CrashLands ==
  ASSUME IInv, Crash
  PROVE  /\ act'.pc = "idle" /\ job'.status # "running" /\ job'.n = job.n
         /\ job'.operation = job.operation /\ job'.target = job.target
         /\ job'.status \in {"failed", job.status}
         /\ \A d \in Deleter : deleting'[d].pc = "idle"
         /\ UNCHANGED <<shelf, status, jvm, history, asked, removed>> /\ staging' = NoDir /\ Halfway
BY DEF Crash, JobAfterCrash, IdleAct, IInv, TypeOK, JobTypeOK

\* A step of a rebuild.
LEMMA RebuildLands ==
  ASSUME IInv, Prepare \/ RebuildStep
  PROVE  /\ UNCHANGED quiet /\ act.pc \in RebuildLabels \cup {"idle"}
         /\ act'.pc \in RebuildLabels \cup {"idle"}
         /\ act.pc = "idle" => ~running
<1>1. UNCHANGED quiet /\ act.pc \in RebuildLabels \cup {"idle"}
  BY DEF Prepare, RebuildStep, BuildStaging, MoveOld, Publish, Recontain, DropOld, RebuildFails,
     Unpublish, MoveBack, At, Idle, RebuildLabels
<1>2. act.pc = "idle" => ~running
  BY DEF Prepare, RebuildStep, BuildStaging, MoveOld, Publish, Recontain, DropOld, RebuildFails,
     Unpublish, MoveBack, At
<1>3. RebuildOver => act'.pc = "idle"
  BY DEF RebuildOver, IdleAct
<1>4. act'.pc \in RebuildLabels \cup {"idle"}
  BY <1>3, GoLeaves DEF Prepare, RebuildStep, BuildStaging, MoveOld, Publish, Recontain, DropOld,
     RebuildFails, Unpublish, MoveBack, RebuildLabels, IInv, TypeOK, ActTypeOK
<1>5. QED
  BY <1>1, <1>2, <1>4

-----------------------------------------------------------------------------
(* Who works beside whom.                                                  *)

\* The JVM runs beside snapshots alone.
RunInv == running => /\ act.pc \notin RebuildLabels
                     /\ act.pc \in JobLabels => job.operation = "create"

LEMMA RunStep == IInv /\ RunInv /\ [Next]_vars => RunInv'
<1> SUFFICES ASSUME IInv, RunInv, [Next]_vars PROVE RunInv'
  OBVIOUS
<1> USE DEF RunInv
<1>1. CASE CreateSnapshot \/ \E n \in Job : Restore(n)
  BY <1>1, AskLands DEF Asks, jvm, RebuildLabels
<1>2. CASE JobStep
  BY <1>2, JobSteps DEF JobFrame, RebuildLabels, JobLabels
<1>3. CASE Crash
  BY <1>3, CrashLands DEF RebuildLabels, JobLabels
<1>4. CASE Prepare \/ RebuildStep
  BY <1>4, RebuildLands DEF quiet, jvm, RebuildLabels, JobLabels
<1>5. ASSUME RequestFrame PROVE RunInv'
  BY <1>5 DEF RequestFrame, jvm
<1>6. CASE Machine
  BY <1>6 DEF Machine, Play, Autosave, JvmEnds, JvmGone, Start, StartUnanswered, Stop, Refresh,
     JvmBoots, jvm, Idle, RebuildLabels, JobLabels
<1>7. CASE UNCHANGED vars
  BY <1>7 DEF vars, jvm
<1>8. QED
  BY <1>1, <1>2, <1>3, <1>4, <1>5, <1>6, <1>7, CancelLeaves, BeginDeleteLeaves, DeleteFileLeaves,
     DeleteRowLeaves DEF Next, Requests, OperationStep

\* Nobody deletes what the running job writes, which is not in the list yet.
OwnInv ==
  job.status = "running" =>
    /\ \A d \in Deleter : deleting[d].pc # "idle" => deleting[d].target # job.n
    /\ act.pc \in Archiving \cup {"rs_validate"} => job.n \notin recorded

LEMMA OwnStep == IInv /\ BookInv /\ OwnInv /\ [Next]_vars => OwnInv'
<1> SUFFICES ASSUME IInv, BookInv, OwnInv, [Next]_vars PROVE OwnInv'
  OBVIOUS
<1>0. /\ job.n \in Nat /\ recorded \subseteq Nat
      /\ \A d \in Deleter : deleting[d].target \in Nat
  BY DEF IInv, TypeOK, JobTypeOK, RestTypeOK, ShelfTypeOK, Job
<1> USE DEF OwnInv
<1>1. CASE CreateSnapshot \/ \E n \in Job : Restore(n)
  <2>1. Asks
    BY <1>1, AskLands
  <2>2. job.n + 1 \notin recorded
    BY <1>0 DEF BookInv
  <2>3. \A d \in Deleter : deleting[d].pc # "idle" => deleting[d].target # job.n + 1
    BY <1>0 DEF BookInv
  <2>4. QED
    BY <2>1, <2>2, <2>3 DEF Asks, shelf
<1>2. CASE JobStep
  <2>1. job.status = "running" /\ JobFrame
    BY <1>2, JobSteps DEF BookInv
  <2>2. CASE Record
    BY <2>1, <2>2, RecordLands DEF JobFrame, Archiving
  <2>3. CASE ~Record
    <3>1. recorded' = recorded /\ (act'.pc \in Archiving => act.pc \in Archiving \cup {"rs_validate"})
          /\ act'.pc # "rs_validate"
      BY <1>2, <2>3, CheckLands, FlushLands, WriteLands, ResumeLands, RemoveLands,
         ValidateLands, ReplaceLands, ClearLands, ExtractLands, RepairLands DEF JobStep, Archiving
    <3>2. QED
      BY <2>1, <3>1 DEF JobFrame
  <2>4. QED
    BY <2>2, <2>3
<1>3. CASE Crash
  BY <1>3, CrashLands
<1>4. CASE Elsewhere
  BY <1>4 DEF Elsewhere, BookInv
<1>5. ASSUME NEW n \in Job, Cancel(n) PROVE OwnInv'
  BY <1>5, CancelLeaves DEF RequestFrame, shelf
<1>6. ASSUME NEW d \in Deleter, NEW n \in Job, BeginDelete(d, n) PROVE OwnInv'
  BY <1>6, BeginDeleteLeaves DEF RequestFrame
<1>7. ASSUME NEW d \in Deleter, DeleteFile(d) PROVE OwnInv'
  BY <1>7, DeleteFileLeaves DEF RequestFrame
<1>8. ASSUME NEW d \in Deleter, DeleteRow(d) PROVE OwnInv'
  BY <1>8, DeleteRowLeaves DEF RequestFrame
<1>9. QED
  BY <1>1, <1>2, <1>3, <1>4, <1>5, <1>6, <1>7, <1>8, StepKinds

\* An archive in the list is no archive in the making, and none that a
\* deletion is about to take out of the list.
ShelfInv ==
  /\ \A n \in recorded : archive[n].state # "partial"
  /\ act.pc = "ar_record" \/ (act.pc = "ar_resume" /\ act.err = "none") =>
       archive[job.n].state \in {"torn", "whole"}
  /\ act.pc = "ar_archive" => archive[job.n].state \in {"partial", "torn"}
  /\ \A d \in Deleter : deleting[d].pc = "row" => archive[deleting[d].target].state = "none"

LEMMA ShelfStep == IInv /\ BookInv /\ OwnInv /\ ShelfInv /\ [Next]_vars => ShelfInv'
<1> SUFFICES ASSUME IInv, BookInv, OwnInv, ShelfInv, [Next]_vars PROVE ShelfInv'
  OBVIOUS
<1>0. archive \in [Job -> File] /\ recorded \subseteq Job /\ (act.pc \in JobLabels => job.n \in Job)
      /\ \A d \in Deleter : deleting[d].pc # "idle" => deleting[d].target \in Job
  BY DEF IInv, TypeOK, ShelfTypeOK, Aimed
<1>a. NoFile.state = "none" /\ \A f \in File : f.state \in {"none", "partial", "torn", "whole"}
  BY DEF NoFile, File
<1>1. CASE CreateSnapshot \/ \E n \in Job : Restore(n)
  BY <1>1, AskLands DEF Asks, shelf, ShelfInv
<1>2. CASE JobStep
  <2>1. job.status = "running" /\ JobFrame /\ job.n \in Job /\ act.pc \in JobLabels
    BY <1>0, <1>2, JobSteps DEF BookInv
  <2>2. \A d \in Deleter : deleting[d].pc = "row" =>
          deleting[d].target \in Job /\ deleting[d].target # job.n
    BY <1>0, <2>1 DEF OwnInv
  <2>3. CASE Flush
    <3>1. act.pc = "ar_flush" /\ job.n \notin recorded /\ recorded' = recorded
      BY <2>1, <2>3, FlushLands DEF OwnInv, Archiving
    <3>2. /\ \A n \in Job : n # job.n => archive'[n] = archive[n]
          /\ act'.pc \in {"ar_archive", "ar_resume"}
          /\ act'.pc = "ar_archive" => archive'[job.n].state = "partial"
          /\ act'.pc = "ar_resume" => act'.err # "none"
      BY <1>0, <2>1, <2>3, FlushLands
    <3>3. QED
      BY <1>0, <2>1, <2>2, <3>1, <3>2 DEF ShelfInv, JobFrame
  <2>4. CASE WriteArchive
    <3>1. act.pc = "ar_archive" /\ job.n \notin recorded /\ recorded' = recorded
      BY <2>1, <2>4, WriteLands DEF OwnInv, Archiving
    <3>2. /\ \A n \in Job : n # job.n => archive'[n] = archive[n]
          /\ act'.pc = "ar_resume"
          /\ act'.err = "none" => archive'[job.n].state \in {"torn", "whole"}
      BY <1>0, <2>1, <2>4, <3>1, WriteLands DEF ShelfInv, File
    <3>3. QED
      BY <1>0, <2>1, <2>2, <3>1, <3>2 DEF ShelfInv, JobFrame
  <2>5. CASE Resume
    BY <2>1, <2>5, ResumeLands DEF ShelfInv, JobFrame
  <2>6. CASE Record
    <3>1. /\ act.pc = "ar_record" /\ UNCHANGED archive /\ recorded' \subseteq recorded \cup {job.n}
          /\ act'.pc \notin {"ar_record", "ar_resume", "ar_archive"}
      BY <2>6, RecordLands
    <3>2. QED
      BY <2>1, <3>1 DEF ShelfInv, JobFrame
  <2>7. CASE RemovePartial
    <3>1. /\ act'.pc = "idle" /\ recorded' = recorded /\ act.pc = "ar_remove"
          /\ \A n \in Job : archive'[n] = archive[n] \/ archive'[n] = NoFile
      BY <1>0, <2>7, RemoveLands
    <3>2. QED
      BY <1>0, <1>a, <2>1, <3>1 DEF ShelfInv, JobFrame
  <2>8. CASE CheckFiles \/ Validate \/ BeginReplacing \/ Clear \/ Extract \/ RepairPermissions
    <3>1. UNCHANGED <<archive, recorded>> /\ act'.pc \notin {"ar_record", "ar_resume", "ar_archive"}
      BY <2>8, CheckLands, ValidateLands, ReplaceLands, ClearLands, ExtractLands, RepairLands
    <3>2. QED
      BY <2>1, <3>1 DEF ShelfInv, JobFrame
  <2>9. QED
    BY <1>2, <2>3, <2>4, <2>5, <2>6, <2>7, <2>8 DEF JobStep
<1>3. CASE Crash
  BY <1>3, CrashLands DEF shelf, ShelfInv
<1>4. CASE Elsewhere
  <2>1. CASE UNCHANGED archive
    BY <1>4, <2>1 DEF Elsewhere, ShelfInv, JobLabels
  <2>2. CASE At("ar_archive") /\ archive' = [archive EXCEPT ![job.n].state = "torn"]
    <3>1. act.pc = "ar_archive" /\ job.n \in Job /\ job.status = "running" /\ act' = act
      BY <1>0, <1>4, <2>2 DEF At, BookInv, Elsewhere, JobLabels
    <3>2. /\ \A n \in Job : n # job.n => archive'[n] = archive[n]
          /\ archive'[job.n].state = "torn"
      BY <1>0, <2>2, <3>1 DEF File
    <3>3. \A d \in Deleter : deleting[d].pc = "row" => deleting[d].target # job.n
      BY <3>1 DEF OwnInv
    <3>4. QED
      BY <1>0, <1>4, <3>1, <3>2, <3>3 DEF Elsewhere, ShelfInv
  <2>3. QED
    BY <1>4, <2>1, <2>2 DEF Elsewhere
<1>5. ASSUME NEW n \in Job, Cancel(n) PROVE ShelfInv'
  BY <1>5, CancelLeaves DEF RequestFrame, shelf, ShelfInv
<1>6. ASSUME NEW d \in Deleter, NEW n \in Job, BeginDelete(d, n) PROVE ShelfInv'
  <2>1. RequestFrame /\ UNCHANGED <<archive, recorded>>
    BY <1>6, BeginDeleteLeaves DEF shelf
  <2>2. \A f \in Deleter : deleting'[f].pc = "row" => deleting'[f] = deleting[f]
    BY <1>6, BeginDeleteLeaves
  <2>3. QED
    BY <2>1, <2>2 DEF RequestFrame, ShelfInv
<1>7. ASSUME NEW d \in Deleter, DeleteFile(d) PROVE ShelfInv'
  <2>1. RequestFrame /\ UNCHANGED recorded /\ deleting[d].pc # "idle" /\ deleting[d].target \in Job
    BY <1>7, DeleteFileLeaves
  <2>2. act.pc \in JobLabels => deleting[d].target # job.n
    BY <2>1 DEF OwnInv, BookInv
  <2>3. CASE /\ archive' = [archive EXCEPT ![deleting[d].target] = NoFile]
             /\ \A f \in Deleter : deleting'[f] = deleting[f] \/ (f = d /\ deleting'[f].target = deleting[d].target)
    <3>1. /\ \A n \in Job : archive'[n] = archive[n] \/ archive'[n] = NoFile
          /\ archive'[deleting[d].target] = NoFile
          /\ act.pc \in JobLabels => archive'[job.n] = archive[job.n]
      BY <1>0, <2>1, <2>2, <2>3
    <3>2. QED
      BY <1>0, <1>a, <2>1, <2>3, <3>1 DEF ShelfInv, RequestFrame, JobLabels
  <2>4. CASE /\ UNCHANGED archive
             /\ \A f \in Deleter : deleting'[f] = deleting[f] \/ deleting'[f].pc = "idle"
    BY <2>1, <2>4 DEF ShelfInv, RequestFrame
  <2>5. QED
    BY <1>7, <2>3, <2>4, DeleteFileLeaves
<1>8. ASSUME NEW d \in Deleter, DeleteRow(d) PROVE ShelfInv'
  BY <1>8, DeleteRowLeaves DEF RequestFrame, ShelfInv
<1>9. QED
  BY <1>1, <1>2, <1>3, <1>4, <1>5, <1>6, <1>7, <1>8, StepKinds

\* The archive of n is in the list and can be read.
Listed(n) == n \in recorded /\ archive[n].state \in {"torn", "whole"}

\* What the steps do to an archive in the list.
LEMMA ListedStays ==
  ASSUME IInv, BookInv, OwnInv, ShelfInv, [Next]_vars, NEW n \in Job, Listed(n)
  PROVE  \/ Listed(n)' /\ archive'[n].pack = archive[n].pack
         \/ n \in removed' /\ UNCHANGED <<act, touchedBy, source, pack, previous, staging, saved>>
            /\ archive'[n].state = "none"
<1>0. archive \in [Job -> File] /\ recorded \subseteq Job /\ (act.pc \in JobLabels => job.n \in Job)
  BY DEF IInv, TypeOK, ShelfTypeOK
<1> USE DEF Listed
<1>1. CASE CreateSnapshot \/ \E m \in Job : Restore(m)
  BY <1>1, AskLands DEF Asks, shelf
<1>2. CASE JobStep
  <2>1. job.status = "running" /\ job.n \in Job /\ act.pc \in JobLabels
    BY <1>0, <1>2, JobSteps DEF BookInv
  <2>2. recorded \subseteq recorded'
    BY <1>2, CheckLands, FlushLands, WriteLands, ResumeLands, RecordLands, RemoveLands, ValidateLands,
       ReplaceLands, ClearLands, ExtractLands, RepairLands DEF JobStep
  <2>3. CASE UNCHANGED archive
    BY <2>2, <2>3
  <2>4. CASE Flush \/ WriteArchive \/ RemovePartial
    <3>1. act.pc \in {"ar_flush", "ar_archive", "ar_remove"}
      BY <2>4, FlushLands, WriteLands, RemoveLands
    <3>2. n # job.n
      BY <2>1, <3>1 DEF OwnInv, Archiving
    <3>3. archive'[n] = archive[n]
      BY <1>0, <2>1, <2>4, <3>2, FlushLands, WriteLands, RemoveLands
    <3>4. QED
      BY <2>2, <3>3
  <2>5. QED
    BY <1>2, <2>3, <2>4, CheckLands, ResumeLands, RecordLands, ValidateLands,
       ReplaceLands, ClearLands, ExtractLands, RepairLands DEF JobStep
<1>3. CASE Crash
  BY <1>3, CrashLands DEF shelf
<1>4. CASE Elsewhere
  <2>1. CASE At("ar_archive") /\ archive' = [archive EXCEPT ![job.n].state = "torn"]
    <3>1. job.n \in Job
      BY <1>0, <2>1 DEF At, JobLabels
    <3>2. archive'[n].state \in {"torn", "whole"} /\ archive'[n].pack = archive[n].pack
      BY <1>0, <2>1, <3>1 DEF File
    <3>3. QED
      BY <1>4, <3>2 DEF Elsewhere
  <2>2. QED
    BY <1>4, <2>1 DEF Elsewhere
<1>5. ASSUME NEW m \in Job, Cancel(m) PROVE Listed(n)' /\ archive'[n].pack = archive[n].pack
  BY <1>5, CancelLeaves DEF shelf
<1>6. ASSUME NEW d \in Deleter, NEW m \in Job, BeginDelete(d, m)
      PROVE  Listed(n)' /\ archive'[n].pack = archive[n].pack
  BY <1>6, BeginDeleteLeaves DEF shelf
<1>7. ASSUME NEW d \in Deleter, DeleteFile(d)
      PROVE  \/ Listed(n)' /\ archive'[n].pack = archive[n].pack
             \/ n \in removed' /\ UNCHANGED <<act, touchedBy, source, pack, previous, staging, saved>>
                /\ archive'[n].state = "none"
  <2>1. RequestFrame /\ UNCHANGED recorded /\ deleting[d].target \in Job
    BY <1>7, DeleteFileLeaves
  <2>2. CASE /\ archive' = [archive EXCEPT ![deleting[d].target] = NoFile]
             /\ removed' = removed \cup {deleting[d].target}
    <3>1. CASE n = deleting[d].target
      BY <1>0, <2>1, <2>2, <3>1 DEF RequestFrame, disk, NoFile
    <3>2. CASE n # deleting[d].target
      BY <1>0, <2>1, <2>2, <3>2
    <3>3. QED
      BY <3>1, <3>2
  <2>3. QED
    BY <1>7, <2>1, <2>2, DeleteFileLeaves
<1>8. ASSUME NEW d \in Deleter, DeleteRow(d) PROVE Listed(n)' /\ archive'[n].pack = archive[n].pack
  BY <1>8, DeleteRowLeaves DEF ShelfInv
<1>9. QED
  BY <1>1, <1>2, <1>3, <1>4, <1>5, <1>6, <1>7, <1>8, StepKinds

\* A restore past its validation has its snapshot in the list, unless somebody
\* deleted it since.
TargetInv ==
  act.pc \in JobLabels \ {"rs_validate"} /\ job.operation = "restore" =>
    Listed(job.target) \/ job.target \in removed

LEMMA RemovedStays ==
  ASSUME IInv, [Next]_vars, ~(CreateSnapshot \/ \E n \in Job : Restore(n))
  PROVE  removed \subseteq removed'
BY JobSteps, CrashLands, CancelLeaves, BeginDeleteLeaves, DeleteFileLeaves, DeleteRowLeaves, StepKinds
   DEF JobFrame, Elsewhere

LEMMA TargetStep ==
  IInv /\ BookInv /\ OwnInv /\ ShelfInv /\ TargetInv /\ [Next]_vars => TargetInv'
<1> SUFFICES ASSUME IInv, BookInv, OwnInv, ShelfInv, TargetInv, [Next]_vars,
                    act'.pc \in JobLabels \ {"rs_validate"}, job'.operation = "restore"
             PROVE  Listed(job.target)' \/ job'.target \in removed'
  BY DEF TargetInv
<1>1. ~(CreateSnapshot \/ \E n \in Job : Restore(n))
  BY AskLands DEF Asks
<1>2. act.pc \in JobLabels /\ job.operation = "restore" /\ job'.target = job.target
  BY <1>1, JobSteps, CrashLands, CancelLeaves, BeginDeleteLeaves, DeleteFileLeaves, DeleteRowLeaves,
     StepKinds DEF JobFrame, Elsewhere, RequestFrame, JobLabels
<1>3. job.target \in Job
  BY <1>2 DEF IInv, Aimed
<1>4. Listed(job.target) \/ job.target \in removed
  <2>1. CASE act.pc = "rs_validate"
    <3>1. Validate
      <4>1. act' # act
        BY <2>1
      <4>2. ~Elsewhere
        BY <1>2, <4>1 DEF Elsewhere
      <4>3. JobStep
        BY <1>1, <2>1, <4>1, <4>2, CrashLands, CancelLeaves, BeginDeleteLeaves, DeleteFileLeaves,
           DeleteRowLeaves, StepKinds DEF RequestFrame, JobLabels
      <4>4. QED
        BY <2>1, <4>3 DEF JobStep, CheckFiles, Flush, WriteArchive, Resume, Record, RemovePartial,
           BeginReplacing, Clear, Extract, RepairPermissions, At
    <3>2. job.target \in recorded /\ archive[job.target].state # "none"
      BY <3>1, ValidateLands DEF JobLabels
    <3>3. archive[job.target].state \in {"none", "partial", "torn", "whole"}
      BY <1>3 DEF IInv, TypeOK, ShelfTypeOK, File
    <3>4. QED
      BY <3>2, <3>3 DEF ShelfInv, Listed
  <2>2. QED
    BY <1>2, <2>1 DEF TargetInv
<1>5. PICK t \in Job : t = job.target
  BY <1>3
<1>6. Listed(t)' \/ t \in removed'
  BY <1>1, <1>4, <1>5, RemovedStays, ListedStays
<1>7. QED
  BY <1>2, <1>5, <1>6 DEF Listed

-----------------------------------------------------------------------------
(* Where the world is that the server is meant to hold.                    *)

\* It left with the data a restore removed: its snapshot has it, if nobody
\* deleted that.
Away == /\ touchedBy # 0
        /\ source \in removed \/ (Listed(source) /\ archive[source].pack.world = saved)

\* A rebuild that moved the old pack aside has it there.
Aside ==
  /\ act.moved => previous.world = saved /\ previous # NoDir
  /\ ~act.moved => pack.world = saved /\ previous = NoDir
  /\ act.pc \in {"pr_stage", "pr_move"} => ~act.moved
  /\ act.pc \in {"pr_stage", "pr_move", "pr_publish"} => ~act.published
  /\ act.pc = "pr_container" => act.published
  /\ act.pc \in {"pr_move", "pr_publish"} => staging.world = saved
  /\ act.pc \in {"pr_container", "pr_undo"} /\ act.published => pack.world = saved
  /\ ~act.moved /\ (act.pc = "pr_publish" \/ act.published) => saved = 0

\* Where no rebuild and no restore has come between.
InPlace == saved = pack.world \/ (previous # NoDir /\ saved = previous.world)

HomeInv ==
  /\ act.pc \in {"idle", "rs_validate", "rs_ready"} \cup Archiving => Away \/ InPlace
  /\ act.pc \in RebuildLabels \ {"pr_drop"} => Away \/ Aside
  /\ act.pc = "pr_drop" => Away \/ pack.world = saved
  /\ act.pc \in Replacing => touchedBy = job.n /\ source = job.target
  /\ act.pc \in {"rs_clear", "rs_extract"} =>
       Away /\ (archive[job.target].state = "none" \/ archive[job.target].pack.world = saved)
  /\ act.pc = "rs_permissions" => pack.world = saved

\* What a step that keeps to the data's place leaves of Away.
LEMMA AwayStays ==
  ASSUME IInv, BookInv, OwnInv, ShelfInv, [Next]_vars, Away,
         saved' = saved, touchedBy' = touchedBy, source' = source
  PROVE  Away'
<1>1. source \in Job
  BY DEF Away, Listed, IInv, TypeOK, RestTypeOK, ShelfTypeOK
<1>2. CASE source \in removed
  <2>1. source \in removed'
    BY <1>2, RemovedStays, AskLands DEF Asks, JobAsked
  <2>2. QED
    BY <2>1 DEF Away
<1>3. CASE Listed(source) /\ archive[source].pack.world = saved
  BY <1>1, <1>3, ListedStays DEF Away
<1>4. QED
  BY <1>2, <1>3 DEF Away

\* Nothing of an earlier rebuild is left in act.
RestInv == act.pc = "idle" => act = IdleAct

LEMMA RestStep == IInv /\ RestInv /\ [Next]_vars => RestInv'
<1> SUFFICES ASSUME IInv, RestInv, [Next]_vars PROVE RestInv'
  OBVIOUS
<1> USE DEF RestInv
<1>1. CASE CreateSnapshot \/ \E n \in Job : Restore(n)
  BY <1>1, AskLands DEF Asks
<1>2. CASE JobStep
  <2>1. CASE \E e : JobFails(e)
    BY <2>1 DEF JobFails
  <2>2. CASE JobCompletes
    BY <2>2 DEF JobCompletes
  <2>3. CASE \E l : l # "idle" /\ Go(l)
    BY <2>3, GoLeaves
  <2>4. CASE Flush \/ WriteArchive \/ Resume
    BY <2>4, FlushLands, WriteLands, ResumeLands
  <2>5. CASE Record
    <3>1. CASE act'.pc = "ar_remove"
      BY <3>1
    <3>2. CASE act'.pc # "ar_remove"
      <4>1. JobCompletes \/ Go("rs_ready")
        BY <2>5, <3>2 DEF Record, IInv, TypeOK, ActTypeOK
      <4>2. QED
        BY <2>2, <2>3, <4>1
    <3>3. QED
      BY <3>1, <3>2
  <2>6. QED
    BY <1>2, <2>1, <2>2, <2>3, <2>4, <2>5 DEF JobStep, CheckFiles, RemovePartial, Validate,
       BeginReplacing, Clear, Extract, RepairPermissions
<1>3. CASE Crash
  BY <1>3 DEF Crash
<1>4. CASE Prepare \/ RebuildStep
  <2>1. CASE RebuildOver
    BY <2>1 DEF RebuildOver
  <2>2. CASE \E l : l # "idle" /\ Go(l)
    BY <2>2, GoLeaves
  <2>3. CASE \E l \in {"pr_publish", "pr_container"} : act'.pc = l
    BY <2>3
  <2>4. CASE MoveOld \/ Publish
    <3>1. act'.pc \in {"pr_publish", "pr_container"}
      BY <2>4, GoLeaves DEF MoveOld, Publish, IInv, TypeOK, ActTypeOK
    <3>2. QED
      BY <2>3, <3>1
  <2>5. QED
    BY <1>4, <2>1, <2>2, <2>4 DEF Prepare, RebuildStep, BuildStaging, Recontain, DropOld,
       RebuildFails, Unpublish, MoveBack
<1>5. CASE Machine
  BY <1>5 DEF Machine, Play, Autosave, JvmEnds, Start, StartUnanswered, Stop, Refresh, JvmBoots
<1>6. CASE UNCHANGED vars
  BY <1>6 DEF vars
<1>7. QED
  BY <1>1, <1>2, <1>3, <1>4, <1>5, <1>6, CancelLeaves, BeginDeleteLeaves, DeleteFileLeaves,
     DeleteRowLeaves DEF Next, Requests, OperationStep, RequestFrame

\* The rebuild.
LEMMA RebuildHome ==
  ASSUME IInv, BookInv, OwnInv, ShelfInv, RestInv, HomeInv, [Next]_vars, Prepare \/ RebuildStep
  PROVE  HomeInv'
<1>1. /\ UNCHANGED quiet /\ act.pc \in RebuildLabels \cup {"idle"}
      /\ act'.pc \in RebuildLabels \cup {"idle"}
  BY RebuildLands
<1>2. Away => Away'
  BY <1>1, AwayStays DEF quiet, history
<1>3. CASE Away
  BY <1>1, <1>2, <1>3 DEF HomeInv, RebuildLabels, Replacing
<1>4. ASSUME act'.pc = "idle", InPlace' PROVE HomeInv'
  BY <1>4 DEF HomeInv, RebuildLabels, Replacing
<1>5. ASSUME act'.pc \in RebuildLabels \ {"pr_drop"}, Aside' PROVE HomeInv'
  BY <1>5 DEF HomeInv, RebuildLabels, Replacing, Archiving
<1>6. RebuildOver => act'.pc = "idle"
  BY DEF RebuildOver, IdleAct
<1>7. saved' = saved
  BY <1>1 DEF quiet, history
<1> SUFFICES ASSUME ~Away PROVE HomeInv'
  BY <1>3
<1>8. act.pc \in RebuildLabels \ {"pr_drop"} => Aside
  BY DEF HomeInv
<1>a. NoDir.world = 0 /\ PartDir.world = 0 /\ PartDir # NoDir
  BY DEF NoDir, PartDir
<1>b. \A d \in {pack, previous} : \A r \in Ruins(d) : r = d \/ r.world = 0
  BY <1>a DEF Ruins
<1>9. CASE Prepare
  <2>1. /\ act.pc = "idle" /\ previous = NoDir /\ UNCHANGED <<pack, previous>>
        /\ act'.pc = "pr_stage" /\ act'.moved = act.moved /\ act'.published = act.published
    BY <1>9, GoLeaves DEF Prepare, Idle
  <2>2. saved = pack.world
    BY <2>1 DEF HomeInv, InPlace
  <2>3. ~act.moved /\ ~act.published
    BY <2>1 DEF RestInv, IdleAct
  <2>4. QED
    BY <1>5, <1>7, <2>1, <2>2, <2>3 DEF Aside, RebuildLabels
<1>10. CASE BuildStaging
  <2>1. /\ act.pc = "pr_stage" /\ UNCHANGED <<pack, previous>> /\ staging'.world = pack.world
        /\ act'.pc = "pr_move" /\ act'.moved = act.moved /\ act'.published = act.published
    BY <1>10, GoLeaves DEF BuildStaging, At
  <2>2. QED
    BY <1>5, <1>7, <1>8, <2>1 DEF Aside, RebuildLabels
<1>11. CASE MoveOld
  <2>0. act.pc = "pr_move" /\ staging' = staging
    BY <1>11 DEF MoveOld, At
  <2>1. CASE pack = NoDir
    <3>1. /\ UNCHANGED <<pack, previous>> /\ act'.pc = "pr_publish"
          /\ act'.moved = act.moved /\ act'.published = act.published
      BY <1>11, <2>1, GoLeaves DEF MoveOld
    <3>2. QED
      BY <1>5, <1>7, <1>8, <1>a, <2>0, <2>1, <3>1 DEF Aside, RebuildLabels
  <2>2. CASE pack # NoDir
    <3>1. /\ previous' = pack /\ pack' = NoDir /\ act'.pc = "pr_publish"
          /\ act'.moved /\ act'.published = act.published
      BY <1>11, <2>2 DEF MoveOld, IInv, TypeOK, ActTypeOK
    <3>2. QED
      BY <1>5, <1>7, <1>8, <2>0, <2>2, <3>1 DEF Aside, RebuildLabels
  <2>3. QED
    BY <2>1, <2>2
<1>12. CASE Publish
  <2>1. /\ act.pc = "pr_publish" /\ pack' = staging /\ previous' = previous /\ act'.pc = "pr_container"
        /\ act'.moved = act.moved /\ act'.published
    BY <1>12 DEF Publish, At, IInv, TypeOK, ActTypeOK
  <2>2. QED
    BY <1>5, <1>7, <1>8, <2>1 DEF Aside, RebuildLabels
<1>13. CASE Recontain
  <2>1. act.pc = "pr_container" /\ UNCHANGED <<pack, previous>>
    BY <1>13 DEF Recontain, At
  <2>2. pack.world = saved
    BY <1>8, <2>1 DEF Aside, RebuildLabels
  <2>3. act'.pc \in {"pr_drop", "idle"}
    BY <1>6, <1>13, GoLeaves DEF Recontain
  <2>4. QED
    BY <1>7, <2>1, <2>2, <2>3 DEF HomeInv, InPlace, RebuildLabels, Replacing, Archiving
<1>14. CASE DropOld
  <2>1. act.pc = "pr_drop" /\ pack' = pack /\ act'.pc = "idle"
    BY <1>6, <1>14 DEF DropOld, At
  <2>2. QED
    BY <1>4, <1>7, <2>1 DEF HomeInv, InPlace
<1>15. CASE RebuildFails
  <2>1. /\ act.pc \in {"pr_stage", "pr_move", "pr_publish", "pr_container"}
        /\ UNCHANGED <<pack, previous>>
        /\ act'.pc = "pr_undo" /\ act'.moved = act.moved /\ act'.published = act.published
    BY <1>15, GoLeaves DEF RebuildFails, disk
  <2>2. QED
    BY <1>5, <1>7, <1>8, <2>1 DEF Aside, RebuildLabels
<1>16. CASE Unpublish
  <2>1. act.pc = "pr_undo" /\ previous' = previous
    BY <1>16 DEF Unpublish, At
  <2>2. CASE Go("pr_back") /\ pack' = IF act.published THEN NoDir ELSE pack
    <3>1. act'.pc = "pr_back" /\ act'.moved = act.moved /\ act'.published = act.published
      BY <2>2, GoLeaves
    <3>2. QED
      BY <1>5, <1>7, <1>8, <1>a, <2>1, <2>2, <3>1 DEF Aside, RebuildLabels
  <2>3. CASE act.published /\ pack' \in Ruins(pack) /\ RebuildOver
    <3>1. pack' = pack \/ pack'.world = 0
      BY <1>b, <2>3
    <3>2. InPlace'
      BY <1>7, <1>8, <2>1, <2>3, <3>1 DEF Aside, InPlace, RebuildLabels
    <3>3. QED
      BY <1>4, <1>6, <2>3, <3>2
  <2>4. QED
    BY <1>16, <2>2, <2>3 DEF Unpublish
<1>17. CASE MoveBack
  <2>1. act.pc = "pr_back" /\ act'.pc = "idle"
    BY <1>6, <1>17 DEF MoveBack, At
  <2>2. Aside
    BY <1>8, <2>1 DEF RebuildLabels
  <2>3. InPlace'
    BY <1>7, <1>17, <2>2 DEF MoveBack, Aside, InPlace
  <2>4. QED
    BY <1>4, <2>1, <2>3
<1>18. QED
  BY <1>9, <1>10, <1>11, <1>12, <1>13, <1>14, <1>15, <1>16, <1>17 DEF RebuildStep

\* The JVM, which writes only what the server is meant to hold.
LEMMA MachineHome ==
  ASSUME IInv, BookInv, OwnInv, ShelfInv, RunInv, HomeInv, [Next]_vars, Machine
  PROVE  HomeInv'
<1>1. /\ act' = act /\ job' = job /\ UNCHANGED <<previous, staging, touchedBy, source>>
  BY DEF Machine, Play, Autosave, JvmEnds, Start, StartUnanswered, Stop, Refresh, JvmBoots, disk, history
<1>2. CASE UNCHANGED <<pack, saved, archive>>
  <2>1. Away => Away'
    BY <1>1, <1>2, AwayStays
  <2>2. QED
    BY <1>1, <1>2, <2>1 DEF HomeInv, InPlace, Aside
<1>3. CASE running /\ pack' = [pack EXCEPT !.world = mem] /\ saved' = mem
  <2>1. pack'.world = saved'
    BY <1>3 DEF IInv, TypeOK, DiskTypeOK, Directory
  <2>2. act.pc \in {"idle"} \cup Archiving
    <3>1. act.pc \in Labels
      BY DEF IInv, TypeOK, ActTypeOK
    <3>2. act.pc \notin RestoreLabels
      BY <1>3 DEF RunInv, RestoreLabels, JobLabels, IInv, Aimed
    <3>3. QED
      BY <1>3, <3>1, <3>2 DEF RunInv, Labels, JobLabels, RestoreLabels, Archiving
  <2>3. QED
    BY <1>1, <2>1, <2>2 DEF HomeInv, InPlace, RebuildLabels, Replacing, Archiving
<1>4. QED
  BY <1>2, <1>3 DEF Machine, Play, Autosave, JvmEnds, JvmGone, Start, StartUnanswered, Stop, Refresh,
     JvmBoots, JvmWrites, disk, shelf, history

\* The steps of a job.  A restore removes data only when a snapshot that is in
\* the list, or that somebody deleted meanwhile, has it.
LEMMA JobHome ==
  ASSUME IInv, BookInv, OwnInv, ShelfInv, TargetInv, TargetInv', RunInv, HomeInv, [Next]_vars, JobStep
  PROVE  HomeInv'
<1>1. JobFrame /\ act.pc \in JobLabels /\ act'.pc \in JobLabels \cup {"idle"} /\ job.status = "running"
  BY JobSteps DEF BookInv
<1>2. archive \in [Job -> File] /\ job.n \in Job /\ pack \in Directory
  BY <1>1 DEF IInv, TypeOK, ShelfTypeOK, DiskTypeOK
<1>3. UNCHANGED <<saved, touchedBy, source>> => (Away => Away')
  BY AwayStays
<1>4. ASSUME act'.pc \in {"idle", "rs_ready"} \cup Archiving, Away' \/ InPlace'
      PROVE  HomeInv'
  BY <1>4 DEF HomeInv, RebuildLabels, Replacing, Archiving
<1>5. act.pc \in Archiving \cup {"rs_validate", "rs_ready"} => Away \/ InPlace
  BY DEF HomeInv
<1>6. act.pc \in RestoreLabels => job.operation = "restore" /\ job.target \in Job
  BY DEF IInv, Aimed
<1>7. CASE CheckFiles \/ WriteArchive \/ Resume \/ Record \/ RemovePartial \/ Validate
  <2>1. /\ UNCHANGED <<pack, previous, saved, touchedBy, source>>
        /\ act.pc \in Archiving \cup {"rs_validate"}
        /\ act'.pc \in {"idle", "rs_ready"} \cup Archiving
    BY <1>7, CheckLands, WriteLands, ResumeLands, RecordLands, RemoveLands, ValidateLands DEF Archiving
  <2>2. Away' \/ InPlace'
    BY <1>3, <1>5, <2>1 DEF InPlace
  <2>3. QED
    BY <1>4, <2>1, <2>2
<1>8. CASE Flush
  <2>1. /\ UNCHANGED <<previous, touchedBy, source>>
        /\ act.pc \in Archiving /\ act'.pc \in Archiving
        /\ UNCHANGED <<pack, saved>> \/ (pack' = [pack EXCEPT !.world = mem] /\ saved' = mem)
    BY <1>8, FlushLands DEF Archiving
  <2>2. CASE UNCHANGED <<pack, saved>>
    <3>1. Away' \/ InPlace'
      BY <1>3, <1>5, <2>1, <2>2 DEF InPlace
    <3>2. QED
      BY <1>4, <2>1, <3>1
  <2>3. CASE pack' = [pack EXCEPT !.world = mem] /\ saved' = mem
    <3>1. pack'.world = saved'
      BY <1>2, <2>3 DEF Directory
    <3>2. QED
      BY <1>4, <2>1, <3>1 DEF InPlace
  <2>4. QED
    BY <2>1, <2>2, <2>3
<1>9. CASE BeginReplacing
  <2>1. act.pc = "rs_ready" /\ UNCHANGED <<pack, previous, archive, recorded>>
    BY <1>9, ReplaceLands
  <2>2. CASE act'.pc = "idle" /\ UNCHANGED <<saved, touchedBy, source>>
    <3>1. Away' \/ InPlace'
      BY <1>3, <1>5, <2>1, <2>2 DEF InPlace
    <3>2. QED
      BY <1>4, <2>2, <3>1
  <2>3. CASE /\ act'.pc = "rs_clear" /\ touchedBy' = job.n /\ source' = job.target
             /\ saved' = archive[job.target].pack.world
    <3>1. job.target \in Job /\ (Listed(job.target) \/ job.target \in removed)
      BY <1>1, <1>6, <2>1 DEF TargetInv, RestoreLabels, JobLabels
    <3>2. job.n # 0
      BY <1>2, BoundAssumption DEF Job
    <3>3. Away'
      BY <1>1, <2>1, <2>3, <3>1, <3>2 DEF Away, Listed, JobFrame
    <3>4. job'.n = job.n /\ job'.target = job.target
      BY <1>1 DEF JobFrame
    <3>5. QED
      BY <2>1, <2>3, <3>3, <3>4 DEF HomeInv, RebuildLabels, Replacing, Archiving
  <2>4. QED
    BY <1>9, <2>2, <2>3, ReplaceLands
<1>10. CASE Clear
  <2>1. act.pc = "rs_clear" /\ UNCHANGED <<archive, recorded, saved, touchedBy, source>>
        /\ act'.pc \in {"rs_extract", "idle"}
    BY <1>10, ClearLands
  <2>2. Away'
    BY <1>3, <2>1 DEF HomeInv
  <2>3. job'.n = job.n /\ job'.target = job.target
    BY <1>1 DEF JobFrame
  <2>4. QED
    BY <2>1, <2>2, <2>3 DEF HomeInv, RebuildLabels, Replacing, Archiving
<1>11. CASE Extract
  <2>1. act.pc = "rs_extract" /\ UNCHANGED <<archive, recorded, saved, touchedBy, source>>
    BY <1>11, ExtractLands
  <2>2. Away'
    BY <1>3, <2>1 DEF HomeInv
  <2>3. job'.n = job.n /\ job'.target = job.target
    BY <1>1 DEF JobFrame
  <2>4. CASE act'.pc = "idle"
    BY <1>4, <2>2, <2>4
  <2>5. CASE /\ act'.pc = "rs_permissions" /\ archive[job.target].state # "none"
             /\ pack' = archive[job.target].pack
    BY <2>1, <2>3, <2>5 DEF HomeInv, RebuildLabels, Replacing, Archiving
  <2>6. QED
    BY <1>11, <2>4, <2>5, ExtractLands
<1>12. CASE RepairPermissions
  <2>1. act.pc = "rs_permissions" /\ act'.pc = "idle" /\ UNCHANGED <<pack, saved>>
    BY <1>12, RepairLands
  <2>2. QED
    BY <1>4, <2>1 DEF HomeInv, InPlace
<1>13. QED
  BY <1>7, <1>8, <1>9, <1>10, <1>11, <1>12 DEF JobStep

\* A crash, which leaves the call that was under way half done.
LEMMA CrashHome ==
  ASSUME IInv, BookInv, OwnInv, ShelfInv, HomeInv, [Next]_vars, Crash
  PROVE  HomeInv'
<1>1. /\ act'.pc = "idle" /\ UNCHANGED <<saved, touchedBy, source>> /\ Halfway
  BY CrashLands DEF history
<1>2. Away => Away'
  BY <1>1, AwayStays
<1>3. CASE Away
  BY <1>1, <1>2, <1>3 DEF HomeInv, RebuildLabels, Replacing
<1>4. CASE ~Away
  <2>1. act.pc \notin {"rs_clear", "rs_extract"}
    BY <1>4 DEF HomeInv
  <2>2. pack' = pack \/ (act.pc = "pr_undo" /\ act.published /\ pack' \in Ruins(pack))
    BY <1>1, <2>1 DEF Halfway, At
  <2>3. previous' = previous \/ act.pc = "pr_drop"
    BY <1>1, <2>1 DEF Halfway, At
  <2>4. NoDir.world = 0 /\ PartDir.world = 0
    BY DEF NoDir, PartDir
  <2>5. pack' = pack \/ pack'.world = 0 \/ ~(act.pc = "pr_undo" /\ act.published)
    BY <2>2, <2>4 DEF Ruins
  <2>6. InPlace'
    <3>1. CASE act.pc \in RebuildLabels \ {"pr_drop"}
      <4>1. Aside /\ previous' = previous
        BY <1>4, <2>3, <3>1 DEF HomeInv
      <4>2. CASE pack' = pack
        BY <1>1, <4>1, <4>2 DEF Aside, InPlace
      <4>3. CASE pack' # pack
        <5>1. act.published /\ pack'.world = 0
          BY <2>2, <2>5, <4>3
        <5>2. QED
          BY <1>1, <4>1, <5>1 DEF Aside, InPlace
      <4>4. QED
        BY <4>2, <4>3
    <3>2. CASE act.pc \in {"pr_drop", "rs_permissions"}
      BY <1>1, <1>4, <2>2, <3>2 DEF HomeInv, InPlace
    <3>3. CASE act.pc \notin RebuildLabels \cup Replacing
      <4>1. act.pc \in {"idle", "rs_validate", "rs_ready"} \cup Archiving
        BY <3>3 DEF IInv, TypeOK, ActTypeOK, Labels, JobLabels, Replacing, Archiving
      <4>2. UNCHANGED <<pack, previous>>
        BY <2>2, <2>3, <3>3 DEF RebuildLabels
      <4>3. QED
        BY <1>1, <1>4, <4>1, <4>2 DEF HomeInv, InPlace
    <3>4. QED
      BY <2>1, <3>1, <3>2, <3>3 DEF Replacing
  <2>7. QED
    BY <1>1, <2>6 DEF HomeInv, RebuildLabels, Replacing
<1>5. QED
  BY <1>3, <1>4

\* A request that takes no lock, and the beginning of a job.
LEMMA RequestHome ==
  ASSUME IInv, BookInv, OwnInv, ShelfInv, HomeInv, [Next]_vars,
         \/ CreateSnapshot \/ \E n \in Job : Restore(n) \/ Cancel(n)
         \/ \E d \in Deleter : (\E n \in Job : BeginDelete(d, n)) \/ DeleteFile(d) \/ DeleteRow(d)
  PROVE  HomeInv'
<1>1. CASE CreateSnapshot \/ \E n \in Job : Restore(n)
  <2>1. /\ act.pc = "idle" /\ act'.pc \in {"ar_check", "rs_validate"}
        /\ UNCHANGED <<pack, previous, saved, touchedBy, source>>
    BY <1>1, AskLands DEF Asks, disk
  <2>2. Away' \/ InPlace'
    BY <2>1, AwayStays DEF HomeInv, InPlace
  <2>3. QED
    BY <2>1, <2>2 DEF HomeInv, RebuildLabels, Replacing, Archiving
<1>2. ASSUME RequestFrame,
             act.pc \in {"rs_clear", "rs_extract"} =>
               archive'[job.target] = archive[job.target] \/ archive'[job.target].state = "none"
      PROVE  HomeInv'
  <2>1. Away => Away'
    BY <1>2, AwayStays DEF RequestFrame
  <2>2. act' = act /\ UNCHANGED <<pack, previous, staging, saved, touchedBy, source>>
        /\ job'.n = job.n /\ job'.target = job.target
    BY <1>2 DEF RequestFrame, disk
  <2>3. QED
    BY <1>2, <2>1, <2>2 DEF HomeInv, InPlace, Aside
<1>3. ASSUME NEW n \in Job, Cancel(n) PROVE HomeInv'
  BY <1>2, <1>3, CancelLeaves DEF shelf
<1>4. ASSUME NEW d \in Deleter, NEW n \in Job, BeginDelete(d, n) PROVE HomeInv'
  BY <1>2, <1>4, BeginDeleteLeaves DEF shelf
<1>5. ASSUME NEW d \in Deleter, DeleteFile(d) PROVE HomeInv'
  <2>1. act.pc \in {"rs_clear", "rs_extract"} => job.target \in Job
    BY DEF IInv, Aimed, RestoreLabels
  <2>2. archive \in [Job -> File] /\ NoFile.state = "none"
    BY DEF IInv, TypeOK, ShelfTypeOK, NoFile
  <2>3. QED
    BY <1>2, <1>5, <2>1, <2>2, DeleteFileLeaves
<1>6. ASSUME NEW d \in Deleter, DeleteRow(d) PROVE HomeInv'
  BY <1>2, <1>6, DeleteRowLeaves
<1>7. QED
  BY <1>1, <1>3, <1>4, <1>5, <1>6

WorldInv == RunInv /\ OwnInv /\ ShelfInv /\ TargetInv /\ RestInv /\ HomeInv

LEMMA WorldStep == IInv /\ BookInv /\ WorldInv /\ [Next]_vars => WorldInv'
<1> SUFFICES ASSUME IInv, BookInv, WorldInv, [Next]_vars PROVE WorldInv'
  OBVIOUS
<1>1. RunInv' /\ OwnInv' /\ ShelfInv' /\ TargetInv' /\ RestInv'
  BY RunStep, OwnStep, ShelfStep, TargetStep, RestStep DEF WorldInv
<1>2. CASE UNCHANGED vars
  <2>1. Away => Away'
    BY <1>2, AwayStays DEF WorldInv, vars, history
  <2>2. QED
    BY <1>1, <1>2, <2>1 DEF WorldInv, HomeInv, InPlace, Aside, vars, disk, shelf, history
<1>3. HomeInv'
  BY <1>1, <1>2, RebuildHome, MachineHome, JobHome, CrashHome, RequestHome
     DEF WorldInv, Next, Requests, OperationStep
<1>4. QED
  BY <1>1, <1>3 DEF WorldInv

LEMMA InitWorld == Init => WorldInv
<1> SUFFICES ASSUME Init PROVE WorldInv
  OBVIOUS
<1>1. /\ act.pc = "idle" /\ act = IdleAct /\ job.status = "none" /\ job.operation = "create" /\ ~running
      /\ recorded = {} /\ saved = pack.world /\ \A d \in Deleter : deleting[d].pc = "idle"
  BY DEF Init, IdleAct, NoJob
<1>2. QED
  BY <1>1 DEF WorldInv, RunInv, OwnInv, ShelfInv, TargetInv, RestInv, HomeInv, InPlace,
     RebuildLabels, JobLabels, Replacing

\* Whatever fails in a rebuild or a restore, and wherever the backend dies in it,
\* the world the server is meant to hold is in the pack, in the pack set aside or
\* in a listed snapshot, unless somebody deletes the snapshot of a restore that
\* was begun and not completed.
THEOREM WorldSurvives == Spec => []WorldKept
<1>1. IInv /\ WorldInv => WorldKept
  <2> SUFFICES ASSUME IInv, WorldInv PROVE WorldKept
    OBVIOUS
  <2>1. pack.world \in Kept /\ previous.world \in Kept
    BY DEF Kept
  <2>2. Away => WorldKept
    <3> SUFFICES ASSUME Away, source \notin removed PROVE saved \in Kept
      BY DEF Away, WorldKept
    <3>1. source \in {m \in recorded : archive[m].state \in {"torn", "whole"}}
      BY DEF Away, Listed
    <3>2. saved = archive[source].pack.world
      BY DEF Away
    <3>3. QED
      BY <3>1, <3>2 DEF Kept
  <2>3. act.pc \in {"idle"} \cup RebuildLabels \cup JobLabels
    BY DEF IInv, TypeOK, ActTypeOK, Labels
  <2>4. Away \/ saved \in {pack.world, previous.world}
    BY <2>3 DEF WorldInv, HomeInv, InPlace, Aside, RebuildLabels, JobLabels, Replacing, Archiving
  <2>5. QED
    BY <2>1, <2>2, <2>4 DEF WorldKept
<1>2. Init => IInv /\ BookInv /\ WorldInv
  BY InitPromises, InitWorld
<1>3. IInv /\ BookInv /\ WorldInv /\ [Next]_vars => (IInv /\ BookInv /\ WorldInv)'
  BY NextType, BookStep, WorldStep
<1>4. QED
  BY <1>1, <1>2, <1>3, PTL DEF Spec

\* A rebuild that failed or was cut short never makes the panel start the server
\* on a fresh world, or on any but its own.
THEOREM OwnWorldStarts == Spec => StartsOwnWorld
<1>1. IInv /\ WorldInv /\ [Next]_vars => [~running /\ running' /\ touchedBy = 0 => mem' = saved]_vars
  <2> SUFFICES ASSUME IInv, WorldInv, Next, ~running, running', touchedBy = 0
               PROVE  mem' = saved
    OBVIOUS
  <2>1. Idle /\ previous = NoDir /\ mem' = pack.world
    BY JobSteps, CrashLands, RebuildLands, AskLands, CancelLeaves, BeginDeleteLeaves, DeleteFileLeaves,
       DeleteRowLeaves
       DEF Next, Requests, OperationStep, Machine, Play, Autosave, JvmEnds, JvmGone, Start,
       StartUnanswered, Stop, Refresh, JvmBoots, JobFrame, RequestFrame, Asks, quiet, jvm
  <2>2. Away \/ InPlace
    BY <2>1 DEF WorldInv, HomeInv, Idle
  <2>3. QED
    BY <2>1, <2>2 DEF Away, InPlace
<1>2. Init => IInv /\ BookInv /\ WorldInv
  BY InitPromises, InitWorld
<1>3. IInv /\ BookInv /\ WorldInv /\ [Next]_vars => (IInv /\ BookInv /\ WorldInv)'
  BY NextType, BookStep, WorldStep
<1>4. QED
  BY <1>1, <1>2, <1>3, PTL DEF Spec, StartsOwnWorld

-----------------------------------------------------------------------------
(* What a snapshot in the list holds.                                      *)

\* What each step does to an archive that is in the list.
LEMMA ArchiveStays ==
  ASSUME IInv, BookInv, OwnInv, [Next]_vars, NEW n \in recorded
  PROVE  archive'[n] = archive[n] \/ (archive'[n].state = "none" /\ n \in removed')
<1>0. archive \in [Job -> File] /\ n \in Job /\ (act.pc \in JobLabels => job.n \in Job)
  BY DEF IInv, TypeOK, ShelfTypeOK
<1>1. CASE CreateSnapshot \/ \E m \in Job : Restore(m)
  BY <1>1, AskLands DEF Asks, shelf
<1>2. CASE JobStep
  <2>1. job.status = "running" /\ job.n \in Job
    BY <1>0, <1>2, JobSteps DEF BookInv
  <2>2. CASE Flush \/ WriteArchive \/ RemovePartial
    <3>1. act.pc \in {"ar_flush", "ar_archive", "ar_remove"}
      BY <2>2, FlushLands, WriteLands, RemoveLands
    <3>2. n # job.n
      BY <2>1, <3>1 DEF OwnInv, Archiving
    <3>3. QED
      BY <1>0, <2>1, <2>2, <3>2, FlushLands, WriteLands, RemoveLands
  <2>3. QED
    BY <1>2, <2>2, CheckLands, ResumeLands, RecordLands, ValidateLands,
       ReplaceLands, ClearLands, ExtractLands, RepairLands DEF JobStep
<1>3. CASE Crash
  BY <1>3, CrashLands DEF shelf
<1>4. CASE Elsewhere
  <2>1. CASE At("ar_archive") /\ archive' = [archive EXCEPT ![job.n].state = "torn"]
    <3>1. n # job.n
      BY <2>1 DEF At, OwnInv, BookInv, JobLabels, Archiving
    <3>2. QED
      BY <1>0, <2>1, <3>1
  <2>2. QED
    BY <1>4, <2>1 DEF Elsewhere
<1>5. ASSUME NEW m \in Job, Cancel(m) PROVE archive' = archive
  BY <1>5, CancelLeaves DEF shelf
<1>6. ASSUME NEW d \in Deleter, NEW m \in Job, BeginDelete(d, m) PROVE archive' = archive
  BY <1>6, BeginDeleteLeaves DEF shelf
<1>7. ASSUME NEW d \in Deleter, DeleteFile(d)
      PROVE  archive'[n] = archive[n] \/ (archive'[n].state = "none" /\ n \in removed')
  BY <1>0, <1>7, DeleteFileLeaves DEF NoFile
<1>8. ASSUME NEW d \in Deleter, DeleteRow(d) PROVE archive' = archive
  BY <1>8, DeleteRowLeaves
<1>9. QED
  BY <1>1, <1>2, <1>3, <1>4, <1>5, <1>6, <1>7, <1>8, StepKinds

\* What enters the list.
LEMMA RecordedGrows ==
  ASSUME IInv, [Next]_vars
  PROVE  \/ recorded' \subseteq recorded
         \/ Record /\ recorded' = recorded \cup {job.n}
BY AskLands, CheckLands, FlushLands, WriteLands, ResumeLands, RecordLands, RemoveLands, ValidateLands,
   ReplaceLands, ClearLands, ExtractLands, RepairLands, CrashLands, CancelLeaves, BeginDeleteLeaves,
   DeleteFileLeaves, DeleteRowLeaves, StepKinds DEF JobStep, Asks, shelf, Elsewhere

\* What a job was asked for with is noted once.
LEMMA NotesStay ==
  ASSUME IInv, [Next]_vars, ~(CreateSnapshot \/ \E n \in Job : Restore(n))
  PROVE  UNCHANGED <<asOf, blind>> /\ job'.n = job.n
<1>1. CASE JobStep
  BY <1>1, JobSteps DEF JobFrame
<1>2. CASE Crash
  BY <1>2, CrashLands DEF history
<1>3. CASE Prepare \/ RebuildStep
  BY <1>3, RebuildLands DEF quiet, history
<1>4. CASE Machine
  BY <1>4 DEF Machine, Play, Autosave, JvmEnds, JvmGone, Start, StartUnanswered, Stop, Refresh,
     JvmBoots, history
<1>5. ASSUME NEW n \in Job, Cancel(n) PROVE UNCHANGED <<asOf, blind>> /\ job'.n = job.n
  BY <1>5, CancelLeaves DEF RequestFrame, Cancel, history
<1>6. ASSUME NEW d \in Deleter, NEW n \in Job, BeginDelete(d, n)
      PROVE  UNCHANGED <<asOf, blind>> /\ job'.n = job.n
  BY <1>6 DEF BeginDelete, history
<1>7. ASSUME NEW d \in Deleter, DeleteFile(d) \/ DeleteRow(d)
      PROVE  UNCHANGED <<asOf, blind>> /\ job'.n = job.n
  BY <1>7 DEF DeleteFile, DeleteRow, history
<1>8. CASE UNCHANGED vars
  BY <1>8 DEF vars, history
<1>9. QED
  BY <1>1, <1>2, <1>3, <1>4, <1>5, <1>6, <1>7, <1>8 DEF Next, Requests, OperationStep

\* What is noted of a job that begins.
LEMMA AskNotes ==
  ASSUME IInv, BookInv, Asks
  PROVE  /\ job.n + 1 \in Job /\ job.n + 1 \notin recorded
         /\ asOf'[job.n + 1] = IF running THEN mem ELSE pack.world
         /\ job.n + 1 \notin blind' => (running => status = "live")
         /\ \A n \in recorded : /\ asOf'[n] = asOf[n]
                                /\ n \in blind => n \in blind'
                                /\ n \in removed => n \in removed'
<1>1. job.n \in Nat /\ job.n < MaxJob /\ recorded \subseteq Job /\ JobAsked
  BY DEF Asks, IInv, TypeOK, JobTypeOK, ShelfTypeOK
<1>2. job.n + 1 \in Job
  BY <1>1, BoundAssumption DEF Job
<1>3. ASSUME NEW n \in recorded PROVE n \in Job /\ n # job.n + 1
  <2>1. n \in Job /\ n <= job.n
    BY <1>1 DEF BookInv
  <2>2. QED
    BY <1>1, <2>1 DEF Job
<1>4. QED
  BY <1>1, <1>2, <1>3 DEF JobAsked

\* No directory and no archive holds a world nobody has played yet.
Played(d) == d.world <= clock

ClockInv ==
  /\ Played(pack) /\ Played(previous) /\ Played(staging) /\ mem <= clock
  /\ \A n \in Job : Played(archive[n].pack) /\ Played(archive[n].previous)

LEMMA ClockStep == IInv /\ ClockInv /\ [Next]_vars => ClockInv'
<1> SUFFICES ASSUME IInv, ClockInv, [Next]_vars PROVE ClockInv'
  OBVIOUS
<1>0. /\ pack \in Directory /\ previous \in Directory /\ staging \in Directory
      /\ archive \in [Job -> File] /\ mem \in Nat /\ clock \in Nat
      /\ act.pc \in JobLabels => job.n \in Job
      /\ act.pc \in RestoreLabels => job.target \in Job
  BY DEF IInv, TypeOK, DiskTypeOK, ShelfTypeOK, JvmTypeOK, World, Aimed
<1>a. NoDir.world = 0 /\ PartDir.world = 0 /\ NoFile.pack = NoDir /\ NoFile.previous = NoDir
  BY DEF NoDir, PartDir, NoFile
<1>b. \A f \in File : f.pack \in Directory /\ f.previous \in Directory
  BY DEF File
<1>c. \A d \in Directory : d.world \in Nat
  BY DEF Directory, World
<1>d. \A d \in Directory : Played(d) => \A r \in Ruins(d) : Played(r)
  BY <1>0, <1>a DEF Ruins, Played
<1>e. Played(NoDir) /\ Played(PartDir)
  BY <1>0, <1>a DEF Played
<1>f. Played([pack EXCEPT !.world = mem])
  BY <1>0 DEF ClockInv, Played, Directory
<1> USE DEF ClockInv
<1>1. ASSUME UNCHANGED <<pack, previous, staging, archive, mem, clock>> PROVE ClockInv'
  BY <1>1 DEF Played
<1>2. ASSUME clock' = clock, mem' \in {mem, 0, pack.world},
             Played(pack'), Played(previous'), Played(staging'),
             \A n \in Job : Played(archive'[n].pack) /\ Played(archive'[n].previous)
      PROVE  ClockInv'
  BY <1>0, <1>2 DEF Played
<1>3. CASE CreateSnapshot \/ \E n \in Job : Restore(n)
  BY <1>1, <1>3, AskLands DEF Asks, disk, shelf, jvm
<1>4. CASE CheckFiles \/ Resume \/ Record \/ Validate \/ BeginReplacing \/ RepairPermissions
  <2>1. JobFrame
    BY <1>4, JobSteps DEF JobStep
  <2>2. QED
    BY <1>1, <1>4, <2>1, CheckLands, ResumeLands, RecordLands, ValidateLands, ReplaceLands, RepairLands
       DEF JobFrame
<1>5. CASE Flush
  <2>1. JobFrame /\ act.pc = "ar_flush" /\ previous' = previous /\ job.n \in Job
    BY <1>0, <1>5, FlushLands DEF JobLabels
  <2>2. Played(pack')
    BY <1>5, <1>f, FlushLands
  <2>3. \/ archive' = archive
        \/ archive' = [archive EXCEPT ![job.n] =
                         [state |-> "partial", pack |-> pack', previous |-> previous]]
    BY <1>5, FlushLands
  <2>4. ASSUME NEW n \in Job PROVE Played(archive'[n].pack) /\ Played(archive'[n].previous)
    BY <1>0, <2>1, <2>2, <2>3
  <2>5. QED
    BY <1>2, <2>1, <2>2, <2>4 DEF JobFrame
<1>6. CASE WriteArchive
  <2>1. JobFrame /\ act.pc = "ar_archive" /\ UNCHANGED <<pack, previous>> /\ job.n \in Job
    BY <1>0, <1>6, WriteLands DEF JobLabels
  <2>2. \/ archive' = archive
        \/ archive' = [archive EXCEPT ![job.n].state = "whole"]
    BY <1>6, WriteLands
  <2>3. ASSUME NEW n \in Job PROVE Played(archive'[n].pack) /\ Played(archive'[n].previous)
    BY <1>0, <2>1, <2>2 DEF File
  <2>4. QED
    BY <1>2, <2>1, <2>3 DEF JobFrame
<1>7. CASE RemovePartial
  <2>1. JobFrame /\ UNCHANGED <<pack, previous>>
        /\ (archive' = archive \/ archive' = [archive EXCEPT ![job.n] = NoFile])
    BY <1>7, RemoveLands
  <2>2. ASSUME NEW n \in Job PROVE Played(archive'[n].pack) /\ Played(archive'[n].previous)
    BY <1>0, <1>a, <1>e, <2>1
  <2>3. QED
    BY <1>2, <2>1, <2>2 DEF JobFrame
<1>8. CASE Clear
  <2>1. JobFrame /\ archive' = archive /\ pack' \in Ruins(pack) /\ previous' \in Ruins(previous)
    BY <1>8, ClearLands
  <2>2. Played(pack') /\ Played(previous')
    BY <1>0, <1>d, <2>1
  <2>3. QED
    BY <1>2, <2>1, <2>2 DEF JobFrame
<1>9. CASE Extract
  <2>1. JobFrame /\ archive' = archive /\ job.target \in Job
    BY <1>0, <1>9, ExtractLands DEF RestoreLabels
  <2>2. Played(pack') /\ Played(previous')
    BY <1>9, <1>e, <2>1, ExtractLands
  <2>3. QED
    BY <1>2, <2>1, <2>2 DEF JobFrame
<1>10. CASE Prepare \/ RebuildStep
  <2>1. UNCHANGED <<archive, mem, clock>>
    BY <1>10, RebuildLands DEF quiet, shelf, jvm
  <2>2. Played(pack') /\ Played(previous') /\ Played(staging')
    <3>1. CASE Prepare \/ BuildStaging \/ MoveOld \/ Publish
      BY <1>0, <1>e, <3>1 DEF Prepare, BuildStaging, MoveOld, Publish, disk, Played, PartDir
    <3>2. CASE Recontain \/ RebuildFails \/ Unpublish \/ MoveBack
      BY <1>0, <1>d, <1>e, <3>2 DEF Recontain, RebuildFails, Unpublish, MoveBack, RebuildOver, disk
    <3>3. CASE DropOld
      BY <1>0, <1>d, <1>e, <3>3 DEF DropOld, RebuildOver, disk
    <3>4. QED
      BY <1>10, <3>1, <3>2, <3>3 DEF RebuildStep
  <2>3. QED
    BY <1>2, <2>1, <2>2
<1>11. CASE Crash
  <2>1. UNCHANGED <<archive, mem, clock>> /\ staging' = NoDir /\ Halfway
    BY <1>11, CrashLands DEF shelf, jvm
  <2>2. pack' \in Ruins(pack) \cup {NoDir, PartDir, pack} /\ previous' \in Ruins(previous) \cup {previous}
    BY <2>1 DEF Halfway
  <2>3. Played(pack') /\ Played(previous')
    BY <1>0, <1>d, <1>e, <2>2
  <2>4. QED
    BY <1>2, <1>e, <2>1, <2>3
<1>12. CASE Play
  <2>1. UNCHANGED <<pack, previous, staging, archive>> /\ clock' = clock + 1 /\ mem' = clock + 1
    BY <1>12 DEF Play, disk, shelf
  <2>2. \A d \in Directory : Played(d) => Played(d)'
    BY <1>0, <1>c, <2>1 DEF Played
  <2>3. \A n \in Job : (Played(archive[n].pack) /\ Played(archive[n].previous))'
    BY <1>0, <1>b, <1>c, <2>1 DEF Played
  <2>4. QED
    BY <1>0, <2>1, <2>3, <1>c DEF Played
<1>13. ASSUME UNCHANGED <<previous, staging, clock>>, JvmWrites, mem' \in {mem, 0} PROVE ClockInv'
  <2>1. Played(pack')
    BY <1>13, <1>f DEF JvmWrites
  <2>2. ASSUME NEW n \in Job PROVE Played(archive'[n].pack) /\ Played(archive'[n].previous)
    <3>1. \/ archive'[n] = archive[n]
          \/ archive'[n] = [archive[n] EXCEPT !.state = "torn"]
      BY <1>0, <1>13 DEF JvmWrites
    <3>2. QED
      BY <1>0, <3>1 DEF File
  <2>3. QED
    BY <1>2, <1>13, <2>1, <2>2
<1>14. CASE Autosave \/ JvmEnds \/ Stop
  BY <1>2, <1>13, <1>14 DEF Autosave, JvmEnds, Stop, JvmGone, jvm
<1>15. CASE Start \/ StartUnanswered \/ Refresh
  BY <1>1, <1>2, <1>15 DEF Start, StartUnanswered, Refresh, JvmBoots, disk, shelf, jvm
<1>16. ASSUME RequestFrame, archive' = archive PROVE ClockInv'
  BY <1>1, <1>16 DEF RequestFrame, disk, jvm
<1>17. ASSUME NEW d \in Deleter, DeleteFile(d) PROVE ClockInv'
  <2>1. RequestFrame /\ \A n \in Job : archive'[n] = archive[n] \/ archive'[n] = NoFile
    BY <1>0, <1>17, DeleteFileLeaves
  <2>2. \A n \in Job : Played(archive'[n].pack) /\ Played(archive'[n].previous)
    BY <1>a, <1>e, <2>1
  <2>3. QED
    BY <1>2, <2>1, <2>2 DEF RequestFrame, disk, jvm
<1>18. CASE UNCHANGED vars
  BY <1>1, <1>18 DEF vars, disk, shelf, jvm
<1>19. QED
  BY <1>3, <1>4, <1>5, <1>6, <1>7, <1>8, <1>9, <1>10, <1>11, <1>12, <1>14, <1>15, <1>16, <1>17, <1>18,
     CancelLeaves, BeginDeleteLeaves, DeleteRowLeaves
     DEF Next, Requests, OperationStep, JobStep, Machine, shelf

\* The archive of job n has everything that was played before n was asked for.
Had(n) == archive[n].pack.world >= asOf[n]

\* The running job, unless the stored status hid a JVM that ran: while its files
\* are not read yet, the game has what it is to hold; the flush brings it to the
\* disk and stops autosaving; an archive that a write of the JVM tore is one
\* whose save-on will find nobody to answer.
FaithInv ==
  act.pc \in Archiving \cup {"rs_validate"} /\ job.n \notin blind =>
    /\ ~act.live => ~running
    /\ act.pc \in {"rs_validate", "ar_check", "ar_flush"} =>
         IF running THEN mem >= asOf[job.n] ELSE act.live \/ pack.world >= asOf[job.n]
    /\ act.pc \in {"ar_archive", "ar_record"} \/ (act.pc = "ar_resume" /\ act.err = "none") =>
         Had(job.n)
    /\ act.pc = "ar_archive" \/ (act.pc = "ar_resume" /\ act.err = "none") =>
         (archive[job.n].state = "torn" => act.live /\ ~running)
    /\ act.pc = "ar_archive" /\ running => ~autosave
    /\ act.pc = "ar_record" => archive[job.n].state = "whole"

LEMMA FaithStep ==
  IInv /\ BookInv /\ OwnInv /\ ShelfInv /\ ClockInv /\ FaithInv /\ [Next]_vars => FaithInv'
<1> SUFFICES ASSUME IInv, BookInv, OwnInv, ShelfInv, ClockInv, FaithInv, [Next]_vars,
                    act'.pc \in Archiving \cup {"rs_validate"}, job'.n \notin blind'
             PROVE  FaithInv'
  BY DEF FaithInv
<1>0. /\ archive \in [Job -> File] /\ pack \in Directory /\ job.n \in Nat
      /\ mem \in Nat /\ clock \in Nat /\ asOf \in [Job -> World] /\ running \in BOOLEAN
      /\ act.pc \in JobLabels => job.n \in Job
  BY DEF IInv, TypeOK, ShelfTypeOK, DiskTypeOK, JobTypeOK, JvmTypeOK, RestTypeOK, World
<1>a. \A d \in Directory : d.world \in Nat
  BY DEF Directory, World
<1>b. Archiving \cup {"rs_validate"} \subseteq JobLabels
  BY DEF Archiving, JobLabels
<1>1. CASE CreateSnapshot \/ \E n \in Job : Restore(n)
  <2>1. Asks
    BY <1>1, AskLands
  <2>2. /\ job'.n = job.n + 1 /\ act'.pc \in {"ar_check", "rs_validate"}
        /\ act'.live = (status = "live") /\ UNCHANGED <<running, mem, pack>>
    BY <2>1 DEF Asks, jvm, disk
  <2>3. /\ running => act'.live
        /\ asOf'[job'.n] = IF running THEN mem ELSE pack.world
    BY <2>1, <2>2, AskNotes
  <2>4. pack.world \in Nat
    BY <1>0, <1>a
  <2>5. QED
    BY <1>0, <2>2, <2>3, <2>4 DEF FaithInv
<1>2. CASE JobStep
  <2>1. JobFrame /\ job.n \in Job /\ act'.live = act.live /\ UNCHANGED <<asOf, blind, running, mem>>
        /\ job'.n = job.n /\ job.n \notin blind
    BY <1>0, <1>2, <1>b, JobSteps DEF JobFrame, Archiving
  <2>2. CASE CheckFiles \/ Validate
    <3>1. /\ act.pc \in {"ar_check", "rs_validate"} /\ act'.pc \in {"ar_check", "ar_flush"}
          /\ UNCHANGED <<pack, archive, autosave>>
      BY <2>2, CheckLands, ValidateLands DEF Archiving
    <3>2. QED
      BY <2>1, <3>1 DEF FaithInv, Archiving
  <2>3. CASE Flush
    <3>1. act.pc = "ar_flush"
      BY <2>3, FlushLands
    <3>2. /\ ~act.live => ~running
          /\ IF running THEN mem >= asOf[job.n] ELSE act.live \/ pack.world >= asOf[job.n]
      BY <2>1, <3>1 DEF FaithInv, Archiving
    <3>3. CASE act'.pc = "ar_resume" /\ act'.err # "none"
      BY <2>1, <3>2, <3>3 DEF FaithInv
    <3>4. CASE /\ act'.pc = "ar_archive"
               /\ archive' = [archive EXCEPT ![job.n] =
                                [state |-> "partial", pack |-> pack', previous |-> previous]]
               /\ act.live => running /\ ~autosave' /\ pack' = [pack EXCEPT !.world = mem]
      <4>1. archive'[job.n].state = "partial" /\ archive'[job.n].pack = pack'
        BY <1>0, <2>1, <3>4
      <4>2. CASE act.live
        <5>1. pack'.world = mem /\ mem >= asOf[job.n] /\ ~autosave'
          BY <1>0, <3>2, <3>4, <4>2 DEF Directory
        <5>2. QED
          BY <2>1, <3>2, <3>4, <4>1, <5>1 DEF FaithInv, Had
      <4>3. CASE ~act.live
        <5>1. ~running /\ pack' = pack
          BY <2>3, <3>2, <4>3, FlushLands
        <5>2. QED
          BY <2>1, <3>2, <3>4, <4>1, <4>3, <5>1 DEF FaithInv, Had
      <4>4. QED
        BY <4>2, <4>3
    <3>5. QED
      BY <2>3, <3>3, <3>4, FlushLands
  <2>4. CASE WriteArchive
    <3>1. act.pc = "ar_archive" /\ act'.pc = "ar_resume" /\ UNCHANGED <<pack, autosave>>
      BY <2>4, WriteLands
    <3>2. /\ Had(job.n) /\ ~act.live => ~running
          /\ archive[job.n].state = "torn" => act.live /\ ~running
      BY <2>1, <3>1 DEF FaithInv, Archiving
    <3>3. CASE archive' = archive
      BY <2>1, <3>1, <3>2, <3>3 DEF FaithInv, Archiving, Had
    <3>4. CASE archive' = [archive EXCEPT ![job.n].state = "whole"]
      <4>1. archive'[job.n].state = "whole" /\ archive'[job.n].pack = archive[job.n].pack
        BY <1>0, <2>1, <3>4 DEF File
      <4>2. QED
        BY <2>1, <3>1, <3>2, <4>1 DEF FaithInv, Archiving, Had
    <3>5. QED
      BY <2>4, <3>3, <3>4, WriteLands
  <2>5. CASE Resume
    <3>1. act.pc = "ar_resume" /\ UNCHANGED <<pack, archive>>
      BY <2>5, ResumeLands
    <3>2. ~act.live => ~running
      BY <2>1, <3>1 DEF FaithInv, Archiving
    <3>3. CASE act'.pc = "ar_remove"
      BY <2>1, <3>2, <3>3 DEF FaithInv
    <3>4. CASE act'.pc = "ar_record" /\ act'.err = "none" /\ act.err = "none"
      <4>1. act.live => running
        BY <2>5, <3>4, ResumeLands
      <4>2. Had(job.n) /\ archive[job.n].state = "whole"
        BY <2>1, <3>1, <3>4, <4>1 DEF FaithInv, Archiving, ShelfInv
      <4>3. QED
        BY <2>1, <3>1, <3>2, <3>4, <4>2 DEF FaithInv, Had
    <3>5. QED
      BY <2>5, <3>3, <3>4, ResumeLands
  <2>6. CASE Record
    <3>1. act.pc = "ar_record" /\ act'.pc = "ar_remove"
      BY <2>6, RecordLands DEF Archiving
    <3>2. QED
      BY <2>1, <3>1 DEF FaithInv, Archiving
  <2>7. QED
    BY <1>2, <2>2, <2>3, <2>4, <2>5, <2>6, RemoveLands, ReplaceLands, ClearLands, ExtractLands, RepairLands
       DEF JobStep, Archiving
<1>3. CASE Crash
  BY <1>3, CrashLands DEF Archiving
<1>4. CASE Prepare \/ RebuildStep
  BY <1>4, RebuildLands DEF RebuildLabels, Archiving
<1>5. ASSUME job'.n = job.n, act' = act, UNCHANGED <<asOf, blind, running, autosave, mem, pack>>,
             archive'[job.n] = archive[job.n]
      PROVE  FaithInv'
  BY <1>5 DEF FaithInv, Had
<1>6. ASSUME RequestFrame, act.pc \in JobLabels => archive'[job.n] = archive[job.n] PROVE FaithInv'
  <2>1. act' = act /\ act.pc \in JobLabels
    BY <1>6, <1>b DEF RequestFrame
  <2>2. QED
    BY <1>5, <1>6, <2>1 DEF RequestFrame, disk, jvm
<1>7. ASSUME NEW d \in Deleter, DeleteFile(d) PROVE FaithInv'
  <2>1. deleting[d].pc # "idle" /\ RequestFrame
        /\ (archive' = archive \/ archive' = [archive EXCEPT ![deleting[d].target] = NoFile])
    BY <1>7, DeleteFileLeaves
  <2>2. act.pc \in JobLabels => deleting[d].target # job.n
    BY <2>1 DEF OwnInv, BookInv
  <2>3. QED
    BY <1>0, <1>6, <2>1, <2>2
<1>8. CASE Machine
  <2>1. act' = act /\ job' = job /\ UNCHANGED <<asOf, blind>> /\ act.pc \in JobLabels /\ job.n \in Job
        /\ act.pc # "idle"
    BY <1>0, <1>8, <1>b DEF Machine, Play, Autosave, JvmEnds, Start, StartUnanswered, Stop, Refresh,
       JvmBoots, history, JobLabels
  <2>2. ~Idle
    BY <2>1 DEF Idle
  <2>3. CASE Play
    <3>1. /\ running /\ running' = running /\ mem' = clock + 1 /\ UNCHANGED <<pack, archive, autosave>>
      BY <2>3 DEF Play, disk, shelf
    <3>2. mem' >= mem
      BY <1>0, <3>1 DEF ClockInv
    <3>3. asOf[job.n] \in Nat
      BY <1>0, <2>1 DEF World
    <3>4. QED
      BY <1>0, <2>1, <3>1, <3>2, <3>3 DEF FaithInv, Had
  <2>4. CASE Autosave
    <3>1. /\ running /\ autosave /\ UNCHANGED <<running, autosave, mem>>
      BY <2>4 DEF Autosave, jvm
    <3>2. act.pc # "ar_archive"
      BY <2>1, <3>1 DEF FaithInv, Archiving
    <3>3. archive' = archive
      BY <2>4, <3>2 DEF Autosave, JvmWrites, At
    <3>4. QED
      BY <2>1, <3>1, <3>3 DEF FaithInv, Had
  <2>5. CASE JvmEnds
    <3>1. running /\ ~running'
      BY <2>5 DEF JvmEnds, JvmGone
    <3>2. act.live
      BY <2>1, <3>1 DEF FaithInv
    <3>3. archive'[job.n].pack = archive[job.n].pack
          /\ (act.pc # "ar_archive" => archive' = archive)
      BY <1>0, <2>1, <2>5 DEF JvmEnds, JvmWrites, At, File
    <3>4. QED
      BY <2>1, <3>1, <3>2, <3>3 DEF FaithInv, Had
  <2>6. QED
    BY <1>8, <2>2, <2>3, <2>4, <2>5 DEF Machine, Start, StartUnanswered, Stop, Refresh
<1>9. CASE UNCHANGED vars
  BY <1>5, <1>9 DEF vars, disk, shelf, jvm, history
<1>10. QED
  BY <1>1, <1>2, <1>3, <1>4, <1>6, <1>7, <1>8, <1>9, CancelLeaves, BeginDeleteLeaves, DeleteRowLeaves
     DEF Next, Requests, OperationStep, shelf

\* A save-off still in effect is the work of a JVM that runs, and of a job that
\* has sent it and has not been reported as done or cancelled.
PauseInv ==
  /\ pausedBy # 0 => running
  /\ pausedBy <= job.n
  /\ act.pc \in {"rs_validate", "ar_check", "ar_flush"} => pausedBy # job.n
  /\ (act.pc = "ar_record" \/ (act.pc = "ar_remove" /\ act.err = "cancelled")) /\ job.n \notin blind =>
       pausedBy # job.n

LEMMA PauseStep ==
  IInv /\ BookInv /\ FaithInv /\ PauseInv /\ [Next]_vars => PauseInv'
<1> SUFFICES ASSUME IInv, BookInv, FaithInv, PauseInv, [Next]_vars PROVE PauseInv'
  OBVIOUS
<1>0. /\ job.n \in Nat /\ pausedBy \in Nat /\ running \in BOOLEAN
      /\ act.pc \in JobLabels => job.n \in Job /\ job.n # 0
  BY BoundAssumption DEF IInv, TypeOK, JobTypeOK, JvmTypeOK, Job
<1> USE DEF PauseInv
<1>1. CASE CreateSnapshot \/ \E n \in Job : Restore(n)
  <2>1. Asks
    BY <1>1, AskLands
  <2>2. pausedBy' = pausedBy /\ running' = running /\ job'.n = job.n + 1
        /\ act'.pc \in {"ar_check", "rs_validate"}
    BY <2>1 DEF Asks, jvm
  <2>3. QED
    BY <1>0, <2>2
<1>2. CASE JobStep
  <2>1. JobFrame /\ act.pc \in JobLabels /\ job.n # 0 /\ act'.pc \in JobLabels \cup {"idle"}
    BY <1>0, <1>2, JobSteps
  <2>2. UNCHANGED <<running, blind>> /\ job'.n = job.n
    BY <2>1 DEF JobFrame
  <2>3. CASE CheckFiles \/ Validate
    BY <2>2, <2>3, CheckLands, ValidateLands
  <2>4. CASE Flush
    <3>1. act'.pc \in {"ar_archive", "ar_resume"} /\ pausedBy' \in {pausedBy, job.n}
          /\ (pausedBy' # pausedBy => running)
      BY <2>4, FlushLands
    <3>2. QED
      BY <1>0, <2>2, <3>1
  <2>5. CASE WriteArchive
    BY <2>2, <2>5, WriteLands
  <2>6. CASE Resume
    <3>1. /\ act.pc = "ar_resume" /\ pausedBy' \in {pausedBy, 0} /\ act'.pc \in {"ar_remove", "ar_record"}
          /\ act.live /\ act'.err \in {"none", "cancelled"} => running /\ pausedBy' = 0
          /\ act'.pc = "ar_record" => act'.err = "none"
      BY <2>6, ResumeLands
    <3>2. job.n \notin blind /\ ~act.live => pausedBy' = 0
      BY <3>1 DEF FaithInv, Archiving
    <3>3. QED
      BY <1>0, <2>1, <2>2, <3>1, <3>2
  <2>7. CASE Record
    BY <2>2, <2>7, RecordLands
  <2>8. CASE RemovePartial \/ BeginReplacing \/ Clear \/ Extract \/ RepairPermissions
    BY <2>2, <2>8, RemoveLands, ReplaceLands, ClearLands, ExtractLands, RepairLands
  <2>9. QED
    BY <1>2, <2>3, <2>4, <2>5, <2>6, <2>7, <2>8 DEF JobStep
<1>3. CASE Crash
  BY <1>3, CrashLands DEF jvm
<1>4. CASE Prepare \/ RebuildStep
  BY <1>4, RebuildLands DEF quiet, jvm, RebuildLabels
<1>5. ASSUME job'.n = job.n, act' = act, UNCHANGED <<blind, running, pausedBy>> PROVE PauseInv'
  BY <1>5
<1>6. ASSUME RequestFrame PROVE PauseInv'
  BY <1>5, <1>6 DEF RequestFrame, jvm
<1>7. CASE Machine
  <2>1. act' = act /\ job' = job /\ UNCHANGED blind
    BY <1>7 DEF Machine, Play, Autosave, JvmEnds, Start, StartUnanswered, Stop, Refresh, JvmBoots, history
  <2>2. CASE JvmEnds \/ Stop
    <3>1. pausedBy' = 0
      BY <2>2 DEF JvmEnds, Stop, JvmGone
    <3>2. QED
      BY <1>0, <2>1, <3>1 DEF JobLabels
  <2>3. CASE Start \/ StartUnanswered
    <3>1. ~running /\ pausedBy' = pausedBy
      BY <2>3 DEF Start, StartUnanswered, JvmBoots
    <3>2. QED
      BY <1>0, <2>1, <3>1
  <2>4. CASE Play \/ Autosave \/ Refresh
    BY <1>5, <2>1, <2>4 DEF Play, Autosave, Refresh, jvm
  <2>5. QED
    BY <1>7, <2>2, <2>3, <2>4 DEF Machine
<1>8. CASE UNCHANGED vars
  BY <1>5, <1>8 DEF vars, jvm, history
<1>9. QED
  BY <1>1, <1>2, <1>3, <1>4, <1>6, <1>7, <1>8, CancelLeaves, BeginDeleteLeaves, DeleteFileLeaves,
     DeleteRowLeaves DEF Next, Requests, OperationStep

LEMMA HonestStep ==
  IInv /\ BookInv /\ OwnInv /\ FaithInv /\ SnapshotsHonest /\ [Next]_vars => SnapshotsHonest'
<1> SUFFICES ASSUME IInv, BookInv, OwnInv, FaithInv, SnapshotsHonest, [Next]_vars,
                    NEW n \in recorded', n \notin blind'
             PROVE  \/ archive'[n].state = "none" /\ n \in removed'
                    \/ archive'[n].state = "whole" /\ archive'[n].pack.world >= asOf'[n]
  BY DEF SnapshotsHonest
<1>1. CASE n \in recorded
  <2>1. n \notin blind /\ asOf'[n] = asOf[n] /\ (n \in removed => n \in removed')
    <3>1. CASE CreateSnapshot \/ \E m \in Job : Restore(m)
      BY <1>1, <3>1, AskLands, AskNotes
    <3>2. CASE ~(CreateSnapshot \/ \E m \in Job : Restore(m))
      BY <1>1, <3>2, NotesStay, RemovedStays
    <3>3. QED
      BY <3>1, <3>2
  <2>2. archive'[n] = archive[n] \/ (archive'[n].state = "none" /\ n \in removed')
    BY <1>1, ArchiveStays
  <2>3. QED
    BY <1>1, <2>1, <2>2 DEF SnapshotsHonest
<1>2. CASE n \notin recorded
  <2>1. Record /\ n = job.n
    BY <1>2, RecordedGrows
  <2>2. act.pc = "ar_record" /\ JobFrame /\ archive' = archive
    BY <2>1, RecordLands
  <2>3. Had(job.n) /\ archive[job.n].state = "whole"
    BY <2>1, <2>2 DEF FaithInv, JobFrame, Archiving
  <2>4. QED
    BY <2>1, <2>2, <2>3 DEF Had, JobFrame
<1>3. QED
  BY <1>1, <1>2

LEMMA ResumedStep ==
  IInv /\ BookInv /\ RunInv /\ FaithInv /\ PauseInv /\ SavingResumed /\ [Next]_vars => SavingResumed'
<1> SUFFICES ASSUME IInv, BookInv, RunInv, FaithInv, PauseInv, SavingResumed, [Next]_vars,
                    pausedBy' # 0, pausedBy' = job'.n, job'.n \notin blind'
             PROVE  job'.status \in {"running", "failed"}
  BY DEF SavingResumed
<1>0. job.n \in Nat /\ pausedBy \in Nat /\ (act.pc \in JobLabels => job.n \in Job)
  BY DEF IInv, TypeOK, JobTypeOK, JvmTypeOK, Job
<1>1. CASE CreateSnapshot \/ \E n \in Job : Restore(n)
  BY <1>1, AskLands DEF Asks
<1>2. CASE JobStep
  <2>1. JobFrame /\ job.status = "running" /\ act.pc \in JobLabels
    BY <1>2, JobSteps DEF BookInv
  <2>2. UNCHANGED <<running, blind>> /\ job'.n = job.n
    BY <2>1 DEF JobFrame
  <2>3. CASE CheckFiles
    <3>1. act.pc = "ar_check" /\ pausedBy' = pausedBy
      BY <2>3, CheckLands
    <3>2. QED
      BY <2>2, <3>1 DEF PauseInv
  <2>4. CASE Flush \/ WriteArchive \/ Resume
    BY <2>1, <2>4, FlushLands, WriteLands, ResumeLands
  <2>5. CASE Record
    <3>1. act.pc = "ar_record" /\ pausedBy' = pausedBy
      BY <2>5, RecordLands
    <3>2. QED
      BY <2>2, <3>1 DEF PauseInv
  <2>6. CASE RemovePartial
    <3>1. act.pc = "ar_remove" /\ pausedBy' = pausedBy
          /\ (job'.status = "failed" \/ act.err = "cancelled")
      BY <2>6, RemoveLands
    <3>2. QED
      BY <2>2, <3>1 DEF PauseInv
  <2>7. CASE Validate \/ BeginReplacing \/ Clear \/ Extract \/ RepairPermissions
    <3>1. act.pc \in RestoreLabels /\ pausedBy' = pausedBy
      BY <2>7, ValidateLands, ReplaceLands, ClearLands, ExtractLands, RepairLands DEF RestoreLabels
    <3>2. job.operation = "restore"
      BY <3>1 DEF IInv, Aimed
    <3>3. ~running
      BY <2>1, <3>2 DEF RunInv
    <3>4. QED
      BY <3>1, <3>3 DEF PauseInv
  <2>8. QED
    BY <1>2, <2>3, <2>4, <2>5, <2>6, <2>7 DEF JobStep
<1>3. ASSUME job'.n = job.n, job'.status \in {"failed", job.status}, UNCHANGED <<blind, pausedBy>>
      PROVE  job'.status \in {"running", "failed"}
  BY <1>3 DEF SavingResumed
<1>4. CASE Crash
  BY <1>3, <1>4, CrashLands DEF history, jvm
<1>5. CASE Prepare \/ RebuildStep
  BY <1>3, <1>5, RebuildLands DEF quiet, jvm, history
<1>6. CASE RequestFrame
  BY <1>3, <1>6 DEF RequestFrame, jvm
<1>7. CASE Machine
  <2>1. job' = job /\ UNCHANGED blind /\ pausedBy' \in {pausedBy, 0}
    BY <1>7 DEF Machine, Play, Autosave, JvmEnds, JvmGone, Start, StartUnanswered, Stop, Refresh,
       JvmBoots, history, jvm
  <2>2. QED
    BY <1>3, <2>1
<1>8. CASE UNCHANGED vars
  BY <1>3, <1>8 DEF vars, jvm, history
<1>9. QED
  BY <1>1, <1>2, <1>4, <1>5, <1>6, <1>7, <1>8, CancelLeaves, BeginDeleteLeaves, DeleteFileLeaves,
     DeleteRowLeaves DEF Next, Requests, OperationStep

HonestInv ==
  RunInv /\ OwnInv /\ ShelfInv /\ ClockInv /\ FaithInv /\ PauseInv /\ SnapshotsHonest /\ SavingResumed

\* A snapshot in the list holds, read at one moment, everything that was played
\* before it was asked for, and one that left autosaving off is not reported as
\* done or cancelled, unless the stored status hid that the server ran.
THEOREM SnapshotsKept == Spec => []SnapshotsKeepFaith
<1>1. Init => IInv /\ BookInv /\ HonestInv
  <2> SUFFICES ASSUME Init PROVE HonestInv
    BY InitPromises
  <2>1. RunInv /\ OwnInv /\ ShelfInv
    BY InitWorld DEF WorldInv
  <2>2. /\ act.pc = "idle" /\ job.n = 0 /\ ~running /\ recorded = {} /\ pausedBy = 0 /\ mem = 0
        /\ clock = 1 /\ pack.world = 1 /\ previous.world = 0 /\ staging.world = 0
        /\ \A n \in Job : archive[n].pack.world = 0 /\ archive[n].previous.world = 0
    BY DEF Init, IdleAct, NoJob, NoDir, NoFile
  <2>3. QED
    BY <2>1, <2>2
       DEF HonestInv, ClockInv, Played, FaithInv, PauseInv, SnapshotsHonest, SavingResumed, Archiving
<1>2. IInv /\ BookInv /\ HonestInv /\ [Next]_vars => (IInv /\ BookInv /\ HonestInv)'
  BY NextType, BookStep, RunStep, OwnStep, ShelfStep, ClockStep, FaithStep, PauseStep, HonestStep,
     ResumedStep DEF HonestInv
<1>3. HonestInv => SnapshotsKeepFaith
  BY DEF HonestInv, SnapshotsKeepFaith
<1>4. QED
  BY <1>1, <1>2, <1>3, PTL DEF Spec

=============================================================================
