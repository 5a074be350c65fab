---------------------------- MODULE SnapshotJobs ----------------------------
(***************************************************************************)
(* Snapshots, restores, their cancellation and deletion:                   *)
(* src/backend/src/services/snapshotService.ts, snapshotJobStore.ts and    *)
(* the snapshot routes.  Each action ends at the await of a call that      *)
(* touches the disk, Docker or RCON.  The abort signal of a job and its    *)
(* cancelRequested column change together, so job.cancel is both.          *)
(***************************************************************************)
EXTENDS ServerDisk

self == job.n

NewJob(operation, target) ==
  [NoJob EXCEPT !.n = job.n + 1, !.operation = operation, !.status = "running",
                !.target = target,
                !.phase = IF operation = "restore" THEN "validating" ELSE "checking-files"]

\* History: what is so when a job is asked for.  What earlier jobs left that
\* is not in the list any more is forgotten, but for the source of a restore
\* that is not made good.
JobAsked ==
  /\ asOf' = [n \in Job |-> IF n = job.n + 1 THEN (IF running THEN mem ELSE pack.world)
                            ELSE IF n \in recorded THEN asOf[n] ELSE 0]
  /\ blind' = (blind \cap recorded) \cup
              (IF running /\ status # "live" THEN {job.n + 1} ELSE {})
  /\ removed' = removed \cap (recorded \cup {source})
  /\ asked' = FALSE

Phase(p) == job' = [job EXCEPT !.phase = p]

\* What the catch block of restoreSnapshot tells, from replacingData on.
RestoreMessage ==
  IF act.pc \notin {"rs_clear", "rs_extract", "rs_permissions"} THEN "untouched"
  ELSE IF job.safety = 0 THEN "partial" ELSE "partial, safety kept"

\* As it would be if a failed job took the status word of a server.
JobFailsAsError(e) == job' = [job EXCEPT !.status = "error"] /\ act' = IdleAct

\* finishSnapshotJob after an error, and the lock handed back.
JobFails(e) ==
  /\ job' = [job EXCEPT
       !.status  = IF e = "cancelled" THEN "cancelled" ELSE "failed",
       !.message = IF job.operation = "restore" THEN RestoreMessage
                   ELSE IF e = "cancelled" THEN "none" ELSE e]
  /\ act' = IdleAct

JobCompletes ==
  /\ job' = [job EXCEPT !.status = "completed"]
  /\ act' = IdleAct

-----------------------------------------------------------------------------
(* archiveSnapshot: for a snapshot, and for the safety backup of a restore *)

\* POST /:id/snapshots
CreateSnapshot ==
  /\ Idle /\ job.status # "running" /\ job.n < MaxJob
  /\ job' = NewJob("create", 0)
  /\ act' = [IdleAct EXCEPT !.pc = "ar_check", !.live = (status = "live")]
  /\ JobAsked
  /\ UNCHANGED <<disk, shelf, status, jvm, deleting, saved, touchedBy, source>>

\* The files are listed and validated before anything else happens.
CheckFiles ==
  /\ At("ar_check")
  /\ \/ ~job.cancel /\ Go("ar_flush") /\ UNCHANGED job
     \/ job.cancel /\ JobFails("cancelled")
     \/ Faulty /\ JobFails("failed")
  /\ UNCHANGED <<disk, shelf, status, jvm, deleting, history, asked, removed>>

\* As it would be if a live server's missing answer were taken for a flush.
FlushUnconfirmed ==
  /\ At("ar_flush")
  /\ \E off, flush, reply \in BOOLEAN, noted \in {TRUE, ~Faulty} :
       /\ (reply => flush) /\ (flush => off) /\ (off => running)
       /\ autosave' = (autosave /\ ~off)
       /\ pausedBy' = IF off THEN self ELSE pausedBy
       /\ pack' = IF flush THEN [pack EXCEPT !.world = mem] ELSE pack
       /\ saved' = IF flush THEN mem ELSE saved
       /\ LET e == IF job.cancel THEN "cancelled"
                   ELSE IF ~noted THEN "failed" ELSE "none"
          IN /\ act' = [act EXCEPT !.pc = IF e = "none" THEN "ar_archive" ELSE "ar_resume",
                                   !.err = e, !.flushed = reply]
             /\ archive' = IF e = "none"
                           THEN [archive EXCEPT ![self] =
                                   [state |-> "partial", pack |-> pack', previous |-> previous]]
                           ELSE archive
  /\ UNCHANGED <<previous, staging, recorded, job, status, running, mem, clock,
                 deleting, asOf, touchedBy, source, blind, asked, removed>>

\* ['save-off', 'save-all flush'] over RCON: any prefix may have been executed
\* when the connection or the clock cuts it short; without a JVM there is none.
Flush ==
  /\ At("ar_flush")
  /\ \E off, flush, reply \in BOOLEAN, noted \in {TRUE, ~Faulty} :
       /\ (reply => flush) /\ (flush => off) /\ (off => running)
       /\ autosave' = (autosave /\ ~off)
       /\ pausedBy' = IF off THEN self ELSE pausedBy
       /\ pack' = IF flush THEN [pack EXCEPT !.world = mem] ELSE pack
       /\ saved' = IF flush THEN mem ELSE saved
       /\ LET e == IF job.cancel THEN "cancelled"
                   ELSE IF (~reply /\ act.live) \/ ~noted THEN "failed" ELSE "none"
          IN /\ act' = [act EXCEPT !.pc = IF e = "none" THEN "ar_archive" ELSE "ar_resume",
                                   !.err = e, !.flushed = reply]
             /\ archive' = IF e = "none"
                           THEN [archive EXCEPT ![self] =
                                   [state |-> "partial", pack |-> pack', previous |-> previous]]
                           ELSE archive
  /\ UNCHANGED <<previous, staging, recorded, job, status, running, mem, clock,
                 deleting, asOf, touchedBy, source, blind, asked, removed>>

\* The archive worker ends: done, failed, or terminated by the abort signal.
WriteArchive ==
  /\ At("ar_archive")
  /\ \/ /\ ~job.cancel
        /\ archive' = IF archive[self].state = "partial"
                      THEN [archive EXCEPT ![self].state = "whole"] ELSE archive
        /\ act' = [act EXCEPT !.pc = "ar_resume"]
     \/ /\ job.cancel \/ Faulty
        /\ act' = [act EXCEPT !.pc = "ar_resume",
                              !.err = IF job.cancel THEN "cancelled" ELSE "failed"]
        /\ UNCHANGED archive
  /\ UNCHANGED <<disk, recorded, job, status, jvm, deleting, history, asked, removed>>

\* As it would be if only a confirmed flush called for a confirmed save-on.
ResumeIfFlushed ==
  /\ At("ar_resume")
  /\ \E on, reply \in BOOLEAN, noted \in {TRUE, ~Faulty} :
       /\ (reply => on) /\ (on => running)
       /\ autosave' = (autosave \/ on)
       /\ pausedBy' = IF on THEN 0 ELSE pausedBy
       /\ LET e == IF ~reply /\ act.flushed THEN "autosave off"
                   ELSE IF ~noted THEN "failed"
                   ELSE IF act.err = "none" /\ job.cancel THEN "cancelled"
                   ELSE act.err
          IN act' = [act EXCEPT !.pc = IF e = "none" THEN "ar_record" ELSE "ar_remove",
                                !.err = e]
  /\ UNCHANGED <<disk, shelf, job, status, running, mem, clock, deleting, history,
                 asked, removed>>

\* save-on is sent whatever happened before, even if noting the phase throws;
\* an error here hides an earlier one, never the reverse.
Resume ==
  /\ At("ar_resume")
  /\ \E on, reply \in BOOLEAN, noted \in {TRUE, ~Faulty} :
       /\ (reply => on) /\ (on => running)
       /\ autosave' = (autosave \/ on)
       /\ pausedBy' = IF on THEN 0 ELSE pausedBy
       /\ LET e == IF ~reply /\ (act.flushed \/ act.live) THEN "autosave off"
                   ELSE IF ~noted THEN "failed"
                   ELSE IF act.err = "none" /\ job.cancel THEN "cancelled"
                   ELSE act.err
          IN act' = [act EXCEPT !.pc = IF e = "none" THEN "ar_record" ELSE "ar_remove",
                                !.err = e]
  /\ UNCHANGED <<disk, shelf, job, status, running, mem, clock, deleting, history,
                 asked, removed>>

\* As it would be without the last look at the abort signal.
RecordUnasked ==
  /\ At("ar_record")
  /\ \/ /\ recorded' = recorded \cup {self}
        /\ IF job.operation = "create" THEN JobCompletes
           ELSE Go("rs_ready") /\ job' = [job EXCEPT !.safety = self]
     \/ /\ Faulty
        /\ act' = [act EXCEPT !.pc = "ar_remove", !.err = "failed"]
        /\ UNCHANGED <<recorded, job>>
  /\ UNCHANGED <<disk, archive, status, jvm, deleting, history, asked, removed>>

\* The archive's size is read, and the snapshot enters the list.
Record ==
  /\ At("ar_record")
  /\ \/ /\ ~job.cancel
        /\ recorded' = recorded \cup {self}
        /\ IF job.operation = "create" THEN JobCompletes
           ELSE Go("rs_ready") /\ job' = [job EXCEPT !.safety = self]
     \/ /\ job.cancel \/ Faulty
        /\ act' = [act EXCEPT !.pc = "ar_remove",
                              !.err = IF job.cancel THEN "cancelled" ELSE "failed"]
        /\ UNCHANGED <<recorded, job>>
  /\ UNCHANGED <<disk, archive, status, jvm, deleting, history, asked, removed>>

\* The archive that failed is removed; a failure to do so is the error then.
RemovePartial ==
  /\ At("ar_remove")
  /\ \/ archive' = [archive EXCEPT ![self] = NoFile] /\ JobFails(act.err)
     \/ Faulty /\ JobFails("failed") /\ UNCHANGED archive
  /\ UNCHANGED <<disk, recorded, status, jvm, deleting, history, asked, removed>>

-----------------------------------------------------------------------------
(* restoreSnapshot *)

\* POST /:id/snapshots/:snapshotId/restore, once Docker said the container is
\* at rest; nothing but an operation could start it, and this one runs.
Restore(n) ==
  /\ Idle /\ ~running /\ job.status # "running" /\ job.n < MaxJob
  /\ \E backup \in BOOLEAN :
       /\ job' = NewJob("restore", n)
       /\ act' = [IdleAct EXCEPT !.pc = "rs_validate", !.live = (status = "live"),
                                 !.backup = backup]
  /\ JobAsked
  /\ UNCHANGED <<disk, shelf, status, jvm, deleting, saved, touchedBy, source>>

\* The snapshot is looked up, and its archive read through once.
Validate ==
  /\ At("rs_validate")
  /\ \/ /\ job.target \in recorded /\ archive[job.target].state # "none"
        /\ IF act.backup THEN Go("ar_check") /\ Phase("backup")
                         ELSE Go("rs_ready") /\ UNCHANGED job
     \/ /\ Faulty \/ job.target \notin recorded \/ archive[job.target].state = "none"
        /\ JobFails("failed")
  /\ UNCHANGED <<disk, shelf, status, jvm, deleting, history, asked, removed>>

\* As it would be if the phase were noted only once the data is gone.
BeginReplacingUnnoted ==
  /\ At("rs_ready")
  /\ \/ /\ Go("rs_clear") /\ UNCHANGED job
        /\ touchedBy' = self /\ source' = job.target
        /\ saved' = archive[job.target].pack.world
     \/ Faulty /\ JobFails("failed") /\ UNCHANGED <<touchedBy, source, saved>>
  /\ UNCHANGED <<disk, shelf, status, jvm, deleting, asOf, blind, asked, removed>>

\* The last validation passes; from here on data is removed.
BeginReplacing ==
  /\ At("rs_ready")
  /\ \/ /\ Phase("clearing") /\ Go("rs_clear")
        /\ touchedBy' = self /\ source' = job.target
        /\ saved' = archive[job.target].pack.world
     \/ Faulty /\ JobFails("failed") /\ UNCHANGED <<touchedBy, source, saved>>
  /\ UNCHANGED <<disk, shelf, status, jvm, deleting, asOf, blind, asked, removed>>

\* Everything but snapshots/ goes, in parallel.
Clear ==
  /\ At("rs_clear")
  /\ \/ pack' = NoDir /\ previous' = NoDir /\ Phase("extracting") /\ Go("rs_extract")
     \/ Faulty /\ pack' \in Ruins(pack) /\ previous' \in Ruins(previous) /\ JobFails("failed")
  /\ UNCHANGED <<staging, shelf, status, jvm, deleting, history, asked, removed>>

Extract ==
  /\ At("rs_extract")
  /\ \/ /\ archive[job.target].state # "none"
        /\ pack' = archive[job.target].pack /\ previous' = archive[job.target].previous
        /\ Phase("permissions") /\ Go("rs_permissions")
     \/ /\ Faulty \/ archive[job.target].state = "none"
        /\ pack' \in {NoDir, PartDir} /\ UNCHANGED previous
        /\ JobFails("failed")
  /\ UNCHANGED <<staging, shelf, status, jvm, deleting, history, asked, removed>>

RepairPermissions ==
  /\ At("rs_permissions")
  /\ \/ JobCompletes /\ touchedBy' = 0 /\ source' = 0
     \/ Faulty /\ JobFails("failed") /\ UNCHANGED <<touchedBy, source>>
  /\ UNCHANGED <<disk, shelf, status, jvm, deleting, saved, asOf, blind, asked, removed>>

-----------------------------------------------------------------------------
(* Requests that take no lock *)

\* POST /:id/snapshots/job/cancel names the job its sender saw, and may come
\* late.  Only the running snapshot with that start time is cancelled.
Cancel(n) ==
  /\ n \in 1..job.n
  /\ asked' = (asked \/ n = job.n)
  /\ job' = IF job.n = n /\ job.operation = "create" /\ job.status = "running"
            THEN [job EXCEPT !.cancel = TRUE] ELSE job
  /\ UNCHANGED <<disk, shelf, status, jvm, act, deleting, history, removed>>

\* DELETE /:id/snapshots/:snapshotId looks at the lock without taking it.
BeginDelete(d, n) ==
  /\ deleting[d].pc = "idle"
  /\ Idle /\ job.status # "running" /\ n \in recorded
  /\ deleting' = [deleting EXCEPT ![d] = [pc |-> "file", target |-> n]]
  /\ UNCHANGED <<disk, shelf, job, status, jvm, act, history, asked, removed>>

\* The archive goes; a failure to remove it ends the request.
DeleteFile(d) ==
  /\ deleting[d].pc = "file"
  /\ \/ /\ archive' = [archive EXCEPT ![deleting[d].target] = NoFile]
        /\ removed' = removed \cup {deleting[d].target}
        /\ deleting' = [deleting EXCEPT ![d].pc = "row"]
     \/ /\ Faulty
        /\ deleting' = [deleting EXCEPT ![d] = [pc |-> "idle", target |-> 0]]
        /\ UNCHANGED <<archive, removed>>
  /\ UNCHANGED <<disk, recorded, job, status, jvm, act, history, asked>>

DeleteRow(d) ==
  /\ deleting[d].pc = "row"
  /\ recorded' = recorded \ {deleting[d].target}
  /\ deleting' = [deleting EXCEPT ![d] = [pc |-> "idle", target |-> 0]]
  /\ UNCHANGED <<disk, archive, job, status, jvm, act, history, asked, removed>>

JobStep ==
  \/ CheckFiles \/ Flush \/ WriteArchive \/ Resume \/ Record \/ RemovePartial
  \/ Validate \/ BeginReplacing \/ Clear \/ Extract \/ RepairPermissions

=============================================================================
