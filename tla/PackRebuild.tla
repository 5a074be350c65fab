---------------------------- MODULE PackRebuild ----------------------------
(***************************************************************************)
(* prepareServer of src/backend/src/services/prepareService.ts: a rebuild  *)
(* assembles the new pack in a staging directory, copies the worlds into   *)
(* it, moves the old pack aside, publishes the new one, recreates the      *)
(* container, and only then removes the old pack.  Each action ends at the *)
(* await of a call that touches the disk or Docker.                        *)
(***************************************************************************)
EXTENDS ServerDisk

quiet == <<shelf, job, status, jvm, deleting, history, asked, removed>>

\* The finally block: the staging directory goes, and the lock with it.
RebuildOver == staging' = NoDir /\ act' = IdleAct

\* The route wants both the stored and the current status to be at rest, and
\* prepareServer refuses while an earlier rebuild awaits recovery.
Prepare ==
  /\ Idle /\ status # "live" /\ ~running /\ previous = NoDir
  /\ staging' = PartDir /\ Go("pr_stage")
  /\ UNCHANGED <<pack, previous, quiet>>

\* The ZIP is extracted and configured, and the saved worlds are copied over it.
BuildStaging ==
  /\ At("pr_stage")
  /\ staging' = [files |-> "whole", world |-> pack.world]
  /\ Go("pr_move")
  /\ UNCHANGED <<pack, previous, quiet>>

MoveOld ==
  /\ At("pr_move")
  /\ IF pack = NoDir
     THEN Go("pr_publish") /\ UNCHANGED <<pack, previous>>
     ELSE /\ previous' = pack /\ pack' = NoDir
          /\ act' = [act EXCEPT !.pc = "pr_publish", !.moved = TRUE]
  /\ UNCHANGED <<staging, quiet>>

Publish ==
  /\ At("pr_publish")
  /\ pack' = staging /\ staging' = NoDir
  /\ act' = [act EXCEPT !.pc = "pr_container", !.published = TRUE]
  /\ UNCHANGED <<previous, quiet>>

\* createPreparedContainer
Recontain ==
  /\ At("pr_container")
  /\ IF act.moved THEN Go("pr_drop") /\ UNCHANGED staging ELSE RebuildOver
  /\ UNCHANGED <<pack, previous, quiet>>

\* A failure to remove the old pack is logged and leaves what it leaves.
DropOld ==
  /\ At("pr_drop")
  /\ \/ previous' = NoDir
     \/ Faulty /\ previous' \in Ruins(previous)
  /\ RebuildOver
  /\ UNCHANGED <<pack, quiet>>

\* One of the steps above fails: the catch block begins.
RebuildFails ==
  /\ Faulty /\ act.pc \in {"pr_stage", "pr_move", "pr_publish", "pr_container"}
  /\ Go("pr_undo")
  /\ UNCHANGED <<disk, quiet>>

\* As it would be if the catch block removed the pack whether published or not.
UnpublishAlways ==
  /\ At("pr_undo")
  /\ pack' = NoDir /\ Go("pr_back")
  /\ UNCHANGED <<staging, previous, quiet>>

\* The published pack is removed; if that fails the old one stays aside.
Unpublish ==
  /\ At("pr_undo")
  /\ \/ /\ pack' = IF act.published THEN NoDir ELSE pack
        /\ Go("pr_back") /\ UNCHANGED staging
     \/ /\ Faulty /\ act.published /\ pack' \in Ruins(pack)
        /\ RebuildOver
  /\ UNCHANGED <<previous, quiet>>

\* The old pack is moved back, if it had been moved.
MoveBack ==
  /\ At("pr_back")
  /\ \/ IF act.moved
        THEN pack' = previous /\ previous' = NoDir
        ELSE UNCHANGED <<pack, previous>>
     \/ Faulty /\ act.moved /\ UNCHANGED <<pack, previous>>
  /\ RebuildOver
  /\ UNCHANGED quiet

RebuildStep ==
  \/ BuildStaging \/ MoveOld \/ Publish \/ Recontain \/ DropOld
  \/ RebuildFails \/ Unpublish \/ MoveBack

=============================================================================
