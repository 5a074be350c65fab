----------------------------- MODULE ServerDisk -----------------------------
(***************************************************************************)
(* What one server keeps on disk and in its JVM, and the job row SQLite    *)
(* keeps about its snapshots.  The data directory holds pack/, while a     *)
(* rebuild publishes also .pack-before-rebuild and a .rebuild-* staging    *)
(* directory, and snapshots/ with one archive per snapshot.  PackRebuild   *)
(* and SnapshotJobs hold the operations; ServerData composes them.         *)
(*                                                                         *)
(* A world is a number: 0 is no world, or the one a pack ships with; each  *)
(* stretch of play produces a larger one.  Panel checks that at most one   *)
(* operation holds lifecycleBusy, so one `act` is enough here.             *)
(***************************************************************************)
EXTENDS Naturals, FiniteSets

CONSTANTS
  Deleter,   \* DELETE /:id/snapshots/:snapshotId requests
  MaxJob,    \* bound: snapshot and restore jobs begun
  MaxWorld,  \* bound: stretches of play
  Faulty     \* whether a file, SQLite or Docker call may fail

ASSUME BoundAssumption  == MaxJob \in Nat \ {0} /\ MaxWorld \in Nat \ {0}
ASSUME SwitchAssumption == Faulty \in BOOLEAN

VARIABLES
  pack,      \* servers/<id>/pack
  previous,  \* servers/<id>/.pack-before-rebuild
  staging,   \* servers/<id>/.rebuild-*, of the rebuild that runs
  archive,   \* [Job -> File]: the archive each job wrote
  recorded,  \* the snapshots table: jobs whose archive is listed
  job,       \* the snapshot_jobs row
  status,    \* the stored status: "live" stands for running, starting, restarting, stopping
  running,   \* whether the JVM runs
  autosave,  \* whether the JVM writes its world by itself
  mem,       \* the world in the JVM's memory
  act,       \* the operation that holds lifecycleBusy: where it is, what it carries
  deleting,  \* [Deleter -> where the request is, and its snapshot]
  clock,     \* history: the last world played
  saved,     \* history: the world the server is meant to hold
  asOf,      \* history: [Job -> the world the server held when the job was asked for]
  touchedBy, \* history: the restore whose removal of data is not made good yet, or 0
  source,    \* history: the snapshot that restore takes its data from, or 0
  blind,     \* history: jobs begun while the JVM ran and the stored status said otherwise
  pausedBy,  \* history: the job whose save-off is still in effect, or 0
  asked,     \* history: whether somebody asked to cancel the job of the row
  removed    \* history: jobs whose archive a DELETE request took away

disk    == <<pack, previous, staging>>
shelf   == <<archive, recorded>>
jvm     == <<running, autosave, mem, clock, pausedBy>>
history == <<saved, asOf, touchedBy, source, blind>>
vars    == <<disk, shelf, job, status, jvm, act, deleting, history, asked, removed>>

Job   == 1..MaxJob
World == 0..MaxWorld

Directory == [files: {"none", "part", "whole"}, world: World]
NoDir     == [files |-> "none", world |-> 0]
PartDir   == [files |-> "part", world |-> 0]

\* What a recursive removal that did not run to its end may leave of d.
Ruins(d) == {d, NoDir} \cup (IF d = NoDir THEN {} ELSE {PartDir})

File   == [state: {"none", "partial", "torn", "whole"}, pack: Directory, previous: Directory]
NoFile == [state |-> "none", pack |-> NoDir, previous |-> NoDir]

NoJob == [n |-> 0, operation |-> "create", status |-> "none", phase |-> "none",
          target |-> 0, safety |-> 0, cancel |-> FALSE, message |-> "none"]

IdleAct == [pc |-> "idle", err |-> "none", live |-> FALSE, flushed |-> FALSE,
            backup |-> FALSE, moved |-> FALSE, published |-> FALSE]

Idle    == act.pc = "idle"
Go(l)   == act' = [act EXCEPT !.pc = l]
At(l)   == act.pc = l

Init ==
  /\ pack = [files |-> "whole", world |-> 1]   \* bound: prepared and played before
  /\ previous = NoDir /\ staging = NoDir
  /\ archive = [n \in Job |-> NoFile] /\ recorded = {}
  /\ job = NoJob /\ status = "down"
  /\ running = FALSE /\ autosave = TRUE /\ mem = 0
  /\ act = IdleAct
  /\ deleting = [d \in Deleter |-> [pc |-> "idle", target |-> 0]]
  /\ clock = 1 /\ saved = pack.world
  /\ asOf = [n \in Job |-> 0]
  /\ touchedBy = 0 /\ source = 0 /\ blind = {} /\ pausedBy = 0 /\ asked = FALSE /\ removed = {}

-----------------------------------------------------------------------------
(* The JVM *)

\* The world in memory reaches the disk.  An archive that is being written
\* reads some files before the change and some after it.
JvmWrites ==
  /\ pack' = [pack EXCEPT !.world = mem]
  /\ saved' = mem
  /\ archive' = IF At("ar_archive")
                THEN [archive EXCEPT ![job.n].state = "torn"] ELSE archive

\* Somebody plays: block edits and inventories stay in memory.
Play ==
  /\ running /\ clock < MaxWorld
  /\ clock' = clock + 1 /\ mem' = clock + 1
  /\ UNCHANGED <<disk, shelf, job, status, running, autosave, pausedBy, act,
                 deleting, history, asked, removed>>

Autosave ==
  /\ running /\ autosave /\ pack.world # mem
  /\ JvmWrites
  /\ UNCHANGED <<previous, staging, recorded, job, status, jvm, act, deleting,
                 asOf, touchedBy, source, blind, asked, removed>>

\* What was in the JVM is gone, a save-off with it.
JvmGone == running /\ running' = FALSE /\ mem' = 0 /\ autosave' = TRUE /\ pausedBy' = 0

\* The JVM ends by itself: an operator's /stop writes the world, a crash of
\* the JVM does not.  Nobody has told the panel yet.
JvmEnds ==
  /\ JvmGone
  /\ \/ JvmWrites
     \/ UNCHANGED <<pack, saved, archive>>
  /\ UNCHANGED <<previous, staging, recorded, job, status, clock, act,
                 deleting, asOf, touchedBy, source, blind, asked, removed>>

\* The script finds a pack and the JVM loads the world it finds there.
JvmBoots ==
  /\ ~running /\ pack.files # "none"
  /\ running' = TRUE /\ mem' = pack.world /\ autosave' = TRUE
  /\ UNCHANGED <<disk, shelf, job, act, deleting, clock, pausedBy, history,
                 asked, removed>>

\* As it would be without assertNoInterruptedRebuild.
StartAnyway == Idle /\ JvmBoots /\ status' = "live"

\* A start of the panel: refused while an earlier rebuild awaits recovery.
Start == Idle /\ previous = NoDir /\ JvmBoots /\ status' = "live"

\* Docker starts the container, but its answer is lost: the start has failed
\* for the panel, which stores `error` until the next refresh.
StartUnanswered == Faulty /\ Idle /\ previous = NoDir /\ JvmBoots /\ status' = "down"

Stop ==
  /\ Idle /\ JvmGone /\ status' = "down"
  /\ JvmWrites
  /\ UNCHANGED <<previous, staging, recorded, job, clock, act, deleting,
                 asOf, touchedBy, source, blind, asked, removed>>

\* The tick that copies Docker's status into the record, skipped while an
\* operation holds the server.
Refresh ==
  /\ Idle
  /\ status' = IF running THEN "live" ELSE "down"
  /\ UNCHANGED <<disk, shelf, job, jvm, act, deleting, history, asked, removed>>

=============================================================================
