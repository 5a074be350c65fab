------------------------------ MODULE TpsCache ------------------------------
(***************************************************************************)
(* TpsService: the readings of one server, shared by every browser tab.    *)
(* The map's entry is replaced when a read finds the server stopped or in  *)
(* another container, while a sample of the old one may still be running.  *)
(* A reading is known by the run of the JVM it was taken from.             *)
(***************************************************************************)
EXTENDS Integers, Sequences, FiniteSets

CONSTANTS
  MaxRun,      \* bound of the JVM's runs
  MostPoints,  \* RETENTION / INTERVAL
  Tabs         \* reads at a time (a bound)

TpsAssumption == {MaxRun, MostPoints, Tabs} \subseteq Nat \ {0}

VARIABLES
  run,        \* the JVM's run, counted
  up,         \* it is running
  entry,      \* the entry in the map: its value, whether a sample is pending,
              \* whether its value is younger than five seconds, its container
  orphans,    \* samples of replaced entries that are still running
  sample,     \* the entry's sample: the run it asks (0 before RCON answered)
  waiting,    \* reads that wait for the pending sample
  looks,      \* statuses that reads have seen and not yet used
  stopSeen    \* history: the last run a read has found over

vars == <<run, up, entry, orphans, sample, waiting, stopSeen, looks>>

NoEntry == [state |-> "none", points |-> <<>>, pending |-> FALSE, fresh |-> FALSE]
NoSample == 0

\* RCON answers for the JVM that runs when it is asked; a reading that fails is
\* a point as well, of no run.
Reading == IF up THEN {run, NoSample} ELSE {NoSample}

Last(points, n) == IF Len(points) > n THEN SubSeq(points, Len(points) - n + 1, Len(points)) ELSE points

-----------------------------------------------------------------------------
(* A read.                                                                 *)

\* Broken on purpose (for AnswersBelong): the entry is cleared in place.
InvalidatedInPlace == [entry EXCEPT !.state = "stopped", !.points = <<>>, !.fresh = TRUE]

\* A new entry with no history; a running sample keeps the old one.
Invalidated == [NoEntry EXCEPT !.state = "stopped", !.fresh = TRUE]

\* GET /:id/tps asks Docker for the status, ...
Look ==
  /\ Cardinality(looks) < Tabs
  /\ looks' = looks \cup {[up |-> up, run |-> run]}
  /\ UNCHANGED <<run, up, entry, orphans, sample, waiting, stopSeen>>

\* ... and reads with its answer, which may be old by then.
ReadStopped(look) ==
  /\ ~ look.up
  /\ entry' = Invalidated
  /\ orphans' = IF entry.pending /\ ~ entry'.pending THEN orphans + 1 ELSE orphans
  /\ sample' = IF entry'.pending THEN sample ELSE NoSample
  /\ waiting' = IF entry'.pending THEN waiting ELSE 0
  /\ stopSeen' = IF look.run > stopSeen THEN look.run ELSE stopSeen
  /\ UNCHANGED <<run, up>>

\* Another tab's sample is shared.
ReadShared(look) ==
  /\ look.up /\ entry.pending
  /\ waiting' = IF waiting = Tabs THEN waiting ELSE waiting + 1
  /\ UNCHANGED <<run, up, entry, orphans, sample, stopSeen>>

\* A value of the last five seconds is returned as it is.
ReadCached(look) ==
  /\ look.up /\ ~ entry.pending /\ entry.fresh /\ entry.state # "stopped"
  /\ UNCHANGED <<run, up, entry, orphans, sample, waiting, stopSeen>>

ReadSamples(look) ==
  /\ look.up /\ ~ entry.pending /\ ~ (entry.fresh /\ entry.state # "stopped")
  /\ entry' = [entry EXCEPT !.pending = TRUE]
  /\ waiting' = 1
  /\ UNCHANGED <<run, up, orphans, sample, stopSeen>>

Read ==
  \E look \in looks:
    /\ looks' = looks \ {look}
    /\ ReadStopped(look) \/ ReadShared(look) \/ ReadCached(look) \/ ReadSamples(look)

\* RCON answers the entry's sample: spark, or forge after it, or neither.
SampleAsked ==
  /\ entry.pending /\ sample = NoSample
  /\ sample' \in Reading
  /\ UNCHANGED <<run, up, entry, orphans, waiting, stopSeen, looks>>

\* The entry gets the point, behind the ones of its last ten minutes.
SampleDone ==
  /\ entry.pending
  /\ \E state \in IF sample = NoSample THEN {"unavailable", "unsupported"} ELSE {"available"}:
       entry' = [state |-> state, points |-> Last(Append(entry.points, sample), MostPoints),
                 pending |-> FALSE, fresh |-> TRUE]
  /\ sample' = NoSample /\ waiting' = 0
  /\ UNCHANGED <<run, up, orphans, stopSeen, looks>>

\* A replaced entry's sample ends, unseen by later reads.
OrphanDone ==
  /\ orphans > 0
  /\ orphans' = orphans - 1
  /\ UNCHANGED <<run, up, entry, sample, waiting, stopSeen, looks>>

-----------------------------------------------------------------------------

\* Five seconds, ten minutes.
Stales ==
  /\ entry.fresh
  /\ entry' = [entry EXCEPT !.fresh = FALSE]
  /\ UNCHANGED <<run, up, orphans, sample, waiting, stopSeen, looks>>

Expires ==
  /\ ~ entry.pending /\ ~ entry.fresh /\ entry # NoEntry
  /\ entry' = NoEntry
  /\ UNCHANGED <<run, up, orphans, sample, waiting, stopSeen, looks>>

Stops == up /\ up' = FALSE /\ UNCHANGED <<run, entry, orphans, sample, waiting, stopSeen, looks>>

\* The next run, in the same container or (which drops the entry at the next
\* read) in a new one.
Starts ==
  /\ ~ up /\ run < MaxRun
  /\ run' = run + 1 /\ up' = TRUE
  /\ UNCHANGED <<entry, orphans, sample, waiting, stopSeen, looks>>

Recreated ==
  /\ ~ up
  /\ entry' = NoEntry
  /\ orphans' = IF entry.pending THEN orphans + 1 ELSE orphans
  /\ sample' = NoSample /\ waiting' = 0
  /\ UNCHANGED <<run, up, stopSeen, looks>>

Init ==
  /\ run = 1 /\ up = TRUE
  /\ entry = NoEntry /\ orphans = 0 /\ sample = NoSample /\ waiting = 0 /\ stopSeen = 0
  /\ looks = {}

Next ==
  \/ Look \/ Read \/ SampleAsked \/ SampleDone \/ OrphanDone
  \/ Stales \/ Expires \/ Stops \/ Starts \/ Recreated

Spec == Init /\ [][Next]_vars

-----------------------------------------------------------------------------

\* Readings of a run that a tab has seen end are never shown again: the sample
\* that was under way does not repopulate the history of a later run.
NoOldReadings ==
  \A i \in DOMAIN entry.points: entry.points[i] = NoSample \/ entry.points[i] > stopSeen
=============================================================================
