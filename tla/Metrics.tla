------------------------------ MODULE Metrics ------------------------------
(***************************************************************************)
(* The history of one server's metrics: the collector's tick and the three *)
(* tiers of metric_rollups.  Time is counted in buckets of the finest      *)
(* tier.  The numbers of a row compose exactly (minimum, maximum, weighted *)
(* mean), so a row stands here for the set of fine buckets it sums up.     *)
(***************************************************************************)
EXTENDS Integers

CONSTANTS
  Middle, Coarse,                          \* lengths of the coarser buckets
  FineWindow, MiddleWindow, CoarseWindow,  \* how long each tier is kept
  PruneInterval,
  MaxDelay,   \* bound: buckets by which a bucket is written late
  MaxNow      \* bound: length of a behaviour

\* A bucket is in one bucket of the next tier, whose parts outlast it by the
\* longest delay.
MetricsAssumption ==
  /\ {Middle, Coarse, FineWindow, MiddleWindow, CoarseWindow, PruneInterval, MaxDelay, MaxNow} \subseteq Nat \ {0}
  /\ Coarse % Middle = 0
  /\ Middle - 1 + MaxDelay <= FineWindow /\ Coarse - 1 + MaxDelay <= MiddleWindow

VARIABLES
  now,       \* the bucket the clock is in
  acc,       \* the open bucket and whether it has samples, or NoBucket
  tick,      \* the tick under way: when it began and what it waits for
  ticked,    \* a tick began in this bucket
  preparing, \* the server is being prepared
  listed,    \* the server has a row in the panel
  pruned,    \* when rows were last pruned
  rollups,   \* the rows of each tier: start of the bucket to what it sums up
  written    \* every fine bucket ever written, for the properties

metricsVars == <<now, acc, tick, ticked, preparing, listed, pruned, rollups, written>>

NoBucket == [start |-> -1]
NoTick == [pc |-> "idle"]

Tiers == {"1h", "1d", "7d"}
Resolution == [tier \in Tiers |-> CASE tier = "1h" -> 1 [] tier = "1d" -> Middle [] tier = "7d" -> Coarse]
\* Broken on purpose (for HistoryIsWhole): the middle tier goes as the finest does.
FineWindows == [tier \in Tiers |-> IF tier = "7d" THEN CoarseWindow ELSE FineWindow]

WindowOf == [tier \in Tiers |->
  CASE tier = "1h" -> FineWindow [] tier = "1d" -> MiddleWindow [] tier = "7d" -> CoarseWindow]

BucketStart(tier, time) == (time \div Resolution[tier]) * Resolution[tier]
Within(tier, start) == start .. start + Resolution[tier] - 1

Init ==
  /\ now = 0 /\ acc = NoBucket /\ tick = NoTick /\ ticked = FALSE
  /\ preparing = FALSE /\ listed = TRUE /\ pruned \in {-PruneInterval, 0}
  /\ rollups = [tier \in Tiers |-> [start \in {} |-> {}]]
  /\ written = {}

(***************************************************************************)
(* metricsStore.                                                           *)
(***************************************************************************)
Put(rows, start, parts) ==
  [s \in DOMAIN rows \cup {start} |-> IF s = start THEN parts ELSE rows[s]]

\* A coarse bucket is rebuilt from the finer rows that are there.
Rollup(fine, coarse, tier, time) ==
  LET start == BucketStart(tier, time) IN
  Put(coarse, start, UNION {fine[s]: s \in DOMAIN fine \cap Within(tier, start)})

WriteFineBucket(start) ==
  LET fine == Put(rollups["1h"], start, {start})
      middle == Rollup(fine, rollups["1d"], "1d", start)
      coarse == Rollup(middle, rollups["7d"], "7d", start) IN
  /\ rollups' = [tier \in Tiers |-> CASE tier = "1h" -> fine [] tier = "1d" -> middle [] tier = "7d" -> coarse]
  /\ written' = written \cup {start}

\* What prune leaves, and what a query of a range returns.
Retained(tier) == {s \in DOMAIN rollups[tier]: s >= now - WindowOf[tier]}

Prune == rollups' = [tier \in Tiers |-> [s \in Retained(tier) |-> rollups[tier][s]]]

\* peak(): the best row of the last seven days.
Peak == UNION {rollups["7d"][s]: s \in Retained("7d")}

(***************************************************************************)
(* metricsCollector.  A tick belongs to the bucket it began in.            *)
(***************************************************************************)
Flush == IF acc.sampled THEN WriteFineBucket(acc.start) ELSE UNCHANGED <<rollups, written>>

TickBegins ==
  /\ tick = NoTick /\ ticked' = TRUE
  /\ CASE ~listed -> /\ acc' = NoBucket /\ tick' = [pc |-> "end", at |-> now]
                     /\ UNCHANGED <<rollups, written>>
       [] listed /\ preparing -> tick' = [pc |-> "end", at |-> now] /\ UNCHANGED <<acc, rollups, written>>
       [] listed /\ ~preparing ->
            /\ IF acc # NoBucket /\ acc.start # now THEN Flush ELSE UNCHANGED <<rollups, written>>
            /\ acc' = IF acc # NoBucket /\ acc.start = now THEN acc ELSE [start |-> now, sampled |-> FALSE]
            /\ tick' \in {[pc |-> "docker", at |-> now], [pc |-> "end", at |-> now]}
  /\ UNCHANGED <<now, preparing, listed, pruned>>

\* Docker answers for a running container, or does not, or it is not running.
Sampled ==
  /\ tick.pc = "docker"
  /\ acc' \in {acc, [acc EXCEPT !.sampled = TRUE]}
  /\ tick' = [tick EXCEPT !.pc = "end"]
  /\ UNCHANGED <<now, ticked, preparing, listed, pruned, rollups, written>>

\* The interval counts from the beginnings of ticks, the windows from now.
PruneDue == tick.at - pruned >= PruneInterval

TickEnds ==
  /\ tick.pc = "end" /\ tick' = NoTick
  /\ IF PruneDue THEN Prune /\ pruned' = tick.at ELSE UNCHANGED <<rollups, pruned>>
  /\ UNCHANGED <<now, acc, ticked, preparing, listed, written>>

(***************************************************************************)
(* Around it.                                                              *)
(***************************************************************************)
\* A tick begins every second unless one is under way.
TimePasses ==
  /\ now < MaxNow /\ (ticked \/ tick # NoTick)
  /\ acc # NoBucket => now - acc.start < MaxDelay
  /\ now' = now + 1 /\ ticked' = FALSE
  /\ UNCHANGED <<acc, tick, preparing, listed, pruned, rollups, written>>

Prepare ==
  /\ listed /\ preparing' = ~preparing
  /\ UNCHANGED <<now, acc, tick, ticked, listed, pruned, rollups, written>>

Delete ==
  /\ listed /\ ~preparing /\ listed' = FALSE
  /\ UNCHANGED <<now, acc, tick, ticked, preparing, pruned, rollups, written>>

\* The open bucket is lost, the rows stay.
BackendRestarts ==
  /\ acc # NoBucket
  /\ acc' = NoBucket /\ tick' = NoTick /\ ticked' = FALSE /\ preparing' = FALSE
  /\ pruned' = -PruneInterval
  /\ UNCHANGED <<now, listed, rollups, written>>

Next ==
  \/ TickBegins \/ Sampled \/ TickEnds
  \/ TimePasses \/ Prepare \/ Delete \/ BackendRestarts

Spec == Init /\ [][Next]_metricsVars

(***************************************************************************)
(* What the history promises.                                              *)
(***************************************************************************)

\* A row of any tier that a query can return sums up every bucket that was
\* ever written into its period, and nothing else: no rebuild works from rows
\* that were pruned already.  And the peak that start admission relies on has
\* seen all that was written within its window.
HistoryIsWhole ==
  /\ \A tier \in Tiers: \A s \in Retained(tier): rollups[tier][s] = written \cap Within(tier, s)
  /\ \A b \in written: BucketStart("7d", b) >= now - CoarseWindow => b \in Peak
=============================================================================
