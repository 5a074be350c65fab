----------------------------- MODULE MemoryPlan -----------------------------
(***************************************************************************)
(* What a server's RAM settings mean for its container and its JVM.  The   *)
(* setting is the container's limit; the heap is the largest one that      *)
(* leaves room for what the JVM needs besides it, found by bisection.      *)
(* Older versions took the setting for the heap: a migration, run once     *)
(* when the backend starts, turns such a setting into the limit that       *)
(* keeps the heap.                                                         *)
(***************************************************************************)
EXTENDS Integers

CONSTANTS
  OverheadPercent, OverheadMinMb,  \* what a JVM needs beyond its heap
  DefaultMinMb,                    \* the smallest heap when none is set
  MaxRamMb                         \* bound: settings tried

PlanAssumption ==
  {OverheadPercent, OverheadMinMb, DefaultMinMb, MaxRamMb} \subseteq Nat \ {0}

VARIABLES
  maxRam, minRam, \* the server's row; minRam is 0 when none is set
  migrated,       \* the migration is on record
  oldHeap,        \* the heap of a setting that was made for the heap, else 0
  low, high,      \* the bisection
  plan            \* containerMemoryPlan, or why there is none yet

planVars == <<maxRam, minRam, migrated, oldHeap, low, high, plan>>

Unplanned == [is |-> "unplanned"]
Searching == [is |-> "searching"]
NoPlan == [is |-> "no plan"]

Larger(a, b) == IF a > b THEN a ELSE b
Smaller(a, b) == IF a < b THEN a ELSE b

\* Rounded to the nearest, as Math.round does.
JvmOverheadMb(heap) == Larger((2 * heap * OverheadPercent + 100) \div 200, OverheadMinMb)
Needs(heap) == heap + JvmOverheadMb(heap)

Init ==
  /\ maxRam \in 1 .. MaxRamMb /\ minRam \in 0 .. MaxRamMb
  /\ \/ migrated = FALSE /\ oldHeap = maxRam   \* a row of an older version
     \/ migrated = TRUE /\ oldHeap = 0
  /\ low = 0 /\ high = 0 /\ plan = Unplanned

\* One transaction: the settings and the record that they were changed.
MigrateMemoryLimits ==
  /\ ~migrated
  /\ maxRam' = Needs(maxRam) /\ migrated' = TRUE
  /\ UNCHANGED <<minRam, oldHeap, low, high, plan>>

\* The backend migrates before it serves anything.
BackendRestarts ==
  /\ migrated /\ plan # Unplanned
  /\ plan' = Unplanned /\ low' = 0 /\ high' = 0
  /\ UNCHANGED <<maxRam, minRam, migrated, oldHeap>>

ChangeSettings(max, min) ==
  /\ migrated /\ plan.is \in {"plan", "no plan"}
  /\ maxRam' = max /\ minRam' = min /\ oldHeap' = 0
  /\ plan' = Unplanned /\ low' = 0 /\ high' = 0
  /\ UNCHANGED migrated

BeginSearch ==
  /\ migrated /\ plan = Unplanned
  /\ plan' = Searching /\ low' = 0 /\ high' = maxRam
  /\ UNCHANGED <<maxRam, minRam, migrated, oldHeap>>

Mid == low + (high - low + 1) \div 2

Bisect ==
  /\ plan = Searching /\ low < high
  /\ IF Needs(Mid) <= maxRam
     THEN low' = Mid /\ UNCHANGED high
     ELSE high' = Mid - 1 /\ UNCHANGED low
  /\ UNCHANGED <<maxRam, minRam, migrated, oldHeap, plan>>

\* Broken on purpose (for PlanIsRight): the soft limit goes by the setting alone.
HeapMinAsSet(heap) == IF minRam > 0 THEN minRam ELSE DefaultMinMb

HeapMin(heap) == Smaller(IF minRam > 0 THEN minRam ELSE DefaultMinMb, heap)

EndSearch ==
  /\ plan = Searching /\ low >= high
  /\ plan' = IF low < 1 THEN NoPlan
             ELSE [is |-> "plan", cap |-> maxRam, heapMax |-> low, heapMin |-> HeapMin(low),
                   floor |-> HeapMin(low) + JvmOverheadMb(low)]
  /\ UNCHANGED <<maxRam, minRam, migrated, oldHeap, low, high>>

Next ==
  \/ MigrateMemoryLimits \/ BackendRestarts \/ BeginSearch \/ Bisect \/ EndSearch
  \/ \E max \in 1 .. MaxRamMb, min \in 0 .. MaxRamMb: ChangeSettings(max, min)

Spec == Init /\ [][Next]_planVars

(***************************************************************************)
(* What a plan promises.                                                   *)
(***************************************************************************)

\* The heap leaves the JVM what it needs inside the container's limit, no
\* larger heap does, and there is no plan only when no heap does.  The soft
\* limit Docker is given next to the hard one never exceeds it.
HeapIsLargest ==
  /\ plan.is = "plan" =>
       /\ Needs(plan.heapMax) <= plan.cap /\ plan.floor <= plan.cap
       /\ \A heap \in plan.heapMax + 1 .. plan.cap: Needs(heap) > plan.cap
  /\ plan.is = "no plan" => \A heap \in 1 .. maxRam: Needs(heap) > maxRam

\* The migration changes no heap, however often the backend starts.
MigrationKeepsHeap == plan.is \in {"plan", "no plan"} /\ oldHeap > 0 => plan.is = "plan" /\ plan.heapMax = oldHeap

\* A plan is the best one, and the one its settings meant.
PlanIsRight == HeapIsLargest /\ MigrationKeepsHeap
=============================================================================
