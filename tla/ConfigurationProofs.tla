------------------------ MODULE ConfigurationProofs ------------------------
(***************************************************************************)
(* Theorems about Configuration, for any constants that its assumption     *)
(* allows: the heap of a memory plan is the largest that fits, the         *)
(* migration keeps every heap, saves tell the truth, a repair of the mods  *)
(* finishes or undoes what it did, the list of servers stays whole, what   *)
(* the host admits fits its memory, and a pack's arguments outlast every   *)
(* rewriting of their file.                                                *)
(***************************************************************************)
EXTENDS Configuration, FiniteSetTheorems, SequenceTheorems, WellFoundedInduction, TLAPS

-----------------------------------------------------------------------------
(* The memory plan.  What a JVM needs grows with its heap, so that the     *)
(* bisection may throw away half of the heaps at every step.               *)

LEMMA DivisionGrows ==
  ASSUME NEW a \in Nat, NEW b \in Nat, a <= b
  PROVE  /\ a \div 200 \in Nat /\ b \div 200 \in Nat
         /\ a \div 200 <= b \div 200
OBVIOUS

LEMMA ProductGrows ==
  ASSUME NEW a \in Nat, NEW b \in Nat, NEW k \in Nat, a <= b
  PROVE  a * k \in Nat /\ b * k \in Nat /\ a * k <= b * k
<1>1. PICK d \in Nat: b = a + d
  <2>1. b - a \in Nat /\ b = a + (b - a)
    OBVIOUS
  <2>2. QED
    BY <2>1
<1>2. b * k = a * k + d * k /\ d * k \in Nat /\ a * k \in Nat
  BY <1>1
<1>3. QED
  BY <1>2

LEMMA PlanConstants ==
  OverheadPercent \in Nat /\ OverheadMinMb \in Nat /\ DefaultMinMb \in Nat \ {0} /\ MaxRamMb \in Nat
BY ConfigurationAssumption DEF Plan!PlanAssumption

LEMMA OverheadGrows ==
  ASSUME NEW a \in Nat, NEW b \in Nat, a <= b
  PROVE  /\ Plan!JvmOverheadMb(a) \in Nat /\ Plan!JvmOverheadMb(b) \in Nat
         /\ Plan!JvmOverheadMb(a) <= Plan!JvmOverheadMb(b)
<1> DEFINE Doubled(heap) == 2 * heap * OverheadPercent + 100
<1>1. Doubled(a) \in Nat /\ Doubled(b) \in Nat /\ Doubled(a) <= Doubled(b)
  <2>1. 2 * a \in Nat /\ 2 * b \in Nat /\ 2 * a <= 2 * b
    OBVIOUS
  <2>2. QED
    BY <2>1, PlanConstants, ProductGrows
<1>2. /\ Doubled(a) \div 200 \in Nat /\ Doubled(b) \div 200 \in Nat
      /\ Doubled(a) \div 200 <= Doubled(b) \div 200
  <2> HIDE DEF Doubled
  <2>1. QED
    BY <1>1, DivisionGrows
<1>3. /\ Plan!JvmOverheadMb(a) = Plan!Larger(Doubled(a) \div 200, OverheadMinMb)
      /\ Plan!JvmOverheadMb(b) = Plan!Larger(Doubled(b) \div 200, OverheadMinMb)
  BY DEF Plan!JvmOverheadMb
<1> HIDE DEF Doubled
<1>4. QED
  BY <1>2, <1>3, PlanConstants DEF Plan!Larger

LEMMA NeedsGrow ==
  ASSUME NEW a \in Nat, NEW b \in Nat, a < b
  PROVE  Plan!Needs(a) \in Nat /\ Plan!Needs(b) \in Nat /\ Plan!Needs(a) < Plan!Needs(b)
BY OverheadGrows DEF Plan!Needs

LEMMA NeedsIsNat ==
  ASSUME NEW a \in Nat
  PROVE  Plan!Needs(a) \in Nat /\ a <= Plan!Needs(a)
BY OverheadGrows DEF Plan!Needs

Plans == [is: {"plan"}, cap: Nat, heapMax: Nat \ {0}, heapMin: Nat, floor: Nat]

PlanTyped ==
  /\ maxRam \in Nat \ {0} /\ minRam \in Nat /\ oldHeap \in Nat
  /\ low \in Nat /\ high \in Nat
  /\ plan \in {Plan!Unplanned, Plan!Searching, Plan!NoPlan} \cup Plans

\* The heaps between low and high are still to be tried: no larger one fits.
SearchNarrows ==
  plan = Plan!Searching =>
    /\ low <= high /\ high <= maxRam
    /\ low > 0 => Plan!Needs(low) <= maxRam
    /\ \A heap \in Nat: heap > high /\ heap <= maxRam => Plan!Needs(heap) > maxRam

PlanIsOfRow == plan.is = "plan" => plan.cap = maxRam

\* A setting made for the heap is the limit that this heap needs.
OldHeapFits ==
  /\ ~ migrated => plan = Plan!Unplanned /\ oldHeap = maxRam
  /\ migrated /\ oldHeap > 0 => maxRam = Plan!Needs(oldHeap)

PlanInv == PlanTyped /\ SearchNarrows /\ PlanIsOfRow /\ OldHeapFits /\ Plan!HeapIsLargest

LEMMA PlanKinds ==
  /\ Plan!Unplanned.is = "unplanned" /\ Plan!Searching.is = "searching" /\ Plan!NoPlan.is = "no plan"
  /\ \A p \in Plans: p.is = "plan"
BY DEF Plan!Unplanned, Plan!Searching, Plan!NoPlan, Plans

LEMMA PlanInit == Plan!Init => PlanInv
<1> SUFFICES ASSUME Plan!Init PROVE PlanInv
  OBVIOUS
<1>1. plan.is = "unplanned" /\ plan # Plan!Searching
  BY PlanKinds DEF Plan!Init
<1>2. PlanTyped
  BY PlanConstants DEF Plan!Init, PlanTyped
<1>3. QED
  BY <1>1, <1>2 DEF Plan!Init, PlanInv, SearchNarrows, PlanIsOfRow, OldHeapFits, Plan!HeapIsLargest

\* A step that leaves the server without a plan, of which there is nothing to say.
LEMMA UnplannedHolds ==
  ASSUME PlanTyped', plan' = Plan!Unplanned, OldHeapFits'
  PROVE  PlanInv'
<1>1. plan'.is = "unplanned" /\ plan' # Plan!Searching
  BY PlanKinds
<1>2. QED
  BY <1>1 DEF PlanInv, SearchNarrows, PlanIsOfRow, Plan!HeapIsLargest

LEMMA MigrateStep == PlanInv /\ Plan!MigrateMemoryLimits => PlanInv'
<1> SUFFICES ASSUME PlanInv, Plan!MigrateMemoryLimits PROVE PlanInv'
  OBVIOUS
<1>1. Plan!Needs(maxRam) \in Nat \ {0}
  BY NeedsIsNat DEF PlanInv, PlanTyped
<1>2. PlanTyped'
  BY <1>1 DEF PlanInv, PlanTyped, Plan!MigrateMemoryLimits
<1>3. OldHeapFits'
  BY DEF PlanInv, OldHeapFits, Plan!MigrateMemoryLimits
<1>4. QED
  BY <1>2, <1>3, UnplannedHolds DEF PlanInv, OldHeapFits, Plan!MigrateMemoryLimits

LEMMA PlanRestartStep == PlanInv /\ Plan!BackendRestarts => PlanInv'
<1> SUFFICES ASSUME PlanInv, Plan!BackendRestarts PROVE PlanInv'
  OBVIOUS
<1>1. PlanTyped'
  BY DEF PlanInv, PlanTyped, Plan!BackendRestarts
<1>2. OldHeapFits'
  BY DEF PlanInv, OldHeapFits, Plan!BackendRestarts
<1>3. QED
  BY <1>1, <1>2, UnplannedHolds DEF Plan!BackendRestarts

LEMMA ChangeStep ==
  ASSUME PlanInv, NEW max \in 1 .. MaxRamMb, NEW min \in 0 .. MaxRamMb, Plan!ChangeSettings(max, min)
  PROVE  PlanInv'
<1> max \in Nat \ {0} /\ min \in Nat
  BY PlanConstants
<1>1. PlanTyped'
  BY DEF PlanInv, PlanTyped, Plan!ChangeSettings
<1>2. migrated' /\ oldHeap' = 0
  BY DEF Plan!ChangeSettings
<1>3. OldHeapFits'
  BY <1>2 DEF OldHeapFits
<1>4. QED
  BY <1>1, <1>3, UnplannedHolds DEF Plan!ChangeSettings

LEMMA BeginSearchStep == PlanInv /\ Plan!BeginSearch => PlanInv'
<1> SUFFICES ASSUME PlanInv, Plan!BeginSearch PROVE PlanInv'
  OBVIOUS
<1>1. plan'.is = "searching"
  BY PlanKinds DEF Plan!BeginSearch
<1>2. PlanTyped'
  BY DEF PlanInv, PlanTyped, Plan!BeginSearch
<1>3. SearchNarrows'
  BY DEF PlanInv, PlanTyped, SearchNarrows, Plan!BeginSearch
<1>4. OldHeapFits'
  BY DEF PlanInv, OldHeapFits, Plan!BeginSearch, Plan!Needs, Plan!JvmOverheadMb
<1>5. QED
  BY <1>1, <1>2, <1>3, <1>4 DEF PlanInv, PlanIsOfRow, Plan!HeapIsLargest

LEMMA BisectStep == PlanInv /\ Plan!Bisect => PlanInv'
<1> SUFFICES ASSUME PlanInv, Plan!Bisect PROVE PlanInv'
  OBVIOUS
<1> USE DEF PlanInv
<1>1. Plan!Mid \in Nat /\ low < Plan!Mid /\ Plan!Mid <= high
  BY DEF PlanTyped, SearchNarrows, Plan!Bisect, Plan!Mid
<1>2. plan' = Plan!Searching /\ plan'.is = "searching" /\ maxRam' = maxRam /\ maxRam \in Nat
  BY PlanKinds DEF Plan!Bisect, PlanTyped
<1>3. PlanTyped'
  BY <1>1 DEF PlanTyped, Plan!Bisect
<1>4. SearchNarrows'
  <2>1. CASE Plan!Needs(Plan!Mid) <= maxRam
    <3>1. low' = Plan!Mid /\ high' = high
      BY <2>1 DEF Plan!Bisect
    <3>2. /\ low' <= high' /\ high' <= maxRam' /\ Plan!Needs(low') <= maxRam'
          /\ \A heap \in Nat: heap > high' /\ heap <= maxRam' => Plan!Needs(heap) > maxRam'
      BY <1>1, <1>2, <2>1, <3>1 DEF SearchNarrows, Plan!Bisect
    <3>3. QED
      BY <3>2 DEF SearchNarrows, Plan!Needs, Plan!JvmOverheadMb
  <2>2. CASE ~ (Plan!Needs(Plan!Mid) <= maxRam)
    <3>1. low' = low /\ high' = Plan!Mid - 1
      BY <2>2 DEF Plan!Bisect
    <3>2. ASSUME NEW heap \in Nat, heap > high', heap <= maxRam
          PROVE  Plan!Needs(heap) > maxRam
      <4>1. heap = Plan!Mid \/ heap > Plan!Mid
        BY <3>1, <3>2, <1>1
      <4>2. QED
        BY <4>1, <2>2, <1>1, <1>2, NeedsGrow, NeedsIsNat
    <3>3. /\ low' <= high' /\ high' <= maxRam' /\ (low' > 0 => Plan!Needs(low') <= maxRam')
      BY <1>1, <1>2, <3>1 DEF SearchNarrows, Plan!Bisect, PlanTyped
    <3>4. QED
      BY <1>2, <3>2, <3>3 DEF SearchNarrows, Plan!Needs, Plan!JvmOverheadMb
  <2>3. QED
    BY <2>1, <2>2
<1>5. OldHeapFits'
  BY DEF OldHeapFits, Plan!Bisect, Plan!Needs, Plan!JvmOverheadMb
<1>6. QED
  BY <1>2, <1>3, <1>4, <1>5 DEF PlanIsOfRow, Plan!HeapIsLargest

LEMMA HeapMinFits ==
  ASSUME PlanTyped, low > 0
  PROVE  Plan!HeapMin(low) \in Nat /\ Plan!HeapMin(low) <= low
BY PlanConstants DEF PlanTyped, Plan!HeapMin, Plan!Smaller

LEMMA EndSearchStep == PlanInv /\ Plan!EndSearch => PlanInv'
<1> SUFFICES ASSUME PlanInv, Plan!EndSearch PROVE PlanInv'
  OBVIOUS
<1> USE DEF PlanInv
<1>1. /\ low \in Nat /\ high \in Nat /\ low = high /\ maxRam \in Nat \ {0} /\ maxRam' = maxRam
      /\ low > 0 => Plan!Needs(low) <= maxRam
      /\ \A heap \in Nat: heap > low /\ heap <= maxRam => Plan!Needs(heap) > maxRam
  BY DEF PlanTyped, SearchNarrows, Plan!EndSearch
<1>2. OldHeapFits'
  <2>1. migrated
    BY PlanKinds DEF OldHeapFits, Plan!EndSearch
  <2>2. (migrated /\ oldHeap > 0 => maxRam = Plan!Needs(oldHeap))'
    BY DEF OldHeapFits, Plan!EndSearch, Plan!Needs, Plan!JvmOverheadMb
  <2>3. QED
    BY <2>1, <2>2 DEF OldHeapFits, Plan!EndSearch
<1>3. CASE low < 1
  <2>1. plan' = Plan!NoPlan /\ plan'.is = "no plan"
    BY <1>3, PlanKinds DEF Plan!EndSearch
  <2> low = 0
    BY <1>1, <1>3
  <2>2. PlanTyped'
    BY <2>1 DEF PlanTyped, Plan!EndSearch
  <2>3. SearchNarrows' /\ PlanIsOfRow'
    BY <2>1, PlanKinds DEF SearchNarrows, PlanIsOfRow
  <2>4. \A heap \in 1 .. maxRam: Plan!Needs(heap) > maxRam
    BY <1>1
  <2>5. Plan!HeapIsLargest'
    BY <1>1, <2>1, <2>4 DEF Plan!HeapIsLargest, Plan!Needs, Plan!JvmOverheadMb
  <2>6. QED
    BY <1>2, <2>2, <2>3, <2>5
<1>4. CASE ~ (low < 1)
  <2>1. /\ Plan!HeapMin(low) \in Nat /\ Plan!HeapMin(low) <= low
        /\ Plan!JvmOverheadMb(low) \in Nat /\ Plan!Needs(low) = low + Plan!JvmOverheadMb(low)
    BY <1>1, <1>4, HeapMinFits, OverheadGrows DEF Plan!Needs
  <2>2. plan' = [is |-> "plan", cap |-> maxRam, heapMax |-> low, heapMin |-> Plan!HeapMin(low),
                 floor |-> Plan!HeapMin(low) + Plan!JvmOverheadMb(low)]
    BY <1>4 DEF Plan!EndSearch
  <2> maxRam \in Nat /\ low \in Nat \ {0} /\ Plan!HeapMin(low) + Plan!JvmOverheadMb(low) \in Nat
    BY <1>1, <1>4, <2>1
  <2> plan' \in Plans
    BY <2>1, <2>2 DEF Plans
  <2>3. plan' \in Plans /\ plan'.is = "plan" /\ plan' # Plan!Searching
    BY PlanKinds
  <2>4. PlanTyped'
    BY <2>3 DEF PlanTyped, Plan!EndSearch
  <2>5. SearchNarrows' /\ PlanIsOfRow'
    BY <1>1, <2>2, <2>3 DEF SearchNarrows, PlanIsOfRow
  <2>6. /\ plan'.cap = maxRam /\ plan'.heapMax = low
        /\ plan'.floor = Plan!HeapMin(low) + Plan!JvmOverheadMb(low)
    BY <2>2
  <2>7. /\ Plan!Needs(plan'.heapMax) <= plan'.cap /\ plan'.floor <= plan'.cap
        /\ \A heap \in plan'.heapMax + 1 .. plan'.cap: Plan!Needs(heap) > plan'.cap
    BY <1>1, <1>4, <2>1, <2>6
  <2>8. Plan!HeapIsLargest'
    BY <2>3, <2>7 DEF Plan!HeapIsLargest, Plan!Needs, Plan!JvmOverheadMb
  <2>9. QED
    BY <1>2, <2>4, <2>5, <2>8
<1>5. QED
  BY <1>3, <1>4

LEMMA PlanSame == PlanInv /\ UNCHANGED planVars => PlanInv'
<1> SUFFICES ASSUME PlanInv, UNCHANGED planVars PROVE PlanInv'
  OBVIOUS
<1> USE DEF PlanInv, planVars
<1>1. PlanTyped' /\ PlanIsOfRow'
  BY DEF PlanTyped, PlanIsOfRow
<1>2. SearchNarrows'
  BY DEF SearchNarrows, Plan!Needs, Plan!JvmOverheadMb
<1>3. OldHeapFits'
  BY DEF OldHeapFits, Plan!Needs, Plan!JvmOverheadMb
<1>4. Plan!HeapIsLargest'
  BY DEF Plan!HeapIsLargest, Plan!Needs, Plan!JvmOverheadMb
<1>5. QED
  BY <1>1, <1>2, <1>3, <1>4

LEMMA PlanNext == PlanInv /\ [Next]_vars => PlanInv'
<1> SUFFICES ASSUME PlanInv, [Next]_vars PROVE PlanInv'
  OBVIOUS
<1>1. CASE PlanStep
  BY <1>1, MigrateStep, PlanRestartStep, ChangeStep, BeginSearchStep, BisectStep, EndSearchStep
     DEF PlanStep, Plan!Next
<1>2. CASE UNCHANGED planVars
  BY <1>2, PlanSame
<1>3. QED
  BY <1>1, <1>2
     DEF Next, vars, SettingsStep, RegistryStep, ArgsStep, ModsStep, CapacityStep, ListsStep, OutOfPacks

\* A heap that needs the whole limit is the largest that fits it.
LEMMA OwnHeapFits ==
  ASSUME NEW old \in Nat \ {0}
  PROVE  old \in 1 .. Plan!Needs(old) /\ ~ (Plan!Needs(old) > Plan!Needs(old))
BY NeedsIsNat

LEMMA OwnHeapIsLargest ==
  ASSUME NEW old \in Nat \ {0}, NEW heap \in Nat, Plan!Needs(heap) <= Plan!Needs(old),
         \A h \in heap + 1 .. Plan!Needs(old): Plan!Needs(h) > Plan!Needs(old)
  PROVE  heap = old
<1>1. Plan!Needs(old) \in Nat /\ old <= Plan!Needs(old)
  BY NeedsIsNat
<1>2. ~ (heap < old)
  BY <1>1
<1>3. ~ (old < heap)
  BY <1>1, NeedsGrow
<1>4. QED
  BY <1>2, <1>3

LEMMA PlanMeansSettings == PlanInv => PlanIsRight
<1> SUFFICES ASSUME PlanInv PROVE Plan!MigrationKeepsHeap
  BY DEF PlanInv, PlanIsRight, Plan!PlanIsRight
<1> USE DEF PlanInv
<1>1. CASE oldHeap = 0
  <2>1. ~ (oldHeap > 0)
    BY <1>1
  <2>2. QED
    BY <2>1 DEF Plan!MigrationKeepsHeap
<1>2. CASE oldHeap \in Nat \ {0} /\ plan # Plan!Unplanned /\ plan # Plan!Searching
  <2>1. migrated /\ oldHeap > 0
    BY <1>2 DEF OldHeapFits
  <2>2. maxRam = Plan!Needs(oldHeap)
    BY <2>1 DEF OldHeapFits
  <2>3. plan.is = "plan" \/ plan.is = "no plan"
    BY <1>2, PlanKinds DEF PlanTyped
  <2>4. plan.is = "plan"
    BY <1>2, <2>2, <2>3, OwnHeapFits DEF Plan!HeapIsLargest
  <2>5. plan \in Plans /\ plan.cap = maxRam
    BY <2>4, PlanKinds DEF PlanTyped, PlanIsOfRow
  <2>6. plan.heapMax \in Nat
    BY <2>5 DEF Plans
  <2>7. plan.heapMax = oldHeap
    BY <1>2, <2>2, <2>4, <2>5, <2>6, OwnHeapIsLargest DEF Plan!HeapIsLargest
  <2>8. QED
    BY <2>4, <2>7 DEF Plan!MigrationKeepsHeap
<1>3. CASE plan = Plan!Unplanned \/ plan = Plan!Searching
  BY <1>3, PlanKinds DEF Plan!MigrationKeepsHeap
<1>4. oldHeap = 0 \/ oldHeap \in Nat \ {0}
  BY DEF PlanTyped
<1>5. QED
  BY <1>1, <1>2, <1>3, <1>4

\* For any overhead and any settings: the heap of a plan is the largest that
\* leaves the JVM what it needs within the container's limit, there is no plan
\* only if no heap does, and the migration from older versions keeps the heap.
THEOREM PlansAreRight == Spec => []PlanIsRight
<1>1. Init => PlanInv
  BY PlanInit DEF Init
<1>2. QED
  BY <1>1, PlanNext, PlanMeansSettings, PTL DEF Spec

-----------------------------------------------------------------------------
(* The ban list.  The file is always written from the names of the row, and *)
(* the answer names those that were left out.                              *)

LEMMA EntriesLeaveOutUnresolved ==
  ASSUME NEW names, NEW found, NEW online
  PROVE  /\ \A b \in Lists!Entries(names, found, online):
              b.uuid \in (IF online THEN {"given", "mojang"} ELSE {"given", "offline"})
         /\ names \ {b.name: b \in Lists!Entries(names, found, online)}
              = Lists!Unresolved(names, found, online)
<1>1. ASSUME NEW b \in Lists!Entries(names, found, online)
      PROVE  b.uuid \in (IF online THEN {"given", "mojang"} ELSE {"given", "offline"})
  <2>1. PICK p \in names: /\ Lists!Uuid(p, found, online) # "none"
                          /\ b = [name |-> p, uuid |-> Lists!Uuid(p, found, online)]
    BY <1>1 DEF Lists!Entries
  <2>2. b.uuid = Lists!Uuid(p, found, online)
    BY <2>1
  <2>3. QED
    BY <2>1, <2>2 DEF Lists!Uuid
<1>2. {b.name: b \in Lists!Entries(names, found, online)}
        = {p \in names: Lists!Uuid(p, found, online) # "none"}
  <2>1. ASSUME NEW b \in Lists!Entries(names, found, online)
        PROVE  b.name \in {p \in names: Lists!Uuid(p, found, online) # "none"}
    <3>1. PICK p \in names: /\ Lists!Uuid(p, found, online) # "none"
                            /\ b = [name |-> p, uuid |-> Lists!Uuid(p, found, online)]
      BY <2>1 DEF Lists!Entries
    <3>2. b.name = p
      BY <3>1
    <3>3. QED
      BY <3>1, <3>2
  <2>2. ASSUME NEW p \in names, Lists!Uuid(p, found, online) # "none"
        PROVE  \E b \in Lists!Entries(names, found, online): b.name = p
    <3>1. [name |-> p, uuid |-> Lists!Uuid(p, found, online)] \in Lists!Entries(names, found, online)
      BY <2>2 DEF Lists!Entries
    <3>2. [name |-> p, uuid |-> Lists!Uuid(p, found, online)].name = p
      OBVIOUS
    <3>3. QED
      BY <3>1, <3>2
  <2>3. QED
    BY <2>1, <2>2
<1>3. QED
  BY <1>1, <1>2 DEF Lists!Unresolved

\* What every way of writing the file has in common.
LEMMA WrittenListsAreTrue ==
  ASSUME NEW found, banFile' = Lists!Entries(Lists!Names', found, onlineMode'),
         savedAs'.skipped = Lists!Unresolved(Lists!Names', found, onlineMode')
  PROVE  Lists!ListsAreTrue'
<1> DEFINE names == Lists!Names'
<1> DEFINE online == onlineMode'
<1>1. /\ \A b \in banFile': b.uuid \in (IF online THEN {"given", "mojang"} ELSE {"given", "offline"})
      /\ names \ {b.name: b \in banFile'} = savedAs'.skipped
  <2> HIDE DEF names, online
  <2>1. banFile' = Lists!Entries(names, found, online) /\ savedAs'.skipped = Lists!Unresolved(names, found, online)
    BY DEF names, online
  <2>2. QED
    BY <2>1, EntriesLeaveOutUnresolved
<1>2. QED
  BY <1>1 DEF Lists!ListsAreTrue, Lists!UuidsBan, Lists!SkippedAreNamed

LEMMA ListsInit == Lists!Init => Lists!ListsAreTrue
BY DEF Lists!Init, Lists!ListsAreTrue, Lists!UuidsBan, Lists!SkippedAreNamed, Lists!Names

LEMMA SaveKeepsLists ==
  ASSUME NEW names, NEW on \in BOOLEAN, Lists!Save(names, on)
  PROVE  Lists!ListsAreTrue'
<1> DEFINE new == IF on THEN names ELSE {}
<1> DEFINE skipped == Lists!Unresolved(new, looked', onlineMode)
<1>1. Lists!Names' = new /\ onlineMode' = onlineMode
  BY DEF Lists!Save, Lists!Names
<1>2. banFile' = Lists!Entries(new, looked', onlineMode)
  BY DEF Lists!Save
<1>3. savedAs' = IF skipped = {} THEN [is |-> "saved", skipped |-> {}]
                                 ELSE [is |-> "partly", skipped |-> skipped]
  BY DEF Lists!Save
<1>4. savedAs'.skipped = skipped
  <2> HIDE DEF skipped
  <2>1. QED
    BY <1>3
<1>5. QED
  BY <1>1, <1>2, <1>4, WrittenListsAreTrue

LEMMA ListsNext == Lists!ListsAreTrue /\ [Lists!Next]_listVars => Lists!ListsAreTrue'
<1> SUFFICES ASSUME Lists!ListsAreTrue, [Lists!Next]_listVars PROVE Lists!ListsAreTrue'
  OBVIOUS
<1>1. ASSUME NEW names \in SUBSET Player, NEW on \in BOOLEAN, Lists!Save(names, on)
      PROVE  Lists!ListsAreTrue'
  BY <1>1, SaveKeepsLists
<1>2. CASE Lists!SaveOther
  <2> DEFINE skipped == Lists!Unresolved(Lists!Names, looked', onlineMode)
  <2>1. Lists!Names' = Lists!Names /\ onlineMode' = onlineMode
    BY <1>2 DEF Lists!SaveOther, Lists!Names
  <2>2. banFile' = Lists!Entries(Lists!Names, looked', onlineMode)
    BY <1>2 DEF Lists!SaveOther
  <2>3. savedAs' = IF skipped = {} THEN [is |-> "saved", skipped |-> {}]
                                   ELSE [is |-> "partly", skipped |-> skipped]
    BY <1>2 DEF Lists!SaveOther
  <2>4. savedAs'.skipped = skipped
    <3> HIDE DEF skipped
    <3>1. QED
      BY <2>3
  <2>5. QED
    BY <2>1, <2>2, <2>4, WrittenListsAreTrue
<1>3. CASE UNCHANGED <<banned, enforced, onlineMode, banFile, savedAs>>
  BY <1>3 DEF Lists!ListsAreTrue, Lists!UuidsBan, Lists!SkippedAreNamed, Lists!Names
<1>4. CASE Lists!Prepare
  <2>1. PICK online \in BOOLEAN:
          IF Lists!Unresolved(Lists!Names, looked', online) = {}
          THEN /\ onlineMode' = online
               /\ banFile' = Lists!Entries(Lists!Names, looked', online)
               /\ savedAs' = [is |-> "saved", skipped |-> {}]
          ELSE UNCHANGED <<onlineMode, banFile, savedAs>>
    BY <1>4 DEF Lists!Prepare
  <2>2. banned' = banned /\ enforced' = enforced /\ Lists!Names' = Lists!Names
    BY <1>4 DEF Lists!Prepare, Lists!Names
  <2>3. CASE Lists!Unresolved(Lists!Names, looked', online) = {}
    <3>1. savedAs'.skipped = {}
      BY <2>1, <2>3
    <3>2. onlineMode' = online /\ banFile' = Lists!Entries(Lists!Names, looked', online)
      BY <2>1, <2>3
    <3>3. QED
      BY <2>2, <2>3, <3>1, <3>2, WrittenListsAreTrue
  <2>4. CASE Lists!Unresolved(Lists!Names, looked', online) # {}
    BY <1>3, <2>1, <2>2, <2>4
  <2>5. QED
    BY <2>3, <2>4
<1>5. CASE Lists!GameStarts \/ Lists!GameStops \/ Lists!BackendRestarts \/ UNCHANGED listVars
  BY <1>3, <1>5 DEF Lists!GameStarts, Lists!GameStops, Lists!BackendRestarts, listVars
<1>6. QED
  BY <1>1, <1>2, <1>4, <1>5 DEF Lists!Next

-----------------------------------------------------------------------------
(* A save.  The invariant follows the request: what its steps have written, *)
(* and what the running game has taken from it.                             *)

Later == {"bans", "difficulty", "resources", "recreate", "answer"}

\* A request carries one section of the form.
RequestTyped ==
  op = Settings!Idle \/
  (/\ op = [pc |-> op.pc, patch |-> op.patch, before |-> op.before, inGame |-> op.inGame,
            failed |-> op.failed]
   /\ op.pc \in {"files"} \cup Later /\ DOMAIN op.patch \in Settings!Sections
   /\ op.inGame \subseteq Settings!AtStart)

\* Past its first step a request that has not failed, or that the game has
\* taken something of, has written the files.
FilesWritten ==
  op # Settings!Idle =>
    IF op.pc = "files" THEN op.inGame = {} /\ ~ op.failed
    ELSE /\ ~ op.failed \/ op.inGame # {} => files = Settings!OfRow
         /\ op.pc \in {"bans", "difficulty"} => ~ op.failed

\* What counts as applied, the game goes by.
TakenByGame ==
  op # Settings!Idle /\ game.is = "playing" =>
    \A f \in op.inGame \cap Settings!Altered: game.by[f] = row[f]

FilesTyped ==
  /\ DOMAIN files = Settings!AtStart
  /\ game.is = "playing" => game = Settings!Playing(game.by) /\ DOMAIN game.by = Settings!AtStart

SettingsInv ==
  RequestTyped /\ FilesWritten /\ TakenByGame /\ FilesTyped /\ Settings!SavedIsOnDisk

LEMMA GameKinds ==
  /\ Settings!Down.is # "playing" /\ Settings!Unread.is # "playing"
  /\ \A s: Settings!Playing(s).is = "playing" /\ Settings!Playing(s).by = s
BY DEF Settings!Down, Settings!Unread, Settings!Playing

LEMMA SettingsInit == Settings!Init => SettingsInv
<1> SUFFICES ASSUME Settings!Init PROVE SettingsInv
  OBVIOUS
<1>1. files = Settings!OfRow
  BY DEF Settings!Init, Settings!OfRow, Settings!AtStart, Settings!Field
<1>2. QED
  BY <1>1, GameKinds DEF SettingsInv, Settings!Init, RequestTyped, FilesWritten, TakenByGame,
     FilesTyped, Settings!SavedIsOnDisk

\* The steps of the server and of its game, and a stop of the backend.
LEMMA ServerKeeps ==
  ASSUME SettingsInv, UNCHANGED <<row, files>>, FilesTyped',
         \/ op' = op /\ told' = told
         \/ op' = Settings!Idle /\ told' = "lost",
         op # Settings!Idle => game' = game \/ game'.is # "playing" \/ game' = Settings!Playing(files)
  PROVE  SettingsInv'
<1>1. RequestTyped' /\ Settings!SavedIsOnDisk'
  BY DEF SettingsInv, RequestTyped, Settings!SavedIsOnDisk, Settings!OfRow, Settings!Idle
<1>2. FilesWritten'
  BY DEF SettingsInv, FilesWritten, Settings!OfRow
<1>3. TakenByGame'
  <2> SUFFICES ASSUME op' # Settings!Idle, game'.is = "playing",
                      NEW f \in op'.inGame \cap Settings!Altered'
               PROVE  game'.by[f] = row'[f]
    BY DEF TakenByGame
  <2>1. op' = op /\ op # Settings!Idle
    OBVIOUS
  <2>2. f \in op.inGame \cap Settings!Altered
    BY <2>1 DEF Settings!Altered, Settings!Sent
  <2>3. CASE game' = game
    BY <2>1, <2>2, <2>3 DEF SettingsInv, TakenByGame
  <2>4. CASE game' = Settings!Playing(files)
    <3>1. files = Settings!OfRow /\ f \in Settings!AtStart
      BY <2>1, <2>2 DEF SettingsInv, FilesWritten, RequestTyped
    <3>2. game'.by = files
      BY <2>4, GameKinds
    <3>3. files[f] = row[f]
      BY <3>1 DEF Settings!OfRow
    <3>4. QED
      BY <3>2, <3>3
  <2>5. QED
    BY <2>1, <2>3, <2>4
<1>4. QED
  BY <1>1, <1>2, <1>3 DEF SettingsInv

\* A step of the request: row and patch stay, and the game may take a field.
LEMMA RequestKeeps ==
  ASSUME SettingsInv, op # Settings!Idle, row' = row, FilesTyped',
         op' = [pc |-> op'.pc, patch |-> op.patch, before |-> op.before, inGame |-> op'.inGame,
                failed |-> op'.failed],
         op'.pc \in Later, op'.inGame \subseteq Settings!AtStart,
         op'.pc \in {"bans", "difficulty"} => ~ op'.failed,
         ~ op'.failed \/ op'.inGame # {} => files' = Settings!OfRow,
         game'.is = "playing" =>
           \A f \in op'.inGame \cap Settings!Altered: game'.by[f] = row[f]
  PROVE  SettingsInv'
<1>1. op'.patch = op.patch /\ op'.before = op.before /\ op' # Settings!Idle
  <2>1. DOMAIN op' = {"pc", "patch", "before", "inGame", "failed"}
    OBVIOUS
  <2>2. op' # Settings!Idle
    BY <2>1 DEF Settings!Idle
  <2>3. QED
    BY <2>2
<1>2. Settings!Altered' = Settings!Altered /\ Settings!OfRow' = Settings!OfRow
  BY <1>1 DEF Settings!Altered, Settings!Sent, Settings!OfRow
<1>3. RequestTyped'
  BY <1>1 DEF SettingsInv, RequestTyped
<1>4. FilesWritten'
  BY <1>1, <1>2 DEF FilesWritten, Later
<1>5. TakenByGame'
  BY <1>1, <1>2 DEF TakenByGame
<1>6. Settings!SavedIsOnDisk'
  BY <1>1 DEF Settings!SavedIsOnDisk
<1>7. QED
  BY <1>3, <1>4, <1>5, <1>6 DEF SettingsInv

\* A step of the request that only moves on, or fails.
LEMMA MovesOn ==
  ASSUME SettingsInv, op # Settings!Idle, op.pc # "files", NEW next \in Later,
         NEW failing, op.failed => failing, next \notin {"bans", "difficulty"},
         op' = [op EXCEPT !.pc = next, !.failed = failing],
         UNCHANGED <<row, files, game>>
  PROVE  SettingsInv'
<1>1. op' = [pc |-> next, patch |-> op.patch, before |-> op.before, inGame |-> op.inGame,
             failed |-> failing]
  BY DEF SettingsInv, RequestTyped
<1>2. op'.pc = next /\ op'.inGame = op.inGame /\ op'.failed = failing
  BY <1>1
<1>3. FilesTyped'
  BY DEF SettingsInv, FilesTyped
<1>4. op'.inGame \subseteq Settings!AtStart
  BY <1>2 DEF SettingsInv, RequestTyped
<1>5. ~ op'.failed \/ op'.inGame # {} => files' = Settings!OfRow
  BY <1>2 DEF SettingsInv, FilesWritten
<1>6. game'.is = "playing" => \A f \in op'.inGame \cap Settings!Altered: game'.by[f] = row[f]
  BY <1>2 DEF SettingsInv, TakenByGame
<1>7. QED
  BY <1>1, <1>2, <1>3, <1>4, <1>5, <1>6, RequestKeeps

LEMMA UpdateKeeps ==
  ASSUME SettingsInv, NEW p \in Settings!Patches, Settings!Update(p)
  PROVE  SettingsInv'
<1>1. op' = [pc |-> "files", patch |-> p, before |-> row, inGame |-> {}, failed |-> FALSE]
      /\ UNCHANGED <<files, game>>
  BY DEF Settings!Update
<1>2. op'.pc = "files" /\ op'.patch = p /\ op'.before = row /\ op'.inGame = {} /\ op'.failed = FALSE
  BY <1>1
<1>3. DOMAIN p \in Settings!Sections
  BY DEF Settings!Patches
<1>4. op' # Settings!Idle
  <2>1. DOMAIN op' # DOMAIN Settings!Idle
    BY <1>1 DEF Settings!Idle
  <2>2. QED
    BY <2>1
<1>5. RequestTyped'
  BY <1>1, <1>2, <1>3 DEF RequestTyped
<1>6. FilesWritten' /\ TakenByGame'
  BY <1>2 DEF FilesWritten, TakenByGame
<1>7. FilesTyped'
  BY <1>1 DEF SettingsInv, FilesTyped
<1>8. QED
  BY <1>4, <1>5, <1>6, <1>7 DEF SettingsInv, Settings!SavedIsOnDisk

LEMMA ApplyKeeps ==
  ASSUME SettingsInv, Settings!ApplyConfigFiles
  PROVE  SettingsInv'
<1>1. op # Settings!Idle /\ op.pc = "files" /\ UNCHANGED <<row, game>>
  BY DEF Settings!ApplyConfigFiles, Settings!Idle
<1>2. op.inGame = {} /\ ~ op.failed
  BY <1>1 DEF SettingsInv, FilesWritten
<1>3. DOMAIN files' = Settings!AtStart
  BY DEF Settings!ApplyConfigFiles, SettingsInv, FilesTyped, Settings!OfRow
<1>4. FilesTyped'
  BY <1>1, <1>3 DEF SettingsInv, FilesTyped
<1>5. CASE files' = Settings!OfRow /\ op' = [op EXCEPT !.pc = "bans"]
  <2>1. op' = [pc |-> "bans", patch |-> op.patch, before |-> op.before, inGame |-> op.inGame,
               failed |-> op.failed]
    BY <1>1, <1>5 DEF SettingsInv, RequestTyped
  <2>2. op'.pc = "bans" /\ op'.inGame = {} /\ ~ op'.failed
    BY <1>2, <2>1
  <2>3. QED
    BY <1>1, <1>4, <1>5, <2>1, <2>2, RequestKeeps DEF Later
<1>6. CASE op' = [op EXCEPT !.pc = "resources", !.failed = TRUE]
  <2>1. op' = [pc |-> "resources", patch |-> op.patch, before |-> op.before, inGame |-> op.inGame,
               failed |-> TRUE]
    BY <1>1, <1>6 DEF SettingsInv, RequestTyped
  <2>2. op'.pc = "resources" /\ op'.inGame = {} /\ op'.failed
    BY <1>2, <2>1
  <2>3. QED
    BY <1>1, <1>4, <2>1, <2>2, RequestKeeps DEF Later
<1>7. QED
  BY <1>5, <1>6 DEF Settings!ApplyConfigFiles, Settings!GoTo

\* One setting over RCON: what counts as applied was equal before, or sent.
LEMMA SyncKeeps ==
  ASSUME SettingsInv, op # Settings!Idle, op.pc # "files", UNCHANGED <<row, files>>,
         NEW f \in Settings!AtStart, NEW next \in Later, Settings!SyncLive(f, next),
         ~ op.failed
  PROVE  SettingsInv'
<1> DEFINE taken == IF game.is = "playing"
                    THEN Settings!Playing([game.by EXCEPT ![f] = row[f]]) ELSE game
<1> DEFINE noted == [op EXCEPT !.pc = next, !.inGame = @ \cup {f}]
<1> DEFINE passed == [op EXCEPT !.pc = next]
<1>1. /\ noted = [pc |-> next, patch |-> op.patch, before |-> op.before,
                    inGame |-> op.inGame \cup {f}, failed |-> op.failed]
      /\ passed = [pc |-> next, patch |-> op.patch, before |-> op.before,
                   inGame |-> op.inGame, failed |-> op.failed]
  <2>1. op = [pc |-> op.pc, patch |-> op.patch, before |-> op.before, inGame |-> op.inGame,
              failed |-> op.failed]
    BY DEF SettingsInv, RequestTyped
  <2>2. noted = [pc |-> next, patch |-> op.patch, before |-> op.before,
                   inGame |-> op.inGame \cup {f}, failed |-> op.failed]
    <3>1. /\ DOMAIN noted = {"pc", "patch", "before", "inGame", "failed"}
          /\ noted = [x \in DOMAIN noted |-> noted[x]]
      BY <2>1
    <3>2. /\ noted.pc = next /\ noted.patch = op.patch /\ noted.before = op.before
          /\ noted.failed = op.failed
      BY <2>1
    <3>3. noted.inGame = op.inGame \cup {f}
      BY <2>1
    <3>4. QED
      <4> HIDE DEF noted
      <4>1. QED
        BY <3>1, <3>2, <3>3
  <2>3. passed = [pc |-> next, patch |-> op.patch, before |-> op.before,
                  inGame |-> op.inGame, failed |-> op.failed]
    BY <2>1
  <2>4. QED
    BY <2>2, <2>3
<1>2. \/ f \notin Settings!Altered /\ (op' = noted \/ op' = passed) /\ game' = game
      \/ op' = noted /\ game' = taken
      \/ op' = passed /\ game' \in {game, taken}
  BY DEF Settings!SyncLive, Settings!GoTo
<1>3. files = Settings!OfRow /\ op.inGame \subseteq Settings!AtStart
  BY DEF SettingsInv, FilesWritten, RequestTyped
<1>4. /\ game.is = "playing" => DOMAIN game.by = Settings!AtStart
      /\ game.is = "playing" => taken.is = "playing" /\ taken.by = [game.by EXCEPT ![f] = row[f]]
      /\ game.is # "playing" => taken = game
  BY GameKinds DEF SettingsInv, FilesTyped
<1>5. FilesTyped'
  <2>1. game' = game \/ game' = taken
    BY <1>2
  <2>2. CASE game' = game
    BY <2>2 DEF SettingsInv, FilesTyped
  <2>3. CASE game' = taken /\ game.is # "playing"
    BY <1>4, <2>3 DEF SettingsInv, FilesTyped
  <2>4. CASE game' = taken /\ game.is = "playing"
    <3>1. DOMAIN [game.by EXCEPT ![f] = row[f]] = Settings!AtStart
      BY <1>4, <2>4
    <3>2. game'.by = [game.by EXCEPT ![f] = row[f]] /\ game' = Settings!Playing(game'.by)
      BY <2>4, GameKinds
    <3>3. QED
      BY <3>1, <3>2 DEF SettingsInv, FilesTyped
  <2>5. QED
    BY <2>1, <2>2, <2>3, <2>4
<1>6. /\ op' = [pc |-> op'.pc, patch |-> op.patch, before |-> op.before, inGame |-> op'.inGame,
                failed |-> op'.failed]
      /\ op'.pc = next /\ op'.inGame \in {op.inGame, op.inGame \cup {f}}
      /\ op' = noted => op'.inGame = op.inGame \cup {f}
      /\ op' = passed => op'.inGame = op.inGame
      /\ op'.failed = op.failed
  <2> HIDE DEF taken
  <2>1. op' = noted \/ op' = passed
    BY <1>2
  <2>2. CASE op' = noted
    <3>1. op' = [pc |-> next, patch |-> op.patch, before |-> op.before,
                    inGame |-> op.inGame \cup {f}, failed |-> op.failed]
      BY <1>1, <2>2
    <3> HIDE DEF noted
    <3>2. op'.inGame = op.inGame \cup {f} /\ op'.pc = next /\ op'.failed = op.failed
      BY <3>1
    <3>3. op' = passed => op'.inGame = op.inGame
      <4>1. SUFFICES ASSUME op' = passed PROVE op'.inGame = op.inGame
        OBVIOUS
      <4>2. op' = [pc |-> next, patch |-> op.patch, before |-> op.before,
                   inGame |-> op.inGame, failed |-> op.failed]
        BY <1>1, <4>1
      <4>3. QED
        BY <4>2
    <3>4. QED
      BY <3>1, <3>2, <3>3
  <2>3. CASE op' = passed
    <3>1. op' = [pc |-> next, patch |-> op.patch, before |-> op.before,
                    inGame |-> op.inGame, failed |-> op.failed]
      BY <1>1, <2>3
    <3> HIDE DEF passed
    <3>2. op'.inGame = op.inGame /\ op'.pc = next /\ op'.failed = op.failed
      BY <3>1
    <3>3. op' = noted => op'.inGame = op.inGame \cup {f}
      <4>1. SUFFICES ASSUME op' = noted PROVE op'.inGame = op.inGame \cup {f}
        OBVIOUS
      <4>2. op' = [pc |-> next, patch |-> op.patch, before |-> op.before,
                   inGame |-> op.inGame \cup {f}, failed |-> op.failed]
        BY <1>1, <4>1
      <4>3. QED
        BY <4>2
    <3>4. QED
      BY <3>1, <3>2, <3>3
  <2>4. QED
    BY <2>1, <2>2, <2>3
<1>7. ASSUME game'.is = "playing", NEW g \in op'.inGame \cap Settings!Altered
      PROVE  game'.by[g] = row[g]
  <2> HIDE DEF noted, passed
  <2>1. g \in Settings!AtStart /\ game.is = "playing"
    BY <1>2, <1>3, <1>4, <1>6, <1>7
  <2>2. g \in op.inGame => game.by[g] = row[g]
    BY <1>7, <2>1 DEF SettingsInv, TakenByGame
  <2>3. game'.by = game.by \/ (game'.by = [game.by EXCEPT ![f] = row[f]])
    BY <1>2, <1>4, <2>1
  <2>4. g \in op.inGame \/ (g = f /\ game' = taken /\ game'.by = [game.by EXCEPT ![f] = row[f]])
    BY <1>2, <1>4, <1>6, <1>7, <2>1
  <2>5. QED
    BY <1>4, <2>1, <2>2, <2>3, <2>4
<1>8. QED
  <2> HIDE DEF noted, passed, taken
  <2>1. files' = Settings!OfRow /\ op'.inGame \subseteq Settings!AtStart
    BY <1>3, <1>6
  <2>2. QED
    BY <1>5, <1>6, <1>7, <2>1, RequestKeeps

LEMMA SyncsKeep ==
  ASSUME SettingsInv, Settings!SyncBlacklistLive \/ Settings!SyncDifficultyLive
  PROVE  SettingsInv'
<1>1. op # Settings!Idle /\ op.pc \in {"bans", "difficulty"} /\ UNCHANGED <<row, files>>
  BY DEF Settings!SyncBlacklistLive, Settings!SyncDifficultyLive, Settings!Idle
<1>2. ~ op.failed
  BY <1>1 DEF SettingsInv, FilesWritten
<1>3. {"bans", "difficulty"} \subseteq Settings!AtStart /\ {"difficulty", "resources"} \subseteq Later
  BY DEF Settings!AtStart, Later
<1>4. CASE Settings!SyncLive("bans", "difficulty") \/ Settings!SyncLive("difficulty", "resources")
  BY <1>1, <1>2, <1>3, <1>4, SyncKeeps
<1>5. CASE op' \in {[op EXCEPT !.pc = "difficulty"], [op EXCEPT !.pc = "resources"]} /\ game' = game
  <2>1. PICK next \in {"difficulty", "resources"}: op' = [op EXCEPT !.pc = next]
    BY <1>5
  <2>2. op' = [pc |-> next, patch |-> op.patch, before |-> op.before, inGame |-> op.inGame,
               failed |-> op.failed]
    BY <1>1, <2>1 DEF SettingsInv, RequestTyped
  <2>3. op'.pc = next /\ op'.inGame = op.inGame /\ ~ op'.failed
    BY <1>2, <2>2
  <2>4. FilesTyped' /\ op'.inGame \subseteq Settings!AtStart /\ files' = Settings!OfRow
    BY <1>1, <1>2, <1>5, <2>3 DEF SettingsInv, FilesTyped, RequestTyped, FilesWritten
  <2>5. game'.is = "playing" => \A f \in op'.inGame \cap Settings!Altered: game'.by[f] = row[f]
    BY <1>1, <1>5, <2>3 DEF SettingsInv, TakenByGame
  <2>6. QED
    BY <1>1, <1>3, <2>2, <2>3, <2>4, <2>5, RequestKeeps
<1>6. QED
  BY <1>4, <1>5 DEF Settings!SyncBlacklistLive, Settings!SyncDifficultyLive, Settings!GoTo

LEMMA ResourcesKeep ==
  ASSUME SettingsInv, Settings!UpdateResources
  PROVE  SettingsInv'
<1>1. op # Settings!Idle /\ op.pc = "resources" /\ UNCHANGED <<row, files, game>>
  <2>1. op.pc = "resources" /\ UNCHANGED <<row, files, game>>
    BY Zenon DEF Settings!UpdateResources
  <2>2. QED
    BY <2>1 DEF Settings!Idle
<1>2. PICK e \in BOOLEAN: op' = [op EXCEPT !.pc = "recreate", !.failed = op.failed \/ e]
  BY DEF Settings!UpdateResources
<1>3. QED
  BY <1>1, <1>2, MovesOn DEF Later

LEMMA RecreateKeeps ==
  ASSUME SettingsInv, Settings!RecreateContainer
  PROVE  SettingsInv'
<1>1. op # Settings!Idle /\ op.pc = "recreate" /\ UNCHANGED <<row, game>>
  BY DEF Settings!RecreateContainer, Settings!Idle
<1>2. files' \in {files, Settings!OfRow}
  BY DEF Settings!RecreateContainer
<1>3. /\ \/ op' = [op EXCEPT !.pc = "answer"]
         \/ op' = [op EXCEPT !.pc = "answer", !.failed = TRUE]
  BY DEF Settings!RecreateContainer, Settings!GoTo
<1>4. op = [pc |-> op.pc, patch |-> op.patch, before |-> op.before, inGame |-> op.inGame,
            failed |-> op.failed]
  BY <1>1 DEF SettingsInv, RequestTyped
<1>5. /\ op' = [pc |-> op'.pc, patch |-> op.patch, before |-> op.before, inGame |-> op'.inGame,
                failed |-> op'.failed]
      /\ op'.pc = "answer" /\ op'.inGame = op.inGame /\ (op.failed => op'.failed)
  <2>1. CASE op' = [op EXCEPT !.pc = "answer"]
    <3>1. op' = [pc |-> "answer", patch |-> op.patch, before |-> op.before, inGame |-> op.inGame,
                 failed |-> op.failed]
      BY <1>4, <2>1
    <3>2. QED
      BY <3>1
  <2>2. CASE op' = [op EXCEPT !.pc = "answer", !.failed = TRUE]
    <3>1. op' = [pc |-> "answer", patch |-> op.patch, before |-> op.before, inGame |-> op.inGame,
                 failed |-> TRUE]
      BY <1>4, <2>2
    <3>2. QED
      BY <3>1
  <2>3. QED
    BY <1>3, <2>1, <2>2
<1>6. ~ op'.failed \/ op'.inGame # {} => files' = Settings!OfRow
  BY <1>1, <1>2, <1>5 DEF SettingsInv, FilesWritten
<1>7. FilesTyped'
  <2>1. DOMAIN Settings!OfRow = Settings!AtStart
    BY DEF Settings!OfRow
  <2>2. QED
    BY <1>1, <1>2, <2>1 DEF SettingsInv, FilesTyped
<1>8. op'.inGame \subseteq Settings!AtStart
  BY <1>1, <1>5 DEF SettingsInv, RequestTyped
<1>9. game'.is = "playing" => \A f \in op'.inGame \cap Settings!Altered: game'.by[f] = row[f]
  BY <1>1, <1>5 DEF SettingsInv, TakenByGame
<1>10. QED
  BY <1>1, <1>5, <1>6, <1>7, <1>8, <1>9, RequestKeeps DEF Later

LEMMA AnswerKeeps ==
  ASSUME SettingsInv, Settings!Answer
  PROVE  SettingsInv'
<1>1. op # Settings!Idle /\ op.pc = "answer" /\ op' = Settings!Idle /\ UNCHANGED <<row, files, game>>
  BY DEF Settings!Answer, Settings!Idle
<1>2. told' = "saved" => ~ op.failed
  BY DEF Settings!Answer
<1>3. told' = "saved" => files = Settings!OfRow
  BY <1>1, <1>2 DEF SettingsInv, FilesWritten
<1>4. QED
  BY <1>1, <1>3 DEF SettingsInv, RequestTyped, FilesWritten, TakenByGame, FilesTyped,
     Settings!SavedIsOnDisk, Settings!OfRow

LEMMA ServerStepsKeep ==
  ASSUME SettingsInv,
         \/ Settings!Start \/ Settings!Stop \/ Settings!GameReads \/ Settings!GameOpens
         \/ Settings!GameEnds \/ Settings!RefreshStatus \/ Settings!BackendStops
         \/ UNCHANGED settingsVars
  PROVE  SettingsInv'
<1>1. UNCHANGED <<row, files>>
  BY DEF Settings!Start, Settings!Stop, Settings!GameReads, Settings!GameOpens, Settings!GameEnds,
     Settings!RefreshStatus, Settings!BackendStops, settingsVars
<1>2. \/ op' = op /\ told' = told
      \/ op' = Settings!Idle /\ told' = "lost"
  BY DEF Settings!Start, Settings!Stop, Settings!GameReads, Settings!GameOpens, Settings!GameEnds,
     Settings!RefreshStatus, Settings!BackendStops, settingsVars
<1>3. game' \in {game, Settings!Down, Settings!Unread, Settings!Playing(files)}
  BY DEF Settings!Start, Settings!Stop, Settings!GameReads, Settings!GameOpens, Settings!GameEnds,
     Settings!RefreshStatus, Settings!BackendStops, settingsVars
<1>4. game' = game \/ game'.is # "playing" \/ game' = Settings!Playing(files)
  BY <1>3, GameKinds
<1>5. FilesTyped'
  BY <1>1, <1>4, GameKinds DEF SettingsInv, FilesTyped
<1>6. QED
  BY <1>1, <1>2, <1>4, <1>5, ServerKeeps

LEMMA SettingsNext == SettingsInv /\ [Settings!Next]_settingsVars => SettingsInv'
<1> SUFFICES ASSUME SettingsInv, [Settings!Next]_settingsVars PROVE SettingsInv'
  OBVIOUS
<1>1. ASSUME NEW p \in Settings!Patches, Settings!Update(p) PROVE SettingsInv'
  BY <1>1, UpdateKeeps
<1>2. QED
  BY <1>1, ApplyKeeps, SyncsKeep, ResourcesKeep, RecreateKeeps, AnswerKeeps, ServerStepsKeep
     DEF Settings!Next

\* An answer without an error that asks for no restart: only the bans were
\* sent, or only the difficulty differs, and the game has taken it.
LEMMA AnswersAreInEffect ==
  ASSUME SettingsInv, [Settings!Next]_settingsVars, op.pc = "answer", told' = "saved",
         op' = Settings!Idle, ~ flag', game.is = "playing"
  PROVE  \A f \in Settings!Altered \cap Settings!AtStart: game.by[f] = row[f]
<1>1. op # Settings!Idle
  BY DEF Settings!Idle
<1>2. Settings!Answer
  BY <1>1 DEF Settings!Next, Settings!Update, Settings!ApplyConfigFiles, Settings!SyncBlacklistLive,
     Settings!SyncDifficultyLive, Settings!UpdateResources, Settings!RecreateContainer,
     Settings!Start, Settings!Stop, Settings!GameReads, Settings!GameOpens, Settings!GameEnds,
     Settings!RefreshStatus, Settings!BackendStops, settingsVars
<1>3. \A f \in op.inGame \cap Settings!Altered: game.by[f] = row[f]
  BY <1>1 DEF SettingsInv, TakenByGame
<1>4. Settings!Altered \subseteq Settings!Sent /\ Settings!Sent \in Settings!Sections
  BY <1>1 DEF SettingsInv, RequestTyped, Settings!Altered, Settings!Sent
<1>5. CASE Settings!BuildAltered
  BY <1>4, <1>5 DEF Settings!BuildAltered, Settings!Sections, Settings!AtStart
<1>6. CASE ~ Settings!BuildAltered
  <2>1. ~ Settings!NeedsRestart
    BY <1>2, <1>6 DEF Settings!Answer
  <2>2. Settings!Altered \subseteq op.inGame
    BY <1>4, <2>1 DEF Settings!NeedsRestart, Settings!OnlyBans, Settings!OnlyDifficulty
  <2>3. QED
    BY <1>3, <2>2
<1>7. QED
  BY <1>5, <1>6

-----------------------------------------------------------------------------

\* Only its own module changes a part.
LEMMA PartsApart == [Next]_vars => [Settings!Next]_settingsVars /\ [Lists!Next]_listVars
<1> SUFFICES ASSUME [Next]_vars PROVE [Settings!Next]_settingsVars /\ [Lists!Next]_listVars
  OBVIOUS
<1>1. CASE SettingsStep
  BY <1>1 DEF SettingsStep
<1>2. CASE ListsStep
  BY <1>2 DEF ListsStep
<1>3. CASE RegistryStep \/ PlanStep \/ ArgsStep \/ ModsStep \/ CapacityStep
  BY <1>3 DEF RegistryStep, PlanStep, ArgsStep, ModsStep, CapacityStep
<1>4. CASE OutOfPacks \/ UNCHANGED vars
  BY <1>4 DEF OutOfPacks, vars
<1>5. QED
  BY <1>1, <1>2, <1>3, <1>4 DEF Next

\* For any behaviour of requests, game and backend: a save answered without an
\* error is in the files, one that asks for no restart is in effect, and the
\* names missing from the ban list's file are those its answer named.
THEOREM SavesStayTrue == Spec => SavesAreTrue
<1>1. Init => SettingsInv /\ Lists!ListsAreTrue
  BY SettingsInit, ListsInit DEF Init
<1>2. SettingsInv /\ Lists!ListsAreTrue /\ [Next]_vars => (SettingsInv /\ Lists!ListsAreTrue)'
  BY PartsApart, SettingsNext, ListsNext
<1>3. SettingsInv => Settings!SavedIsOnDisk
  BY DEF SettingsInv
<1>4. SettingsInv /\ [Next]_vars =>
        [ (op.pc = "answer" /\ told' = "saved" /\ op' = Settings!Idle /\ ~flag' /\ game.is = "playing")
          => \A f \in Settings!Altered \cap Settings!AtStart: game.by[f] = row[f] ]_(Settings!settingsVars)
  BY PartsApart, AnswersAreInEffect
<1>5. QED
  BY <1>1, <1>2, <1>3, <1>4, PTL
     DEF Spec, SavesAreTrue, Settings!SavesAreTrue, Settings!AppliedIsInEffect, Lists!ListsAreTrue

-----------------------------------------------------------------------------
(* The repair of the mods: the search misses no solution.                  *)

Frame == [id: Id, left: SUBSET Mods!File, added: SUBSET Mods!File]

ModTypes ==
  /\ wants \in [Mods!Owner -> [Id -> SUBSET Version]]
  /\ offered \subseteq Mods!File /\ mods \subseteq Mods!File /\ before \subseteq Mods!File
  /\ pc \in {"idle", "solve", "link"} /\ frames \in Seq(Frame)
  /\ adding \subseteq Mods!File /\ linked \subseteq adding
  /\ pc # "link" => adding = {}

OneEach(S) == \A f, g \in S: f[1] = g[1] => f = g

\* What the search has added fits, and what it now looks for is missing.
Searched(fr) ==
  /\ fr.added \subseteq offered /\ fr.added \cap mods = {}
  /\ fr.id \in Mods!Missing(mods \cup fr.added)
  /\ ~ Mods!Clash(mods \cup fr.added) /\ OneEach(mods \cup fr.added)
  /\ \A f \in fr.left: f \in offered /\ f[1] = fr.id

\* A frame may still come upon a solution: it has added nothing else, and one
\* of the files left to try is of it.
Open(fr, S) == fr.added \subseteq S /\ fr.left \cap S # {}

AnyOpen(T) == \E i \in 1..Len(frames): Open(frames[i], mods \cup T)

SolveInv ==
  pc = "solve" =>
    /\ mods = before /\ frames # <<>>
    /\ \A i \in 1..Len(frames): Searched(frames[i])
    /\ \A T \in SUBSET offered: Mods!Consistent(mods \cup T) => AnyOpen(T)

LinkInv ==
  pc = "link" =>
    /\ mods = before \cup linked
    /\ adding \subseteq offered /\ adding \cap before = {}
    /\ Mods!Consistent(before \cup adding)

ModInv == ModTypes /\ OneEach(mods) /\ SolveInv /\ LinkInv /\ Mods!RepairsAreRight

\* More files require more.
LEMMA RequirementsGrow ==
  ASSUME NEW S, NEW S2, S \subseteq S2, NEW id
  PROVE  Mods!Requirements(S, id) \subseteq Mods!Requirements(S2, id)
BY DEF Mods!Requirements

LEMMA ClashStays ==
  ASSUME NEW S, NEW S2, S \subseteq S2
  PROVE  /\ Mods!Clash(S) => Mods!Clash(S2)
         /\ \A f \in S2: ~ Mods!Satisfies(S, f) => Mods!Clash(S2)
<1>1. ASSUME NEW f \in S2, ~ Mods!Satisfies(S, f) PROVE Mods!Clash(S2)
  <2>1. PICK r \in Mods!Requirements(S, f[1]): f[2] \notin r  BY <1>1 DEF Mods!Satisfies
  <2>2. r \in Mods!Requirements(S2, f[1])  BY <2>1, RequirementsGrow
  <2>3. ~ Mods!Satisfies(S2, f)  BY <2>1, <2>2 DEF Mods!Satisfies
  <2> QED  BY <2>3 DEF Mods!Clash
<1>2. Mods!Clash(S) => Mods!Clash(S2)  BY <1>1 DEF Mods!Clash
<1> QED  BY <1>1, <1>2

\* Whatever completes S has a file for what S misses.
LEMMA SolutionHasIt ==
  ASSUME ModTypes, NEW S, NEW S2, S \subseteq S2, NEW id \in Mods!Missing(S), Mods!Consistent(S2)
  PROVE  \E f \in S2 \ S: f[1] = id
<1>1. id \in Id /\ Mods!Requirements(S, id) # {} /\ \A f \in S: f[1] # id  BY DEF Mods!Missing
<1>2. Mods!Requirements(S2, id) # {}  BY <1>1, RequirementsGrow
<1>3. Mods!Missing(S2) = {}  BY DEF Mods!Consistent
<1>4. \E f \in S2: f[1] = id  BY <1>1, <1>2, <1>3 DEF Mods!Missing
<1> QED  BY <1>1, <1>4

\* A search for something missing that tries every file on offer.
LEMMA NewFrame ==
  ASSUME ModTypes, NEW S \in SUBSET offered, S \cap mods = {},
         ~ Mods!Clash(mods \cup S), OneEach(mods \cup S), NEW id \in Mods!Missing(mods \cup S)
  PROVE  /\ Mods!Searching(id, S) \in Frame
         /\ Searched(Mods!Searching(id, S))
         /\ \A T \in SUBSET offered:
              Mods!Consistent(mods \cup T) /\ S \subseteq mods \cup T => Open(Mods!Searching(id, S), mods \cup T)
<1>1. PICK fr: fr = Mods!Searching(id, S)  OBVIOUS
<1>2. fr = [id |-> id, left |-> {f \in offered: f[1] = id}, added |-> S]  BY <1>1 DEF Mods!Searching
<1>3. id \in Id  BY DEF Mods!Missing
<1>4. fr \in Frame  BY <1>2, <1>3 DEF Frame, ModTypes
<1>5. fr.id = id /\ fr.left = {f \in offered: f[1] = id} /\ fr.added = S  BY <1>2
<1>6. Searched(fr)  BY <1>5 DEF Searched
<1>7. ASSUME NEW T \in SUBSET offered, Mods!Consistent(mods \cup T), S \subseteq mods \cup T
      PROVE  Open(fr, mods \cup T)
  <2>1. PICK f \in (mods \cup T) \ (mods \cup S): f[1] = id
    <3>1. mods \cup S \subseteq mods \cup T  BY <1>7
    <3> QED  BY <1>7, <3>1, SolutionHasIt
  <2>2. f \in fr.left  BY <1>5, <2>1
  <2> QED  BY <1>5, <1>7, <2>1, <2>2 DEF Open
<1> QED  BY <1>1, <1>4, <1>6, <1>7

LEMMA RepairStarts == Mods!Init => ModInv
<1> SUFFICES ASSUME Mods!Init PROVE ModInv  OBVIOUS
<1>1. /\ offered \subseteq Mods!File /\ mods \subseteq Mods!File /\ before = {}
      /\ pc = "idle" /\ frames = <<>> /\ adding = {} /\ linked = {} /\ result = "none"
  BY DEF Mods!Init
<1>2. wants \in [Mods!Owner -> [Id -> SUBSET Version]]
  BY ConfigurationAssumption DEF Mods!Init, Mods!ModAssumption
<1>3. <<>> \in Seq(Frame)  OBVIOUS
<1>4. ModTypes  BY <1>1, <1>2, <1>3 DEF ModTypes
<1>5. OneEach(mods)  BY DEF OneEach, Mods!Init
<1>6. SolveInv /\ LinkInv /\ Mods!RepairsAreRight
  BY <1>1 DEF SolveInv, LinkInv, Mods!RepairsAreRight
<1> QED  BY <1>4, <1>5, <1>6 DEF ModInv

\* An end of a repair, with mods/ as given.
LEMMA RepairEnds ==
  ASSUME ModTypes, pc' = "idle", UNCHANGED <<wants, offered>>,
         before' \subseteq Mods!File, mods' \subseteq Mods!File, frames' \in Seq(Frame),
         adding' = {}, linked' = {}, OneEach(mods'), Mods!RepairsAreRight'
  PROVE  ModInv'
<1>1. ModTypes'  BY DEF ModTypes
<1>2. SolveInv' /\ LinkInv'  BY DEF SolveInv, LinkInv
<1> QED  BY <1>1, <1>2 DEF ModInv, OneEach

\* The operators that look at mods/ look at nothing else that changes.
LEMMA SameMods ==
  ASSUME UNCHANGED <<wants, offered, mods>>
  PROVE  /\ Mods!Consistent(mods)' <=> Mods!Consistent(mods)
         /\ \A T: Mods!Consistent(mods \cup T)' <=> Mods!Consistent(mods \cup T)
         /\ Mods!Solvable(mods)' <=> Mods!Solvable(mods)
         /\ \A fr: Searched(fr)' <=> Searched(fr)
<1>1. Mods!Consistent(mods)' <=> Mods!Consistent(mods)
  BY DEF Mods!Consistent, Mods!Missing, Mods!Clash, Mods!Satisfies, Mods!Requirements
<1>2. ASSUME NEW T PROVE Mods!Consistent(mods \cup T)' <=> Mods!Consistent(mods \cup T)
  BY DEF Mods!Consistent, Mods!Missing, Mods!Clash, Mods!Satisfies, Mods!Requirements
<1>3. Mods!Solvable(mods)' <=> Mods!Solvable(mods)
  BY <1>2 DEF Mods!Solvable
<1>4. ASSUME NEW fr PROVE Searched(fr)' <=> Searched(fr)
  BY DEF Searched, OneEach, Mods!Missing, Mods!Clash, Mods!Satisfies, Mods!Requirements
<1> QED  BY <1>1, <1>2, <1>3, <1>4

LEMMA EnsureKeeps == ModInv /\ Mods!EnsureModDependencies => ModInv'
<1> SUFFICES ASSUME ModInv, Mods!EnsureModDependencies PROVE ModInv'  OBVIOUS
<1>1. ModTypes /\ OneEach(mods) /\ pc = "idle" /\ before' = mods /\ UNCHANGED <<wants, offered, mods>>
  BY DEF ModInv, Mods!EnsureModDependencies
<1>2. CASE Mods!Clash(mods) /\ Mods!Fails
  <2>1. pc' = "idle" /\ result' = "failed" /\ frames' = <<>> /\ adding' = {} /\ linked' = {}
    BY <1>2 DEF Mods!Fails
  <2>2. ~ Mods!Solvable(mods)
    <3> SUFFICES ASSUME NEW T \in SUBSET offered, Mods!Consistent(mods \cup T) PROVE FALSE
      BY DEF Mods!Solvable
    <3>1. Mods!Clash(mods \cup T)
      <4>1. mods \subseteq mods \cup T  OBVIOUS
      <4> QED  BY <1>2, <4>1, ClashStays
    <3> QED  BY <3>1 DEF Mods!Consistent
  <2>3. Mods!RepairsAreRight'
    BY <1>1, <2>1, <2>2, SameMods DEF Mods!RepairsAreRight
  <2>4. OneEach(mods')  BY <1>1 DEF OneEach
  <2>5. frames' \in Seq(Frame)  BY <2>1
  <2> QED  BY <1>1, <2>1, <2>3, <2>4, <2>5, RepairEnds DEF ModTypes
<1>3. CASE ~ Mods!Clash(mods) /\ Mods!Missing(mods) = {} /\ result' = "complete"
           /\ UNCHANGED <<pc, frames, adding, linked>>
  <2>1. Mods!Consistent(mods)  BY <1>1, <1>3 DEF Mods!Consistent, OneEach
  <2>2. ModTypes'  BY <1>1, <1>3 DEF ModTypes
  <2>3. Mods!RepairsAreRight'
    BY <1>1, <1>3, <2>1, SameMods DEF Mods!RepairsAreRight
  <2>4. OneEach(mods)' /\ SolveInv' /\ LinkInv'  BY <1>1, <1>3 DEF OneEach, SolveInv, LinkInv
  <2> QED  BY <2>2, <2>3, <2>4 DEF ModInv
<1>4. CASE /\ ~ Mods!Clash(mods) /\ pc' = "solve" /\ result' = "none"
           /\ \E id \in Mods!Missing(mods): frames' = <<Mods!Searching(id, {})>>
           /\ UNCHANGED <<adding, linked>>
  <2>1. PICK id \in Mods!Missing(mods): frames' = <<Mods!Searching(id, {})>>  BY <1>4
  <2>2. PICK fr: fr = Mods!Searching(id, {})  OBVIOUS
  <2>3. mods \cup {} = mods /\ {} \in SUBSET offered  OBVIOUS
  <2>4. /\ fr \in Frame /\ Searched(fr)
        /\ \A T \in SUBSET offered: Mods!Consistent(mods \cup T) => Open(fr, mods \cup T)
    BY <1>1, <1>4, <2>1, <2>2, <2>3, NewFrame
  <2>5. frames' = <<fr>> /\ frames' \in Seq(Frame) /\ Len(frames') = 1 /\ frames'[1] = fr /\ frames' # <<>>
    BY <2>1, <2>2, <2>4
  <2>6. ModTypes'  BY <1>1, <1>4, <2>5 DEF ModTypes
  <2>7. SolveInv'
    <3>1. Searched(fr)'  BY <1>1, <2>4, SameMods
    <3>2. ASSUME NEW T \in SUBSET offered, Mods!Consistent(mods \cup T)' PROVE AnyOpen(T)'
      <4>1. Mods!Consistent(mods \cup T)
        BY <1>1, <3>2, SameMods
      <4>2. Open(fr, mods \cup T)  BY <2>4, <4>1
      <4> QED  BY <1>1, <2>5, <4>2 DEF AnyOpen, Open
    <3>3. \A i \in 1..Len(frames'): i = 1  BY <2>5
    <3> QED  BY <1>1, <2>5, <3>1, <3>2, <3>3 DEF SolveInv
  <2>8. OneEach(mods)' /\ LinkInv' /\ Mods!RepairsAreRight'
    BY <1>1, <1>4 DEF OneEach, LinkInv, Mods!RepairsAreRight
  <2> QED  BY <2>6, <2>7, <2>8 DEF ModInv
<1> QED  BY <1>2, <1>3, <1>4 DEF Mods!EnsureModDependencies

LEMMA TryKeeps == \A f \in Mods!File: ModInv /\ Mods!Try(f) => ModInv'
<1> SUFFICES ASSUME NEW f \in Mods!File, ModInv, Mods!Try(f) PROVE ModInv'  OBVIOUS
<1>1. /\ ModTypes /\ OneEach(mods) /\ pc = "solve" /\ mods = before /\ frames # <<>>
      /\ \A i \in 1..Len(frames): Searched(frames[i])
      /\ \A T \in SUBSET offered: Mods!Consistent(mods \cup T) => AnyOpen(T)
  BY DEF ModInv, SolveInv, Mods!Try
<1>2. PICK n \in Nat: n = Len(frames) /\ n > 0  BY <1>1, EmptySeq DEF ModTypes
<1>3. PICK top \in Frame: top = frames[n]
  <2>1. n \in 1..Len(frames)  BY <1>2
  <2> QED  BY <1>1, <1>2, <2>1, ElementOfSeq DEF ModTypes
<1>4. Mods!Last(frames) = top  BY <1>2, <1>3 DEF Mods!Last
<1>5. PICK added: added = top.added \cup {f}  OBVIOUS
<1>6. PICK rest: rest = [frames EXCEPT ![Len(frames)].left = @ \ {f}]  OBVIOUS
<1>7. /\ f \in top.left /\ UNCHANGED <<wants, offered, mods, before, linked, result>>
      /\ \/ /\ ~ Mods!Satisfies(mods \cup top.added, f) \/ Mods!Clash(mods \cup added)
            /\ frames' = rest /\ UNCHANGED <<pc, adding>>
         \/ /\ Mods!Satisfies(mods \cup top.added, f) /\ ~ Mods!Clash(mods \cup added)
            /\ Mods!Missing(mods \cup added) = {} /\ pc' = "link" /\ adding' = added /\ frames' = <<>>
         \/ /\ Mods!Satisfies(mods \cup top.added, f) /\ ~ Mods!Clash(mods \cup added)
            /\ \E id \in Mods!Missing(mods \cup added): frames' = Append(rest, Mods!Searching(id, added))
            /\ UNCHANGED <<pc, adding>>
  BY <1>4, <1>5, <1>6 DEF Mods!Try
<1>8. PICK low2 \in Frame: low2 = [top EXCEPT !.left = top.left \ {f}]
  BY <1>3 DEF Frame
<1>9. low2.id = top.id /\ low2.added = top.added /\ low2.left = top.left \ {f}
  BY <1>3, <1>8 DEF Frame
<1>10. /\ rest \in Seq(Frame) /\ Len(rest) = n /\ rest[n] = low2
       /\ \A i \in 1..n: i # n => rest[i] = frames[i]
  <2>1. n \in 1..Len(frames) /\ frames \in Seq(Frame)  BY <1>1, <1>2 DEF ModTypes
  <2>2. rest = [frames EXCEPT ![n] = low2]
    <3>1. rest = [frames EXCEPT ![n] = [frames[n] EXCEPT !.left = frames[n].left \ {f}]]
      BY <1>2, <1>6, <2>1, LenProperties
    <3> QED  BY <1>3, <1>8, <3>1
  <2> QED  BY <1>2, <2>1, <2>2, ExceptSeq
<1>11. Searched(top)
  <2>1. n \in 1..Len(frames)  BY <1>2
  <2> QED  BY <1>1, <1>3, <2>1
<1>12. \A i \in 1..n: Searched(rest[i])
  <2>1. Searched(low2)  BY <1>9, <1>11 DEF Searched
  <2>2. ASSUME NEW i \in 1..n, i # n PROVE Searched(rest[i])
    <3>1. i \in 1..Len(frames) /\ rest[i] = frames[i]  BY <1>2, <1>10, <2>2
    <3> QED  BY <1>1, <3>1
  <2> QED  BY <1>10, <2>1, <2>2
\* Every solution is open in the rest, or it has f in it and all that was added.
<1>13. ASSUME NEW T \in SUBSET offered, Mods!Consistent(mods \cup T)
       PROVE  \/ \E i \in 1..n: Open(rest[i], mods \cup T)
              \/ f \in mods \cup T /\ top.added \subseteq mods \cup T
  <2>1. PICK i \in 1..n: Open(frames[i], mods \cup T)
    BY <1>1, <1>2, <1>13 DEF AnyOpen
  <2>2. CASE i # n
    <3>1. rest[i] = frames[i]  BY <1>10, <2>2
    <3> QED  BY <2>1, <3>1
  <2>3. CASE i = n
    <3>1. top.added \subseteq mods \cup T /\ top.left \cap (mods \cup T) # {}
      BY <1>3, <2>1, <2>3 DEF Open
    <3>2. CASE f \in mods \cup T  BY <3>1, <3>2
    <3>3. CASE f \notin mods \cup T
      <4>1. Open(low2, mods \cup T)  BY <1>9, <3>1, <3>3 DEF Open
      <4>2. n \in 1..n  BY <1>2
      <4> QED  BY <1>10, <4>1, <4>2
    <3> QED  BY <3>2, <3>3
  <2> QED  BY <2>2, <2>3
<1>14. /\ f \in offered /\ f[1] = top.id /\ top.id \in Mods!Missing(mods \cup top.added)
       /\ top.added \subseteq offered /\ top.added \cap mods = {} /\ OneEach(mods \cup top.added)
  BY <1>7, <1>11 DEF Searched
<1>15. /\ f \notin mods \cup top.added /\ added \in SUBSET offered /\ added \cap mods = {}
       /\ OneEach(mods \cup added)
  <2>1. \A g \in mods \cup top.added: g[1] # top.id  BY <1>14 DEF Mods!Missing
  <2>2. f \notin mods \cup top.added  BY <1>14, <2>1
  <2>3. OneEach(mods \cup added)  BY <1>5, <1>14, <2>1 DEF OneEach
  <2> QED  BY <1>5, <1>14, <2>2, <2>3
<1>16. CASE /\ ~ Mods!Satisfies(mods \cup top.added, f) \/ Mods!Clash(mods \cup added)
            /\ frames' = rest /\ UNCHANGED <<pc, adding>>
  <2>1. ModTypes'  BY <1>1, <1>7, <1>10, <1>16 DEF ModTypes
  <2>2. ASSUME NEW T \in SUBSET offered, Mods!Consistent(mods \cup T)
        PROVE  \E i \in 1..n: Open(rest[i], mods \cup T)
    <3>1. ASSUME f \in mods \cup T, top.added \subseteq mods \cup T PROVE FALSE
      <4>1. mods \cup top.added \subseteq mods \cup T /\ mods \cup added \subseteq mods \cup T
        BY <1>5, <3>1
      <4>2. Mods!Clash(mods \cup T)  BY <1>16, <3>1, <4>1, ClashStays
      <4> QED  BY <2>2, <4>2 DEF Mods!Consistent
    <3> QED  BY <1>13, <2>2, <3>1
  <2>3. SolveInv'
    <3>1. \A i \in 1..n: Searched(rest[i])'  BY <1>7, <1>12, SameMods
    <3>2. rest # <<>>  BY <1>2, <1>10, EmptySeq
    <3>3. ASSUME NEW T \in SUBSET offered, Mods!Consistent(mods \cup T)' PROVE AnyOpen(T)'
      <4>1. Mods!Consistent(mods \cup T)  BY <1>7, <3>3, SameMods
      <4> QED  BY <1>7, <1>10, <1>16, <2>2, <4>1 DEF AnyOpen
    <3> QED  BY <1>1, <1>7, <1>10, <1>16, <3>1, <3>2, <3>3 DEF SolveInv
  <2>4. OneEach(mods)' /\ LinkInv' /\ Mods!RepairsAreRight'
    BY <1>1, <1>7, <1>16 DEF OneEach, LinkInv, Mods!RepairsAreRight
  <2> QED  BY <2>1, <2>3, <2>4 DEF ModInv
<1>17. CASE /\ ~ Mods!Clash(mods \cup added)
            /\ Mods!Missing(mods \cup added) = {} /\ pc' = "link" /\ adding' = added /\ frames' = <<>>
  <2>1. adding = {} /\ linked = {}  BY <1>1 DEF ModTypes
  <2>2. mods' = mods /\ before' = mods /\ linked' = {} /\ adding' = added /\ pc' = "link" /\ offered' = offered
    BY <1>1, <1>7, <1>17, <2>1
  <2>3. ModTypes'
    <3>1. <<>> \in Seq(Frame)  OBVIOUS
    <3>2. added \subseteq Mods!File  BY <1>1, <1>15 DEF ModTypes
    <3> QED  BY <1>1, <1>7, <1>17, <2>2, <3>1, <3>2 DEF ModTypes
  <2>4. Mods!Consistent(mods \cup added)  BY <1>15, <1>17 DEF Mods!Consistent, OneEach
  <2>5. PICK S: S = mods \cup added  OBVIOUS
  <2>6. Mods!Consistent(S)'
    <3>1. Mods!Consistent(mods \cup added)'  BY <1>7, <2>4, SameMods
    <3>2. mods' \cup added = S  BY <2>2, <2>5
    <3> QED  BY <3>1, <3>2
  <2>7. LinkInv'
    <3>1. (before \cup adding)' = S  BY <2>2, <2>5
    <3>2. Mods!Consistent(before \cup adding)'  BY <2>6, <3>1
    <3>3. (mods = before \cup linked)'  BY <2>2
    <3>4. (adding \subseteq offered /\ adding \cap before = {})'  BY <1>15, <2>2
    <3> QED  BY <3>2, <3>3, <3>4 DEF LinkInv
  <2>8. OneEach(mods)' /\ SolveInv' /\ Mods!RepairsAreRight'
    BY <1>1, <2>2 DEF OneEach, SolveInv, Mods!RepairsAreRight
  <2> QED  BY <2>3, <2>7, <2>8 DEF ModInv
<1>18. ASSUME ~ Mods!Clash(mods \cup added), UNCHANGED <<pc, adding>>,
              NEW id \in Mods!Missing(mods \cup added), frames' = Append(rest, Mods!Searching(id, added))
       PROVE  ModInv'
  <2>1. PICK fr: fr = Mods!Searching(id, added)  OBVIOUS
  <2>2. /\ fr \in Frame /\ Searched(fr)
        /\ \A T \in SUBSET offered:
             Mods!Consistent(mods \cup T) /\ added \subseteq mods \cup T => Open(fr, mods \cup T)
    BY <1>1, <1>15, <1>18, <2>1, NewFrame
  <2>3. PICK all \in Seq(Frame): all = Append(rest, fr)  BY <1>10, <2>2, AppendProperties
  <2>4. /\ Len(all) = n + 1 /\ all[n + 1] = fr /\ \A i \in 1..n: all[i] = rest[i]
    BY <1>10, <2>2, <2>3, AppendProperties
  <2>5. frames' = all  BY <1>18, <2>1, <2>3
  <2>6. ModTypes'  BY <1>1, <1>7, <1>18, <2>5 DEF ModTypes
  <2>7. \A i \in 1..Len(all): i = n + 1 \/ i \in 1..n  BY <1>2, <2>4
  <2>8. n + 1 \in 1..Len(all) /\ \A i \in 1..n: i \in 1..Len(all)  BY <1>2, <2>4
  <2>9. SolveInv'
    <3>1. \A i \in 1..Len(all): Searched(all[i])'
      <4>1. \A i \in 1..Len(all): Searched(all[i])  BY <1>12, <2>2, <2>4, <2>7
      <4> QED  BY <1>7, <4>1, SameMods
    <3>2. all # <<>>  BY <1>2, <2>4, EmptySeq
    <3>3. ASSUME NEW T \in SUBSET offered, Mods!Consistent(mods \cup T)' PROVE AnyOpen(T)'
      <4>1. Mods!Consistent(mods \cup T)  BY <1>7, <3>3, SameMods
      <4>2. CASE f \in mods \cup T /\ top.added \subseteq mods \cup T
        <5>1. Open(all[n + 1], mods \cup T)  BY <1>5, <2>2, <2>4, <4>1, <4>2
        <5> QED  BY <1>7, <2>5, <2>8, <5>1 DEF AnyOpen
      <4>3. CASE \E i \in 1..n: Open(rest[i], mods \cup T)
        <5>1. PICK i \in 1..n: Open(all[i], mods \cup T)  BY <2>4, <4>3
        <5> QED  BY <1>7, <2>5, <2>8, <5>1 DEF AnyOpen
      <4> QED  BY <1>13, <4>1, <4>2, <4>3
    <3> QED  BY <1>1, <1>7, <2>5, <3>1, <3>2, <3>3 DEF SolveInv
  <2>10. OneEach(mods)' /\ LinkInv' /\ Mods!RepairsAreRight'
    BY <1>1, <1>7, <1>18 DEF OneEach, LinkInv, Mods!RepairsAreRight
  <2> QED  BY <2>6, <2>9, <2>10 DEF ModInv
<1> QED  BY <1>7, <1>16, <1>17, <1>18

LEMMA SameWants ==
  ASSUME UNCHANGED wants, NEW S
  PROVE  Mods!Consistent(S)' <=> Mods!Consistent(S)
BY DEF Mods!Consistent, Mods!Missing, Mods!Clash, Mods!Satisfies, Mods!Requirements

LEMMA BacktrackKeeps == ModInv /\ Mods!Backtrack => ModInv'
<1> SUFFICES ASSUME ModInv, Mods!Backtrack PROVE ModInv'  OBVIOUS
<1>1. /\ ModTypes /\ OneEach(mods) /\ pc = "solve" /\ mods = before /\ frames # <<>>
      /\ \A i \in 1..Len(frames): Searched(frames[i])
      /\ \A T \in SUBSET offered: Mods!Consistent(mods \cup T) => AnyOpen(T)
  BY DEF ModInv, SolveInv, Mods!Backtrack
<1>2. PICK n \in Nat: n = Len(frames) /\ n > 0  BY <1>1, EmptySeq DEF ModTypes
<1>3. frames[n].left = {}  BY <1>2 DEF Mods!Backtrack, Mods!Last
<1>4. UNCHANGED <<wants, offered, mods, before>>  BY DEF Mods!Backtrack
\* Nothing is found through the last frame.
<1>5. ASSUME NEW T \in SUBSET offered, Mods!Consistent(mods \cup T)
      PROVE  \E i \in 1..(n - 1): Open(frames[i], mods \cup T)
  <2>1. PICK i \in 1..n: Open(frames[i], mods \cup T)  BY <1>1, <1>2, <1>5 DEF AnyOpen
  <2>2. i # n  BY <1>3, <2>1 DEF Open
  <2>3. i \in 1..(n - 1)  BY <1>2, <2>2
  <2> QED  BY <2>1, <2>3
<1>6. CASE n = 1 /\ Mods!Fails
  <2>1. pc' = "idle" /\ result' = "failed" /\ frames' = <<>> /\ adding' = {} /\ linked' = {}
    BY <1>6 DEF Mods!Fails
  <2>2. ~ Mods!Solvable(mods)
    <3>1. 1..(n - 1) = {}  BY <1>6
    <3> QED  BY <1>5, <3>1 DEF Mods!Solvable
  <2>3. Mods!RepairsAreRight'
    BY <1>1, <1>4, <2>1, <2>2, SameMods DEF Mods!RepairsAreRight
  <2>4. OneEach(mods')  BY <1>1, <1>4 DEF OneEach
  <2>5. frames' \in Seq(Frame)  BY <2>1
  <2> QED  BY <1>1, <1>4, <2>1, <2>3, <2>4, <2>5, RepairEnds DEF ModTypes
<1>7. CASE n # 1 /\ frames' = Mods!Front(frames) /\ UNCHANGED <<pc, adding, linked, result>>
  <2>1. PICK fewer: fewer = Mods!Front(frames)  OBVIOUS
  <2>2. /\ fewer \in Seq(Frame) /\ Len(fewer) = n - 1 /\ \A i \in 1..(n - 1): fewer[i] = frames[i]
    <3>1. fewer = SubSeq(frames, 1, n - 1)  BY <1>2, <2>1 DEF Mods!Front
    <3>2. frames \in Seq(Frame) /\ n - 1 \in Nat  BY <1>1, <1>2 DEF ModTypes
    <3> QED  BY <1>2, <3>1, <3>2
  <2>3. fewer # <<>>  BY <1>2, <1>7, <2>2
  <2>4. \A i \in 1..(n - 1): i \in 1..Len(frames)  BY <1>2
  <2>5. frames' = fewer  BY <1>7, <2>1
  <2>6. ModTypes'  BY <1>1, <1>4, <1>7, <2>2, <2>5 DEF ModTypes
  <2>7. SolveInv'
    <3>1. \A i \in 1..(n - 1): Searched(fewer[i])'
      <4>1. \A i \in 1..(n - 1): Searched(fewer[i])  BY <1>1, <2>2, <2>4
      <4> QED  BY <1>4, <4>1, SameMods
    <3>2. ASSUME NEW T \in SUBSET offered, Mods!Consistent(mods \cup T)' PROVE AnyOpen(T)'
      <4>1. Mods!Consistent(mods \cup T)  BY <1>4, <3>2, SameMods
      <4>2. PICK i \in 1..(n - 1): Open(fewer[i], mods \cup T)  BY <1>5, <2>2, <4>1
      <4> QED  BY <1>4, <2>2, <2>5, <4>2 DEF AnyOpen
    <3> QED  BY <1>1, <1>4, <1>7, <2>2, <2>3, <2>5, <3>1, <3>2 DEF SolveInv
  <2>8. OneEach(mods)' /\ LinkInv' /\ Mods!RepairsAreRight'
    BY <1>1, <1>4, <1>7 DEF OneEach, LinkInv, Mods!RepairsAreRight
  <2> QED  BY <2>6, <2>7, <2>8 DEF ModInv
<1> QED  BY <1>2, <1>6, <1>7 DEF Mods!Backtrack

\* What a set being linked is: a way to complete what was there.
LEMMA Linking ==
  ASSUME ModInv, pc = "link"
  PROVE  /\ ModTypes /\ mods = before \cup linked /\ linked \subseteq adding
         /\ adding \subseteq offered /\ adding \cap before = {}
         /\ Mods!Consistent(before \cup adding) /\ OneEach(before \cup adding)
<1>1. ModTypes /\ mods = before \cup linked /\ adding \subseteq offered /\ adding \cap before = {}
      /\ Mods!Consistent(before \cup adding)
  BY DEF ModInv, LinkInv
<1> QED  BY <1>1 DEF ModTypes, Mods!Consistent, OneEach

LEMMA LinkKeeps == \A f \in Mods!File: ModInv /\ Mods!Link(f) => ModInv'
<1> SUFFICES ASSUME NEW f \in Mods!File, ModInv, Mods!Link(f) PROVE ModInv'  OBVIOUS
<1>1. pc = "link" /\ pc' = "link" /\ f \in adding /\ linked' = linked \cup {f} /\ mods' = mods \cup {f}
      /\ UNCHANGED <<wants, offered, before, frames, adding, result>>
  BY DEF Mods!Link
<1>2. /\ ModTypes /\ mods = before \cup linked /\ linked \subseteq adding
      /\ adding \subseteq offered /\ adding \cap before = {}
      /\ Mods!Consistent(before \cup adding) /\ OneEach(before \cup adding)
  BY <1>1, Linking
<1>3. ModTypes'
  <2>1. mods' \subseteq Mods!File /\ linked' \subseteq adding'  BY <1>1, <1>2 DEF ModTypes
  <2> QED  BY <1>1, <1>2, <2>1 DEF ModTypes
<1>4. OneEach(mods)'  BY <1>1, <1>2 DEF OneEach
<1>5. LinkInv'
  <2>1. PICK S: S = before \cup adding  OBVIOUS
  <2>2. Mods!Consistent(S)'  BY <1>1, <1>2, <2>1, SameWants
  <2>3. (before \cup adding)' = S  BY <1>1, <2>1
  <2>4. Mods!Consistent(before \cup adding)'  BY <2>2, <2>3
  <2>5. (mods = before \cup linked)'  BY <1>1, <1>2
  <2>6. (adding \subseteq offered /\ adding \cap before = {})'  BY <1>1, <1>2
  <2> QED  BY <2>4, <2>5, <2>6 DEF LinkInv
<1>6. SolveInv' /\ Mods!RepairsAreRight'  BY <1>1 DEF SolveInv, Mods!RepairsAreRight
<1> QED  BY <1>3, <1>4, <1>5, <1>6 DEF ModInv

LEMMA InstalledKeeps == ModInv /\ Mods!Installed => ModInv'
<1> SUFFICES ASSUME ModInv, Mods!Installed PROVE ModInv'  OBVIOUS
<1>1. /\ pc = "link" /\ linked = adding /\ pc' = "idle" /\ result' = "installed"
      /\ adding' = {} /\ linked' = {} /\ UNCHANGED <<wants, offered, mods, before, frames>>
  BY DEF Mods!Installed
<1>2. /\ ModTypes /\ mods = before \cup adding
      /\ Mods!Consistent(before \cup adding) /\ OneEach(before \cup adding)
  BY <1>1, Linking
<1>3. Mods!Consistent(mods) /\ OneEach(mods')  BY <1>1, <1>2
<1>4. Mods!RepairsAreRight'
  <2>1. Mods!Consistent(mods)'  BY <1>1, <1>3, SameMods
  <2> QED  BY <1>1, <1>2, <2>1 DEF Mods!RepairsAreRight
<1>5. before' \subseteq Mods!File /\ mods' \subseteq Mods!File /\ frames' \in Seq(Frame)
  BY <1>1, <1>2 DEF ModTypes
<1> QED  BY <1>1, <1>2, <1>3, <1>4, <1>5, RepairEnds

LEMMA TakenOutKeeps == ModInv /\ Mods!TakenOut => ModInv'
<1> SUFFICES ASSUME ModInv, Mods!TakenOut PROVE ModInv'  OBVIOUS
<1>1. PICK stuck \in SUBSET linked:
        /\ mods' = (mods \ linked) \cup stuck
        /\ pc' = "idle" /\ result' = IF stuck = {} THEN "not linked" ELSE "half linked"
  BY DEF Mods!TakenOut
<1>2. pc = "link" /\ frames' = <<>> /\ adding' = {} /\ linked' = {} /\ UNCHANGED <<wants, offered, before>>
  BY DEF Mods!TakenOut
<1>3. /\ ModTypes /\ mods = before \cup linked /\ linked \subseteq adding
      /\ adding \cap before = {} /\ OneEach(before \cup adding)
  BY <1>2, Linking
<1>4. mods' = before \cup stuck  BY <1>1, <1>3
<1>5. OneEach(mods')  BY <1>1, <1>3, <1>4 DEF OneEach
<1>6. Mods!RepairsAreRight'  BY <1>1, <1>2, <1>4 DEF Mods!RepairsAreRight
<1>7. before' \subseteq Mods!File /\ mods' \subseteq Mods!File /\ frames' \in Seq(Frame)
  <2>1. <<>> \in Seq(Frame)  OBVIOUS
  <2> QED  BY <1>1, <1>2, <1>3, <1>4, <2>1 DEF ModTypes
<1> QED  BY <1>1, <1>2, <1>3, <1>5, <1>6, <1>7, RepairEnds

LEMMA StopKeeps == ModInv /\ Mods!BackendStops => ModInv'
<1> SUFFICES ASSUME ModInv, Mods!BackendStops PROVE ModInv'  OBVIOUS
<1>1. /\ pc' = "idle" /\ result' = "none" /\ frames' = <<>> /\ adding' = {} /\ linked' = {}
      /\ UNCHANGED <<wants, offered, mods, before>>
  BY DEF Mods!BackendStops
<1>2. ModTypes /\ OneEach(mods)  BY DEF ModInv
<1>3. OneEach(mods')  BY <1>1, <1>2 DEF OneEach
<1>4. Mods!RepairsAreRight'  BY <1>1 DEF Mods!RepairsAreRight
<1>5. before' \subseteq Mods!File /\ mods' \subseteq Mods!File /\ frames' \in Seq(Frame)
  <2>1. <<>> \in Seq(Frame)  OBVIOUS
  <2> QED  BY <1>1, <1>2, <2>1 DEF ModTypes
<1> QED  BY <1>1, <1>2, <1>3, <1>4, <1>5, RepairEnds

LEMMA RepairIdles == ModInv /\ UNCHANGED modVars => ModInv'
<1> SUFFICES ASSUME ModInv, UNCHANGED modVars PROVE ModInv'  OBVIOUS
<1>1. UNCHANGED <<wants, offered, mods, before, pc, frames, adding, linked, result>>  BY DEF modVars
<1>2. ModTypes' /\ OneEach(mods)'  BY <1>1 DEF ModInv, ModTypes, OneEach
<1>3. SolveInv'
  <2> SUFFICES ASSUME pc = "solve" PROVE SolveInv'  BY <1>1 DEF SolveInv
  <2>1. \A i \in 1..Len(frames): Searched(frames[i])'
    BY <1>1, SameMods DEF ModInv, SolveInv
  <2>2. ASSUME NEW T \in SUBSET offered, Mods!Consistent(mods \cup T)' PROVE AnyOpen(T)'
    <3>1. Mods!Consistent(mods \cup T)  BY <1>1, <2>2, SameMods
    <3>2. AnyOpen(T)  BY <3>1 DEF ModInv, SolveInv
    <3> QED  BY <1>1, <3>2 DEF AnyOpen
  <2>3. mods' = before' /\ frames' # <<>>  BY <1>1 DEF ModInv, SolveInv
  <2> QED  BY <1>1, <2>1, <2>2, <2>3 DEF SolveInv
<1>4. LinkInv'
  <2> SUFFICES ASSUME pc = "link" PROVE LinkInv'  BY <1>1 DEF LinkInv
  <2>1. PICK S: S = before \cup adding  OBVIOUS
  <2>2. Mods!Consistent(S)'  BY <1>1, <2>1, Linking, SameWants
  <2>3. (before \cup adding)' = S  BY <1>1, <2>1
  <2>4. Mods!Consistent(before \cup adding)'  BY <2>2, <2>3
  <2>5. (mods = before \cup linked)' /\ (adding \subseteq offered /\ adding \cap before = {})'
    BY <1>1, Linking
  <2> QED  BY <2>4, <2>5 DEF LinkInv
<1>5. Mods!RepairsAreRight'
  BY <1>1, SameMods DEF ModInv, Mods!RepairsAreRight
<1> QED  BY <1>2, <1>3, <1>4, <1>5 DEF ModInv

\* While a set is linked, or taken out in part, the set itself completes mods/.
LEMMA StillSolvable ==
  ASSUME ModInv, Mods!Next, Mods!Solvable(mods)
  PROVE  Mods!Solvable(mods')
<1>1. CASE UNCHANGED mods
  BY <1>1
<1>2. ASSUME NEW f \in Mods!File, Mods!Link(f) PROVE Mods!Solvable(mods')
  <2>1. pc = "link" /\ f \in adding /\ mods' = mods \cup {f}
    BY <1>2 DEF Mods!Link
  <2>2. mods = before \cup linked /\ linked \subseteq adding /\ adding \subseteq offered
        /\ Mods!Consistent(before \cup adding)
    BY <2>1, Linking
  <2>3. mods' \cup adding = before \cup adding  BY <2>1, <2>2
  <2> QED  BY <2>2, <2>3 DEF Mods!Solvable
<1>3. ASSUME Mods!TakenOut PROVE Mods!Solvable(mods')
  <2>1. PICK stuck \in SUBSET linked: mods' = (mods \ linked) \cup stuck
    BY <1>3 DEF Mods!TakenOut
  <2>2. pc = "link"  BY <1>3 DEF Mods!TakenOut
  <2>3. mods = before \cup linked /\ linked \subseteq adding /\ adding \subseteq offered
        /\ adding \cap before = {} /\ Mods!Consistent(before \cup adding)
    BY <2>2, Linking
  <2>4. mods' \cup adding = before \cup adding  BY <2>1, <2>3
  <2> QED  BY <2>3, <2>4 DEF Mods!Solvable
<1>4. Mods!EnsureModDependencies \/ Mods!Backtrack \/ Mods!Installed \/ Mods!BackendStops
      => UNCHANGED mods
  BY DEF Mods!EnsureModDependencies, Mods!Backtrack, Mods!Installed, Mods!BackendStops
<1>5. \A f \in Mods!File: Mods!Try(f) => UNCHANGED mods
  BY DEF Mods!Try
<1> QED  BY <1>1, <1>2, <1>3, <1>4, <1>5 DEF Mods!Next

LEMMA ModsApart == [Next]_vars => [Mods!Next]_modVars
<1> SUFFICES ASSUME [Next]_vars PROVE [Mods!Next]_modVars
  OBVIOUS
<1>1. CASE ModsStep
  BY <1>1 DEF ModsStep
<1>2. CASE SettingsStep \/ ListsStep \/ RegistryStep \/ PlanStep \/ ArgsStep \/ CapacityStep
  BY <1>2 DEF SettingsStep, ListsStep, RegistryStep, PlanStep, ArgsStep, CapacityStep
<1>3. CASE OutOfPacks \/ UNCHANGED vars
  BY <1>3 DEF OutOfPacks, vars
<1>4. QED
  BY <1>1, <1>2, <1>3 DEF Next

\* For any files, requirements and candidates, and any failures and stops of
\* the backend: a repair that went through leaves every requirement met and
\* every earlier file in place, one that failed leaves mods/ as it was, and it
\* gives up only where no choice of candidates would do.  What a repair left
\* half done another one can complete.
THEOREM RepairsFinish == Spec => RepairsHold
<1>1. Init => ModInv
  BY RepairStarts DEF Init
<1>2. ModInv /\ [Next]_vars => ModInv'
  <2> SUFFICES ASSUME ModInv, [Next]_vars PROVE ModInv'
    OBVIOUS
  <2>1. Mods!Next \/ UNCHANGED modVars
    BY ModsApart
  <2> QED
    BY <2>1, EnsureKeeps, TryKeeps, BacktrackKeeps, LinkKeeps, InstalledKeeps, TakenOutKeeps,
       StopKeeps, RepairIdles DEF Mods!Next
<1>3. ModInv => Mods!RepairsAreRight
  BY DEF ModInv
<1>4. ModInv /\ [Next]_vars => [Mods!Solvable(mods) => Mods!Solvable(mods')]_(Mods!modVars)
  <2> SUFFICES ASSUME ModInv, Mods!Next, Mods!Solvable(mods) PROVE Mods!Solvable(mods')
    BY ModsApart DEF Mods!modVars, modVars
  <2> QED
    BY StillSolvable
<1>5. QED
  BY <1>1, <1>2, <1>3, <1>4, PTL DEF Spec, RepairsHold, Mods!RepairsHold, Mods!StaysSolvable

-----------------------------------------------------------------------------
(* The list of servers.                                                    *)

\* A set of numbers that is not empty has a least.
LEMMA LeastIsOne ==
  ASSUME NEW S \in SUBSET Nat, S # {}
  PROVE  Registry!Min(S) \in S /\ \A n \in S: Registry!Min(S) <= n
<1> DEFINE Below(n) == {m \in S: m < n}
<1> DEFINE Belows == {Below(n): n \in S}
<1> DEFINE R == StrictSubsetOrdering(Nat)
<1>1. IsWellFoundedOn(R, FiniteSubsetsOf(Nat))
  BY FS_StrictSubsetOrderingWellFounded
<1>2. Belows \subseteq FiniteSubsetsOf(Nat)
  <2> SUFFICES ASSUME NEW n \in S PROVE Below(n) \in FiniteSubsetsOf(Nat)  OBVIOUS
  <2>1. \A m \in Below(n): m <= n  OBVIOUS
  <2>2. IsFiniteSet(Below(n))
    <3> HIDE DEF Below
    <3>1. Below(n) \in SUBSET Nat  BY DEF Below
    <3> QED  BY <2>1, <3>1, FS_BoundedSetOfNaturals
  <2> QED  BY <2>2 DEF FiniteSubsetsOf
<1>3. PICK fewest \in Belows: \A other \in Belows: ~ (<<other, fewest>> \in R)
  <2>1. Belows # {}  OBVIOUS
  <2> HIDE DEF R, Belows
  <2> QED  BY <1>1, <1>2, <2>1, WFMin
<1>4. PICK least \in S: fewest = Below(least)  BY <1>3
<1>5. ASSUME NEW n \in S PROVE least <= n
  <2> SUFFICES ASSUME n < least PROVE FALSE  BY <1>5
  <2>0. n < least /\ \A m \in S: m \in Int  BY <1>5
  <2>1. Below(n) \subseteq Below(least) /\ n \in Below(least) /\ n \notin Below(n)
    <3>1. \A m \in S: m < n => m < least  BY <2>0
    <3>2. ~ (n < n)  BY <2>0
    <3> QED  BY <2>0, <3>1, <3>2
  <2>2. <<Below(n), Below(least)>> \in R  BY <2>1 DEF StrictSubsetOrdering
  <2> QED  BY <1>3, <1>4, <2>2
<1> QED  BY <1>4, <1>5 DEF Registry!Min

Row == [port: Nat, sub: Name \X Nat, pack: Pack \cup {Registry!None}]

\* What the panel knows of a request at each of its steps.
Creating ==
  [pc: {"port"}, kind: {"create", "import"}, pack: Pack, server: {Registry!None}, name: Name,
   asked: Registry!Asked, try: SUBSET Nat]
Changing ==
  [pc: {"port"}, kind: {"change"}, pack: {Registry!None}, server: Server, name: {Registry!None},
   asked: Registry!Asked, try: SUBSET Nat]
Filing == [pc: {"create", "import", "replace"}, server: Server, pack: Pack, before: Pack \cup {Registry!None}]
Purging == [pc: {"purge"}, server: Server, pack: Pack \cup {Registry!None}]
Deleting == [pc: {"delete"}, server: Server]
Asking == {Registry!Quiet} \cup Creating \cup Changing \cup Filing \cup Purging \cup Deleting

RegistryTypes ==
  /\ DOMAIN rows \subseteq Server /\ rows \in [DOMAIN rows -> Row]
  /\ disk \subseteq Pack /\ reqs \in [Request -> Asking]

\* The file a request has brought, and the one it is going to remove.
Fresh(q) == IF q.pc \in {"port", "create", "import", "replace"} THEN {q.pack} \ {Registry!None} ELSE {}
Stale(q) ==
  CASE q.pc = "purge" -> {q.pack} \ {Registry!None}
    [] q.pc \in {"create", "import", "replace"} -> {q.before} \ {Registry!None}
    [] OTHER -> {}

PacksApart ==
  /\ \A s \in DOMAIN rows: rows[s].pack \in used \cup {Registry!None}
  /\ \A r \in Request: Fresh(reqs[r]) \subseteq used /\ Stale(reqs[r]) \subseteq used
  /\ \A s, t \in DOMAIN rows: s # t /\ rows[s].pack = rows[t].pack => rows[s].pack = Registry!None
  /\ \A r \in Request, s \in DOMAIN rows: rows[s].pack \notin Fresh(reqs[r])
  /\ \A r1, r2 \in Request: r1 # r2 => Fresh(reqs[r1]) \cap Fresh(reqs[r2]) = {}
  /\ \A r1, r2 \in Request: Fresh(reqs[r1]) \cap Stale(reqs[r2]) = {}
  /\ \A r \in Request, s \in DOMAIN rows: rows[s].pack \in Stale(reqs[r]) => s = reqs[r].server

RegistryInv == RegistryTypes /\ Registry!SubdomainsUnique /\ PacksApart

\* The modules count alike.
LEMMA SameCounting ==
  \A S: /\ Registry!Cardinality(S) = Cardinality(S)
        /\ Registry!IsFiniteSet(S) <=> IsFiniteSet(S)
BY DEF Registry!Cardinality, Cardinality, Registry!IsFiniteSet, IsFiniteSet

LEMMA RegistryConstants ==
  /\ MinPort \in Nat /\ MaxPort \in Nat /\ RouterPort \in Nat /\ IsFiniteSet(Server)
  /\ Registry!None \notin Server /\ Registry!None \notin Pack
  /\ Cardinality(Server) \in Nat
<1>1. Registry!RegistryAssumption  BY ConfigurationAssumption
<1>2. IsFiniteSet(Server)  BY <1>1, SameCounting DEF Registry!RegistryAssumption
<1>3. Cardinality(Server) \in Nat  BY <1>2, FS_CardinalityType
<1> QED  BY <1>1, <1>2, <1>3 DEF Registry!RegistryAssumption

\* One of the names made from a name is free, whatever servers there are.
LEMMA NameIsFree ==
  ASSUME RegistryTypes, NEW name, NEW exclude
  PROVE  LET sub == Registry!MakeUniqueSubdomain(name, Registry!CollectReservedSubdomains(exclude)) IN
         /\ sub \notin Registry!CollectReservedSubdomains(exclude)
         /\ \E n \in Nat: sub = <<name, n>>
<1>1. PICK K \in Nat: K = Cardinality(Server)  BY RegistryConstants
<1>2. PICK reserved: reserved = Registry!CollectReservedSubdomains(exclude)  OBVIOUS
<1>3. PICK others \in SUBSET Server: others = DOMAIN rows \ {exclude}  BY DEF RegistryTypes
<1>4. reserved = {rows[s].sub: s \in others}
  BY <1>2, <1>3 DEF Registry!CollectReservedSubdomains, Registry!Rows
<1>5. PICK left \in SUBSET Nat: left = {n \in 1..K + 1: <<name, n>> \notin reserved}
  <2>1. 1..K + 1 \subseteq Nat  BY <1>1
  <2>2. {n \in 1..K + 1: <<name, n>> \notin reserved} \in SUBSET Nat  BY <2>1
  <2> QED  BY <2>2
<1>6. left # {}
  <2> SUFFICES ASSUME left = {} PROVE FALSE  OBVIOUS
  <2>1. \A n \in 1..K + 1: \E s \in others: rows[s].sub = <<name, n>>  BY <1>4, <1>5
  <2>2. PICK f: f = [n \in 1..K + 1 |-> CHOOSE s \in others: rows[s].sub = <<name, n>>]  OBVIOUS
  <2>3. \A n \in 1..K + 1: f[n] \in others /\ rows[f[n]].sub = <<name, n>>  BY <2>1, <2>2
  <2>4. f \in [1..K + 1 -> others]  BY <2>2, <2>3
  <2>5. IsFiniteSet(1..K + 1) /\ Cardinality(1..K + 1) = K + 1
    <3>1. K + 1 \in Int /\ 1 \in Int /\ ~ (1 > K + 1) /\ K + 1 - 1 + 1 = K + 1  BY <1>1
    <3> QED  BY <3>1, FS_Interval
  <2>6. IsFiniteSet(others) /\ Cardinality(others) \in Nat /\ Cardinality(others) <= K
    BY <1>1, <1>3, RegistryConstants, FS_Subset, FS_CardinalityType
  <2>7. Cardinality(others) < Cardinality(1..K + 1)  BY <1>1, <2>5, <2>6
  <2>8. PICK n, m \in 1..K + 1: n # m /\ f[n] = f[m]
    BY <2>4, <2>5, <2>6, <2>7, FS_PigeonHole
  <2>9. <<name, n>> = <<name, m>>  BY <2>3, <2>8
  <2> QED  BY <2>8, <2>9
<1>7. Registry!Min(left) \in left  BY <1>5, <1>6, LeastIsOne
<1>8. Registry!MakeUniqueSubdomain(name, reserved) = <<name, Registry!Min(left)>>
  BY <1>1, <1>5, SameCounting DEF Registry!MakeUniqueSubdomain
<1> QED  BY <1>2, <1>5, <1>7, <1>8

\* The subdomain a request gets is no other server's.
LEMMA ResolvedIsFree ==
  ASSUME RegistryTypes, NEW asked \in Registry!Asked, NEW name, NEW exclude,
         NEW sub \in Registry!ResolveServerSubdomain(asked, name, exclude)
  PROVE  /\ \A s \in DOMAIN rows \ {exclude}: rows[s].sub # sub
         /\ asked # {} \/ name \in Name => sub \in Name \X Nat
<1>1. sub \notin Registry!CollectReservedSubdomains(exclude)
  <2>1. CASE asked = {}
    BY <2>1, NameIsFree DEF Registry!ResolveServerSubdomain
  <2>2. CASE asked # {}
    BY <2>2 DEF Registry!ResolveServerSubdomain
  <2> QED  BY <2>1, <2>2
<1>2. \A s \in DOMAIN rows \ {exclude}: rows[s].sub # sub
  BY <1>1 DEF Registry!CollectReservedSubdomains, Registry!Rows
<1>3. ASSUME asked # {} PROVE sub \in Name \X Nat
  <2>1. sub \in asked  BY <1>3 DEF Registry!ResolveServerSubdomain
  <2>2. sub \in Name \X (1..Cardinality(Server))  BY <1>3, <2>1, SameCounting DEF Registry!Asked
  <2>3. 1..Cardinality(Server) \subseteq Nat  BY RegistryConstants
  <2> QED  BY <2>2, <2>3
<1>4. ASSUME asked = {}, name \in Name PROVE sub \in Name \X Nat
  BY <1>4, NameIsFree DEF Registry!ResolveServerSubdomain
<1> QED  BY <1>2, <1>3, <1>4

LEMMA RegistryStarts == Registry!Init => RegistryInv
<1> SUFFICES ASSUME Registry!Init PROVE RegistryInv  OBVIOUS
<1>1. DOMAIN rows = {} /\ rows = [s \in {} |-> Registry!None] /\ used = {} /\ disk = {}
      /\ reqs = [r \in Request |-> Registry!Quiet]
  BY DEF Registry!Init
<1>2. RegistryTypes  BY <1>1 DEF RegistryTypes, Asking
<1>3. Registry!SubdomainsUnique  BY <1>1 DEF Registry!SubdomainsUnique, Registry!Rows
<1>4. Fresh(Registry!Quiet) = {} /\ Stale(Registry!Quiet) = {}  BY DEF Fresh, Stale, Registry!Quiet
<1>5. PacksApart  BY <1>1, <1>4 DEF PacksApart
<1> QED  BY <1>2, <1>3, <1>5 DEF RegistryInv

\* What a request of each kind has brought, and what it is going to remove.
LEMMA FilesOf ==
  /\ Fresh(Registry!Quiet) = {} /\ Stale(Registry!Quiet) = {}
  /\ \A q \in Creating: Fresh(q) = {q.pack} /\ q.pack # Registry!None /\ Stale(q) = {}
  /\ \A q \in Changing: Fresh(q) = {} /\ Stale(q) = {}
  /\ \A q \in Filing: /\ Fresh(q) = {q.pack} /\ q.pack # Registry!None
                      /\ Stale(q) = {q.before} \ {Registry!None}
  /\ \A q \in Purging: Fresh(q) = {} /\ Stale(q) = {q.pack} \ {Registry!None}
  /\ \A q \in Deleting: Fresh(q) = {} /\ Stale(q) = {}
<1>1. Fresh(Registry!Quiet) = {} /\ Stale(Registry!Quiet) = {}  BY DEF Fresh, Stale, Registry!Quiet
<1>2. ASSUME NEW q \in Creating PROVE Fresh(q) = {q.pack} /\ q.pack # Registry!None /\ Stale(q) = {}
  BY RegistryConstants DEF Creating, Fresh, Stale
<1>3. ASSUME NEW q \in Changing PROVE Fresh(q) = {} /\ Stale(q) = {}
  BY DEF Changing, Fresh, Stale
<1>4. ASSUME NEW q \in Filing
      PROVE  Fresh(q) = {q.pack} /\ q.pack # Registry!None /\ Stale(q) = {q.before} \ {Registry!None}
  BY RegistryConstants DEF Filing, Fresh, Stale
<1>5. ASSUME NEW q \in Purging PROVE Fresh(q) = {} /\ Stale(q) = {q.pack} \ {Registry!None}
  BY DEF Purging, Fresh, Stale
<1>6. ASSUME NEW q \in Deleting PROVE Fresh(q) = {} /\ Stale(q) = {}
  BY DEF Deleting, Fresh, Stale
<1> QED  BY <1>1, <1>2, <1>3, <1>4, <1>5, <1>6

\* A request at a step is of one kind.
LEMMA KindOf ==
  ASSUME NEW q \in Asking
  PROVE  /\ q.pc = "port" => q \in Creating \cup Changing
         /\ q.pc \in {"create", "import", "replace"} => q \in Filing
         /\ q.pc = "purge" => q \in Purging
         /\ q.pc = "delete" => q \in Deleting
BY DEF Asking, Creating, Changing, Filing, Purging, Deleting, Registry!Quiet

\* Nothing comes to a server but the file it had, and nothing to a request
\* that it had not.
LEMMA NoNewFiles ==
  ASSUME PacksApart, used \subseteq used',
         \A r \in Request: /\ Fresh(reqs'[r]) \subseteq Fresh(reqs[r])
                           /\ Stale(reqs'[r]) \subseteq Stale(reqs[r])
                           /\ Stale(reqs'[r]) # {} => reqs'[r].server = reqs[r].server,
         \A s \in DOMAIN rows': \/ rows'[s].pack = Registry!None
                                \/ s \in DOMAIN rows /\ rows'[s].pack = rows[s].pack
  PROVE  PacksApart'
<1>1. \A s \in DOMAIN rows': rows'[s].pack \in used' \cup {Registry!None}
  BY DEF PacksApart
<1>2. \A r \in Request: Fresh(reqs'[r]) \subseteq used' /\ Stale(reqs'[r]) \subseteq used'
  BY DEF PacksApart
<1>3. \A s, t \in DOMAIN rows': s # t /\ rows'[s].pack = rows'[t].pack => rows'[s].pack = Registry!None
  BY DEF PacksApart
<1>4. \A r \in Request: Registry!None \notin Fresh(reqs'[r]) /\ Registry!None \notin Stale(reqs'[r])
  BY DEF Fresh, Stale
<1>5. \A r \in Request, s \in DOMAIN rows': rows'[s].pack \notin Fresh(reqs'[r])
  BY <1>4 DEF PacksApart
<1>6. \A r1, r2 \in Request: r1 # r2 => Fresh(reqs'[r1]) \cap Fresh(reqs'[r2]) = {}
  BY DEF PacksApart
<1>7. \A r1, r2 \in Request: Fresh(reqs'[r1]) \cap Stale(reqs'[r2]) = {}
  BY DEF PacksApart
<1>8. \A r \in Request, s \in DOMAIN rows': rows'[s].pack \in Stale(reqs'[r]) => s = reqs'[r].server
  BY <1>4 DEF PacksApart
<1> QED  BY <1>1, <1>2, <1>3, <1>5, <1>6, <1>7, <1>8 DEF PacksApart

\* A request goes on with no more files than it had.
LEMMA GoesOn ==
  ASSUME PacksApart, NEW r \in Request, NEW q, reqs \in [Request -> Asking], reqs' = [reqs EXCEPT ![r] = q],
         used \subseteq used',
         Fresh(q) \subseteq Fresh(reqs[r]), Stale(q) \subseteq Stale(reqs[r]),
         Stale(q) = {} \/ q.server = reqs[r].server,
         \A s \in DOMAIN rows': \/ rows'[s].pack = Registry!None
                                \/ s \in DOMAIN rows /\ rows'[s].pack = rows[s].pack
  PROVE  PacksApart'
<1>1. reqs'[r] = q /\ \A x \in Request: x # r => reqs'[x] = reqs[x]  OBVIOUS
<1>2. ASSUME NEW x \in Request
      PROVE  /\ Fresh(reqs'[x]) \subseteq Fresh(reqs[x]) /\ Stale(reqs'[x]) \subseteq Stale(reqs[x])
             /\ Stale(reqs'[x]) # {} => reqs'[x].server = reqs[x].server
  <2>1. CASE x = r  BY <1>1, <2>1
  <2>2. CASE x # r
    <3>1. reqs'[x] = reqs[x]  BY <1>1, <2>2
    <3> QED  BY <3>1
  <2> QED  BY <2>1, <2>2
<1> QED  BY <1>2, NoNewFiles

\* Some rows go, or none.
LEMMA FewerRows ==
  ASSUME RegistryTypes, Registry!SubdomainsUnique, NEW S \in SUBSET (DOMAIN rows),
         rows' = [x \in S |-> rows[x]]
  PROVE  /\ DOMAIN rows' \subseteq Server /\ rows' \in [DOMAIN rows' -> Row]
         /\ Registry!SubdomainsUnique'
         /\ \A s \in DOMAIN rows': s \in DOMAIN rows /\ rows'[s] = rows[s]
<1>1. DOMAIN rows' = S /\ \A s \in S: rows'[s] = rows[s]  OBVIOUS
<1>2. DOMAIN rows' \subseteq Server /\ rows' \in [DOMAIN rows' -> Row]  BY <1>1 DEF RegistryTypes
<1>3. Registry!SubdomainsUnique'  BY <1>1 DEF Registry!SubdomainsUnique, Registry!Rows
<1> QED  BY <1>1, <1>2, <1>3

LEMMA SameRows ==
  ASSUME RegistryTypes, Registry!SubdomainsUnique, rows' = rows
  PROVE  /\ DOMAIN rows' \subseteq Server /\ rows' \in [DOMAIN rows' -> Row]
         /\ Registry!SubdomainsUnique'
         /\ \A s \in DOMAIN rows': s \in DOMAIN rows /\ rows'[s] = rows[s]
BY DEF RegistryTypes, Registry!SubdomainsUnique, Registry!Rows

LEMMA AskToCreateKeeps ==
  ASSUME RegistryInv, NEW r \in Request, NEW kind \in {"create", "import"}, NEW p \in Pack,
         NEW name \in Name, NEW asked \in Registry!Asked, NEW want \in Registry!Wanted,
         Registry!AskToCreate(r, kind, p, name, asked, want)
  PROVE  RegistryInv'
<1>1. RegistryTypes /\ Registry!SubdomainsUnique /\ PacksApart  BY DEF RegistryInv
<1>2. PICK q: q = [pc |-> "port", kind |-> kind, pack |-> p, server |-> Registry!None, name |-> name,
                   asked |-> asked, try |-> want \ Registry!CollectReservedPorts(Registry!None)]
  OBVIOUS
<1>3. /\ reqs[r] = Registry!Quiet /\ p \notin used /\ used' = used \cup {p} /\ disk' = disk \cup {p}
      /\ reqs' = [reqs EXCEPT ![r] = q] /\ rows' = rows
  BY <1>2 DEF Registry!AskToCreate, Registry!Goes
<1>4. q \in Creating
  <2>1. want \subseteq Nat  BY RegistryConstants DEF Registry!Wanted, Registry!Ports
  <2> QED  BY <1>2, <2>1 DEF Creating
<1>5. Fresh(q) = {p} /\ Stale(q) = {}  BY <1>2, <1>4, FilesOf
<1>6. RegistryTypes'
  <2>1. reqs' \in [Request -> Asking]  BY <1>1, <1>3, <1>4 DEF RegistryTypes, Asking
  <2>2. disk' \subseteq Pack  BY <1>1, <1>3 DEF RegistryTypes
  <2> QED  BY <1>1, <1>3, <2>1, <2>2, SameRows DEF RegistryTypes
<1>7. reqs'[r] = q /\ \A x \in Request: x # r => reqs'[x] = reqs[x]
  BY <1>1, <1>3 DEF RegistryTypes
<1>8. PacksApart'
  <2>1. \A x \in Request: \/ Fresh(reqs'[x]) = Fresh(reqs[x]) /\ Stale(reqs'[x]) = Stale(reqs[x])
                             /\ reqs'[x] = reqs[x]
                          \/ x = r /\ Fresh(reqs'[x]) = {p} /\ Stale(reqs'[x]) = {}
    <3> TAKE x \in Request
    <3>1. CASE x = r  BY <1>5, <1>7, <3>1
    <3>2. CASE x # r
      <4>1. reqs'[x] = reqs[x]  BY <1>7, <3>2
      <4> QED  BY <4>1
    <3> QED  BY <3>1, <3>2
  <2>2. \A s \in DOMAIN rows': rows'[s].pack \in used' \cup {Registry!None}
    BY <1>1, <1>3 DEF PacksApart
  <2>3. \A x \in Request: Fresh(reqs'[x]) \subseteq used' /\ Stale(reqs'[x]) \subseteq used'
    BY <1>1, <1>3, <2>1 DEF PacksApart
  <2>4. \A s, t \in DOMAIN rows': s # t /\ rows'[s].pack = rows'[t].pack => rows'[s].pack = Registry!None
    BY <1>1, <1>3 DEF PacksApart
  <2>5. \A x \in Request, s \in DOMAIN rows': rows'[s].pack \notin Fresh(reqs'[x])
    <3>1. \A s \in DOMAIN rows: rows[s].pack # p  BY <1>1, <1>3, RegistryConstants DEF PacksApart
    <3> QED  BY <1>1, <1>3, <2>1, <3>1 DEF PacksApart
  <2>6. \A r1, r2 \in Request: r1 # r2 => Fresh(reqs'[r1]) \cap Fresh(reqs'[r2]) = {}
    <3>1. \A x \in Request: p \notin Fresh(reqs[x])  BY <1>1, <1>3 DEF PacksApart
    <3> QED  BY <1>1, <2>1, <3>1 DEF PacksApart
  <2>7. \A r1, r2 \in Request: Fresh(reqs'[r1]) \cap Stale(reqs'[r2]) = {}
    <3>1. \A x \in Request: p \notin Stale(reqs[x])  BY <1>1, <1>3 DEF PacksApart
    <3> QED  BY <1>1, <2>1, <3>1 DEF PacksApart
  <2>8. \A x \in Request, s \in DOMAIN rows': rows'[s].pack \in Stale(reqs'[x]) => s = reqs'[x].server
    BY <1>1, <1>3, <2>1 DEF PacksApart
  <2> QED  BY <2>2, <2>3, <2>4, <2>5, <2>6, <2>7, <2>8 DEF PacksApart
<1> QED  BY <1>1, <1>3, <1>6, <1>8, SameRows DEF RegistryInv

LEMMA AskToReplaceKeeps ==
  ASSUME RegistryInv, NEW r \in Request, NEW s \in Server, NEW p \in Pack,
         Registry!AskToReplace(r, s, p)
  PROVE  RegistryInv'
<1>1. RegistryTypes /\ Registry!SubdomainsUnique /\ PacksApart  BY DEF RegistryInv
<1>2. PICK q: q = [pc |-> "replace", server |-> s, pack |-> p, before |-> rows[s].pack]
  OBVIOUS
<1>3. /\ reqs[r] = Registry!Quiet /\ p \notin used /\ used' = used \cup {p} /\ disk' = disk \cup {p}
      /\ s \in DOMAIN rows
      /\ reqs' = [reqs EXCEPT ![r] = q] /\ rows' = rows
  BY <1>2 DEF Registry!AskToReplace, Registry!Goes, Registry!Rows
<1>4. q \in Filing
  <2>1. rows[s].pack \in Pack \cup {Registry!None}  BY <1>1, <1>3 DEF RegistryTypes, Row
  <2> QED  BY <1>2, <2>1 DEF Filing
<1>5. Fresh(q) = {p} /\ Stale(q) = {rows[s].pack} \ {Registry!None} /\ q.server = s
  BY <1>2, <1>4, FilesOf
<1>6. RegistryTypes'
  <2>1. reqs' \in [Request -> Asking]  BY <1>1, <1>3, <1>4 DEF RegistryTypes, Asking
  <2>2. disk' \subseteq Pack  BY <1>1, <1>3 DEF RegistryTypes
  <2> QED  BY <1>1, <1>3, <2>1, <2>2, SameRows DEF RegistryTypes
<1>7. reqs'[r] = q /\ \A x \in Request: x # r => reqs'[x] = reqs[x]
  BY <1>1, <1>3 DEF RegistryTypes
<1>8. PacksApart'
  <2>1. \A x \in Request: \/ Fresh(reqs'[x]) = Fresh(reqs[x]) /\ Stale(reqs'[x]) = Stale(reqs[x])
                             /\ reqs'[x] = reqs[x]
                          \/ /\ x = r /\ Fresh(reqs'[x]) = {p} /\ reqs'[x].server = s
                             /\ Stale(reqs'[x]) = {rows[s].pack} \ {Registry!None}
    <3> TAKE x \in Request
    <3>1. CASE x = r  BY <1>5, <1>7, <3>1
    <3>2. CASE x # r
      <4>1. reqs'[x] = reqs[x]  BY <1>7, <3>2
      <4> QED  BY <4>1
    <3> QED  BY <3>1, <3>2
  <2>2. \A t \in DOMAIN rows': rows'[t].pack \in used' \cup {Registry!None}
    BY <1>1, <1>3 DEF PacksApart
  <2>3. \A x \in Request: Fresh(reqs'[x]) \subseteq used' /\ Stale(reqs'[x]) \subseteq used'
    BY <1>1, <1>3, <2>1 DEF PacksApart
  <2>4. \A u, t \in DOMAIN rows': u # t /\ rows'[u].pack = rows'[t].pack => rows'[u].pack = Registry!None
    BY <1>1, <1>3 DEF PacksApart
  <2>5. \A x \in Request, t \in DOMAIN rows': rows'[t].pack \notin Fresh(reqs'[x])
    <3>1. \A t \in DOMAIN rows: rows[t].pack # p  BY <1>1, <1>3, RegistryConstants DEF PacksApart
    <3> QED  BY <1>1, <1>3, <2>1, <3>1 DEF PacksApart
  <2>6. \A r1, r2 \in Request: r1 # r2 => Fresh(reqs'[r1]) \cap Fresh(reqs'[r2]) = {}
    <3>1. \A x \in Request: p \notin Fresh(reqs[x])  BY <1>1, <1>3 DEF PacksApart
    <3> QED  BY <1>1, <2>1, <3>1 DEF PacksApart
  <2>7. \A r1, r2 \in Request: Fresh(reqs'[r1]) \cap Stale(reqs'[r2]) = {}
    <3>1. \A x \in Request: p \notin Stale(reqs[x])  BY <1>1, <1>3 DEF PacksApart
    <3>2. \A x \in Request: rows[s].pack \notin Fresh(reqs[x])  BY <1>1, <1>3 DEF PacksApart
    <3>3. rows[s].pack # p  BY <1>1, <1>3, RegistryConstants DEF PacksApart
    <3> QED  BY <1>1, <2>1, <3>1, <3>2, <3>3 DEF PacksApart
  <2>8. \A x \in Request, t \in DOMAIN rows': rows'[t].pack \in Stale(reqs'[x]) => t = reqs'[x].server
    <3>1. \A t \in DOMAIN rows: rows[t].pack = rows[s].pack => t = s \/ rows[t].pack = Registry!None
      BY <1>1, <1>3 DEF PacksApart
    <3> QED  BY <1>1, <1>3, <2>1, <3>1 DEF PacksApart
  <2> QED  BY <2>2, <2>3, <2>4, <2>5, <2>6, <2>7, <2>8 DEF PacksApart
<1> QED  BY <1>1, <1>3, <1>6, <1>8, SameRows DEF RegistryInv

LEMMA AskToDeleteKeeps ==
  ASSUME RegistryInv, NEW r \in Request, NEW s \in Server, Registry!AskToDelete(r, s)
  PROVE  RegistryInv'
<1>1. RegistryTypes /\ Registry!SubdomainsUnique /\ PacksApart  BY DEF RegistryInv
<1>2. PICK q: q = [pc |-> "purge", server |-> s, pack |-> rows[s].pack]
  OBVIOUS
<1>3. /\ s \in DOMAIN rows /\ reqs' = [reqs EXCEPT ![r] = q]
      /\ UNCHANGED <<rows, used, disk>>
  BY <1>2 DEF Registry!AskToDelete, Registry!Goes, Registry!Rows
<1>4. q \in Purging
  <2>1. rows[s].pack \in Pack \cup {Registry!None}  BY <1>1, <1>3 DEF RegistryTypes, Row
  <2> QED  BY <1>2, <2>1 DEF Purging
<1>5. Fresh(q) = {} /\ Stale(q) = {rows[s].pack} \ {Registry!None} /\ q.server = s
  BY <1>2, <1>4, FilesOf
<1>6. RegistryTypes'
  <2>1. reqs' \in [Request -> Asking]  BY <1>1, <1>3, <1>4 DEF RegistryTypes, Asking
  <2> QED  BY <1>1, <1>3, <2>1, SameRows DEF RegistryTypes
<1>7. reqs'[r] = q /\ \A x \in Request: x # r => reqs'[x] = reqs[x]
  BY <1>1, <1>3 DEF RegistryTypes
<1>8. PacksApart'
  <2>1. \A x \in Request: \/ Fresh(reqs'[x]) = Fresh(reqs[x]) /\ Stale(reqs'[x]) = Stale(reqs[x])
                             /\ reqs'[x] = reqs[x]
                          \/ /\ x = r /\ Fresh(reqs'[x]) = {} /\ reqs'[x].server = s
                             /\ Stale(reqs'[x]) = {rows[s].pack} \ {Registry!None}
    <3> TAKE x \in Request
    <3>1. CASE x = r  BY <1>5, <1>7, <3>1
    <3>2. CASE x # r
      <4>1. reqs'[x] = reqs[x]  BY <1>7, <3>2
      <4> QED  BY <4>1
    <3> QED  BY <3>1, <3>2
  <2>2. \A t \in DOMAIN rows': rows'[t].pack \in used' \cup {Registry!None}
    BY <1>1, <1>3 DEF PacksApart
  <2>3. \A x \in Request: Fresh(reqs'[x]) \subseteq used' /\ Stale(reqs'[x]) \subseteq used'
    BY <1>1, <1>3, <2>1 DEF PacksApart
  <2>4. \A u, t \in DOMAIN rows': u # t /\ rows'[u].pack = rows'[t].pack => rows'[u].pack = Registry!None
    BY <1>1, <1>3 DEF PacksApart
  <2>5. \A x \in Request, t \in DOMAIN rows': rows'[t].pack \notin Fresh(reqs'[x])
    BY <1>1, <1>3, <2>1 DEF PacksApart
  <2>6. \A r1, r2 \in Request: r1 # r2 => Fresh(reqs'[r1]) \cap Fresh(reqs'[r2]) = {}
    BY <1>1, <2>1 DEF PacksApart
  <2>7. \A r1, r2 \in Request: Fresh(reqs'[r1]) \cap Stale(reqs'[r2]) = {}
    <3>1. \A x \in Request: rows[s].pack \notin Fresh(reqs[x])  BY <1>1, <1>3 DEF PacksApart
    <3> QED  BY <1>1, <2>1, <3>1 DEF PacksApart
  <2>8. \A x \in Request, t \in DOMAIN rows': rows'[t].pack \in Stale(reqs'[x]) => t = reqs'[x].server
    <3>1. \A t \in DOMAIN rows: rows[t].pack = rows[s].pack => t = s \/ rows[t].pack = Registry!None
      BY <1>1, <1>3 DEF PacksApart
    <3> QED  BY <1>1, <1>3, <2>1, <3>1 DEF PacksApart
  <2> QED  BY <2>2, <2>3, <2>4, <2>5, <2>6, <2>7, <2>8 DEF PacksApart
<1> QED  BY <1>1, <1>3, <1>6, <1>8, SameRows DEF RegistryInv

\* A step that gives a request no file and leaves a part of the rows.
LEMMA Shrinks ==
  ASSUME RegistryInv, NEW r \in Request, NEW q \in Asking, reqs' = [reqs EXCEPT ![r] = q],
         used' = used, disk' \subseteq disk,
         Fresh(q) \subseteq Fresh(reqs[r]), Stale(q) \subseteq Stale(reqs[r]),
         Stale(q) = {} \/ q.server = reqs[r].server,
         rows' = rows \/ \E S \in SUBSET (DOMAIN rows): rows' = [x \in S |-> rows[x]]
  PROVE  RegistryInv'
<1>1. RegistryTypes /\ Registry!SubdomainsUnique /\ PacksApart  BY DEF RegistryInv
<1>2. /\ DOMAIN rows' \subseteq Server /\ rows' \in [DOMAIN rows' -> Row]
      /\ Registry!SubdomainsUnique'
      /\ \A s \in DOMAIN rows': s \in DOMAIN rows /\ rows'[s] = rows[s]
  BY <1>1, SameRows, FewerRows
<1>3. reqs \in [Request -> Asking] /\ reqs' \in [Request -> Asking] /\ disk' \subseteq Pack
  BY <1>1 DEF RegistryTypes
<1>4. RegistryTypes'  BY <1>2, <1>3 DEF RegistryTypes
<1>5. PacksApart'  BY <1>1, <1>2, <1>3, GoesOn
<1> QED  BY <1>2, <1>4, <1>5 DEF RegistryInv

LEMMA AskToChangeKeeps ==
  ASSUME RegistryInv, NEW r \in Request, NEW s \in Server, NEW asked \in Registry!Asked,
         NEW want \in Registry!Wanted, Registry!AskToChange(r, s, asked, want)
  PROVE  RegistryInv'
<1>1. PICK q: q = [pc |-> "port", kind |-> "change", pack |-> Registry!None, server |-> s,
                   name |-> Registry!None, asked |-> asked, try |-> want \ Registry!CollectReservedPorts(s)]
  OBVIOUS
<1>2. reqs' = [reqs EXCEPT ![r] = q] /\ UNCHANGED <<rows, used, disk>>
  BY <1>1 DEF Registry!AskToChange, Registry!Goes
<1>3. q \in Changing
  <2>1. want \subseteq Nat  BY RegistryConstants DEF Registry!Wanted, Registry!Ports
  <2> QED  BY <1>1, <2>1 DEF Changing
<1>4. Fresh(q) = {} /\ Stale(q) = {}  BY <1>3, FilesOf
<1> QED  BY <1>2, <1>3, <1>4, Shrinks DEF Asking

LEMMA PortTakenKeeps ==
  ASSUME RegistryInv, NEW r \in Request, Registry!PortTaken(r)
  PROVE  RegistryInv'
<1>1. PICK old \in Asking: old = reqs[r]  BY DEF RegistryInv, RegistryTypes
<1>2. PICK q: q = [old EXCEPT !.try = old.try \ {Registry!Min(old.try)}]  OBVIOUS
<1>3. old.pc = "port" /\ reqs' = [reqs EXCEPT ![r] = q] /\ UNCHANGED <<rows, used, disk>>
  BY <1>1, <1>2 DEF Registry!PortTaken
<1>4. old \in Creating \/ old \in Changing  BY <1>3, KindOf
<1>5. CASE old \in Creating
  <2>1. q \in Creating /\ q.pack = old.pack  BY <1>2, <1>5 DEF Creating
  <2>2. Fresh(q) = Fresh(old) /\ Stale(q) = {}  BY <1>5, <2>1, FilesOf
  <2> QED  BY <1>1, <1>3, <2>1, <2>2, Shrinks DEF Asking
<1>6. CASE old \in Changing
  <2>1. q \in Changing  BY <1>2, <1>6 DEF Changing
  <2>2. Fresh(q) = {} /\ Stale(q) = {}  BY <2>1, FilesOf
  <2> QED  BY <1>1, <1>3, <2>1, <2>2, Shrinks DEF Asking
<1> QED  BY <1>4, <1>5, <1>6

\* A request ends and leaves the list as it is, or takes a row off it.
LEMMA EndKeeps ==
  ASSUME RegistryInv, NEW r \in Request, Registry!Ends(r), used' = used, disk' \subseteq disk,
         rows' = rows \/ \E S \in SUBSET (DOMAIN rows): rows' = [x \in S |-> rows[x]]
  PROVE  RegistryInv'
<1>1. reqs' = [reqs EXCEPT ![r] = Registry!Quiet]  BY DEF Registry!Ends
<1>2. Registry!Quiet \in Asking  BY DEF Asking
<1> QED  BY <1>1, <1>2, FilesOf, Shrinks

LEMMA RefusedKeeps ==
  ASSUME RegistryInv, NEW r \in Request, Registry!NoPort(r) \/ Registry!NoSubdomain(r)
  PROVE  RegistryInv'
BY EndKeeps DEF Registry!NoPort, Registry!NoSubdomain

LEMMA DroppedKeeps ==
  ASSUME RegistryInv, NEW r \in Request,
         Registry!NotRenamed(r) \/ Registry!Imported(r) \/ Registry!Deleted(r)
  PROVE  RegistryInv'
<1>1. PICK s: s = reqs[r].server  OBVIOUS
<1>2. Registry!Ends(r) /\ used' = used /\ disk' \subseteq disk
  BY DEF Registry!NotRenamed, Registry!Imported, Registry!Deleted
<1>3. rows' = rows \/ rows' = [x \in DOMAIN rows \ {s} |-> rows[x]]
  BY <1>1 DEF Registry!NotRenamed, Registry!Imported, Registry!Deleted, Registry!Rows
<1>4. DOMAIN rows \ {s} \in SUBSET (DOMAIN rows)  OBVIOUS
<1> QED  BY <1>2, <1>3, <1>4, EndKeeps

LEMMA PurgedKeeps ==
  ASSUME RegistryInv, NEW r \in Request, Registry!Purged(r)
  PROVE  RegistryInv'
<1>1. PICK old \in Asking: old = reqs[r]  BY DEF RegistryInv, RegistryTypes
<1>2. PICK q: q = [pc |-> "delete", server |-> old.server]  OBVIOUS
<1>3. /\ old.pc = "purge" /\ reqs' = [reqs EXCEPT ![r] = q] /\ UNCHANGED <<rows, used>>
      /\ disk' \subseteq disk
  BY <1>1, <1>2 DEF Registry!Purged, Registry!Goes
<1>4. old \in Purging  BY <1>3, KindOf
<1>5. q \in Deleting  BY <1>2, <1>4 DEF Purging, Deleting
<1>6. Fresh(q) = {} /\ Stale(q) = {}  BY <1>5, FilesOf
<1> QED  BY <1>1, <1>3, <1>5, <1>6, Shrinks DEF Asking

\* Nothing is held by a request any more, the rows stay.
LEMMA StopForgets ==
  ASSUME RegistryInv, Registry!BackendStops \/ UNCHANGED registryVars
  PROVE  RegistryInv'
<1>1. RegistryTypes /\ Registry!SubdomainsUnique /\ PacksApart  BY DEF RegistryInv
<1>2. UNCHANGED <<rows, used, disk>> /\ (reqs' = reqs \/ reqs' = [r \in Request |-> Registry!Quiet])
  BY DEF Registry!BackendStops, registryVars
<1>3. RegistryTypes'
  <2>1. reqs' \in [Request -> Asking]  BY <1>1, <1>2 DEF RegistryTypes, Asking
  <2> QED  BY <1>1, <1>2, <2>1, SameRows DEF RegistryTypes
<1>4. \A r \in Request: reqs'[r] = reqs[r] \/ (Fresh(reqs'[r]) = {} /\ Stale(reqs'[r]) = {})
  BY <1>2, FilesOf
<1>5. \A r \in Request: /\ Fresh(reqs'[r]) \subseteq Fresh(reqs[r])
                        /\ Stale(reqs'[r]) \subseteq Stale(reqs[r])
                        /\ Stale(reqs'[r]) # {} => reqs'[r].server = reqs[r].server
  BY <1>4
<1>6. PacksApart'  BY <1>1, <1>2, <1>5, NoNewFiles
<1> QED  BY <1>1, <1>2, <1>3, <1>6, SameRows DEF RegistryInv

LEMMA PortFreeKeeps ==
  ASSUME RegistryInv, NEW r \in Request, NEW s \in Server, Registry!PortFree(r, s)
  PROVE  RegistryInv'
<1>1. RegistryTypes /\ Registry!SubdomainsUnique /\ PacksApart  BY DEF RegistryInv
<1>2. PICK old \in Asking: old = reqs[r]  BY <1>1 DEF RegistryTypes
<1>3. old.pc = "port" /\ old.try # {} /\ disk' = disk  BY <1>2 DEF Registry!PortFree
<1>4. old \in Creating \/ old \in Changing  BY <1>3, KindOf
<1>5. old.asked \in Registry!Asked /\ old.try \subseteq Nat  BY <1>4 DEF Creating, Changing
<1>6. PICK port \in Nat: port = Registry!Min(old.try)  BY <1>3, <1>5, LeastIsOne
<1>7. PICK sub \in Registry!ResolveServerSubdomain(old.asked, old.name, old.server):
        IF old.kind = "change"
        THEN /\ s = old.server
             /\ rows' = [rows EXCEPT ![s].port = port, ![s].sub = IF old.asked = {} THEN @ ELSE sub]
             /\ Registry!Ends(r) /\ used' = used
        ELSE /\ used' = used \cup {s}
             /\ rows' = [x \in DOMAIN rows \cup {s} |->
                           IF x = s THEN [port |-> port, sub |-> sub, pack |-> Registry!None] ELSE rows[x]]
             /\ Registry!Goes(r, [pc |-> old.kind, server |-> s, pack |-> old.pack, before |-> Registry!None])
  BY <1>2, <1>6 DEF Registry!PortFree, Registry!Rows
<1>8. /\ \A t \in DOMAIN rows \ {old.server}: rows[t].sub # sub
      /\ old.asked # {} \/ old.name \in Name => sub \in Name \X Nat
  BY <1>1, <1>5, <1>7, ResolvedIsFree
<1>9. CASE old \in Changing
  <2>1. old.kind = "change"  BY <1>9 DEF Changing
  <2>2. rows' = [rows EXCEPT ![s].port = port, ![s].sub = IF old.asked = {} THEN @ ELSE sub]
    BY <1>7, <2>1
  <2>3. s = old.server /\ reqs' = [reqs EXCEPT ![r] = Registry!Quiet] /\ used' = used
    BY <1>7, <2>1 DEF Registry!Ends
  <2>4. PICK named: named = IF old.asked = {} THEN rows[s].sub ELSE sub  OBVIOUS
  <2>5. s \in DOMAIN rows => rows[s] \in Row  BY <1>1 DEF RegistryTypes
  <2>6. PICK row2: row2 = [rows[s] EXCEPT !.port = port, !.sub = named]  OBVIOUS
  <2>7. s \in DOMAIN rows => /\ row2 \in Row /\ row2.sub = named /\ row2.pack = rows[s].pack
    BY <1>8, <2>4, <2>5, <2>6 DEF Row
  <2>8. rows' = [rows EXCEPT ![s] = row2]
    <3>1. CASE s \notin DOMAIN rows  BY <1>1, <2>2, <3>1 DEF RegistryTypes
    <3>2. CASE s \in DOMAIN rows
      BY <1>1, <2>2, <2>4, <2>5, <2>6, <3>2 DEF RegistryTypes, Row
    <3> QED  BY <3>1, <3>2
  <2>9. DOMAIN rows' = DOMAIN rows /\ rows' \in [DOMAIN rows -> Row]
    BY <1>1, <2>7, <2>8 DEF RegistryTypes
  <2>10. /\ \A t \in DOMAIN rows: t # s => rows'[t] = rows[t]
         /\ s \in DOMAIN rows => rows'[s] = row2
    BY <1>1, <2>8 DEF RegistryTypes
  <2>11. Registry!SubdomainsUnique'
    <3>1. \A t \in DOMAIN rows: t # s /\ s \in DOMAIN rows => rows[t].sub # named
      BY <1>1, <1>8, <2>3, <2>4 DEF Registry!SubdomainsUnique, Registry!Rows
    <3>2. \A t \in DOMAIN rows: rows'[t].sub = IF t = s THEN named ELSE rows[t].sub
      BY <2>7, <2>10
    <3> QED  BY <1>1, <2>9, <3>1, <3>2 DEF Registry!SubdomainsUnique, Registry!Rows
  <2>12. RegistryTypes'
    <3>1. reqs' \in [Request -> Asking]  BY <1>1, <2>3 DEF RegistryTypes, Asking
    <3> QED  BY <1>1, <1>3, <2>9, <3>1 DEF RegistryTypes
  <2>13. PacksApart'
    <3>1. \A t \in DOMAIN rows': t \in DOMAIN rows /\ rows'[t].pack = rows[t].pack
      BY <2>7, <2>9, <2>10
    <3> QED  BY <1>1, <2>3, <3>1, FilesOf, GoesOn DEF RegistryTypes
  <2> QED  BY <2>11, <2>12, <2>13 DEF RegistryInv
<1>10. CASE old \in Creating
  <2>1. old.kind \in {"create", "import"} /\ old.server = Registry!None /\ old.name \in Name /\ old.pack \in Pack
    BY <1>10 DEF Creating
  <2>2. PICK row2: row2 = [port |-> port, sub |-> sub, pack |-> Registry!None]  OBVIOUS
  <2>3. rows' = [x \in DOMAIN rows \cup {s} |-> IF x = s THEN row2 ELSE rows[x]]
    BY <1>7, <2>1, <2>2
  <2>4. PICK q: q = [pc |-> old.kind, server |-> s, pack |-> old.pack, before |-> Registry!None]  OBVIOUS
  <2>5. used' = used \cup {s} /\ reqs' = [reqs EXCEPT ![r] = q]
    BY <1>7, <2>1, <2>4 DEF Registry!Goes
  <2>6. row2 \in Row /\ row2.sub = sub /\ row2.pack = Registry!None  BY <1>8, <2>1, <2>2 DEF Row
  <2>7. q \in Filing /\ q.pack = old.pack /\ q.before = Registry!None  BY <2>1, <2>4 DEF Filing
  <2>8. Fresh(q) = Fresh(old) /\ Stale(q) = {}  BY <1>10, <2>7, FilesOf
  <2>9. /\ DOMAIN rows' = DOMAIN rows \cup {s} /\ rows'[s] = row2
        /\ \A t \in DOMAIN rows: t # s => rows'[t] = rows[t]
    BY <2>3
  <2>10. RegistryTypes'
    <3>1. DOMAIN rows' \subseteq Server /\ rows' \in [DOMAIN rows' -> Row]
      BY <1>1, <2>3, <2>6 DEF RegistryTypes
    <3>2. reqs' \in [Request -> Asking]  BY <1>1, <2>5, <2>7 DEF RegistryTypes, Asking
    <3> QED  BY <1>1, <1>3, <3>1, <3>2 DEF RegistryTypes
  <2>11. Registry!SubdomainsUnique'
    <3>1. \A t \in DOMAIN rows: rows[t].sub # sub
      BY <1>1, <1>8, <2>1, RegistryConstants DEF RegistryTypes
    <3>2. \A t \in DOMAIN rows': rows'[t].sub = IF t = s THEN sub ELSE rows[t].sub
      BY <2>6, <2>9
    <3> QED  BY <1>1, <2>9, <3>1, <3>2 DEF Registry!SubdomainsUnique, Registry!Rows
  <2>12. PacksApart'
    <3>1. \A t \in DOMAIN rows': \/ rows'[t].pack = Registry!None
                                 \/ t \in DOMAIN rows /\ rows'[t].pack = rows[t].pack
      BY <2>6, <2>9
    <3>2. used \subseteq used'  BY <2>5
    <3> QED  BY <1>1, <1>2, <2>5, <2>8, <3>1, <3>2, GoesOn DEF RegistryTypes
  <2> QED  BY <2>10, <2>11, <2>12 DEF RegistryInv
<1> QED  BY <1>4, <1>9, <1>10

\* The upload becomes the server's pack: it was no other's.
LEMMA RenamedKeeps ==
  ASSUME RegistryInv, NEW r \in Request, Registry!Renamed(r)
  PROVE  RegistryInv'
<1>1. RegistryTypes /\ Registry!SubdomainsUnique /\ PacksApart  BY DEF RegistryInv
<1>2. PICK old \in Asking: old = reqs[r]  BY <1>1 DEF RegistryTypes
<1>3. PICK s \in Server, p \in Pack: s = old.server /\ p = old.pack /\ old \in Filing
  <2>1. old.pc \in {"create", "replace"}  BY <1>2 DEF Registry!Renamed
  <2>2. old \in Filing  BY <2>1, KindOf
  <2> QED  BY <2>2 DEF Filing
<1>4. /\ rows' = IF s \in DOMAIN rows THEN [rows EXCEPT ![s].pack = p] ELSE rows
      /\ disk' \subseteq disk /\ used' = used /\ reqs' = [reqs EXCEPT ![r] = Registry!Quiet]
  BY <1>2, <1>3 DEF Registry!Renamed, Registry!Ends, Registry!Rows
<1>5. Fresh(reqs[r]) = {p}  BY <1>2, <1>3, FilesOf
<1>6. reqs' \in [Request -> Asking]  BY <1>1, <1>4 DEF RegistryTypes, Asking
<1>7. CASE s \notin DOMAIN rows
  <2>1. rows' = rows  BY <1>4, <1>7
  <2> QED  BY <1>4, <2>1, EndKeeps DEF Registry!Ends
<1>8. CASE s \in DOMAIN rows
  <2>1. rows[s] \in Row  BY <1>1, <1>8 DEF RegistryTypes
  <2>2. PICK row2 \in Row: row2 = [rows[s] EXCEPT !.pack = p]  BY <2>1 DEF Row
  <2>3. row2.pack = p /\ row2.sub = rows[s].sub  BY <2>1, <2>2 DEF Row
  <2>4. rows' = [rows EXCEPT ![s] = row2]  BY <1>4, <1>8, <2>2
  <2>5. /\ DOMAIN rows' = DOMAIN rows /\ rows' \in [DOMAIN rows -> Row] /\ rows'[s] = row2
        /\ \A t \in DOMAIN rows: t # s => rows'[t] = rows[t]
    BY <1>1, <1>8, <2>4 DEF RegistryTypes
  <2>6. RegistryTypes'  BY <1>1, <1>4, <1>6, <2>5 DEF RegistryTypes
  <2>7. Registry!SubdomainsUnique'
    <3>1. \A t \in DOMAIN rows: rows'[t].sub = rows[t].sub  BY <2>3, <2>5
    <3> QED  BY <1>1, <2>5, <3>1 DEF Registry!SubdomainsUnique, Registry!Rows
  <2>8. PacksApart'
    <3>1. \A x \in Request: \/ /\ reqs'[x] = reqs[x] /\ x # r
                               /\ Fresh(reqs'[x]) = Fresh(reqs[x]) /\ Stale(reqs'[x]) = Stale(reqs[x])
                            \/ Fresh(reqs'[x]) = {} /\ Stale(reqs'[x]) = {}
      <4> TAKE x \in Request
      <4>1. CASE x = r
        <5>1. reqs'[x] = Registry!Quiet  BY <1>1, <1>4, <4>1 DEF RegistryTypes
        <5> QED  BY <5>1, FilesOf
      <4>2. CASE x # r
        <5>1. reqs'[x] = reqs[x]  BY <1>1, <1>4, <4>2 DEF RegistryTypes
        <5> QED  BY <4>2, <5>1
      <4> QED  BY <4>1, <4>2
    <3>2. \A t \in DOMAIN rows: rows'[t].pack = IF t = s THEN p ELSE rows[t].pack
      BY <2>3, <2>5
    <3>3. \A t \in DOMAIN rows: rows[t].pack # p  BY <1>1, <1>5 DEF PacksApart
    <3>4. \A x \in Request: x # r => p \notin Fresh(reqs[x])  BY <1>1, <1>5 DEF PacksApart
    <3>5. \A x \in Request: p \notin Stale(reqs[x])  BY <1>1, <1>5 DEF PacksApart
    <3>6. p \in used  BY <1>1, <1>5 DEF PacksApart
    <3>7. \A t \in DOMAIN rows': rows'[t].pack \in used' \cup {Registry!None}
      BY <1>1, <1>4, <2>5, <3>2, <3>6 DEF PacksApart
    <3>8. \A x \in Request: Fresh(reqs'[x]) \subseteq used' /\ Stale(reqs'[x]) \subseteq used'
      BY <1>1, <1>4, <3>1 DEF PacksApart
    <3>9. \A u, t \in DOMAIN rows': u # t /\ rows'[u].pack = rows'[t].pack => rows'[u].pack = Registry!None
      BY <1>1, <2>5, <3>2, <3>3 DEF PacksApart
    <3>10. \A x \in Request, t \in DOMAIN rows': rows'[t].pack \notin Fresh(reqs'[x])
      BY <1>1, <2>5, <3>1, <3>2, <3>4 DEF PacksApart
    <3>11. \A r1, r2 \in Request: r1 # r2 => Fresh(reqs'[r1]) \cap Fresh(reqs'[r2]) = {}
      BY <1>1, <3>1 DEF PacksApart
    <3>12. \A r1, r2 \in Request: Fresh(reqs'[r1]) \cap Stale(reqs'[r2]) = {}
      BY <1>1, <3>1 DEF PacksApart
    <3>13. \A x \in Request, t \in DOMAIN rows': rows'[t].pack \in Stale(reqs'[x]) => t = reqs'[x].server
      BY <1>1, <2>5, <3>1, <3>2, <3>5 DEF PacksApart
    <3> QED  BY <3>7, <3>8, <3>9, <3>10, <3>11, <3>12, <3>13 DEF PacksApart
  <2> QED  BY <2>6, <2>7, <2>8 DEF RegistryInv
<1> QED  BY <1>7, <1>8

LEMMA RegistryKeeps == RegistryInv /\ [Registry!Next]_registryVars => RegistryInv'
<1> SUFFICES ASSUME RegistryInv, [Registry!Next]_registryVars PROVE RegistryInv'  OBVIOUS
<1>1. CASE Registry!BackendStops \/ UNCHANGED registryVars
  BY <1>1, StopForgets
<1>2. CASE \E r \in Request:
             \/ \E kind \in {"create", "import"}, p \in Pack, name \in Name,
                   asked \in Registry!Asked, want \in Registry!Wanted:
                  Registry!AskToCreate(r, kind, p, name, asked, want)
             \/ \E s \in Server, asked \in Registry!Asked, want \in Registry!Wanted \ {Registry!Ports}:
                  Registry!AskToChange(r, s, asked, want)
  BY <1>2, AskToCreateKeeps, AskToChangeKeeps
<1>3. CASE \E r \in Request:
             \/ \E s \in Server: Registry!PortFree(r, s) \/ Registry!AskToDelete(r, s)
             \/ \E s \in Server, p \in Pack: Registry!AskToReplace(r, s, p)
  BY <1>3, PortFreeKeeps, AskToDeleteKeeps, AskToReplaceKeeps
<1>4. CASE \E r \in Request:
             \/ Registry!PortTaken(r) \/ Registry!NoPort(r) \/ Registry!NoSubdomain(r)
             \/ Registry!Renamed(r) \/ Registry!NotRenamed(r) \/ Registry!Imported(r)
             \/ Registry!Purged(r) \/ Registry!Deleted(r)
  BY <1>4, PortTakenKeeps, RefusedKeeps, RenamedKeeps, DroppedKeeps, PurgedKeeps
<1> QED  BY <1>1, <1>2, <1>3, <1>4 DEF Registry!Next

\* What a step removes was a request's own upload, the file of a server that
\* is being deleted, or one that its server has no more.
LEMMA RemovedIsStale ==
  ASSUME RegistryInv, [Registry!Next]_registryVars,
         NEW s \in DOMAIN rows', rows'[s].pack \in disk \ disk'
  PROVE  \E r \in Request: reqs[r].pc = "purge" /\ reqs[r].server = s
<1>1. RegistryTypes /\ PacksApart  BY DEF RegistryInv
<1>2. PICK p \in Pack: p = rows'[s].pack  BY <1>1 DEF RegistryTypes
<1>3. p \in disk /\ p \notin disk' /\ p # Registry!None  BY <1>2, RegistryConstants
<1>4. PICK r \in Request: \/ Registry!Renamed(r) \/ Registry!NotRenamed(r) \/ Registry!Imported(r)
                          \/ Registry!Purged(r)
  BY <1>3 DEF Registry!Next, Registry!AskToCreate, Registry!AskToChange, Registry!PortFree,
     Registry!AskToDelete, Registry!AskToReplace, Registry!PortTaken, Registry!NoPort,
     Registry!NoSubdomain, Registry!Deleted, Registry!BackendStops, registryVars
<1>5. PICK old \in Asking: old = reqs[r]  BY <1>1 DEF RegistryTypes
<1>6. CASE Registry!Renamed(r)
  <2>1. old.pc \in {"create", "replace"} /\ disk' = disk \ {old.before}  BY <1>5, <1>6 DEF Registry!Renamed
  <2>2. old \in Filing  BY <2>1, KindOf
  <2>3. p = old.before  BY <1>3, <2>1
  <2>4. p \in Stale(reqs[r]) /\ Fresh(reqs[r]) = {old.pack}  BY <1>3, <1>5, <2>2, <2>3, FilesOf
  <2>5. p # old.pack  BY <1>1, <2>4 DEF PacksApart
  <2>6. PICK t: t = old.server  OBVIOUS
  <2>7. rows' = IF t \in DOMAIN rows THEN [rows EXCEPT ![t].pack = old.pack] ELSE rows
    BY <1>5, <1>6, <2>6 DEF Registry!Renamed, Registry!Rows
  <2>8. DOMAIN rows' = DOMAIN rows /\ (s # t => rows'[s] = rows[s])
    BY <1>1, <2>7 DEF RegistryTypes
  <2>9. s # t
    <3> SUFFICES ASSUME s = t PROVE FALSE  OBVIOUS
    <3>1. rows[s] \in Row  BY <1>1, <2>8 DEF RegistryTypes
    <3>2. rows'[s] = [rows[s] EXCEPT !.pack = old.pack]  BY <1>1, <2>7, <2>8 DEF RegistryTypes
    <3>3. rows'[s].pack = old.pack  BY <3>1, <3>2 DEF Row
    <3> QED  BY <1>2, <2>5, <3>3
  <2>10. rows[s].pack \in Stale(reqs[r])  BY <1>2, <2>4, <2>8, <2>9
  <2> QED  BY <1>1, <1>5, <2>6, <2>8, <2>9, <2>10 DEF PacksApart
<1>7. CASE Registry!NotRenamed(r)
  <2>1. old.pc \in {"create", "replace"}  BY <1>5, <1>7 DEF Registry!NotRenamed
  <2>2. disk' = disk \ {old.pack}  BY <1>5, <1>7 DEF Registry!NotRenamed
  <2>3. s \in DOMAIN rows /\ rows'[s] = rows[s]
    BY <1>1, <1>7 DEF Registry!NotRenamed, Registry!Rows, RegistryTypes
  <2>4. old \in Filing  BY <2>1, KindOf
  <2>5. p \in Fresh(reqs[r])  BY <1>3, <1>5, <2>2, <2>4, FilesOf
  <2> QED  BY <1>1, <1>2, <2>3, <2>5 DEF PacksApart
<1>8. CASE Registry!Imported(r)
  <2>1. old.pc = "import"  BY <1>5, <1>8 DEF Registry!Imported
  <2>2. disk' = disk \ {old.pack}  BY <1>5, <1>8 DEF Registry!Imported
  <2>3. s \in DOMAIN rows /\ rows'[s] = rows[s]
    BY <1>1, <1>8 DEF Registry!Imported, Registry!Rows, RegistryTypes
  <2>4. old \in Filing  BY <2>1, KindOf
  <2>5. p \in Fresh(reqs[r])  BY <1>3, <1>5, <2>2, <2>4, FilesOf
  <2> QED  BY <1>1, <1>2, <2>3, <2>5 DEF PacksApart
<1>9. CASE Registry!Purged(r)
  <2>1. old.pc = "purge"  BY <1>5, <1>9 DEF Registry!Purged
  <2>2. disk' = disk \ {old.pack}  BY <1>5, <1>9 DEF Registry!Purged
  <2>3. rows' = rows  BY <1>9 DEF Registry!Purged
  <2>4. old \in Purging  BY <2>1, KindOf
  <2>5. p \in Stale(reqs[r])  BY <1>3, <1>5, <2>2, <2>4, FilesOf
  <2>6. s = reqs[r].server  BY <1>1, <1>2, <2>3, <2>5 DEF PacksApart
  <2> QED  BY <1>5, <2>1, <2>6
<1> QED  BY <1>4, <1>6, <1>7, <1>8, <1>9

LEMMA RegistryApart == [Next]_vars => [Registry!Next]_registryVars
<1> SUFFICES ASSUME [Next]_vars PROVE [Registry!Next]_registryVars
  OBVIOUS
<1>1. CASE RegistryStep
  BY <1>1 DEF RegistryStep
<1>2. CASE SettingsStep \/ ListsStep \/ ModsStep \/ PlanStep \/ ArgsStep \/ CapacityStep
  BY <1>2 DEF SettingsStep, ListsStep, ModsStep, PlanStep, ArgsStep, CapacityStep
<1>3. CASE OutOfPacks \/ UNCHANGED vars
  BY <1>3 DEF OutOfPacks, vars
<1>4. QED
  BY <1>1, <1>2, <1>3 DEF Next

\* For any servers, files and requests handled at the same time, failures and
\* stops of the backend included: two servers never share a subdomain, and no
\* request takes away the file that is a server's pack, unless it deletes the
\* server.
THEOREM ListIsKept == Spec => RegistryHolds
<1>1. Init => RegistryInv
  BY RegistryStarts DEF Init
<1>2. RegistryInv /\ [Next]_vars => RegistryInv'
  BY RegistryApart, RegistryKeeps
<1>3. RegistryInv => Registry!SubdomainsUnique
  BY DEF RegistryInv
<1>4. RegistryInv /\ [Next]_vars =>
        [ \A s \in DOMAIN rows': rows'[s].pack \in disk \ disk' =>
            \E r \in Request: reqs[r].pc = "purge" /\ reqs[r].server = s ]_(Registry!registryVars)
  BY RegistryApart, RemovedIsStale
<1>5. QED
  BY <1>1, <1>2, <1>3, <1>4, PTL DEF Spec, RegistryHolds, Registry!RegistryHolds, Registry!PacksKept

-----------------------------------------------------------------------------
(* The gate on the memory of the host.  What a request has weighed stays   *)
(* an upper bound while nothing disturbs it: containers may end meanwhile, *)
(* so it is kept for the set of servers that were counted.                 *)

\* HostCapacity counts as the library does.
LEMMA CountsAgree ==
  ASSUME NEW S
  PROVE  /\ Capacity!IsFiniteSet(S) <=> IsFiniteSet(S)
         /\ Capacity!Cardinality(S) = Cardinality(S)
<1>1. Capacity!IsFiniteSet(S) <=> IsFiniteSet(S)
  BY DEF IsFiniteSet, Capacity!IsFiniteSet
<1>2. Capacity!Cardinality(S) = Cardinality(S)
  BY Zenon DEF Cardinality, Capacity!Cardinality
<1>3. QED
  BY <1>1, <1>2

LEMMA HostIsFinite == IsFiniteSet(Host)
BY ConfigurationAssumption, CountsAgree DEF Capacity!CapacityAssumption

\* The units a sum counts.
Units(f) == UNION {{s} \X (1 .. f[s]): s \in DOMAIN f}

LEMMA UnitsAre ==
  ASSUME NEW S, NEW f \in [S -> Nat]
  PROVE  \A u: u \in Units(f) <=> \E s \in S: \E k \in 1 .. f[s]: u = <<s, k>>
BY DEF Units

LEMMA TotalIsNat ==
  ASSUME NEW S, IsFiniteSet(S), NEW f \in [S -> Nat]
  PROVE  /\ IsFiniteSet(Units(f)) /\ Capacity!Total(f) = Cardinality(Units(f))
         /\ Capacity!Total(f) \in Nat
<1> DEFINE column == [s \in S |-> {s} \X (1 .. f[s])]
           columns == {{s} \X (1 .. f[s]): s \in DOMAIN f}
<1>1. column \in Surjection(S, columns)
  BY DEF Surjection
<1>2. IsFiniteSet(columns)
  BY <1>1, FS_Surjection
<1>3. ASSUME NEW s \in S PROVE IsFiniteSet({s} \X (1 .. f[s]))
  <2>1. f[s] \in Nat
    OBVIOUS
  <2>2. IsFiniteSet({s})
    BY FS_Singleton
  <2>3. IsFiniteSet(1 .. f[s])
    BY <2>1, FS_Interval
  <2>4. QED
    BY <2>2, <2>3, FS_Product
<1>4. IsFiniteSet(Units(f))
  <2>1. \A one \in columns: IsFiniteSet(one)
    BY <1>3
  <2>2. IsFiniteSet(UNION columns)
    BY <1>2, <2>1, FS_UNION
  <2>3. QED
    BY <2>2 DEF Units
<1>5. Capacity!Total(f) = Cardinality(Units(f))
  BY CountsAgree, Zenon DEF Units, Capacity!Total
<1>6. Cardinality(Units(f)) \in Nat
  BY <1>4, FS_CardinalityType
<1>7. QED
  BY <1>4, <1>5, <1>6

\* What is no more than two amounts together, one by one, adds up to no more
\* than their sums do.
LEMMA TotalsAdd ==
  ASSUME NEW A, NEW B, NEW C, IsFiniteSet(A), IsFiniteSet(B), IsFiniteSet(C),
         NEW f \in [A -> Nat], NEW g \in [B -> Nat], NEW d \in [C -> Nat],
         \A s \in A: f[s] <= (IF s \in B THEN g[s] ELSE 0) + (IF s \in C THEN d[s] ELSE 0)
  PROVE  Capacity!Total(f) <= Capacity!Total(g) + Capacity!Total(d)
<1> DEFINE Base(s) == IF s \in B THEN g[s] ELSE 0
           On(u) == <<u[1], Base(u[1]) + u[2]>>
           above == [u \in Units(d) |-> On(u)]
           Above == {On(u): u \in Units(d)}
<1>1. /\ IsFiniteSet(Units(f)) /\ Capacity!Total(f) = Cardinality(Units(f)) /\ Capacity!Total(f) \in Nat
      /\ IsFiniteSet(Units(g)) /\ Capacity!Total(g) = Cardinality(Units(g)) /\ Capacity!Total(g) \in Nat
      /\ IsFiniteSet(Units(d)) /\ Capacity!Total(d) = Cardinality(Units(d)) /\ Capacity!Total(d) \in Nat
  BY TotalIsNat
<1>2. above \in Surjection(Units(d), Above)
  BY DEF Surjection
<1>3. IsFiniteSet(Above) /\ Cardinality(Above) <= Capacity!Total(d)
  BY <1>1, <1>2, FS_Surjection
<1>4. ASSUME NEW s \in A, NEW k \in 1 .. f[s], s \notin B \/ k > g[s]
      PROVE  <<s, k>> \in Above
  <2>1. Base(s) \in Nat /\ f[s] \in Nat /\ k \in Nat /\ k >= 1 /\ k > Base(s) /\ k <= f[s]
    BY <1>4
  <2>2. s \in C /\ d[s] \in Nat /\ k - Base(s) \in 1 .. d[s]
    BY <2>1
  <2>3. <<s, k - Base(s)>> \in Units(d)
    BY <2>2, UnitsAre
  <2>4. On(<<s, k - Base(s)>>) = <<s, k>>
    <3>1. Base(s) + (k - Base(s)) = k
      BY <2>1
    <3>2. QED
      BY <3>1
  <2>5. QED
    BY <2>3, <2>4
<1>5. Units(f) \subseteq Units(g) \cup Above
  <2> SUFFICES ASSUME NEW s \in A, NEW k \in 1 .. f[s]
               PROVE  <<s, k>> \in Units(g) \cup Above
    BY UnitsAre
  <2>1. CASE s \notin B \/ k > g[s]
    BY <1>4, <2>1
  <2>2. CASE s \in B /\ ~(k > g[s])
    <3>1. k \in 1 .. g[s]
      BY <2>2
    <3>2. QED
      BY <2>2, <3>1, UnitsAre
  <2>3. QED
    BY <2>1, <2>2
<1>6. /\ IsFiniteSet(Units(g) \cup Above)
      /\ Cardinality(Units(g) \cup Above) <= Cardinality(Units(g)) + Cardinality(Above)
      /\ Cardinality(Above) \in Nat
  <2>1. Cardinality(Units(g) \cap Above) \in Nat /\ Cardinality(Above) \in Nat
    BY <1>1, <1>3, FS_Intersection, FS_CardinalityType
  <2>2. Cardinality(Units(g) \cup Above)
          = Cardinality(Units(g)) + Cardinality(Above) - Cardinality(Units(g) \cap Above)
    BY <1>1, <1>3, FS_Union
  <2>3. IsFiniteSet(Units(g) \cup Above)
    BY <1>1, <1>3, FS_Union
  <2>4. Cardinality(Units(g)) \in Nat
    BY <1>1
  <2>5. QED
    BY <2>1, <2>2, <2>3, <2>4
<1>7. Cardinality(Units(f)) <= Cardinality(Units(g) \cup Above)
  BY <1>5, <1>6, FS_Subset
<1>8. Cardinality(Units(g) \cup Above) \in Nat
  BY <1>6, FS_CardinalityType
<1>9. QED
  BY <1>1, <1>3, <1>6, <1>7, <1>8


LEMMA OneCounts ==
  ASSUME NEW s, NEW n \in Nat
  PROVE  Capacity!Total([h \in {s} |-> n]) = n
<1> DEFINE one == [h \in {s} |-> n]
<1>1. Capacity!Total(one) = Cardinality(Units(one))
  BY CountsAgree, Zenon DEF Units, Capacity!Total
<1>2. Units(one) = {s} \X (1 .. n)
  <2>1. \A u: u \in Units(one) <=> \E h \in {s}: \E k \in 1 .. one[h]: u = <<h, k>>
    BY UnitsAre
  <2>2. \A u: u \in Units(one) <=> \E k \in 1 .. n: u = <<s, k>>
    BY <2>1
  <2>3. \A u: u \in {s} \X (1 .. n) <=> \E k \in 1 .. n: u = <<s, k>>
    OBVIOUS
  <2>4. QED
    BY <2>2, <2>3, Zenon
<1>3. IsFiniteSet({s}) /\ Cardinality({s}) = 1
  BY FS_Singleton
<1>4. IsFiniteSet(1 .. n) /\ Cardinality(1 .. n) = n
  BY FS_Interval
<1>5. Cardinality({s} \X (1 .. n)) = 1 * n
  BY <1>3, <1>4, FS_Product
<1>6. QED
  <2> HIDE DEF one
  <2>1. Capacity!Total(one) = n
    BY <1>1, <1>2, <1>5
  <2>2. QED
    BY <2>1 DEF one

\* The floors of some of the counted servers, and of one more, or of one that
\* grows, are within what was counted and what it adds.
LEMMA FloorsAdd ==
  ASSUME NEW S \in SUBSET Host, NEW T \in SUBSET Host, NEW h \in Host, NEW n \in Nat,
         NEW f \in [Host -> Nat], NEW g \in [Host -> Nat],
         \A s \in S: f[s] <= (IF s \in T THEN g[s] ELSE 0) + (IF s = h THEN n ELSE 0)
  PROVE  /\ Capacity!FloorsOf(S, f) <= Capacity!FloorsOf(T, g) + n
         /\ Capacity!FloorsOf(S, f) \in Nat /\ Capacity!FloorsOf(T, g) \in Nat
<1> DEFINE fs == [s \in S |-> f[s]]
           gs == [s \in T |-> g[s]]
           one == [s \in {h} |-> n]
<1>1. IsFiniteSet(S) /\ IsFiniteSet(T) /\ IsFiniteSet({h})
  <2>2. IsFiniteSet(S)
    BY HostIsFinite, FS_Subset
  <2>3. IsFiniteSet(T)
    BY HostIsFinite, FS_Subset
  <2>4. IsFiniteSet({h})
    BY FS_Singleton
  <2>5. QED
    BY <2>2, <2>3, <2>4
<1>2. fs \in [S -> Nat] /\ gs \in [T -> Nat] /\ one \in [{h} -> Nat]
  OBVIOUS
<1>3. \A s \in S: fs[s] <= (IF s \in T THEN gs[s] ELSE 0) + (IF s \in {h} THEN one[s] ELSE 0)
  OBVIOUS
<1>4. /\ Capacity!FloorsOf(S, f) = Capacity!Total(fs) /\ Capacity!FloorsOf(T, g) = Capacity!Total(gs)
      /\ Capacity!Total(one) = n
  BY OneCounts DEF Capacity!FloorsOf
<1> HIDE DEF fs, gs, one
<1>5. Capacity!Total(fs) <= Capacity!Total(gs) + Capacity!Total(one)
  BY <1>1, <1>2, <1>3, TotalsAdd
<1>6. Capacity!Total(fs) \in Nat /\ Capacity!Total(gs) \in Nat
  BY <1>1, <1>2, TotalIsNat
<1>7. QED
  BY <1>4, <1>5, <1>6

LEMMA FloorsAreNat ==
  ASSUME NEW S \in SUBSET Host, NEW f \in [Host -> Nat]
  PROVE  Capacity!FloorsOf(S, f) \in Nat
<1> DEFINE fs == [s \in S |-> f[s]]
<1>1. IsFiniteSet(S)
  BY HostIsFinite, FS_Subset
<1>2. fs \in [S -> Nat]
  OBVIOUS
<1>3. Capacity!FloorsOf(S, f) = Capacity!Total(fs)
  BY DEF Capacity!FloorsOf
<1> HIDE DEF fs
<1>4. QED
  BY <1>1, <1>2, <1>3, TotalIsNat

LEMMA BudgetIsNat == Capacity!BudgetMb(TRUE) \in Nat
<1> DEFINE most == Capacity!TotalMb(TRUE) - ReserveMb
<1>1. HostMb \in Nat /\ DaemonMb \in Nat /\ ReserveMb \in Nat
  BY ConfigurationAssumption DEF Capacity!CapacityAssumption
<1>2. Capacity!TotalMb(TRUE) \in {HostMb, DaemonMb}
  BY DEF Capacity!TotalMb
<1>3. most \in Int
  <2>1. PICK total \in Nat: total = Capacity!TotalMb(TRUE)
    BY <1>1, <1>2
  <2>2. total - ReserveMb \in Int
    BY <1>1
  <2>3. QED
    BY <2>1, <2>2, Zenon
<1> HIDE DEF most
<1>4. \E x \in {0, most}: \A y \in {0, most}: x >= y
  <2>1. CASE most >= 0
    BY <1>3, <2>1
  <2>2. CASE ~(most >= 0)
    BY <1>3, <2>2
  <2>3. QED
    BY <2>1, <2>2
<1>5. Capacity!Max({0, most}) \in {0, most} /\ \A y \in {0, most}: Capacity!Max({0, most}) >= y
  BY <1>4 DEF Capacity!Max
<1>6. Capacity!Max({0, most}) \in Nat
  BY <1>3, <1>5
<1>7. QED
  BY <1>6 DEF Capacity!BudgetMb, most

\* The stages of a request, and the types of what the gate looks at.
ToWeigh ==
  [pc: {"memory"}, kind: {"start", "change"}, floor: Floors, undisturbed: BOOLEAN, wasUp: BOOLEAN]
Sized ==
  [pc: {"live"}, kind: {"start", "change"}, floor: Floors, undisturbed: BOOLEAN, wasUp: BOOLEAN,
   known: BOOLEAN, free: Nat, row: [Host -> Floors]]
Counted ==
  [pc: {"decide"}, kind: {"start", "change"}, floor: Floors, undisturbed: BOOLEAN, wasUp: BOOLEAN,
   known: BOOLEAN, free: Nat, row: [Host -> Floors], live: SUBSET Host]
Weighed ==
  [pc: {"admitted", "refused"}, kind: {"start", "change"}, floor: Floors, undisturbed: BOOLEAN,
   wasUp: BOOLEAN]

Stages == {Capacity!NoRequest} \cup ToWeigh \cup Sized \cup Counted \cup Weighed

CapacityTypes ==
  /\ floors \in [Host -> Floors] /\ up \subseteq Host /\ believed \subseteq Host
  /\ requests \in [Host -> Stages]

\* The servers in S, who include all that run, leave room for what h asks.
LeaveRoom(S, h) ==
  /\ up \subseteq S
  /\ requests[h].kind = "start" =>
       h \in up \/ Capacity!FloorsOf(S, floors) + floors[h] <= Capacity!BudgetMb(TRUE)
  /\ requests[h].kind = "change" /\ requests[h].floor > floors[h] =>
       Capacity!FloorsOf(S, floors) + (requests[h].floor - floors[h]) <= Capacity!BudgetMb(TRUE)

\* What a request that was not disturbed knows, at each of its stages.
Knows(h) ==
  /\ requests[h] \in Sized \cup Counted => requests[h].known /\ requests[h].row = floors
  /\ requests[h] \in Counted =>
       up \subseteq requests[h].live /\ (h \in requests[h].live => h \in up)
  /\ requests[h].pc = "admitted" => \E S \in SUBSET Host: LeaveRoom(S, h)
  /\ requests[h].pc = "refused" /\ requests[h].kind = "start" => ~ requests[h].wasUp

GateOf(h) ==
  requests[h].pc # "none" =>
    /\ requests[h].wasUp => h \in up
    /\ requests[h].undisturbed => Knows(h)

\* The inductive invariant.
CapacityInv == CapacityTypes /\ \A h \in Host: GateOf(h)

LEMMA FloorsCount == Floors \subseteq Nat /\ Host \in SUBSET Host
BY ConfigurationAssumption DEF Capacity!CapacityAssumption

LEMMA StagesApart ==
  ASSUME NEW q \in Stages
  PROVE  /\ q.pc = "none" <=> q = Capacity!NoRequest
         /\ q.pc = "memory" <=> q \in ToWeigh
         /\ q.pc = "live" <=> q \in Sized
         /\ q.pc = "decide" <=> q \in Counted
         /\ q.pc \in {"admitted", "refused"} <=> q \in Weighed
BY DEF Stages, Capacity!NoRequest, ToWeigh, Sized, Counted, Weighed

LEMMA CapacityBegins == Capacity!Init => CapacityInv
BY DEF Capacity!Init, CapacityInv, CapacityTypes, Stages, GateOf, Capacity!NoRequest

\* A request that is counted wrong keeps its stage.
LEMMA StageKept ==
  ASSUME NEW q \in Stages, q # Capacity!NoRequest
  PROVE  /\ [q EXCEPT !.undisturbed = FALSE] \in Stages
         /\ [q EXCEPT !.undisturbed = FALSE].undisturbed = FALSE
         /\ [q EXCEPT !.undisturbed = FALSE].wasUp = q.wasUp
         /\ [q EXCEPT !.undisturbed = FALSE, !.wasUp = FALSE] \in Stages
         /\ [q EXCEPT !.undisturbed = FALSE, !.wasUp = FALSE].undisturbed = FALSE
         /\ [q EXCEPT !.undisturbed = FALSE, !.wasUp = FALSE].wasUp = FALSE
<1>1. CASE q \in ToWeigh
  BY <1>1 DEF Stages, ToWeigh
<1>2. CASE q \in Sized
  BY <1>2 DEF Stages, Sized
<1>3. CASE q \in Counted
  BY <1>3 DEF Stages, Counted
<1>4. CASE q \in Weighed
  BY <1>4 DEF Stages, Weighed
<1>5. QED
  BY <1>1, <1>2, <1>3, <1>4 DEF Stages

\* What a request knows outlives a step that touches neither it nor its server,
\* and containers of others that end.
LEMMA GateKept ==
  ASSUME NEW g \in Host, GateOf(g), floors' = floors, up' \subseteq up, g \in up => g \in up',
         requests'[g] = requests[g]
  PROVE  GateOf(g)'
<1> SUFFICES ASSUME requests[g].pc # "none" PROVE GateOf(g)'
  BY DEF GateOf
<1>1. requests'[g].wasUp => g \in up'
  BY DEF GateOf
<1>2. ASSUME requests[g].undisturbed PROVE Knows(g)'
  <2>1. Knows(g)
    BY <1>2 DEF GateOf
  <2>2. ASSUME NEW S \in SUBSET Host, LeaveRoom(S, g) PROVE LeaveRoom(S, g)'
    BY <2>2 DEF LeaveRoom
  <2>3. QED
    BY <2>1, <2>2 DEF Knows
<1>3. QED
  BY <1>1, <1>2 DEF GateOf

LEMMA GateDisturbed ==
  ASSUME NEW g \in Host, requests'[g].undisturbed = FALSE, requests'[g].wasUp => g \in up'
  PROVE  GateOf(g)'
BY DEF GateOf

LEMMA GateOpen ==
  ASSUME NEW g \in Host, requests'[g] = Capacity!NoRequest
  PROVE  GateOf(g)'
BY DEF GateOf, Capacity!NoRequest

LEMMA DisturbStep ==
  ASSUME CapacityInv, NEW h \in Host, Capacity!Disturb(h), up \subseteq up',
         floors' \in [Host -> Floors], up' \subseteq Host, believed' \subseteq Host
  PROVE  CapacityInv'
<1>1. ASSUME NEW g \in Host PROVE requests'[g] \in Stages /\ GateOf(g)'
  <2>1. requests[g] \in Stages
    BY DEF CapacityInv, CapacityTypes
  <2>2. CASE g = h \/ requests[g] = Capacity!NoRequest
    <3>1. requests'[g] = Capacity!NoRequest
      BY <2>2 DEF Capacity!Disturb
    <3>2. QED
      BY <3>1, GateOpen DEF Stages
  <2>3. CASE ~(g = h \/ requests[g] = Capacity!NoRequest)
    <3>1. requests'[g] = [requests[g] EXCEPT !.undisturbed = FALSE]
      BY <2>3 DEF Capacity!Disturb
    <3>2. /\ requests'[g] \in Stages /\ requests'[g].undisturbed = FALSE
          /\ requests'[g].wasUp = requests[g].wasUp
      BY <2>1, <2>3, <3>1, StageKept
    <3>3. requests[g].pc # "none"
      BY <2>1, <2>3, StagesApart
    <3>4. requests[g].wasUp => g \in up
      BY <3>3 DEF CapacityInv, GateOf
    <3>5. QED
      BY <3>2, <3>4, GateDisturbed
  <2>4. QED
    BY <2>2, <2>3
<1>2. requests' \in [Host -> Stages]
  <2>1. requests' = [g \in Host |-> requests'[g]]
    BY DEF Capacity!Disturb
  <2>2. QED
    BY <1>1, <2>1
<1>3. QED
  BY <1>1, <1>2 DEF CapacityInv, CapacityTypes

\* A request goes on; nothing else changes for the others.
LEMMA GoesStep ==
  ASSUME CapacityInv, NEW h \in Host, NEW s \in Stages, Capacity!Goes(h, s),
         UNCHANGED <<floors, up, believed>>, GateOf(h)'
  PROVE  CapacityInv'
<1>1. requests' \in [Host -> Stages]
  BY DEF CapacityInv, CapacityTypes, Capacity!Goes
<1>2. ASSUME NEW g \in Host PROVE GateOf(g)'
  <2>1. CASE g = h
    BY <2>1
  <2>2. CASE g # h
    <3>1. requests'[g] = requests[g]
      BY <2>2 DEF CapacityInv, CapacityTypes, Capacity!Goes
    <3>2. QED
      BY <3>1, GateKept DEF CapacityInv
  <2>3. QED
    BY <2>1, <2>2
<1>3. QED
  BY <1>1, <1>2 DEF CapacityInv, CapacityTypes

LEMMA GoesSets ==
  ASSUME CapacityInv, NEW h \in Host, NEW s, Capacity!Goes(h, s)
  PROVE  requests'[h] = s
BY DEF CapacityInv, CapacityTypes, Capacity!Goes

LEMMA WeighStep ==
  ASSUME CapacityInv, NEW h \in Host, NEW kind \in {"start", "change"}, NEW floor \in Floors,
         Capacity!Weigh(h, kind, floor), UNCHANGED <<floors, up, believed>>
  PROVE  CapacityInv'
<1> DEFINE s == [pc |-> "memory", kind |-> kind, floor |-> floor, undisturbed |-> TRUE,
                 wasUp |-> h \in up]
<1>1. s \in ToWeigh /\ s.pc = "memory" /\ (s.wasUp => h \in up)
  <2>1. (h \in up) \in BOOLEAN
    OBVIOUS
  <2>2. s \in ToWeigh
    BY <2>1 DEF ToWeigh
  <2>3. QED
    BY <2>2
<1>2. Capacity!Goes(h, s)
  BY DEF Capacity!Weigh
<1> HIDE DEF s
<1>3. s \in Stages
  BY <1>1 DEF Stages
<1>4. requests'[h] = s
  BY <1>2, GoesSets
<1>5. s \notin Sized \cup Counted
  BY <1>1, <1>3, StagesApart
<1>6. GateOf(h)'
  BY <1>1, <1>4, <1>5 DEF GateOf, Knows
<1>7. QED
  BY <1>2, <1>3, <1>6, GoesStep

LEMMA AssertCanStartStep ==
  ASSUME CapacityInv, NEW h \in Host, Capacity!AssertCanStart(h)
  PROVE  CapacityInv'
<1>1. floors[h] \in Floors
  BY DEF CapacityInv, CapacityTypes
<1>2. QED
  BY <1>1, WeighStep DEF Capacity!AssertCanStart

LEMMA UpdateStep ==
  ASSUME CapacityInv, NEW h \in Host, NEW floor \in Floors, Capacity!Update(h, floor)
  PROVE  CapacityInv'
<1>1. CASE h \in believed
  <2>1. Capacity!Weigh(h, "change", floor) /\ UNCHANGED <<floors, up, believed>>
    BY <1>1 DEF Capacity!Update
  <2>2. QED
    BY <2>1, WeighStep
<1>2. CASE h \notin believed
  <2>1. Capacity!Disturb(h) /\ floors' = [floors EXCEPT ![h] = floor] /\ UNCHANGED <<up, believed>>
    BY <1>2 DEF Capacity!Update
  <2>2. floors' \in [Host -> Floors]
    BY <2>1 DEF CapacityInv, CapacityTypes
  <2>3. QED
    BY <2>1, <2>2, DisturbStep DEF CapacityInv, CapacityTypes
<1>3. QED
  BY <1>1, <1>2

LEMMA ReadHostMemoryStep ==
  ASSUME CapacityInv, NEW h \in Host, NEW free \in Free, NEW known \in BOOLEAN,
         Capacity!ReadHostMemory(h, free, known)
  PROVE  CapacityInv'
<1> DEFINE q == requests[h]
           left == IF Capacity!SameMachine(known) THEN free ELSE 0
           s == [pc |-> "live", kind |-> q.kind, floor |-> q.floor, wasUp |-> q.wasUp,
                 undisturbed |-> q.undisturbed /\ known,
                 known |-> known, free |-> left, row |-> floors]
<1>1. q \in ToWeigh
  BY StagesApart DEF CapacityInv, CapacityTypes, Capacity!ReadHostMemory
<1>2. left \in Nat
  BY ConfigurationAssumption DEF Capacity!CapacityAssumption
<1>3. Capacity!Goes(h, s) /\ UNCHANGED <<floors, up, believed>>
  BY DEF Capacity!ReadHostMemory
<1>4. floors \in [Host -> Floors]
  BY DEF CapacityInv, CapacityTypes
<1>5. q.wasUp => h \in up
  BY <1>1 DEF CapacityInv, GateOf, ToWeigh
<1> HIDE DEF q, left
<1>6. s \in Sized
  BY <1>1, <1>2, <1>4 DEF ToWeigh, Sized
<1>7. s.pc = "live" /\ (s.wasUp => h \in up) /\ (s.undisturbed => s.known) /\ s.row = floors
  BY <1>5
<1> HIDE DEF s
<1>8. s \in Stages
  BY <1>6 DEF Stages
<1>9. s \notin Counted
  BY <1>7, <1>8, StagesApart
<1>10. requests'[h] = s
  BY <1>3, GoesSets
<1>11. GateOf(h)'
  BY <1>3, <1>7, <1>9, <1>10 DEF GateOf, Knows
<1>12. QED
  BY <1>3, <1>8, <1>11, GoesStep

LEMMA LiveServerIdsStep ==
  ASSUME CapacityInv, NEW h \in Host, Capacity!LiveServerIds(h)
  PROVE  CapacityInv'
<1> DEFINE q == requests[h]
           seen == IF daemon THEN up ELSE believed
           s == [pc |-> "decide", kind |-> q.kind, floor |-> q.floor, wasUp |-> q.wasUp,
                 undisturbed |-> q.undisturbed /\ daemon,
                 known |-> q.known, free |-> q.free, row |-> q.row, live |-> seen]
<1>1. q \in Sized /\ q.pc = "live"
  BY StagesApart DEF CapacityInv, CapacityTypes, Capacity!LiveServerIds
<1>2. seen \in SUBSET Host /\ (daemon => seen = up)
  BY DEF CapacityInv, CapacityTypes
<1>3. Capacity!Goes(h, s) /\ UNCHANGED <<floors, up, believed>>
  BY DEF Capacity!LiveServerIds
<1>4. (q.wasUp => h \in up) /\ (q.undisturbed => q.known /\ q.row = floors)
  BY <1>1 DEF CapacityInv, GateOf, Knows
<1> HIDE DEF q, seen
<1>5. s \in Counted
  BY <1>1, <1>2 DEF Sized, Counted
<1>6. /\ s.pc = "decide" /\ (s.wasUp => h \in up)
      /\ s.undisturbed => s.known /\ s.row = floors /\ s.live = up
  BY <1>2, <1>4
<1> HIDE DEF s
<1>7. s \in Stages
  BY <1>5 DEF Stages
<1>8. requests'[h] = s
  BY <1>3, GoesSets
<1>9. GateOf(h)'
  BY <1>3, <1>6, <1>8 DEF GateOf, Knows
<1>10. QED
  BY <1>3, <1>7, <1>9, GoesStep

\* What the decision finds to fit does, when what it weighed is what there is.
LEMMA FitsLeavesRoom ==
  ASSUME CapacityInv, NEW h \in Host, requests[h] \in Counted, requests[h].undisturbed
  PROVE  /\ requests[h].kind = "start" /\ Capacity!StartFits(requests[h], h) =>
              h \in up \/ Capacity!FloorsOf(requests[h].live, floors) + floors[h] <= Capacity!BudgetMb(TRUE)
         /\ requests[h].kind = "change" /\ Capacity!ChangeFits(requests[h], h)
              /\ requests[h].floor > floors[h] =>
                Capacity!FloorsOf(requests[h].live, floors) + (requests[h].floor - floors[h])
                  <= Capacity!BudgetMb(TRUE)
         /\ up \subseteq requests[h].live
<1>1. /\ requests[h].known = TRUE /\ requests[h].row = floors
      /\ up \subseteq requests[h].live /\ (h \in requests[h].live => h \in up)
  BY DEF CapacityInv, GateOf, Knows, Counted
<1>2. PICK S \in SUBSET Host: S = requests[h].live
  BY DEF Counted
<1>3. PICK budget \in Nat: budget = Capacity!BudgetMb(TRUE)
  BY BudgetIsNat
<1>4. floors \in [Host -> Nat] /\ floors[h] \in Nat /\ requests[h].floor \in Nat
  BY FloorsCount DEF CapacityInv, CapacityTypes, Counted
<1>5. PICK sum \in Nat: sum = Capacity!FloorsOf(S, floors)
  BY <1>4, FloorsAreNat
<1>6. Capacity!RemainingGuaranteedMb(requests[h]) = budget - sum
  BY <1>1, <1>2, <1>3, <1>5, Zenon DEF Capacity!RemainingGuaranteedMb
<1>7. ASSUME Capacity!StartFits(requests[h], h), h \notin up PROVE sum + floors[h] <= budget
  <2>1. floors[h] <= budget - sum
    BY <1>1, <1>6, <1>7 DEF Capacity!StartFits
  <2>2. QED
    BY <1>4, <2>1
<1>8. ASSUME Capacity!ChangeFits(requests[h], h), requests[h].floor > floors[h]
      PROVE  sum + (requests[h].floor - floors[h]) <= budget
  <2>1. requests[h].floor - floors[h] <= budget - sum
    BY <1>1, <1>6, <1>8 DEF Capacity!ChangeFits
  <2>2. QED
    BY <1>4, <2>1
<1>9. QED
  BY <1>1, <1>2, <1>3, <1>5, <1>7, <1>8

LEMMA DecideStep ==
  ASSUME CapacityInv, NEW h \in Host, NEW force \in BOOLEAN, Capacity!Decide(h, force)
  PROVE  CapacityInv'
<1> DEFINE q == requests[h]
           fits == Capacity!Fits(q, h)
           s == [pc |-> IF fits \/ force THEN "admitted" ELSE "refused",
                 kind |-> q.kind, floor |-> q.floor, wasUp |-> q.wasUp,
                 undisturbed |-> q.undisturbed /\ (fits \/ ~force)]
<1>1. q \in Counted /\ q.pc = "decide"
  BY StagesApart DEF CapacityInv, CapacityTypes, Capacity!Decide
<1>2. Capacity!Goes(h, s) /\ UNCHANGED <<floors, up, believed>>
  BY DEF Capacity!Decide
<1>3. q.wasUp => h \in up
  BY <1>1 DEF CapacityInv, GateOf
<1>4. ASSUME q.undisturbed, fits
      PROVE  /\ up \subseteq q.live
             /\ q.kind = "start" =>
                  h \in up \/ Capacity!FloorsOf(q.live, floors) + floors[h] <= Capacity!BudgetMb(TRUE)
             /\ q.kind = "change" /\ q.floor > floors[h] =>
                  Capacity!FloorsOf(q.live, floors) + (q.floor - floors[h]) <= Capacity!BudgetMb(TRUE)
  BY <1>1, <1>4, FitsLeavesRoom DEF Capacity!Fits
<1>5. ASSUME q.undisturbed, q.kind = "start", h \in up PROVE fits
  <2>1. h \in q.live
    BY <1>1, <1>5, FitsLeavesRoom
  <2>2. QED
    BY <1>5, <2>1 DEF Capacity!Fits, Capacity!StartFits
<1> HIDE DEF q, fits
<1>6. s \in Weighed
  BY <1>1 DEF Counted, Weighed
<1>7. /\ s.kind = q.kind /\ s.floor = q.floor /\ s.wasUp = q.wasUp
      /\ s.undisturbed => q.undisturbed /\ (fits \/ ~force)
      /\ s.pc = "admitted" => fits \/ force
      /\ s.pc = "refused" => ~fits
  OBVIOUS
<1> HIDE DEF s
<1>8. s \in Stages /\ s \notin Sized \cup Counted
  <2>1. s \in Stages
    BY <1>6 DEF Stages
  <2>2. s.pc \in {"admitted", "refused"}
    BY <1>6 DEF Weighed
  <2>3. QED
    BY <2>1, <2>2, StagesApart
<1>9. requests'[h] = s
  BY <1>2, GoesSets
<1>10. q.live \in SUBSET Host
  BY <1>1 DEF Counted
<1>11. ASSUME s.undisturbed, s.pc = "admitted" PROVE \E S \in SUBSET Host: LeaveRoom(S, h)'
  <2>1. q.undisturbed /\ fits
    BY <1>7, <1>11
  <2>2. PICK S \in SUBSET Host: S = q.live
    BY <1>10
  <2>3. LeaveRoom(S, h)'
    BY <1>2, <1>4, <1>7, <1>9, <2>1, <2>2 DEF LeaveRoom
  <2>4. QED
    BY <2>3
<1>12. ASSUME s.undisturbed, s.pc = "refused", s.kind = "start" PROVE ~ s.wasUp
  BY <1>3, <1>5, <1>7, <1>12
<1>13. ASSUME s.undisturbed PROVE Knows(h)'
  <2>1. s.pc = "admitted" => \E S \in SUBSET Host: LeaveRoom(S, h)'
    BY <1>11, <1>13
  <2>2. QED
    BY <1>8, <1>9, <1>12, <1>13, <2>1 DEF Knows
<1>14. GateOf(h)'
  BY <1>2, <1>3, <1>7, <1>9, <1>13 DEF GateOf
<1>15. QED
  BY <1>2, <1>8, <1>14, GoesStep

LEMMA ContainerStartsStep ==
  ASSUME CapacityInv, NEW h \in Host, Capacity!ContainerStarts(h)
  PROVE  CapacityInv'
<1>1. /\ Capacity!Disturb(h) /\ floors' = floors
      /\ up' = up \cup {h} /\ believed' = believed \cup {h}
  BY DEF Capacity!ContainerStarts
<1>2. QED
  BY <1>1, DisturbStep DEF CapacityInv, CapacityTypes

LEMMA SettingsWrittenStep ==
  ASSUME CapacityInv, NEW h \in Host, Capacity!SettingsWritten(h)
  PROVE  CapacityInv'
<1>1. /\ Capacity!Disturb(h) /\ UNCHANGED <<up, believed>>
      /\ floors' = [floors EXCEPT ![h] = requests[h].floor]
      /\ requests[h].pc = "admitted"
  BY DEF Capacity!SettingsWritten
<1>2. requests[h].floor \in Floors
  <2>1. requests[h] \in Weighed
    BY <1>1, StagesApart DEF CapacityInv, CapacityTypes
  <2>2. QED
    BY <2>1 DEF Weighed
<1>3. floors' \in [Host -> Floors]
  BY <1>1, <1>2 DEF CapacityInv, CapacityTypes
<1>4. QED
  BY <1>1, <1>3, DisturbStep DEF CapacityInv, CapacityTypes

LEMMA RequestFailsStep ==
  ASSUME CapacityInv, NEW h \in Host, Capacity!RequestFails(h)
  PROVE  CapacityInv'
<1>1. Capacity!Goes(h, Capacity!NoRequest) /\ UNCHANGED <<floors, up, believed>>
  BY DEF Capacity!RequestFails
<1>2. GateOf(h)'
  BY <1>1, GoesSets, GateOpen
<1>3. Capacity!NoRequest \in Stages
  BY DEF Stages
<1>4. QED
  BY <1>1, <1>2, <1>3, GoesStep

LEMMA ContainerEndsStep ==
  ASSUME CapacityInv, NEW h \in Host, Capacity!ContainerEnds(h)
  PROVE  CapacityInv'
<1>1. up' = up \ {h} /\ UNCHANGED <<floors, believed>>
  BY DEF Capacity!ContainerEnds
<1>2. ASSUME NEW g \in Host PROVE requests'[g] \in Stages /\ GateOf(g)'
  <2>1. requests[g] \in Stages
    BY DEF CapacityInv, CapacityTypes
  <2>2. CASE g = h /\ requests[g] # Capacity!NoRequest
    <3>1. requests'[g] = [requests[g] EXCEPT !.undisturbed = FALSE, !.wasUp = FALSE]
      BY <2>2 DEF Capacity!ContainerEnds
    <3>2. requests'[g] \in Stages /\ requests'[g].undisturbed = FALSE /\ requests'[g].wasUp = FALSE
      BY <2>1, <2>2, <3>1, StageKept
    <3>3. QED
      BY <3>2, GateDisturbed
  <2>3. CASE requests[g] = Capacity!NoRequest
    <3>1. requests'[g] = Capacity!NoRequest
      BY <2>3 DEF Capacity!ContainerEnds
    <3>2. QED
      BY <3>1, GateOpen DEF Stages
  <2>4. CASE g # h
    <3>1. requests'[g] = requests[g]
      BY <2>4 DEF Capacity!ContainerEnds
    <3>2. QED
      BY <1>1, <2>1, <2>4, <3>1, GateKept DEF CapacityInv
  <2>5. QED
    BY <2>2, <2>3, <2>4
<1>3. requests' \in [Host -> Stages]
  <2>1. requests' = [g \in Host |-> requests'[g]]
    BY DEF Capacity!ContainerEnds
  <2>2. QED
    BY <1>2, <2>1
<1>4. QED
  BY <1>1, <1>2, <1>3 DEF CapacityInv, CapacityTypes

\* Only the rows' statuses, or whether Docker answers, change.
LEMMA GateUntouched ==
  ASSUME CapacityInv, UNCHANGED <<floors, up, requests>>, believed' \subseteq Host
  PROVE  CapacityInv'
<1>1. ASSUME NEW g \in Host PROVE GateOf(g)'
  BY GateKept DEF CapacityInv
<1>2. QED
  BY <1>1 DEF CapacityInv, CapacityTypes

LEMMA CapacityStepKeeps ==
  ASSUME CapacityInv, [Capacity!Next]_capacityVars
  PROVE  CapacityInv'
<1>1. ASSUME NEW h \in Host,
             \/ Capacity!AssertCanStart(h) \/ Capacity!LiveServerIds(h)
             \/ \E free \in Free, known \in BOOLEAN: Capacity!ReadHostMemory(h, free, known)
             \/ \E force \in BOOLEAN: Capacity!Decide(h, force)
             \/ Capacity!ContainerStarts(h) \/ Capacity!SettingsWritten(h)
             \/ Capacity!RequestFails(h) \/ Capacity!ContainerEnds(h)
             \/ \E floor \in Floors: Capacity!Update(h, floor)
      PROVE  CapacityInv'
  BY <1>1, AssertCanStartStep, LiveServerIdsStep, ReadHostMemoryStep, DecideStep, ContainerStartsStep,
     SettingsWrittenStep, RequestFailsStep, ContainerEndsStep, UpdateStep
<1>2. CASE Capacity!RefreshStatuses
  BY <1>2, GateUntouched DEF CapacityInv, CapacityTypes, Capacity!RefreshStatuses
<1>3. CASE Capacity!DaemonChanges
  BY <1>3, GateUntouched DEF CapacityInv, CapacityTypes, Capacity!DaemonChanges
<1>4. CASE UNCHANGED capacityVars
  BY <1>4, GateUntouched DEF CapacityInv, CapacityTypes, capacityVars
<1>5. QED
  BY <1>1, <1>2, <1>3, <1>4 DEF Capacity!Next

\* One step adds no container but the one that starts, and raises no floor but
\* that of the settings that are written.
LEMMA OnlyAdmitted ==
  ASSUME CapacityInv, [Capacity!Next]_capacityVars, NEW h \in Host,
         requests[h].pc = "admitted", h \in up', h \notin up \/ floors'[h] > floors[h]
  PROVE  Capacity!ContainerStarts(h) \/ Capacity!SettingsWritten(h)
<1>1. requests[h] # Capacity!NoRequest
  BY DEF Capacity!NoRequest
<1>2. h \in up => floors'[h] # floors[h]
  <2>1. floors[h] \in Nat
    BY FloorsCount DEF CapacityInv, CapacityTypes
  <2>2. h \in up => floors'[h] > floors[h]
    OBVIOUS
  <2>3. ASSUME h \in up, floors'[h] = floors[h] PROVE FALSE
    BY <2>1, <2>2, <2>3
  <2>4. QED
    BY <2>3
<1>3. CASE UNCHANGED <<floors, up>>
  BY <1>2, <1>3
<1>4. CASE \E g \in Host: Capacity!ContainerStarts(g) /\ g # h
  BY <1>2, <1>4 DEF Capacity!ContainerStarts
<1>5. CASE \E g \in Host: Capacity!SettingsWritten(g) /\ g # h
  BY <1>2, <1>5 DEF CapacityInv, CapacityTypes, Capacity!SettingsWritten
<1>6. CASE \E g \in Host: Capacity!ContainerEnds(g)
  BY <1>2, <1>6 DEF Capacity!ContainerEnds
<1>7. CASE \E g \in Host, floor \in Floors: Capacity!Update(g, floor)
  <2> PICK g \in Host, floor \in Floors: Capacity!Update(g, floor)
    BY <1>7
  <2>1. g # h /\ up' = up
    BY <1>1 DEF Capacity!Update
  <2>2. floors' = floors \/ floors' = [floors EXCEPT ![g] = floor]
    BY DEF Capacity!Update
  <2>3. floors'[h] = floors[h]
    BY <2>1, <2>2 DEF CapacityInv, CapacityTypes
  <2>4. QED
    BY <1>2, <2>1, <2>3
<1>8. CASE \E g \in Host: Capacity!ContainerStarts(g) /\ g = h
  BY <1>8
<1>9. CASE \E g \in Host: Capacity!SettingsWritten(g) /\ g = h
  BY <1>9
<1>10. \/ \E g \in Host: Capacity!ContainerStarts(g) \/ Capacity!SettingsWritten(g)
                            \/ Capacity!ContainerEnds(g)
       \/ \E g \in Host, floor \in Floors: Capacity!Update(g, floor)
       \/ UNCHANGED <<floors, up>>
  BY DEF Capacity!Next, capacityVars, Capacity!AssertCanStart, Capacity!LiveServerIds,
         Capacity!ReadHostMemory, Capacity!Decide, Capacity!RequestFails,
         Capacity!RefreshStatuses, Capacity!DaemonChanges
<1>11. QED
  BY <1>3, <1>4, <1>5, <1>6, <1>7, <1>8, <1>9, <1>10

LEMMA StartFitsBudget ==
  ASSUME CapacityInv, NEW h \in Host, Capacity!ContainerStarts(h), requests[h].undisturbed, h \notin up
  PROVE  Capacity!FloorsOf(up', floors') <= Capacity!BudgetMb(TRUE)
<1>1. /\ requests[h].pc = "admitted" /\ requests[h].kind = "start"
      /\ up' = up \cup {h} /\ floors' = floors
  BY DEF Capacity!ContainerStarts
<1>2. PICK S \in SUBSET Host: LeaveRoom(S, h)
  BY <1>1 DEF CapacityInv, GateOf, Knows
<1>3. floors \in [Host -> Nat] /\ floors[h] \in Nat
  BY FloorsCount DEF CapacityInv, CapacityTypes
<1>4. PICK after \in SUBSET Host: after = up'
  BY <1>1 DEF CapacityInv, CapacityTypes
<1>5. \A s \in after: floors[s] <= (IF s \in S THEN floors[s] ELSE 0) + (IF s = h THEN floors[h] ELSE 0)
  BY <1>1, <1>2, <1>3, <1>4 DEF LeaveRoom
<1>6. /\ Capacity!FloorsOf(after, floors) <= Capacity!FloorsOf(S, floors) + floors[h]
      /\ Capacity!FloorsOf(after, floors) \in Nat /\ Capacity!FloorsOf(S, floors) \in Nat
  BY <1>3, <1>5, FloorsAdd
<1>7. Capacity!FloorsOf(S, floors) + floors[h] <= Capacity!BudgetMb(TRUE)
  BY <1>1, <1>2 DEF LeaveRoom
<1>8. Capacity!FloorsOf(after, floors) <= Capacity!BudgetMb(TRUE)
  <2>1. PICK x \in Nat: x = Capacity!FloorsOf(after, floors)
    BY <1>6
  <2>2. PICK y \in Nat: y = Capacity!FloorsOf(S, floors)
    BY <1>6
  <2>3. PICK budget \in Nat: budget = Capacity!BudgetMb(TRUE)
    BY BudgetIsNat
  <2>4. x <= y + floors[h] /\ y + floors[h] <= budget
    BY <1>6, <1>7, <2>1, <2>2, <2>3
  <2>5. x <= budget
    BY <1>3, <2>4
  <2>6. QED
    BY <2>1, <2>3, <2>5
<1>9. QED
  BY <1>1, <1>4, <1>8

LEMMA ChangeFitsBudget ==
  ASSUME CapacityInv, NEW h \in Host, Capacity!SettingsWritten(h), requests[h].undisturbed,
         floors'[h] > floors[h]
  PROVE  Capacity!FloorsOf(up', floors') <= Capacity!BudgetMb(TRUE)
<1>1. /\ requests[h].pc = "admitted" /\ requests[h].kind = "change" /\ up' = up
      /\ floors' = [floors EXCEPT ![h] = requests[h].floor]
  BY DEF Capacity!SettingsWritten
<1>2. PICK S \in SUBSET Host: LeaveRoom(S, h)
  BY <1>1 DEF CapacityInv, GateOf, Knows
<1>3. requests[h] \in Weighed
  BY <1>1, StagesApart DEF CapacityInv, CapacityTypes
<1>4. /\ floors \in [Host -> Nat] /\ floors[h] \in Nat /\ requests[h].floor \in Nat
      /\ floors'[h] = requests[h].floor
  BY <1>1, <1>3, FloorsCount DEF CapacityInv, CapacityTypes, Weighed
<1>5. PICK more \in Nat: more = requests[h].floor - floors[h]
  BY <1>4
<1>6. PICK after \in [Host -> Nat]: after = floors'
  BY <1>1, <1>4
<1>7. \A s \in up: after[s] <= (IF s \in S THEN floors[s] ELSE 0) + (IF s = h THEN more ELSE 0)
  <2> SUFFICES ASSUME NEW s \in up
               PROVE  after[s] <= (IF s \in S THEN floors[s] ELSE 0) + (IF s = h THEN more ELSE 0)
    OBVIOUS
  <2>1. s \in S /\ s \in Host /\ floors[s] \in Nat
    BY <1>2, <1>4 DEF LeaveRoom
  <2>2. CASE s = h
    BY <1>4, <1>5, <1>6, <2>1, <2>2
  <2>3. CASE s # h
    BY <1>1, <1>4, <1>6, <2>1, <2>3
  <2>4. QED
    BY <2>2, <2>3
<1>8. up \in SUBSET Host
  BY DEF CapacityInv, CapacityTypes
<1>9. /\ Capacity!FloorsOf(up, after) <= Capacity!FloorsOf(S, floors) + more
      /\ Capacity!FloorsOf(up, after) \in Nat /\ Capacity!FloorsOf(S, floors) \in Nat
  BY <1>4, <1>7, <1>8, FloorsAdd
<1>10. Capacity!FloorsOf(S, floors) + more <= Capacity!BudgetMb(TRUE)
  BY <1>1, <1>2, <1>4, <1>5 DEF LeaveRoom
<1>11. Capacity!FloorsOf(up, after) <= Capacity!BudgetMb(TRUE)
  <2>1. PICK x \in Nat: x = Capacity!FloorsOf(up, after)
    BY <1>9
  <2>2. PICK y \in Nat: y = Capacity!FloorsOf(S, floors)
    BY <1>9
  <2>3. PICK budget \in Nat: budget = Capacity!BudgetMb(TRUE)
    BY BudgetIsNat
  <2>4. x <= y + more /\ y + more <= budget
    BY <1>9, <1>10, <2>1, <2>2, <2>3
  <2>5. x <= budget
    BY <2>4
  <2>6. QED
    BY <2>1, <2>3, <2>5
<1>12. QED
  BY <1>1, <1>6, <1>11

LEMMA CapacityApart == Init => Capacity!Init
BY DEF Init

LEMMA CapacityStepsApart == [Next]_vars => [Capacity!Next]_capacityVars
BY DEF Next, SettingsStep, RegistryStep, PlanStep, ArgsStep, ModsStep, CapacityStep, ListsStep,
       OutOfPacks, vars, capacityVars

\* An admission that nothing disturbed keeps what the running servers are
\* guaranteed within the memory of Docker's machine, and a server that runs
\* all along is never refused its start.
THEOREM AdmissionIsSound == Spec => AdmissionHolds
<1>1. Init => CapacityInv
  BY CapacityApart, CapacityBegins
<1>2. CapacityInv /\ [Next]_vars => CapacityInv'
  BY CapacityStepsApart, CapacityStepKeeps
<1>3. ASSUME CapacityInv, CapacityInv', [Capacity!Next]_capacityVars, NEW h \in Host
      PROVE  /\ (requests[h].pc = "admitted" /\ requests[h].undisturbed /\ h \in up'
                    /\ (h \notin up \/ floors'[h] > floors[h]))
                  => Capacity!FloorsOf(up', floors') <= Capacity!BudgetMb(TRUE)
             /\ (requests'[h].pc = "refused" /\ requests'[h].kind = "start" /\ requests'[h].undisturbed)
                  => ~requests'[h].wasUp
  <2>1. ASSUME requests[h].pc = "admitted", requests[h].undisturbed, h \in up',
               h \notin up \/ floors'[h] > floors[h]
        PROVE  Capacity!FloorsOf(up', floors') <= Capacity!BudgetMb(TRUE)
    <3>1. CASE Capacity!ContainerStarts(h)
      <4>1. h \notin up
        <5>1. floors[h] \in Nat /\ floors' = floors
          BY <1>3, <3>1, FloorsCount DEF CapacityInv, CapacityTypes, Capacity!ContainerStarts
        <5>2. ~ (floors'[h] > floors[h])
          BY <5>1
        <5>3. QED
          BY <2>1, <5>2
      <4>2. QED
        BY <1>3, <2>1, <3>1, <4>1, StartFitsBudget
    <3>2. CASE Capacity!SettingsWritten(h)
      <4>1. floors'[h] > floors[h]
        BY <2>1, <3>2 DEF Capacity!SettingsWritten
      <4>2. QED
        BY <1>3, <2>1, <3>2, <4>1, ChangeFitsBudget
    <3>3. QED
      BY <1>3, <2>1, <3>1, <3>2, OnlyAdmitted
  <2>2. ASSUME requests'[h].pc = "refused", requests'[h].kind = "start", requests'[h].undisturbed
        PROVE  ~requests'[h].wasUp
    BY <1>3, <2>2 DEF CapacityInv, GateOf, Knows
  <2>3. QED
    BY <2>1, <2>2
<1>4. QED
  <2> DEFINE Promise ==
        \A h \in Host:
          /\ (requests[h].pc = "admitted" /\ requests[h].undisturbed /\ h \in up'
                 /\ (h \notin up \/ floors'[h] > floors[h]))
               => Capacity!FloorsOf(up', floors') <= Capacity!BudgetMb(TRUE)
          /\ (requests'[h].pc = "refused" /\ requests'[h].kind = "start" /\ requests'[h].undisturbed)
               => ~requests'[h].wasUp
  <2>1. CapacityInv /\ CapacityInv' /\ [Next]_vars => [Promise]_capacityVars
    BY <1>3, CapacityStepsApart
  <2>2. QED
    BY <1>1, <1>2, <2>1, PTL DEF Spec, AdmissionHolds, Capacity!AdmissionHolds, Capacity!capacityVars,
       capacityVars

-----------------------------------------------------------------------------
(* The arguments of the JVM.  What a reading keeps and what a writing      *)
(* makes of it are joined from pieces, one for each argument; they follow  *)
(* a sequence argument by argument.                                        *)

LEMMA CountingUp ==
  ASSUME NEW Good \in SUBSET Nat, 0 \in Good, \A n \in Good: n + 1 \in Good
  PROVE  Good = Nat
<1> SUFFICES ASSUME Nat \ Good # {} PROVE FALSE
  OBVIOUS
<1>1. PICK n \in Nat \ Good: \A m \in Nat \ Good: <<m, n>> \notin OpToRel(<, Nat)
  BY NatLessThanWellFounded, WFMin
<1>2. n # 0 /\ n - 1 \in Nat
  OBVIOUS
<1>3. <<n - 1, n>> \in OpToRel(<, Nat)
  BY <1>2 DEF OpToRel
<1>4. n - 1 \in Good
  BY <1>1, <1>2, <1>3
<1>5. (n - 1) + 1 = n
  BY <1>2
<1>6. QED
  BY <1>4, <1>5

\* A set of sequences that goes on with every element is all of them.
LEMMA GrowingSequences ==
  ASSUME NEW T, NEW Good \in SUBSET Seq(T), <<>> \in Good,
         \A s \in Good, e \in T: Append(s, e) \in Good
  PROVE  Good = Seq(T)
<1> DEFINE Lengths == {n \in Nat: \A s \in Seq(T): Len(s) = n => s \in Good}
<1>1. 0 \in Lengths
  BY EmptySeq
<1>2. ASSUME NEW n \in Lengths PROVE n + 1 \in Lengths
  <2> SUFFICES ASSUME NEW s \in Seq(T), Len(s) = n + 1 PROVE s \in Good
    OBVIOUS
  <2>1. s # <<>>
    OBVIOUS
  <2>2. PICK front \in Seq(T), e \in T: s = Append(front, e)
    BY <2>1, SequenceEmptyOrAppend
  <2>3. Len(front) = n
    BY <2>2, AppendProperties
  <2>4. QED
    BY <2>2, <2>3
<1> HIDE DEF Lengths
<1>3. Lengths = Nat
  <2>1. Lengths \in SUBSET Nat
    BY DEF Lengths
  <2>2. QED
    BY <1>1, <1>2, <2>1, CountingUp
<1>4. QED
  BY <1>3, LenProperties DEF Lengths

\* The pieces joined so far, up to each of them.
Joined(ss, n, f) == f = [i \in 1 .. n |-> IF i = 1 THEN ss[i] ELSE f[i - 1] \o ss[i]]

LEMMA JoinedExists ==
  ASSUME NEW A, NEW ss \in Seq(Seq(A))
  PROVE  \E f \in [1 .. Len(ss) -> Seq(A)]: Joined(ss, Len(ss), f)
<1> DEFINE Good == {n \in Nat: n <= Len(ss) => \E f \in [1 .. n -> Seq(A)]: Joined(ss, n, f)}
<1>1. 0 \in Good
  <2>1. Joined(ss, 0, [i \in 1 .. 0 |-> <<>>]) /\ [i \in 1 .. 0 |-> <<>>] \in [1 .. 0 -> Seq(A)]
    BY DEF Joined
  <2>2. QED
    BY <2>1
<1>2. ASSUME NEW n \in Good PROVE n + 1 \in Good
  <2> SUFFICES ASSUME n + 1 <= Len(ss)
               PROVE  \E f \in [1 .. n + 1 -> Seq(A)]: Joined(ss, n + 1, f)
    OBVIOUS
  <2>1. PICK f \in [1 .. n -> Seq(A)]: Joined(ss, n, f)
    OBVIOUS
  <2> DEFINE last == IF n = 0 THEN ss[1] ELSE f[n] \o ss[n + 1]
             g == [i \in 1 .. n + 1 |-> IF i = n + 1 THEN last ELSE f[i]]
  <2>2. last \in Seq(A)
    <3>1. ss[n + 1] \in Seq(A)
      OBVIOUS
    <3>2. CASE n = 0
      BY <3>1, <3>2
    <3>3. CASE n # 0
      BY <3>1, <3>3
    <3>4. QED
      BY <3>2, <3>3
  <2>3. g \in [1 .. n + 1 -> Seq(A)]
    BY <2>2
  <2>4. ASSUME NEW i \in 1 .. n + 1 PROVE g[i] = IF i = 1 THEN ss[i] ELSE g[i - 1] \o ss[i]
    <3>1. CASE i = n + 1
      BY <3>1
    <3>2. CASE i # n + 1
      <4>1. i \in 1 .. n /\ g[i] = f[i]
        BY <3>2
      <4>2. f[i] = IF i = 1 THEN ss[i] ELSE f[i - 1] \o ss[i]
        BY <2>1, <4>1 DEF Joined
      <4>3. i # 1 => g[i - 1] = f[i - 1]
        BY <4>1
      <4>4. QED
        BY <4>1, <4>2, <4>3
    <3>3. QED
      BY <3>1, <3>2
  <2> HIDE DEF last
  <2>5. Joined(ss, n + 1, g)
    BY <2>4 DEF Joined
  <2>6. QED
    BY <2>3, <2>5
<1> HIDE DEF Good
<1>3. Good = Nat
  <2>1. Good \in SUBSET Nat
    BY DEF Good
  <2>2. QED
    BY <1>1, <1>2, <2>1, CountingUp
<1>4. Len(ss) \in Nat
  OBVIOUS
<1>5. QED
  BY <1>3, <1>4 DEF Good

LEMMA JoinedOnce ==
  ASSUME NEW ss, NEW n \in Nat, NEW m \in Nat, n <= m, NEW f, NEW g, Joined(ss, m, f), Joined(ss, n, g)
  PROVE  \A i \in 1 .. n: g[i] = f[i]
<1> DEFINE Good == {i \in Nat: i \in 1 .. n => g[i] = f[i]}
<1>1. 0 \in Good
  OBVIOUS
<1>2. ASSUME NEW i \in Good PROVE i + 1 \in Good
  <2> SUFFICES ASSUME i + 1 \in 1 .. n PROVE g[i + 1] = f[i + 1]
    OBVIOUS
  <2>1. /\ f[i + 1] = IF i + 1 = 1 THEN ss[i + 1] ELSE f[(i + 1) - 1] \o ss[i + 1]
        /\ g[i + 1] = IF i + 1 = 1 THEN ss[i + 1] ELSE g[(i + 1) - 1] \o ss[i + 1]
    <3>1. i + 1 \in 1 .. m
      OBVIOUS
    <3>2. QED
      BY <3>1 DEF Joined
  <2>2. (i + 1) - 1 = i /\ (i + 1 # 1 => g[i] = f[i])
    OBVIOUS
  <2>3. QED
    BY <2>1, <2>2
<1> HIDE DEF Good
<1>3. Good = Nat
  <2>1. Good \in SUBSET Nat
    BY DEF Good
  <2>2. QED
    BY <1>1, <1>2, <2>1, CountingUp
<1>4. QED
  BY <1>3 DEF Good

LEMMA FlatIsJoined ==
  ASSUME NEW A, NEW ss \in Seq(Seq(A)), Len(ss) # 0, NEW f, Joined(ss, Len(ss), f)
  PROVE  Args!FlattenSeq(ss) = f[Len(ss)]
<1> DEFINE it == CHOOSE flatten: flatten = [i \in 1 .. Len(ss) |-> IF i = 1 THEN ss[i] ELSE flatten[i - 1] \o ss[i]]
<1>1. Joined(ss, Len(ss), it)
  BY Zenon DEF Joined
<1>2. Args!FlattenSeq(ss) = it[Len(ss)]
  BY Zenon DEF Args!FlattenSeq
<1> HIDE DEF it
<1>3. Len(ss) \in Nat /\ Len(ss) <= Len(ss) /\ Len(ss) \in 1 .. Len(ss)
  OBVIOUS
<1>4. it[Len(ss)] = f[Len(ss)]
  BY <1>1, <1>3, JoinedOnce
<1>5. QED
  BY <1>2, <1>4

LEMMA FlatGrows ==
  ASSUME NEW A, NEW ss \in Seq(Seq(A)), NEW s \in Seq(A)
  PROVE  /\ Args!FlattenSeq(<<>>) = <<>>
         /\ Args!FlattenSeq(Append(ss, s)) = Args!FlattenSeq(ss) \o s
<1> DEFINE more == Append(ss, s)
<1>1. Args!FlattenSeq(<<>>) = <<>>
  BY DEF Args!FlattenSeq
<1>2. more \in Seq(Seq(A)) /\ Len(more) = Len(ss) + 1 /\ more[Len(more)] = s /\ Len(ss) \in Nat
  BY AppendProperties
<1>3. \A i \in 1 .. Len(ss): more[i] = ss[i]
  BY AppendProperties
<1> HIDE DEF more
<1>4. PICK f \in [1 .. Len(more) -> Seq(A)]: Joined(more, Len(more), f)
  BY <1>2, JoinedExists
<1>5. Args!FlattenSeq(more) = f[Len(more)]
  BY <1>2, <1>4, FlatIsJoined
<1>6. CASE Len(ss) = 0
  <2>1. ss = <<>> /\ Len(more) = 1
    BY <1>2, <1>6
  <2>2. f[1] = s
    BY <1>2, <1>4, <2>1 DEF Joined
  <2>3. QED
    BY <1>1, <1>5, <2>1, <2>2 DEF more
<1>7. CASE Len(ss) # 0
  <2>1. f[Len(more)] = f[Len(ss)] \o s
    <3>1. Len(more) \in 1 .. Len(more) /\ Len(more) # 1 /\ Len(more) - 1 = Len(ss)
      BY <1>2, <1>7
    <3>2. QED
      BY <1>2, <1>4, <3>1 DEF Joined
  <2>2. PICK g \in [1 .. Len(ss) -> Seq(A)]: Joined(ss, Len(ss), g)
    BY JoinedExists
  <2>3. Joined(more, Len(ss), g)
    <3>1. g = [i \in 1 .. Len(ss) |-> IF i = 1 THEN ss[i] ELSE g[i - 1] \o ss[i]]
      BY <2>2 DEF Joined
    <3>2. [i \in 1 .. Len(ss) |-> IF i = 1 THEN ss[i] ELSE g[i - 1] \o ss[i]]
            = [i \in 1 .. Len(ss) |-> IF i = 1 THEN more[i] ELSE g[i - 1] \o more[i]]
      BY <1>3
    <3>3. QED
      BY <3>1, <3>2, Zenon DEF Joined
  <2>4. Len(ss) <= Len(more) /\ Len(more) \in Nat /\ Len(ss) \in 1 .. Len(ss)
    BY <1>2, <1>7
  <2>5. g[Len(ss)] = f[Len(ss)]
    <3>1. PICK n \in Nat, m \in Nat: n = Len(ss) /\ m = Len(more)
      BY <2>4, <1>2
    <3>2. n <= m /\ Joined(more, m, f) /\ Joined(more, n, g)
      BY <1>4, <2>3, <2>4, <3>1
    <3>3. \A i \in 1 .. n: g[i] = f[i]
      <4>1. \A ns \in Nat, ms \in Nat: \A fs, gs:
              ns <= ms /\ Joined(more, ms, fs) /\ Joined(more, ns, gs) => \A i \in 1 .. ns: gs[i] = fs[i]
        BY JoinedOnce
      <4>2. QED
        BY <3>2, <4>1
    <3>4. QED
      BY <2>4, <3>1, <3>3
  <2>6. Args!FlattenSeq(ss) = g[Len(ss)]
    BY <1>7, <2>2, FlatIsJoined
  <2>7. QED
    BY <1>1, <1>5, <2>1, <2>5, <2>6 DEF more
<1>8. QED
  BY <1>1, <1>6, <1>7 DEF more

\* What becomes of one argument in a reading, and in a writing.
KeptOf(arg) == IF Args!IsManagedFlag(arg) THEN <<>> ELSE <<arg>>
WordsOf(arg) ==
  IF arg.spaced THEN <<Args!Arg(arg.flag, arg.value), Args!Arg("the rest", arg.value)>> ELSE <<arg>>

LEMMA PiecesGrow ==
  ASSUME NEW A, NEW args \in Seq(A), NEW arg \in A
  PROVE  /\ [i \in DOMAIN Append(args, arg) |-> KeptOf(Append(args, arg)[i])]
              = Append([i \in DOMAIN args |-> KeptOf(args[i])], KeptOf(arg))
         /\ [i \in DOMAIN Append(args, arg) |-> WordsOf(Append(args, arg)[i])]
              = Append([i \in DOMAIN args |-> WordsOf(args[i])], WordsOf(arg))
<1> DEFINE more == Append(args, arg)
<1>1. /\ DOMAIN args = 1 .. Len(args) /\ DOMAIN more = 1 .. Len(args) + 1 /\ Len(args) \in Nat
      /\ \A i \in 1 .. Len(args): more[i] = args[i]
      /\ more[Len(args) + 1] = arg
  BY AppendProperties
<1> HIDE DEF more
<1>2. [i \in DOMAIN more |-> KeptOf(more[i])] = Append([i \in DOMAIN args |-> KeptOf(args[i])], KeptOf(arg))
  BY <1>1
<1>3. [i \in DOMAIN more |-> WordsOf(more[i])] = Append([i \in DOMAIN args |-> WordsOf(args[i])], WordsOf(arg))
  BY <1>1
<1>4. QED
  BY <1>2, <1>3 DEF more

LEMMA KeptIs ==
  ASSUME NEW args
  PROVE  Args!Kept(args) = Args!FlattenSeq([i \in DOMAIN args |-> KeptOf(args[i])])
BY Zenon DEF Args!Kept, KeptOf

LEMMA WrittenIs ==
  ASSUME NEW args
  PROVE  Args!Written(args) = Args!FlattenSeq([i \in DOMAIN args |-> WordsOf(args[i])])
BY Zenon DEF Args!Written, WordsOf

\* Argument by argument.
LEMMA KeptGrows ==
  ASSUME NEW A, NEW args \in Seq(A), NEW arg \in A
  PROVE  /\ Args!Kept(<<>>) = <<>>
         /\ Args!Kept(Append(args, arg)) = Args!Kept(args) \o KeptOf(arg)
<1> DEFINE pieces == [i \in DOMAIN args |-> KeptOf(args[i])]
<1>1. \A a \in A: KeptOf(a) \in Seq(A)
  BY DEF KeptOf
<1>2. pieces \in Seq(Seq(A))
  <2>1. DOMAIN args = 1 .. Len(args) /\ \A i \in 1 .. Len(args): args[i] \in A
    BY ElementOfSeq
  <2>2. \A i \in 1 .. Len(args): KeptOf(args[i]) \in Seq(A)
    BY <1>1, <2>1
  <2>3. [i \in 1 .. Len(args) |-> KeptOf(args[i])] \in Seq(Seq(A))
    BY <2>2
  <2>4. QED
    BY <2>1, <2>3
<1> HIDE DEF pieces
<1>3. /\ Args!FlattenSeq(<<>>) = <<>>
      /\ Args!FlattenSeq(Append(pieces, KeptOf(arg))) = Args!FlattenSeq(pieces) \o KeptOf(arg)
  BY <1>1, <1>2, FlatGrows
<1>4. [i \in DOMAIN <<>> |-> KeptOf(<<>>[i])] = <<>>
  OBVIOUS
<1>5. Args!Kept(<<>>) = <<>>
  BY <1>3, <1>4, KeptIs
<1>6. Args!Kept(Append(args, arg)) = Args!FlattenSeq(Append(pieces, KeptOf(arg)))
  <2>1. [i \in DOMAIN Append(args, arg) |-> KeptOf(Append(args, arg)[i])] = Append(pieces, KeptOf(arg))
    BY PiecesGrow DEF pieces
  <2>2. QED
    BY <2>1, KeptIs, Zenon
<1>7. Args!Kept(args) = Args!FlattenSeq(pieces)
  BY KeptIs DEF pieces
<1>8. QED
  BY <1>3, <1>5, <1>6, <1>7

\* The words of arguments that are all of Words.
LEMMA WrittenGrows ==
  ASSUME NEW A, NEW B, \A a \in A: WordsOf(a) \in Seq(B), NEW args \in Seq(A), NEW arg \in A
  PROVE  /\ Args!Written(<<>>) = <<>>
         /\ Args!Written(Append(args, arg)) = Args!Written(args) \o WordsOf(arg)
<1> DEFINE pieces == [i \in DOMAIN args |-> WordsOf(args[i])]
<1>1. pieces \in Seq(Seq(B))
  OBVIOUS
<1> HIDE DEF pieces
<1>2. /\ Args!FlattenSeq(<<>>) = <<>>
      /\ Args!FlattenSeq(Append(pieces, WordsOf(arg))) = Args!FlattenSeq(pieces) \o WordsOf(arg)
  BY <1>1, FlatGrows
<1>3. [i \in DOMAIN <<>> |-> WordsOf(<<>>[i])] = <<>>
  OBVIOUS
<1>4. Args!Written(<<>>) = <<>>
  BY <1>2, <1>3, WrittenIs
<1>5. Args!Written(Append(args, arg)) = Args!FlattenSeq(Append(pieces, WordsOf(arg)))
  <2>1. [i \in DOMAIN Append(args, arg) |-> WordsOf(Append(args, arg)[i])] = Append(pieces, WordsOf(arg))
    BY PiecesGrow DEF pieces
  <2>2. QED
    BY <2>1, WrittenIs, Zenon
<1>6. Args!Written(args) = Args!FlattenSeq(pieces)
  BY WrittenIs DEF pieces
<1>7. QED
  BY <1>2, <1>4, <1>5, <1>6

LEMMA KeptIsOwn ==
  ASSUME NEW A
  PROVE  \A args \in Seq(A): Args!Kept(args) \in Seq({a \in A: ~ Args!IsManagedFlag(a)})
<1> DEFINE Own == {a \in A: ~ Args!IsManagedFlag(a)}
           Good == {args \in Seq(A): Args!Kept(args) \in Seq(Own)}
<1>1. <<>> \in Good
  BY KeptGrows, EmptySeq
<1>2. ASSUME NEW args \in Good, NEW arg \in A PROVE Append(args, arg) \in Good
  <2>1. Append(args, arg) \in Seq(A)
    BY AppendProperties
  <2>2. Args!Kept(Append(args, arg)) = Args!Kept(args) \o KeptOf(arg)
    BY KeptGrows
  <2>3. KeptOf(arg) \in Seq(Own)
    <3>1. CASE Args!IsManagedFlag(arg)
      BY <3>1, EmptySeq DEF KeptOf
    <3>2. CASE ~ Args!IsManagedFlag(arg)
      <4>1. arg \in Own
        BY <3>2
      <4> HIDE DEF Own
      <4>2. <<arg>> \in Seq(Own)
        BY <4>1
      <4>3. QED
        BY <3>2, <4>2 DEF KeptOf
    <3>3. QED
      BY <3>1, <3>2
  <2>4. QED
    BY <2>1, <2>2, <2>3, ConcatProperties
<1>3. Good \in SUBSET Seq(A)
  OBVIOUS
<1> HIDE DEF Good
<1>4. Good = Seq(A)
  BY <1>1, <1>2, <1>3, GrowingSequences
<1>5. QED
  BY <1>4 DEF Good

LEMMA KeptWhole ==
  ASSUME NEW A, \A a \in A: ~ Args!IsManagedFlag(a)
  PROVE  \A args \in Seq(A): Args!Kept(args) = args
<1> DEFINE Good == {args \in Seq(A): Args!Kept(args) = args}
<1>1. <<>> \in Good
  BY KeptGrows, EmptySeq
<1>2. ASSUME NEW args \in Good, NEW arg \in A PROVE Append(args, arg) \in Good
  <2>1. Append(args, arg) \in Seq(A) /\ Append(args, arg) = args \o <<arg>>
    BY AppendProperties, AppendIsConcat
  <2>2. Args!Kept(Append(args, arg)) = Args!Kept(args) \o KeptOf(arg)
    BY KeptGrows
  <2>3. KeptOf(arg) = <<arg>>
    BY DEF KeptOf
  <2>4. QED
    BY <2>1, <2>2, <2>3
<1>3. Good \in SUBSET Seq(A)
  OBVIOUS
<1> HIDE DEF Good
<1>4. Good = Seq(A)
  BY <1>1, <1>2, <1>3, GrowingSequences
<1>5. QED
  BY <1>4 DEF Good

LEMMA NothingKept ==
  ASSUME NEW A, \A a \in A: Args!IsManagedFlag(a)
  PROVE  \A args \in Seq(A): Args!Kept(args) = <<>>
<1> DEFINE Good == {args \in Seq(A): Args!Kept(args) = <<>>}
<1>1. <<>> \in Good
  BY KeptGrows, EmptySeq
<1>2. ASSUME NEW args \in Good, NEW arg \in A PROVE Append(args, arg) \in Good
  <2>1. Append(args, arg) \in Seq(A)
    BY AppendProperties
  <2>2. Args!Kept(Append(args, arg)) = Args!Kept(args) \o KeptOf(arg)
    BY KeptGrows
  <2>3. KeptOf(arg) = <<>>
    BY DEF KeptOf
  <2>4. <<>> \o <<>> = <<>>
    OBVIOUS
  <2>5. QED
    BY <2>1, <2>2, <2>3, <2>4
<1>3. Good \in SUBSET Seq(A)
  OBVIOUS
<1> HIDE DEF Good
<1>4. Good = Seq(A)
  BY <1>1, <1>2, <1>3, GrowingSequences
<1>5. QED
  BY <1>4 DEF Good

LEMMA JoinedAnyhow ==
  ASSUME NEW A
  PROVE  \A x, y, z \in Seq(A): (x \o y) \o z = x \o (y \o z)
BY ConcatAssociative

LEMMA KeptJoins ==
  ASSUME NEW A, NEW s \in Seq(A)
  PROVE  \A args \in Seq(A): Args!Kept(s \o args) = Args!Kept(s) \o Args!Kept(args)
<1> DEFINE Good == {args \in Seq(A): Args!Kept(s \o args) = Args!Kept(s) \o Args!Kept(args)}
<1>1. Args!Kept(s) \in Seq(A)
  <2>1. Args!Kept(s) \in Seq({a \in A: ~ Args!IsManagedFlag(a)})
    BY KeptIsOwn
  <2>2. QED
    BY <2>1, SeqMonotonic
<1>2. <<>> \in Good
  BY <1>1, KeptGrows, EmptySeq, ConcatEmptySeq
<1>3. ASSUME NEW args \in Good, NEW arg \in A PROVE Append(args, arg) \in Good
  <2>1. Append(args, arg) \in Seq(A) /\ s \o args \in Seq(A)
    BY AppendProperties, ConcatProperties
  <2>2. s \o Append(args, arg) = Append(s \o args, arg)
    OBVIOUS
  <2>3. Args!Kept(Append(s \o args, arg)) = Args!Kept(s \o args) \o KeptOf(arg)
    BY <2>1, KeptGrows
  <2>4. Args!Kept(Append(args, arg)) = Args!Kept(args) \o KeptOf(arg)
    BY KeptGrows
  <2>5. Args!Kept(args) \in Seq(A) /\ KeptOf(arg) \in Seq(A)
    <3>1. Args!Kept(args) \in Seq({a \in A: ~ Args!IsManagedFlag(a)})
      BY KeptIsOwn
    <3>2. Args!Kept(args) \in Seq(A)
      BY <3>1, SeqMonotonic
    <3>3. QED
      BY <3>2 DEF KeptOf
  <2>6. (Args!Kept(s) \o Args!Kept(args)) \o KeptOf(arg) = Args!Kept(s) \o (Args!Kept(args) \o KeptOf(arg))
    BY <1>1, <2>5, JoinedAnyhow, SMTT(30)
  <2>7. Args!Kept(s \o args) = Args!Kept(s) \o Args!Kept(args)
    OBVIOUS
  <2>8. QED
    BY <2>1, <2>2, <2>3, <2>4, <2>6, <2>7
<1>4. Good \in SUBSET Seq(A)
  OBVIOUS
<1> HIDE DEF Good
<1>5. Good = Seq(A)
  BY <1>2, <1>3, <1>4, GrowingSequences
<1>6. QED
  BY <1>5 DEF Good

LEMMA NothingWritten == Args!Written(<<>>) = <<>>
<1>1. [i \in DOMAIN <<>> |-> WordsOf(<<>>[i])] = <<>>
  OBVIOUS
<1>2. Args!FlattenSeq(<<>>) = <<>>
  BY FlatGrows, EmptySeq
<1>3. QED
  BY <1>1, <1>2, WrittenIs

LEMMA WrittenIsOf ==
  ASSUME NEW A, NEW B, \A a \in A: WordsOf(a) \in Seq(B)
  PROVE  \A args \in Seq(A): Args!Written(args) \in Seq(B)
<1> DEFINE Good == {args \in Seq(A): Args!Written(args) \in Seq(B)}
<1>1. <<>> \in Good
  BY NothingWritten, EmptySeq
<1>2. ASSUME NEW args \in Good, NEW arg \in A PROVE Append(args, arg) \in Good
  <2>1. Append(args, arg) \in Seq(A)
    BY AppendProperties
  <2>2. Args!Written(Append(args, arg)) = Args!Written(args) \o WordsOf(arg)
    BY WrittenGrows
  <2>3. QED
    BY <2>1, <2>2, ConcatProperties
<1>3. Good \in SUBSET Seq(A)
  OBVIOUS
<1> HIDE DEF Good
<1>4. Good = Seq(A)
  BY <1>1, <1>2, <1>3, GrowingSequences
<1>5. QED
  BY <1>4 DEF Good

LEMMA WrittenWhole ==
  ASSUME NEW A, \A a \in A: ~ a.spaced
  PROVE  \A args \in Seq(A): Args!Written(args) = args
<1> DEFINE Good == {args \in Seq(A): Args!Written(args) = args}
<1>1. <<>> \in Good
  BY NothingWritten, EmptySeq
<1>2. ASSUME NEW args \in Good, NEW arg \in A PROVE Append(args, arg) \in Good
  <2>1. Append(args, arg) \in Seq(A) /\ Append(args, arg) = args \o <<arg>>
    BY AppendProperties, AppendIsConcat
  <2>2. \A a \in A: WordsOf(a) = <<a>>
    BY DEF WordsOf
  <2>3. ASSUME NEW a \in A PROVE WordsOf(a) \in Seq(A)
    <3>1. <<a>> \in Seq(A)
      OBVIOUS
    <3>2. QED
      BY <2>2, <3>1
  <2>4. Args!Written(Append(args, arg)) = Args!Written(args) \o WordsOf(arg)
    BY <2>3, WrittenGrows
  <2>5. QED
    BY <2>1, <2>2, <2>4
<1>3. Good \in SUBSET Seq(A)
  OBVIOUS
<1> HIDE DEF Good
<1>4. Good = Seq(A)
  BY <1>1, <1>2, <1>3, GrowingSequences
<1>5. QED
  BY <1>4 DEF Good

LEMMA WrittenJoins ==
  ASSUME NEW A, NEW B, \A a \in A: WordsOf(a) \in Seq(B), NEW s \in Seq(A)
  PROVE  \A args \in Seq(A): Args!Written(s \o args) = Args!Written(s) \o Args!Written(args)
<1> DEFINE Good == {args \in Seq(A): Args!Written(s \o args) = Args!Written(s) \o Args!Written(args)}
<1>1. \A args \in Seq(A): Args!Written(args) \in Seq(B)
  BY WrittenIsOf
<1>2. <<>> \in Good
  BY <1>1, NothingWritten, EmptySeq, ConcatEmptySeq
<1>3. ASSUME NEW args \in Good, NEW arg \in A PROVE Append(args, arg) \in Good
  <2>1. Append(args, arg) \in Seq(A) /\ s \o args \in Seq(A)
    BY AppendProperties, ConcatProperties
  <2>2. s \o Append(args, arg) = Append(s \o args, arg)
    OBVIOUS
  <2>3. Args!Written(Append(s \o args, arg)) = Args!Written(s \o args) \o WordsOf(arg)
    BY <2>1, WrittenGrows
  <2>4. Args!Written(Append(args, arg)) = Args!Written(args) \o WordsOf(arg)
    BY WrittenGrows
  <2>5. Args!Written(s) \in Seq(B) /\ Args!Written(args) \in Seq(B) /\ WordsOf(arg) \in Seq(B)
    BY <1>1
  <2>6. (Args!Written(s) \o Args!Written(args)) \o WordsOf(arg) = Args!Written(s) \o (Args!Written(args) \o WordsOf(arg))
    BY <2>5, JoinedAnyhow, SMTT(30)
  <2>7. Args!Written(s \o args) = Args!Written(s) \o Args!Written(args)
    OBVIOUS
  <2>8. QED
    BY <2>1, <2>2, <2>3, <2>4, <2>6, <2>7
<1>4. Good \in SUBSET Seq(A)
  OBVIOUS
<1> HIDE DEF Good
<1>5. Good = Seq(A)
  BY <1>2, <1>3, <1>4, GrowingSequences
<1>6. QED
  BY <1>5 DEF Good

\* What may ever be in the file: what packs ship, what a writing splits of it,
\* and what the panel adds.
Shipped == UNION {Args!Range(args): args \in PackArgs}
Split ==
  {Args!Arg(arg.flag, arg.value): arg \in Shipped} \cup {Args!Arg("the rest", arg.value): arg \in Shipped}
Elastic ==
  {Args!Arg("IgnoreUnrecognizedVMOptions", TRUE), Args!Arg("AlwaysPreTouch", FALSE),
   Args!Arg("G1PeriodicGC", TRUE)}
HeapArgs == {Args!Arg("-Xms", heap.min): heap \in Heaps} \cup {Args!Arg("-Xmx", heap.max): heap \in Heaps}
Words == Shipped \cup Split \cup Elastic \cup HeapArgs
OwnWords == {arg \in Words: ~ Args!IsManagedFlag(arg)}
PlainWords == {arg \in Words: ~ arg.spaced}

LEMMA PackArgsAreWords == PackArgs \subseteq Seq(Words)
<1>1. PackArgs \subseteq Seq(Shipped)
  BY ConfigurationAssumption DEF Args!ArgsAssumption, Shipped
<1>2. Shipped \subseteq Words
  BY DEF Words
<1>3. QED
  BY <1>1, <1>2, SeqMonotonic

LEMMA ArgIs ==
  ASSUME NEW flagged, NEW value
  PROVE  /\ Args!Arg(flagged, value).flag = flagged /\ Args!Arg(flagged, value).value = value
         /\ ~ Args!Arg(flagged, value).spaced
BY DEF Args!Arg

LEMMA PairIsSeq ==
  ASSUME NEW A, NEW a \in A, NEW b \in A
  PROVE  <<a, b>> \in Seq(A)
OBVIOUS

LEMMA PanelArgs ==
  /\ \A arg \in Elastic \cup HeapArgs: Args!IsManagedFlag(arg) /\ ~ arg.spaced
  /\ Args!ElasticHeapFlags \in Seq(Elastic)
  /\ \A heap \in Heaps: <<Args!Arg("-Xms", heap.min), Args!Arg("-Xmx", heap.max)>> \in Seq(HeapArgs)
<1>1. \A arg \in Elastic \cup HeapArgs: Args!IsManagedFlag(arg) /\ ~ arg.spaced
  BY DEF Elastic, HeapArgs, Args!IsManagedFlag, Args!MANAGED_PREFIXES, Args!Arg
<1>2. Args!ElasticHeapFlags \in Seq(Elastic)
  BY DEF Elastic, Args!ElasticHeapFlags
<1>3. ASSUME NEW heap \in Heaps
      PROVE  <<Args!Arg("-Xms", heap.min), Args!Arg("-Xmx", heap.max)>> \in Seq(HeapArgs)
  <2>1. Args!Arg("-Xms", heap.min) \in HeapArgs /\ Args!Arg("-Xmx", heap.max) \in HeapArgs
    BY DEF HeapArgs
  <2>2. QED
    BY <2>1
<1>4. QED
  BY <1>1, <1>2, <1>3

LEMMA SplitIsPlain == \A arg \in Split: ~ arg.spaced
<1> SUFFICES ASSUME NEW arg \in Split PROVE ~ arg.spaced
  OBVIOUS
<1>1. \E flagged, value: arg = Args!Arg(flagged, value)
  BY DEF Split
<1>2. QED
  BY <1>1, ArgIs

LEMMA WordsClosed ==
  /\ \A arg \in Words: WordsOf(arg) \in Seq(Words)
  /\ \A arg \in OwnWords: WordsOf(arg) \in Seq(OwnWords)
<1>1. ASSUME NEW arg \in Words PROVE WordsOf(arg) \in Seq(Words)
  <2>1. CASE ~ arg.spaced
    <3>1. <<arg>> \in Seq(Words)
      OBVIOUS
    <3>2. QED
      BY <2>1, <3>1 DEF WordsOf
  <2>2. CASE arg.spaced
    <3>1. arg \in Shipped
      <4>1. \A a \in Split: ~ a.spaced
        BY SplitIsPlain
      <4>2. QED
        BY <2>2, <4>1, PanelArgs DEF Words
    <3>2. Args!Arg(arg.flag, arg.value) \in Words /\ Args!Arg("the rest", arg.value) \in Words
      BY <3>1 DEF Words, Split
    <3>3. <<Args!Arg(arg.flag, arg.value), Args!Arg("the rest", arg.value)>> \in Seq(Words)
      BY <3>2, PairIsSeq
    <3>4. QED
      BY <2>2, <3>3 DEF WordsOf
  <2>3. QED
    BY <2>1, <2>2
<1>2. ASSUME NEW arg \in OwnWords PROVE WordsOf(arg) \in Seq(OwnWords)
  <2>1. CASE ~ arg.spaced
    <3>1. <<arg>> \in Seq(OwnWords)
      OBVIOUS
    <3>2. QED
      BY <2>1, <3>1 DEF WordsOf
  <2>2. CASE arg.spaced
    <3>1. arg \in Shipped
      <4>1. \A a \in Split: ~ a.spaced
        BY SplitIsPlain
      <4>2. QED
        BY <2>2, <4>1, PanelArgs DEF OwnWords, Words
    <3>2. Args!Arg(arg.flag, arg.value) \in Words /\ Args!Arg("the rest", arg.value) \in Words
      BY <3>1 DEF Words, Split
    <3>3. ~ Args!IsManagedFlag(Args!Arg(arg.flag, arg.value))
      BY DEF OwnWords, Args!IsManagedFlag, Args!Arg
    <3>4. ~ Args!IsManagedFlag(Args!Arg("the rest", arg.value))
      BY DEF Args!IsManagedFlag, Args!MANAGED_PREFIXES, Args!Arg
    <3>5. Args!Arg(arg.flag, arg.value) \in OwnWords /\ Args!Arg("the rest", arg.value) \in OwnWords
      BY <3>2, <3>3, <3>4 DEF OwnWords
    <3>6. <<Args!Arg(arg.flag, arg.value), Args!Arg("the rest", arg.value)>> \in Seq(OwnWords)
      BY <3>5, PairIsSeq
    <3>7. QED
      BY <2>2, <3>6 DEF WordsOf
  <2>3. QED
    BY <2>1, <2>2
<1>3. QED
  BY <1>1, <1>2

\* The two flags of the heap that stand last.
HeapFlags(heap) == <<Args!Arg("-Xms", heap.min), Args!Arg("-Xmx", heap.max)>>

\* What a preparation writes: the pack's own words between the panel's flags.
LEMMA MergedFile ==
  ASSUME NEW args \in Seq(Words), NEW heap \in Heaps
  PROVE  /\ Args!Kept(args) \in Seq(OwnWords)
         /\ Args!Written(Args!Kept(args)) \in Seq(OwnWords)
         /\ Args!Written(Args!MergeJvmArgs(args, heap))
              = (Args!ElasticHeapFlags \o Args!Written(Args!Kept(args))) \o HeapFlags(heap)
<1> DEFINE E == Args!ElasticHeapFlags
           K == Args!Kept(args)
           H == HeapFlags(heap)
<1>1. K \in Seq(OwnWords)
  BY KeptIsOwn DEF OwnWords
<1>2. Args!Written(K) \in Seq(OwnWords)
  BY <1>1, WrittenIsOf, WordsClosed
<1>3. E \in Seq(Elastic) /\ H \in Seq(HeapArgs)
  BY PanelArgs DEF HeapFlags
<1>4. Args!MergeJvmArgs(args, heap) = (E \o K) \o H
  BY DEF Args!MergeJvmArgs, HeapFlags
<1> HIDE DEF E, K, H
<1>5. E \in Seq(Words) /\ H \in Seq(Words) /\ K \in Seq(Words)
  <2>1. Elastic \subseteq Words /\ HeapArgs \subseteq Words /\ OwnWords \subseteq Words
    BY DEF Words, OwnWords
  <2>2. QED
    BY <1>1, <1>3, <2>1, SeqMonotonic
<1>6. Args!Written(E) = E
  BY <1>3, PanelArgs, WrittenWhole
<1>7. Args!Written(H) = H
  BY <1>3, PanelArgs, WrittenWhole
<1>8. Args!Written(E \o K) = Args!Written(E) \o Args!Written(K)
  BY <1>5, WordsClosed, WrittenJoins
<1>9. Args!Written((E \o K) \o H) = Args!Written(E \o K) \o Args!Written(H)
  <2>1. E \o K \in Seq(Words)
    BY <1>5, ConcatProperties
  <2>2. QED
    BY <1>5, <2>1, WordsClosed, WrittenJoins
<1>10. QED
  BY <1>1, <1>2, <1>4, <1>6, <1>7, <1>8, <1>9 DEF E, K, H

\* Nothing of it but the pack's own is kept in the next reading.
LEMMA KeptOfMerged ==
  ASSUME NEW own \in Seq(OwnWords), NEW first \in Seq(Elastic), NEW last \in Seq(HeapArgs)
  PROVE  Args!Kept((first \o own) \o last) = own
<1>1. Elastic \subseteq Words /\ HeapArgs \subseteq Words /\ OwnWords \subseteq Words
  BY DEF Words, OwnWords
<1>2. first \in Seq(Words) /\ last \in Seq(Words) /\ own \in Seq(Words)
  BY <1>1, SeqMonotonic
<1>3. first \o own \in Seq(Words)
  BY <1>2, ConcatProperties
<1>4. Args!Kept((first \o own) \o last) = Args!Kept(first \o own) \o Args!Kept(last)
  BY <1>2, <1>3, KeptJoins
<1>5. Args!Kept(first \o own) = Args!Kept(first) \o Args!Kept(own)
  BY <1>2, KeptJoins
<1>6. Args!Kept(first) = <<>> /\ Args!Kept(last) = <<>>
  BY PanelArgs, NothingKept
<1>7. Args!Kept(own) = own
  <2>1. \A arg \in OwnWords: ~ Args!IsManagedFlag(arg)
    BY DEF OwnWords
  <2>2. QED
    BY <2>1, KeptWhole
<1>8. (<<>> \o own) \o <<>> = own
  BY ConcatEmptySeq
<1>9. QED
  BY <1>4, <1>5, <1>6, <1>7, <1>8

\* The inductive invariant.
ArgsTypes == shipped \in Seq(Words) /\ file \in Seq(Words) /\ heapPlan \in Heaps /\ applied \in BOOLEAN
OwnArgsStay ==
  (\A i \in DOMAIN shipped: ~ shipped[i].spaced) =>
    file \in Seq(PlainWords) /\ Args!Kept(file) = Args!Kept(shipped)
IsMerged == applied => \E own \in Seq(OwnWords): file = (Args!ElasticHeapFlags \o own) \o HeapFlags(heapPlan)
ArgsInv == ArgsTypes /\ OwnArgsStay /\ IsMerged

LEMMA ShippedPlain ==
  ASSUME NEW args \in Seq(Words), \A i \in DOMAIN args: ~ args[i].spaced
  PROVE  args \in Seq(PlainWords)
<1>1. DOMAIN args = 1 .. Len(args) /\ Len(args) \in Nat
  OBVIOUS
<1>2. \A i \in 1 .. Len(args): args[i] \in PlainWords
  BY <1>1, ElementOfSeq DEF PlainWords
<1>3. args = [i \in 1 .. Len(args) |-> args[i]]
  OBVIOUS
<1>4. QED
  BY <1>1, <1>2, <1>3

LEMMA ArgsBegin == Args!Init => ArgsInv
<1> SUFFICES ASSUME Args!Init PROVE ArgsInv
  OBVIOUS
<1>1. ArgsTypes
  BY PackArgsAreWords DEF Args!Init, ArgsTypes
<1>2. QED
  BY <1>1, ShippedPlain DEF Args!Init, ArgsInv, ArgsTypes, OwnArgsStay, IsMerged

LEMMA ArgsApplyStep == ArgsInv /\ Args!Apply => ArgsInv'
<1> SUFFICES ASSUME ArgsInv, Args!Apply PROVE ArgsInv'
  OBVIOUS
<1> USE DEF ArgsInv
<1> DEFINE own == Args!Written(Args!Kept(file))
           E == Args!ElasticHeapFlags
           H == HeapFlags(heapPlan)
<1>1. file \in Seq(Words) /\ heapPlan \in Heaps
  BY DEF ArgsTypes
<1>2. /\ Args!Kept(file) \in Seq(OwnWords) /\ own \in Seq(OwnWords)
      /\ file' = (E \o own) \o H
      /\ applied' = TRUE /\ UNCHANGED <<shipped, heapPlan>>
  BY <1>1, MergedFile DEF Args!Apply
<1>3. E \in Seq(Elastic) /\ H \in Seq(HeapArgs)
  BY <1>1, PanelArgs DEF HeapFlags
<1>4. IsMerged'
  <2>1. PICK w \in Seq(OwnWords): w = own
    BY <1>2
  <2>2. file' = (E \o w) \o HeapFlags(heapPlan')
    BY <1>2, <2>1
  <2>3. QED
    BY <2>2 DEF IsMerged
<1> HIDE DEF own, E, H
<1>5. Elastic \subseteq Words /\ HeapArgs \subseteq Words /\ OwnWords \subseteq Words
  BY DEF Words, OwnWords
<1>6. E \in Seq(Words) /\ H \in Seq(Words) /\ own \in Seq(Words)
  BY <1>2, <1>3, <1>5, SeqMonotonic
<1>7. E \o own \in Seq(Words) /\ file' \in Seq(Words)
  <2>1. E \o own \in Seq(Words)
    BY <1>6, ConcatProperties
  <2>2. (E \o own) \o H \in Seq(Words)
    BY <1>6, <2>1, ConcatProperties
  <2>3. QED
    BY <1>2, <2>1, <2>2
<1>8. ArgsTypes'
  BY <1>2, <1>7 DEF ArgsTypes
<1>9. ASSUME \A i \in DOMAIN shipped: ~ shipped[i].spaced
      PROVE  file' \in Seq(PlainWords) /\ Args!Kept(file') = Args!Kept(shipped)
  <2>1. file \in Seq(PlainWords) /\ Args!Kept(file) = Args!Kept(shipped)
    BY <1>9 DEF OwnArgsStay
  <2> DEFINE OwnPlain == {arg \in PlainWords: ~ Args!IsManagedFlag(arg)}
  <2>2. Args!Kept(file) \in Seq(OwnPlain)
    BY <2>1, KeptIsOwn
  <2>3. \A arg \in OwnPlain: ~ arg.spaced /\ ~ Args!IsManagedFlag(arg) /\ arg \in PlainWords
    BY DEF PlainWords
  <2> HIDE DEF OwnPlain
  <2>4. own = Args!Kept(file)
    BY <2>2, <2>3, WrittenWhole DEF own
  <2>5. E \in Seq(PlainWords) /\ H \in Seq(PlainWords) /\ own \in Seq(PlainWords)
    <3>1. Elastic \subseteq PlainWords /\ HeapArgs \subseteq PlainWords
      BY <1>5, PanelArgs DEF PlainWords
    <3>2. OwnPlain \subseteq PlainWords
      BY <2>3
    <3>3. QED
      BY <1>3, <2>2, <2>4, <3>1, <3>2, SeqMonotonic
  <2>6. file' \in Seq(PlainWords)
    <3>1. E \o own \in Seq(PlainWords)
      BY <2>5, ConcatProperties
    <3>2. (E \o own) \o H \in Seq(PlainWords)
      BY <2>5, <3>1, ConcatProperties
    <3>3. QED
      BY <1>2, <3>2
  <2>7. Args!Kept(file') = own
    BY <1>2, <1>3, <1>6, <1>7, KeptOfMerged
  <2>8. QED
    BY <2>1, <2>4, <2>6, <2>7
<1>10. OwnArgsStay'
  BY <1>2, <1>9 DEF OwnArgsStay
<1>11. QED
  BY <1>4, <1>8, <1>10

LEMMA ArgsOtherStep ==
  ASSUME ArgsInv, NEW next \in Seq(Words), NEW heap \in Heaps, heapPlan' = heap, applied' \in BOOLEAN,
         \/ applied' = FALSE /\ UNCHANGED <<shipped, file>>
         \/ applied' = FALSE /\ shipped' = next /\ file' = next
         \/ UNCHANGED <<shipped, file, heapPlan, applied>>
  PROVE  ArgsInv'
<1>1. CASE applied' = FALSE /\ UNCHANGED <<shipped, file>>
  BY <1>1 DEF ArgsInv, ArgsTypes, OwnArgsStay, IsMerged
<1>2. CASE applied' = FALSE /\ shipped' = next /\ file' = next
  <2>1. OwnArgsStay'
    BY <1>2, ShippedPlain DEF OwnArgsStay
  <2>2. QED
    BY <1>2, <2>1 DEF ArgsInv, ArgsTypes, IsMerged
<1>3. CASE UNCHANGED <<shipped, file, heapPlan, applied>>
  BY <1>3 DEF ArgsInv, ArgsTypes, OwnArgsStay, IsMerged
<1>4. QED
  BY <1>1, <1>2, <1>3

LEMMA ArgsKeep == ArgsInv /\ [Args!Next]_argsVars => ArgsInv'
<1> SUFFICES ASSUME ArgsInv, [Args!Next]_argsVars PROVE ArgsInv'
  OBVIOUS
<1>1. heapPlan \in Heaps /\ file \in Seq(Words) /\ applied \in BOOLEAN
  BY DEF ArgsInv, ArgsTypes
<1>2. CASE Args!Apply
  BY <1>2, ArgsApplyStep
<1>3. ASSUME NEW heap \in Heaps, Args!ChangeSettings(heap) PROVE ArgsInv'
  BY <1>1, <1>3, ArgsOtherStep DEF Args!ChangeSettings
<1>4. ASSUME NEW args \in PackArgs, Args!ReplacePack(args) PROVE ArgsInv'
  <2>1. args \in Seq(Words)
    BY PackArgsAreWords
  <2>2. applied' = FALSE /\ shipped' = args /\ file' = args /\ heapPlan' = heapPlan
    BY <1>4 DEF Args!ReplacePack
  <2>3. QED
    BY <1>1, <2>1, <2>2, ArgsOtherStep
<1>5. CASE UNCHANGED argsVars
  <2>1. UNCHANGED <<shipped, file, heapPlan, applied>>
    BY <1>5 DEF argsVars
  <2>2. QED
    BY <1>1, <2>1, ArgsOtherStep
<1>6. QED
  BY <1>2, <1>3, <1>4, <1>5 DEF Args!Next

LEMMA PlacesJoined ==
  ASSUME NEW A, NEW s \in Seq(A), NEW t \in Seq(A)
  PROVE  /\ s \o t \in Seq(A) /\ Len(s \o t) = Len(s) + Len(t)
         /\ \A i \in 1 .. Len(s): (s \o t)[i] = s[i]
         /\ \A i \in 1 .. Len(t): (s \o t)[Len(s) + i] = t[i]
<1>1. s \o t \in Seq(A) /\ Len(s \o t) = Len(s) + Len(t)
  BY ConcatProperties
<1>2. \A i \in 1 .. Len(s): (s \o t)[i] = s[i]
  OBVIOUS
<1>3. ASSUME NEW i \in 1 .. Len(t) PROVE (s \o t)[Len(s) + i] = t[i]
  OBVIOUS
<1>4. QED
  BY <1>1, <1>2, <1>3

\* Where everything is in a file that a preparation wrote.
LEMMA PlacesOfMerged ==
  ASSUME NEW own \in Seq(OwnWords), NEW heap \in Heaps, NEW n \in Nat, n = Len(own),
         file = (Args!ElasticHeapFlags \o own) \o HeapFlags(heap)
  PROVE  /\ DOMAIN file = 1 .. n + 5 /\ Len(file) = n + 5
         /\ file[1] = Args!Arg("IgnoreUnrecognizedVMOptions", TRUE)
         /\ file[2] = Args!Arg("AlwaysPreTouch", FALSE) /\ file[3] = Args!Arg("G1PeriodicGC", TRUE)
         /\ \A i \in 4 .. n + 3: file[i] \in OwnWords
         /\ file[n + 4] = Args!Arg("-Xms", heap.min) /\ file[n + 5] = Args!Arg("-Xmx", heap.max)
<1> DEFINE E == Args!ElasticHeapFlags
           H == HeapFlags(heap)
<1>1. E \in Seq(Words) /\ H \in Seq(Words) /\ own \in Seq(Words)
  <2>1. Elastic \subseteq Words /\ HeapArgs \subseteq Words /\ OwnWords \subseteq Words
    BY DEF Words, OwnWords
  <2>2. E \in Seq(Elastic) /\ H \in Seq(HeapArgs)
    BY PanelArgs DEF HeapFlags
  <2>3. QED
    BY <2>1, <2>2, SeqMonotonic
<1>2. /\ Len(E) = 3 /\ E[1] = Args!Arg("IgnoreUnrecognizedVMOptions", TRUE)
      /\ E[2] = Args!Arg("AlwaysPreTouch", FALSE) /\ E[3] = Args!Arg("G1PeriodicGC", TRUE)
  BY DEF Args!ElasticHeapFlags
<1>3. Len(H) = 2 /\ H[1] = Args!Arg("-Xms", heap.min) /\ H[2] = Args!Arg("-Xmx", heap.max)
  BY DEF HeapFlags
<1> HIDE DEF E, H
<1>4. PICK s \in Seq(Words): s = E \o own
  BY <1>1, ConcatProperties
<1>5. /\ Len(s) = 3 + n
      /\ \A i \in 1 .. 3: s[i] = E[i]
      /\ \A i \in 1 .. n: s[3 + i] = own[i]
  <2>1. /\ Len(E \o own) = Len(E) + Len(own)
        /\ \A i \in 1 .. Len(E): (E \o own)[i] = E[i]
        /\ \A i \in 1 .. Len(own): (E \o own)[Len(E) + i] = own[i]
    BY <1>1, PlacesJoined
  <2>2. QED
    BY <1>2, <1>4, <2>1
<1>6. /\ file \in Seq(Words) /\ Len(file) = (3 + n) + 2
      /\ \A i \in 1 .. 3 + n: file[i] = s[i]
      /\ \A i \in 1 .. 2: file[(3 + n) + i] = H[i]
  <2>1. file = s \o H
    BY <1>4 DEF E, H
  <2>2. /\ s \o H \in Seq(Words) /\ Len(s \o H) = Len(s) + Len(H)
        /\ \A i \in 1 .. Len(s): (s \o H)[i] = s[i]
        /\ \A i \in 1 .. Len(H): (s \o H)[Len(s) + i] = H[i]
    BY <1>1, PlacesJoined
  <2>3. QED
    BY <1>3, <1>5, <2>1, <2>2
<1>7. DOMAIN file = 1 .. n + 5 /\ Len(file) = n + 5
  BY <1>6
<1>8. file[1] = E[1] /\ file[2] = E[2] /\ file[3] = E[3]
  <2>1. 1 \in 1 .. 3 /\ 2 \in 1 .. 3 /\ 3 \in 1 .. 3 /\ \A i \in 1 .. 3: i \in 1 .. 3 + n
    OBVIOUS
  <2>2. QED
    BY <1>5, <1>6, <2>1
<1>9. ASSUME NEW i \in 4 .. n + 3 PROVE file[i] \in OwnWords
  <2>1. i - 3 \in 1 .. n /\ 3 + (i - 3) = i /\ i \in 1 .. 3 + n
    OBVIOUS
  <2>2. file[i] = own[i - 3]
    BY <1>5, <1>6, <2>1
  <2>3. own[i - 3] \in OwnWords
    BY <2>1, ElementOfSeq
  <2>4. QED
    BY <2>2, <2>3
<1>10. file[n + 4] = H[1] /\ file[n + 5] = H[2]
  <2>1. (3 + n) + 1 = n + 4 /\ (3 + n) + 2 = n + 5
    OBVIOUS
  <2>2. QED
    BY <1>6, <2>1
<1>11. QED
  BY <1>2, <1>3, <1>7, <1>8, <1>9, <1>10

\* A flag that is there once is what counts.
LEMMA EffectiveOnce ==
  ASSUME NEW m \in Nat, DOMAIN file = 1 .. m, Len(file) = m, NEW k \in 1 .. m, NEW named,
         file[k].flag = named, \A i \in 1 .. m: i # k => file[i].flag # named
  PROVE  Args!Effective(named) = file[k].value
<1> DEFINE Last(i) == file[i].flag = named /\ \A j \in i + 1 .. Len(file): file[j].flag # named
           it == CHOOSE i \in DOMAIN file: Last(i)
<1>1. \E i \in DOMAIN file: Last(i)
  <2>1. \A j \in k + 1 .. Len(file): j \in 1 .. m /\ j # k
    OBVIOUS
  <2>2. Last(k)
    BY <2>1
  <2>3. QED
    BY <2>2
<1>2. it \in DOMAIN file /\ Last(it)
  <2> HIDE DEF Last
  <2>1. QED
    BY <1>1
<1>3. \E i \in DOMAIN file: file[i].flag = named
  OBVIOUS
<1>4. Args!Effective(named) = file[it].value
  BY <1>3, Zenon DEF Args!Effective
<1> HIDE DEF it
<1>5. it = k
  BY <1>2
<1>6. QED
  BY <1>4, <1>5

LEMMA TunedFile == ArgsInv => Args!TuningHolds
<1> SUFFICES ASSUME ArgsInv, applied PROVE Args!TuningHolds
  BY DEF Args!TuningHolds
<1>1. PICK own \in Seq(OwnWords): file = (Args!ElasticHeapFlags \o own) \o HeapFlags(heapPlan)
  BY DEF ArgsInv, IsMerged
<1>2. PICK n \in Nat: n = Len(own)
  OBVIOUS
<1>3. heapPlan \in Heaps
  BY DEF ArgsInv, ArgsTypes
<1>4. /\ DOMAIN file = 1 .. n + 5 /\ Len(file) = n + 5
      /\ file[1] = Args!Arg("IgnoreUnrecognizedVMOptions", TRUE)
      /\ file[2] = Args!Arg("AlwaysPreTouch", FALSE) /\ file[3] = Args!Arg("G1PeriodicGC", TRUE)
      /\ \A i \in 4 .. n + 3: file[i] \in OwnWords
      /\ file[n + 4] = Args!Arg("-Xms", heapPlan.min) /\ file[n + 5] = Args!Arg("-Xmx", heapPlan.max)
  BY <1>1, <1>2, <1>3, PlacesOfMerged
<1>5. /\ file[1].flag = "IgnoreUnrecognizedVMOptions"
      /\ file[2].flag = "AlwaysPreTouch" /\ file[2].value = FALSE /\ file[3].flag = "G1PeriodicGC"
      /\ file[n + 4].flag = "-Xms" /\ file[n + 4].value = heapPlan.min
      /\ file[n + 5].flag = "-Xmx" /\ file[n + 5].value = heapPlan.max
  BY <1>4 DEF Args!Arg
<1>6. \A i \in 4 .. n + 3: file[i].flag \notin {"-Xms", "-Xmx", "AlwaysPreTouch"}
  BY <1>4 DEF OwnWords, Args!IsManagedFlag, Args!MANAGED_PREFIXES
<1>7. \A i \in 1 .. n + 5: i \in {1, 2, 3, n + 4, n + 5} \/ i \in 4 .. n + 3
  OBVIOUS
<1>8. Args!Effective("-Xms") = heapPlan.min
  <2>1. \A i \in 1 .. n + 5: i # n + 4 => file[i].flag # "-Xms"
    BY <1>5, <1>6, <1>7
  <2>2. n + 4 \in 1 .. n + 5 /\ n + 5 \in Nat
    OBVIOUS
  <2>3. QED
    BY <1>4, <1>5, <2>1, <2>2, EffectiveOnce
<1>9. Args!Effective("-Xmx") = heapPlan.max
  <2>1. \A i \in 1 .. n + 5: i # n + 5 => file[i].flag # "-Xmx"
    BY <1>5, <1>6, <1>7
  <2>2. n + 5 \in 1 .. n + 5 /\ n + 5 \in Nat
    OBVIOUS
  <2>3. QED
    BY <1>4, <1>5, <2>1, <2>2, EffectiveOnce
<1>10. Args!Effective("AlwaysPreTouch") = FALSE
  <2>1. \A i \in 1 .. n + 5: i # 2 => file[i].flag # "AlwaysPreTouch"
    BY <1>5, <1>6, <1>7
  <2>2. 2 \in 1 .. n + 5 /\ n + 5 \in Nat
    OBVIOUS
  <2>3. QED
    BY <1>4, <1>5, <2>1, <2>2, EffectiveOnce
<1>11. Head(file).flag = "IgnoreUnrecognizedVMOptions"
  <2>1. file \in Seq(Words) /\ file # <<>>
    BY <1>4 DEF ArgsInv, ArgsTypes
  <2>2. Head(file) = file[1]
    BY <2>1
  <2>3. QED
    BY <1>5, <2>2
<1>12. Args!Kept(file) = own
  <2>1. Args!ElasticHeapFlags \in Seq(Elastic) /\ HeapFlags(heapPlan) \in Seq(HeapArgs)
    BY <1>3, PanelArgs DEF HeapFlags
  <2>2. QED
    BY <1>1, <2>1, KeptOfMerged
<1>13. Len(file) = Len(Args!ElasticHeapFlags) + 2 + Len(Args!Kept(file))
  <2>1. Len(Args!ElasticHeapFlags) = 3
    BY DEF Args!ElasticHeapFlags
  <2>2. QED
    BY <1>2, <1>4, <1>12, <2>1
<1>14. (\A i \in DOMAIN shipped: ~ shipped[i].spaced) => Args!Kept(file) = Args!Kept(shipped)
  BY DEF ArgsInv, OwnArgsStay
<1>15. QED
  BY <1>8, <1>9, <1>10, <1>11, <1>13, <1>14 DEF Args!TuningHolds

LEMMA ArgsApart == [Next]_vars => [Args!Next]_argsVars
<1> SUFFICES ASSUME [Next]_vars PROVE [Args!Next]_argsVars
  OBVIOUS
<1>1. CASE ArgsStep
  BY <1>1 DEF ArgsStep
<1>2. CASE SettingsStep \/ ListsStep \/ ModsStep \/ PlanStep \/ RegistryStep \/ CapacityStep
  BY <1>2 DEF SettingsStep, ListsStep, ModsStep, PlanStep, RegistryStep, CapacityStep
<1>3. CASE OutOfPacks \/ UNCHANGED vars
  BY <1>3 DEF OutOfPacks, vars
<1>4. QED
  BY <1>1, <1>2, <1>3 DEF Next

\* For any arguments that packs ship and any heaps: however often the file was
\* rewritten, the JVM gets the heap of the current settings, the panel's flags
\* stand there once, and the pack's own arguments are all there in their
\* order, if none of them has a space.
THEOREM TuningIsRight == Spec => []TuningHolds
<1>1. Init => ArgsInv
  BY ArgsBegin DEF Init
<1>2. ArgsInv /\ [Next]_vars => ArgsInv'
  BY ArgsApart, ArgsKeep
<1>3. ArgsInv => TuningHolds
  BY TunedFile DEF TuningHolds
<1>4. QED
  BY <1>1, <1>2, <1>3, PTL DEF Spec

=============================================================================
