-------------------------- MODULE PressureProofs ----------------------------
(***************************************************************************)
(* What is proved of the memory pressure controller, for any finite set of *)
(* servers and any lengths of its clocks: each variable keeps to its type  *)
(* and no sleep is without its record (SleepsRecorded), and nobody is put  *)
(* to sleep under their players without a whole warning (CountdownIsKept). *)
(*                                                                         *)
(* The largest of a set of servers is a CHOOSE, so the first lemmas say    *)
(* that there is one.  The minute rests on HeardInv: what is left of the   *)
(* countdown and what the players have heard of it add up to one warning,  *)
(* unless the JVM that heard it is gone and the tick has not noticed yet;  *)
(* and on TickInv: there is one countdown, tick or intervention at a time. *)
(***************************************************************************)
EXTENDS PressureControl, FiniteSetTheorems, WellFoundedInduction, TLAPS

-----------------------------------------------------------------------------
(* The largest server, and the one with the fewest players.                *)

\* A set of servers that is not empty has one with the most memory.
LEMMA LargestIsOne ==
  ASSUME NEW S \in SUBSET Server, S # {}
  PROVE  Largest(S) \in S
<1> DEFINE Larger(s) == {t \in S : Weight[t] > Weight[s]}
<1> DEFINE Sizes == {Larger(s) : s \in S}
<1> DEFINE R == StrictSubsetOrdering(Server)
<1>1. IsWellFoundedOn(R, FiniteSubsetsOf(Server))
  BY PressureAssumption, FS_StrictSubsetOrderingWellFounded
<1>2. Sizes \subseteq FiniteSubsetsOf(Server)
  BY PressureAssumption, FS_Subset DEF FiniteSubsetsOf
<1>3. PICK least \in Sizes : \A smaller \in Sizes : ~(<<smaller, least>> \in R)
  <2>1. Sizes # {}
    OBVIOUS
  <2> HIDE DEF R, Sizes
  <2>2. QED
    BY <1>1, <1>2, <2>1, WFMin
<1>4. PICK s \in S : least = Larger(s)
  BY <1>3
<1>5. ASSUME NEW t \in S PROVE Weight[t] <= Weight[s]
  <2>1. Weight[t] \in Nat /\ Weight[s] \in Nat /\ \A u \in S : Weight[u] \in Nat
    BY PressureAssumption
  <2>2. SUFFICES ASSUME Weight[t] > Weight[s] PROVE FALSE
    BY <2>1
  <2>3. Larger(t) \subseteq Larger(s) /\ t \in Larger(s) /\ t \notin Larger(t)
    BY <2>1, <2>2
  <2>4. <<Larger(t), Larger(s)>> \in R
    BY <2>3 DEF StrictSubsetOrdering
  <2>5. QED
    BY <1>3, <1>4, <2>4
<1>6. QED
  BY <1>5 DEF Largest

\* Of the servers that may be warned, one is.
LEMMA SomeoneIsNext ==
  ASSUME TypeOK, tick.todo # {}
  PROVE  NextToWarn \in tick.todo
<1> DEFINE fewest == {s \in tick.todo : \A t \in tick.todo : Players(s) <= Players(t)}
<1>1. tick.todo \subseteq Server /\ \A s \in tick.todo : Players(s) \in {-2, 0, 1, 2}
  BY DEF TypeOK, Players, Unknown, Skipped
<1>2. fewest # {}
  <2>1. CASE \E s \in tick.todo : Players(s) = -2
    BY <1>1, <2>1
  <2>2. CASE ~(\E s \in tick.todo : Players(s) = -2) /\ \E s \in tick.todo : Players(s) = 0
    BY <1>1, <2>2
  <2>3. CASE (\A s \in tick.todo : Players(s) \in {1, 2}) /\ \E s \in tick.todo : Players(s) = 1
    BY <1>1, <2>3
  <2>4. CASE \A s \in tick.todo : Players(s) = 2
    BY <1>1, <2>4
  <2>5. QED
    BY <1>1, <2>1, <2>2, <2>3, <2>4
<1>3. Largest(fewest) \in fewest
  BY <1>1, <1>2, LargestIsOne
<1>4. QED
  BY <1>3 DEF NextToWarn

-----------------------------------------------------------------------------
(* Types.                                                                  *)

Steps  == {"idle", "again", "ask", "empty", "confirm", "warn"}
Ticks  == [step: Steps, counts: [Server -> {Skipped, Unknown, 0, 1}], todo: SUBSET Server]
Emptiness == [Server -> {Unknown} \cup 0..EmptyTime]
Waits     == [Server -> 0..Retry]
Heard     == [Server -> {Unknown} \cup 0..Warning]

LEMMA ConstantTypes ==
  /\ Warning \in Nat \ {0} /\ Retry \in Nat \ {0} /\ EmptyTime \in Nat \ {0}
  /\ 0 \in 0..Warning /\ Warning \in 0..Warning /\ Retry \in 0..Retry /\ 0 \in 0..Retry
  /\ 0 \in 0..EmptyTime /\ Idle \in Ticks /\ Idle.step = "idle" /\ Unknown \notin Nat
BY PressureAssumption DEF Idle, Ticks, Steps, Unknown

LEMMA BeginSleepType ==
  ASSUME TypeOK, NEW s \in Server, BeginSleep(s)
  PROVE  /\ job' \in [server: Server, step: {"saving", "refused", "exiting"}]
         /\ pending' = NoServer /\ left' = 0 /\ told' \in Heard /\ tick' = Idle
BY DEF BeginSleep, TypeOK, Heard

LEMMA JobType ==
  ASSUME TypeOK, JobSteps
  PROVE  TypeOK'
<1>1. job # NoJob => job.server \in Server
  BY DEF TypeOK
<1>2. job.step # "none"
  BY DEF JobSteps, JobStops, JobSlept, JobFails
<1>3. job.server \in Server /\ job \in [server: Server, step: {"saving", "refused", "exiting"}]
  BY <1>1, <1>2 DEF NoJob, TypeOK
<1>4. ASSUME NEW s \in Server, LeaveAlone(s)
      PROVE  retry' \in Waits /\ emptyFor' \in Emptiness
  BY <1>4, ConstantTypes DEF LeaveAlone, TypeOK, Waits, Emptiness
<1>5. CASE JobStops
  BY <1>3, <1>5 DEF JobStops, TypeOK, machine, memory, history
<1>6. CASE JobSlept
  BY <1>3, <1>4, <1>6 DEF JobSlept, TypeOK, machine, history, Waits, Emptiness
<1>7. CASE JobFails
  BY <1>3, <1>4, <1>7 DEF JobFails, TypeOK, machine, disk, history, Waits, Emptiness
<1>8. QED
  BY <1>5, <1>6, <1>7 DEF JobSteps

LEMMA TickType ==
  ASSUME TypeOK, TickSteps
  PROVE  TypeOK'
<1>0. tick \in Ticks
  BY DEF TypeOK, Ticks, Steps
<1>1. ASSUME Refresh PROVE mode' \in [Server -> {"off", "new", "starting", "running", "held"}]
  BY <1>1 DEF Refresh, TypeOK
<1>2. ASSUME Cancel PROVE pending' = NoServer /\ left' \in 0..Warning /\ told' \in Heard
  BY <1>2, ConstantTypes DEF Cancel, TypeOK, Heard
<1>3. ASSUME NEW S \in SUBSET Server, NEW l \in Steps PROVE [tick EXCEPT !.step = l, !.todo = S] \in Ticks
  BY <1>0 DEF Ticks
<1>4. ASSUME NEW l \in Steps PROVE [tick EXCEPT !.step = l] \in Ticks
  BY <1>0 DEF Ticks
<1>5. ASSUME NEW S \in SUBSET Server PROVE [tick EXCEPT !.todo = S] \in Ticks
  BY <1>0 DEF Ticks
<1>6. \A S \in SUBSET Server : S # {} => Largest(S) \in S
  BY LargestIsOne
<1>7. tick.todo \in SUBSET Server /\ {s \in Server : tick.counts[s] # Skipped} \in SUBSET Server
  BY <1>0 DEF Ticks
<1>8. CASE TickCalm
  BY <1>1, <1>2, <1>8, ConstantTypes DEF TickCalm, TypeOK, disk, Heard
<1>9. CASE TickBegin
  <2>1. tick' \in Ticks
    BY <1>9, ConstantTypes DEF TickBegin, Ticks, Steps
  <2>2. QED
    BY <1>1, <1>9, <2>1 DEF TickBegin, TypeOK, memory, disk, history, Ticks, Steps
<1>10. CASE TickRecovered \/ TickWaits \/ TickChanged \/ TickGivesUp
  <2>1. tick' \in Ticks
    BY <1>10, ConstantTypes DEF TickRecovered, TickWaits, TickChanged, TickGivesUp
  <2>2. QED
    BY <1>2, <1>10, <2>1 DEF TickRecovered, TickWaits, TickChanged, TickGivesUp, TypeOK,
       machine, memory, disk, history, Ticks, Steps, Heard
<1>11. CASE TickPending
  <2>1. pending \in Server
    BY <1>11 DEF TickPending, TypeOK
  <2>2. tick' = Idle
    BY <1>11 DEF TickPending, BeginSleep
  <2>3. CASE BeginSleep(pending)
    BY <1>11, <2>1, <2>3, BeginSleepType, ConstantTypes
       DEF TickPending, TypeOK, machine, disk, Ticks, Steps, Heard
  <2>4. CASE UNCHANGED <<pending, left, job, told>>
    BY <1>11, <2>2, <2>4, ConstantTypes DEF TickPending, TypeOK, machine, disk, Ticks, Steps
  <2>5. QED
    BY <1>11, <2>3, <2>4 DEF TickPending
<1>12. CASE TickAsk
  <2>1. tick' \in Ticks
    BY <1>4, <1>12 DEF TickAsk, Steps
  <2>2. QED
    BY <1>12, <2>1 DEF TickAsk, TypeOK, machine, memory, disk, history, Ticks, Steps
<1>13. CASE TickCounted
  <2>1. PICK counts \in [Server -> {Unknown, 0, 1}] :
          /\ emptyFor' = [s \in Server |-> IF counts[s] # 0 THEN Unknown
                                           ELSE IF emptyFor[s] = Unknown THEN 0 ELSE emptyFor[s]]
          /\ retry' = [s \in Server |-> IF Current(s) THEN retry[s] ELSE 0]
          /\ tick' = [step |-> "empty", todo |-> {s \in Server : LongEmpty(s)},
                      counts |-> [s \in Server |-> IF Eligible(s) THEN counts[s] ELSE Skipped]]
    BY <1>13 DEF TickCounted
  <2>2. emptyFor' \in Emptiness /\ retry' \in Waits
    BY <2>1, ConstantTypes DEF TypeOK, Emptiness, Waits
  <2>3. tick' \in Ticks
    BY <2>1 DEF Ticks, Steps
  <2>4. QED
    BY <1>13, <2>2, <2>3 DEF TickCounted, TypeOK, machine, disk, Ticks, Steps, Emptiness, Waits
<1>14. CASE TickNotEmpty
  <2>1. Largest(tick.todo) \in Server
    BY <1>6, <1>7, <1>14 DEF TickNotEmpty
  <2>2. tick' \in Ticks /\ emptyFor' \in Emptiness
    BY <1>0, <1>14, <2>1 DEF TickNotEmpty, Ticks, Emptiness, TypeOK
  <2>3. QED
    BY <1>14, <2>2 DEF TickNotEmpty, TypeOK, machine, disk, Ticks, Steps, Emptiness
<1>15. CASE TickStillEmpty
  <2>1. Largest(tick.todo) \in Server
    BY <1>6, <1>7, <1>15 DEF TickStillEmpty
  <2>2. tick' \in Ticks
    BY <1>15, <2>1, ConstantTypes DEF TickStillEmpty, Ticks, Steps
  <2>3. QED
    BY <1>15, <2>2 DEF TickStillEmpty, TypeOK, machine, memory, disk, history, Ticks, Steps
<1>16. CASE TickConfirm
  <2>1. PICK s \in tick.todo : IF s \in risk THEN BeginSleep(s)
                               ELSE tick' = Idle /\ UNCHANGED <<pending, left, job, told>>
    BY <1>16 DEF TickConfirm
  <2>2. CASE BeginSleep(s)
    BY <1>7, <1>16, <2>2, BeginSleepType, ConstantTypes
       DEF TickConfirm, TypeOK, machine, disk, Ticks, Steps, Heard
  <2>3. CASE tick' = Idle /\ UNCHANGED <<pending, left, job, told>>
    BY <1>16, <2>3, ConstantTypes DEF TickConfirm, TypeOK, machine, disk, Ticks, Steps
  <2>4. QED
    BY <2>1, <2>2, <2>3
<1>17. CASE TickNoEmpty
  <2>1. tick' \in Ticks
    BY <1>3, <1>7, <1>17, ConstantTypes DEF TickNoEmpty, Steps
  <2>2. QED
    BY <1>17, <2>1 DEF TickNoEmpty, TypeOK, machine, memory, disk, history, Ticks, Steps
<1>18. CASE TickWarned
  <2>1. NextToWarn \in Server
    BY <1>7, <1>18, SomeoneIsNext DEF TickWarned
  <2>2. told' \in Heard
    BY <1>18, <2>1, ConstantTypes DEF TickWarned, TypeOK, Heard
  <2>3. QED
    BY <1>18, <2>1, <2>2, ConstantTypes DEF TickWarned, TypeOK, machine, disk, Ticks, Steps, Heard
<1>19. CASE TickUnwarned
  <2>1. NextToWarn \in Server
    BY <1>7, <1>19, SomeoneIsNext DEF TickUnwarned
  <2>2. tick' \in Ticks /\ retry' \in Waits
    BY <1>0, <1>19, <2>1, ConstantTypes DEF TickUnwarned, TypeOK, Ticks, Waits
  <2>3. QED
    BY <1>19, <2>2 DEF TickUnwarned, TypeOK, machine, disk, history, Ticks, Steps, Waits
<1>20. QED
  BY <1>8, <1>9, <1>10, <1>11, <1>12, <1>13, <1>14, <1>15, <1>16, <1>17, <1>18, <1>19 DEF TickSteps

LEMMA OutsideType ==
  ASSUME TypeOK, NEW s \in Server, Outside(s)
  PROVE  TypeOK'
<1>1. OnClock(s) \subseteq Server
  BY DEF OnClock
<1>2. CASE Join(s) \/ Leave(s)
  BY <1>1, <1>2 DEF Join, Leave, TypeOK, memory, disk, history
<1>3. CASE Own(s) \/ Ready(s) \/ RecordExpires(s)
  BY <1>3 DEF Own, Ready, RecordExpires, TypeOK, machine, memory, disk, history
<1>4. CASE Exit(s)
  BY <1>1, <1>4 DEF Exit, TypeOK, memory, disk
<1>5. CASE Start(s)
  BY <1>5 DEF Start, TypeOK, memory
<1>6. QED
  BY <1>2, <1>3, <1>4, <1>5 DEF Outside

LEMMA ElseType ==
  ASSUME TypeOK, SetRisk \/ TimePasses \/ Crash \/ UNCHANGED vars
  PROVE  TypeOK'
<1>1. CASE SetRisk
  BY <1>1 DEF SetRisk, TypeOK, memory, disk, history
<1>2. CASE TimePasses
  <2>1. \A n \in Nat : Sooner(n) \in 0..n
    BY DEF Sooner
  <2>2. ASSUME NEW most \in Nat, NEW clock \in {Unknown} \cup 0..most
        PROVE  Later(clock, most) \in {Unknown} \cup 0..most
    BY DEF Later, Unknown
  <2>3. left' \in 0..Warning /\ retry' \in Waits
    BY <1>2, <2>1, ConstantTypes DEF TimePasses, TypeOK, Waits
  <2>4. emptyFor' \in Emptiness /\ told' \in Heard
    BY <1>2, <2>2, ConstantTypes DEF TimePasses, TypeOK, Emptiness, Heard
  <2>5. QED
    BY <1>2, <2>3, <2>4 DEF TimePasses, TypeOK, machine, disk, Waits, Emptiness, Heard
<1>3. CASE Crash
  BY <1>3, ConstantTypes DEF Crash, TypeOK, disk, Ticks, Steps
<1>4. CASE UNCHANGED vars
  BY <1>4 DEF vars, TypeOK, machine, memory, disk, history
<1>5. QED
  BY <1>1, <1>2, <1>3, <1>4

LEMMA InitType == Init => TypeOK
BY ConstantTypes, PressureAssumption DEF Init, TypeOK, Ticks, Steps

LEMMA NextType == TypeOK /\ [Next]_vars => TypeOK'
BY TickType, JobType, OutsideType, ElseType DEF Next

-----------------------------------------------------------------------------
(* The records of the sleeps.                                              *)

\* A stop goes out with its record, and both are forgotten together.
RecordInv == doomed \subseteq recorded /\ slept \subseteq recorded

LEMMA RecordStep == RecordInv /\ [Next]_vars => RecordInv'
<1> SUFFICES ASSUME RecordInv, [Next]_vars PROVE RecordInv'
  OBVIOUS
<1> USE DEF RecordInv
<1>1. CASE TickSteps
  BY <1>1 DEF TickSteps, TickCalm, TickBegin, TickRecovered, TickWaits, TickChanged, TickPending,
     TickAsk, TickCounted, TickNotEmpty, TickStillEmpty, TickConfirm, TickNoEmpty, TickWarned,
     TickUnwarned, TickGivesUp, disk, history
<1>2. CASE JobSteps
  BY <1>2 DEF JobSteps, JobStops, JobSlept, JobFails, disk, history
<1>3. CASE SetRisk \/ TimePasses \/ Crash
  BY <1>3 DEF SetRisk, TimePasses, Crash, disk, history
<1>4. ASSUME NEW s \in Server, Outside(s) PROVE RecordInv'
  BY <1>4 DEF Outside, Join, Leave, Own, Exit, Start, Ready, RecordExpires, disk, history
<1>5. CASE UNCHANGED vars
  BY <1>5 DEF vars, disk, history
<1>6. QED
  BY <1>1, <1>2, <1>3, <1>4, <1>5 DEF Next

\* A server that pressure put to sleep has its demand on disk, whatever became
\* of the backend meanwhile.
THEOREM SleepsRecorded == Spec => []SleepsAreRecorded
<1>1. Init => TypeOK /\ RecordInv
  BY InitType DEF Init, RecordInv
<1>2. TypeOK /\ RecordInv /\ [Next]_vars => (TypeOK /\ RecordInv)'
  BY NextType, RecordStep
<1>3. TypeOK /\ RecordInv => SleepsAreRecorded
  BY DEF RecordInv, SleepsAreRecorded, SleptIsRecorded
<1>4. QED
  BY <1>1, <1>2, <1>3, PTL DEF Spec

-----------------------------------------------------------------------------
(* The minute.                                                             *)

\* An intervention has taken the countdown with it, and a tick that looks for
\* a server found neither.
TickInv ==
  /\ job # NoJob => pending = NoServer
  /\ pending # NoServer \/ job # NoJob => tick.step \in {"idle", "again"}

\* The countdown and what the players have heard of it make one warning.  A JVM
\* that ended in between, and another that boots, did not hear it: the next
\* tick sees that before the boot is over.
HeardInv ==
  pending # NoServer =>
    \/ told[pending] = Warning - left
    \/ mode[pending] \in {"off", "new"}
    \/ mode[pending] = "starting" /\ tick.step = "again"

\* The steps of a tick that looks for a server leave the countdown alone.
Search ==
  \/ TickCounted \/ TickNotEmpty \/ TickStillEmpty \/ TickNoEmpty \/ TickUnwarned \/ TickGivesUp

LEMMA SearchFindsNone ==
  ASSUME TickInv, Search
  PROVE  pending = NoServer /\ job = NoJob /\ UNCHANGED <<mode, pending, left, job, told>>
BY DEF TickInv, Search, TickCounted, TickNotEmpty, TickStillEmpty, TickNoEmpty, TickUnwarned,
   TickGivesUp, machine, memory, history

LEMMA TickInvStep == TypeOK /\ TickInv /\ [Next]_vars => TickInv'
<1> SUFFICES ASSUME TypeOK, TickInv, [Next]_vars PROVE TickInv'
  OBVIOUS
<1>0. Idle.step = "idle"
  BY DEF Idle
<1>1. ASSUME pending' = NoServer, tick'.step = "idle" PROVE TickInv'
  BY <1>1 DEF TickInv
<1>2. ASSUME NEW s, BeginSleep(s) PROVE TickInv'
  BY <1>0, <1>1, <1>2 DEF BeginSleep
<1>3. CASE TickCalm \/ TickRecovered \/ TickChanged \/ Crash
  BY <1>0, <1>1, <1>3 DEF TickCalm, TickRecovered, TickChanged, Crash, Cancel
<1>4. CASE TickBegin
  BY <1>4 DEF TickBegin, TickInv, Idle, memory
<1>5. CASE TickWaits
  BY <1>0, <1>5 DEF TickWaits, TickInv, memory
<1>6. CASE TickPending
  BY <1>0, <1>2, <1>6 DEF TickPending, TickInv
<1>7. CASE TickAsk
  BY <1>7 DEF TickAsk, TickInv, memory
<1>8. CASE Search
  BY <1>8, SearchFindsNone DEF TickInv
<1>9. CASE TickConfirm
  BY <1>0, <1>2, <1>9 DEF TickConfirm, TickInv
<1>10. CASE TickWarned
  BY <1>0, <1>10 DEF TickWarned, TickInv
<1>11. CASE JobSteps
  BY <1>11 DEF JobSteps, JobStops, JobSlept, JobFails, memory, TickInv, NoJob
<1>12. CASE SetRisk \/ TimePasses \/ UNCHANGED vars
  BY <1>12 DEF SetRisk, TimePasses, vars, memory, TickInv
<1>13. ASSUME NEW s \in Server, Outside(s) PROVE TickInv'
  BY <1>13 DEF Outside, Join, Leave, Own, Exit, Start, Ready, RecordExpires, memory, TickInv
<1>14. QED
  BY <1>3, <1>4, <1>5, <1>6, <1>7, <1>8, <1>9, <1>10, <1>11, <1>12, <1>13 DEF Next, TickSteps, Search

LEMMA HeardInvStep == TypeOK /\ TickInv /\ HeardInv /\ [Next]_vars => HeardInv'
<1> SUFFICES ASSUME TypeOK, TickInv, HeardInv, [Next]_vars, pending' # NoServer
             PROVE  HeardInv'
  BY DEF HeardInv
<1>0. /\ pending \in Server \cup {NoServer} /\ mode \in [Server -> {"off", "new", "starting", "running", "held"}]
      /\ told \in Heard /\ left \in 0..Warning /\ Warning \in Nat /\ NoServer \notin Server
  BY ConstantTypes, PressureAssumption DEF TypeOK, Heard
<1>1. ASSUME UNCHANGED <<pending, left, told, mode, tick>> PROVE HeardInv'
  BY <1>1 DEF HeardInv
<1>2. CASE TickBegin
  <2>1. pending \in Server /\ UNCHANGED <<pending, left, told>> /\ tick'.step = "again"
    BY <1>0, <1>2 DEF TickBegin, memory, history, Idle
  <2>2. mode'[pending] = IF mode[pending] = "new" THEN "starting" ELSE mode[pending]
    BY <1>2, <2>1 DEF TickBegin, Refresh
  <2>3. QED
    BY <1>2, <2>1, <2>2 DEF HeardInv, TickBegin
<1>3. CASE TickWaits
  BY <1>3 DEF TickWaits, TickInv, memory
<1>4. CASE TickPending
  <2>1. mode[pending] = "running"
    BY <1>4 DEF TickPending, Current
  <2>2. UNCHANGED <<pending, left, told, mode>>
    BY <1>4 DEF TickPending, BeginSleep, machine
  <2>3. QED
    BY <2>1, <2>2 DEF HeardInv
<1>5. CASE TickAsk \/ Search
  BY <1>5, SearchFindsNone DEF TickAsk, memory
<1>6. CASE TickCalm \/ TickRecovered \/ TickChanged \/ TickConfirm \/ Crash
  <2>1. ~TickConfirm
    BY DEF TickConfirm, TickInv, BeginSleep
  <2>2. QED
    BY <1>6, <2>1 DEF TickCalm, TickRecovered, TickChanged, Crash, Cancel
<1>7. CASE TickWarned
  <2>1. pending' = NextToWarn /\ NextToWarn \in Server
    BY <1>7, SomeoneIsNext DEF TickWarned, TypeOK
  <2>2. told'[pending'] = 0 /\ left' = Warning
    BY <1>0, <1>7, <2>1 DEF TickWarned, Heard
  <2>3. QED
    BY <1>0, <2>2 DEF HeardInv
<1>8. CASE JobSteps
  <2>1. job # NoJob /\ pending' = pending
    BY <1>8 DEF JobSteps, JobStops, JobSlept, JobFails, memory, NoJob
  <2>2. QED
    BY <2>1 DEF TickInv
<1>9. CASE SetRisk \/ UNCHANGED vars
  BY <1>1, <1>9 DEF SetRisk, vars, machine, memory, history
<1>10. CASE TimePasses
  <2>1. pending \in Server /\ UNCHANGED <<pending, mode, tick>>
    BY <1>0, <1>10 DEF TimePasses, machine
  <2>2. left' = Sooner(left) /\ told'[pending] = Later(told[pending], Warning)
    BY <1>10, <2>1 DEF TimePasses
  <2>3. told[pending] = Warning - left => told'[pending] = Warning - left'
    BY <1>0, <2>2 DEF Sooner, Later, Unknown
  <2>4. QED
    BY <2>1, <2>3 DEF HeardInv
<1>11. ASSUME NEW s \in Server, Outside(s) PROVE HeardInv'
  <2>1. pending \in Server /\ UNCHANGED <<pending, left, tick>>
    BY <1>0, <1>11 DEF Outside, Join, Leave, Own, Exit, Start, Ready, RecordExpires, memory
  <2>2. CASE Join(s) \/ Leave(s) \/ RecordExpires(s)
    BY <1>1, <2>1, <2>2 DEF Join, Leave, RecordExpires, machine, history
  <2>3. CASE Own(s)
    BY <1>0, <2>1, <2>3 DEF Own, history, HeardInv
  <2>4. CASE Exit(s)
    BY <1>0, <2>1, <2>4 DEF Exit, HeardInv, Heard
  <2>5. CASE Start(s)
    BY <1>0, <2>1, <2>5 DEF Start, HeardInv
  <2>6. CASE Ready(s)
    BY <1>0, <2>1, <2>6 DEF Ready, history, HeardInv
  <2>7. QED
    BY <1>11, <2>2, <2>3, <2>4, <2>5, <2>6 DEF Outside
<1>12. QED
  BY <1>2, <1>3, <1>4, <1>5, <1>6, <1>7, <1>8, <1>9, <1>10, <1>11 DEF Next, TickSteps, Search

\* A sleep that was not confirmed empty begins only when the players of this
\* very JVM were told a whole warning ago, and not told otherwise since.
THEOREM CountdownIsKept == Spec => CountdownKept
<1>1. Init => TypeOK /\ TickInv /\ HeardInv
  BY InitType, ConstantTypes DEF Init, TickInv, HeardInv
<1>2. TypeOK /\ TickInv /\ HeardInv /\ [Next]_vars => (TypeOK /\ TickInv /\ HeardInv)'
  BY NextType, TickInvStep, HeardInvStep
<1>3. TypeOK /\ TickInv /\ HeardInv /\ [Next]_vars =>
        [\A s \in Server :
           job'.server = s /\ job.server # s /\ tick.step # "confirm" => told[s] = Warning]_vars
  <2> SUFFICES ASSUME TypeOK, TickInv, HeardInv, Next, NEW s \in Server,
                      job'.server = s, job.server # s, tick.step # "confirm"
               PROVE  told[s] = Warning
    OBVIOUS
  <2>1. NoJob.server \notin Server
    BY PressureAssumption DEF NoJob
  <2>2. ~JobSteps
    <3>1. ASSUME JobStops PROVE FALSE
      BY <3>1 DEF JobStops, TypeOK, NoJob
    <3>2. ASSUME JobSlept \/ JobFails PROVE FALSE
      BY <2>1, <3>2 DEF JobSlept, JobFails
    <3>3. QED
      BY <3>1, <3>2 DEF JobSteps
  <2>3. TickPending
    <3>1. job' # job /\ ~Crash
      BY <2>1 DEF Crash
    <3>2. QED
      BY <2>2, <3>1 DEF Next, TickSteps, TickCalm, TickBegin, TickRecovered, TickWaits, TickChanged,
         TickAsk, TickCounted, TickNotEmpty, TickStillEmpty, TickConfirm, TickNoEmpty, TickWarned,
         TickUnwarned, TickGivesUp, SetRisk, TimePasses, Outside, Join, Leave, Own, Exit, Start,
         Ready, RecordExpires
  <2>4. left = 0 /\ BeginSleep(pending)
    BY <2>3 DEF TickPending
  <2>5. s = pending /\ mode[pending] = "running"
    BY <2>3, <2>4 DEF TickPending, BeginSleep, Current
  <2>6. told[pending] = Warning - left
    BY <2>1, <2>5 DEF HeardInv, NoJob
  <2>7. QED
    BY <2>4, <2>5, <2>6, ConstantTypes
<1>4. QED
  BY <1>1, <1>2, <1>3, PTL DEF Spec, CountdownKept

=============================================================================
