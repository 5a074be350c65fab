-------------------------- MODULE PressureControl --------------------------
(***************************************************************************)
(* MemoryPressureService: a tick every ten seconds looks at the pool, the  *)
(* host and each server's own limit; while memory is short it sleeps an    *)
(* empty server, or warns the players of one and sleeps it a minute later. *)
(* The sleep itself (hibernate) runs beside the ticks.  Time is counted in *)
(* units; Warning, Retry and EmptyTime stand for the code's 60 seconds.    *)
(***************************************************************************)
EXTENDS Integers, FiniteSets

CONSTANTS
  Server,
  NoServer,
  Operated,   \* servers somebody else operates too, and whose players come and go
              \* (a size of the model)
  Watched,    \* servers whose visits history records (a size of the model)
  Weight,     \* [Server -> memory in use], the order of victims
  Warning,    \* WARNING_MS
  Retry,      \* RETRY_MS
  EmptyTime   \* how long a server has to be empty

ASSUME PressureAssumption ==
  /\ IsFiniteSet(Server) /\ NoServer \notin Server
  /\ Operated \subseteq Server /\ Watched \subseteq Server
  /\ Weight \in [Server -> Nat]
  /\ {Warning, Retry, EmptyTime} \subseteq Nat \ {0}

VARIABLES
  mode,      \* [Server -> off; new or starting (a boot outlasts a tick); running;
             \* held: running, but a lifecycle operation owns it]
  joined,    \* servers with players
  risk,      \* servers a sleep of which is relevant now; {} when memory is not
             \* short, or the pool cannot be verified
  tick,      \* the running tick: its step, the counts of the eligible servers, and
             \* the ones it has still to try
  pending,   \* the server whose players have been warned, or NoServer
  left,      \* time left of that warning
  job,       \* the intervention in flight: its server and step
  emptyFor,  \* [Server -> time since it was first counted empty, or Unknown]
  retry,     \* [Server -> time until it may be tried again]
  recorded,  \* servers with a fresh memory_recovery row that no start has read yet
  doomed,    \* servers that have been sent the stop of a pressure sleep
  told,      \* history: [Server -> time since its players heard of a sleep still to come]
  slept,     \* history: servers put to sleep in the last five minutes
  visited    \* history: watched servers joined, or stopped, on a running clock

machine == <<mode, joined, risk>>
memory == <<pending, left, emptyFor, retry>>
disk == <<recorded, doomed>>
history == <<told, slept, visited>>
vars == <<machine, tick, memory, job, disk, history>>

Unknown == -1
Skipped == -2
Idle == [step |-> "idle", counts |-> [s \in Server |-> Skipped], todo |-> {}]
NoJob == [server |-> NoServer, step |-> "none"]

\* Broken on purpose (for CountdownKept): the status is not looked at.
CurrentAnyMode(s) == mode[s] # "held" /\ job.server # s

\* current: still the running container, owned by nobody.
Current(s) == mode[s] = "running" /\ job.server # s

\* A player count over RCON: the truth, or no answer.
Counts(s) == {Unknown, IF s \in joined THEN 1 ELSE 0}

-----------------------------------------------------------------------------
(* Beginning and ending an intervention.                                   *)

\* beginSleep: hibernate takes the server if nobody else has it.
BeginSleep(s) ==
  /\ job' = [server |-> s, step |-> IF mode[s] = "running" THEN "saving" ELSE "refused"]
  /\ pending' = NoServer /\ left' = 0
  /\ told' = [told EXCEPT ![s] = Unknown]
  /\ tick' = Idle

\* Either way the server is left alone for a while, and its clock restarts.
LeaveAlone(s) ==
  /\ retry' = [retry EXCEPT ![s] = Retry]
  /\ emptyFor' = [emptyFor EXCEPT ![s] = Unknown]

\* Broken on purpose (for SleepsAreRecorded): recorded once the server sleeps.
JobStopsUnrecorded ==
  LET s == job.server IN
  /\ job.step = "saving" /\ s \in risk
  /\ doomed' = doomed \cup {s}
  /\ job' = [job EXCEPT !.step = "exiting"]
  /\ UNCHANGED <<machine, tick, memory, recorded, history>>

\* beforeStop: memory is looked at once more, the demand is recorded, and the
\* stop goes out.
JobStops ==
  LET s == job.server IN
  /\ job.step = "saving" /\ s \in risk
  /\ recorded' = recorded \cup {s} /\ doomed' = doomed \cup {s}
  /\ job' = [job EXCEPT !.step = "exiting"]
  /\ UNCHANGED <<machine, tick, memory, history>>

\* A clean exit was seen in time; the demand is recorded again, with how long it took.
JobSlept ==
  LET s == job.server IN
  /\ job.step = "exiting" /\ mode[s] = "off"
  /\ LeaveAlone(s)
  /\ recorded' = recorded \cup {s}
  /\ job' = NoJob
  /\ UNCHANGED <<machine, tick, pending, left, doomed, history>>

\* Refused, a failed save, memory that recovered, or no exit in time.
JobFails ==
  LET s == job.server IN
  /\ job.step # "none"
  /\ LeaveAlone(s)
  /\ job' = NoJob
  /\ UNCHANGED <<machine, tick, pending, left, disk, history>>

-----------------------------------------------------------------------------
(* The tick.                                                               *)

\* Players were warned, and are told that it is over.
Cancel ==
  /\ pending' = NoServer /\ left' = 0
  /\ told' = IF pending = NoServer THEN told ELSE [told EXCEPT ![pending] = Unknown]

\* The refresh at the beginning sees every boot.
Refresh == mode' = [s \in Server |-> IF mode[s] = "new" THEN "starting" ELSE mode[s]]

\* Memory is not short (or automatic sleep is off): nothing is remembered.
TickCalm ==
  /\ tick.step = "idle" /\ risk = {}
  /\ Refresh
  /\ emptyFor' = [s \in Server |-> Unknown]
  /\ Cancel
  /\ UNCHANGED <<joined, risk, tick, retry, job, disk, slept, visited>>

TickBegin ==
  /\ tick.step = "idle" /\ risk # {}
  /\ Refresh
  /\ tick' = [Idle EXCEPT !.step = "again"]
  /\ UNCHANGED <<joined, risk, memory, job, disk, history>>

\* The second look finds memory recovered.
TickRecovered ==
  /\ tick.step = "again" /\ risk = {}
  /\ Cancel
  /\ tick' = Idle
  /\ UNCHANGED <<machine, emptyFor, retry, job, disk, slept, visited>>

\* One intervention at a time.
TickWaits ==
  /\ tick.step = "again" /\ risk # {} /\ job # NoJob
  /\ tick' = Idle
  /\ UNCHANGED <<machine, memory, job, disk, history>>

\* The warned server has changed, or is no longer the problem.
TickChanged ==
  /\ tick.step = "again" /\ risk # {} /\ job = NoJob /\ pending # NoServer
  /\ ~ (Current(pending) /\ pending \in risk)
  /\ Cancel
  /\ tick' = Idle
  /\ UNCHANGED <<machine, emptyFor, retry, job, disk, slept, visited>>

\* Broken on purpose (for ShedsLoad): every tick begins the minute again.
TickPendingAgain ==
  /\ tick.step = "again" /\ job = NoJob /\ pending \in risk /\ Current(pending)
  /\ left' = Warning
  /\ tick' = Idle
  /\ UNCHANGED <<machine, pending, emptyFor, retry, job, disk, history>>

\* Its minute is over, or goes on (a reminder changes nothing).
TickPending ==
  /\ tick.step = "again" /\ job = NoJob /\ pending \in risk /\ Current(pending)
  /\ IF left = 0
       THEN BeginSleep(pending)
       ELSE tick' = Idle /\ UNCHANGED <<pending, left, job, told>>
  /\ UNCHANGED <<machine, emptyFor, retry, disk, slept, visited>>

TickAsk ==
  /\ tick.step = "again" /\ risk # {} /\ job = NoJob /\ pending = NoServer
  /\ tick' = [tick EXCEPT !.step = "ask"]
  /\ UNCHANGED <<machine, memory, job, disk, history>>

\* The servers a sleep of which would help, unless one was tried just now; the
\* ones among them that have been empty for long enough.
Eligible(s) == Current(s) /\ s \in risk /\ retry'[s] = 0
LongEmpty(s) == Eligible(s) /\ emptyFor'[s] >= EmptyTime

\* All servers are asked at once.  Clocks of servers that are not current, or
\* not known to be empty, are dropped.
TickCounted ==
  /\ tick.step = "ask"
  /\ \E counts \in [Server -> {Unknown, 0, 1}]:
       /\ \A s \in Server: counts[s] \in IF Current(s) THEN Counts(s) ELSE {Unknown}
       /\ emptyFor' = [s \in Server |-> IF counts[s] # 0 THEN Unknown
                                        ELSE IF emptyFor[s] = Unknown THEN 0 ELSE emptyFor[s]]
       /\ retry' = [s \in Server |-> IF Current(s) THEN retry[s] ELSE 0]
       /\ tick' = [step |-> "empty", todo |-> {s \in Server: LongEmpty(s)},
                   counts |-> [s \in Server |-> IF Eligible(s) THEN counts[s] ELSE Skipped]]
  /\ visited' = {s \in visited: emptyFor[s] # Unknown /\ emptyFor'[s] # Unknown}
  /\ UNCHANGED <<machine, pending, left, job, disk, told, slept>>

Largest(S) == CHOOSE s \in S: \A t \in S: Weight[t] <= Weight[s]

\* The largest empty server is asked again: it is no longer current, or not
\* certainly empty, which restarts its clock.
TickNotEmpty ==
  LET s == Largest(tick.todo) IN
  /\ tick.step = "empty" /\ tick.todo # {}
  /\ tick' = [tick EXCEPT !.todo = @ \ {s}]
  /\ emptyFor' = [emptyFor EXCEPT ![s] = IF Current(s) THEN Unknown ELSE @]
  /\ visited' = IF Current(s) THEN visited \ {s} ELSE visited
  /\ UNCHANGED <<machine, pending, left, retry, job, disk, told, slept>>

\* Asked again: empty.
TickStillEmpty ==
  LET s == Largest(tick.todo) IN
  /\ tick.step = "empty" /\ tick.todo # {} /\ Current(s) /\ 0 \in Counts(s)
  /\ tick' = [Idle EXCEPT !.step = "confirm", !.todo = {s}]
  /\ UNCHANGED <<machine, memory, job, disk, history>>

\* One more look at memory, then the empty server sleeps.
TickConfirm ==
  /\ tick.step = "confirm"
  /\ \E s \in tick.todo:
       IF s \in risk THEN BeginSleep(s)
                     ELSE tick' = Idle /\ UNCHANGED <<pending, left, job, told>>
  /\ UNCHANGED <<machine, emptyFor, retry, disk, slept, visited>>

\* None left: with memory still short, players are warned.
TickNoEmpty ==
  /\ tick.step = "empty" /\ tick.todo = {}
  /\ tick' = IF risk = {} THEN Idle
             ELSE [tick EXCEPT !.step = "warn", !.todo = {s \in Server: tick.counts[s] # Skipped}]
  /\ UNCHANGED <<machine, memory, job, disk, history>>

\* Fewest players first (an unknown count last), then the largest.
Players(s) == IF tick.counts[s] = Unknown THEN 2 ELSE tick.counts[s]
NextToWarn == LET fewest == {s \in tick.todo: \A t \in tick.todo: Players(s) <= Players(t)}
             IN Largest(fewest)

\* The warning is printed: the minute begins.
TickWarned ==
  LET s == NextToWarn IN
  /\ tick.step = "warn" /\ tick.todo # {} /\ Current(s)
  /\ pending' = s /\ left' = Warning
  /\ told' = [told EXCEPT ![s] = 0]
  /\ tick' = Idle
  /\ UNCHANGED <<machine, emptyFor, retry, job, disk, slept, visited>>

\* It is not (or the server has changed meanwhile): the next one.
TickUnwarned ==
  LET s == NextToWarn IN
  /\ tick.step = "warn" /\ tick.todo # {}
  /\ retry' = [retry EXCEPT ![s] = IF Current(s) THEN Retry ELSE @]
  /\ tick' = [tick EXCEPT !.todo = @ \ {s}]
  /\ UNCHANGED <<machine, pending, left, emptyFor, job, disk, history>>

\* Nobody could be warned.
TickGivesUp ==
  /\ tick.step = "warn" /\ tick.todo = {}
  /\ tick' = Idle
  /\ UNCHANGED <<machine, memory, job, disk, history>>

-----------------------------------------------------------------------------
(* Memory, players, the other operations and time.                         *)

\* What is short changes for one server at a time.
SetRisk ==
  /\ \E s \in Server: risk' = IF s \in risk THEN risk \ {s} ELSE risk \cup {s}
  /\ UNCHANGED <<mode, joined, tick, memory, job, disk, history>>

OnClock(s) == IF emptyFor[s] # Unknown THEN {s} \cap Watched ELSE {}

Join(s) ==
  /\ s \in Operated /\ mode[s] \in {"running", "held"} /\ s \notin joined
  /\ joined' = joined \cup {s}
  /\ visited' = visited \cup OnClock(s)
  /\ UNCHANGED <<mode, risk, tick, memory, job, disk, told, slept>>

Leave(s) ==
  /\ s \in Operated /\ s \in joined
  /\ joined' = joined \ {s}
  /\ UNCHANGED <<mode, risk, tick, memory, job, disk, history>>

\* Another owner takes a running server, and hands it back.
Own(s) ==
  /\ s \in Operated /\ job.server # s
  /\ \/ mode[s] = "running" /\ mode' = [mode EXCEPT ![s] = "held"]
     \/ mode[s] = "held" /\ mode' = [mode EXCEPT ![s] = "running"]
  /\ UNCHANGED <<joined, risk, tick, memory, job, disk, history>>

\* The JVM ends: of the stop it was sent, or for a reason of its own.
Exit(s) ==
  /\ mode[s] # "off"
  /\ mode' = [mode EXCEPT ![s] = "off"]
  /\ joined' = joined \ {s}
  /\ told' = [told EXCEPT ![s] = Unknown]
  /\ slept' = IF s \in doomed THEN slept \cup {s} ELSE slept
  /\ visited' = visited \cup OnClock(s)
  /\ UNCHANGED <<risk, tick, memory, job, disk>>

Start(s) ==
  /\ s \in Operated /\ mode[s] = "off" /\ job.server # s
  /\ mode' = [mode EXCEPT ![s] = "new"]
  /\ recorded' = recorded \ {s} /\ doomed' = doomed \ {s} /\ slept' = slept \ {s}
  /\ UNCHANGED <<joined, risk, tick, memory, job, told, visited>>

\* Ready, after a boot that some tick has seen.
Ready(s) ==
  /\ mode[s] = "starting" /\ tick.step = "idle"
  /\ mode' = [mode EXCEPT ![s] = "running"]
  /\ UNCHANGED <<joined, risk, tick, memory, job, disk, history>>

\* Five minutes after the stop went out.
RecordExpires(s) ==
  /\ s \in recorded /\ job.server # s
  /\ recorded' = recorded \ {s}
  /\ doomed' = doomed \ {s} /\ slept' = slept \ {s}
  /\ UNCHANGED <<machine, tick, memory, job, told, visited>>

Later(clock, most) == IF clock \in {Unknown, most} THEN clock ELSE clock + 1
Sooner(clock) == IF clock = 0 THEN 0 ELSE clock - 1

TimePasses ==
  /\ left' = Sooner(left)
  /\ retry' = [s \in Server |-> Sooner(retry[s])]
  /\ emptyFor' = [s \in Server |-> Later(emptyFor[s], EmptyTime)]
  /\ told' = [s \in Server |-> Later(told[s], Warning)]
  /\ UNCHANGED <<machine, tick, pending, job, disk, slept, visited>>

\* The backend restarts: the countdown, the clocks and the owners are gone.
Crash ==
  /\ tick' = Idle /\ job' = NoJob
  /\ pending' = NoServer /\ left' = 0
  /\ emptyFor' = [s \in Server |-> Unknown] /\ retry' = [s \in Server |-> 0]
  /\ mode' = [s \in Server |-> IF mode[s] = "held" THEN "running" ELSE mode[s]]
  /\ told' = [s \in Server |-> Unknown] /\ visited' = {}
  /\ UNCHANGED <<joined, risk, disk, slept>>

-----------------------------------------------------------------------------

Init ==
  /\ mode \in [Server -> {"off", "running"}]
  /\ joined \in SUBSET {s \in Server: mode[s] = "running"}
  /\ risk = {} /\ tick = Idle /\ job = NoJob
  /\ pending = NoServer /\ left = 0
  /\ emptyFor = [s \in Server |-> Unknown] /\ retry = [s \in Server |-> 0]
  /\ recorded = {} /\ doomed = {}
  /\ told = [s \in Server |-> Unknown] /\ slept = {} /\ visited = {}

TickSteps ==
  \/ TickCalm \/ TickBegin \/ TickRecovered \/ TickWaits \/ TickChanged
  \/ TickPending \/ TickAsk \/ TickCounted \/ TickNotEmpty \/ TickStillEmpty
  \/ TickConfirm \/ TickNoEmpty \/ TickWarned \/ TickUnwarned \/ TickGivesUp

JobSteps == JobStops \/ JobSlept \/ JobFails

Outside(s) ==
  \/ Join(s) \/ Leave(s) \/ Own(s) \/ Exit(s) \/ Start(s) \/ Ready(s)
  \/ RecordExpires(s)

Next ==
  \/ TickSteps \/ JobSteps \/ SetRisk \/ TimePasses \/ Crash
  \/ \E s \in Server: Outside(s)

Spec == Init /\ [][Next]_vars

\* The interval fires, its calls return, a job ends by its time-outs, and a
\* console that is asked again and again prints a warning sometime.
FairSpec ==
  /\ Spec
  /\ WF_vars(TickSteps) /\ WF_vars(JobSteps) /\ WF_vars(TimePasses)
  /\ SF_vars(TickWarned)

-----------------------------------------------------------------------------
(* Properties.                                                             *)

\* Every variable has its type.
TypeOK ==
  /\ mode \in [Server -> {"off", "new", "starting", "running", "held"}]
  /\ joined \subseteq Server /\ risk \subseteq Server
  /\ tick \in [step: {"idle", "again", "ask", "empty", "confirm", "warn"},
               counts: [Server -> {Skipped, Unknown, 0, 1}], todo: SUBSET Server]
  /\ pending \in Server \cup {NoServer} /\ left \in 0..Warning
  /\ job \in [server: Server, step: {"saving", "refused", "exiting"}] \cup {NoJob}
  /\ emptyFor \in [Server -> {Unknown} \cup 0..EmptyTime]
  /\ retry \in [Server -> 0..Retry]
  /\ recorded \subseteq Server /\ doomed \subseteq Server
  /\ told \in [Server -> {Unknown} \cup 0..Warning]
  /\ slept \subseteq Server /\ visited \subseteq Server

\* The minute is kept: a sleep that was not confirmed empty begins only when
\* the players of this very JVM were told, a whole warning ago, and have not
\* been told otherwise since.
CountdownKept ==
  [][\A s \in Server:
       job'.server = s /\ job.server # s /\ tick.step # "confirm" => told[s] = Warning]_vars

\* A server that pressure put to sleep comes back counted at the memory it
\* had: its demand is on disk before its JVM can be gone, so a restart of the
\* backend in the middle of the sleep does not lose it.
SleptIsRecorded == slept \subseteq recorded

\* The state is of its type, and no sleep is without its record.
SleepsAreRecorded == TypeOK /\ SleptIsRecorded

\* While memory stays short, nobody else operates the servers and the backend
\* runs, one of them is put to sleep, or tried, again and again.
Short(R) ==
  /\ risk = R
  /\ \E s \in R: mode[s] = "running"
  /\ \A s \in Server: mode[s] \in {"off", "running"}
ShedsLoad ==
  \A R \in SUBSET Server: <>[]Short(R) /\ <>[][~ Crash]_vars => []<>(job # NoJob)

\* What the documentation says: an empty server is slept after a minute of
\* confirmed zero players.
AMinuteEmpty ==
  [][\A s \in Server:
       job'.server = s /\ job.server # s /\ tick.step = "confirm" => s \notin visited]_vars
=============================================================================
