--------------------------- MODULE StartAdmission ---------------------------
(***************************************************************************)
(* Starting a server in the shared memory pool (memoryPool.ts,             *)
(* bootMemory.ts, memoryRecovery.ts, DockerService.start and               *)
(* verifyMemoryPoolContainers): starts queue up, each audits Docker, adds  *)
(* the allowances of JVMs that still boot to what the pool uses, and       *)
(* reserves its own.  The dashboard and the pressure controller audit at   *)
(* the same time.  Memory is counted in units; Room is 95 % of the limit.  *)
(***************************************************************************)
EXTENDS Integers, Sequences, FiniteSets, FiniteSetsExt, SequencesExt

CONSTANTS
  Server,
  Auditor,   \* dashboard requests and pressure ticks that audit meanwhile
  Starter,   \* the auditing a start does itself
  Room,      \* what admission may fill
  Limit,     \* what the kernel enforces
  Floor,     \* [Server -> the plan's floor]
  Cap,       \* [Server -> the container's limit]
  Legacy     \* servers whose container is older than the pool

ASSUME AdmissionAssumption ==
  /\ IsFiniteSet(Server) /\ Starter \notin Auditor
  /\ Room \in Nat /\ Limit \in Nat /\ Legacy \subseteq Server
  /\ Floor \in [Server -> Nat \ {0}] /\ Cap \in [Server -> Nat]
  /\ \A s \in Server: Floor[s] <= Cap[s]

VARIABLES
  ctr,        \* [Server -> the container: down, booting (not ready, or started
              \* less than two minutes ago) or up]
  inPool,     \* containers created with the pool's parent
  use,        \* [Server -> working set]
  learned,    \* [Server -> highest sample taken during a boot]
  allowance,  \* [Server -> startupReservations; 0 for none]
  queue,      \* starts that wait for startQueue, in order
  start,      \* the start at the head: its step, what it has read, and (history)
              \* whether an allowance was lost, or a sample too high, then
  audit,      \* [auditor -> the containers it has listed, if it is on its way]
  granted,    \* history: what the current boot was admitted with
  lost        \* history: boots whose allowance a late audit threw away

machine == <<ctr, inPool, use>>
history == <<granted, lost>>
vars == <<machine, learned, allowance, queue, start, audit, history>>

Process == Auditor \cup {Starter}
NoAudit == [on |-> FALSE, listed |-> {}]
NoStart == [step |-> "idle", request |-> 0, pending |-> 0, blind |-> FALSE]

LargestCap == Max({Cap[s]: s \in Server})

\* What a function to numbers adds up to, counted unit by unit.
Total(amount) == Cardinality(UNION {{s} \X (1 .. amount[s]): s \in DOMAIN amount})

WorkingSet == Total(use)
AtLeast(x, y) == IF x < y THEN y ELSE x
AtMost(x, y) == IF x < y THEN x ELSE y

\* JVMs whose allowance still stands for memory they will ask for.
Boots(s) == ctr[s] = "booting"

-----------------------------------------------------------------------------
(* What a start needs.                                                     *)

\* The learned peak and ten per cent, rounded up, between floor and cap.
BootDemand(s) == AtLeast(Floor[s], AtMost(Cap[s], (11 * learned[s] + 9) \div 10))

\* For five minutes after a pressure sleep also the working set it had then, up
\* to its cap; PressureControl models the record of it.
RecoveryDemands(s) == 0..Cap[s]

Reserve(s, mb) == [allowance EXCEPT ![s] = AtLeast(@, mb)]

\* What the collector last sampled, up to half a minute ago: nothing, or any
\* working set the container can have had.
Samples == {sample \in [Server -> 0..LargestCap]: \A s \in Server: sample[s] <= Cap[s]}

Pending(held, sample) == Total([s \in Server |-> AtLeast(0, held[s] - sample[s])])

\* Broken on purpose (for AdmissionFits): other boots are not counted.
FitsUsageOnly(request, pending) == request <= AtLeast(0, Room - WorkingSet)

\* requireStartRoom
FitsPool(request, pending) == request <= AtLeast(0, Room - WorkingSet - pending)

-----------------------------------------------------------------------------
(* The audit: list the running containers, look at each, and drop the      *)
(* allowance of every server that was not on the list.                     *)

AuditList(a) ==
  /\ ~ audit[a].on
  /\ audit' = [audit EXCEPT ![a] = [on |-> TRUE, listed |-> {s \in Server: ctr[s] # "down"}]]

\* A container that boots keeps or gets its allowance, a ready one gives it
\* back; the log of one that has exited since it was listed may say either.
MayKeep(s) == ctr[s] # "up"

\* Broken on purpose (for AllowancesCover): readiness is not asked for.
MayReleaseAny(s) == s \in Server

MayRelease(s) == ctr[s] \in {"up", "down"}

AuditEnd(a) == audit' = [audit EXCEPT ![a] = NoAudit]

\* The containers are looked at (one after the other; here at once), and
\* whoever was not on the list gives its allowance back.
AuditDone(a) ==
  /\ audit[a].on /\ audit[a].listed \subseteq inPool
  /\ \E kept \in SUBSET audit[a].listed, mb \in [Server -> 0..LargestCap]:
       /\ \A s \in Server: mb[s] \in IF s \in kept THEN RecoveryDemands(s) ELSE {0}
       /\ \A s \in kept: MayKeep(s)
       /\ \A s \in audit[a].listed \ kept: MayRelease(s)
       /\ allowance' = [s \in Server |->
                          IF s \in kept
                            THEN AtLeast(allowance[s], AtLeast(BootDemand(s), mb[s]))
                            ELSE 0]
  /\ lost' = {s \in lost \cup (Server \ audit[a].listed): Boots(s) /\ allowance'[s] < granted[s]}
  /\ AuditEnd(a)
  /\ UNCHANGED granted

\* An audit that fails: Docker does not answer, or a container runs outside
\* the pool.  The dashboard reports the pool as unverified.
AuditFails(a) ==
  /\ audit[a].on
  /\ AuditEnd(a)

-----------------------------------------------------------------------------
(* The start queue.                                                        *)

\* A route, a wake or a restart asks for s.
RequestStart(s) ==
  /\ s \notin Range(queue)
  /\ queue' = Append(queue, s)
  /\ UNCHANGED <<machine, learned, allowance, start, audit, history>>

Leave == queue' = Tail(queue) /\ start' = NoStart

\* The head's turn: its recovery demand is read, then the pool is audited.
StartAudit ==
  /\ queue # <<>> /\ start.step = "idle"
  /\ \E mb \in RecoveryDemands(Head(queue)):
       start' = [NoStart EXCEPT !.step = "audit", !.request = mb]
  /\ AuditList(Starter)
  /\ UNCHANGED <<machine, learned, allowance, queue, history>>

StartAudited ==
  /\ start.step = "audit"
  /\ AuditDone(Starter)
  /\ start' = [start EXCEPT !.step = "check"]
  /\ UNCHANGED <<machine, learned, queue>>

\* The container runs already: nothing to do.
StartRunning ==
  /\ start.step = "check" /\ ctr[Head(queue)] # "down"
  /\ Leave
  /\ UNCHANGED <<machine, learned, allowance, audit, history>>

\* Its own allowance is dropped; the others', less what the collector says
\* their servers use, are pending.  What else runs on the host may forbid it.
StartCheck ==
  LET s == Head(queue) IN
  /\ start.step = "check" /\ ctr[s] = "down" /\ s \in inPool
  /\ allowance' = [allowance EXCEPT ![s] = 0]
  /\ \E sample \in Samples:
       start' = [step |-> "room", request |-> AtLeast(start.request, BootDemand(s)),
                 pending |-> Pending(allowance', sample),
                 blind |-> lost # {} \/ \E t \in Server: sample[t] > use[t]]
  /\ UNCHANGED <<machine, learned, queue, audit, history>>

\* The pool is read again; the request fits and is reserved.
StartAdmit ==
  LET s == Head(queue) IN
  /\ start.step = "room" /\ FitsPool(start.request, start.pending)
  /\ allowance' = Reserve(s, start.request)
  /\ granted' = [granted EXCEPT ![s] = start.request]
  /\ start' = [NoStart EXCEPT !.step = "launch"]
  /\ UNCHANGED <<machine, learned, queue, audit, lost>>

StartRefused ==
  /\ start.step = "room" /\ ~ FitsPool(start.request, start.pending)
  /\ Leave
  /\ UNCHANGED <<machine, learned, allowance, audit, history>>

\* Anything before the launch throws: an audit, a container outside the pool,
\* host memory that is low or cannot be read.
StartThrows ==
  /\ start.step \in {"audit", "check", "room"}
  /\ Leave
  /\ AuditEnd(Starter)
  /\ UNCHANGED <<machine, learned, allowance, history>>

StartLaunch ==
  LET s == Head(queue) IN
  /\ start.step = "launch" /\ ctr[s] = "down"
  /\ ctr' = [ctr EXCEPT ![s] = "booting"]
  /\ use' = [use EXCEPT ![s] = 1]
  /\ lost' = IF allowance[s] < granted[s] THEN lost \cup {s} ELSE lost
  /\ Leave
  /\ UNCHANGED <<inPool, learned, allowance, audit, granted>>

\* Broken on purpose (for StartsEnd): a failed start stays at the head.
StartFailsAgain ==
  /\ start.step = "launch"
  /\ allowance' = [allowance EXCEPT ![Head(queue)] = 0]
  /\ start' = NoStart
  /\ UNCHANGED <<machine, learned, queue, audit, history>>

\* The files cannot be prepared, or Docker refuses.
StartFails ==
  /\ start.step = "launch"
  /\ allowance' = [allowance EXCEPT ![Head(queue)] = 0]
  /\ Leave
  /\ UNCHANGED <<machine, learned, audit, history>>

-----------------------------------------------------------------------------
(* The containers, the collector and the process.                          *)

\* A JVM grows up to its container's limit and the pool's, ...
Grow(s) ==
  /\ ctr[s] # "down" /\ use[s] < Cap[s] /\ WorkingSet < Limit
  /\ use' = [use EXCEPT ![s] = @ + 1]
  /\ UNCHANGED <<ctr, inPool, learned, allowance, queue, start, audit, history>>

\* ... hands heap back when idle, ...
Shrink(s) ==
  /\ ctr[s] # "down" /\ use[s] > 1
  /\ use' = [use EXCEPT ![s] = @ - 1]
  /\ start' = [start EXCEPT !.blind = @ \/ start.step = "room"]
  /\ UNCHANGED <<ctr, inPool, learned, allowance, queue, audit, history>>

\* ... gets ready, and older.
Ripen(s) ==
  /\ Boots(s)
  /\ ctr' = [ctr EXCEPT ![s] = "up"]
  /\ UNCHANGED <<inPool, use, learned, allowance, queue, start, audit, history>>

\* It stops, crashes or is killed.
Exit(s) ==
  /\ ctr[s] # "down"
  /\ ctr' = [ctr EXCEPT ![s] = "down"]
  /\ use' = [use EXCEPT ![s] = 0]
  /\ granted' = [granted EXCEPT ![s] = 0] /\ lost' = lost \ {s}
  /\ UNCHANGED <<inPool, learned, allowance, queue, start, audit>>

\* A stopped server is rebuilt: its new container has the pool's parent.
Rebuild(s) ==
  /\ ctr[s] = "down" /\ s \notin inPool /\ s \notin Range(queue)
  /\ inPool' = inPool \cup {s}
  /\ UNCHANGED <<ctr, use, learned, allowance, queue, start, audit, history>>

\* The collector samples a boot and learns from it.
Learn(s) ==
  /\ Boots(s) /\ learned[s] < use[s]
  /\ learned' = [learned EXCEPT ![s] = use[s]]
  /\ UNCHANGED <<machine, allowance, queue, start, audit, history>>

\* The backend restarts: the database and the containers stay.
Crash ==
  /\ allowance' = [s \in Server |-> 0]
  /\ queue' = <<>> /\ start' = NoStart
  /\ audit' = [a \in Process |-> NoAudit]
  /\ lost' = {s \in Server: Boots(s)}
  /\ UNCHANGED <<machine, learned, granted>>

-----------------------------------------------------------------------------

Init ==
  /\ ctr \in [Server -> {"down", "up"}]
  /\ inPool = Server \ Legacy
  /\ use = [s \in Server |-> IF ctr[s] = "up" THEN 1 ELSE 0]
  /\ learned = [s \in Server |-> 0]
  /\ allowance = [s \in Server |-> 0]
  /\ queue = <<>> /\ start = NoStart
  /\ audit = [a \in Process |-> NoAudit]
  /\ granted = [s \in Server |-> 0] /\ lost = {}

\* Everything a queued start does by itself.
StartSteps ==
  \/ StartAudit \/ StartAudited \/ StartRunning \/ StartCheck
  \/ StartAdmit \/ StartRefused \/ StartThrows \/ StartLaunch \/ StartFails

\* Another audit, from beginning to end.
AuditSteps(a) ==
  /\ \/ AuditList(a) /\ UNCHANGED <<allowance, history>>
     \/ AuditDone(a)
     \/ AuditFails(a) /\ UNCHANGED <<allowance, history>>
  /\ UNCHANGED <<machine, learned, queue, start>>

Outside(s) ==
  \/ RequestStart(s) \/ Grow(s) \/ Shrink(s) \/ Ripen(s) \/ Exit(s)
  \/ Rebuild(s) \/ Learn(s)

Next ==
  \/ StartSteps \/ Crash
  \/ \E a \in Auditor: AuditSteps(a)
  \/ \E s \in Server: Outside(s)

Spec == Init /\ [][Next]_vars

\* Docker's calls return or fail, so the start at the head goes on.
FairSpec == Spec /\ WF_vars(StartSteps)

-----------------------------------------------------------------------------
(* Properties.                                                             *)

\* Every variable has its type.
TypeOK ==
  /\ ctr \in [Server -> {"down", "booting", "up"}]
  /\ inPool \subseteq Server /\ lost \subseteq Server
  /\ use \in [Server -> Nat] /\ learned \in [Server -> Nat]
  /\ allowance \in [Server -> Nat]
  /\ granted \in [Server -> Nat]
  /\ queue \in Seq(Server)
  /\ start \in [step: {"idle", "audit", "check", "room", "launch"},
                request: Nat, pending: Nat, blind: BOOLEAN]
  /\ audit \in [Process -> [on: BOOLEAN, listed: SUBSET Server]]

\* A JVM that still boots keeps the allowance it was admitted with, unless an
\* audit that listed the containers before it was launched, or a restart of
\* the backend, threw it away (and no audit has rebuilt it since).
BootsAreBooked ==
  \A s \in Server: Boots(s) /\ s \notin lost => allowance[s] >= granted[s]

\* The allowances are of their type and cover what boots.
AllowancesCover == TypeOK /\ BootsAreBooked

\* What the documentation says: admission counts an allowance for every boot.
BootsCounted == [][StartCheck => \A s \in Server: Boots(s) => allowance[s] > 0]_vars

\* What the pool holds once everything that boots has what it was granted.
Committed(but) ==
  Total([s \in Server \ {but} |-> IF Boots(s) THEN AtLeast(use[s], granted[s]) ELSE use[s]])

\* Admission fills no more than Room, counting other boots in full, unless an
\* allowance was lost when it looked, or a sample it used was above the use.
AdmissionFits ==
  [][\A s \in Server:
       StartAdmit /\ s = Head(queue) /\ ~ start.blind => Committed(s) + start.request <= Room]_vars

\* Every start that was asked for ends: a failing one does not block the rest.
StartsEnd == \A s \in Server: []<>(s \notin Range(queue))
=============================================================================
