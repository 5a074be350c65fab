------------------------------- MODULE Panel -------------------------------
(***************************************************************************)
(* The panel at work: the status pollers, automatic sleep and wake, the    *)
(* lifecycle requests, and around them Docker, the players, the operator's *)
(* own Docker client, and crashes of the backend process.                  *)
(***************************************************************************)
EXTENDS StatusRefresh, LifecycleRoutes

CONSTANTS
  External,  \* whether containers are started and stopped outside the panel
  MaxCrash   \* bound: crashes of the backend process

ASSUME EnvironmentAssumption == External \in BOOLEAN /\ MaxCrash \in Nat

VARIABLE crashes   \* crashes so far

panelVars == <<vars, crashes>>

-----------------------------------------------------------------------------
(* The world outside the process.                                          *)

\* A container that booted accepts players and answers RCON.
Boot(s) == ctr[s] = "booting" /\ SetContainer(s, "ready")

\* A server told to stop saves and exits; it may be killed on the way.
Exit(s) == ctr[s] = "halting" /\ \E c \in {"clean", "failed"} : SetContainer(s, c)

\* The JVM dies: a crash, or the kernel kills it for memory.
Die(s) == ctr[s] \in {"booting", "ready"} /\ SetContainer(s, "failed")

\* A player with the rights types /stop in the game.
StopInGame(s) == ctr[s] = "ready" /\ SetContainer(s, "halting")

\* docker start: Docker binds the game port, so nobody else may hold it.
StartOutside(s) ==
  External /\ ctr[s] \in Down /\ listener[s] = "none" /\ SetContainer(s, "booting")

\* docker stop.
StopOutside(s) ==
  External /\ ctr[s] \in Running /\ \E c \in {"clean", "failed"} : SetContainer(s, c)

Join(s) ==
  /\ ctr[s] = "ready" /\ s \notin players
  /\ players' = players \cup {s}
  /\ unseen' = unseen \cup {s}
  /\ UNCHANGED ctr

Leave(s) ==
  /\ s \in players
  /\ players' = players \ {s}
  /\ unseen' = unseen \ {s}
  /\ UNCHANGED ctr

Environment ==
  /\ \E s \in Server :
       \/ Boot(s) \/ Exit(s) \/ Die(s) \/ StopInGame(s)
       \/ StartOutside(s) \/ StopOutside(s) \/ Join(s) \/ Leave(s)
  /\ UNCHANGED <<rowVars, intent, memVars, listener, empty, pc, actorVars, crashes>>

-----------------------------------------------------------------------------
\* The backend process dies and a new one starts (index.ts): the database and
\* Docker keep what they have, everything in memory and every socket is gone.
Crash ==
  /\ crashes < MaxCrash
  /\ crashes' = crashes + 1
  /\ busy' = {}
  /\ preparing' = {}
  /\ listener' = [s \in Server |-> "none"]
  /\ empty' = [s \in Server |-> 0]
  /\ pc' = [a \in Actor |-> "idle"]
  /\ op' = [a \in Actor |-> "none"]
  /\ at' = [a \in Actor |-> NoServer]
  /\ snap' = [a \in Actor |-> NoRecord]
  /\ obs' = [a \in Actor |-> "stopped"]
  /\ todo' = [a \in Actor |-> {}]
  /\ stale' = {}
  /\ UNCHANGED <<rec, intent, dockVars>>

\* What an earlier run of the backend may have left of a server: prepared and
\* never started; running; given up as a slow sleep, still shutting down; asleep.
Kind == {"new", "up", "leaving", "asleep"}
StatusOf == [new |-> "stopped", up |-> "running", leaving |-> "stopping", asleep |-> "stopped"]
CtrOf    == [new |-> "created", up |-> "ready", leaving |-> "halting", asleep |-> "clean"]

\* The backend starts.
Init ==
  /\ \E kind \in [Server -> Kind] :
       /\ rec = [s \in Server |-> [status |-> StatusOf[kind[s]],
                                  hibernated |-> kind[s] = "asleep", container |-> 1,
                                  error |-> IF kind[s] = "leaving" THEN "other" ELSE "none"]]
       /\ intent = [s \in Server |-> IF kind[s] = "leaving" THEN 1 ELSE 0]
       /\ ctr = [s \in Server |-> CtrOf[kind[s]]]
  /\ players = {}
  /\ unseen = {}
  /\ crashes = 0
  /\ busy = {}
  /\ preparing = {}
  /\ listener = [s \in Server |-> "none"]
  /\ empty = [s \in Server |-> 0]
  /\ pc = [a \in Actor |-> "idle"]
  /\ op = [a \in Actor |-> "none"]
  /\ at = [a \in Actor |-> NoServer]
  /\ snap = [a \in Actor |-> NoRecord]
  /\ obs = [a \in Actor |-> "stopped"]
  /\ todo = [a \in Actor |-> {}]
  /\ stale = {}

Work ==
  /\ \/ RefreshNext \/ ReadNext \/ SleepNext \/ WakeNext \/ ClientNext
     \/ \E a \in Reconciler : ReconcileNext(a)
  /\ UNCHANGED crashes

Next == Work \/ Environment \/ Crash

Spec == Init /\ [][Next]_panelVars

\* Every await resolves: Docker and RCON calls answer or time out, listeners
\* close.  Timers call reconcile and refresh every server, whether or not
\* anybody looks at the dashboard, and reconcile first: a refresh finds its
\* server owned now and then, and not every time.
Fairness ==
  /\ \A a \in Client : WF_panelVars(ClientStep(a) /\ UNCHANGED crashes)
  /\ \A a \in Joiner : WF_panelVars(WakeStep(a) /\ UNCHANGED crashes)
  /\ \A a \in Sleeper : WF_panelVars(SleepStep(a) /\ UNCHANGED crashes)
  /\ \A a \in Reconciler : WF_panelVars(ReconcileNext(a) /\ UNCHANGED crashes)
  /\ \A a \in Refresher :
       /\ WF_panelVars(RefreshApply(a) /\ UNCHANGED crashes)
       /\ SF_panelVars(RefreshApply(a) /\ ~Outdated(a) /\ UNCHANGED crashes)
       /\ \A s \in Server : SF_panelVars(RefreshBegin(a, s) /\ UNCHANGED crashes)

FairSpec == Spec /\ Fairness
-----------------------------------------------------------------------------
(* Correctness.                                                            *)

\* a is at an await of an operation that owns s.
Owns(a, s) == pc[a] \in Owned /\ at[a] = s

\* What each variable ranges over; an actor that works on a server has one.
TypeOK ==
  /\ RowTypeOK /\ IntentTypeOK /\ LockTypeOK /\ ListenerTypeOK
  /\ EmptyTypeOK /\ DockTypeOK /\ ActorTypeOK
  /\ crashes \in 0..MaxCrash

\* lifecycleBusy is a mutual exclusion: whatever is between two awaits of an
\* operation owns its server alone, and the mark is there exactly as long.
OneOwner ==
  /\ \A a, b \in Actor, s \in Server : Owns(a, s) /\ Owns(b, s) => a = b
  /\ \A s \in Server : s \in busy <=> \E a \in Actor : Owns(a, s)

\* "Must complete before the container starts": when Docker is asked to start
\* a container, MC Dash neither holds the game port nor is still closing it.
PortHandedBack ==
  \A a \in Actor : pc[a] \in {"start_docker", "wake_docker"} => listener[at[a]] = "none"

\* "One such incident costs more trust than hibernation saves in memory": when
\* an automatic sleep sends its stop, nobody is online who was there when the
\* players were counted last, unless a warning was completed first.
EmptyAtStop ==
  \A a \in Actor : pc[a] = "sl_stop" /\ op[a] # "occupied" =>
    at[a] \notin players \ unseen

\* A crash is never taken for a sleep: as long as nobody else starts and stops
\* containers, a server flagged asleep has one that ended cleanly or never ran.
AsleepIsClean ==
  \A s \in Server : rec[s].hibernated /\ s \notin busy => ctr[s] \notin Running \cup {"failed"}

\* A row changes under an operation only by the hand of its owner; no
\* reading taken before the operation began is applied during it.
OwnerWrites ==
  [][\A s \in Server : rec'[s] # rec[s] =>
       \A a \in Actor : Owns(a, s) => pc'[a] # pc[a]]_panelVars

\* The status route does write under an operation, but the sleep flag and the
\* container of a row stay its owner's.
OwnerKeeps ==
  [][\A s \in Server :
       \/ rec'[s].hibernated # rec[s].hibernated
       \/ rec'[s].container # rec[s].container
       => \A a \in Actor : Owns(a, s) => pc'[a] # pc[a]]_panelVars

\* "The operator wants it down, not waiting for a player": a server becomes
\* asleep only by a sleep nobody called off since, or because an operation on
\* a sleeping server failed.
AsleepForAReason ==
  [][\A s \in Server : ~rec[s].hibernated /\ rec'[s].hibernated =>
       \/ intent[s] = rec[s].container
       \/ \E a \in Client \cup Joiner : Owns(a, s) /\ snap[a].hibernated]_panelVars

\* armListener looks for a listener before it awaits the bind; still no server
\* gets two, however many timers and requests come to arm one.
BoundOnce ==
  \A a \in Actor : pc[a] \in {"sl_arm", "restore_listen", "rc_restore", "rc_listen"} =>
    listener[at[a]] # "armed"

\* The game port has one holder, the server or the panel's listener on it.
PortHeldOnce == PortHandedBack /\ BoundOnce

\* "Slow/failed exits remain visible as errors": an automatic sleep that was
\* committed, is not over and is nobody's any more is accounted for in lastError,
\* as long as the backend lives.
SlowSleepTold ==
  crashes = 0 => \A s \in Server :
    intent[s] # 0 /\ rec[s].status = "stopping" /\ s \notin busy => rec[s].error = "other"

\* What the panel tells of a sleep: the slow one is visible, and what it shows as
\* a sleep was one.
SleepsAreTold == SlowSleepTold /\ AsleepIsClean

\* "Never add/remove JARs under a running JVM": mods are repaired only while the
\* container is down.
NoRepairUnderJvm ==
  \A a \in Actor : pc[a] = "start_deps" => ctr[at[a]] \notin Running

\* "A manual stop clears the sleep state": a server the panel has stopped, with
\* no sleep intent left, is not put back to sleep.
StopIsFinal ==
  [][\A s \in Server :
       rec[s].status = "stopped" /\ intent[s] = 0 /\ ~rec[s].hibernated /\ rec'[s].hibernated =>
         \E a \in Client \cup Joiner : Owns(a, s) /\ snap[a].hibernated]_panelVars

\* "While an id is in this set, status pollers must not overwrite its status":
\* the row of a server being prepared is written by that request alone.
PreparedRowKept ==
  [][\A s \in preparing : rec'[s] # rec[s] =>
       \E a \in Client : Owns(a, s) /\ pc'[a] # pc[a]]_panelVars

-----------------------------------------------------------------------------
(* Progress, under Fairness.                                               *)

\* No operation, refused, failed or completed, keeps a server locked.
LocksReleased == \A s \in Server : s \in busy ~> s \notin busy

\* The operator leaves the panel alone in the end.  (Requests that follow one
\* another closely enough own the server whenever a timer looks at it.)
Quiet == <>[](\A a \in Client : pc[a] = "idle")

\* "Shutdown intent survives backend restarts": a sleep that was committed ends,
\* once the container is down, even if its owner gave up or crashed.
IntentsResolved == Quiet =>
  \A s \in Server : intent[s] # 0 /\ ctr[s] \in Down ~> intent[s] = 0 \/ ctr[s] \notin Down

\* "Retry failed binds on every poll": a sleeping server gets its listener, unless
\* it is not asleep any more.
SleepersAnswer == Quiet =>
  \A s \in Server : rec[s].hibernated /\ rec[s].status = "stopped" ~>
    listener[s] = "armed" \/ ~(rec[s].hibernated /\ rec[s].status = "stopped")

\* "Waking is somebody's job": a server that is asleep goes on answering or is up.
SleepersComeBack == Quiet =>
  \A s \in Server : rec[s].hibernated ~> listener[s] = "armed" \/ ctr[s] \in Running
=============================================================================
