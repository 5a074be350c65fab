----------------------------- MODULE PanelState -----------------------------
(***************************************************************************)
(* The state every server operation of the panel shares: the servers and   *)
(* sleep_intents rows of SQLite, the in-memory ownership sets of           *)
(* src/backend/src/state.ts, the sleep listeners, and the Docker container *)
(* of each server.  The operations themselves are in StatusRefresh,        *)
(* Hibernation and LifecycleRoutes; Panel composes them.                   *)
(*                                                                         *)
(* One action is one stretch of JavaScript between two awaits, so the      *)
(* actors below interleave exactly where the event loop may switch.        *)
(***************************************************************************)
EXTENDS Naturals, FiniteSets

CONSTANTS
  Server,        \* the servers, numbered in the order SQLite lists them
  Client,        \* HTTP requests that run a lifecycle operation
  Joiner,        \* player connections that may wake a sleeping server
  Reconciler,    \* callers of reconcile(): the sleep tick and the pressure tick
  Refresher,     \* callers of refreshServerStatus: ticks, list and stream requests
  Reader,        \* GET /:id/status requests
  Idler,         \* the sleep tick, where it evaluates idle servers
  Presser,       \* the pressure controller, where it sleeps a server
  IdlePolls,     \* consecutive empty polls that make up hibernationIdleMs
  MaxContainer,  \* bound: container ids handed out per server
  SleepEnabled,  \* config.hibernationEnabled
  WakeOnConnect, \* config.hibernationWakeOnConnect
  DockerFails    \* whether a Docker call may fail although the daemon has the container

Sleeper == Idler \cup Presser
Actor   == Client \cup Joiner \cup Reconciler \cup Refresher \cup Reader \cup Sleeper

ASSUME ServerAssumption  == Server \subseteq Nat \ {0}
ASSUME BoundAssumption   == IdlePolls \in Nat \ {0} /\ MaxContainer \in Nat \ {0}
ASSUME SwitchAssumption  == {SleepEnabled, WakeOnConnect, DockerFails} \subseteq BOOLEAN
ASSUME RolesAreDisjoint  ==
  /\ Client \cap (Joiner \cup Reconciler \cup Refresher \cup Reader \cup Sleeper) = {}
  /\ Joiner \cap (Reconciler \cup Refresher \cup Reader \cup Sleeper) = {}
  /\ Reconciler \cap (Refresher \cup Reader \cup Sleeper) = {}
  /\ Refresher \cap (Reader \cup Sleeper) = {}
  /\ Reader \cap Sleeper = {}
  /\ Idler \cap Presser = {}

VARIABLES
  rec,        \* [Server -> Record]: the servers table
  intent,     \* [Server -> ContainerId]: the sleep_intents table, 0 where there is no row
  busy,       \* lifecycleBusy
  preparing,  \* preparing
  listener,   \* [Server -> ListenerState]: the socket MC Dash holds on the game port
  empty,      \* [Server -> 0..IdlePolls]: consecutive empty polls, the idle tracker
  ctr,        \* [Server -> ContainerState]: Docker's container of the server
  players,    \* servers with somebody online
  pc,         \* [Actor -> label]: the await an actor is suspended at
  op,         \* [Actor -> operation it runs]
  at,         \* [Actor -> Server it works on]
  snap,       \* [Actor -> Record]: the record it read when it began
  obs,        \* [Actor -> Status]: the Docker reading it carries
  stale,      \* actors whose record was written again since they read it
  todo,       \* [Actor -> rows of reconcile's list still to visit]
  unseen      \* history: servers somebody joined after the last player check of a sleep

rowVars   == <<rec, stale>>
memVars   == <<busy, preparing>>
dockVars  == <<ctr, players, unseen>>
actorVars == <<op, at, snap, obs, todo>>
vars == <<rec, intent, busy, preparing, listener, empty, ctr, players,
          pc, op, at, snap, obs, stale, todo, unseen>>

Status == {"creating", "stopped", "starting", "running", "restarting",
           "stopping", "exited", "error"}
Live   == {"running", "starting", "restarting", "stopping"}

\* A container id; 0 is no container.
ContainerId == 0..MaxContainer

\* lastError: nothing, LISTENER_ERROR, or why the last operation failed.
LastError == {"none", "listener", "other"}

Record == [status : Status, hibernated : BOOLEAN, container : ContainerId, error : LastError]

\* The listener is "closing" between its removal from the map and the end of close().
ListenerState == {"none", "armed", "closing"}

Operation == {"none", "start", "stop", "restart", "prepare", "remove", "wake",
              "idle", "empty", "occupied", "reconcile", "refresh", "read"}

-----------------------------------------------------------------------------
(* Docker, as src/ uses it.                                                *)

Running == {"booting", "ready", "halting"}
Down    == {"created", "clean", "failed"}
ContainerState == Running \cup Down \cup {"absent"}

\* The container of s changes state.  Whoever was online is gone.
SetContainer(s, c) ==
  /\ ctr' = [ctr EXCEPT ![s] = c]
  /\ players' = players \ {s}
  /\ unseen' = unseen \ {s}

\* dockerService.statusDetails: what an inspection reports of a container in
\* state c for a record whose stored status is st.  Every failure but a
\* missing container is reported as "error".
Inspect(st, c) ==
  {CASE c \in Running /\ st = "stopping"                               -> "stopping"
     [] c = "booting" /\ st \in {"starting", "restarting"}             -> st
     [] c \in Running /\ st # "stopping"
          /\ ~(c = "booting" /\ st \in {"starting", "restarting"})     -> "running"
     [] c \in {"created", "clean"}                                     -> "stopped"
     [] c = "failed"                                                   -> "exited"
     [] c = "absent"                   -> IF st = "creating" THEN st ELSE "stopped"}
  \cup (IF DockerFails THEN {"error"} ELSE {})

-----------------------------------------------------------------------------
(* The stores and the locks.                                               *)

\* The refreshes of s under way: they read its row and await Docker.
Refreshing(s) == {a \in Refresher : at[a] = s}

\* serverStore.update: write the row; a running server has no error.  It always
\* moves updatedAt, so every refresh that read the row before is now stale.
Settled(r) == IF r.status = "running" THEN [r EXCEPT !.error = "none"] ELSE r

Write(s, r) ==
  /\ rec' = [rec EXCEPT ![s] = Settled(r)]
  /\ stale' = stale \cup Refreshing(s)

SetStatus(s, st) == Write(s, [rec[s] EXCEPT !.status = st])
SetError(s, e)   == Write(s, [rec[s] EXCEPT !.error = e])

\* The status an operation begins or ends with, and the error it leaves.
Mark(s, st, e) == Write(s, [rec[s] EXCEPT !.status = st, !.error = e])

\* What an actor between two operations carries.
NoServer == 0
NoRecord == [status |-> "stopped", hibernated |-> FALSE, container |-> 0,
             error |-> "none"]

Go(a, label) == pc' = [pc EXCEPT ![a] = label]

\* An actor ends its operation: nothing of its locals survives.
Forget(a) ==
  /\ Go(a, "idle")
  /\ op' = [op EXCEPT ![a] = "none"]
  /\ at' = [at EXCEPT ![a] = NoServer]
  /\ snap' = [snap EXCEPT ![a] = NoRecord]
  /\ obs' = [obs EXCEPT ![a] = "stopped"]
  /\ todo' = [todo EXCEPT ![a] = {}]

\* Broken on purpose (for OneOwner): an operation that does not look at busy.
AcquireBlindly(a, o, s, label) ==
  /\ busy' = busy \cup {s}
  /\ at' = [at EXCEPT ![a] = s]
  /\ op' = [op EXCEPT ![a] = o]
  /\ snap' = [snap EXCEPT ![a] = rec[s]]
  /\ Go(a, label)
  /\ UNCHANGED <<obs, todo>>

\* An actor takes ownership of s and reads its record.
Acquire(a, o, s, label) ==
  /\ s \notin busy
  /\ busy' = busy \cup {s}
  /\ at' = [at EXCEPT ![a] = s]
  /\ op' = [op EXCEPT ![a] = o]
  /\ snap' = [snap EXCEPT ![a] = rec[s]]
  /\ Go(a, label)
  /\ UNCHANGED <<obs, todo>>

\* The finally block: ownership is given up and the operation is over.
Release(a) ==
  /\ busy' = busy \ {at[a]}
  /\ preparing' = IF a \in Client THEN preparing \ {at[a]} ELSE preparing
  /\ Forget(a)

-----------------------------------------------------------------------------
\* Labels at which an actor is on no server at all.
Homeless == {"idle", "rc_intents", "rc_listeners", "rc_records"}

\* The awaits at which an actor owns the server it works on.
Unowned == {"idle", "rf_apply", "rd_inspect", "rd_apply", "ev_count",
            "rc_intents", "rc_listeners", "rc_records"}
Owned == {"sl_count", "sl_save", "sl_recheck", "sl_veto", "sl_stop", "sl_wait", "sl_arm",
          "wake_close", "wake_mark", "wake_docker", "wake_done", "restore_listen",
          "rc_inspect", "rc_exit", "rc_restore", "rc_close", "rc_listen",
          "start_check", "start_deps", "start_lost", "start_release", "start_close",
          "start_docker", "start_done", "stop_begin", "stop_close", "stop_mark", "stop_rcon",
          "stop_wait", "stop_docker", "stop_done", "restart_check", "restart_stop",
          "prepare_check", "prepare_build", "prepare_lost", "prepare_done",
          "remove_begin", "remove_close", "remove_docker", "remove_done"}

(* The parts of the type invariant.                                        *)
RowTypeOK      == rec \in [Server -> Record] /\ stale \subseteq Refresher
IntentTypeOK   == intent \in [Server -> ContainerId]
LockTypeOK     == busy \subseteq Server /\ preparing \subseteq Server
ListenerTypeOK == listener \in [Server -> ListenerState]
EmptyTypeOK    == empty \in [Server -> 0..IdlePolls]
DockTypeOK     ==
  ctr \in [Server -> ContainerState] /\ players \subseteq Server /\ unseen \subseteq Server
ActorTypeOK    ==
  /\ pc \in [Actor -> Owned \cup Unowned]
  /\ op \in [Actor -> Operation]
  /\ at \in [Actor -> Server \cup {NoServer}]
  /\ snap \in [Actor -> Record]
  /\ obs \in [Actor -> Status]
  /\ todo \in [Actor -> SUBSET [server : Server, container : ContainerId]]
  /\ \A a \in Actor : pc[a] \notin Homeless => at[a] \in Server
=============================================================================
