-------------------------- MODULE LifecycleRoutes --------------------------
(***************************************************************************)
(* The lifecycle requests of routes/servers.ts: start, stop, restart,      *)
(* prepare (rebuild) and delete container.  `lifecycle` wraps each of them *)
(* in the ownership sets: busy for the whole operation, and preparing, so  *)
(* that no status poller writes the row meanwhile.                         *)
(***************************************************************************)
EXTENDS Hibernation

\* lifecycle(serverMutation(...)): 409 while the server is owned.
LifecycleBegin(a, o, s, label) ==
  /\ pc[a] = "idle"
  /\ Acquire(a, o, s, label)
  /\ preparing' = preparing \cup {s}
  /\ UNCHANGED <<rowVars, intent, listener, empty, dockVars>>

Begin(a, s) ==
  \/ LifecycleBegin(a, "start", s, "start_check")
  \/ LifecycleBegin(a, "stop", s, "stop_begin")
  \/ LifecycleBegin(a, "restart", s, "restart_check")
  \/ LifecycleBegin(a, "prepare", s, "prepare_check")
  \/ LifecycleBegin(a, "remove", s, "remove_begin")

\* Broken on purpose (for LocksReleased): an early return that skips the outer finally.
RefuseKeepsLock(a) ==
  /\ pc[a] \in {"start_check", "restart_check", "prepare_check", "remove_docker"}
  /\ preparing' = preparing \ {at[a]}
  /\ Forget(a)
  /\ UNCHANGED <<rowVars, intent, busy, listener, empty, dockVars>>

\* The handler returns with the row as it is.
Refuse(a) ==
  /\ pc[a] \in {"start_check", "restart_check", "prepare_check", "remove_docker"}
  /\ Release(a)
  /\ UNCHANGED <<rowVars, intent, listener, empty, dockVars>>

\* Broken on purpose (for AsleepForAReason): every failed start ends asleep.
StartFailAsleep(a) ==
  /\ pc[a] \in {"start_deps", "start_lost", "start_docker", "restart_stop"}
  /\ RestoreSleep(a, "restore_listen", "other")
  /\ UNCHANGED <<intent, listener, empty, dockVars>>

\* The catch block of start and restart: the error is stored, and a server
\* that was asleep when the request came goes back to sleep.
StartFail(a) ==
  /\ pc[a] \in {"start_deps", "start_lost", "start_docker", "restart_stop"}
  /\ IF snap[a].hibernated
       THEN RestoreSleep(a, "restore_listen", "other")
       ELSE Mark(at[a], "error", "other") /\ Release(a)
  /\ UNCHANGED <<intent, listener, empty, dockVars>>

\* The catch blocks of stop and prepare; only the latter stores the reason.
Fail(a) ==
  /\ \/ pc[a] \in {"stop_rcon", "stop_wait", "stop_docker"} /\ SetStatus(at[a], "error")
     \/ pc[a] \in {"prepare_build", "prepare_lost"} /\ Mark(at[a], "error", "other")
  /\ Release(a)
  /\ UNCHANGED <<intent, listener, empty, dockVars>>

-----------------------------------------------------------------------------
(* start; restart joins it at start_deps.                                  *)

\* Broken on purpose (for NoRepairUnderJvm): Docker is not asked.
StartUnchecked(a) ==
  /\ pc[a] = "start_check"
  /\ Mark(at[a], "starting", "none")
  /\ Go(a, "start_deps")
  /\ UNCHANGED <<intent, memVars, listener, empty, dockVars, actorVars>>

\* Admission agreed, and Docker does not report the server live.
StartChecked(a) ==
  /\ pc[a] = "start_check"
  /\ \E seen \in Inspect(snap[a].status, ctr[at[a]]) : seen \notin Live
  /\ Mark(at[a], "starting", "none")
  /\ Go(a, "start_deps")
  /\ UNCHANGED <<intent, memVars, listener, empty, dockVars, actorVars>>

\* A container replaced under a new id: the old one is removed by force.
Recreate(s) == SetContainer(s, "created")

\* The mods are repaired; start replaces a stopped container that still runs
\* as root, and may fail between the removal of the old and the new one.
DepsChecked(a) ==
  LET s == at[a] IN
  /\ pc[a] = "start_deps"
  /\ \/ Go(a, "start_release") /\ UNCHANGED <<rowVars, dockVars>>
     \/ /\ op[a] = "start"
        /\ ctr[s] \in Down
        /\ rec[s].container < MaxContainer
        /\ \/ /\ Recreate(s)
              /\ Write(s, [rec[s] EXCEPT !.container = rec[s].container + 1])
              /\ Go(a, "start_release")
           \/ SetContainer(s, "absent") /\ Go(a, "start_lost") /\ UNCHANGED rowVars
  /\ UNCHANGED <<intent, memVars, listener, empty, actorVars>>

\* Broken on purpose (for PortHeldOnce): close() is not awaited.
StartReleaseNoWait(a) ==
  /\ pc[a] = "start_release"
  /\ ReleasePort(at[a])
  /\ Go(a, "start_docker")
  /\ UNCHANGED <<rowVars, memVars, empty, dockVars, actorVars>>

StartRelease(a) ==
  /\ pc[a] = "start_release"
  /\ ReleasePort(at[a])
  /\ Go(a, IF listener[at[a]] = "armed" THEN "start_close" ELSE "start_docker")
  /\ UNCHANGED <<rowVars, memVars, empty, dockVars, actorVars>>

StartClose(a) ==
  /\ pc[a] = "start_close"
  /\ ClosePort(at[a])
  /\ Go(a, "start_docker")
  /\ UNCHANGED <<rowVars, intent, memVars, empty, dockVars, actorVars>>

StartDocker(a) ==
  /\ pc[a] = "start_docker"
  /\ StartContainer(at[a])
  /\ Go(a, "start_done")
  /\ UNCHANGED <<rowVars, intent, memVars, listener, empty, actorVars>>

StartDone(a) ==
  /\ pc[a] = "start_done"
  /\ Write(at[a], [rec[at[a]] EXCEPT
       !.status = IF op[a] = "restart" THEN "restarting" ELSE "starting",
       !.hibernated = FALSE, !.error = "none"])
  /\ Release(a)
  /\ UNCHANGED <<intent, listener, empty, dockVars>>

-----------------------------------------------------------------------------
(* stop and restart.                                                       *)

\* dockerService.stop: SIGTERM, then SIGKILL; nothing to do for a container
\* that does not run.
StopContainer(s) ==
  IF ctr[s] \in Running
    THEN \E c \in {"clean", "failed"} : SetContainer(s, c)
    ELSE UNCHANGED dockVars

StopRelease(a) ==
  /\ pc[a] = "stop_begin"
  /\ ReleasePort(at[a])
  /\ Go(a, IF listener[at[a]] = "armed" THEN "stop_close" ELSE "stop_mark")
  /\ UNCHANGED <<rowVars, memVars, empty, dockVars, actorVars>>

StopClose(a) ==
  /\ pc[a] = "stop_close"
  /\ ClosePort(at[a])
  /\ Go(a, "stop_mark")
  /\ UNCHANGED <<rowVars, intent, memVars, empty, dockVars, actorVars>>

StopMark(a) ==
  /\ pc[a] = "stop_mark"
  /\ SetStatus(at[a], "stopping")
  /\ Go(a, "stop_rcon")
  /\ UNCHANGED <<intent, memVars, listener, empty, dockVars, actorVars>>

\* With an RCON address, `stop` is sent (it may be lost) and the exit is
\* awaited; without one Docker stops the container at once.
StopRcon(a) ==
  /\ pc[a] = "stop_rcon"
  /\ \/ /\ ctr[at[a]] \in Running
        /\ \/ ctr[at[a]] = "ready" /\ SetContainer(at[a], "halting")
           \/ UNCHANGED dockVars
        /\ Go(a, "stop_wait")
     \/ /\ ctr[at[a]] \notin Running \/ DockerFails
        /\ Go(a, "stop_docker")
        /\ UNCHANGED dockVars
  /\ UNCHANGED <<rowVars, intent, memVars, listener, empty, actorVars>>

\* It left on its own, or the 20 seconds are over.
StopWait(a) ==
  /\ pc[a] = "stop_wait"
  /\ \/ ctr[at[a]] \notin Running /\ Go(a, "stop_done")
     \/ Go(a, "stop_docker")
  /\ UNCHANGED <<rowVars, intent, memVars, listener, empty, dockVars, actorVars>>

StopDocker(a) ==
  /\ pc[a] = "stop_docker"
  /\ StopContainer(at[a])
  /\ Go(a, "stop_done")
  /\ UNCHANGED <<rowVars, intent, memVars, listener, empty, actorVars>>

StopDone(a) ==
  /\ pc[a] = "stop_done"
  /\ Write(at[a], [rec[at[a]] EXCEPT !.status = "stopped", !.hibernated = FALSE])
  /\ Release(a)
  /\ UNCHANGED <<intent, listener, empty, dockVars>>

RestartChecked(a) ==
  /\ pc[a] = "restart_check"
  /\ Mark(at[a], "restarting", "none")
  /\ Go(a, "restart_stop")
  /\ UNCHANGED <<intent, memVars, listener, empty, dockVars, actorVars>>

RestartStop(a) ==
  /\ pc[a] = "restart_stop"
  /\ StopContainer(at[a])
  /\ Go(a, "start_deps")
  /\ UNCHANGED <<rowVars, intent, memVars, listener, empty, actorVars>>

-----------------------------------------------------------------------------
(* prepare and delete container.                                           *)

\* Neither the stored status nor Docker says the server is live.
PrepareChecked(a) ==
  /\ pc[a] = "prepare_check"
  /\ snap[a].status \notin Live
  /\ \E seen \in Inspect(snap[a].status, ctr[at[a]]) : seen \notin Live
  /\ Mark(at[a], "creating", "none")
  /\ Go(a, "prepare_build")
  /\ UNCHANGED <<intent, memVars, listener, empty, dockVars, actorVars>>

\* The pack is built and the container replaced; or the old container is
\* gone and the new one was not created.
PrepareBuild(a) ==
  /\ pc[a] = "prepare_build"
  /\ rec[at[a]].container < MaxContainer
  /\ \/ Recreate(at[a]) /\ Go(a, "prepare_done")
     \/ SetContainer(at[a], "absent") /\ Go(a, "prepare_lost")
  /\ UNCHANGED <<rowVars, intent, memVars, listener, empty, actorVars>>

\* (The bound of PrepareBuild again: the container is the owner's alone.)
PrepareDone(a) ==
  /\ pc[a] = "prepare_done"
  /\ rec[at[a]].container < MaxContainer
  /\ Write(at[a], [rec[at[a]] EXCEPT !.status = "stopped", !.error = "none",
                                     !.container = rec[at[a]].container + 1])
  /\ Release(a)
  /\ UNCHANGED <<intent, listener, empty, dockVars>>

RemoveRelease(a) ==
  /\ pc[a] = "remove_begin"
  /\ ReleasePort(at[a])
  /\ Go(a, IF listener[at[a]] = "armed" THEN "remove_close" ELSE "remove_docker")
  /\ UNCHANGED <<rowVars, memVars, empty, dockVars, actorVars>>

RemoveClose(a) ==
  /\ pc[a] = "remove_close"
  /\ ClosePort(at[a])
  /\ Go(a, "remove_docker")
  /\ UNCHANGED <<rowVars, intent, memVars, empty, dockVars, actorVars>>

\* Docker removes the container by force, then the row forgets it.
RemoveDocker(a) ==
  /\ pc[a] = "remove_docker"
  /\ SetContainer(at[a], "absent")
  /\ Go(a, "remove_done")
  /\ UNCHANGED <<rowVars, intent, memVars, listener, empty, actorVars>>

RemoveDone(a) ==
  /\ pc[a] = "remove_done"
  /\ Write(at[a], [rec[at[a]] EXCEPT !.status = "stopped", !.container = 0])
  /\ Release(a)
  /\ UNCHANGED <<intent, listener, empty, dockVars>>

-----------------------------------------------------------------------------
StartStep(a) ==
  \/ StartChecked(a) \/ DepsChecked(a) \/ StartRelease(a) \/ StartClose(a)
  \/ StartDocker(a) \/ StartDone(a) \/ StartFail(a) \/ RestoreListen(a)
StopStep(a) ==
  \/ StopRelease(a) \/ StopClose(a) \/ StopMark(a) \/ StopRcon(a) \/ StopWait(a)
  \/ StopDocker(a) \/ StopDone(a) \/ RestartChecked(a) \/ RestartStop(a)
BuildStep(a) ==
  \/ PrepareChecked(a) \/ PrepareBuild(a) \/ PrepareDone(a) \/ RemoveRelease(a)
  \/ RemoveClose(a) \/ RemoveDocker(a) \/ RemoveDone(a)

ClientStep(a) == StartStep(a) \/ StopStep(a) \/ BuildStep(a) \/ Refuse(a) \/ Fail(a)

ClientNext == \E a \in Client : ClientStep(a) \/ \E s \in Server : Begin(a, s)
=============================================================================
