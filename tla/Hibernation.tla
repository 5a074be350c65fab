---------------------------- MODULE Hibernation ----------------------------
(***************************************************************************)
(* hibernationService.ts and gracefulSleep.ts: the idle clock, automatic   *)
(* sleep (for idleness, or on behalf of the pressure controller), the      *)
(* sleep listeners, wake, and reconcile, which finishes sleeps that were   *)
(* still shutting down when their owner gave up or the backend restarted.  *)
(***************************************************************************)
EXTENDS PanelState

-----------------------------------------------------------------------------
(* The game port.                                                          *)

\* armListener has to bind, rather than return at once.
NeedsListen(s) == WakeOnConnect /\ listener[s] # "armed"

\* listen() resolves: the bind fails while the container publishes the port.
\* The failure is noted where nothing else is, and taken back by a later success.
Listen(s) ==
  IF ctr[s] \in Running
    THEN /\ listener' = [listener EXCEPT ![s] = "none"]
         /\ IF rec[s].error = "none" THEN SetError(s, "listener") ELSE UNCHANGED rowVars
    ELSE /\ listener' = [listener EXCEPT ![s] = "armed"]
         /\ IF rec[s].error = "listener" THEN SetError(s, "none") ELSE UNCHANGED rowVars

\* releasePort up to its await: the sleep intent is dropped, the listener
\* leaves the map and starts to close.
ReleasePort(s) ==
  /\ intent' = [intent EXCEPT ![s] = 0]
  /\ listener' = [listener EXCEPT ![s] = IF @ = "armed" THEN "closing" ELSE @]

\* close() resolves.
ClosePort(s) == listener' = [listener EXCEPT ![s] = "none"]

\* dockerService.start has Docker start the container; the port has to be free.
\* A container that runs already is left as it is.
StartContainer(s) ==
  \/ ctr[s] \in Down /\ listener[s] = "none" /\ SetContainer(s, "booting")
  \/ ctr[s] \in Running /\ UNCHANGED dockVars

\* restoreSleep, and the same lines in wake's catch: asleep again; the
\* operation goes on with label if the listener has to be bound.  e is lastError.
RestoreSleep(a, label, e) ==
  LET s == at[a] IN
  /\ Write(s, [rec[s] EXCEPT !.status = "stopped", !.hibernated = TRUE, !.error = e])
  /\ IF NeedsListen(s)
       THEN Go(a, label) /\ UNCHANGED <<memVars, actorVars>>
       ELSE Release(a)

RestoreListen(a) ==
  /\ pc[a] = "restore_listen"
  /\ Listen(at[a])
  /\ Release(a)
  /\ UNCHANGED <<intent, empty, dockVars>>

-----------------------------------------------------------------------------
(* hibernate.                                                              *)

\* A player count of zero is read over RCON: only a ready server answers.
CountsZero(s) == ctr[s] = "ready" /\ s \notin players

\* hibernate's synchronous prefix, for a caller that believes s runs container c.
SleepAllowed(s, c) ==
  /\ SleepEnabled
  /\ s \notin busy \cup preparing
  /\ rec[s].status = "running"
  /\ rec[s].container = c

SleepBegin(a, o, s) ==
  /\ Acquire(a, o, s, IF o = "occupied" THEN "sl_save" ELSE "sl_count")
  /\ UNCHANGED preparing

\* The sleep tick asks a running server for its players ...
EvaluateBegin(a, s) ==
  /\ pc[a] = "idle"
  /\ SleepEnabled
  /\ s \notin busy \cup preparing
  /\ rec[s].status = "running"
  /\ at' = [at EXCEPT ![a] = s]
  /\ op' = [op EXCEPT ![a] = "idle"]
  /\ snap' = [snap EXCEPT ![a] = rec[s]]
  /\ Go(a, "ev_count")
  /\ UNCHANGED <<rowVars, intent, memVars, listener, empty, dockVars, obs, todo>>

\* ... and keeps no clock for one that is not.
EvaluateNotRunning(s) ==
  /\ SleepEnabled
  /\ s \notin busy \cup preparing
  /\ rec[s].status # "running"
  /\ empty[s] # 0
  /\ empty' = [empty EXCEPT ![s] = 0]
  /\ UNCHANGED <<rowVars, intent, memVars, listener, dockVars, pc, actorVars>>

\* Somebody is online, or nobody could be asked: the clock restarts.
EvaluateOccupied(a) ==
  /\ pc[a] = "ev_count"
  /\ empty' = [empty EXCEPT ![at[a]] = 0]
  /\ Forget(a)
  /\ UNCHANGED <<rowVars, intent, memVars, listener, dockVars>>

EvaluateEmpty(a) ==
  LET s == at[a] IN
  /\ pc[a] = "ev_count"
  /\ CountsZero(s)
  /\ empty' = [empty EXCEPT ![s] = IF @ < IdlePolls THEN @ + 1 ELSE @]
  /\ IF empty'[s] = IdlePolls /\ SleepAllowed(s, snap[a].container)
       THEN SleepBegin(a, "idle", s)
       ELSE Forget(a) /\ UNCHANGED memVars
  /\ UNCHANGED <<rowVars, intent, listener, dockVars>>

\* The pressure controller picks a victim, one without players ("empty") or a
\* warned one ("occupied").
PressureSleep(a, o, s) ==
  /\ pc[a] = "idle"
  /\ SleepAllowed(s, rec[s].container)
  /\ SleepBegin(a, o, s)
  /\ UNCHANGED <<rowVars, intent, listener, empty, dockVars>>

\* Broken on purpose (for SleepsAreTold): the sleep is given up without a word.
SleepFailQuietly(a) ==
  /\ pc[a] \in {"sl_save", "sl_recheck", "sl_veto", "sl_wait"}
  /\ Release(a)
  /\ UNCHANGED <<rowVars, intent, listener, empty, dockVars>>

\* The sleep fails: lastError is written, nothing else, and no stop is forced.
SleepFail(a) ==
  /\ pc[a] \in {"sl_save", "sl_recheck", "sl_veto", "sl_wait"}
  /\ SetError(at[a], "other")
  /\ Release(a)
  /\ UNCHANGED <<intent, listener, empty, dockVars>>

\* The first player check of hibernate; anything but zero calls it off.
SleepCount(a) ==
  /\ pc[a] = "sl_count"
  /\ \/ CountsZero(at[a]) /\ Go(a, "sl_save") /\ UNCHANGED <<memVars, actorVars>>
     \/ Release(a)
  /\ UNCHANGED <<rowVars, intent, listener, empty, dockVars>>

\* beforeStop's look at the record: still the running container it locked.
\* (The intent row cannot be written without a container id.)
StillOurs(a) ==
  /\ rec[at[a]].status = "running"
  /\ rec[at[a]].container = snap[a].container
  /\ snap[a].container # 0
  /\ at[a] \notin preparing

\* The end of beforeStop: the intent is stored before the stop is sent.
CommitSleep(a) ==
  /\ intent' = [intent EXCEPT ![at[a]] = snap[a].container]
  /\ Mark(at[a], "stopping", "none")
  /\ Go(a, "sl_stop")

\* An idle sleep commits at once; the pressure controller first reassesses.
CommitOrReassess(a) ==
  /\ StillOurs(a)
  /\ IF a \in Presser
       THEN Go(a, "sl_veto") /\ UNCHANGED <<rowVars, intent>>
       ELSE CommitSleep(a)

\* save-all flush is acknowledged; a warned server is not counted again.
SleepSave(a) ==
  /\ pc[a] = "sl_save"
  /\ ctr[at[a]] = "ready"
  /\ IF op[a] = "occupied"
       THEN CommitOrReassess(a)
       ELSE Go(a, "sl_recheck") /\ UNCHANGED <<rowVars, intent>>
  /\ UNCHANGED <<memVars, listener, empty, dockVars, actorVars>>

\* Broken on purpose (for EmptyAtStop): the second answer is not looked at.
SleepRecheckIgnored(a) ==
  /\ pc[a] = "sl_recheck"
  /\ unseen' = unseen \ {at[a]}
  /\ CommitOrReassess(a)
  /\ UNCHANGED <<memVars, listener, empty, ctr, players, actorVars>>

\* The second player check, after the save.
SleepRecheck(a) ==
  /\ pc[a] = "sl_recheck"
  /\ CountsZero(at[a])
  /\ unseen' = unseen \ {at[a]}
  /\ CommitOrReassess(a)
  /\ UNCHANGED <<memVars, listener, empty, ctr, players, actorVars>>

SleepReassessed(a) ==
  /\ pc[a] = "sl_veto"
  /\ CommitSleep(a)
  /\ UNCHANGED <<memVars, listener, empty, dockVars, actorVars>>

\* RCON stop is sent, and may be lost: the code does not look at its result.
SleepStop(a) ==
  /\ pc[a] = "sl_stop"
  /\ \/ ctr[at[a]] = "ready" /\ SetContainer(at[a], "halting")
     \/ UNCHANGED dockVars
  /\ Go(a, "sl_wait")
  /\ UNCHANGED <<rowVars, intent, memVars, listener, empty, actorVars>>

\* A clean exit is confirmed: the server is asleep, the listener takes the port.
SleepExited(a) ==
  LET s == at[a] IN
  /\ pc[a] = "sl_wait"
  /\ ctr[s] = "clean"
  /\ RestoreSleep(a, "sl_arm", "none")
  /\ empty' = [empty EXCEPT ![s] = 0]
  /\ intent' = IF NeedsListen(s) THEN intent ELSE [intent EXCEPT ![s] = 0]
  /\ UNCHANGED <<listener, dockVars>>

SleepArmed(a) ==
  /\ pc[a] = "sl_arm"
  /\ Listen(at[a])
  /\ intent' = [intent EXCEPT ![at[a]] = 0]
  /\ Release(a)
  /\ UNCHANGED <<empty, dockVars>>

-----------------------------------------------------------------------------
(* wake, called by a sleep listener or by the subdomain router.            *)

WakeBegin(a, s) ==
  /\ pc[a] = "idle"
  /\ WakeOnConnect
  /\ rec[s].hibernated
  /\ Acquire(a, "wake", s, IF listener[s] = "armed" THEN "wake_close" ELSE "wake_mark")
  /\ ReleasePort(s)
  /\ UNCHANGED <<rowVars, preparing, empty, dockVars>>

WakeClose(a) ==
  /\ pc[a] = "wake_close"
  /\ ClosePort(at[a])
  /\ Go(a, "wake_mark")
  /\ UNCHANGED <<rowVars, intent, memVars, empty, dockVars, actorVars>>

WakeMark(a) ==
  /\ pc[a] = "wake_mark"
  /\ Write(at[a], [rec[at[a]] EXCEPT !.status = "starting", !.hibernated = FALSE])
  /\ Go(a, "wake_docker")
  /\ UNCHANGED <<intent, memVars, listener, empty, dockVars, actorVars>>

WakeDocker(a) ==
  /\ pc[a] = "wake_docker"
  /\ StartContainer(at[a])
  /\ Go(a, "wake_done")
  /\ UNCHANGED <<rowVars, intent, memVars, listener, empty, actorVars>>

WakeDone(a) ==
  /\ pc[a] = "wake_done"
  /\ Mark(at[a], "starting", "none")
  /\ Release(a)
  /\ UNCHANGED <<intent, listener, empty, dockVars>>

\* Admission or Docker refuses the start: asleep again.
WakeFail(a) ==
  /\ pc[a] = "wake_docker"
  /\ RestoreSleep(a, "restore_listen", "other")
  /\ UNCHANGED <<intent, listener, empty, dockVars>>

-----------------------------------------------------------------------------
(* reconcile.  Its two lists are read once; ownership is taken per server. *)

Row(s, c) == [server |-> s, container |-> c]

\* Take the list up at the next row in todo that is not passed over.
Take(a, rows, pickable, label) ==
  \E row \in pickable :
    /\ \A r \in pickable : row.server <= r.server
    /\ busy' = busy \cup {row.server}
    /\ at' = [at EXCEPT ![a] = row.server]
    /\ snap' = [snap EXCEPT ![a] = rec[row.server]]
    /\ todo' = [todo EXCEPT ![a] = {r \in rows : r.server > row.server}]
    /\ Go(a, label)

\* A row of the intent list is passed over while its server is owned; it is
\* deleted when the server has another container by now.
IntentTurn(a, rows) ==
  LET free     == {r \in rows : r.server \notin busy}
      pickable == {r \in free : rec[r.server].container = r.container}
      dropped  == {r \in free \ pickable : \A p \in pickable : r.server < p.server}
  IN /\ intent' = [s \in Server |-> IF \E r \in dropped : r.server = s THEN 0 ELSE intent[s]]
     /\ op' = [op EXCEPT ![a] = "reconcile"]
     /\ IF pickable # {}
          THEN Take(a, rows, pickable, "rc_inspect")
          ELSE /\ Go(a, "rc_listeners")
               /\ todo' = [todo EXCEPT ![a] = {}]
               /\ UNCHANGED <<busy, at, snap>>
     /\ UNCHANGED <<rowVars, preparing, listener, empty, dockVars, obs>>

ReconcileBegin(a) ==
  /\ pc[a] = "idle"
  /\ IntentTurn(a, {Row(s, intent[s]) : s \in {x \in Server : intent[x] # 0}})

IntentNext(a) == pc[a] = "rc_intents" /\ IntentTurn(a, todo[a])

\* The server of this turn is given up; the list goes on.
EndTurn(a, label) ==
  /\ busy' = busy \ {at[a]}
  /\ at' = [at EXCEPT ![a] = NoServer]
  /\ snap' = [snap EXCEPT ![a] = NoRecord]
  /\ Go(a, label)
  /\ UNCHANGED <<preparing, op, obs, todo>>

\* Still running, or not inspectable: the intent waits for the next poll.
IntentInspect(a) ==
  /\ pc[a] = "rc_inspect"
  /\ \E seen \in Inspect(snap[a].status, ctr[at[a]]) :
       IF seen \in {"stopped", "exited"}
         THEN Go(a, "rc_exit") /\ UNCHANGED <<memVars, actorVars>>
         ELSE EndTurn(a, "rc_intents")
  /\ UNCHANGED <<rowVars, intent, listener, empty, dockVars>>

\* Broken on purpose (for SleepsAreTold): any exit counts.
IntentExitAny(a) ==
  LET s == at[a] IN
  /\ pc[a] = "rc_exit"
  /\ Write(s, [rec[s] EXCEPT !.status = "stopped", !.hibernated = TRUE])
  /\ IF NeedsListen(s)
       THEN Go(a, "rc_restore") /\ UNCHANGED <<intent, memVars, actorVars>>
       ELSE EndTurn(a, "rc_intents") /\ intent' = [intent EXCEPT ![s] = 0]
  /\ UNCHANGED <<listener, empty, dockVars>>

\* Broken on purpose (for IntentsResolved): the intent of a crashed server stays.
IntentExitKeeps(a) ==
  LET s == at[a] IN
  /\ pc[a] = "rc_exit"
  /\ IF ctr[s] = "clean"
       THEN /\ Write(s, [rec[s] EXCEPT !.status = "stopped", !.hibernated = TRUE])
            /\ IF NeedsListen(s)
                 THEN Go(a, "rc_restore") /\ UNCHANGED <<intent, memVars, actorVars>>
                 ELSE EndTurn(a, "rc_intents") /\ intent' = [intent EXCEPT ![s] = 0]
       ELSE EndTurn(a, "rc_intents") /\ UNCHANGED <<rowVars, intent>>
  /\ UNCHANGED <<listener, empty, dockVars>>

\* waitForExit(requireClean): a clean exit is a sleep after all.  Any other
\* end only removes the intent.
IntentExit(a) ==
  LET s == at[a] IN
  /\ pc[a] = "rc_exit"
  /\ IF ctr[s] = "clean"
       THEN /\ Write(s, [rec[s] EXCEPT !.status = "stopped", !.hibernated = TRUE])
            /\ IF NeedsListen(s)
                 THEN Go(a, "rc_restore") /\ UNCHANGED <<intent, memVars, actorVars>>
                 ELSE EndTurn(a, "rc_intents") /\ intent' = [intent EXCEPT ![s] = 0]
       ELSE /\ EndTurn(a, "rc_intents")
            /\ intent' = [intent EXCEPT ![s] = 0]
            /\ UNCHANGED rowVars
  /\ UNCHANGED <<listener, empty, dockVars>>

\* Docker fails under waitForExit: the exception ends the whole poll.
IntentAbort(a) ==
  /\ pc[a] = "rc_exit"
  /\ DockerFails
  /\ busy' = busy \ {at[a]}
  /\ Forget(a)
  /\ UNCHANGED <<rowVars, intent, preparing, listener, empty, dockVars>>

IntentRestored(a) ==
  /\ pc[a] = "rc_restore"
  /\ Listen(at[a])
  /\ intent' = [intent EXCEPT ![at[a]] = 0]
  /\ EndTurn(a, "rc_intents")
  /\ UNCHANGED <<empty, dockVars>>

\* A listener in the map whose server is not asleep any more.
Superfluous(s) ==
  listener[s] = "armed" /\ s \notin busy /\ ~(rec[s].hibernated /\ WakeOnConnect)

ListenerTurn(a, s) ==
  /\ pc[a] = "rc_listeners"
  /\ Superfluous(s)
  /\ Acquire(a, "reconcile", s, "rc_close")
  /\ ReleasePort(s)
  /\ UNCHANGED <<rowVars, preparing, empty, dockVars>>

PortClosed(a) ==
  /\ pc[a] = "rc_close"
  /\ ClosePort(at[a])
  /\ EndTurn(a, "rc_listeners")
  /\ UNCHANGED <<rowVars, intent, empty, dockVars>>

\* Broken on purpose (for PortHeldOnce): listeners are not looked up before the bind.
RecordTurnAgain(a, rows) ==
  LET pickable == {r \in rows : r.server \notin busy} IN
  /\ IF pickable # {}
       THEN Take(a, rows, pickable, "rc_listen") /\ UNCHANGED <<op, obs>>
       ELSE Forget(a) /\ UNCHANGED busy
  /\ UNCHANGED <<rowVars, intent, preparing, listener, empty, dockVars>>

\* The sleeping servers as listed; those without a listener get one.
RecordTurn(a, rows) ==
  LET pickable == {r \in rows : r.server \notin busy /\ NeedsListen(r.server)} IN
  /\ IF pickable # {}
       THEN Take(a, rows, pickable, "rc_listen") /\ UNCHANGED <<op, obs>>
       ELSE Forget(a) /\ UNCHANGED busy
  /\ UNCHANGED <<rowVars, intent, preparing, listener, empty, dockVars>>

\* Broken on purpose (for SleepersAnswer): binds are not retried.
ListNoRecords(a) ==
  /\ pc[a] = "rc_listeners"
  /\ \A s \in Server : ~Superfluous(s)
  /\ RecordTurn(a, {})

ListRecords(a) ==
  /\ pc[a] = "rc_listeners"
  /\ \A s \in Server : ~Superfluous(s)
  /\ RecordTurn(a, {Row(s, 0) : s \in
       {x \in Server : rec[x].hibernated /\ rec[x].status = "stopped"}})

RecordNext(a) == pc[a] = "rc_records" /\ RecordTurn(a, todo[a])

RecordListen(a) ==
  /\ pc[a] = "rc_listen"
  /\ Listen(at[a])
  /\ EndTurn(a, "rc_records")
  /\ UNCHANGED <<intent, empty, dockVars>>

-----------------------------------------------------------------------------
SleepStep(a) ==
  \/ SleepFail(a) \/ SleepCount(a) \/ SleepSave(a) \/ SleepRecheck(a)
  \/ SleepReassessed(a) \/ SleepStop(a) \/ SleepExited(a) \/ SleepArmed(a)

EvaluateNext(a) ==
  \/ EvaluateOccupied(a) \/ EvaluateEmpty(a)
  \/ \E s \in Server : EvaluateBegin(a, s)

WakeStep(a) ==
  \/ WakeClose(a) \/ WakeMark(a) \/ WakeDocker(a) \/ WakeDone(a)
  \/ WakeFail(a) \/ RestoreListen(a)

ReconcileNext(a) ==
  \/ ReconcileBegin(a) \/ IntentNext(a) \/ IntentInspect(a) \/ IntentExit(a)
  \/ IntentAbort(a) \/ IntentRestored(a) \/ ListRecords(a) \/ PortClosed(a)
  \/ RecordNext(a) \/ RecordListen(a)
  \/ \E s \in Server : ListenerTurn(a, s)

SleepNext ==
  \/ \E a \in Sleeper : SleepStep(a)
  \/ \E a \in Idler : EvaluateNext(a)
  \/ \E s \in Server : EvaluateNotRunning(s)
  \/ \E a \in Presser, s \in Server, o \in {"empty", "occupied"} : PressureSleep(a, o, s)
WakeNext == \E a \in Joiner : WakeStep(a) \/ \E s \in Server : WakeBegin(a, s)
=============================================================================
