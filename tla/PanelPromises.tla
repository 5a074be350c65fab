--------------------------- MODULE PanelPromises ---------------------------
(***************************************************************************)
(* What the panel promises about its servers, for any number of servers    *)
(* and actors: every variable keeps to its type (TypeCorrect),             *)
(* lifecycleBusy is a mutual exclusion (OwnersExclusive), the game port    *)
(* has one holder, no player is stopped under, rows change by their        *)
(* owner's hand alone, sleeps are told, and mods are repaired while the    *)
(* container is down.                                                      *)
(*                                                                         *)
(* TypeOK is inductive as it stands, because it says of an actor at a      *)
(* Homed label that it has a server.  The proof of OwnersExclusive reduces *)
(* the seventy actions of the panel to the four ways an actor can move: it *)
(* stays with the server it owns, takes one that nobody owns, gives its    *)
(* own up, or roams without one.                                           *)
(*                                                                         *)
(* The others begin with what a step of one actor leaves alone (Alone).    *)
(* An invariant that relates an owner's await to its server then needs two *)
(* facts: the owner's own steps keep it, and nobody else's can touch it.   *)
(***************************************************************************)
EXTENDS Panel, TLAPS


-----------------------------------------------------------------------------
(* Types: one lemma per helper of PanelState, one per action, the sum.     *)

\* Labels at which an actor works on a server.
Homed == Owned \cup {"rf_apply", "rd_inspect", "rd_apply", "ev_count"}

LEMMA NoRecordType == NoRecord \in Record
BY BoundAssumption DEF NoRecord, Record, Status, ContainerId, LastError

LEMMA WriteType ==
  ASSUME RowTypeOK, NEW s \in Server, NEW r \in Record, Write(s, r)
  PROVE RowTypeOK'
<1>1. Settled(r) \in Record
  BY DEF Settled, Record, LastError
<1>2. rec' \in [Server -> Record]
  BY <1>1 DEF RowTypeOK, Write
<1>3. stale' \subseteq Refresher
  BY DEF RowTypeOK, Write, Refreshing
<1>4. QED BY <1>2, <1>3 DEF RowTypeOK

LEMMA MarkType ==
  ASSUME RowTypeOK, NEW s \in Server, NEW st \in Status, NEW e \in LastError, Mark(s, st, e)
  PROVE RowTypeOK'
<1>1. [rec[s] EXCEPT !.status = st, !.error = e] \in Record
  BY DEF RowTypeOK, Record
<1>2. QED BY <1>1, WriteType DEF Mark

LEMMA SetStatusType ==
  ASSUME RowTypeOK, NEW s \in Server, NEW st \in Status, SetStatus(s, st)
  PROVE RowTypeOK'
<1>1. [rec[s] EXCEPT !.status = st] \in Record
  BY DEF RowTypeOK, Record
<1>2. QED BY <1>1, WriteType DEF SetStatus

LEMMA SetErrorType ==
  ASSUME RowTypeOK, NEW s \in Server, NEW e \in LastError, SetError(s, e)
  PROVE RowTypeOK'
<1>1. [rec[s] EXCEPT !.error = e] \in Record
  BY DEF RowTypeOK, Record
<1>2. QED BY <1>1, WriteType DEF SetError

LEMMA ForgetType ==
  ASSUME ActorTypeOK, NEW a \in Actor, Forget(a)
  PROVE ActorTypeOK'
<1>1. pc' \in [Actor -> Owned \cup Unowned] /\ pc' = [pc EXCEPT ![a] = "idle"]
  BY DEF ActorTypeOK, Forget, Go, Unowned
<1>2. op' \in [Actor -> Operation]
  BY DEF ActorTypeOK, Forget, Operation
<1>3. at' \in [Actor -> Server \cup {NoServer}] /\ at' = [at EXCEPT ![a] = NoServer]
  BY DEF ActorTypeOK, Forget
<1>4. snap' \in [Actor -> Record]
  BY NoRecordType DEF ActorTypeOK, Forget
<1>5. obs' \in [Actor -> Status]
  BY DEF ActorTypeOK, Forget, Status
<1>6. todo' \in [Actor -> SUBSET [server : Server, container : ContainerId]]
  BY DEF ActorTypeOK, Forget
<1>7. \A b \in Actor : pc'[b] \notin Homeless => at'[b] \in Server
  BY <1>1, <1>3 DEF ActorTypeOK, Homeless
<1>8. QED BY <1>1, <1>2, <1>3, <1>4, <1>5, <1>6, <1>7 DEF ActorTypeOK

LEMMA GoType ==
  ASSUME ActorTypeOK, NEW a \in Actor, NEW label \in Homed, at[a] \in Server,
         Go(a, label), UNCHANGED actorVars
  PROVE ActorTypeOK'
<1>1. pc' \in [Actor -> Owned \cup Unowned]
  BY DEF ActorTypeOK, Go, Homed, Unowned
<1>2. \A b \in Actor : pc'[b] \notin Homeless => at'[b] \in Server
  BY DEF ActorTypeOK, Go, actorVars
<1>3. QED BY <1>1, <1>2 DEF ActorTypeOK, actorVars

LEMMA ReleaseType ==
  ASSUME ActorTypeOK, LockTypeOK, NEW a \in Actor, Release(a)
  PROVE ActorTypeOK' /\ LockTypeOK'
BY ForgetType DEF Release, LockTypeOK

LEMMA AcquireType ==
  ASSUME ActorTypeOK, RowTypeOK, LockTypeOK, NEW a \in Actor, NEW o \in Operation,
         NEW s \in Server, NEW label \in Owned, Acquire(a, o, s, label)
  PROVE ActorTypeOK' /\ busy' \subseteq Server
<1>1. pc' \in [Actor -> Owned \cup Unowned]
  BY DEF ActorTypeOK, Acquire, Go
<1>2. \A b \in Actor : pc'[b] \notin Homeless => at'[b] \in Server
  BY DEF ActorTypeOK, Acquire, Go
<1>3. /\ op' \in [Actor -> Operation]
      /\ at' \in [Actor -> Server \cup {NoServer}]
      /\ snap' \in [Actor -> Record]
  BY DEF ActorTypeOK, RowTypeOK, Acquire
<1>4. QED BY <1>1, <1>2, <1>3 DEF ActorTypeOK, Acquire, LockTypeOK

LEMMA SetContainerType ==
  ASSUME DockTypeOK, NEW s \in Server, NEW c \in ContainerState, SetContainer(s, c)
  PROVE DockTypeOK'
BY DEF DockTypeOK, SetContainer

LEMMA ListenType ==
  ASSUME RowTypeOK, ListenerTypeOK, NEW s \in Server, Listen(s)
  PROVE RowTypeOK' /\ ListenerTypeOK'
<1>1. ListenerTypeOK'
  BY DEF Listen, ListenerTypeOK, ListenerState
<1>2. RowTypeOK'
  <2>1. CASE UNCHANGED rowVars
    BY <2>1 DEF RowTypeOK, rowVars
  <2>2. CASE SetError(s, "listener") \/ SetError(s, "none")
    BY <2>2, SetErrorType DEF LastError
  <2>3. QED BY <2>1, <2>2 DEF Listen
<1>3. QED BY <1>1, <1>2

LEMMA RestoreSleepType ==
  ASSUME ActorTypeOK, LockTypeOK, RowTypeOK, NEW a \in Actor, NEW label \in Homed,
         NEW e \in LastError, at[a] \in Server, RestoreSleep(a, label, e)
  PROVE ActorTypeOK' /\ LockTypeOK' /\ RowTypeOK'
<1>1. [rec[at[a]] EXCEPT !.status = "stopped", !.hibernated = TRUE, !.error = e] \in Record
  BY DEF RowTypeOK, Record, Status
<1>2. RowTypeOK'
  BY <1>1, WriteType DEF RestoreSleep
<1>3. CASE Go(a, label) /\ UNCHANGED <<memVars, actorVars>>
  BY <1>2, <1>3, GoType DEF LockTypeOK, memVars
<1>4. CASE Release(a)
  BY <1>2, <1>4, ReleaseType
<1>5. QED BY <1>3, <1>4 DEF RestoreSleep

LEMMA EndTurnType ==
  ASSUME ActorTypeOK, LockTypeOK, NEW a \in Actor,
         NEW label \in {"rc_intents", "rc_listeners", "rc_records"}, EndTurn(a, label)
  PROVE ActorTypeOK' /\ LockTypeOK'
<1>1. pc' \in [Actor -> Owned \cup Unowned]
  BY DEF ActorTypeOK, EndTurn, Go, Unowned
<1>2. \A b \in Actor : pc'[b] \notin Homeless => at'[b] \in Server
  BY DEF ActorTypeOK, EndTurn, Go, Homeless
<1>3. at' \in [Actor -> Server \cup {NoServer}] /\ snap' \in [Actor -> Record]
  BY NoRecordType DEF ActorTypeOK, EndTurn
<1>4. QED BY <1>1, <1>2, <1>3 DEF ActorTypeOK, EndTurn, LockTypeOK

Typed ==
  /\ RowTypeOK /\ IntentTypeOK /\ LockTypeOK /\ ListenerTypeOK
  /\ EmptyTypeOK /\ DockTypeOK /\ ActorTypeOK

LEMMA Kept ==
  /\ RowTypeOK /\ UNCHANGED rowVars => RowTypeOK'
  /\ IntentTypeOK /\ UNCHANGED intent => IntentTypeOK'
  /\ LockTypeOK /\ UNCHANGED memVars => LockTypeOK'
  /\ ListenerTypeOK /\ UNCHANGED listener => ListenerTypeOK'
  /\ EmptyTypeOK /\ UNCHANGED empty => EmptyTypeOK'
  /\ DockTypeOK /\ UNCHANGED dockVars => DockTypeOK'
  /\ ActorTypeOK /\ UNCHANGED <<pc, actorVars>> => ActorTypeOK'
BY DEF RowTypeOK, IntentTypeOK, LockTypeOK, ListenerTypeOK, EmptyTypeOK, DockTypeOK,
  ActorTypeOK, rowVars, memVars, dockVars, actorVars

LEMMA AtServer ==
  ASSUME ActorTypeOK, NEW a \in Actor, pc[a] \notin Homeless
  PROVE at[a] \in Server
BY DEF ActorTypeOK

LEMMA SleepStepType ==
  ASSUME Typed, NEW a \in Actor, SleepStep(a)
  PROVE Typed'
<1> USE DEF Typed
<1>0. at[a] \in Server
  BY AtServer DEF SleepStep, SleepFail, SleepCount, SleepSave, SleepRecheck, SleepReassessed,
    SleepStop, SleepExited, SleepArmed, Homeless
<1>1. CASE SleepFail(a)
  BY <1>0, <1>1, Kept, SetErrorType, ReleaseType DEF SleepFail, LastError
<1>2. CASE SleepCount(a)
  BY <1>0, <1>2, Kept, GoType, ReleaseType DEF SleepCount, Homed, Owned
<1>9. ASSUME CommitSleep(a), UNCHANGED actorVars
      PROVE RowTypeOK' /\ IntentTypeOK' /\ ActorTypeOK'
  <2>1. RowTypeOK' BY <1>0, <1>9, MarkType DEF CommitSleep, Status, LastError
  <2>2. ActorTypeOK' BY <1>0, <1>9, GoType DEF CommitSleep, Homed, Owned
  <2>3. snap[a].container \in ContainerId BY DEF ActorTypeOK, Record
  <2>4. IntentTypeOK' BY <1>0, <1>9, <2>3 DEF CommitSleep, IntentTypeOK
  <2>5. QED BY <2>1, <2>2, <2>4
<1>10. ASSUME CommitOrReassess(a), UNCHANGED actorVars
      PROVE RowTypeOK' /\ IntentTypeOK' /\ ActorTypeOK'
  BY <1>0, <1>9, <1>10, Kept, GoType DEF CommitOrReassess, Homed, Owned
<1>3. CASE SleepSave(a)
  <2>1. RowTypeOK' /\ IntentTypeOK' /\ ActorTypeOK'
    BY <1>0, <1>3, <1>10, Kept, GoType DEF SleepSave, Homed, Owned
  <2>2. QED BY <1>3, <2>1, Kept DEF SleepSave
<1>4. CASE SleepRecheck(a)
  <2>1. RowTypeOK' /\ IntentTypeOK' /\ ActorTypeOK'
    BY <1>4, <1>10 DEF SleepRecheck
  <2>2. DockTypeOK' BY <1>4 DEF SleepRecheck, DockTypeOK
  <2>3. QED BY <1>4, <2>1, <2>2, Kept DEF SleepRecheck
<1>5. CASE SleepReassessed(a)
  BY <1>5, <1>9, Kept DEF SleepReassessed
<1>6. CASE SleepStop(a)
  <2>1. DockTypeOK'
    BY <1>0, <1>6, Kept, SetContainerType DEF SleepStop, ContainerState, Running
  <2>2. QED BY <1>0, <1>6, <2>1, Kept, GoType DEF SleepStop, Homed, Owned
<1>7. CASE SleepExited(a)
  <2>1. RowTypeOK' /\ LockTypeOK' /\ ActorTypeOK'
    BY <1>0, <1>7, RestoreSleepType DEF SleepExited, Homed, Owned, LastError
  <2>2. EmptyTypeOK' BY <1>0, <1>7, BoundAssumption DEF SleepExited, EmptyTypeOK
  <2>3. IntentTypeOK' BY <1>0, <1>7, BoundAssumption DEF SleepExited, IntentTypeOK, ContainerId
  <2>4. QED BY <1>7, <2>1, <2>2, <2>3, Kept DEF SleepExited
<1>8. CASE SleepArmed(a)
  <2>1. IntentTypeOK' BY <1>0, <1>8, BoundAssumption DEF SleepArmed, IntentTypeOK, ContainerId
  <2>2. QED BY <1>0, <1>8, <2>1, Kept, ListenType, ReleaseType DEF SleepArmed
<1>11. QED BY <1>1, <1>2, <1>3, <1>4, <1>5, <1>6, <1>7, <1>8 DEF SleepStep

LEMMA EvaluateType ==
  ASSUME Typed, NEW a \in Actor, EvaluateNext(a)
  PROVE Typed'
<1> USE DEF Typed
<1>1. CASE EvaluateOccupied(a)
  <2>1. at[a] \in Server BY <1>1, AtServer DEF EvaluateOccupied, Homeless
  <2>2. EmptyTypeOK' BY <1>1, <2>1, BoundAssumption DEF EvaluateOccupied, EmptyTypeOK
  <2>3. QED BY <1>1, <2>2, Kept, ForgetType DEF EvaluateOccupied
<1>2. CASE EvaluateEmpty(a)
  <2>1. at[a] \in Server BY <1>2, AtServer DEF EvaluateEmpty, Homeless
  <2>2. EmptyTypeOK'
    BY <1>2, <2>1, BoundAssumption DEF EvaluateEmpty, EmptyTypeOK
  <2>3. ActorTypeOK' /\ LockTypeOK'
    <3>1. CASE SleepBegin(a, "idle", at[a])
      <4>1. Acquire(a, "idle", at[a], "sl_count") BY <3>1 DEF SleepBegin
      <4>2. QED BY <2>1, <3>1, <4>1, AcquireType DEF SleepBegin, Operation, Owned, LockTypeOK
    <3>2. CASE Forget(a) /\ UNCHANGED memVars
      BY <3>2, ForgetType, Kept
    <3>3. QED BY <1>2, <3>1, <3>2 DEF EvaluateEmpty
  <2>4. QED BY <1>2, <2>2, <2>3, Kept DEF EvaluateEmpty
<1>3. ASSUME NEW s \in Server, EvaluateBegin(a, s) PROVE Typed'
  <2>1. pc' \in [Actor -> Owned \cup Unowned] /\ \A b \in Actor : pc'[b] \notin Homeless => at'[b] \in Server
    BY <1>3 DEF EvaluateBegin, ActorTypeOK, Go, Unowned
  <2>2. op' \in [Actor -> Operation] /\ at' \in [Actor -> Server \cup {NoServer}]
        /\ snap' \in [Actor -> Record]
    BY <1>3 DEF EvaluateBegin, ActorTypeOK, RowTypeOK, Operation
  <2>3. ActorTypeOK'
    BY <1>3, <2>1, <2>2 DEF EvaluateBegin, ActorTypeOK
  <2>4. QED BY <1>3, <2>3, Kept DEF EvaluateBegin
<1>4. QED BY <1>1, <1>2, <1>3 DEF EvaluateNext

LEMMA NotRunningType ==
  ASSUME Typed, NEW s \in Server, EvaluateNotRunning(s)
  PROVE Typed'
<1>1. EmptyTypeOK'
  BY BoundAssumption DEF Typed, EvaluateNotRunning, EmptyTypeOK
<1>2. QED BY <1>1, Kept DEF Typed, EvaluateNotRunning

LEMMA PressureType ==
  ASSUME Typed, NEW a \in Actor, NEW s \in Server, NEW o \in {"empty", "occupied"},
         PressureSleep(a, o, s)
  PROVE Typed'
<1>1. PICK label \in Owned : Acquire(a, o, s, label)
  BY DEF PressureSleep, SleepBegin, Owned
<1>2. ActorTypeOK' /\ busy' \subseteq Server
  BY <1>1, AcquireType DEF Typed, Operation
<1>3. LockTypeOK'
  BY <1>2 DEF Typed, PressureSleep, SleepBegin, LockTypeOK
<1>4. QED BY <1>2, <1>3, Kept DEF Typed, PressureSleep

LEMMA ReleasePortType ==
  ASSUME IntentTypeOK, ListenerTypeOK, NEW s \in Server, ReleasePort(s)
  PROVE IntentTypeOK' /\ ListenerTypeOK'
BY BoundAssumption DEF IntentTypeOK, ListenerTypeOK, ListenerState, ContainerId, ReleasePort

LEMMA ClosePortType ==
  ASSUME ListenerTypeOK, NEW s \in Server, ClosePort(s)
  PROVE ListenerTypeOK'
BY DEF ListenerTypeOK, ListenerState, ClosePort

LEMMA StartContainerType ==
  ASSUME DockTypeOK, NEW s \in Server, StartContainer(s)
  PROVE DockTypeOK'
BY SetContainerType, Kept DEF StartContainer, ContainerState, Running

LEMMA WakeBeginType ==
  ASSUME Typed, NEW a \in Actor, NEW s \in Server, WakeBegin(a, s)
  PROVE Typed'
<1>1. PICK label \in Owned : Acquire(a, "wake", s, label)
  BY DEF WakeBegin, Owned
<1>2. ActorTypeOK' /\ busy' \subseteq Server
  BY <1>1, AcquireType DEF Typed, Operation
<1>3. LockTypeOK'
  BY <1>2 DEF Typed, WakeBegin, LockTypeOK
<1>4. QED BY <1>2, <1>3, Kept, ReleasePortType DEF Typed, WakeBegin

LEMMA RestoreListenType ==
  ASSUME Typed, NEW a \in Actor, RestoreListen(a)
  PROVE Typed'
<1>1. at[a] \in Server BY AtServer DEF Typed, RestoreListen, Homeless
<1>2. QED BY <1>1, Kept, ListenType, ReleaseType DEF Typed, RestoreListen

LEMMA WakeStepType ==
  ASSUME Typed, NEW a \in Actor, WakeStep(a)
  PROVE Typed'
<1> USE DEF Typed
<1>0. at[a] \in Server
  BY AtServer DEF WakeStep, WakeClose, WakeMark, WakeDocker, WakeDone, WakeFail,
    RestoreListen, Homeless
<1>1. CASE WakeClose(a)
  BY <1>0, <1>1, Kept, ClosePortType, GoType DEF WakeClose, Homed, Owned
<1>2. CASE WakeMark(a)
  <2>1. [rec[at[a]] EXCEPT !.status = "starting", !.hibernated = FALSE] \in Record
    BY <1>0 DEF RowTypeOK, Record, Status
  <2>2. QED BY <1>0, <1>2, <2>1, Kept, WriteType, GoType DEF WakeMark, Homed, Owned
<1>3. CASE WakeDocker(a)
  BY <1>0, <1>3, Kept, StartContainerType, GoType DEF WakeDocker, Homed, Owned
<1>4. CASE WakeDone(a)
  BY <1>0, <1>4, Kept, MarkType, ReleaseType DEF WakeDone, Status, LastError
<1>5. CASE WakeFail(a)
  BY <1>0, <1>5, Kept, RestoreSleepType DEF WakeFail, Homed, Owned, LastError
<1>6. QED BY <1>1, <1>2, <1>3, <1>4, <1>5, RestoreListenType DEF WakeStep

LEMMA TakeType ==
  ASSUME ActorTypeOK, RowTypeOK, LockTypeOK, NEW a \in Actor, NEW label \in Owned,
         NEW rows \in SUBSET [server : Server, container : ContainerId],
         NEW pickable \in SUBSET rows,
         op' \in [Actor -> Operation], UNCHANGED <<obs, preparing>>,
         Take(a, rows, pickable, label)
  PROVE ActorTypeOK' /\ LockTypeOK'
<1>1. PICK row \in pickable :
        /\ busy' = busy \cup {row.server}
        /\ at' = [at EXCEPT ![a] = row.server]
        /\ snap' = [snap EXCEPT ![a] = rec[row.server]]
        /\ todo' = [todo EXCEPT ![a] = {r \in rows : r.server > row.server}]
        /\ Go(a, label)
  BY DEF Take
<1>2. row.server \in Server
  OBVIOUS
<1>3. pc' \in [Actor -> Owned \cup Unowned]
  BY <1>1 DEF ActorTypeOK, Go
<1>4. \A b \in Actor : pc'[b] \notin Homeless => at'[b] \in Server
  BY <1>1, <1>2 DEF ActorTypeOK, Go
<1>5. /\ at' \in [Actor -> Server \cup {NoServer}]
      /\ snap' \in [Actor -> Record]
  BY <1>1, <1>2 DEF ActorTypeOK, RowTypeOK
<1>6. todo' \in [Actor -> SUBSET [server : Server, container : ContainerId]]
  <2>1. {r \in rows : r.server > row.server} \in SUBSET [server : Server, container : ContainerId]
    OBVIOUS
  <2>2. QED BY <1>1, <2>1 DEF ActorTypeOK
<1>7. QED BY <1>1, <1>2, <1>3, <1>4, <1>5, <1>6 DEF ActorTypeOK, LockTypeOK

LEMMA IntentTurnType ==
  ASSUME Typed, NEW a \in Actor,
         NEW rows \in SUBSET [server : Server, container : ContainerId], IntentTurn(a, rows)
  PROVE Typed'
<1> DEFINE free == {r \in rows : r.server \notin busy}
           pickable == {r \in free : rec[r.server].container = r.container}
<1>1. IntentTypeOK'
  BY BoundAssumption DEF Typed, IntentTurn, IntentTypeOK, ContainerId
<1>2. op' \in [Actor -> Operation]
  BY DEF Typed, IntentTurn, ActorTypeOK, Operation
<1>3. pickable \in SUBSET rows
  OBVIOUS
<1> HIDE DEF pickable
<1>4. CASE Take(a, rows, pickable, "rc_inspect")
  <2>1. UNCHANGED <<obs, preparing>> /\ "rc_inspect" \in Owned
    BY DEF IntentTurn, Owned
  <2>2. ActorTypeOK' /\ LockTypeOK'
    BY <1>2, <1>3, <1>4, <2>1, TakeType DEF Typed
  <2>3. QED BY <1>1, <2>2, Kept DEF Typed, IntentTurn
<1>5. CASE /\ Go(a, "rc_listeners")
           /\ todo' = [todo EXCEPT ![a] = {}]
           /\ UNCHANGED <<busy, at, snap>>
  <2>1. pc' \in [Actor -> Owned \cup Unowned] /\ \A b \in Actor : pc'[b] \notin Homeless => at'[b] \in Server
    BY <1>5 DEF Typed, ActorTypeOK, Go, Unowned, Homeless
  <2>2. todo' \in [Actor -> SUBSET [server : Server, container : ContainerId]]
    BY <1>5 DEF Typed, ActorTypeOK
  <2>3. ActorTypeOK'
    BY <1>2, <1>5, <2>1, <2>2 DEF Typed, ActorTypeOK, IntentTurn
  <2>4. LockTypeOK'
    BY <1>5 DEF Typed, LockTypeOK, IntentTurn
  <2>5. QED BY <1>1, <2>3, <2>4, Kept DEF Typed, IntentTurn
<1>6. QED BY <1>4, <1>5 DEF IntentTurn, pickable

LEMMA RecordTurnType ==
  ASSUME Typed, NEW a \in Actor,
         NEW rows \in SUBSET [server : Server, container : ContainerId], RecordTurn(a, rows)
  PROVE Typed'
<1> DEFINE pickable == {r \in rows : r.server \notin busy /\ NeedsListen(r.server)}
<1>1. pickable \in SUBSET rows
  OBVIOUS
<1> HIDE DEF pickable
<1>2. CASE Take(a, rows, pickable, "rc_listen") /\ UNCHANGED <<op, obs>>
  <2>1. UNCHANGED preparing /\ "rc_listen" \in Owned /\ op' \in [Actor -> Operation]
    BY <1>2 DEF RecordTurn, Owned, Typed, ActorTypeOK
  <2>2. ActorTypeOK' /\ LockTypeOK'
    BY <1>1, <1>2, <2>1, TakeType DEF Typed
  <2>3. QED BY <2>2, Kept DEF Typed, RecordTurn
<1>3. CASE Forget(a) /\ UNCHANGED busy
  <2>1. LockTypeOK' BY <1>3 DEF Typed, LockTypeOK, RecordTurn
  <2>2. QED BY <1>3, <2>1, Kept, ForgetType DEF Typed, RecordTurn
<1>4. QED BY <1>2, <1>3 DEF RecordTurn, pickable

LEMMA ReconcileType ==
  ASSUME Typed, NEW a \in Actor, ReconcileNext(a)
  PROVE Typed'
<1> USE DEF Typed
<1>1. CASE ReconcileBegin(a)
  <2>1. {Row(s, intent[s]) : s \in {x \in Server : intent[x] # 0}}
          \in SUBSET [server : Server, container : ContainerId]
    BY DEF IntentTypeOK, Row
  <2>2. QED BY <1>1, <2>1, IntentTurnType DEF ReconcileBegin
<1>2. CASE IntentNext(a)
  <2>1. todo[a] \in SUBSET [server : Server, container : ContainerId] BY DEF ActorTypeOK
  <2>2. QED BY <1>2, <2>1, IntentTurnType DEF IntentNext
<1>3. CASE IntentInspect(a)
  <2>1. at[a] \in Server BY <1>3, AtServer DEF IntentInspect, Homeless
  <2>2. CASE Go(a, "rc_exit") /\ UNCHANGED <<memVars, actorVars>>
    BY <1>3, <2>1, <2>2, Kept, GoType DEF IntentInspect, Homed, Owned
  <2>3. CASE EndTurn(a, "rc_intents")
    BY <1>3, <2>3, Kept, EndTurnType DEF IntentInspect
  <2>4. QED BY <1>3, <2>2, <2>3 DEF IntentInspect
<1>4. CASE IntentExit(a)
  <2>1. at[a] \in Server BY <1>4, AtServer DEF IntentExit, Homeless
  <2>2. [rec[at[a]] EXCEPT !.status = "stopped", !.hibernated = TRUE] \in Record
    BY <2>1 DEF RowTypeOK, Record, Status
  <2>3. IntentTypeOK'
    BY <1>4, <2>1, BoundAssumption DEF IntentExit, IntentTypeOK, ContainerId
  <2>4. RowTypeOK' BY <1>4, <2>1, <2>2, Kept, WriteType DEF IntentExit
  <2>5. ActorTypeOK' /\ LockTypeOK'
    BY <1>4, <2>1, Kept, GoType, EndTurnType DEF IntentExit, Homed, Owned
  <2>6. QED BY <1>4, <2>3, <2>4, <2>5, Kept DEF IntentExit
<1>5. CASE IntentAbort(a)
  <2>1. LockTypeOK' BY <1>5 DEF IntentAbort, LockTypeOK
  <2>2. QED BY <1>5, <2>1, Kept, ForgetType DEF IntentAbort
<1>6. CASE IntentRestored(a)
  <2>1. at[a] \in Server BY <1>6, AtServer DEF IntentRestored, Homeless
  <2>2. IntentTypeOK' BY <1>6, <2>1, BoundAssumption DEF IntentRestored, IntentTypeOK, ContainerId
  <2>3. QED BY <1>6, <2>1, <2>2, Kept, ListenType, EndTurnType DEF IntentRestored
<1>7. CASE ListRecords(a)
  <2>1. {Row(s, 0) : s \in {x \in Server : rec[x].hibernated /\ rec[x].status = "stopped"}}
          \in SUBSET [server : Server, container : ContainerId]
    BY BoundAssumption DEF Row, ContainerId
  <2>2. QED BY <1>7, <2>1, RecordTurnType DEF ListRecords
<1>8. CASE PortClosed(a)
  <2>1. at[a] \in Server BY <1>8, AtServer DEF PortClosed, Homeless
  <2>2. QED BY <1>8, <2>1, Kept, ClosePortType, EndTurnType DEF PortClosed
<1>9. CASE RecordNext(a)
  <2>1. todo[a] \in SUBSET [server : Server, container : ContainerId] BY DEF ActorTypeOK
  <2>2. QED BY <1>9, <2>1, RecordTurnType DEF RecordNext
<1>10. CASE RecordListen(a)
  <2>1. at[a] \in Server BY <1>10, AtServer DEF RecordListen, Homeless
  <2>2. QED BY <1>10, <2>1, Kept, ListenType, EndTurnType DEF RecordListen
<1>11. ASSUME NEW s \in Server, ListenerTurn(a, s) PROVE Typed'
  <2>1. ActorTypeOK' /\ busy' \subseteq Server
    BY <1>11, AcquireType DEF ListenerTurn, Operation, Owned
  <2>2. LockTypeOK' BY <1>11, <2>1 DEF ListenerTurn, LockTypeOK
  <2>3. QED BY <1>11, <2>1, <2>2, Kept, ReleasePortType DEF ListenerTurn
<1>12. QED
  BY <1>1, <1>2, <1>3, <1>4, <1>5, <1>6, <1>7, <1>8, <1>9, <1>10, <1>11 DEF ReconcileNext

LEMMA RefreshType ==
  ASSUME Typed, NEW a \in Actor
  PROVE /\ RefreshApply(a) => Typed'
        /\ \A s \in Server : RefreshBegin(a, s) => Typed'
<1> USE DEF Typed
<1>1. ASSUME RefreshApply(a) PROVE Typed'
  <2>1. at[a] \in Server BY <1>1, AtServer DEF RefreshApply, Homeless
  <2> DEFINE r == Settled([rec[at[a]] EXCEPT !.status = obs[a],
                             !.hibernated = rec[at[a]].hibernated /\ ~Awake(a)])
  <2>2. r \in Record
    BY <2>1 DEF RowTypeOK, ActorTypeOK, Record, Settled, LastError
  <2>3. rec' = [rec EXCEPT ![at[a]] = r] \/ rec' = rec
    BY <1>1 DEF RefreshApply
  <2> HIDE DEF r
  <2>4. rec' \in [Server -> Record] BY <2>2, <2>3 DEF RowTypeOK
  <2>5. stale' \subseteq Refresher BY <1>1 DEF RefreshApply, RowTypeOK, Refreshing
  <2>6. Forget(a) /\ UNCHANGED <<intent, memVars, listener, empty, dockVars>>
    BY <1>1 DEF RefreshApply
  <2>7. QED BY <2>4, <2>5, <2>6, Kept, ForgetType DEF RowTypeOK
<1>2. ASSUME NEW s \in Server, RefreshBegin(a, s) PROVE Typed'
  <2>1. pc' \in [Actor -> Owned \cup Unowned] /\ \A b \in Actor : pc'[b] \notin Homeless => at'[b] \in Server
    BY <1>2 DEF RefreshBegin, ActorTypeOK, Go, Unowned
  <2>2. op' \in [Actor -> Operation] /\ at' \in [Actor -> Server \cup {NoServer}]
    BY <1>2 DEF RefreshBegin, ActorTypeOK, Operation
  <2>3. Inspect(rec[s].status, ctr[s]) \subseteq Status
    BY DEF RowTypeOK, DockTypeOK, Record, Inspect, Status, ContainerState, Running, Down
  <2>4. obs' \in [Actor -> Status]
    BY <1>2, <2>3 DEF RefreshBegin, ActorTypeOK
  <2>5. ActorTypeOK'
    BY <1>2, <2>1, <2>2, <2>4 DEF RefreshBegin, ActorTypeOK
  <2>6. QED BY <1>2, <2>5, Kept DEF RefreshBegin
<1>3. QED BY <1>1, <1>2

LEMMA ReadType ==
  ASSUME Typed, NEW a \in Actor
  PROVE /\ ReadInspect(a) => Typed'
        /\ ReadApply(a) => Typed'
        /\ \A s \in Server : ReadBegin(a, s) => Typed'
<1> USE DEF Typed
<1>1. ASSUME ReadInspect(a) PROVE Typed'
  <2>1. at[a] \in Server BY <1>1, AtServer DEF ReadInspect, Homeless
  <2>2. Inspect(snap[a].status, ctr[at[a]]) \subseteq Status
    BY <2>1 DEF ActorTypeOK, DockTypeOK, Record, Inspect, Status, ContainerState, Running, Down
  <2>3. obs' \in [Actor -> Status]
    BY <1>1, <2>2 DEF ReadInspect, ActorTypeOK
  <2>4. pc' \in [Actor -> Owned \cup Unowned] /\ \A b \in Actor : pc'[b] \notin Homeless => at'[b] \in Server
    BY <1>1, <2>1 DEF ReadInspect, ActorTypeOK, Go, Unowned
  <2>5. ActorTypeOK'
    BY <1>1, <2>3, <2>4 DEF ReadInspect, ActorTypeOK
  <2>6. QED BY <1>1, <2>5, Kept DEF ReadInspect
<1>2. ASSUME ReadApply(a) PROVE Typed'
  <2>1. at[a] \in Server /\ obs[a] \in Status BY <1>2, AtServer DEF ReadApply, Homeless, ActorTypeOK
  <2>2. QED BY <1>2, <2>1, Kept, SetStatusType, ForgetType DEF ReadApply
<1>3. ASSUME NEW s \in Server, ReadBegin(a, s) PROVE Typed'
  <2>1. pc' \in [Actor -> Owned \cup Unowned] /\ \A b \in Actor : pc'[b] \notin Homeless => at'[b] \in Server
    BY <1>3 DEF ReadBegin, ActorTypeOK, Go, Unowned
  <2>2. op' \in [Actor -> Operation] /\ at' \in [Actor -> Server \cup {NoServer}]
        /\ snap' \in [Actor -> Record]
    BY <1>3 DEF ReadBegin, ActorTypeOK, RowTypeOK, Operation
  <2>3. ActorTypeOK'
    BY <1>3, <2>1, <2>2 DEF ReadBegin, ActorTypeOK
  <2>4. QED BY <1>3, <2>3, Kept DEF ReadBegin
<1>4. QED BY <1>1, <1>2, <1>3

LEMMA StopContainerType ==
  ASSUME DockTypeOK, NEW s \in Server, StopContainer(s)
  PROVE DockTypeOK'
BY SetContainerType, Kept DEF StopContainer, ContainerState, Down

LEMMA StartStepType ==
  ASSUME Typed, NEW a \in Actor, StartStep(a)
  PROVE Typed'
<1> USE DEF Typed
<1>0. at[a] \in Server
  BY AtServer DEF StartStep, StartChecked, DepsChecked, StartRelease, StartClose, StartDocker,
    StartDone, StartFail, RestoreListen, Homeless
<1>1. CASE StartChecked(a)
  BY <1>0, <1>1, Kept, MarkType, GoType DEF StartChecked, Status, LastError, Homed, Owned
<1>2. CASE DepsChecked(a)
  <2>1. CASE Go(a, "start_release") /\ UNCHANGED <<rowVars, dockVars>>
    BY <1>0, <1>2, <2>1, Kept, GoType DEF DepsChecked, Homed, Owned
  <2>2. CASE /\ rec[at[a]].container < MaxContainer
             /\ Recreate(at[a])
             /\ Write(at[a], [rec[at[a]] EXCEPT !.container = rec[at[a]].container + 1])
             /\ Go(a, "start_release")
    <3>1. [rec[at[a]] EXCEPT !.container = rec[at[a]].container + 1] \in Record
      BY <1>0, <2>2, BoundAssumption DEF RowTypeOK, Record, ContainerId
    <3>2. RowTypeOK' /\ DockTypeOK'
      BY <1>0, <2>2, <3>1, WriteType, SetContainerType DEF Recreate, ContainerState, Down
    <3>3. QED BY <1>0, <1>2, <2>2, <3>2, Kept, GoType DEF DepsChecked, Homed, Owned
  <2>3. CASE SetContainer(at[a], "absent") /\ Go(a, "start_lost") /\ UNCHANGED rowVars
    BY <1>0, <1>2, <2>3, Kept, GoType, SetContainerType DEF DepsChecked, Homed, Owned, ContainerState
  <2>4. QED BY <1>2, <2>1, <2>2, <2>3 DEF DepsChecked
<1>3. CASE StartRelease(a)
  BY <1>0, <1>3, Kept, ReleasePortType, GoType DEF StartRelease, Homed, Owned
<1>4. CASE StartClose(a)
  BY <1>0, <1>4, Kept, ClosePortType, GoType DEF StartClose, Homed, Owned
<1>5. CASE StartDocker(a)
  BY <1>0, <1>5, Kept, StartContainerType, GoType DEF StartDocker, Homed, Owned
<1>6. CASE StartDone(a)
  <2>1. PICK st \in {"restarting", "starting"} :
          Write(at[a], [rec[at[a]] EXCEPT !.status = st, !.hibernated = FALSE, !.error = "none"])
    BY <1>6 DEF StartDone
  <2>2. [rec[at[a]] EXCEPT !.status = st, !.hibernated = FALSE, !.error = "none"] \in Record
    BY <1>0 DEF RowTypeOK, Record, Status, LastError
  <2>3. QED BY <1>0, <1>6, <2>1, <2>2, Kept, WriteType, ReleaseType DEF StartDone
<1>7. CASE StartFail(a)
  <2>1. CASE RestoreSleep(a, "restore_listen", "other")
    BY <1>0, <1>7, <2>1, Kept, RestoreSleepType DEF StartFail, Homed, Owned, LastError
  <2>2. CASE Mark(at[a], "error", "other") /\ Release(a)
    BY <1>0, <1>7, <2>2, Kept, MarkType, ReleaseType DEF StartFail, Status, LastError
  <2>3. QED BY <1>7, <2>1, <2>2 DEF StartFail
<1>8. QED BY <1>1, <1>2, <1>3, <1>4, <1>5, <1>6, <1>7, RestoreListenType DEF StartStep

LEMMA StopStepType ==
  ASSUME Typed, NEW a \in Actor, StopStep(a)
  PROVE Typed'
<1> USE DEF Typed
<1>0. at[a] \in Server
  BY AtServer DEF StopStep, StopRelease, StopClose, StopMark, StopRcon, StopWait, StopDocker,
    StopDone, RestartChecked, RestartStop, Homeless
<1>1. CASE StopRelease(a)
  BY <1>0, <1>1, Kept, ReleasePortType, GoType DEF StopRelease, Homed, Owned
<1>2. CASE StopClose(a)
  BY <1>0, <1>2, Kept, ClosePortType, GoType DEF StopClose, Homed, Owned
<1>3. CASE StopMark(a)
  BY <1>0, <1>3, Kept, SetStatusType, GoType DEF StopMark, Status, Homed, Owned
<1>4. CASE StopRcon(a)
  <2>1. DockTypeOK'
    BY <1>0, <1>4, Kept, SetContainerType DEF StopRcon, ContainerState, Running
  <2>2. ActorTypeOK'
    BY <1>0, <1>4, GoType DEF StopRcon, Homed, Owned
  <2>3. QED BY <1>4, <2>1, <2>2, Kept DEF StopRcon
<1>5. CASE StopWait(a)
  BY <1>0, <1>5, Kept, GoType DEF StopWait, Homed, Owned
<1>6. CASE StopDocker(a)
  BY <1>0, <1>6, Kept, StopContainerType, GoType DEF StopDocker, Homed, Owned
<1>7. CASE StopDone(a)
  <2>1. [rec[at[a]] EXCEPT !.status = "stopped", !.hibernated = FALSE] \in Record
    BY <1>0 DEF RowTypeOK, Record, Status
  <2>2. QED BY <1>0, <1>7, <2>1, Kept, WriteType, ReleaseType DEF StopDone
<1>8. CASE RestartChecked(a)
  BY <1>0, <1>8, Kept, MarkType, GoType DEF RestartChecked, Status, LastError, Homed, Owned
<1>9. CASE RestartStop(a)
  BY <1>0, <1>9, Kept, StopContainerType, GoType DEF RestartStop, Homed, Owned
<1>10. QED BY <1>1, <1>2, <1>3, <1>4, <1>5, <1>6, <1>7, <1>8, <1>9 DEF StopStep

LEMMA BuildStepType ==
  ASSUME Typed, NEW a \in Actor, BuildStep(a)
  PROVE Typed'
<1> USE DEF Typed
<1>0. at[a] \in Server
  BY AtServer DEF BuildStep, PrepareChecked, PrepareBuild, PrepareDone, RemoveRelease,
    RemoveClose, RemoveDocker, RemoveDone, Homeless
<1>1. CASE PrepareChecked(a)
  BY <1>0, <1>1, Kept, MarkType, GoType DEF PrepareChecked, Status, LastError, Homed, Owned
<1>2. CASE PrepareBuild(a)
  <2>1. DockTypeOK'
    BY <1>0, <1>2, SetContainerType DEF PrepareBuild, Recreate, ContainerState, Down
  <2>2. ActorTypeOK'
    BY <1>0, <1>2, GoType DEF PrepareBuild, Homed, Owned
  <2>3. QED BY <1>2, <2>1, <2>2, Kept DEF PrepareBuild
<1>3. CASE PrepareDone(a)
  <2>1. [rec[at[a]] EXCEPT !.status = "stopped", !.error = "none",
            !.container = rec[at[a]].container + 1] \in Record
    <3>1. rec[at[a]] \in Record BY <1>0 DEF RowTypeOK
    <3>2. rec[at[a]].container + 1 \in ContainerId
      BY <1>3, <3>1, BoundAssumption DEF PrepareDone, Record, ContainerId
    <3>3. QED BY <3>1, <3>2 DEF Record, Status, LastError
  <2>2. QED BY <1>0, <1>3, <2>1, Kept, WriteType, ReleaseType DEF PrepareDone
<1>4. CASE RemoveRelease(a)
  BY <1>0, <1>4, Kept, ReleasePortType, GoType DEF RemoveRelease, Homed, Owned
<1>5. CASE RemoveClose(a)
  BY <1>0, <1>5, Kept, ClosePortType, GoType DEF RemoveClose, Homed, Owned
<1>6. CASE RemoveDocker(a)
  BY <1>0, <1>6, Kept, SetContainerType, GoType DEF RemoveDocker, ContainerState, Homed, Owned
<1>7. CASE RemoveDone(a)
  <2>1. [rec[at[a]] EXCEPT !.status = "stopped", !.container = 0] \in Record
    <3>1. rec[at[a]] \in Record BY <1>0 DEF RowTypeOK
    <3>2. 0 \in ContainerId BY BoundAssumption DEF ContainerId
    <3>3. QED BY <3>1, <3>2 DEF Record, Status
  <2>2. QED BY <1>0, <1>7, <2>1, Kept, WriteType, ReleaseType DEF RemoveDone
<1>8. QED BY <1>1, <1>2, <1>3, <1>4, <1>5, <1>6, <1>7 DEF BuildStep

LEMMA ClientType ==
  ASSUME Typed, NEW a \in Actor
  PROVE /\ ClientStep(a) => Typed'
        /\ \A s \in Server : Begin(a, s) => Typed'
<1> USE DEF Typed
<1>1. ASSUME Refuse(a) PROVE Typed'
  BY <1>1, Kept, ReleaseType DEF Refuse
<1>2. ASSUME Fail(a) PROVE Typed'
  <2>1. at[a] \in Server BY <1>2, AtServer DEF Fail, Homeless
  <2>2. RowTypeOK' BY <1>2, <2>1, SetStatusType, MarkType DEF Fail, Status, LastError
  <2>3. QED BY <1>2, <2>2, Kept, ReleaseType DEF Fail
<1>3. ASSUME NEW s \in Server, NEW o \in Operation, NEW label \in Owned,
             LifecycleBegin(a, o, s, label)
      PROVE Typed'
  <2>1. ActorTypeOK' /\ busy' \subseteq Server
    BY <1>3, AcquireType DEF LifecycleBegin
  <2>2. LockTypeOK' BY <1>3, <2>1 DEF LifecycleBegin, LockTypeOK
  <2>3. QED BY <1>3, <2>1, <2>2, Kept DEF LifecycleBegin
<1>4. ASSUME NEW s \in Server, Begin(a, s) PROVE Typed'
  BY <1>3, <1>4 DEF Begin, Operation, Owned
<1>5. QED
  BY <1>1, <1>2, <1>4, StartStepType, StopStepType, BuildStepType DEF ClientStep

LEMMA EnvironmentType ==
  ASSUME Typed, Environment
  PROVE Typed'
<1>1. PICK s \in Server :
        \/ Boot(s) \/ Exit(s) \/ Die(s) \/ StopInGame(s)
        \/ StartOutside(s) \/ StopOutside(s) \/ Join(s) \/ Leave(s)
  BY DEF Environment
<1>2. CASE \E c \in ContainerState : SetContainer(s, c)
  <2>1. DockTypeOK' BY <1>2, SetContainerType DEF Typed
  <2>2. QED BY <2>1, Kept DEF Typed, Environment
<1>3. CASE Join(s) \/ Leave(s)
  <2>1. DockTypeOK' BY <1>3 DEF Typed, DockTypeOK, Join, Leave
  <2>2. QED BY <2>1, Kept DEF Typed, Environment
<1>4. ASSUME ~(Join(s) \/ Leave(s)) PROVE \E c \in ContainerState : SetContainer(s, c)
  BY <1>1, <1>4 DEF Boot, Exit, Die, StopInGame, StartOutside, StopOutside, ContainerState, Running, Down
<1>5. QED BY <1>2, <1>3, <1>4

LEMMA CrashType ==
  ASSUME Typed, Crash
  PROVE Typed'
<1>1. LockTypeOK' /\ ListenerTypeOK' /\ EmptyTypeOK' /\ DockTypeOK' /\ IntentTypeOK'
  BY BoundAssumption DEF Typed, Crash, LockTypeOK, ListenerTypeOK, ListenerState, EmptyTypeOK,
    DockTypeOK, dockVars, IntentTypeOK
<1>2. RowTypeOK'
  BY DEF Typed, Crash, RowTypeOK
<1>3. pc' \in [Actor -> Owned \cup Unowned] /\ \A a \in Actor : pc'[a] \notin Homeless => at'[a] \in Server
  BY DEF Crash, Unowned, Homeless
<1>4. op' \in [Actor -> Operation] /\ at' \in [Actor -> Server \cup {NoServer}] /\ obs' \in [Actor -> Status]
  BY DEF Crash, Operation, Status
<1>5. snap' \in [Actor -> Record] /\ todo' \in [Actor -> SUBSET [server : Server, container : ContainerId]]
  BY NoRecordType DEF Crash
<1>6. QED BY <1>1, <1>2, <1>3, <1>4, <1>5 DEF Typed, ActorTypeOK

LEMMA InitType == Init => TypeOK
<1> SUFFICES ASSUME Init PROVE TypeOK
  OBVIOUS
<1>1. PICK kind \in [Server -> Kind] :
        /\ rec = [s \in Server |-> [status |-> StatusOf[kind[s]],
                                   hibernated |-> kind[s] = "asleep", container |-> 1,
                                   error |-> IF kind[s] = "leaving" THEN "other" ELSE "none"]]
        /\ intent = [s \in Server |-> IF kind[s] = "leaving" THEN 1 ELSE 0]
        /\ ctr = [s \in Server |-> CtrOf[kind[s]]]
  BY DEF Init
<1>2. \A k \in Kind : StatusOf[k] \in Status /\ CtrOf[k] \in ContainerState
  BY DEF Kind, StatusOf, CtrOf, Status, ContainerState, Running, Down
<1>3. 0 \in ContainerId /\ 1 \in ContainerId
  BY BoundAssumption DEF ContainerId
<1>4. \A s \in Server : rec[s] \in Record
  BY <1>1, <1>2, <1>3 DEF Record, LastError
<1>5. RowTypeOK
  BY <1>1, <1>4 DEF RowTypeOK, Init
<1>6. IntentTypeOK /\ DockTypeOK
  BY <1>1, <1>2, <1>3 DEF IntentTypeOK, DockTypeOK, Init
<1>7. LockTypeOK /\ ListenerTypeOK /\ EmptyTypeOK
  BY BoundAssumption DEF Init, LockTypeOK, ListenerTypeOK, ListenerState, EmptyTypeOK
<1>8. ActorTypeOK
  BY NoRecordType DEF Init, ActorTypeOK, Unowned, Homeless, Operation, Status
<1>9. crashes \in 0..MaxCrash
  BY EnvironmentAssumption DEF Init
<1>10. QED BY <1>5, <1>6, <1>7, <1>8, <1>9 DEF TypeOK

LEMMA WorkType ==
  ASSUME Typed, Work
  PROVE Typed'
<1>1. CASE RefreshNext
  BY <1>1, RefreshType DEF RefreshNext, Actor
<1>2. CASE ReadNext
  BY <1>2, ReadType DEF ReadNext, Actor
<1>3. CASE SleepNext
  BY <1>3, SleepStepType, EvaluateType, NotRunningType, PressureType
    DEF SleepNext, Actor, Sleeper
<1>4. CASE WakeNext
  BY <1>4, WakeStepType, WakeBeginType DEF WakeNext, Actor
<1>5. CASE ClientNext
  BY <1>5, ClientType DEF ClientNext, Actor
<1>6. CASE \E a \in Reconciler : ReconcileNext(a)
  BY <1>6, ReconcileType DEF Actor
<1>7. QED BY <1>1, <1>2, <1>3, <1>4, <1>5, <1>6 DEF Work

\* Every variable keeps to its type, whatever number of servers, requests,
\* timers and connections there is: the type invariant is inductive by itself.
THEOREM TypeCorrect == Spec => []TypeOK
<1>1. TypeOK /\ [Next]_panelVars => TypeOK'
  <2> SUFFICES ASSUME TypeOK, [Next]_panelVars PROVE TypeOK'
    OBVIOUS
  <2>1. Typed BY DEF TypeOK, Typed
  <2>2. CASE Work
    BY <2>1, <2>2, WorkType DEF TypeOK, Typed, Work
  <2>3. CASE Environment
    BY <2>1, <2>3, EnvironmentType DEF TypeOK, Typed, Environment
  <2>4. CASE Crash
    <3>1. crashes' \in 0..MaxCrash BY <2>4, EnvironmentAssumption DEF TypeOK, Crash
    <3>2. QED BY <2>1, <2>4, <3>1, CrashType DEF TypeOK, Typed
  <2>5. CASE UNCHANGED panelVars
    BY <2>1, <2>5, Kept DEF TypeOK, Typed, panelVars, vars, rowVars, memVars, dockVars, actorVars
  <2>6. QED BY <2>2, <2>3, <2>4, <2>5 DEF Next
<1>2. QED BY <1>1, InitType, PTL DEF Spec

-----------------------------------------------------------------------------
(* Ownership: how a step moves its actor.                                  *)

Others(a) == \A b \in Actor \ {a} : pc'[b] = pc[b] /\ at'[b] = at[b]

Stays(a)  == pc[a] \in Owned /\ pc'[a] \in Owned /\ at'[a] = at[a] /\ busy' = busy
Enters(a) == /\ pc[a] \notin Owned /\ pc'[a] \in Owned
             /\ at'[a] \in Server \ busy /\ busy' = busy \cup {at'[a]}
Leaves(a) == pc[a] \in Owned /\ pc'[a] \notin Owned /\ busy' = busy \ {at[a]}
Roams(a)  == pc[a] \notin Owned /\ pc'[a] \notin Owned /\ busy' = busy

Shape(a) == Others(a) /\ (Stays(a) \/ Enters(a) \/ Leaves(a) \/ Roams(a))

LEMMA ShapeKeepsOwners ==
  ASSUME OneOwner, NEW a \in Actor, Shape(a), pc[a] \in Owned => at[a] \in Server
  PROVE  OneOwner'
<1>1. \A b \in Actor : b # a => \A s \in Server : Owns(b, s)' <=> Owns(b, s)
  BY DEF Shape, Others, Owns
<1>2. CASE Stays(a)
  BY <1>1, <1>2 DEF Stays, OneOwner, Owns
<1>3. CASE Enters(a)
  BY <1>1, <1>3 DEF Enters, OneOwner, Owns
<1>4. CASE Leaves(a)
  BY <1>1, <1>4 DEF Leaves, OneOwner, Owns
<1>5. CASE Roams(a)
  BY <1>1, <1>5 DEF Roams, OneOwner, Owns
<1>6. QED
  BY <1>2, <1>3, <1>4, <1>5 DEF Shape

-----------------------------------------------------------------------------
(* The shape of the common moves.                                          *)

LEMMA GoShape ==
  ASSUME ActorTypeOK, NEW a \in Actor, pc[a] \in Owned, NEW label \in Owned,
         Go(a, label), UNCHANGED <<memVars, actorVars>>
  PROVE  Shape(a)
BY DEF ActorTypeOK, Go, memVars, actorVars, Shape, Others, Stays

LEMMA AcquireShape ==
  ASSUME ActorTypeOK, NEW a \in Actor, pc[a] \notin Owned, NEW o, NEW s \in Server,
         NEW label \in Owned, Acquire(a, o, s, label)
  PROVE  Shape(a)
BY DEF ActorTypeOK, Acquire, Go, Shape, Others, Enters

LEMMA ReleaseShape ==
  ASSUME ActorTypeOK, NEW a \in Actor, pc[a] \in Owned, Release(a)
  PROVE  Shape(a)
BY DEF ActorTypeOK, Release, Forget, Go, Shape, Others, Leaves, Owned

LEMMA ForgetShape ==
  ASSUME ActorTypeOK, NEW a \in Actor, pc[a] \notin Owned, Forget(a), UNCHANGED busy
  PROVE  Shape(a)
BY DEF ActorTypeOK, Forget, Go, Shape, Others, Roams, Owned

LEMMA EndTurnShape ==
  ASSUME ActorTypeOK, NEW a \in Actor, pc[a] \in Owned,
         NEW label \in {"rc_intents", "rc_listeners", "rc_records"}, EndTurn(a, label)
  PROVE  Shape(a)
BY DEF ActorTypeOK, EndTurn, Go, Shape, Others, Leaves, Owned

LEMMA RestoreSleepShape ==
  ASSUME ActorTypeOK, NEW a \in Actor, pc[a] \in Owned, NEW label \in Owned, NEW e,
         RestoreSleep(a, label, e)
  PROVE  Shape(a)
BY GoShape, ReleaseShape DEF RestoreSleep

LEMMA TakeShape ==
  ASSUME ActorTypeOK, NEW a \in Actor, pc[a] \notin Owned, NEW label \in Owned,
         NEW rows \in SUBSET [server : Server, container : ContainerId],
         NEW pickable \in SUBSET rows, \A r \in pickable : r.server \notin busy,
         Take(a, rows, pickable, label)
  PROVE  Shape(a)
<1>1. PICK row \in pickable :
        busy' = busy \cup {row.server} /\ at' = [at EXCEPT ![a] = row.server] /\ Go(a, label)
  BY DEF Take
<1>2. row.server \in Server \ busy
  OBVIOUS
<1>3. QED
  BY <1>1, <1>2 DEF ActorTypeOK, Go, Shape, Others, Enters

-----------------------------------------------------------------------------
(* The shape of every step.                                                *)

LEMMA RefreshShape ==
  ASSUME ActorTypeOK, NEW a \in Actor
  PROVE  /\ RefreshApply(a) => Shape(a)
         /\ \A s \in Server : RefreshBegin(a, s) => Shape(a)
<1>1. ASSUME RefreshApply(a) PROVE Shape(a)
  BY <1>1, ForgetShape DEF RefreshApply, memVars, Owned
<1>2. ASSUME NEW s \in Server, RefreshBegin(a, s) PROVE Shape(a)
  BY <1>2 DEF RefreshBegin, ActorTypeOK, Shape, Others, Roams, Go, Owned, memVars
<1>3. QED
  BY <1>1, <1>2

LEMMA ReadShape ==
  ASSUME ActorTypeOK, NEW a \in Actor
  PROVE  /\ ReadInspect(a) => Shape(a)
         /\ ReadApply(a) => Shape(a)
         /\ \A s \in Server : ReadBegin(a, s) => Shape(a)
<1>1. ASSUME ReadInspect(a) PROVE Shape(a)
  BY <1>1 DEF ReadInspect, ActorTypeOK, Shape, Others, Roams, Go, Owned, memVars
<1>2. ASSUME ReadApply(a) PROVE Shape(a)
  BY <1>2, ForgetShape DEF ReadApply, memVars, Owned
<1>3. ASSUME NEW s \in Server, ReadBegin(a, s) PROVE Shape(a)
  BY <1>3 DEF ReadBegin, ActorTypeOK, Shape, Others, Roams, Go, Owned, memVars
<1>4. QED
  BY <1>1, <1>2, <1>3

LEMMA SleepShape ==
  ASSUME ActorTypeOK, NEW a \in Actor, SleepStep(a)
  PROVE  Shape(a)
<1>1. CASE SleepFail(a)
  BY <1>1, ReleaseShape DEF SleepFail, Owned
<1>2. CASE SleepCount(a)
  BY <1>2, ReleaseShape, GoShape DEF SleepCount, Owned
<1>3. CASE SleepSave(a)
  BY <1>3, GoShape DEF SleepSave, CommitOrReassess, CommitSleep, Owned, memVars
<1>4. CASE SleepRecheck(a)
  BY <1>4, GoShape DEF SleepRecheck, CommitOrReassess, CommitSleep, Owned, memVars
<1>5. CASE SleepReassessed(a)
  BY <1>5, GoShape DEF SleepReassessed, CommitSleep, Owned, memVars
<1>6. CASE SleepStop(a)
  BY <1>6, GoShape DEF SleepStop, Owned, memVars
<1>7. CASE SleepExited(a)
  BY <1>7, RestoreSleepShape DEF SleepExited, Owned
<1>8. CASE SleepArmed(a)
  BY <1>8, ReleaseShape DEF SleepArmed, Owned
<1>9. QED
  BY <1>1, <1>2, <1>3, <1>4, <1>5, <1>6, <1>7, <1>8 DEF SleepStep

LEMMA EvaluateShape ==
  ASSUME ActorTypeOK, NEW a \in Actor, EvaluateNext(a)
  PROVE  Shape(a)
<1>1. CASE EvaluateOccupied(a)
  BY <1>1, ForgetShape DEF EvaluateOccupied, memVars, Owned
<1>2. CASE EvaluateEmpty(a)
  <2>1. at[a] \in Server /\ pc[a] \notin Owned
    BY <1>2, AtServer DEF EvaluateEmpty, Homeless, Owned
  <2>2. CASE SleepBegin(a, "idle", at[a])
    <3>1. Acquire(a, "idle", at[a], "sl_count")
      BY <2>2 DEF SleepBegin
    <3>2. QED
      BY <2>1, <3>1, AcquireShape DEF Owned
  <2>3. CASE Forget(a) /\ UNCHANGED memVars
    BY <2>1, <2>3, ForgetShape DEF memVars
  <2>4. QED
    BY <1>2, <2>2, <2>3 DEF EvaluateEmpty
<1>3. ASSUME NEW s \in Server, EvaluateBegin(a, s) PROVE Shape(a)
  BY <1>3 DEF EvaluateBegin, ActorTypeOK, Shape, Others, Roams, Go, Owned, memVars
<1>4. QED
  BY <1>1, <1>2, <1>3 DEF EvaluateNext

LEMMA BeginShape ==
  ASSUME ActorTypeOK, NEW a \in Actor, NEW s \in Server
  PROVE  /\ \A o \in {"empty", "occupied"} : PressureSleep(a, o, s) => Shape(a)
         /\ WakeBegin(a, s) => Shape(a)
         /\ ListenerTurn(a, s) => Shape(a)
         /\ Begin(a, s) => Shape(a)
<1>1. ASSUME NEW o \in {"empty", "occupied"}, PressureSleep(a, o, s) PROVE Shape(a)
  BY <1>1, AcquireShape DEF PressureSleep, SleepBegin, Owned
<1>2. ASSUME WakeBegin(a, s) PROVE Shape(a)
  BY <1>2, AcquireShape DEF WakeBegin, Owned
<1>3. ASSUME ListenerTurn(a, s) PROVE Shape(a)
  BY <1>3, AcquireShape DEF ListenerTurn, Owned
<1>4. ASSUME Begin(a, s) PROVE Shape(a)
  BY <1>4, AcquireShape DEF Begin, LifecycleBegin, Owned
<1>5. QED
  BY <1>1, <1>2, <1>3, <1>4

LEMMA RestoreListenShape ==
  ASSUME ActorTypeOK, NEW a \in Actor, RestoreListen(a)
  PROVE  Shape(a)
BY ReleaseShape DEF RestoreListen, Owned

LEMMA WakeShape ==
  ASSUME ActorTypeOK, NEW a \in Actor, WakeStep(a)
  PROVE  Shape(a)
<1>1. CASE WakeClose(a) \/ WakeMark(a) \/ WakeDocker(a)
  BY <1>1, GoShape DEF WakeClose, WakeMark, WakeDocker, Owned, memVars
<1>2. CASE WakeDone(a)
  BY <1>2, ReleaseShape DEF WakeDone, Owned
<1>3. CASE WakeFail(a)
  BY <1>3, RestoreSleepShape DEF WakeFail, Owned
<1>4. QED
  BY <1>1, <1>2, <1>3, RestoreListenShape DEF WakeStep

LEMMA IntentTurnShape ==
  ASSUME ActorTypeOK, NEW a \in Actor, pc[a] \notin Owned,
         NEW rows \in SUBSET [server : Server, container : ContainerId], IntentTurn(a, rows)
  PROVE  Shape(a)
<1> DEFINE free == {r \in rows : r.server \notin busy}
           pickable == {r \in free : rec[r.server].container = r.container}
<1>1. pickable \in SUBSET rows /\ \A r \in pickable : r.server \notin busy
  OBVIOUS
<1> HIDE DEF pickable
<1>2. CASE Take(a, rows, pickable, "rc_inspect")
  BY <1>1, <1>2, TakeShape DEF Owned
<1>3. CASE Go(a, "rc_listeners") /\ UNCHANGED <<busy, at, snap>>
  BY <1>3 DEF ActorTypeOK, Go, Shape, Others, Roams, Owned
<1>4. QED
  BY <1>2, <1>3 DEF IntentTurn, pickable

LEMMA RecordTurnShape ==
  ASSUME ActorTypeOK, NEW a \in Actor, pc[a] \notin Owned,
         NEW rows \in SUBSET [server : Server, container : ContainerId], RecordTurn(a, rows)
  PROVE  Shape(a)
<1> DEFINE pickable == {r \in rows : r.server \notin busy /\ NeedsListen(r.server)}
<1>1. pickable \in SUBSET rows /\ \A r \in pickable : r.server \notin busy
  OBVIOUS
<1> HIDE DEF pickable
<1>2. CASE Take(a, rows, pickable, "rc_listen")
  BY <1>1, <1>2, TakeShape DEF Owned
<1>3. CASE Forget(a) /\ UNCHANGED busy
  BY <1>3, ForgetShape
<1>4. QED
  BY <1>2, <1>3 DEF RecordTurn, pickable

LEMMA ReconcileShape ==
  ASSUME Typed, NEW a \in Actor, ReconcileNext(a)
  PROVE  Shape(a)
<1> USE DEF Typed
<1>1. CASE ReconcileBegin(a)
  <2>1. {Row(s, intent[s]) : s \in {x \in Server : intent[x] # 0}}
          \in SUBSET [server : Server, container : ContainerId]
    BY DEF IntentTypeOK, Row
  <2>2. QED
    BY <1>1, <2>1, IntentTurnShape DEF ReconcileBegin, Owned
<1>2. CASE IntentNext(a) \/ RecordNext(a)
  <2>1. todo[a] \in SUBSET [server : Server, container : ContainerId]
    BY DEF ActorTypeOK
  <2>2. QED
    BY <1>2, <2>1, IntentTurnShape, RecordTurnShape DEF IntentNext, RecordNext, Owned
<1>3. CASE IntentInspect(a)
  BY <1>3, GoShape, EndTurnShape DEF IntentInspect, Owned
<1>4. CASE IntentExit(a)
  BY <1>4, GoShape, EndTurnShape DEF IntentExit, Owned
<1>5. CASE IntentAbort(a)
  BY <1>5 DEF IntentAbort, Forget, Go, ActorTypeOK, Shape, Others, Leaves, Owned
<1>6. CASE IntentRestored(a) \/ PortClosed(a) \/ RecordListen(a)
  BY <1>6, EndTurnShape DEF IntentRestored, PortClosed, RecordListen, Owned
<1>7. CASE ListRecords(a)
  <2>1. {Row(s, 0) : s \in {x \in Server : rec[x].hibernated /\ rec[x].status = "stopped"}}
          \in SUBSET [server : Server, container : ContainerId]
    BY BoundAssumption DEF Row, ContainerId
  <2>2. QED
    BY <1>7, <2>1, RecordTurnShape DEF ListRecords, Owned
<1>8. ASSUME NEW s \in Server, ListenerTurn(a, s) PROVE Shape(a)
  BY <1>8, BeginShape
<1>9. QED
  BY <1>1, <1>2, <1>3, <1>4, <1>5, <1>6, <1>7, <1>8 DEF ReconcileNext

LEMMA ClientShape ==
  ASSUME ActorTypeOK, NEW a \in Actor, ClientStep(a)
  PROVE  Shape(a)
<1>1. CASE Refuse(a) \/ Fail(a) \/ StartDone(a) \/ StopDone(a) \/ PrepareDone(a) \/ RemoveDone(a)
  BY <1>1, ReleaseShape DEF Refuse, Fail, StartDone, StopDone, PrepareDone, RemoveDone, Owned
<1>2. CASE StartChecked(a) \/ DepsChecked(a) \/ StartRelease(a) \/ StartClose(a) \/ StartDocker(a)
  BY <1>2, GoShape DEF StartChecked, DepsChecked, StartRelease, StartClose, StartDocker,
    Owned, memVars
<1>3. CASE StartFail(a)
  BY <1>3, RestoreSleepShape, ReleaseShape DEF StartFail, Owned
<1>4. CASE \/ StopRelease(a) \/ StopClose(a) \/ StopMark(a) \/ StopRcon(a) \/ StopWait(a)
           \/ StopDocker(a) \/ RestartChecked(a) \/ RestartStop(a)
  BY <1>4, GoShape DEF StopRelease, StopClose, StopMark, StopRcon, StopWait, StopDocker,
    RestartChecked, RestartStop, Owned, memVars
<1>5. CASE \/ PrepareChecked(a) \/ PrepareBuild(a) \/ RemoveRelease(a) \/ RemoveClose(a)
           \/ RemoveDocker(a)
  BY <1>5, GoShape DEF PrepareChecked, PrepareBuild, RemoveRelease, RemoveClose,
    RemoveDocker, Owned, memVars
<1>6. QED
  BY <1>1, <1>2, <1>3, <1>4, <1>5, RestoreListenShape
    DEF ClientStep, StartStep, StopStep, BuildStep

\* The world outside, and the bookkeeping of idle clocks, moves no actor.
LEMMA UnmovedKeepsOwners ==
  ASSUME OneOwner, UNCHANGED <<pc, at, busy>>
  PROVE  OneOwner'
BY DEF OneOwner, Owns

LEMMA WorkShape ==
  ASSUME Typed, Work
  PROVE  (\E a \in Actor : Shape(a)) \/ UNCHANGED <<pc, at, busy>>
<1> USE DEF Typed
<1>1. CASE RefreshNext
  BY <1>1, RefreshShape DEF RefreshNext, Actor
<1>2. CASE ReadNext
  BY <1>2, ReadShape DEF ReadNext, Actor
<1>3. CASE SleepNext
  <2>1. ASSUME NEW s \in Server, EvaluateNotRunning(s) PROVE UNCHANGED <<pc, at, busy>>
    BY <2>1 DEF EvaluateNotRunning, memVars, actorVars
  <2>2. QED
    BY <1>3, <2>1, SleepShape, EvaluateShape, BeginShape DEF SleepNext, Actor, Sleeper
<1>4. CASE WakeNext
  BY <1>4, WakeShape, BeginShape DEF WakeNext, Actor
<1>5. CASE ClientNext
  BY <1>5, ClientShape, BeginShape DEF ClientNext, Actor
<1>6. CASE \E a \in Reconciler : ReconcileNext(a)
  BY <1>6, ReconcileShape DEF Actor
<1>7. QED
  BY <1>1, <1>2, <1>3, <1>4, <1>5, <1>6 DEF Work

-----------------------------------------------------------------------------
LEMMA InitOwners == Init => OneOwner
BY DEF Init, OneOwner, Owns, Owned

LEMMA NextOwners == TypeOK /\ OneOwner /\ [Next]_panelVars => OneOwner'
<1> SUFFICES ASSUME TypeOK, OneOwner, [Next]_panelVars PROVE OneOwner'
  OBVIOUS
<1>1. Typed
  BY DEF TypeOK, Typed
<1>2. CASE Work
  <2>1. ASSUME NEW a \in Actor, Shape(a) PROVE OneOwner'
    <3>1. pc[a] \in Owned => at[a] \in Server
      BY <1>1, AtServer DEF Typed, Owned, Homeless
    <3>2. QED
      BY <2>1, <3>1, ShapeKeepsOwners
  <2>2. QED
    BY <1>1, <1>2, <2>1, WorkShape, UnmovedKeepsOwners
<1>3. CASE Environment
  BY <1>3, UnmovedKeepsOwners DEF Environment, memVars, actorVars
<1>4. CASE Crash
  BY <1>4 DEF Crash, OneOwner, Owns, Owned
<1>5. CASE UNCHANGED panelVars
  BY <1>5, UnmovedKeepsOwners DEF panelVars, vars
<1>6. QED
  BY <1>2, <1>3, <1>4, <1>5 DEF Next

\* No two operations ever own the same server, and a server is marked busy
\* exactly while an operation owns it: for every number of servers, requests,
\* timers and player connections, and over crashes of the backend.
THEOREM OwnersExclusive == Spec => []OneOwner
<1>1. QED
  BY InitOwners, NextOwners, TypeCorrect, PTL DEF Spec

-----------------------------------------------------------------------------
(* What a step of a leaves alone.                                          *)

\* The other actors' awaits and locals.
OthersStay(a) == \A b \in Actor \ {a} :
  /\ pc'[b] = pc[b] /\ at'[b] = at[b] /\ op'[b] = op[b]
  /\ snap'[b] = snap[b] /\ obs'[b] = obs[b] /\ todo'[b] = todo[b]

\* An owner does not stay at the same await.
Moves(a) == pc[a] \in Owned => pc'[a] # pc[a]

\* The container and the players of a server it does not own.
DockLeft(a) == \A s \in Server :
  \/ Owns(a, s)
  \/ ctr'[s] = ctr[s] /\ (s \in players' <=> s \in players) /\ (s \in unseen' <=> s \in unseen)

\* The port of a server it owns neither before nor after.
PortLeft(a) == \A s \in Server : listener'[s] = listener[s] \/ Owns(a, s) \/ Owns(a, s)'

\* The intent of a server somebody else owns; one nobody owns may lose its intent.
IntentLeft(a) == \A s \in Server :
  intent'[s] = intent[s] \/ Owns(a, s) \/ (s \notin busy /\ intent'[s] = 0)

\* The row of a server it does not own, but for a reading: a refresh writes rows
\* nobody owns, and the status route any row.  Neither puts a server to sleep.
RowLeft(a) == \A s \in Server :
  \/ rec'[s] = rec[s] \/ Owns(a, s)
  \/ /\ rec'[s].container = rec[s].container
     /\ \/ a \in Refresher /\ s \notin busy /\ (rec'[s].hibernated => rec[s].hibernated)
        \/ a \in Reader /\ rec'[s].hibernated = rec[s].hibernated

\* Whoever refreshes a row that is written learns of it.
StaleLeft(a) == \A b \in Refresher \ {a} :
  (b \in stale => b \in stale') /\ (at[b] \in Server /\ rec'[at[b]] # rec[at[b]] => b \in stale')

RowsLeft(a) == RowLeft(a) /\ StaleLeft(a)

Alone(a) ==
  /\ OthersStay(a) /\ Moves(a)
  /\ DockLeft(a) /\ PortLeft(a) /\ IntentLeft(a) /\ RowsLeft(a)

-----------------------------------------------------------------------------
(* The helpers of PanelState and Hibernation.                              *)

\* What an action leaves unchanged as a whole.
LEMMA LeftUnchanged ==
  ASSUME NEW a \in Actor
  PROVE  /\ UNCHANGED rowVars => RowsLeft(a)
         /\ UNCHANGED dockVars => DockLeft(a)
         /\ UNCHANGED intent => IntentLeft(a)
         /\ UNCHANGED listener => PortLeft(a)
BY DEF rowVars, dockVars, RowsLeft, RowLeft, StaleLeft, DockLeft, IntentLeft, PortLeft

LEMMA GoLeaves ==
  ASSUME ActorTypeOK, NEW a \in Actor, NEW label, label # pc[a], Go(a, label), UNCHANGED actorVars
  PROVE  OthersStay(a) /\ Moves(a) /\ pc'[a] = label
BY DEF ActorTypeOK, Go, actorVars, OthersStay, Moves

LEMMA ForgetLeaves ==
  ASSUME ActorTypeOK, NEW a \in Actor, Forget(a)
  PROVE  OthersStay(a) /\ Moves(a) /\ pc'[a] = "idle"
BY DEF ActorTypeOK, Forget, Go, OthersStay, Moves, Owned

LEMMA ReleaseLeaves ==
  ASSUME ActorTypeOK, NEW a \in Actor, Release(a)
  PROVE  OthersStay(a) /\ Moves(a) /\ pc'[a] = "idle"
BY ForgetLeaves DEF Release

LEMMA EndTurnLeaves ==
  ASSUME ActorTypeOK, NEW a \in Actor,
         NEW label \in {"rc_intents", "rc_listeners", "rc_records"}, EndTurn(a, label)
  PROVE  OthersStay(a) /\ Moves(a) /\ pc'[a] = label
BY DEF ActorTypeOK, EndTurn, Go, OthersStay, Moves, Owned

LEMMA AcquireLeaves ==
  ASSUME ActorTypeOK, NEW a \in Actor, pc[a] \notin Owned, NEW o, NEW s \in Server,
         NEW label \in Owned, Acquire(a, o, s, label)
  PROVE  /\ OthersStay(a) /\ Moves(a)
         /\ pc'[a] = label /\ at'[a] = s /\ Owns(a, s)' /\ s \notin busy
BY DEF ActorTypeOK, Acquire, Go, OthersStay, Moves, Owns

LEMMA WriteLeaves ==
  ASSUME Typed, NEW a \in Actor, at[a] \in Server, pc[a] \in Owned, NEW r, Write(at[a], r)
  PROVE  RowsLeft(a)
BY DEF Typed, RowTypeOK, Write, Refreshing, RowsLeft, RowLeft, StaleLeft, Owns

LEMMA MarksLeave ==
  ASSUME Typed, NEW a \in Actor, at[a] \in Server, pc[a] \in Owned
  PROVE  /\ \A st \in Status, e \in LastError : Mark(at[a], st, e) => RowsLeft(a)
         /\ \A st \in Status : SetStatus(at[a], st) => RowsLeft(a)
         /\ \A e \in LastError : SetError(at[a], e) => RowsLeft(a)
BY WriteLeaves DEF Mark, SetStatus, SetError

LEMMA SetContainerLeaves ==
  ASSUME Typed, NEW a \in Actor, at[a] \in Server, pc[a] \in Owned, NEW c, SetContainer(at[a], c)
  PROVE  DockLeft(a)
BY DEF Typed, DockTypeOK, SetContainer, DockLeft, Owns

LEMMA StartContainerLeaves ==
  ASSUME Typed, NEW a \in Actor, at[a] \in Server, pc[a] \in Owned
  PROVE  /\ StartContainer(at[a]) => DockLeft(a)
         /\ StopContainer(at[a]) => DockLeft(a)
BY SetContainerLeaves, LeftUnchanged DEF StartContainer, StopContainer

LEMMA ReleasePortLeaves ==
  ASSUME Typed, NEW a \in Actor, NEW s \in Server, ReleasePort(s),
         Owns(a, s) \/ (s \notin busy /\ Owns(a, s)')
  PROVE  IntentLeft(a) /\ PortLeft(a)
BY DEF Typed, IntentTypeOK, ListenerTypeOK, ReleasePort, IntentLeft, PortLeft

LEMMA ClosePortLeaves ==
  ASSUME Typed, NEW a \in Actor, at[a] \in Server, pc[a] \in Owned, ClosePort(at[a])
  PROVE  PortLeft(a)
BY DEF Typed, ListenerTypeOK, ClosePort, PortLeft, Owns

LEMMA ListenLeaves ==
  ASSUME Typed, NEW a \in Actor, at[a] \in Server, pc[a] \in Owned, Listen(at[a])
  PROVE  PortLeft(a) /\ RowsLeft(a)
<1>1. PortLeft(a)
  BY DEF Typed, ListenerTypeOK, Listen, PortLeft, Owns
<1>2. RowsLeft(a)
  BY LeftUnchanged, MarksLeave DEF Listen, LastError
<1>3. QED
  BY <1>1, <1>2

LEMMA ForgetIntentLeaves ==
  ASSUME Typed, NEW a \in Actor, at[a] \in Server, pc[a] \in Owned, NEW c,
         intent' = [intent EXCEPT ![at[a]] = c]
  PROVE  IntentLeft(a)
BY DEF Typed, IntentTypeOK, IntentLeft, Owns

LEMMA RestoreSleepLeaves ==
  ASSUME Typed, NEW a \in Actor, at[a] \in Server, pc[a] \in Owned, NEW label, label # pc[a],
         NEW e, RestoreSleep(a, label, e)
  PROVE  OthersStay(a) /\ Moves(a) /\ RowsLeft(a)
<1>1. RowsLeft(a)
  BY WriteLeaves DEF RestoreSleep
<1>2. OthersStay(a) /\ Moves(a)
  BY GoLeaves, ReleaseLeaves DEF RestoreSleep, Typed
<1>3. QED
  BY <1>1, <1>2

LEMMA TakeLeaves ==
  ASSUME ActorTypeOK, NEW a \in Actor, pc[a] \notin Owned, NEW label \in Owned, NEW rows,
         NEW pickable, Take(a, rows, pickable, label),
         \A b \in Actor \ {a} : op'[b] = op[b] /\ obs'[b] = obs[b]
  PROVE  OthersStay(a) /\ Moves(a)
BY DEF ActorTypeOK, Take, Go, OthersStay, Moves

-----------------------------------------------------------------------------
(* Every step of an actor.                                                 *)

LEMMA SleepAlone ==
  ASSUME Typed, NEW a \in Actor, SleepStep(a)
  PROVE  Alone(a)
<1> USE DEF Typed
<1>0. at[a] \in Server /\ pc[a] \in Owned
  BY AtServer DEF SleepStep, SleepFail, SleepCount, SleepSave, SleepRecheck, SleepReassessed,
    SleepStop, SleepExited, SleepArmed, Homeless, Owned
<1>1. CASE SleepFail(a)
  BY <1>0, <1>1, LeftUnchanged, MarksLeave, ReleaseLeaves DEF SleepFail, Alone, LastError
<1>2. CASE SleepCount(a)
  BY <1>0, <1>2, LeftUnchanged, GoLeaves, ReleaseLeaves DEF SleepCount, Alone
<1>3. CASE SleepSave(a) \/ SleepRecheck(a) \/ SleepReassessed(a)
  <2>1. OthersStay(a) /\ Moves(a)
    BY <1>3, GoLeaves
      DEF SleepSave, SleepRecheck, SleepReassessed, CommitOrReassess, CommitSleep
  <2>2. RowsLeft(a) /\ IntentLeft(a)
    BY <1>0, <1>3, LeftUnchanged, MarksLeave, ForgetIntentLeaves
      DEF SleepSave, SleepRecheck, SleepReassessed, CommitOrReassess, CommitSleep, Status, LastError
  <2>3. PortLeft(a) /\ DockLeft(a)
    BY <1>0, <1>3, LeftUnchanged DEF SleepSave, SleepRecheck, SleepReassessed, DockLeft, Owns
  <2>4. QED
    BY <2>1, <2>2, <2>3 DEF Alone
<1>4. CASE SleepStop(a)
  BY <1>0, <1>4, LeftUnchanged, SetContainerLeaves, GoLeaves DEF SleepStop, Alone
<1>5. CASE SleepExited(a)
  <2>1. IntentLeft(a)
    BY <1>0, <1>5, LeftUnchanged, ForgetIntentLeaves DEF SleepExited
  <2>2. QED
    BY <1>0, <1>5, <2>1, LeftUnchanged, RestoreSleepLeaves DEF SleepExited, Alone
<1>6. CASE SleepArmed(a)
  BY <1>0, <1>6, LeftUnchanged, ListenLeaves, ForgetIntentLeaves, ReleaseLeaves DEF SleepArmed, Alone
<1>7. QED
  BY <1>1, <1>2, <1>3, <1>4, <1>5, <1>6 DEF SleepStep

LEMMA EvaluateAlone ==
  ASSUME Typed, NEW a \in Actor, EvaluateNext(a)
  PROVE  Alone(a)
<1> USE DEF Typed
<1>1. CASE EvaluateOccupied(a)
  BY <1>1, LeftUnchanged, ForgetLeaves DEF EvaluateOccupied, Alone
<1>2. CASE EvaluateEmpty(a)
  <2>1. at[a] \in Server /\ pc[a] \notin Owned
    BY <1>2, AtServer DEF EvaluateEmpty, Homeless, Owned
  <2>2. OthersStay(a) /\ Moves(a)
    BY <1>2, <2>1, AcquireLeaves, ForgetLeaves DEF EvaluateEmpty, SleepBegin, Owned
  <2>3. QED
    BY <1>2, <2>2, LeftUnchanged DEF EvaluateEmpty, Alone
<1>3. ASSUME NEW s \in Server, EvaluateBegin(a, s) PROVE Alone(a)
  BY <1>3, LeftUnchanged DEF EvaluateBegin, ActorTypeOK, Go, Alone, OthersStay, Moves, Owned
<1>4. QED
  BY <1>1, <1>2, <1>3 DEF EvaluateNext

\* The steps that take a server.
LEMMA BeginAlone ==
  ASSUME Typed, NEW a \in Actor, NEW s \in Server
  PROVE  /\ \A o \in {"empty", "occupied"} : PressureSleep(a, o, s) => Alone(a)
         /\ WakeBegin(a, s) => Alone(a)
         /\ ListenerTurn(a, s) => Alone(a)
         /\ Begin(a, s) => Alone(a)
<1> USE DEF Typed
<1>1. ASSUME NEW o \in {"empty", "occupied"}, PressureSleep(a, o, s) PROVE Alone(a)
  BY <1>1, LeftUnchanged, AcquireLeaves DEF PressureSleep, SleepBegin, Owned, Alone
<1>2. ASSUME WakeBegin(a, s) PROVE Alone(a)
  <2>1. OthersStay(a) /\ Moves(a) /\ Owns(a, s)' /\ s \notin busy
    BY <1>2, AcquireLeaves DEF WakeBegin, Owned
  <2>2. QED
    BY <1>2, <2>1, LeftUnchanged, ReleasePortLeaves DEF WakeBegin, Alone
<1>3. ASSUME ListenerTurn(a, s) PROVE Alone(a)
  <2>1. OthersStay(a) /\ Moves(a) /\ Owns(a, s)' /\ s \notin busy
    BY <1>3, AcquireLeaves DEF ListenerTurn, Owned
  <2>2. QED
    BY <1>3, <2>1, LeftUnchanged, ReleasePortLeaves DEF ListenerTurn, Alone
<1>4. ASSUME Begin(a, s) PROVE Alone(a)
  BY <1>4, LeftUnchanged, AcquireLeaves DEF Begin, LifecycleBegin, Owned, Alone
<1>5. QED
  BY <1>1, <1>2, <1>3, <1>4

LEMMA RestoreListenAlone ==
  ASSUME Typed, NEW a \in Actor, RestoreListen(a)
  PROVE  Alone(a)
<1>1. at[a] \in Server /\ pc[a] \in Owned
  BY AtServer DEF Typed, RestoreListen, Homeless, Owned
<1>2. QED
  BY <1>1, LeftUnchanged, ListenLeaves, ReleaseLeaves DEF Typed, RestoreListen, Alone

LEMMA WakeAlone ==
  ASSUME Typed, NEW a \in Actor, WakeStep(a)
  PROVE  Alone(a)
<1> USE DEF Typed
<1>0. at[a] \in Server /\ pc[a] \in Owned
  BY AtServer DEF WakeStep, WakeClose, WakeMark, WakeDocker, WakeDone, WakeFail, RestoreListen,
    Homeless, Owned
<1>1. CASE WakeClose(a)
  BY <1>0, <1>1, LeftUnchanged, ClosePortLeaves, GoLeaves DEF WakeClose, Alone
<1>2. CASE WakeMark(a)
  BY <1>0, <1>2, LeftUnchanged, WriteLeaves, GoLeaves DEF WakeMark, Alone
<1>3. CASE WakeDocker(a)
  BY <1>0, <1>3, LeftUnchanged, StartContainerLeaves, GoLeaves DEF WakeDocker, Alone
<1>4. CASE WakeDone(a)
  BY <1>0, <1>4, LeftUnchanged, MarksLeave, ReleaseLeaves DEF WakeDone, Alone, Status, LastError
<1>5. CASE WakeFail(a)
  BY <1>0, <1>5, LeftUnchanged, RestoreSleepLeaves DEF WakeFail, Alone
<1>6. QED
  BY <1>1, <1>2, <1>3, <1>4, <1>5, RestoreListenAlone DEF WakeStep

LEMMA RefreshAlone ==
  ASSUME Typed, NEW a \in Refresher
  PROVE  /\ RefreshApply(a) => Alone(a)
         /\ \A s \in Server : RefreshBegin(a, s) => Alone(a)
<1> USE DEF Typed, Actor
<1>1. ASSUME RefreshApply(a) PROVE Alone(a)
  <2>1. at[a] \in Server
    BY <1>1, AtServer DEF RefreshApply, Homeless
  <2>2. RowLeft(a)
    BY <1>1, <2>1 DEF RefreshApply, RowTypeOK, Record, Outdated, Settled, RowLeft
  <2>3. StaleLeft(a)
    BY <1>1, <2>1 DEF RefreshApply, RowTypeOK, Refreshing, StaleLeft
  <2>4. QED
    BY <1>1, <2>2, <2>3, LeftUnchanged, ForgetLeaves DEF RefreshApply, RowsLeft, Alone
<1>2. ASSUME NEW s \in Server, RefreshBegin(a, s) PROVE Alone(a)
  BY <1>2, LeftUnchanged DEF RefreshBegin, ActorTypeOK, Go, Alone, OthersStay, Moves, Owned
<1>3. QED
  BY <1>1, <1>2

LEMMA ReadAlone ==
  ASSUME Typed, NEW a \in Reader
  PROVE  /\ ReadInspect(a) => Alone(a)
         /\ ReadApply(a) => Alone(a)
         /\ \A s \in Server : ReadBegin(a, s) => Alone(a)
<1> USE DEF Typed, Actor
<1>1. ASSUME ReadInspect(a) PROVE Alone(a)
  BY <1>1, LeftUnchanged DEF ReadInspect, ActorTypeOK, Go, Alone, OthersStay, Moves, Owned
<1>2. ASSUME ReadApply(a) PROVE Alone(a)
  <2>1. at[a] \in Server
    BY <1>2, AtServer DEF ReadApply, Homeless
  <2>2. RowsLeft(a)
    BY <1>2, <2>1 DEF ReadApply, SetStatus, Write, Settled, RowTypeOK, Record, Refreshing,
      RowsLeft, RowLeft, StaleLeft
  <2>3. QED
    BY <1>2, <2>2, LeftUnchanged, ForgetLeaves DEF ReadApply, Alone
<1>3. ASSUME NEW s \in Server, ReadBegin(a, s) PROVE Alone(a)
  BY <1>3, LeftUnchanged DEF ReadBegin, ActorTypeOK, Go, Alone, OthersStay, Moves, Owned
<1>4. QED
  BY <1>1, <1>2, <1>3

LEMMA IntentTurnAlone ==
  ASSUME Typed, NEW a \in Actor, pc[a] \notin Owned, pc[a] # "rc_listeners",
         NEW rows \in SUBSET [server : Server, container : ContainerId], IntentTurn(a, rows)
  PROVE  Alone(a)
<1> USE DEF Typed
<1> DEFINE free == {r \in rows : r.server \notin busy}
           pickable == {r \in free : rec[r.server].container = r.container}
           dropped == {r \in free \ pickable : \A p \in pickable : r.server < p.server}
<1>1. OthersStay(a) /\ Moves(a)
  <2>1. CASE Take(a, rows, pickable, "rc_inspect")
    <3> HIDE DEF pickable
    <3>1. \A b \in Actor \ {a} : op'[b] = op[b] /\ obs'[b] = obs[b]
      BY DEF IntentTurn, ActorTypeOK
    <3>2. QED
      BY <2>1, <3>1, TakeLeaves DEF Owned
  <2>2. CASE /\ Go(a, "rc_listeners") /\ todo' = [todo EXCEPT ![a] = {}]
             /\ UNCHANGED <<busy, at, snap>>
    BY <2>2 DEF IntentTurn, ActorTypeOK, Go, OthersStay, Moves
  <2>3. QED
    BY <2>1, <2>2 DEF IntentTurn
<1>2. IntentLeft(a)
  <2>1. intent' = [s \in Server |-> IF \E r \in dropped : r.server = s THEN 0 ELSE intent[s]]
    BY DEF IntentTurn
  <2>2. \A r \in dropped : r.server \notin busy
    OBVIOUS
  <2>3. QED
    BY <2>1, <2>2 DEF IntentLeft, IntentTypeOK
<1>3. UNCHANGED <<rowVars, listener, dockVars>>
  BY DEF IntentTurn
<1>4. QED
  BY <1>1, <1>2, <1>3, LeftUnchanged DEF Alone

LEMMA RecordTurnAlone ==
  ASSUME Typed, NEW a \in Actor, pc[a] \notin Owned,
         NEW rows \in SUBSET [server : Server, container : ContainerId], RecordTurn(a, rows)
  PROVE  Alone(a)
<1> USE DEF Typed
<1> DEFINE pickable == {r \in rows : r.server \notin busy /\ NeedsListen(r.server)}
<1>1. OthersStay(a) /\ Moves(a)
  <2>1. CASE Take(a, rows, pickable, "rc_listen") /\ UNCHANGED <<op, obs>>
    BY <2>1, TakeLeaves DEF Owned
  <2>2. CASE Forget(a)
    BY <2>2, ForgetLeaves
  <2>3. QED
    BY <2>1, <2>2 DEF RecordTurn
<1>2. UNCHANGED <<rowVars, intent, listener, dockVars>>
  BY DEF RecordTurn
<1>3. QED
  BY <1>1, <1>2, LeftUnchanged DEF Alone

LEMMA ReconcileAlone ==
  ASSUME Typed, NEW a \in Actor, ReconcileNext(a)
  PROVE  Alone(a)
<1> USE DEF Typed
<1>1. CASE ReconcileBegin(a)
  <2>1. {Row(s, intent[s]) : s \in {x \in Server : intent[x] # 0}}
          \in SUBSET [server : Server, container : ContainerId]
    BY DEF IntentTypeOK, Row
  <2>2. QED
    BY <1>1, <2>1, IntentTurnAlone DEF ReconcileBegin, Owned
<1>2. CASE IntentNext(a) \/ RecordNext(a)
  <2>1. todo[a] \in SUBSET [server : Server, container : ContainerId]
    BY DEF ActorTypeOK
  <2>2. QED
    BY <1>2, <2>1, IntentTurnAlone, RecordTurnAlone DEF IntentNext, RecordNext, Owned
<1>3. CASE IntentInspect(a)
  BY <1>3, LeftUnchanged, GoLeaves, EndTurnLeaves DEF IntentInspect, Alone
<1>4. CASE IntentExit(a)
  <2>0. at[a] \in Server /\ pc[a] \in Owned
    BY <1>4, AtServer DEF IntentExit, Homeless, Owned
  <2>1. OthersStay(a) /\ Moves(a)
    BY <1>4, GoLeaves, EndTurnLeaves DEF IntentExit
  <2>2. RowsLeft(a)
    BY <1>4, <2>0, LeftUnchanged, WriteLeaves DEF IntentExit
  <2>3. IntentLeft(a)
    BY <1>4, <2>0, LeftUnchanged, ForgetIntentLeaves DEF IntentExit
  <2>4. QED
    BY <1>4, <2>1, <2>2, <2>3, LeftUnchanged DEF IntentExit, Alone
<1>5. CASE IntentAbort(a)
  BY <1>5, LeftUnchanged, ForgetLeaves DEF IntentAbort, Alone
<1>6. CASE IntentRestored(a) \/ PortClosed(a) \/ RecordListen(a)
  <2>0. at[a] \in Server /\ pc[a] \in Owned
    BY <1>6, AtServer DEF IntentRestored, PortClosed, RecordListen, Homeless, Owned
  <2>1. OthersStay(a) /\ Moves(a)
    BY <1>6, EndTurnLeaves DEF IntentRestored, PortClosed, RecordListen
  <2>2. QED
    BY <1>6, <2>0, <2>1, LeftUnchanged, ListenLeaves, ClosePortLeaves, ForgetIntentLeaves
      DEF IntentRestored, PortClosed, RecordListen, Alone
<1>7. CASE ListRecords(a)
  <2>1. {Row(s, 0) : s \in {x \in Server : rec[x].hibernated /\ rec[x].status = "stopped"}}
          \in SUBSET [server : Server, container : ContainerId]
    BY BoundAssumption DEF Row, ContainerId
  <2>2. QED
    BY <1>7, <2>1, RecordTurnAlone DEF ListRecords, Owned
<1>8. ASSUME NEW s \in Server, ListenerTurn(a, s) PROVE Alone(a)
  BY <1>8, BeginAlone
<1>9. QED
  BY <1>1, <1>2, <1>3, <1>4, <1>5, <1>6, <1>7, <1>8 DEF ReconcileNext

LEMMA ClientAlone ==
  ASSUME Typed, NEW a \in Actor, ClientStep(a)
  PROVE  Alone(a)
<1> USE DEF Typed
<1>0. at[a] \in Server /\ pc[a] \in Owned
  BY AtServer DEF ClientStep, StartStep, StopStep, BuildStep, Refuse, Fail, StartChecked, DepsChecked,
    StartRelease, StartClose, StartDocker, StartDone, StartFail, StopRelease, StopClose, StopMark,
    StopRcon, StopWait, StopDocker, StopDone, RestartChecked, RestartStop, PrepareChecked,
    PrepareBuild, PrepareDone, RemoveRelease, RemoveClose, RemoveDocker, RemoveDone, RestoreListen,
    Homeless, Owned
<1>1. CASE Refuse(a) \/ Fail(a)
  BY <1>0, <1>1, LeftUnchanged, ReleaseLeaves, MarksLeave DEF Refuse, Fail, Alone, Status, LastError
<1>2. CASE StartDone(a) \/ StopDone(a) \/ PrepareDone(a) \/ RemoveDone(a)
  BY <1>0, <1>2, LeftUnchanged, ReleaseLeaves, WriteLeaves
    DEF StartDone, StopDone, PrepareDone, RemoveDone, Alone
<1>3. CASE StartChecked(a) \/ RestartChecked(a) \/ PrepareChecked(a) \/ StopMark(a)
  BY <1>0, <1>3, LeftUnchanged, GoLeaves, MarksLeave
    DEF StartChecked, RestartChecked, PrepareChecked, StopMark, Alone, Status, LastError
<1>4. CASE DepsChecked(a)
  <2>1. OthersStay(a) /\ Moves(a)
    BY <1>4, GoLeaves DEF DepsChecked
  <2>2. DockLeft(a)
    BY <1>0, <1>4, LeftUnchanged, SetContainerLeaves DEF DepsChecked, Recreate
  <2>3. RowsLeft(a)
    BY <1>0, <1>4, LeftUnchanged, WriteLeaves DEF DepsChecked
  <2>4. QED
    BY <1>4, <2>1, <2>2, <2>3, LeftUnchanged DEF DepsChecked, Alone
<1>5. CASE StartRelease(a) \/ StopRelease(a) \/ RemoveRelease(a)
  <2>1. OthersStay(a) /\ Moves(a)
    BY <1>5, GoLeaves DEF StartRelease, StopRelease, RemoveRelease
  <2>2. IntentLeft(a) /\ PortLeft(a)
    BY <1>0, <1>5, ReleasePortLeaves DEF StartRelease, StopRelease, RemoveRelease, Owns
  <2>3. QED
    BY <1>5, <2>1, <2>2, LeftUnchanged DEF StartRelease, StopRelease, RemoveRelease, Alone
<1>6. CASE StartClose(a) \/ StopClose(a) \/ RemoveClose(a)
  BY <1>0, <1>6, LeftUnchanged, GoLeaves, ClosePortLeaves DEF StartClose, StopClose, RemoveClose, Alone
<1>7. CASE StartDocker(a) \/ StopDocker(a) \/ RestartStop(a)
  BY <1>0, <1>7, LeftUnchanged, GoLeaves, StartContainerLeaves
    DEF StartDocker, StopDocker, RestartStop, Alone
<1>8. CASE StopRcon(a) \/ StopWait(a)
  <2>1. OthersStay(a) /\ Moves(a)
    BY <1>8, GoLeaves DEF StopRcon, StopWait
  <2>2. DockLeft(a)
    BY <1>0, <1>8, LeftUnchanged, SetContainerLeaves DEF StopRcon, StopWait
  <2>3. QED
    BY <1>8, <2>1, <2>2, LeftUnchanged DEF StopRcon, StopWait, Alone
<1>9. CASE PrepareBuild(a) \/ RemoveDocker(a)
  <2>1. OthersStay(a) /\ Moves(a)
    BY <1>9, GoLeaves DEF PrepareBuild, RemoveDocker
  <2>2. DockLeft(a)
    BY <1>0, <1>9, SetContainerLeaves DEF PrepareBuild, RemoveDocker, Recreate
  <2>3. QED
    BY <1>9, <2>1, <2>2, LeftUnchanged DEF PrepareBuild, RemoveDocker, Alone
<1>10. CASE StartFail(a)
  <2>1. CASE RestoreSleep(a, "restore_listen", "other")
    BY <1>0, <1>10, <2>1, LeftUnchanged, RestoreSleepLeaves DEF StartFail, Alone
  <2>2. CASE Mark(at[a], "error", "other") /\ Release(a)
    BY <1>0, <1>10, <2>2, LeftUnchanged, MarksLeave, ReleaseLeaves
      DEF StartFail, Alone, Status, LastError
  <2>3. QED
    BY <1>10, <2>1, <2>2 DEF StartFail
<1>11. QED
  BY <1>1, <1>2, <1>3, <1>4, <1>5, <1>6, <1>7, <1>8, <1>9, <1>10, RestoreListenAlone
    DEF ClientStep, StartStep, StopStep, BuildStep

\* The step of an actor, by what it does: one of an operation that owns its
\* server, one that takes a server, or one of a reading or a look round.
ActorStep(a) ==
  \/ a \in Refresher /\ (RefreshApply(a) \/ \E s \in Server : RefreshBegin(a, s))
  \/ a \in Reader /\ (ReadInspect(a) \/ ReadApply(a) \/ \E s \in Server : ReadBegin(a, s))
  \/ a \in Sleeper /\ SleepStep(a)
  \/ a \in Idler /\ EvaluateNext(a)
  \/ a \in Presser /\ \E s \in Server, o \in {"empty", "occupied"} : PressureSleep(a, o, s)
  \/ a \in Joiner /\ (WakeStep(a) \/ \E s \in Server : WakeBegin(a, s))
  \/ a \in Client /\ (ClientStep(a) \/ \E s \in Server : Begin(a, s))
  \/ a \in Reconciler /\ ReconcileNext(a)

\* Nothing that is promised here depends on the idle clocks.
ClockStep == UNCHANGED <<rowVars, intent, memVars, listener, dockVars, pc, actorVars>>

LEMMA WorkSteps ==
  ASSUME Work
  PROVE  (\E a \in Actor : ActorStep(a)) \/ ClockStep
<1>1. CASE RefreshNext \/ ReadNext
  BY <1>1 DEF RefreshNext, ReadNext, ActorStep, Actor
<1>2. CASE SleepNext
  <2>1. ASSUME NEW s \in Server, EvaluateNotRunning(s) PROVE ClockStep
    BY <2>1 DEF EvaluateNotRunning, ClockStep
  <2>2. QED
    BY <1>2, <2>1 DEF SleepNext, ActorStep, Actor, Sleeper
<1>3. CASE WakeNext \/ ClientNext
  BY <1>3 DEF WakeNext, ClientNext, ActorStep, Actor
<1>4. CASE \E a \in Reconciler : ReconcileNext(a)
  BY <1>4 DEF ActorStep, Actor
<1>5. QED
  BY <1>1, <1>2, <1>3, <1>4 DEF Work

LEMMA StepAlone ==
  ASSUME Typed, NEW a \in Actor, ActorStep(a)
  PROVE  Alone(a)
BY RefreshAlone, ReadAlone, SleepAlone, EvaluateAlone, BeginAlone, WakeAlone, ClientAlone,
  ReconcileAlone DEF ActorStep

\* To the owner b of a server, the step of anybody else is invisible, but for a
\* status that the status route writes.
LEMMA OwnedIsLeft ==
  ASSUME Typed, OneOwner, OneOwner', NEW a \in Actor, NEW b \in Actor, b # a,
         pc[b] \in Owned, Alone(a)
  PROVE  /\ at[b] \in Server
         /\ pc'[b] = pc[b] /\ at'[b] = at[b] /\ op'[b] = op[b] /\ snap'[b] = snap[b]
         /\ todo'[b] = todo[b]
         /\ listener'[at[b]] = listener[at[b]] /\ intent'[at[b]] = intent[at[b]]
         /\ ctr'[at[b]] = ctr[at[b]]
         /\ at[b] \in players' <=> at[b] \in players
         /\ at[b] \in unseen' <=> at[b] \in unseen
         /\ rec'[at[b]].container = rec[at[b]].container
         /\ rec'[at[b]].hibernated = rec[at[b]].hibernated
         /\ a \notin Reader => rec'[at[b]] = rec[at[b]]
<1>1. PICK s \in Server : s = at[b]
  BY AtServer DEF Typed, Owned, Homeless
<1>2. /\ pc'[b] = pc[b] /\ at'[b] = at[b] /\ op'[b] = op[b] /\ snap'[b] = snap[b]
      /\ todo'[b] = todo[b]
  BY DEF Alone, OthersStay
<1>3. Owns(b, s) /\ Owns(b, s)' /\ s \in busy
  BY <1>1, <1>2 DEF Owns, OneOwner
<1>4. ~Owns(a, s) /\ ~Owns(a, s)'
  BY <1>1, <1>3 DEF OneOwner
<1>5. QED
  BY <1>1, <1>2, <1>3, <1>4
    DEF Alone, DockLeft, PortLeft, IntentLeft, RowsLeft, RowLeft

-----------------------------------------------------------------------------
(* The game port has one holder.                                           *)

\* Where a listener is being closed, and where one is being bound.
Closing == {"start_close", "wake_close", "stop_close", "remove_close", "rc_close"}
Binding == {"sl_arm", "restore_listen", "rc_restore", "rc_listen"}

\* A listener is half closed only while somebody awaits its end.
PortOf(a) ==
  /\ pc[a] \in Owned \ Closing => listener[at[a]] # "closing"
  /\ pc[a] \in {"wake_mark", "wake_docker", "start_docker"} => listener[at[a]] = "none"
  /\ pc[a] \in Binding => listener[at[a]] # "armed"
PortInv ==
  /\ \A a \in Actor : PortOf(a)
  /\ \A s \in Server \ busy : listener[s] # "closing"

\* What a's own step does: whatever it leaves or goes on with, it has closed.
PortStep(a) ==
  /\ pc[a] \in Owned =>
       listener'[at[a]] # "closing" \/ (pc'[a] \in Closing /\ at'[a] = at[a])
  /\ PortOf(a)'

LEMMA SleepPort ==
  ASSUME Typed, PortInv, NEW a \in Actor, SleepStep(a)
  PROVE  PortStep(a)
<1> USE DEF Typed
<1>0. at[a] \in Server /\ PortOf(a)
  BY AtServer DEF PortInv, SleepStep, SleepFail, SleepCount, SleepSave, SleepRecheck,
    SleepReassessed, SleepStop, SleepExited, SleepArmed, Homeless
<1>1. CASE SleepFail(a)
  BY <1>0, <1>1, ReleaseLeaves DEF SleepFail, PortStep, PortOf, Owned, Closing, Binding
<1>2. CASE SleepCount(a)
  BY <1>0, <1>2, ReleaseLeaves, GoLeaves
    DEF SleepCount, actorVars, PortStep, PortOf, Owned, Closing, Binding
<1>3. CASE SleepSave(a) \/ SleepRecheck(a) \/ SleepReassessed(a)
  <2>1. pc'[a] \in {"sl_recheck", "sl_veto", "sl_stop"} /\ UNCHANGED <<at, listener>>
    BY <1>3, GoLeaves
      DEF SleepSave, SleepRecheck, SleepReassessed, CommitOrReassess, CommitSleep, actorVars
  <2>2. QED
    BY <1>0, <1>3, <2>1
      DEF SleepSave, SleepRecheck, SleepReassessed, PortStep, PortOf, Owned, Closing, Binding
<1>4. CASE SleepStop(a)
  BY <1>0, <1>4, GoLeaves DEF SleepStop, actorVars, PortStep, PortOf, Owned, Closing, Binding
<1>5. CASE SleepExited(a)
  BY <1>0, <1>5, GoLeaves, ReleaseLeaves
    DEF SleepExited, RestoreSleep, NeedsListen, actorVars, PortStep, PortOf, Owned, Closing, Binding
<1>6. CASE SleepArmed(a)
  BY <1>0, <1>6, ReleaseLeaves
    DEF SleepArmed, Listen, ListenerTypeOK, PortStep, PortOf, Owned, Closing, Binding
<1>7. QED
  BY <1>1, <1>2, <1>3, <1>4, <1>5, <1>6 DEF SleepStep

LEMMA EnterPort ==
  ASSUME Typed, PortInv, NEW a \in Actor, NEW s \in Server
  PROVE  /\ \A o \in {"empty", "occupied"} : PressureSleep(a, o, s) => PortStep(a)
         /\ WakeBegin(a, s) => PortStep(a)
         /\ ListenerTurn(a, s) => PortStep(a)
         /\ Begin(a, s) => PortStep(a)
<1> USE DEF Typed
<1>1. ASSUME NEW o \in {"empty", "occupied"}, PressureSleep(a, o, s) PROVE PortStep(a)
  BY <1>1, AcquireLeaves
    DEF PressureSleep, SleepBegin, PortInv, PortStep, PortOf, Owned, Closing, Binding
<1>2. ASSUME WakeBegin(a, s) PROVE PortStep(a)
  BY <1>2, AcquireLeaves DEF WakeBegin, ReleasePort, ListenerTypeOK, ListenerState,
    PortInv, PortStep, PortOf, Owned, Closing, Binding
<1>3. ASSUME ListenerTurn(a, s) PROVE PortStep(a)
  BY <1>3, AcquireLeaves DEF ListenerTurn, PortInv, PortStep, PortOf, Owned, Closing, Binding
<1>4. ASSUME Begin(a, s) PROVE PortStep(a)
  BY <1>4, AcquireLeaves
    DEF Begin, LifecycleBegin, PortInv, PortStep, PortOf, Owned, Closing, Binding
<1>5. QED
  BY <1>1, <1>2, <1>3, <1>4

LEMMA EvaluatePort ==
  ASSUME Typed, PortInv, NEW a \in Actor, EvaluateNext(a)
  PROVE  PortStep(a)
<1> USE DEF Typed
<1>1. CASE EvaluateOccupied(a) \/ \E s \in Server : EvaluateBegin(a, s)
  BY <1>1, ForgetLeaves DEF EvaluateOccupied, EvaluateBegin, Go, ActorTypeOK,
    PortStep, PortOf, Owned, Closing, Binding
<1>2. CASE EvaluateEmpty(a)
  <2>1. at[a] \in Server /\ pc[a] \notin Owned
    BY <1>2, AtServer DEF EvaluateEmpty, Homeless, Owned
  <2>2. CASE SleepBegin(a, "idle", at[a])
    BY <1>2, <2>1, <2>2, AcquireLeaves
      DEF EvaluateEmpty, SleepBegin, PortInv, PortStep, PortOf, Owned, Closing, Binding
  <2>3. CASE Forget(a)
    BY <2>1, <2>3, ForgetLeaves DEF PortStep, PortOf, Owned, Closing, Binding
  <2>4. QED
    BY <1>2, <2>2, <2>3 DEF EvaluateEmpty
<1>3. QED
  BY <1>1, <1>2 DEF EvaluateNext

LEMMA RestorePort ==
  ASSUME Typed, PortInv, NEW a \in Actor, RestoreListen(a)
  PROVE  PortStep(a)
<1>1. at[a] \in Server
  BY AtServer DEF Typed, RestoreListen, Homeless
<1>2. QED
  BY <1>1, ReleaseLeaves DEF Typed, RestoreListen, Listen, ListenerTypeOK, PortStep, PortOf,
    Owned, Closing, Binding

LEMMA WakePort ==
  ASSUME Typed, PortInv, NEW a \in Actor, WakeStep(a)
  PROVE  PortStep(a)
<1> USE DEF Typed
<1>0. at[a] \in Server /\ PortOf(a)
  BY AtServer DEF PortInv, WakeStep, WakeClose, WakeMark, WakeDocker, WakeDone, WakeFail,
    RestoreListen, Homeless
<1>1. CASE WakeClose(a)
  BY <1>0, <1>1, GoLeaves DEF WakeClose, ClosePort, ListenerTypeOK, actorVars,
    PortStep, PortOf, Owned, Closing, Binding
<1>2. CASE WakeMark(a) \/ WakeDocker(a)
  BY <1>0, <1>2, GoLeaves DEF WakeMark, WakeDocker, actorVars, PortStep, PortOf, Owned, Closing, Binding
<1>3. CASE WakeDone(a)
  BY <1>0, <1>3, ReleaseLeaves DEF WakeDone, PortStep, PortOf, Owned, Closing, Binding
<1>4. CASE WakeFail(a)
  BY <1>0, <1>4, GoLeaves, ReleaseLeaves
    DEF WakeFail, RestoreSleep, NeedsListen, actorVars, PortStep, PortOf, Owned, Closing, Binding
<1>5. QED
  BY <1>1, <1>2, <1>3, <1>4, RestorePort DEF WakeStep

LEMMA ReconcilePort ==
  ASSUME Typed, PortInv, NEW a \in Actor, ReconcileNext(a)
  PROVE  PortStep(a)
<1> USE DEF Typed
<1>1. ASSUME NEW rows \in SUBSET [server : Server, container : ContainerId], pc[a] \notin Owned,
             IntentTurn(a, rows)
      PROVE PortStep(a)
  <2> DEFINE free == {r \in rows : r.server \notin busy}
             pickable == {r \in free : rec[r.server].container = r.container}
  <2>1. UNCHANGED listener
    BY <1>1 DEF IntentTurn
  <2>2. CASE Take(a, rows, pickable, "rc_inspect")
    <3>1. \A r \in pickable : r.server \in Server \ busy
      OBVIOUS
    <3> HIDE DEF pickable
    <3>2. QED
      BY <1>1, <2>1, <2>2, <3>1 DEF Take, Go, ActorTypeOK, PortInv, PortStep, PortOf, Owned, Closing, Binding
  <2>3. CASE Go(a, "rc_listeners")
    BY <1>1, <2>3 DEF Go, ActorTypeOK, PortStep, PortOf, Owned, Closing, Binding
  <2>4. QED
    BY <1>1, <2>2, <2>3 DEF IntentTurn
<1>2. ASSUME NEW rows \in SUBSET [server : Server, container : ContainerId], pc[a] \notin Owned,
             RecordTurn(a, rows)
      PROVE PortStep(a)
  <2> DEFINE pickable == {r \in rows : r.server \notin busy /\ NeedsListen(r.server)}
  <2>1. UNCHANGED listener
    BY <1>2 DEF RecordTurn
  <2>2. CASE Take(a, rows, pickable, "rc_listen")
    <3>1. \A r \in pickable : r.server \in Server \ busy /\ listener[r.server] # "armed"
      BY DEF NeedsListen
    <3> HIDE DEF pickable
    <3>2. QED
      BY <1>2, <2>1, <2>2, <3>1 DEF Take, Go, ActorTypeOK, PortInv, PortStep, PortOf, Owned, Closing, Binding
  <2>3. CASE Forget(a)
    BY <1>2, <2>3, ForgetLeaves DEF PortStep, PortOf, Owned, Closing, Binding
  <2>4. QED
    BY <1>2, <2>2, <2>3 DEF RecordTurn
<1>3. CASE ReconcileBegin(a)
  <2>1. {Row(s, intent[s]) : s \in {x \in Server : intent[x] # 0}}
          \in SUBSET [server : Server, container : ContainerId]
    BY DEF IntentTypeOK, Row
  <2>2. QED
    BY <1>1, <1>3, <2>1 DEF ReconcileBegin, Owned
<1>4. CASE IntentNext(a) \/ RecordNext(a)
  <2>1. todo[a] \in SUBSET [server : Server, container : ContainerId]
    BY DEF ActorTypeOK
  <2>2. QED
    BY <1>1, <1>2, <1>4, <2>1 DEF IntentNext, RecordNext, Owned
<1>5. CASE ListRecords(a)
  <2>1. {Row(s, 0) : s \in {x \in Server : rec[x].hibernated /\ rec[x].status = "stopped"}}
          \in SUBSET [server : Server, container : ContainerId]
    BY BoundAssumption DEF Row, ContainerId
  <2>2. QED
    BY <1>2, <1>5, <2>1 DEF ListRecords, Owned
<1>6. CASE IntentInspect(a) \/ IntentExit(a) \/ IntentAbort(a)
  <2>1. at[a] \in Server /\ PortOf(a)
    BY <1>6, AtServer DEF PortInv, IntentInspect, IntentExit, IntentAbort, Homeless
  <2>2. UNCHANGED listener
    BY <1>6 DEF IntentInspect, IntentExit, IntentAbort
  <2>3. \/ pc'[a] \in {"rc_intents", "idle"}
        \/ pc'[a] = "rc_exit" /\ at'[a] = at[a]
        \/ pc'[a] = "rc_restore" /\ at'[a] = at[a] /\ NeedsListen(at[a])
    BY <1>6, GoLeaves, EndTurnLeaves, ForgetLeaves DEF IntentInspect, IntentExit, IntentAbort, actorVars
  <2>4. QED
    BY <1>6, <2>1, <2>2, <2>3 DEF IntentInspect, IntentExit, IntentAbort, NeedsListen,
      PortStep, PortOf, Owned, Closing, Binding
<1>7. CASE IntentRestored(a) \/ RecordListen(a) \/ PortClosed(a)
  <2>1. at[a] \in Server
    BY <1>7, AtServer DEF IntentRestored, RecordListen, PortClosed, Homeless
  <2>2. QED
    BY <1>7, <2>1, EndTurnLeaves DEF IntentRestored, RecordListen, PortClosed, Listen, ClosePort,
      ListenerTypeOK, PortStep, PortOf, Owned, Closing, Binding
<1>8. QED
  BY <1>3, <1>4, <1>5, <1>6, <1>7, EnterPort DEF ReconcileNext

LEMMA ClientPort ==
  ASSUME Typed, PortInv, NEW a \in Actor, ClientStep(a)
  PROVE  PortStep(a)
<1> USE DEF Typed
<1>0. at[a] \in Server /\ PortOf(a)
  BY AtServer DEF PortInv, ClientStep, StartStep, StopStep, BuildStep, Refuse, Fail, StartChecked,
    DepsChecked, StartRelease, StartClose, StartDocker, StartDone, StartFail, StopRelease, StopClose,
    StopMark, StopRcon, StopWait, StopDocker, StopDone, RestartChecked, RestartStop, PrepareChecked,
    PrepareBuild, PrepareDone, RemoveRelease, RemoveClose, RemoveDocker, RemoveDone, RestoreListen,
    Homeless
<1>1. CASE Refuse(a) \/ Fail(a) \/ StartDone(a) \/ StopDone(a) \/ PrepareDone(a) \/ RemoveDone(a)
  BY <1>0, <1>1, ReleaseLeaves DEF Refuse, Fail, StartDone, StopDone, PrepareDone, RemoveDone,
    PortStep, PortOf, Owned, Closing, Binding
<1>2. CASE \/ StartChecked(a) \/ RestartChecked(a) \/ PrepareChecked(a) \/ StopMark(a)
           \/ DepsChecked(a) \/ StartDocker(a) \/ StopDocker(a) \/ RestartStop(a) \/ StopRcon(a)
           \/ StopWait(a) \/ PrepareBuild(a) \/ RemoveDocker(a)
  <2>1. UNCHANGED <<at, listener>>
    BY <1>2 DEF StartChecked, RestartChecked, PrepareChecked, StopMark, DepsChecked, StartDocker,
      StopDocker, RestartStop, StopRcon, StopWait, PrepareBuild, RemoveDocker, actorVars
  <2>2. /\ pc[a] \in Owned \ Closing
        /\ pc'[a] \notin Closing \cup Binding \cup {"wake_mark", "wake_docker", "start_docker"}
    BY <1>2, GoLeaves DEF StartChecked, RestartChecked, PrepareChecked, StopMark, DepsChecked,
      StartDocker, StopDocker, RestartStop, StopRcon, StopWait, PrepareBuild, RemoveDocker,
      Owned, Closing, Binding
  <2>3. QED
    BY <1>0, <2>1, <2>2 DEF PortStep, PortOf
<1>3. CASE StartRelease(a) \/ StopRelease(a) \/ RemoveRelease(a)
  BY <1>0, <1>3, GoLeaves DEF StartRelease, StopRelease, RemoveRelease, ReleasePort, ListenerTypeOK,
    ListenerState, actorVars, PortStep, PortOf, Owned, Closing, Binding
<1>4. CASE StartClose(a) \/ StopClose(a) \/ RemoveClose(a)
  BY <1>0, <1>4, GoLeaves DEF StartClose, StopClose, RemoveClose, ClosePort, ListenerTypeOK,
    actorVars, PortStep, PortOf, Owned, Closing, Binding
<1>5. CASE StartFail(a)
  BY <1>0, <1>5, GoLeaves, ReleaseLeaves DEF StartFail, RestoreSleep, NeedsListen, actorVars,
    PortStep, PortOf, Owned, Closing, Binding
<1>6. QED
  BY <1>1, <1>2, <1>3, <1>4, <1>5, RestorePort DEF ClientStep, StartStep, StopStep, BuildStep

LEMMA ReadingPort ==
  ASSUME Typed, NEW a \in Actor,
         \/ RefreshApply(a) \/ ReadInspect(a) \/ ReadApply(a)
         \/ \E s \in Server : RefreshBegin(a, s) \/ ReadBegin(a, s)
  PROVE  PortStep(a)
BY ForgetLeaves DEF Typed, RefreshApply, ReadInspect, ReadApply, RefreshBegin, ReadBegin, Go,
  ActorTypeOK, PortStep, PortOf, Owned, Closing, Binding

LEMMA NextPort ==
  ASSUME Typed, OneOwner, OneOwner', PortInv, [Next]_panelVars
  PROVE  PortInv'
<1>1. ASSUME NEW a \in Actor, ActorStep(a) PROVE PortInv'
  <2>1. PortStep(a)
    BY <1>1, SleepPort, EnterPort, EvaluatePort, WakePort, ReconcilePort, ClientPort, ReadingPort
      DEF ActorStep
  <2>2. Alone(a)
    BY <1>1, StepAlone
  <2>3. ASSUME NEW b \in Actor PROVE PortOf(b)'
    <3>1. CASE b # a /\ pc[b] \in Owned
      BY <2>2, <3>1, OwnedIsLeft DEF PortInv, PortOf
    <3>2. CASE b # a /\ pc[b] \notin Owned
      BY <2>2, <3>2 DEF Alone, OthersStay, PortOf, Owned, Binding
    <3>3. QED
      BY <2>1, <3>1, <3>2 DEF PortStep
  <2>4. ASSUME NEW s \in Server \ busy' PROVE listener'[s] # "closing"
    <3>1. CASE Owns(a, s)
      <4>1. pc'[a] \notin Owned \/ at'[a] # s
        BY <2>4 DEF OneOwner, Owns
      <4>2. QED
        BY <2>1, <3>1, <4>1 DEF PortStep, Owns, Closing, Owned
    <3>2. CASE ~Owns(a, s)
      <4>1. \A b \in Actor : ~Owns(b, s)'
        BY <2>4 DEF OneOwner
      <4>2. \A b \in Actor : ~Owns(b, s)
        BY <2>2, <3>2, <4>1 DEF Alone, OthersStay, Owns
      <4>3. s \notin busy
        BY <4>2 DEF OneOwner
      <4>4. QED
        BY <2>2, <3>2, <4>1, <4>3 DEF Alone, PortLeft, PortInv
    <3>3. QED
      BY <3>1, <3>2
  <2>5. QED
    BY <2>3, <2>4 DEF PortInv
<1>2. CASE UNCHANGED <<pc, at, busy, listener>>
  BY <1>2 DEF PortInv, PortOf
<1>3. CASE Crash
  BY <1>3 DEF Crash, PortInv, PortOf, Owned, Binding
<1>4. QED
  BY <1>1, <1>2, <1>3, WorkSteps
    DEF Next, Environment, ClockStep, memVars, actorVars, panelVars, vars

LEMMA InitPort == Init => PortInv
BY DEF Init, PortInv, PortOf, Owned, Binding

\* The game port has one holder: when Docker is asked to start a container, the
\* panel's listener has let go of the port, and a listener that is bound is never
\* bound again; over crashes, and whatever is started outside the panel.
THEOREM PortHasOneHolder == Spec => []PortHeldOnce
<1>1. TypeOK => Typed
  BY DEF TypeOK, Typed
<1>2. PortInv => PortHeldOnce
  BY DEF PortInv, PortOf, PortHeldOnce, PortHandedBack, BoundOnce, Binding
<1>3. TypeOK /\ OneOwner /\ OneOwner' /\ PortInv /\ [Next]_panelVars => PortInv'
  BY <1>1, NextPort
<1>4. QED
  BY <1>2, <1>3, InitPort, TypeCorrect, OwnersExclusive, PTL DEF Spec

-----------------------------------------------------------------------------
(* Rows change by their owner's hand.                                      *)

LEMMA NextRows ==
  ASSUME Typed, OneOwner, [Next]_panelVars, NEW s \in Server, NEW b \in Actor, Owns(b, s),
         pc'[b] = pc[b]
  PROVE  /\ rec'[s].hibernated = rec[s].hibernated /\ rec'[s].container = rec[s].container
         /\ Reader = {} => rec'[s] = rec[s]
<1>1. s \in busy
  BY DEF OneOwner
<1>2. ASSUME NEW a \in Actor, ActorStep(a), rec'[s] # rec[s]
      PROVE /\ rec'[s].hibernated = rec[s].hibernated /\ rec'[s].container = rec[s].container
            /\ a \in Reader
  <2>1. Alone(a)
    BY <1>2, StepAlone
  <2>2. ~Owns(a, s)
    <3>1. SUFFICES ASSUME Owns(a, s) PROVE FALSE
      OBVIOUS
    <3>2. a = b
      BY <3>1 DEF OneOwner
    <3>3. QED
      BY <2>1, <3>2 DEF Alone, Moves, Owns
  <2>3. QED
    BY <1>1, <1>2, <2>1, <2>2 DEF Alone, RowsLeft, RowLeft
<1>3. CASE UNCHANGED rec
  BY <1>3
<1>4. QED
  BY <1>2, <1>3, WorkSteps DEF Next, Environment, Crash, ClockStep, rowVars, panelVars, vars

\* A row changes under an operation only when that operation goes on: no reading
\* taken before it began is applied while it runs (without GET /:id/status).
THEOREM RowsAreTheOwners ==
  ASSUME Reader = {}
  PROVE  Spec => OwnerWrites
<1>1. TypeOK /\ OneOwner /\ [Next]_panelVars =>
        [\A s \in Server : rec'[s] # rec[s] =>
           \A a \in Actor : Owns(a, s) => pc'[a] # pc[a]]_panelVars
  BY NextRows DEF TypeOK, Typed
<1>2. QED
  BY <1>1, TypeCorrect, OwnersExclusive, PTL DEF Spec, OwnerWrites

\* Whoever asks for the status meanwhile, the sleep flag and the container of a
\* row are its owner's.
THEOREM FlagsAreTheOwners == Spec => OwnerKeeps
<1>1. TypeOK /\ OneOwner /\ [Next]_panelVars =>
        [\A s \in Server :
           \/ rec'[s].hibernated # rec[s].hibernated
           \/ rec'[s].container # rec[s].container
           => \A a \in Actor : Owns(a, s) => pc'[a] # pc[a]]_panelVars
  BY NextRows DEF TypeOK, Typed
<1>2. QED
  BY <1>1, TypeCorrect, OwnersExclusive, PTL DEF Spec, OwnerKeeps

-----------------------------------------------------------------------------
(* Where a step ends.                                                      *)

SleepLabels == {"sl_count", "sl_save", "sl_recheck", "sl_veto", "sl_stop", "sl_wait", "sl_arm"}
WakeLabels  == {"wake_close", "wake_mark", "wake_docker", "wake_done", "restore_listen"}
TurnLabels  == {"rc_intents", "rc_inspect", "rc_exit", "rc_restore", "rc_listeners", "rc_close",
                "rc_records", "rc_listen"}
LookLabels  == {"rf_apply", "rd_inspect", "rd_apply", "ev_count", "sl_count"}
RequestLabels ==
  {"start_check", "start_deps", "start_lost", "start_release", "start_close", "start_docker",
   "start_done", "stop_begin", "stop_close", "stop_mark", "stop_rcon", "stop_wait", "stop_docker",
   "stop_done", "restart_check", "restart_stop", "prepare_check", "prepare_build",
   "prepare_lost", "prepare_done", "remove_begin", "remove_close", "remove_docker",
   "remove_done", "restore_listen"}

Lands(a, labels) == pc'[a] \in labels \cup {"idle"}

LEMMA SleepLands ==
  ASSUME ActorTypeOK, NEW a \in Actor, SleepStep(a)
  PROVE  Lands(a, SleepLabels)
BY GoLeaves, ReleaseLeaves DEF SleepStep, SleepFail, SleepCount, SleepSave, SleepRecheck,
  SleepReassessed, SleepStop, SleepExited, SleepArmed, CommitOrReassess, CommitSleep, RestoreSleep,
  Lands, SleepLabels

LEMMA LookLands ==
  ASSUME ActorTypeOK, NEW a \in Actor,
         \/ RefreshApply(a) \/ ReadInspect(a) \/ ReadApply(a)
         \/ EvaluateNext(a)
         \/ \E s \in Server : RefreshBegin(a, s) \/ ReadBegin(a, s)
  PROVE  Lands(a, LookLabels)
BY ForgetLeaves DEF RefreshApply, ReadInspect, ReadApply, EvaluateNext, EvaluateOccupied,
  EvaluateEmpty, EvaluateBegin, SleepBegin, Acquire, RefreshBegin, ReadBegin, Go, ActorTypeOK,
  Lands, LookLabels

LEMMA WakeLands ==
  ASSUME ActorTypeOK, NEW a \in Actor, WakeStep(a)
  PROVE  Lands(a, WakeLabels)
BY GoLeaves, ReleaseLeaves DEF WakeStep, WakeClose, WakeMark, WakeDocker, WakeDone, WakeFail,
  RestoreSleep, RestoreListen, Lands, WakeLabels

LEMMA RequestLands ==
  ASSUME ActorTypeOK, NEW a \in Actor, ClientStep(a)
  PROVE  Lands(a, RequestLabels)
<1>1. CASE Refuse(a) \/ Fail(a) \/ StartStep(a)
  BY <1>1, GoLeaves, ReleaseLeaves DEF Refuse, Fail, StartStep, StartChecked, DepsChecked,
    StartRelease, StartClose, StartDocker, StartDone, StartFail, RestoreSleep, RestoreListen,
    Lands, RequestLabels
<1>2. CASE StopStep(a)
  BY <1>2, GoLeaves, ReleaseLeaves DEF StopStep, StopRelease, StopClose, StopMark, StopRcon,
    StopWait, StopDocker, StopDone, RestartChecked, RestartStop, Lands, RequestLabels
<1>3. CASE BuildStep(a)
  BY <1>3, GoLeaves, ReleaseLeaves DEF BuildStep, PrepareChecked, PrepareBuild, PrepareDone,
    RemoveRelease, RemoveClose, RemoveDocker, RemoveDone, Lands, RequestLabels
<1>4. QED
  BY <1>1, <1>2, <1>3 DEF ClientStep

LEMMA TurnLands ==
  ASSUME ActorTypeOK, NEW a \in Actor, ReconcileNext(a)
  PROVE  Lands(a, TurnLabels)
<1>1. ASSUME NEW rows, IntentTurn(a, rows) PROVE pc'[a] \in {"rc_inspect", "rc_listeners"}
  BY <1>1 DEF IntentTurn, Take, Go, ActorTypeOK
<1>2. ASSUME NEW rows, RecordTurn(a, rows) PROVE pc'[a] \in {"rc_listen", "idle"}
  BY <1>2, ForgetLeaves DEF RecordTurn, Take, Go, ActorTypeOK
<1>3. ASSUME NEW s \in Server, ListenerTurn(a, s) PROVE pc'[a] = "rc_close"
  BY <1>3 DEF ListenerTurn, Acquire, Go, ActorTypeOK
<1>4. ASSUME \/ IntentInspect(a) \/ IntentExit(a) \/ IntentAbort(a) \/ IntentRestored(a)
             \/ PortClosed(a) \/ RecordListen(a)
      PROVE Lands(a, TurnLabels)
  BY <1>4, GoLeaves, EndTurnLeaves, ForgetLeaves DEF IntentInspect, IntentExit, IntentAbort,
    IntentRestored, PortClosed, RecordListen, Lands, TurnLabels
<1>5. QED
  BY <1>1, <1>2, <1>3, <1>4 DEF ReconcileNext, ReconcileBegin, IntentNext, ListRecords, RecordNext,
    Lands, TurnLabels

LEMMA EnterLands ==
  ASSUME ActorTypeOK, NEW a \in Actor, NEW s \in Server
  PROVE  /\ \A o \in {"empty", "occupied"} : PressureSleep(a, o, s) => pc'[a] \in {"sl_count", "sl_save"}
         /\ WakeBegin(a, s) => pc'[a] \in {"wake_close", "wake_mark"}
         /\ Begin(a, s) => pc'[a] \in {"start_check", "stop_begin", "restart_check",
                                       "prepare_check", "remove_begin"}
BY DEF PressureSleep, SleepBegin, WakeBegin, Begin, LifecycleBegin,
  Acquire, Go, ActorTypeOK

-----------------------------------------------------------------------------
(* Nobody is stopped under.                                                *)

\* From the last count on, unless players were warned, whoever is online came
\* after it.
CountOf(a) ==
  pc[a] \in {"sl_veto", "sl_stop"} /\ op[a] # "occupied" => at[a] \notin players \ unseen
CountInv == \A a \in Actor : CountOf(a)

LEMMA CountOwn ==
  ASSUME Typed, CountInv, NEW a \in Actor, ActorStep(a)
  PROVE  CountOf(a)'
<1> USE DEF Typed
<1>1. CASE SleepSave(a) \/ SleepRecheck(a) \/ SleepReassessed(a)
  <2>1. UNCHANGED <<op, at, players>>
    BY <1>1 DEF SleepSave, SleepRecheck, SleepReassessed, actorVars, dockVars
  <2>2. CASE SleepSave(a)
    BY <2>1, <2>2, GoLeaves DEF SleepSave, CountOf
  <2>3. CASE SleepRecheck(a)
    BY <2>1, <2>3 DEF SleepRecheck, CountsZero, CountOf
  <2>4. CASE SleepReassessed(a)
    BY <2>1, <2>4 DEF SleepReassessed, CountInv, CountOf, dockVars
  <2>5. QED
    BY <1>1, <2>2, <2>3, <2>4
<1>2. CASE \/ SleepFail(a) \/ SleepCount(a) \/ SleepStop(a) \/ SleepExited(a) \/ SleepArmed(a)
  BY <1>2, GoLeaves, ReleaseLeaves DEF SleepFail, SleepCount, SleepStop, SleepExited, SleepArmed,
    RestoreSleep, CountOf
<1>3. CASE ~SleepStep(a)
  <2>1. pc'[a] \notin {"sl_veto", "sl_stop"}
    BY <1>3, LookLands, WakeLands, RequestLands, TurnLands, EnterLands DEF ActorStep,
      Lands, LookLabels, WakeLabels, RequestLabels, TurnLabels
  <2>2. QED
    BY <2>1 DEF CountOf
<1>4. QED
  BY <1>1, <1>2, <1>3 DEF SleepStep

\* What happens outside may change who is online, never to somebody overlooked.
LEMMA EnvironmentCounts ==
  ASSUME Environment, NEW s \in Server, s \notin players \ unseen
  PROVE  s \notin players' \ unseen'
BY DEF Environment, Boot, Exit, Die, StopInGame, StartOutside, StopOutside, Join, Leave, SetContainer

LEMMA NextCount ==
  ASSUME Typed, OneOwner, OneOwner', CountInv, [Next]_panelVars
  PROVE  CountInv'
<1>1. ASSUME NEW a \in Actor, ActorStep(a), NEW b \in Actor PROVE CountOf(b)'
  <2>1. Alone(a)
    BY <1>1, StepAlone
  <2>2. CASE b # a /\ pc[b] \in Owned
    BY <2>1, <2>2, OwnedIsLeft DEF CountInv, CountOf
  <2>3. CASE b # a /\ pc[b] \notin Owned
    BY <2>1, <2>3 DEF Alone, OthersStay, CountOf, Owned
  <2>4. QED
    BY <1>1, <2>2, <2>3, CountOwn
<1>2. CASE UNCHANGED <<pc, op, at, players, unseen>>
  BY <1>2 DEF CountInv, CountOf
<1>3. CASE Environment
  <2>1. \A b \in Actor : pc[b] \in Owned => at[b] \in Server
    BY AtServer DEF Typed, Owned, Homeless
  <2>2. QED
    BY <1>3, <2>1, EnvironmentCounts DEF Environment, actorVars, CountInv, CountOf, Owned
<1>4. CASE Crash
  BY <1>4 DEF Crash, CountInv, CountOf
<1>5. QED
  BY <1>1, <1>2, <1>3, <1>4, WorkSteps DEF Next, ClockStep, actorVars, dockVars,
    panelVars, vars, CountInv

\* An automatic sleep never stops a server under a player it could have counted:
\* when the stop is sent, whoever is online joined after the last count, unless
\* the players were warned.
THEOREM NobodyIsStoppedUnder == Spec => []EmptyAtStop
<1>1. TypeOK => Typed
  BY DEF TypeOK, Typed
<1>2. Init => CountInv
  BY DEF Init, CountInv, CountOf
<1>3. CountInv => EmptyAtStop
  BY DEF CountInv, CountOf, EmptyAtStop
<1>4. TypeOK /\ OneOwner /\ OneOwner' /\ CountInv /\ [Next]_panelVars => CountInv'
  BY <1>1, NextCount
<1>5. QED
  BY <1>2, <1>3, <1>4, TypeCorrect, OwnersExclusive, PTL DEF Spec

-----------------------------------------------------------------------------
(* Mods are repaired while the container is down.                          *)

LEMMA RepairOwn ==
  ASSUME Typed, ~DockerFails, NEW a \in Actor, ActorStep(a), pc'[a] = "start_deps"
  PROVE  ctr'[at'[a]] \notin Running
<1> USE DEF Typed
<1>1. StartChecked(a) \/ RestartStop(a)
  <2>1. a \in Client /\ ClientStep(a)
    BY SleepLands, LookLands, WakeLands, TurnLands, EnterLands DEF ActorStep, Lands, SleepLabels,
      LookLabels, WakeLabels, TurnLabels
  <2>2. CASE Refuse(a) \/ Fail(a) \/ StartStep(a)
    BY <2>2, GoLeaves, ReleaseLeaves DEF Refuse, Fail, StartStep, DepsChecked, StartRelease,
      StartClose, StartDocker, StartDone, StartFail, RestoreSleep, RestoreListen
  <2>3. CASE StopStep(a)
    BY <2>3, GoLeaves, ReleaseLeaves DEF StopStep, StopRelease, StopClose, StopMark, StopRcon,
      StopWait, StopDocker, StopDone, RestartChecked
  <2>4. CASE BuildStep(a)
    BY <2>4, GoLeaves, ReleaseLeaves DEF BuildStep, PrepareChecked, PrepareBuild, PrepareDone,
      RemoveRelease, RemoveClose, RemoveDocker, RemoveDone
  <2>5. QED
    BY <2>1, <2>2, <2>3, <2>4 DEF ClientStep
<1>2. at[a] \in Server /\ at'[a] = at[a]
  BY <1>1, AtServer DEF StartChecked, RestartStop, actorVars, Homeless
<1>3. CASE StartChecked(a)
  BY <1>2, <1>3 DEF StartChecked, Inspect, Live, Running, dockVars
<1>4. CASE RestartStop(a)
  BY <1>2, <1>4 DEF RestartStop, StopContainer, SetContainer, DockTypeOK, Running, dockVars
<1>5. QED
  BY <1>1, <1>3, <1>4

\* A container that is down stays down as long as nobody starts it outside.
LEMMA EnvironmentStartsNothing ==
  ASSUME Typed, ~External, Environment, NEW s \in Server, ctr[s] \notin Running
  PROVE  ctr'[s] = ctr[s]
BY DEF Typed, DockTypeOK, Environment, Boot, Exit, Die, StopInGame, StartOutside, StopOutside, Join,
  Leave, SetContainer, Running

LEMMA NextRepair ==
  ASSUME Typed, OneOwner, OneOwner', ~DockerFails, ~External, NoRepairUnderJvm, [Next]_panelVars
  PROVE  NoRepairUnderJvm'
<1>1. ASSUME NEW a \in Actor, ActorStep(a), NEW b \in Actor, pc'[b] = "start_deps"
      PROVE ctr'[at'[b]] \notin Running
  <2>1. Alone(a)
    BY <1>1, StepAlone
  <2>2. CASE b # a
    <3>1. pc[b] = "start_deps"
      BY <1>1, <2>1, <2>2 DEF Alone, OthersStay
    <3>2. QED
      BY <2>1, <2>2, <3>1, OwnedIsLeft DEF NoRepairUnderJvm, Owned
  <2>3. QED
    BY <1>1, <2>2, RepairOwn
<1>2. CASE UNCHANGED <<pc, at, ctr>>
  BY <1>2 DEF NoRepairUnderJvm
<1>3. CASE Environment
  <2>1. \A b \in Actor : pc[b] = "start_deps" => at[b] \in Server
    BY AtServer DEF Typed, Homeless
  <2>2. QED
    BY <1>3, <2>1, EnvironmentStartsNothing DEF Environment, actorVars, NoRepairUnderJvm
<1>4. CASE Crash
  BY <1>4 DEF Crash, NoRepairUnderJvm
<1>5. QED
  BY <1>1, <1>2, <1>3, <1>4, WorkSteps DEF Next, ClockStep, actorVars, dockVars,
    panelVars, vars, NoRepairUnderJvm

\* No JAR is added or removed under a running JVM, as long as Docker answers
\* inspections and only the panel starts containers; over crashes of the backend.
THEOREM RepairsWait ==
  ASSUME ~DockerFails, ~External
  PROVE  Spec => []NoRepairUnderJvm
<1>1. TypeOK => Typed
  BY DEF TypeOK, Typed
<1>2. Init => NoRepairUnderJvm
  BY DEF Init, NoRepairUnderJvm
<1>3. TypeOK /\ OneOwner /\ OneOwner' /\ NoRepairUnderJvm /\ [Next]_panelVars => NoRepairUnderJvm'
  BY <1>1, NextRepair
<1>4. QED
  BY <1>2, <1>3, TypeCorrect, OwnersExclusive, PTL DEF Spec

-----------------------------------------------------------------------------
(* Nothing falls asleep without a reason.                                  *)

\* What an operation that may put its server to sleep knows of it.
ReasonOf(a) ==
  /\ pc[a] = "sl_veto" => rec[at[a]].container = snap[a].container
  /\ pc[a] \in {"sl_stop", "sl_wait", "rc_inspect", "rc_exit"} =>
       intent[at[a]] = rec[at[a]].container
  /\ pc[a] \in {"wake_close", "wake_mark", "wake_docker"} => snap[a].hibernated
  /\ pc[a] \in {"rc_intents", "rc_inspect", "rc_exit", "rc_restore"} => todo[a] = {}
ReasonInv == \A a \in Actor : ReasonOf(a)

OneServer == \A s, t \in Server : s = t

LEMMA SleepReason ==
  ASSUME Typed, ReasonInv, NEW a \in Actor, SleepStep(a)
  PROVE  ReasonOf(a)'
<1> USE DEF Typed
<1>0. at[a] \in Server
  BY AtServer DEF SleepStep, SleepFail, SleepCount, SleepSave, SleepRecheck, SleepReassessed,
    SleepStop, SleepExited, SleepArmed, Homeless
<1>1. ASSUME CommitSleep(a), rec[at[a]].container = snap[a].container, UNCHANGED actorVars
      PROVE  ReasonOf(a)'
  <2>1. pc'[a] = "sl_stop" /\ at'[a] = at[a]
    BY <1>1 DEF CommitSleep, Go, ActorTypeOK, actorVars
  <2>2. intent'[at[a]] = snap[a].container /\ rec'[at[a]].container = rec[at[a]].container
    BY <1>0, <1>1 DEF CommitSleep, Mark, Write, Settled, IntentTypeOK, RowTypeOK, Record
  <2>3. QED
    BY <1>1, <2>1, <2>2 DEF ReasonOf
<1>2. ASSUME CommitOrReassess(a), UNCHANGED actorVars
      PROVE  ReasonOf(a)'
  <2>1. CASE CommitSleep(a)
    BY <1>1, <1>2, <2>1 DEF CommitOrReassess, StillOurs
  <2>2. CASE Go(a, "sl_veto") /\ UNCHANGED <<rowVars, intent>>
    BY <1>2, <2>2, GoLeaves DEF CommitOrReassess, StillOurs, ActorTypeOK, Go, actorVars, rowVars, ReasonOf
  <2>3. QED
    BY <1>2, <2>1, <2>2 DEF CommitOrReassess
<1>3. CASE SleepSave(a)
  <2>1. CASE Go(a, "sl_recheck")
    BY <2>1 DEF Go, ActorTypeOK, ReasonOf
  <2>2. QED
    BY <1>2, <1>3, <2>1 DEF SleepSave
<1>4. CASE SleepRecheck(a)
  BY <1>2, <1>4 DEF SleepRecheck
<1>5. CASE SleepReassessed(a)
  BY <1>1, <1>5 DEF SleepReassessed, ReasonInv, ReasonOf
<1>6. CASE SleepStop(a)
  BY <1>6, GoLeaves DEF SleepStop, ReasonInv, ReasonOf, rowVars, actorVars
<1>7. CASE SleepFail(a) \/ SleepCount(a) \/ SleepExited(a) \/ SleepArmed(a)
  BY <1>7, GoLeaves, ReleaseLeaves DEF SleepFail, SleepCount, SleepExited, SleepArmed, RestoreSleep,
    ReasonOf
<1>8. QED
  BY <1>3, <1>4, <1>5, <1>6, <1>7 DEF SleepStep

LEMMA WakeReason ==
  ASSUME Typed, ReasonInv, NEW a \in Actor
  PROVE  /\ WakeStep(a) => ReasonOf(a)'
         /\ \A s \in Server : WakeBegin(a, s) => ReasonOf(a)'
<1> USE DEF Typed
<1>1. ASSUME WakeClose(a) \/ WakeMark(a) \/ WakeDocker(a) PROVE ReasonOf(a)'
  BY <1>1, GoLeaves DEF WakeClose, WakeMark, WakeDocker, actorVars, ReasonInv, ReasonOf
<1>2. ASSUME WakeDone(a) \/ WakeFail(a) \/ RestoreListen(a) PROVE ReasonOf(a)'
  BY <1>2, GoLeaves, ReleaseLeaves DEF WakeDone, WakeFail, RestoreListen, RestoreSleep, ReasonOf
<1>3. ASSUME NEW s \in Server, WakeBegin(a, s) PROVE ReasonOf(a)'
  BY <1>3 DEF WakeBegin, Acquire, Go, ActorTypeOK, ReasonOf
<1>4. QED
  BY <1>1, <1>2, <1>3 DEF WakeStep

LEMMA IntentTurnReason ==
  ASSUME Typed, OneServer, NEW a \in Actor,
         NEW rows \in SUBSET [server : Server, container : ContainerId],
         \A r \in rows : intent[r.server] = r.container, IntentTurn(a, rows)
  PROVE  ReasonOf(a)'
<1> USE DEF Typed
<1> DEFINE free == {r \in rows : r.server \notin busy}
           pickable == {r \in free : rec[r.server].container = r.container}
           dropped == {r \in free \ pickable : \A p \in pickable : r.server < p.server}
<1>1. CASE Take(a, rows, pickable, "rc_inspect")
  <2>1. PICK row \in pickable :
          /\ at' = [at EXCEPT ![a] = row.server]
          /\ todo' = [todo EXCEPT ![a] = {r \in rows : r.server > row.server}]
          /\ Go(a, "rc_inspect")
    BY <1>1 DEF Take
  <2>2. /\ row.server \in Server /\ rec[row.server].container = row.container
        /\ intent[row.server] = row.container
    OBVIOUS
  <2>3. \A r \in rows : r.server = row.server /\ ~(r.server > row.server) /\ ~(r.server < row.server)
    <3>1. \A r \in rows : r.server \in Server
      OBVIOUS
    <3>2. \A r \in rows : r.server = row.server
      BY <2>2, <3>1 DEF OneServer
    <3>3. row.server \in Nat
      BY <2>2, ServerAssumption
    <3>4. QED
      BY <3>2, <3>3
  <2>4. ~\E r \in dropped : r.server = row.server
    BY <2>3
  <2>5. intent'[row.server] = intent[row.server] /\ rec' = rec
    BY <2>2, <2>4 DEF IntentTurn, rowVars
  <2>6. todo'[a] = {} /\ at'[a] = row.server /\ pc'[a] = "rc_inspect"
    BY <2>1, <2>3 DEF ActorTypeOK, Go
  <2>7. QED
    BY <2>2, <2>5, <2>6 DEF ReasonOf
<1>2. CASE Go(a, "rc_listeners")
  BY <1>2 DEF Go, ActorTypeOK, ReasonOf
<1>3. QED
  BY <1>1, <1>2 DEF IntentTurn

LEMMA TurnReason ==
  ASSUME Typed, OneServer, ReasonInv, NEW a \in Actor, ReconcileNext(a)
  PROVE  ReasonOf(a)'
<1> USE DEF Typed
<1>1. CASE ReconcileBegin(a)
  <2> DEFINE rows == {Row(s, intent[s]) : s \in {x \in Server : intent[x] # 0}}
  <2>1. rows \in SUBSET [server : Server, container : ContainerId]
    BY DEF IntentTypeOK, Row
  <2>2. \A r \in rows : intent[r.server] = r.container
    BY DEF Row
  <2>3. QED
    BY <1>1, <2>1, <2>2, IntentTurnReason DEF ReconcileBegin
<1>2. CASE IntentNext(a)
  <2>1. IntentTurn(a, {})
    BY <1>2 DEF IntentNext, ReasonInv, ReasonOf
  <2>2. QED
    BY <2>1, IntentTurnReason
<1>3. CASE IntentInspect(a)
  <2>1. at[a] \in Server
    BY <1>3, AtServer DEF IntentInspect, Homeless
  <2>2. CASE Go(a, "rc_exit") /\ UNCHANGED <<memVars, actorVars>>
    BY <1>3, <2>1, <2>2, GoLeaves DEF IntentInspect, ReasonInv, ReasonOf, actorVars, rowVars
  <2>3. CASE EndTurn(a, "rc_intents")
    BY <1>3, <2>3, EndTurnLeaves DEF IntentInspect, EndTurn, ReasonInv, ReasonOf
  <2>4. QED
    BY <1>3, <2>2, <2>3 DEF IntentInspect
<1>4. CASE IntentExit(a) \/ IntentRestored(a)
  <2>1. /\ pc'[a] \in {"rc_restore", "rc_intents"} /\ todo' = todo
        /\ pc[a] \in {"rc_exit", "rc_restore"}
    BY <1>4, GoLeaves, EndTurnLeaves DEF IntentExit, IntentRestored, EndTurn, actorVars
  <2>2. QED
    BY <2>1 DEF ReasonInv, ReasonOf
<1>5. CASE IntentAbort(a) \/ PortClosed(a) \/ RecordListen(a)
  BY <1>5, ForgetLeaves, EndTurnLeaves DEF IntentAbort, PortClosed, RecordListen, ReasonOf
<1>6. ASSUME NEW rows, RecordTurn(a, rows) PROVE ReasonOf(a)'
  BY <1>6, ForgetLeaves DEF RecordTurn, Take, Go, ActorTypeOK, ReasonOf
<1>7. ASSUME NEW s \in Server, ListenerTurn(a, s) PROVE ReasonOf(a)'
  BY <1>7 DEF ListenerTurn, Acquire, Go, ActorTypeOK, ReasonOf
<1>8. QED
  BY <1>1, <1>2, <1>3, <1>4, <1>5, <1>6, <1>7 DEF ReconcileNext, ListRecords, RecordNext

LEMMA ReasonOwn ==
  ASSUME Typed, OneServer, ReasonInv, NEW a \in Actor, ActorStep(a)
  PROVE  ReasonOf(a)'
<1>1. CASE SleepStep(a) \/ WakeStep(a) \/ ReconcileNext(a) \/ \E s \in Server : WakeBegin(a, s)
  BY <1>1, SleepReason, WakeReason, TurnReason
<1>2. CASE \/ RefreshApply(a) \/ ReadInspect(a) \/ ReadApply(a) \/ EvaluateNext(a) \/ ClientStep(a)
           \/ \E s \in Server : \/ RefreshBegin(a, s) \/ ReadBegin(a, s) \/ Begin(a, s)
                                \/ \E o \in {"empty", "occupied"} : PressureSleep(a, o, s)
  <2>1. pc'[a] \in LookLabels \cup RequestLabels \cup {"idle", "sl_count", "sl_save"}
    BY <1>2, LookLands, RequestLands, EnterLands DEF Typed, Lands, RequestLabels
  <2>2. QED
    BY <2>1 DEF ReasonOf, LookLabels, RequestLabels
<1>3. QED
  BY <1>1, <1>2 DEF ActorStep

LEMMA NextReason ==
  ASSUME Typed, OneServer, OneOwner, OneOwner', ReasonInv, [Next]_panelVars
  PROVE  ReasonInv'
<1>1. ASSUME NEW a \in Actor, ActorStep(a), NEW b \in Actor PROVE ReasonOf(b)'
  <2>1. Alone(a)
    BY <1>1, StepAlone
  <2>2. CASE b # a /\ pc[b] \in Owned
    BY <2>1, <2>2, OwnedIsLeft DEF ReasonInv, ReasonOf
  <2>3. CASE b # a /\ pc[b] \notin Owned
    BY <2>1, <2>3 DEF Alone, OthersStay, ReasonInv, ReasonOf, Owned
  <2>4. QED
    BY <1>1, <2>2, <2>3, ReasonOwn
<1>2. CASE UNCHANGED <<pc, at, snap, todo, rec, intent>>
  BY <1>2 DEF ReasonInv, ReasonOf
<1>3. CASE Crash
  BY <1>3 DEF Crash, ReasonInv, ReasonOf
<1>4. QED
  BY <1>1, <1>2, <1>3, WorkSteps DEF Next, Environment, ClockStep, actorVars, rowVars,
    panelVars, vars, ReasonInv

\* What the helpers that write a row do to the sleep flag of s.
NotFlagged(s) == rec'[s].hibernated => rec[s].hibernated

LEMMA MarksFlagNothing ==
  ASSUME RowTypeOK, NEW s \in Server
  PROVE  /\ UNCHANGED rowVars => NotFlagged(s)
         /\ \A st, e : Mark(s, st, e) => NotFlagged(s)
         /\ \A st : SetStatus(s, st) => NotFlagged(s)
         /\ \A e : SetError(s, e) => NotFlagged(s)
         /\ Listen(s) => NotFlagged(s)
<1>1. UNCHANGED rowVars => NotFlagged(s)
  BY DEF rowVars, NotFlagged
<1>2. ASSUME NEW st, NEW e, Mark(s, st, e) PROVE NotFlagged(s)
  BY <1>2 DEF Mark, Write, Settled, RowTypeOK, Record, NotFlagged
<1>3. ASSUME NEW st, SetStatus(s, st) PROVE NotFlagged(s)
  BY <1>3 DEF SetStatus, Write, Settled, RowTypeOK, Record, NotFlagged
<1>4. ASSUME NEW e, SetError(s, e) PROVE NotFlagged(s)
  BY <1>4 DEF SetError, Write, Settled, RowTypeOK, Record, NotFlagged
<1>5. Listen(s) => NotFlagged(s)
  BY <1>1, <1>4 DEF Listen
<1>6. QED
  BY <1>1, <1>2, <1>3, <1>4, <1>5

LEMMA RowsFlagNothing ==
  ASSUME RowTypeOK, NEW s \in Server, NEW c
  PROVE  /\ UNCHANGED rowVars => NotFlagged(s)
         /\ Write(s, [rec[s] EXCEPT !.container = c]) => NotFlagged(s)
         /\ \A st : Write(s, [rec[s] EXCEPT !.status = st, !.container = c]) => NotFlagged(s)
         /\ \A st, e : Write(s, [rec[s] EXCEPT !.status = st, !.error = e, !.container = c])
              => NotFlagged(s)
<1>1. UNCHANGED rowVars => NotFlagged(s)
  BY DEF rowVars, NotFlagged
<1>2. Write(s, [rec[s] EXCEPT !.container = c]) => NotFlagged(s)
  BY DEF Write, Settled, RowTypeOK, Record, NotFlagged
<1>3. ASSUME NEW st, Write(s, [rec[s] EXCEPT !.status = st, !.container = c]) PROVE NotFlagged(s)
  BY <1>3 DEF Write, Settled, RowTypeOK, Record, NotFlagged
<1>4. ASSUME NEW st, NEW e, Write(s, [rec[s] EXCEPT !.status = st, !.error = e, !.container = c])
      PROVE NotFlagged(s)
  BY <1>4 DEF Write, Settled, RowTypeOK, Record, NotFlagged
<1>5. QED
  BY <1>1, <1>2, <1>3, <1>4

\* The steps that set the sleep flag.
LEMMA FlagIsSet ==
  ASSUME Typed, OneOwner, ReasonInv, NEW a \in Actor, ActorStep(a), NEW s \in Server,
         ~rec[s].hibernated, rec'[s].hibernated
  PROVE  \/ intent[s] = rec[s].container
         \/ a \in Client \cup Joiner /\ Owns(a, s) /\ snap[a].hibernated
<1> USE DEF Typed
<1>1. Owns(a, s)
  <2>1. Alone(a)
    BY StepAlone
  <2>2. QED
    BY <2>1 DEF Alone, RowsLeft, RowLeft
<1>2. at[a] = s /\ pc[a] \in Owned
  BY <1>1 DEF Owns
<1>3. CASE a \in Sleeper /\ SleepStep(a)
  <2>1. CASE SleepExited(a)
    BY <1>2, <2>1 DEF SleepExited, ReasonInv, ReasonOf
  <2>2. CASE ~SleepExited(a)
    <3>1. NotFlagged(at[a])
      BY <1>2, <1>3, <2>2, MarksFlagNothing DEF SleepStep, SleepFail, SleepCount, SleepSave,
        SleepRecheck, SleepReassessed, SleepStop, SleepArmed, CommitOrReassess, CommitSleep
    <3>2. QED
      BY <1>2, <3>1 DEF NotFlagged
  <2>3. QED
    BY <2>1, <2>2
<1>4. CASE a \in Joiner /\ WakeStep(a)
  <2>1. CASE WakeFail(a)
    BY <1>1, <1>4, <2>1 DEF WakeFail, ReasonInv, ReasonOf
  <2>2. CASE ~WakeFail(a)
    <3>1. WakeMark(a) => NotFlagged(at[a])
      BY <1>2 DEF WakeMark, Write, Settled, RowTypeOK, Record, NotFlagged
    <3>2. NotFlagged(at[a])
      BY <1>2, <1>4, <2>2, <3>1, MarksFlagNothing DEF WakeStep, WakeClose, WakeDocker, WakeDone,
        RestoreListen
    <3>3. QED
      BY <1>2, <3>2 DEF NotFlagged
  <2>3. QED
    BY <2>1, <2>2
<1>5. CASE a \in Reconciler /\ ReconcileNext(a)
  <2>1. CASE IntentExit(a)
    BY <1>2, <2>1 DEF IntentExit, ReasonInv, ReasonOf
  <2>2. CASE RecordListen(a) \/ IntentRestored(a)
    BY <1>2, <2>2, MarksFlagNothing DEF RecordListen, IntentRestored, NotFlagged
  <2>3. CASE ~IntentExit(a) /\ ~RecordListen(a) /\ ~IntentRestored(a)
    <3>1. UNCHANGED rec
      BY <1>5, <2>3 DEF ReconcileNext, ReconcileBegin, IntentNext, IntentTurn, IntentInspect,
        IntentAbort, ListRecords, RecordNext, RecordTurn, PortClosed, ListenerTurn, rowVars
    <3>2. QED
      BY <3>1
  <2>4. QED
    BY <2>1, <2>2, <2>3
<1>6. CASE a \in Client /\ ClientStep(a)
  <2>1. CASE StartFail(a)
    BY <1>1, <1>2, <1>6, <2>1 DEF StartFail, Mark, Write, Settled, RowTypeOK, Record
  <2>2. CASE Refuse(a) \/ Fail(a) \/ (StartStep(a) /\ ~StartFail(a))
    <3>0. DepsChecked(a) => NotFlagged(at[a])
      BY <1>2, RowsFlagNothing DEF DepsChecked
    <3>1. StartDone(a) => NotFlagged(at[a])
      BY <1>2 DEF StartDone, Write, Settled, RowTypeOK, Record, NotFlagged
    <3>2. NotFlagged(at[a])
      BY <1>2, <2>2, <3>0, <3>1, MarksFlagNothing DEF Refuse, Fail, StartStep, StartChecked, StartRelease,
        StartClose, StartDocker, RestoreListen
    <3>3. QED
      BY <1>2, <3>2 DEF NotFlagged
  <2>3. CASE StopStep(a)
    <3>1. StopDone(a) => NotFlagged(at[a])
      BY <1>2 DEF StopDone, Write, Settled, RowTypeOK, Record, NotFlagged
    <3>2. NotFlagged(at[a])
      BY <1>2, <2>3, <3>1, MarksFlagNothing DEF StopStep, StopRelease, StopClose, StopMark, StopRcon,
        StopWait, StopDocker, RestartChecked, RestartStop
    <3>3. QED
      BY <1>2, <3>2 DEF NotFlagged
  <2>4. CASE BuildStep(a)
    <3>1. PrepareDone(a) \/ RemoveDone(a) => NotFlagged(at[a])
      BY <1>2, RowsFlagNothing DEF PrepareDone, RemoveDone
    <3>2. NotFlagged(at[a])
      BY <1>2, <2>4, <3>1, MarksFlagNothing DEF BuildStep, PrepareChecked, PrepareBuild, RemoveRelease,
        RemoveClose, RemoveDocker
    <3>3. QED
      BY <1>2, <3>2 DEF NotFlagged
  <2>5. QED
    BY <1>6, <2>1, <2>2, <2>3, <2>4 DEF ClientStep
<1>7. QED
  BY <1>2, <1>3, <1>4, <1>5, <1>6 DEF ActorStep, Owned, RefreshApply, RefreshBegin, ReadInspect,
    ReadApply, ReadBegin, EvaluateNext, EvaluateOccupied, EvaluateEmpty, EvaluateBegin,
    PressureSleep, WakeBegin, Begin, LifecycleBegin, SleepAllowed, SleepBegin, Acquire

\* With one server, a server becomes asleep only by a sleep that was committed
\* for the container it has, or because an operation on a sleeping server failed.
\* (With two, reconcile may act on an intent that was dropped since it was
\* listed: StopIsFinal.)
THEOREM NothingSleepsUnasked ==
  ASSUME OneServer
  PROVE  Spec => AsleepForAReason
<1>1. TypeOK => Typed
  BY DEF TypeOK, Typed
<1>2. Init => ReasonInv
  BY DEF Init, ReasonInv, ReasonOf
<1>3. TypeOK /\ OneOwner /\ OneOwner' /\ ReasonInv /\ [Next]_panelVars => ReasonInv'
  BY <1>1, NextReason
<1>4. TypeOK /\ OneOwner /\ ReasonInv /\ [Next]_panelVars =>
        [\A s \in Server : ~rec[s].hibernated /\ rec'[s].hibernated =>
           \/ intent[s] = rec[s].container
           \/ \E a \in Client \cup Joiner : Owns(a, s) /\ snap[a].hibernated]_panelVars
  <2> SUFFICES ASSUME TypeOK, OneOwner, ReasonInv, [Next]_panelVars, NEW s \in Server,
                      ~rec[s].hibernated, rec'[s].hibernated
               PROVE  \/ intent[s] = rec[s].container
                      \/ \E a \in Client \cup Joiner : Owns(a, s) /\ snap[a].hibernated
    OBVIOUS
  <2>1. PICK a \in Actor : ActorStep(a)
    BY WorkSteps DEF Next, Environment, Crash, ClockStep, rowVars, panelVars, vars
  <2>2. QED
    BY <1>1, <2>1, FlagIsSet
<1>5. QED
  BY <1>2, <1>3, <1>4, TypeCorrect, OwnersExclusive, PTL DEF Spec, AsleepForAReason

-----------------------------------------------------------------------------
(* A slow sleep is told.                                                   *)

\* A refresh that is not out of date reads "stopping" only off such a row.
ReadingOf(a) ==
  pc[a] = "rf_apply" /\ obs[a] = "stopping" /\ a \notin stale => rec[at[a]].status = "stopping"

\* A stop that is about to say "stopping" has dropped the intent.
StopOf(a) == pc[a] \in {"stop_close", "stop_mark"} => intent[at[a]] = 0

\* A committed sleep is told of, or its owner is still at it.
Told(s) ==
  intent[s] # 0 /\ rec[s].status = "stopping" =>
    rec[s].error = "other" \/ \E a \in Actor : Owns(a, s) /\ pc[a] \in {"sl_stop", "sl_wait"}

ToldInv ==
  /\ \A a \in Refresher : ReadingOf(a)
  /\ \A a \in Actor : StopOf(a)
  /\ crashes = 0 => \A s \in Server : Told(s)

\* A write that neither starts a stop nor takes back what was told.
TellsOn(s) ==
  rec'[s].status = "stopping" =>
    rec[s].status = "stopping" /\ (rec[s].error = "other" => rec'[s].error = "other")

LEMMA MarksTellOn ==
  ASSUME RowTypeOK, NEW s \in Server
  PROVE  /\ UNCHANGED rowVars => TellsOn(s)
         /\ \A st \in Status \ {"stopping"} : \A e : Mark(s, st, e) => TellsOn(s)
         /\ SetStatus(s, "error") => TellsOn(s)
         /\ SetError(s, "other") => TellsOn(s) /\ (rec'[s].status = "stopping" => rec'[s].error = "other")
         /\ Listen(s) => TellsOn(s)
<1>1. UNCHANGED rowVars => TellsOn(s)
  BY DEF rowVars, TellsOn
<1>2. ASSUME NEW st \in Status \ {"stopping"}, NEW e, Mark(s, st, e) PROVE TellsOn(s)
  BY <1>2 DEF Mark, Write, Settled, RowTypeOK, Record, TellsOn
<1>3. SetStatus(s, "error") => TellsOn(s)
  BY DEF SetStatus, Write, Settled, RowTypeOK, Record, TellsOn
<1>4. SetError(s, "other") => TellsOn(s) /\ (rec'[s].status = "stopping" => rec'[s].error = "other")
  BY DEF SetError, Write, Settled, RowTypeOK, Record, TellsOn
<1>5. Listen(s) => TellsOn(s)
  BY <1>1 DEF Listen, SetError, Write, Settled, RowTypeOK, Record, TellsOn
<1>6. QED
  BY <1>1, <1>2, <1>3, <1>4, <1>5

LEMMA WritesTellOn ==
  ASSUME RowTypeOK, NEW s \in Server, NEW r \in Record, Write(s, r),
         r.status # "stopping" \/ (r.status = rec[s].status /\ r.error = rec[s].error)
  PROVE  TellsOn(s)
BY DEF Write, Settled, RowTypeOK, Record, TellsOn

\* What an owner's step leaves of its server is told of.
ToldStep(a) ==
  intent'[at[a]] # 0 /\ rec'[at[a]].status = "stopping" =>
    rec'[at[a]].error = "other" \/ (pc'[a] \in {"sl_stop", "sl_wait"} /\ at'[a] = at[a])

LEMMA ToldOn ==
  ASSUME OneOwner, NEW a \in Actor, at[a] \in Server, pc[a] \in Owned, Told(at[a]),
         pc[a] \notin {"sl_stop", "sl_wait"}, intent'[at[a]] \in {intent[at[a]], 0}, TellsOn(at[a])
  PROVE  ToldStep(a)
<1>1. \A b \in Actor : Owns(b, at[a]) => b = a
  BY DEF OneOwner, Owns
<1>2. QED
  BY <1>1 DEF Told, TellsOn, ToldStep

LEMMA SleepTells ==
  ASSUME Typed, OneOwner, NEW a \in Actor, at[a] \in Server, pc[a] \in Owned, Told(at[a]), SleepStep(a)
  PROVE  ToldStep(a)
<1> USE DEF Typed
<1>1. CASE SleepFail(a)
  BY <1>1, MarksTellOn DEF SleepFail, ToldStep
<1>2. CASE SleepCount(a)
  BY <1>2, ToldOn, MarksTellOn DEF SleepCount
<1>3. CASE SleepSave(a) \/ SleepRecheck(a) \/ SleepReassessed(a)
  <2>1. CASE CommitSleep(a)
    BY <1>3, <2>1, GoLeaves DEF SleepSave, SleepRecheck, SleepReassessed, CommitSleep, actorVars, ToldStep
  <2>2. CASE UNCHANGED <<rowVars, intent>>
    BY <1>3, <2>2, ToldOn, MarksTellOn DEF SleepSave, SleepRecheck, SleepReassessed
  <2>3. QED
    BY <1>3, <2>1, <2>2 DEF SleepSave, SleepRecheck, SleepReassessed, CommitOrReassess
<1>4. CASE SleepStop(a)
  BY <1>4, GoLeaves DEF SleepStop, actorVars, ToldStep
<1>5. CASE SleepExited(a)
  BY <1>5 DEF SleepExited, RestoreSleep, Write, Settled, RowTypeOK, Record, ToldStep
<1>6. CASE SleepArmed(a)
  BY <1>6, ToldOn, MarksTellOn DEF SleepArmed, IntentTypeOK
<1>7. QED
  BY <1>1, <1>2, <1>3, <1>4, <1>5, <1>6 DEF SleepStep

LEMMA RestoreTells ==
  ASSUME Typed, NEW a \in Actor, at[a] \in Server, NEW label, NEW e \in LastError,
         RestoreSleep(a, label, e)
  PROVE  TellsOn(at[a])
BY DEF Typed, RestoreSleep, Write, Settled, RowTypeOK, Record, TellsOn

LEMMA WakeTells ==
  ASSUME Typed, OneOwner, NEW a \in Actor, at[a] \in Server, pc[a] \in Owned, Told(at[a]), WakeStep(a)
  PROVE  ToldStep(a)
<1> USE DEF Typed
<1>1. WakeMark(a) => TellsOn(at[a])
  BY DEF WakeMark, Write, Settled, RowTypeOK, Record, TellsOn
<1>2. TellsOn(at[a])
  BY <1>1, MarksTellOn, RestoreTells DEF WakeStep, WakeClose, WakeDocker, WakeDone, WakeFail,
    RestoreListen, Status, LastError
<1>3. UNCHANGED intent /\ pc[a] \notin {"sl_stop", "sl_wait"}
  BY DEF WakeStep, WakeClose, WakeMark, WakeDocker, WakeDone, WakeFail, RestoreListen
<1>4. QED
  BY <1>2, <1>3, ToldOn

LEMMA TurnTells ==
  ASSUME Typed, OneOwner, NEW a \in Actor, at[a] \in Server, pc[a] \in Owned, Told(at[a]),
         ReconcileNext(a)
  PROVE  ToldStep(a)
<1> USE DEF Typed
<1>1. \/ IntentInspect(a) \/ IntentExit(a) \/ IntentAbort(a) \/ IntentRestored(a)
      \/ PortClosed(a) \/ RecordListen(a)
  BY DEF ReconcileNext, ReconcileBegin, IntentNext, ListRecords, RecordNext, ListenerTurn, Owned
<1>2. ASSUME IntentExit(a) PROVE TellsOn(at[a])
  <2>1. CASE UNCHANGED rowVars
    BY <2>1, MarksTellOn
  <2>2. CASE Write(at[a], [rec[at[a]] EXCEPT !.status = "stopped", !.hibernated = TRUE])
    BY <2>2 DEF Write, Settled, RowTypeOK, Record, TellsOn
  <2>3. QED
    BY <1>2, <2>1, <2>2 DEF IntentExit
<1>3. TellsOn(at[a])
  BY <1>1, <1>2, MarksTellOn DEF IntentInspect, IntentAbort, IntentRestored, PortClosed, RecordListen
<1>4. intent'[at[a]] \in {intent[at[a]], 0} /\ pc[a] \notin {"sl_stop", "sl_wait"}
  BY <1>1 DEF IntentInspect, IntentExit, IntentAbort, IntentRestored, PortClosed, RecordListen,
    IntentTypeOK
<1>5. QED
  BY <1>3, <1>4, ToldOn

LEMMA RequestTells ==
  ASSUME Typed, OneOwner, NEW a \in Actor, at[a] \in Server, pc[a] \in Owned, Told(at[a]),
         StopOf(a), ClientStep(a)
  PROVE  ToldStep(a)
<1> USE DEF Typed
<1>1. CASE Refuse(a) \/ Fail(a)
  BY <1>1, ToldOn, MarksTellOn DEF Refuse, Fail, Status
<1>2. CASE StartStep(a)
  <2>1. rec[at[a]] \in Record
    BY DEF RowTypeOK
  <2>2. DepsChecked(a) => TellsOn(at[a])
    <3>1. rec[at[a]].container < MaxContainer =>
            [rec[at[a]] EXCEPT !.container = rec[at[a]].container + 1] \in Record
      BY <2>1, BoundAssumption DEF Record, ContainerId
    <3>2. QED
      BY <2>1, <3>1, WritesTellOn, MarksTellOn DEF DepsChecked, Record
  <2>3. StartDone(a) => TellsOn(at[a])
    BY <2>1 DEF StartDone, Write, Settled, RowTypeOK, Record, TellsOn
  <2>4. StartFail(a) => TellsOn(at[a])
    BY RestoreTells, MarksTellOn DEF StartFail, Status, LastError
  <2>5. TellsOn(at[a])
    BY <1>2, <2>2, <2>3, <2>4, MarksTellOn DEF StartStep, StartChecked, StartRelease, StartClose,
      StartDocker, RestoreListen, Status
  <2>6. intent'[at[a]] \in {intent[at[a]], 0} /\ pc[a] \notin {"sl_stop", "sl_wait"}
    BY <1>2 DEF StartStep, StartChecked, DepsChecked, StartRelease, StartClose, StartDocker, StartDone,
      StartFail, RestoreListen, ReleasePort, IntentTypeOK
  <2>7. QED
    BY <2>5, <2>6, ToldOn
<1>3. CASE StopMark(a)
  BY <1>3 DEF StopMark, StopOf, ToldStep
<1>4. CASE StopStep(a) /\ ~StopMark(a)
  <2>1. StopDone(a) => TellsOn(at[a])
    BY DEF StopDone, Write, Settled, RowTypeOK, Record, TellsOn
  <2>2. TellsOn(at[a])
    BY <1>4, <2>1, MarksTellOn DEF StopStep, StopRelease, StopClose, StopRcon, StopWait, StopDocker,
      RestartChecked, RestartStop, Status
  <2>3. intent'[at[a]] \in {intent[at[a]], 0} /\ pc[a] \notin {"sl_stop", "sl_wait"}
    BY <1>4 DEF StopStep, StopRelease, StopClose, StopRcon, StopWait, StopDocker, StopDone,
      RestartChecked, RestartStop, ReleasePort, IntentTypeOK
  <2>4. QED
    BY <2>2, <2>3, ToldOn
<1>5. CASE BuildStep(a)
  <2>1. rec[at[a]] \in Record
    BY DEF RowTypeOK
  <2>2. PrepareDone(a) => TellsOn(at[a])
    BY <2>1 DEF PrepareDone, Write, Settled, RowTypeOK, Record, TellsOn
  <2>3. RemoveDone(a) => TellsOn(at[a])
    BY <2>1 DEF RemoveDone, Write, Settled, RowTypeOK, Record, TellsOn
  <2>4. TellsOn(at[a])
    BY <1>5, <2>2, <2>3, MarksTellOn DEF BuildStep, PrepareChecked, PrepareBuild, RemoveRelease,
      RemoveClose, RemoveDocker, Status
  <2>5. intent'[at[a]] \in {intent[at[a]], 0} /\ pc[a] \notin {"sl_stop", "sl_wait"}
    BY <1>5 DEF BuildStep, PrepareChecked, PrepareBuild, PrepareDone, RemoveRelease, RemoveClose,
      RemoveDocker, RemoveDone, ReleasePort, IntentTypeOK
  <2>6. QED
    BY <2>4, <2>5, ToldOn
<1>6. QED
  BY <1>1, <1>2, <1>3, <1>4, <1>5 DEF ClientStep

\* Whose step it is, an owner tells.
LEMMA OwnerTells ==
  ASSUME Typed, OneOwner, NEW a \in Actor, at[a] \in Server, pc[a] \in Owned, Told(at[a]),
         StopOf(a), ActorStep(a)
  PROVE  ToldStep(a)
BY SleepTells, WakeTells, TurnTells, RequestTells
  DEF ActorStep, Owned, RefreshApply, RefreshBegin, ReadInspect, ReadApply, ReadBegin, EvaluateNext,
    EvaluateOccupied, EvaluateEmpty, EvaluateBegin, PressureSleep, SleepAllowed, SleepBegin, WakeBegin,
    Begin, LifecycleBegin, Acquire

LEMMA ReadingKept ==
  ASSUME Typed, NEW a \in Actor, ActorStep(a), NEW b \in Refresher, ReadingOf(b)
  PROVE  ReadingOf(b)'
<1> USE DEF Typed
<1>1. CASE b # a
  <2>1. Alone(a)
    BY StepAlone
  <2>2. pc[b] = "rf_apply" => at[b] \in Server
    BY AtServer DEF Actor, Homeless
  <2>3. QED
    BY <1>1, <2>1, <2>2 DEF Alone, OthersStay, RowsLeft, StaleLeft, ReadingOf, Actor
<1>2. CASE b = a
  <2>1. RefreshApply(b) \/ \E s \in Server : RefreshBegin(b, s)
    BY <1>2, RolesAreDisjoint DEF ActorStep, Sleeper
  <2>2. CASE RefreshApply(b)
    BY <2>2, ForgetLeaves DEF RefreshApply, ReadingOf, Actor
  <2>3. ASSUME NEW s \in Server, RefreshBegin(b, s) PROVE ReadingOf(b)'
    <3>1. \A seen \in Inspect(rec[s].status, ctr[s]) : seen = "stopping" => rec[s].status = "stopping"
      BY DEF Inspect, RowTypeOK, Record, Status, DockTypeOK, ContainerState, Running, Down
    <3>2. QED
      BY <2>3, <3>1 DEF RefreshBegin, rowVars, ActorTypeOK, ReadingOf, Actor
  <2>4. QED
    BY <2>1, <2>2, <2>3
<1>3. QED
  BY <1>1, <1>2

LEMMA StopOwn ==
  ASSUME Typed, NEW a \in Actor, ActorStep(a), StopOf(a)
  PROVE  StopOf(a)'
<1> USE DEF Typed
<1>1. CASE ClientStep(a)
  <2>1. CASE StopRelease(a)
    <3>1. at[a] \in Server
      BY <2>1, AtServer DEF StopRelease, Homeless
    <3>2. QED
      BY <2>1, <3>1 DEF StopRelease, ReleasePort, IntentTypeOK, actorVars, StopOf
  <2>2. CASE StopClose(a)
    BY <2>2 DEF StopClose, actorVars, StopOf
  <2>3. CASE Refuse(a) \/ Fail(a) \/ StartStep(a)
    BY <2>3, GoLeaves, ReleaseLeaves DEF Refuse, Fail, StartStep, StartChecked, DepsChecked,
      StartRelease, StartClose, StartDocker, StartDone, StartFail, RestoreSleep, RestoreListen, StopOf
  <2>4. CASE StopStep(a) /\ ~StopRelease(a) /\ ~StopClose(a)
    BY <2>4, GoLeaves, ReleaseLeaves DEF StopStep, StopMark, StopRcon, StopWait, StopDocker, StopDone,
      RestartChecked, RestartStop, StopOf
  <2>5. CASE BuildStep(a)
    BY <2>5, GoLeaves, ReleaseLeaves DEF BuildStep, PrepareChecked, PrepareBuild, PrepareDone,
      RemoveRelease, RemoveClose, RemoveDocker, RemoveDone, StopOf
  <2>6. QED
    BY <1>1, <2>1, <2>2, <2>3, <2>4, <2>5 DEF ClientStep
<1>2. CASE ~ClientStep(a)
  BY <1>2, SleepLands, LookLands, WakeLands, TurnLands, EnterLands DEF ActorStep, Lands, SleepLabels,
    LookLabels, WakeLabels, TurnLabels, StopOf
<1>3. QED
  BY <1>1, <1>2

LEMMA ToldKept ==
  ASSUME Typed, OneOwner, OneOwner', Reader = {}, NEW a \in Actor, ActorStep(a),
         \A b \in Refresher : ReadingOf(b), StopOf(a), \A s \in Server : Told(s), NEW s \in Server
  PROVE  Told(s)'
<1> USE DEF Typed
<1>0. Alone(a)
  BY StepAlone
<1>1. CASE Owns(a, s)
  <2>1. at[a] = s /\ ToldStep(a)
    BY <1>1, OwnerTells DEF Owns
  <2>2. QED
    BY <2>1 DEF ToldStep, Told, Owns, Owned
<1>2. CASE ~Owns(a, s) /\ s \in busy
  <2>1. PICK b \in Actor : Owns(b, s)
    BY <1>2 DEF OneOwner
  <2>2. b # a /\ at[b] = s /\ pc[b] \in Owned
    BY <1>2, <2>1 DEF Owns
  <2>3. pc'[b] = pc[b] /\ at'[b] = s /\ intent'[s] = intent[s] /\ rec'[s] = rec[s]
    BY <1>0, <2>2, OwnedIsLeft
  <2>4. \A c \in Actor : Owns(c, s) => c = b
    BY <2>1 DEF OneOwner
  <2>5. QED
    BY <2>1, <2>2, <2>3, <2>4 DEF Told, Owns
<1>3. CASE ~Owns(a, s) /\ s \notin busy
  <2>1. intent[s] # 0 /\ rec[s].status = "stopping" => rec[s].error = "other"
    BY <1>3 DEF Told, OneOwner
  <2>2. TellsOn(s)
    <3>1. CASE rec'[s] = rec[s]
      BY <3>1 DEF TellsOn
    <3>2. CASE a \in Refresher /\ RefreshApply(a)
      <4>1. at[a] \in Server
        BY <3>2, AtServer DEF RefreshApply, Homeless
      <4>2. rec'[s] # rec[s] => s = at[a] /\ a \notin stale /\
              rec'[s] = Settled([rec[s] EXCEPT !.status = obs[a],
                                   !.hibernated = rec[s].hibernated /\ ~Awake(a)])
        BY <3>2, <4>1 DEF RefreshApply, Outdated, RowTypeOK
      <4>3. pc[a] = "rf_apply" /\ ReadingOf(a)
        BY <3>2 DEF RefreshApply
      <4>4. CASE rec'[s] # rec[s]
        <5>1. rec[s] \in Record
          BY DEF RowTypeOK
        <5>2. rec'[s].status = obs[a] /\ (obs[a] # "running" => rec'[s].error = rec[s].error)
          BY <4>2, <4>4, <5>1 DEF Settled, Record
        <5>3. QED
          BY <4>2, <4>3, <4>4, <5>2 DEF ReadingOf, TellsOn
      <4>5. QED
        BY <3>1, <4>4
    <3>3. CASE \E x \in Server : RefreshBegin(a, x)
      BY <3>3 DEF RefreshBegin, rowVars, TellsOn
    <3>4. rec'[s] = rec[s] \/ a \in Refresher
      BY <1>0, <1>3 DEF Alone, RowsLeft, RowLeft
    <3>5. QED
      BY <3>1, <3>2, <3>3, <3>4, RolesAreDisjoint DEF ActorStep, Sleeper
  <2>3. intent'[s] \in {intent[s], 0}
    BY <1>0, <1>3 DEF Alone, IntentLeft
  <2>4. QED
    BY <2>1, <2>2, <2>3 DEF TellsOn, Told
<1>4. QED
  BY <1>1, <1>2, <1>3

LEMMA NextTold ==
  ASSUME TypeOK, OneOwner, OneOwner', Reader = {}, ToldInv, [Next]_panelVars
  PROVE  ToldInv'
<1>0. Typed
  BY DEF TypeOK, Typed
<1>1. ASSUME NEW a \in Actor, ActorStep(a), UNCHANGED crashes PROVE ToldInv'
  <2>1. \A b \in Refresher : ReadingOf(b)'
    BY <1>0, <1>1, ReadingKept DEF ToldInv
  <2>2. ASSUME NEW b \in Actor PROVE StopOf(b)'
    <3>1. Alone(a)
      BY <1>0, <1>1, StepAlone
    <3>2. CASE b # a /\ pc[b] \in Owned
      BY <1>0, <3>1, <3>2, OwnedIsLeft DEF ToldInv, StopOf
    <3>3. CASE b # a /\ pc[b] \notin Owned
      BY <3>1, <3>3 DEF Alone, OthersStay, StopOf, Owned
    <3>4. QED
      BY <1>0, <1>1, <3>2, <3>3, StopOwn DEF ToldInv
  <2>3. crashes' = 0 => \A s \in Server : Told(s)'
    BY <1>0, <1>1, ToldKept DEF ToldInv
  <2>4. QED
    BY <2>1, <2>2, <2>3 DEF ToldInv
<1>2. CASE UNCHANGED <<pc, at, obs, rec, stale, intent, crashes>>
  BY <1>2 DEF ToldInv, ReadingOf, StopOf, Told, Owns
<1>3. CASE Crash
  <2>1. crashes' # 0
    BY <1>3, EnvironmentAssumption DEF Crash, TypeOK
  <2>2. QED
    BY <1>3, <2>1 DEF Crash, ToldInv, ReadingOf, StopOf, Actor
<1>4. QED
  BY <1>1, <1>2, <1>3, WorkSteps DEF Next, Work, Environment, ClockStep, actorVars, rowVars,
    panelVars, vars

LEMMA InitTold == Init => ToldInv
<1> SUFFICES ASSUME Init PROVE ToldInv
  OBVIOUS
<1>1. PICK kind \in [Server -> Kind] :
        /\ rec = [s \in Server |-> [status |-> StatusOf[kind[s]],
                                   hibernated |-> kind[s] = "asleep", container |-> 1,
                                   error |-> IF kind[s] = "leaving" THEN "other" ELSE "none"]]
        /\ intent = [s \in Server |-> IF kind[s] = "leaving" THEN 1 ELSE 0]
  BY DEF Init
<1>2. \A s \in Server : Told(s)
  BY <1>1 DEF Told
<1>3. \A a \in Actor : ReadingOf(a) /\ StopOf(a)
  BY DEF Init, ReadingOf, StopOf
<1>4. QED
  BY <1>2, <1>3 DEF ToldInv, Actor

-----------------------------------------------------------------------------
(* A crash is never taken for a sleep.                                     *)

\* The containers of servers that sleep.
Resting == {"created", "clean", "absent"}

\* Where a request has not started its container yet.
Starting == {"start_check", "restart_check", "restart_stop", "start_deps", "start_lost",
             "start_release", "start_close", "start_docker"}

\* What a wake, and a start of a sleeping server, may fall back on.
CleanOf(a) ==
  /\ pc[a] \in {"wake_close", "wake_mark", "wake_docker"} => ctr[at[a]] \in Resting
  /\ pc[a] \in Starting /\ snap[a].hibernated => ctr[at[a]] \in Resting
  /\ pc[a] \in {"wake_docker", "wake_done"} => ~rec[at[a]].hibernated

\* Only a start that is about to say so has the container of a sleeper up.
Clean(s) ==
  rec[s].hibernated => ctr[s] \in Resting \/ \E a \in Actor : Owns(a, s) /\ pc[a] = "start_done"

CleanInv == crashes = 0 => (\A a \in Actor : CleanOf(a)) /\ (\A s \in Server : Clean(s))

\* The container of s, if it rests, goes on resting.
RestsOn(s) == ctr[s] \in Resting => ctr'[s] \in Resting

LEMMA StopsRestOn ==
  ASSUME DockTypeOK, NEW s \in Server
  PROVE  /\ UNCHANGED dockVars => RestsOn(s)
         /\ StopContainer(s) => RestsOn(s)
         /\ \A c \in Resting : SetContainer(s, c) => RestsOn(s)
         /\ ctr[s] = "ready" => RestsOn(s)
BY DEF DockTypeOK, StopContainer, SetContainer, dockVars, Running, Resting, RestsOn

\* What an owner's step leaves of its server.
CleanStep(a) ==
  rec'[at[a]].hibernated =>
    ctr'[at[a]] \in Resting \/ (pc'[a] = "start_done" /\ at'[a] = at[a])

LEMMA CleanOn ==
  ASSUME OneOwner, NEW a \in Actor, at[a] \in Server, pc[a] \in Owned, Clean(at[a]),
         pc[a] # "start_done", NotFlagged(at[a]), RestsOn(at[a])
  PROVE  CleanStep(a)
<1>1. \A b \in Actor : Owns(b, at[a]) => b = a
  BY DEF OneOwner, Owns
<1>2. QED
  BY <1>1 DEF Clean, NotFlagged, RestsOn, CleanStep

LEMMA SleepClean ==
  ASSUME Typed, OneOwner, NEW a \in Actor, at[a] \in Server, pc[a] \in Owned, Clean(at[a]), SleepStep(a)
  PROVE  CleanStep(a)
<1> USE DEF Typed
<1>1. CASE SleepExited(a)
  BY <1>1 DEF SleepExited, dockVars, CleanStep, Resting
<1>2. CASE ~SleepExited(a)
  <2>1. NotFlagged(at[a])
    BY <1>2, MarksFlagNothing DEF SleepStep, SleepFail, SleepCount, SleepSave, SleepRecheck,
      SleepReassessed, SleepStop, SleepArmed, CommitOrReassess, CommitSleep
  <2>2. SleepRecheck(a) => RestsOn(at[a])
    BY DEF SleepRecheck, RestsOn
  <2>3. RestsOn(at[a]) /\ pc[a] # "start_done"
    BY <1>2, <2>2, StopsRestOn DEF SleepStep, SleepFail, SleepCount, SleepSave, SleepRecheck,
      SleepReassessed, SleepStop, SleepArmed
  <2>4. QED
    BY <2>1, <2>3, CleanOn
<1>3. QED
  BY <1>1, <1>2

LEMMA WakeClean ==
  ASSUME Typed, OneOwner, NEW a \in Actor, at[a] \in Server, pc[a] \in Owned, Clean(at[a]),
         CleanOf(a), WakeStep(a)
  PROVE  CleanStep(a) /\ CleanOf(a)'
<1> USE DEF Typed
<1>1. CASE WakeClose(a)
  <2>1. UNCHANGED <<rec, ctr, at>> /\ pc'[a] = "wake_mark" /\ pc[a] = "wake_close"
    BY <1>1, GoLeaves DEF WakeClose, rowVars, dockVars, actorVars
  <2>2. QED
    BY <2>1 DEF CleanOf, CleanStep, Starting
<1>2. CASE WakeMark(a)
  <2>1. UNCHANGED <<ctr, at>> /\ pc'[a] = "wake_docker" /\ pc[a] = "wake_mark"
    BY <1>2, GoLeaves DEF WakeMark, dockVars, actorVars
  <2>2. ~rec'[at[a]].hibernated
    BY <1>2 DEF WakeMark, Write, Settled, RowTypeOK, Record
  <2>3. QED
    BY <2>1, <2>2 DEF CleanOf, CleanStep, Starting
<1>3. CASE WakeDocker(a)
  <2>1. UNCHANGED <<rec, at>> /\ pc'[a] = "wake_done" /\ pc[a] = "wake_docker"
    BY <1>3, GoLeaves DEF WakeDocker, rowVars, actorVars
  <2>2. QED
    BY <2>1 DEF CleanOf, CleanStep, Starting
<1>4. CASE WakeDone(a)
  <2>1. NotFlagged(at[a]) /\ pc[a] = "wake_done"
    BY <1>4, MarksFlagNothing DEF WakeDone
  <2>2. pc'[a] = "idle"
    BY <1>4, ReleaseLeaves DEF WakeDone
  <2>3. QED
    BY <2>1, <2>2 DEF NotFlagged, CleanOf, CleanStep, Starting
<1>5. CASE WakeFail(a)
  <2>1. UNCHANGED ctr /\ pc'[a] \in {"restore_listen", "idle"} /\ pc[a] = "wake_docker"
    BY <1>5, GoLeaves, ReleaseLeaves DEF WakeFail, RestoreSleep, dockVars
  <2>2. QED
    BY <2>1 DEF CleanOf, CleanStep, Starting
<1>6. CASE RestoreListen(a)
  <2>1. pc'[a] = "idle" /\ pc[a] = "restore_listen"
    BY <1>6, ReleaseLeaves DEF RestoreListen
  <2>2. CleanStep(a)
    BY <1>6, <2>1, CleanOn, MarksFlagNothing, StopsRestOn DEF RestoreListen
  <2>3. QED
    BY <2>1, <2>2 DEF CleanOf, Starting
<1>7. QED
  BY <1>1, <1>2, <1>3, <1>4, <1>5, <1>6 DEF WakeStep

LEMMA TurnClean ==
  ASSUME Typed, OneOwner, NEW a \in Actor, at[a] \in Server, pc[a] \in Owned, Clean(at[a]),
         ReconcileNext(a)
  PROVE  CleanStep(a)
<1> USE DEF Typed
<1>1. \/ IntentInspect(a) \/ IntentExit(a) \/ IntentAbort(a) \/ IntentRestored(a)
      \/ PortClosed(a) \/ RecordListen(a)
  BY DEF ReconcileNext, ReconcileBegin, IntentNext, ListRecords, RecordNext, ListenerTurn, Owned
<1>2. UNCHANGED ctr /\ pc[a] # "start_done"
  BY <1>1 DEF IntentInspect, IntentExit, IntentAbort, IntentRestored, PortClosed, RecordListen, dockVars
<1>3. CASE IntentExit(a) /\ ctr[at[a]] = "clean"
  BY <1>2, <1>3 DEF CleanStep, Resting
<1>4. CASE ~(IntentExit(a) /\ ctr[at[a]] = "clean")
  <2>1. NotFlagged(at[a])
    BY <1>1, <1>4, MarksFlagNothing DEF IntentInspect, IntentExit, IntentAbort, IntentRestored,
      PortClosed, RecordListen
  <2>2. QED
    BY <1>2, <2>1, CleanOn DEF RestsOn
<1>5. QED
  BY <1>3, <1>4

LEMMA StartClean ==
  ASSUME Typed, OneOwner, NEW a \in Actor, at[a] \in Server, pc[a] \in Owned, Clean(at[a]),
         CleanOf(a), StartStep(a)
  PROVE  CleanStep(a) /\ CleanOf(a)'
<1> USE DEF Typed
<1>1. CASE StartChecked(a) \/ StartRelease(a) \/ StartClose(a)
  <2>1. /\ UNCHANGED <<ctr, at, snap>>
        /\ pc[a] \in Starting /\ pc'[a] \in Starting
    BY <1>1, GoLeaves DEF StartChecked, StartRelease, StartClose, dockVars, actorVars, Starting
  <2>2. NotFlagged(at[a])
    BY <1>1, MarksFlagNothing DEF StartChecked, StartRelease, StartClose
  <2>3. CleanStep(a)
    BY <2>1, <2>2, CleanOn DEF RestsOn, Starting
  <2>4. QED
    BY <2>1, <2>3 DEF CleanOf, Starting
<1>2. CASE DepsChecked(a)
  <2>1. UNCHANGED <<at, snap>> /\ pc[a] = "start_deps" /\ pc'[a] \in {"start_release", "start_lost"}
    BY <1>2, GoLeaves DEF DepsChecked, actorVars
  <2>2. RestsOn(at[a])
    BY <1>2, StopsRestOn DEF DepsChecked, Recreate, Resting
  <2>3. NotFlagged(at[a])
    BY <1>2, RowsFlagNothing DEF DepsChecked
  <2>4. CleanStep(a)
    BY <2>1, <2>2, <2>3, CleanOn
  <2>5. QED
    BY <2>1, <2>2, <2>4 DEF RestsOn, CleanOf, Starting
<1>3. CASE StartDocker(a)
  <2>1. at' = at /\ pc'[a] = "start_done"
    BY <1>3, GoLeaves DEF StartDocker, actorVars
  <2>2. QED
    BY <2>1 DEF CleanStep, CleanOf, Starting
<1>4. CASE StartDone(a)
  <2>1. ~rec'[at[a]].hibernated
    BY <1>4 DEF StartDone, Write, Settled, RowTypeOK, Record
  <2>2. pc'[a] = "idle"
    BY <1>4, ReleaseLeaves DEF StartDone
  <2>3. QED
    BY <2>1, <2>2 DEF CleanStep, CleanOf, Starting
<1>5. CASE StartFail(a)
  <2>1. /\ UNCHANGED ctr /\ pc'[a] \in {"restore_listen", "idle"}
        /\ pc[a] \in Starting
    BY <1>5, GoLeaves, ReleaseLeaves DEF StartFail, RestoreSleep, dockVars, Starting
  <2>2. CASE snap[a].hibernated
    BY <2>1, <2>2 DEF CleanOf, CleanStep, Starting
  <2>3. CASE ~snap[a].hibernated
    BY <1>5, <2>1, <2>3, MarksFlagNothing, CleanOn DEF StartFail, RestsOn, CleanOf, Starting
  <2>4. QED
    BY <2>2, <2>3
<1>6. CASE RestoreListen(a)
  BY <1>6, WakeClean DEF WakeStep
<1>7. QED
  BY <1>1, <1>2, <1>3, <1>4, <1>5, <1>6 DEF StartStep

LEMMA StopClean ==
  ASSUME Typed, OneOwner, NEW a \in Actor, at[a] \in Server, pc[a] \in Owned, Clean(at[a]),
         CleanOf(a), StopStep(a)
  PROVE  CleanStep(a) /\ CleanOf(a)'
<1> USE DEF Typed
<1>1. RestsOn(at[a])
  BY StopsRestOn DEF StopStep, StopRelease, StopClose, StopMark, StopRcon, StopWait, StopDocker,
    StopDone, RestartChecked, RestartStop
<1>2. NotFlagged(at[a])
  <2>1. StopDone(a) => NotFlagged(at[a])
    BY DEF StopDone, Write, Settled, RowTypeOK, Record, NotFlagged
  <2>2. QED
    BY <2>1, MarksFlagNothing DEF StopStep, StopRelease, StopClose, StopMark, StopRcon, StopWait,
      StopDocker, RestartChecked, RestartStop
<1>3. pc[a] # "start_done"
  BY DEF StopStep, StopRelease, StopClose, StopMark, StopRcon, StopWait, StopDocker, StopDone,
    RestartChecked, RestartStop
<1>4. CASE RestartChecked(a) \/ RestartStop(a)
  <2>1. UNCHANGED <<at, snap>> /\ pc[a] \in Starting /\ pc'[a] \in Starting
    BY <1>4, GoLeaves DEF RestartChecked, RestartStop, actorVars, Starting
  <2>2. QED
    BY <1>1, <1>2, <1>3, <2>1, CleanOn DEF RestsOn, CleanOf, Starting
<1>5. CASE \/ StopRelease(a) \/ StopClose(a) \/ StopMark(a) \/ StopRcon(a) \/ StopWait(a)
           \/ StopDocker(a) \/ StopDone(a)
  <2>1. pc'[a] \in {"stop_close", "stop_mark", "stop_rcon", "stop_wait", "stop_docker", "stop_done", "idle"}
    BY <1>5, GoLeaves, ReleaseLeaves DEF StopRelease, StopClose, StopMark, StopRcon, StopWait,
      StopDocker, StopDone
  <2>2. QED
    BY <1>1, <1>2, <1>3, <2>1, CleanOn DEF CleanOf, Starting
<1>6. QED
  BY <1>4, <1>5 DEF StopStep

LEMMA BuildClean ==
  ASSUME Typed, OneOwner, NEW a \in Actor, at[a] \in Server, pc[a] \in Owned, Clean(at[a]),
         BuildStep(a) \/ Refuse(a) \/ Fail(a)
  PROVE  CleanStep(a) /\ CleanOf(a)'
<1> USE DEF Typed
<1>1. RestsOn(at[a])
  BY StopsRestOn DEF BuildStep, PrepareChecked, PrepareBuild, PrepareDone, RemoveRelease, RemoveClose,
    RemoveDocker, RemoveDone, Refuse, Fail, Recreate, Resting
<1>2. NotFlagged(at[a])
  <2>1. PrepareDone(a) \/ RemoveDone(a) => NotFlagged(at[a])
    BY RowsFlagNothing DEF PrepareDone, RemoveDone
  <2>2. QED
    BY <2>1, MarksFlagNothing DEF BuildStep, PrepareChecked, PrepareBuild, RemoveRelease,
      RemoveClose, RemoveDocker, Refuse, Fail
<1>3. /\ pc[a] # "start_done"
      /\ pc'[a] \in {"prepare_build", "prepare_lost", "prepare_done", "remove_close", "remove_docker",
                     "remove_done", "idle"}
  BY GoLeaves, ReleaseLeaves DEF BuildStep, PrepareChecked, PrepareBuild, PrepareDone, RemoveRelease,
    RemoveClose, RemoveDocker, RemoveDone, Refuse, Fail
<1>4. QED
  BY <1>1, <1>2, <1>3, CleanOn DEF CleanOf, Starting

\* Whoever takes a server that sleeps takes one at rest.
LEMMA EnterClean ==
  ASSUME Typed, OneOwner, NEW a \in Actor, NEW s \in Server, Clean(s), WakeBegin(a, s) \/ Begin(a, s)
  PROVE  CleanOf(a)'
<1> USE DEF Typed
<1>1. /\ s \notin busy /\ at'[a] = s /\ snap'[a] = rec[s] /\ ctr' = ctr
      /\ pc'[a] \in {"wake_close", "wake_mark", "start_check", "stop_begin", "restart_check",
                     "prepare_check", "remove_begin"}
      /\ WakeBegin(a, s) => rec[s].hibernated
      /\ Begin(a, s) => pc'[a] \notin {"wake_close", "wake_mark"}
  BY DEF WakeBegin, Begin, LifecycleBegin, Acquire, Go, ActorTypeOK, dockVars
<1>2. rec[s].hibernated => ctr[s] \in Resting
  BY <1>1 DEF Clean, OneOwner
<1>3. QED
  BY <1>1, <1>2 DEF CleanOf, Starting

LEMMA OwnerClean ==
  ASSUME Typed, OneOwner, NEW a \in Actor, ActorStep(a), CleanOf(a), \A s \in Server : Clean(s)
  PROVE  CleanOf(a)' /\ (pc[a] \in Owned => CleanStep(a))
<1> USE DEF Typed
<1>1. CASE pc[a] \in Owned
  <2>1. at[a] \in Server
    BY <1>1, AtServer DEF Owned, Homeless
  <2>2. \/ SleepStep(a) \/ WakeStep(a) \/ ReconcileNext(a) \/ StartStep(a) \/ StopStep(a)
        \/ BuildStep(a) \/ Refuse(a) \/ Fail(a)
    BY <1>1 DEF ActorStep, ClientStep, Owned, RefreshApply, RefreshBegin, ReadInspect, ReadApply,
      ReadBegin, EvaluateNext, EvaluateOccupied, EvaluateEmpty, EvaluateBegin, PressureSleep,
      SleepAllowed, SleepBegin, WakeBegin, Begin, LifecycleBegin, Acquire
  <2>3. CASE SleepStep(a) \/ ReconcileNext(a)
    <3>1. CleanStep(a)
      BY <1>1, <2>1, <2>3, SleepClean, TurnClean
    <3>2. pc'[a] \in SleepLabels \cup TurnLabels \cup {"idle"}
      BY <2>3, SleepLands, TurnLands DEF Lands
    <3>3. QED
      BY <3>1, <3>2 DEF CleanOf, SleepLabels, TurnLabels, Starting
  <2>4. QED
    BY <1>1, <2>1, <2>2, <2>3, WakeClean, StartClean, StopClean, BuildClean
<1>2. CASE pc[a] \notin Owned
  <2>1. CASE \E s \in Server : WakeBegin(a, s) \/ Begin(a, s)
    BY <1>2, <2>1, EnterClean
  <2>2. CASE ~\E s \in Server : WakeBegin(a, s) \/ Begin(a, s)
    <3>1. ~WakeStep(a) /\ ~ClientStep(a)
      BY <1>2 DEF Owned, WakeStep, WakeClose, WakeMark, WakeDocker, WakeDone, WakeFail, RestoreListen,
        ClientStep, StartStep, StopStep, BuildStep, Refuse, Fail, StartChecked, DepsChecked,
        StartRelease, StartClose, StartDocker, StartDone, StartFail, StopRelease, StopClose, StopMark,
        StopRcon, StopWait, StopDocker, StopDone, RestartChecked, RestartStop, PrepareChecked,
        PrepareBuild, PrepareDone, RemoveRelease, RemoveClose, RemoveDocker, RemoveDone
    <3>2. pc'[a] \in SleepLabels \cup TurnLabels \cup LookLabels \cup {"idle"}
      BY <2>2, <3>1, SleepLands, LookLands, TurnLands, EnterLands DEF ActorStep, Lands, SleepLabels
    <3>3. QED
      BY <1>2, <3>2 DEF CleanOf, SleepLabels, TurnLabels, LookLabels, Starting
  <2>3. QED
    BY <1>2, <2>1, <2>2
<1>3. QED
  BY <1>1, <1>2

LEMMA NextClean ==
  ASSUME TypeOK, OneOwner, OneOwner', ~External, CleanInv, [Next]_panelVars
  PROVE  CleanInv'
<1>0. Typed
  BY DEF TypeOK, Typed
<1>1. ASSUME NEW a \in Actor, ActorStep(a), UNCHANGED crashes, crashes = 0 PROVE CleanInv'
  <2>1. Alone(a)
    BY <1>0, <1>1, StepAlone
  <2>2. CleanOf(a)' /\ (pc[a] \in Owned => CleanStep(a))
    BY <1>0, <1>1, OwnerClean DEF CleanInv
  <2>3. ASSUME NEW b \in Actor PROVE CleanOf(b)'
    <3>1. CASE b # a /\ pc[b] \in Owned
      BY <1>0, <1>1, <2>1, <3>1, OwnedIsLeft DEF CleanInv, CleanOf
    <3>2. CASE b # a /\ pc[b] \notin Owned
      BY <2>1, <3>2 DEF Alone, OthersStay, CleanOf, Owned, Starting
    <3>3. QED
      BY <2>2, <3>1, <3>2
  <2>4. ASSUME NEW s \in Server PROVE Clean(s)'
    <3>1. CASE Owns(a, s)
      BY <2>2, <3>1 DEF Owns, CleanStep, Clean, Owned
    <3>2. CASE ~Owns(a, s)
      <4>1. ctr'[s] = ctr[s] /\ NotFlagged(s)
        BY <2>1, <3>2 DEF Alone, DockLeft, RowsLeft, RowLeft, NotFlagged
      <4>2. \A b \in Actor : Owns(b, s) => Owns(b, s)' /\ pc'[b] = pc[b]
        BY <2>1, <3>2 DEF Alone, OthersStay, Owns
      <4>3. QED
        BY <1>1, <4>1, <4>2 DEF CleanInv, Clean, NotFlagged
    <3>3. QED
      BY <3>1, <3>2
  <2>5. QED
    BY <2>3, <2>4 DEF CleanInv
<1>2. CASE UNCHANGED <<pc, at, snap, rec, ctr, crashes>>
  BY <1>2 DEF CleanInv, CleanOf, Clean, Owns
<1>3. CASE Environment
  <2>1. \A s \in Server : ctr[s] \in Resting => ctr'[s] = ctr[s]
    BY <1>0, <1>3, EnvironmentStartsNothing DEF Resting, Running
  <2>2. \A b \in Actor : pc[b] \in Owned => at[b] \in Server
    BY <1>0, AtServer DEF Typed, Owned, Homeless
  <2>3. UNCHANGED <<pc, at, snap, rec, crashes>>
    BY <1>3 DEF Environment, actorVars, rowVars
  <2>4. QED
    BY <2>1, <2>2, <2>3 DEF CleanInv, CleanOf, Clean, Owns, Owned, Starting
<1>4. CASE Crash
  <2>1. crashes' # 0
    BY <1>4, EnvironmentAssumption DEF Crash, TypeOK
  <2>2. QED
    BY <2>1 DEF CleanInv
<1>5. QED
  BY <1>1, <1>2, <1>3, <1>4, WorkSteps DEF Next, Work, ClockStep, actorVars, rowVars, dockVars,
    panelVars, vars, CleanInv

LEMMA InitClean == Init => CleanInv
<1> SUFFICES ASSUME Init PROVE CleanInv
  OBVIOUS
<1>1. PICK kind \in [Server -> Kind] :
        /\ rec = [s \in Server |-> [status |-> StatusOf[kind[s]],
                                   hibernated |-> kind[s] = "asleep", container |-> 1,
                                   error |-> IF kind[s] = "leaving" THEN "other" ELSE "none"]]
        /\ ctr = [s \in Server |-> CtrOf[kind[s]]]
  BY DEF Init
<1>2. ASSUME NEW s \in Server PROVE Clean(s)
  <2>1. rec[s].hibernated => kind[s] = "asleep"
    BY <1>1
  <2>2. CtrOf["asleep"] = "clean"
    BY DEF CtrOf
  <2>3. ctr[s] = CtrOf[kind[s]]
    BY <1>1
  <2>4. QED
    BY <2>1, <2>2, <2>3 DEF Clean, Resting
<1>3. \A a \in Actor : CleanOf(a)
  BY DEF Init, CleanOf, Starting
<1>4. QED
  BY <1>2, <1>3 DEF CleanInv

\* What the panel tells of a sleep is true as long as the backend has not crashed
\* and only the panel starts containers: a sleep that was committed and not
\* finished shows as an error, and what is flagged asleep neither runs nor crashed.
\* (Without GET /:id/status, which writes a status over what was told.)
THEOREM SleepsAreToldOf ==
  ASSUME Reader = {}, ~External
  PROVE  Spec => [](crashes = 0 => SleepsAreTold)
<1>1. ToldInv /\ CleanInv /\ OneOwner => (crashes = 0 => SleepsAreTold)
  BY DEF ToldInv, Told, CleanInv, Clean, OneOwner, SleepsAreTold, SlowSleepTold, AsleepIsClean,
    Resting, Running
<1>2. TypeOK /\ OneOwner /\ OneOwner' /\ ToldInv /\ CleanInv /\ [Next]_panelVars => ToldInv' /\ CleanInv'
  BY NextTold, NextClean
<1>3. QED
  BY <1>1, <1>2, InitTold, InitClean, TypeCorrect, OwnersExclusive, PTL DEF Spec

\* That part of it that is about crashes of servers needs no such restriction.
THEOREM CrashIsNoSleep ==
  ASSUME ~External
  PROVE  Spec => [](crashes = 0 => AsleepIsClean)
<1>1. CleanInv /\ OneOwner => (crashes = 0 => AsleepIsClean)
  BY DEF CleanInv, Clean, OneOwner, AsleepIsClean, Resting, Running
<1>2. TypeOK /\ OneOwner /\ OneOwner' /\ CleanInv /\ [Next]_panelVars => CleanInv'
  BY NextClean
<1>3. QED
  BY <1>1, <1>2, InitClean, TypeCorrect, OwnersExclusive, PTL DEF Spec
=============================================================================
