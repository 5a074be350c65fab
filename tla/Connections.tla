---------------------------- MODULE Connections ----------------------------
(***************************************************************************)
(* The parts of the backend that talk to players' clients and to running   *)
(* games: the gateway, the RCON client, the TPS readings, and the readings *)
(* of readiness and heap.  They share no state, so a behaviour follows one *)
(* of them and leaves the others where they begin.                         *)
(***************************************************************************)
EXTENDS Gateway

CONSTANTS
  Command, Full, Exact,
  MaxRun, MostPoints, Tabs,
  MaxBoot, MaxLines, MaxTime, Day, Slack, LogTail, FileTail

VARIABLES
  part,   \* the part this behaviour follows
  phase, inFlight, grace, answers, toGame, game, toClient, hasty,
  run, up, entry, orphans, sample, waiting, looks, stopSeen,
  boot, live, startedAt, time, log, check, verdict, study, report, helper

Rcon == INSTANCE RconClient
Tps == INSTANCE TpsCache
Readings == INSTANCE ContainerReadings

ASSUME ConnectionsAssumption ==
  Rcon!RconAssumption /\ Tps!TpsAssumption /\ Readings!ReadingsAssumption

rconVars == <<phase, inFlight, grace, answers, toGame, game, toClient, hasty>>
tpsVars == <<run, up, entry, orphans, sample, waiting, looks, stopSeen>>
readingVars == <<boot, live, startedAt, time, log, check, verdict, study, report, helper>>
parts == <<vars, rconVars, tpsVars, readingVars, part>>

ConnectionsInit ==
  /\ Init /\ Rcon!Init /\ Tps!Init /\ Readings!Init
  /\ part \in {"gateway", "rcon", "tps", "readings"}

GatewayStep(A) == part = "gateway" /\ A /\ UNCHANGED <<rconVars, tpsVars, readingVars, part>>
RconStep == part = "rcon" /\ Rcon!Next /\ UNCHANGED <<vars, tpsVars, readingVars, part>>
TpsStep == part = "tps" /\ Tps!Next /\ UNCHANGED <<vars, rconVars, readingVars, part>>
ReadingsStep == part = "readings" /\ Readings!Next /\ UNCHANGED <<vars, rconVars, tpsVars, part>>

\* A batch of commands is over some time, as are the boots of the bounds.
BatchOver ==
  /\ \/ part = "rcon" /\ phase \in {"done", "failed"} /\ toGame = <<>> /\ game = <<>>
     \/ part = "readings" /\ ~ live
  /\ UNCHANGED parts

ConnectionsNext == GatewayStep(Next) \/ RconStep \/ TpsStep \/ ReadingsStep \/ BatchOver

ConnectionsSpec ==
  /\ ConnectionsInit /\ [][ConnectionsNext]_parts
  /\ \A c \in Client: WF_parts(GatewayStep(Fires(c)))

\* Every command of an RCON batch gets its own, whole answer, a tab that has
\* seen the game stop is shown no reading of the run before, and neither
\* readiness nor heap is read across two boots.
AnswersBelong == Rcon!RepliesBelong /\ Tps!NoOldReadings /\ Readings!ReadingsAreCurrent

\* A client that asked to join is told what became of it, and no connection is
\* held for ever.
ClientsAreServed == JoinsAreAnswered /\ ConnectionsEnd
=============================================================================
