-------------------------- MODULE ContainerReadings --------------------------
(***************************************************************************)
(* Two readings of a running container that take several calls to Docker:  *)
(* whether its game is ready to be joined (isReady), from Docker's log and *)
(* then from logs/latest.log, and the heap its JVM was given               *)
(* (performJvmMemoryInspection).  The container can stop and start again   *)
(* between any two calls.                                                  *)
(*                                                                         *)
(* A line of the log has the boot that wrote it, a kind and a time: "start"*)
(* and "ready" match startPatterns and readyPatterns.  Times count from 1, *)
(* so that 0 is a time that is not known.  One reading is under way at a   *)
(* time: the two share nothing but the container.                          *)
(***************************************************************************)
EXTENDS Integers, Sequences, FiniteSets

CONSTANTS
  MaxBoot, MaxLines, MaxTime,  \* bounds of a behaviour
  Day,                         \* a day; lines carry the time of day
  Slack,                       \* how much older than the start a line may be
  LogTail, FileTail               \* lines read of Docker's log, and of the file

ReadingsAssumption ==
  /\ {MaxBoot, MaxLines, MaxTime, Day, LogTail, FileTail} \subseteq Nat \ {0}
  /\ Slack \in Nat

VARIABLES
  boot, live, startedAt,  \* the container: boots so far, whether it runs, since when
  time,
  log,                    \* every line since the container was made
  check,                  \* a readiness check that is under way
  verdict,                \* the answer of the latest reading, with the boot it looked at
  study,                  \* a memory inspection that is under way
  report,                 \* the report of the latest reading
  helper                  \* the attach helper lies in the container

containerVars == <<boot, live, startedAt, time, log>>
checkVars == <<check, verdict>>
studyVars == <<study, report, helper>>
vars == <<containerVars, checkVars, studyVars>>

Kind == {"start", "ready", "other"}
NotKnown == 0
NoCheck == [step |-> "none", seen |-> NotKnown, since |-> NotKnown]
NoVerdict == [ready |-> FALSE, seen |-> NotKnown]
NoStudy == [step |-> "none", before |-> NotKnown, flags |-> NotKnown]
NoReport == [flags |-> NotKnown, after |-> NotKnown]

-----------------------------------------------------------------------------
(* The container.                                                          *)

Starts ==
  /\ ~ live /\ boot < MaxBoot /\ time < MaxTime
  /\ boot' = boot + 1 /\ live' = TRUE
  /\ time' = time + 1 /\ startedAt' = time'
  /\ UNCHANGED <<log, checkVars, studyVars>>

Stops ==
  /\ live /\ live' = FALSE
  /\ UNCHANGED <<boot, startedAt, time, log, checkVars, studyVars>>

Writes ==
  /\ live /\ Len(log) < MaxLines
  /\ \E kind \in Kind: log' = Append(log, [boot |-> boot, kind |-> kind, at |-> time])
  /\ UNCHANGED <<boot, live, startedAt, time, checkVars, studyVars>>

TimePasses ==
  /\ time < MaxTime /\ time' = time + 1
  /\ UNCHANGED <<boot, live, startedAt, log, checkVars, studyVars>>

\* What is read of a log is a set of the positions of its lines, here the ones
\* of latest.log, which the game begins anew with its first line of a boot.
LatestLog == {i \in DOMAIN log: log[i].boot = log[Len(log)].boot}

\* The last n of them.
AtMost(lines, n) == {i \in lines: Cardinality({j \in lines: j > i}) < n}

-----------------------------------------------------------------------------
(* isReady.                                                                *)

Newest(lines, kind) == LET at == {i \in lines: log[i].kind = kind}
                       IN IF at = {} THEN 0 ELSE CHOOSE i \in at: \A j \in at: j <= i

\* extractLogTime: the line's time of day, on the day of the start.
LogTime(line, since) == ((since \div Day) * Day) + (line.at % Day)

HasReadySignal(lines, requireStartLine, since) ==
  LET ready == Newest(lines, "ready")
      start == Newest(lines, "start") IN
  /\ ready > 0
  /\ \/ ~ requireStartLine
     \/ start > 0 /\ ready > start
     \/ start = 0 /\ since # NotKnown /\ LogTime(log[ready], since) + Slack >= since

\* Docker's lines of this boot; of every boot, when the start is not known.
DockerLog(since) == AtMost({i \in DOMAIN log: log[i].at >= since}, LogTail)

\* Broken on purpose (for AnswersBelong): a file of any age.
FileOfAnyAge(since) == AtMost(LatestLog, FileTail)

\* Nothing of a file that was last written before the start.
LogFile(since) ==
  IF log = <<>> \/ log[Len(log)].at < since THEN {} ELSE AtMost(LatestLog, FileTail)

\* A status poll, or the audit of the memory pool, finds the container running.
BeginCheck ==
  /\ check = NoCheck /\ study = NoStudy /\ live
  /\ check' = [NoCheck EXCEPT !.step = "inspect"]
  /\ verdict' = NoVerdict /\ report' = NoReport
  /\ UNCHANGED <<containerVars, study, helper>>

\* A call that fails leaves the start unknown, ...
Inspect ==
  /\ check.step = "inspect"
  /\ check' \in {[step |-> "logs", seen |-> boot, since |-> startedAt], [NoCheck EXCEPT !.step = "logs"]}
  /\ UNCHANGED <<containerVars, verdict, studyVars>>

Answers(ready) == check' = NoCheck /\ verdict' = [ready |-> ready, seen |-> check.seen]

\* ... and a log that cannot be read leaves the file.
ScanLogs ==
  /\ check.step = "logs"
  /\ \/ HasReadySignal(DockerLog(check.since), FALSE, check.since) /\ Answers(TRUE)
     \/ check' = [check EXCEPT !.step = "file"] /\ UNCHANGED verdict
  /\ UNCHANGED <<containerVars, studyVars>>

ScanFile ==
  /\ check.step = "file"
  /\ Answers(HasReadySignal(LogFile(check.since), TRUE, check.since))
  /\ UNCHANGED <<containerVars, studyVars>>

-----------------------------------------------------------------------------
(* performJvmMemoryInspection.  A second caller shares the one under way.  *)

BeginStudy ==
  /\ study = NoStudy /\ check = NoCheck /\ live
  /\ study' = [step |-> "flags", before |-> boot, flags |-> NotKnown]
  /\ report' = NoReport /\ verdict' = NoVerdict
  /\ UNCHANGED <<containerVars, check, helper>>

\* The JVM's flags; or this runtime has no jcmd and the helper is copied in; or
\* the command fails in the container.
ReadFlags ==
  /\ study.step = "flags" /\ live
  /\ study' \in {[study EXCEPT !.step = "after", !.flags = boot], [study EXCEPT !.step = "after"],
                 [study EXCEPT !.step = "helper"]}
  /\ helper' = (helper \/ study'.step = "helper")
  /\ UNCHANGED <<containerVars, checkVars, report>>

ReadFlagsWithHelper ==
  /\ study.step = "helper" /\ live
  /\ study' \in {[study EXCEPT !.step = "after", !.flags = boot], [study EXCEPT !.step = "after"]}
  /\ UNCHANGED <<containerVars, checkVars, report, helper>>

\* Broken on purpose (for AnswersBelong): running again is good enough.
StillRunning == live

\* The container is the one of the beginning, and has not been started since.
Unchanged == live /\ study.before = boot

\* The report; the helper is removed if the container still takes commands.
Report(is) ==
  /\ report' = is /\ study' = NoStudy
  /\ helper' = (helper /\ ~ live)
  /\ UNCHANGED <<containerVars, checkVars>>

InspectAgain ==
  /\ study.step = "after"
  /\ Report(IF Unchanged /\ study.flags # NotKnown THEN [flags |-> study.flags, after |-> boot] ELSE NoReport)

\* A command cannot be run, or takes too long.
StudyFails == study # NoStudy /\ Report(NoReport)

-----------------------------------------------------------------------------

Init ==
  /\ boot = 1 /\ live = TRUE /\ startedAt = 1 /\ time = 1 /\ log = <<>>
  /\ check = NoCheck /\ verdict = NoVerdict
  /\ study = NoStudy /\ report = NoReport /\ helper = FALSE

Next ==
  \/ Starts \/ Stops \/ Writes \/ TimePasses
  \/ BeginCheck \/ Inspect \/ ScanLogs \/ ScanFile
  \/ BeginStudy \/ ReadFlags \/ ReadFlagsWithHelper \/ InspectAgain \/ StudyFails

Spec == Init /\ [][Next]_vars

-----------------------------------------------------------------------------
(* Properties.                                                             *)

\* A game is not called ready for a line that an earlier boot has written: the
\* boot the check looked at, or a later one, has said that it is.
ReadyIsOfThisBoot ==
  verdict.ready /\ verdict.seen # NotKnown =>
    \E i \in DOMAIN log: log[i].kind = "ready" /\ log[i].boot >= verdict.seen

\* A report never joins the heap of one boot with the container of another.
ReportIsOfOneBoot == report.flags = report.after

\* Neither reading mixes two boots of the container.
ReadingsAreCurrent == ReadyIsOfThisBoot /\ ReportIsOfOneBoot

\* What isReady reads the start time for, and what a failed inspection undoes:
\* a game is called ready only when its own boot has said so.
ReadyWithoutInspection ==
  [][check.since = NotKnown /\ verdict'.ready /\ ~verdict.ready =>
       \E i \in DOMAIN log: log[i].kind = "ready" /\ log[i].boot = boot]_vars
=============================================================================
