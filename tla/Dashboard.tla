----------------------------- MODULE Dashboard -----------------------------
(***************************************************************************)
(* What a tab of the dashboard goes by: the sign-in, long requests, the    *)
(* settings forms, the snapshots card, the console, and the history behind *)
(* the metrics charts.  A behaviour follows one of them; the others stay   *)
(* where they begin.                                                       *)
(***************************************************************************)
EXTENDS Naturals

CONSTANTS
  Caller, MaxJob,
  Field, MaxChanges, MaxQueue,
  MaxStage, MaxRevision,
  Address, MaxFailures, Window, SweepThreshold, MaxClock,
  Middle, Coarse, FineWindow, MiddleWindow, CoarseWindow, PruneInterval, MaxDelay, MaxNow,
  Tab, Vanilla, Modded, HistoryLimit, MaxCommands

VARIABLES
  part,   \* what this behaviour follows
  calls, rows, work, busy, began,
  row, changes, open, sending, events, fetches, view, values, baseline, saving, byHand,
  stage, shown, known, revision, loads, button,
  clock, buckets, answer, tries, retryAt,
  now, acc, tick, ticked, preparing, listed, pruned, rollups, written,
  game, has, works, missing, entries, sent, commands, lines, reading, clearing, ran, doubted

Operations == INSTANCE ServerOperations
Forms == INSTANCE SettingsForms
Card == INSTANCE SnapshotView
SignIn == INSTANCE Login
History == INSTANCE Metrics
Prompt == INSTANCE Console

ASSUME DashboardAssumption ==
  /\ Operations!OperationsAssumption /\ Forms!FormAssumption /\ Card!ViewAssumption
  /\ SignIn!LoginAssumption /\ History!MetricsAssumption
  /\ Prompt!ConsoleAssumption

operationsVars == <<calls, rows, work, busy, began>>
formVars == <<row, changes, open, sending, events, fetches, view, values, baseline, saving, byHand>>
viewVars == <<stage, shown, known, revision, loads, button>>
loginVars == <<clock, buckets, answer, tries, retryAt>>
metricsVars == <<now, acc, tick, ticked, preparing, listed, pruned, rollups, written>>
consoleVars ==
  <<game, has, works, missing, entries, sent, commands, lines, reading, clearing, ran, doubted>>
vars == <<part, operationsVars, formVars, viewVars, loginVars, metricsVars, consoleVars>>

Init ==
  /\ part \in {"operations", "forms", "card", "login", "history", "console"}
  /\ Operations!Init /\ SignIn!Init
  /\ (part = "forms" \/ row = [f \in Field |-> 0]) /\ Forms!Init
  /\ (part = "card" \/ stage = 0) /\ Card!Init
  /\ (part = "history" \/ pruned = 0) /\ History!Init
  /\ (part = "console" \/ has = Vanilla) /\ Prompt!Init

OperationsStep(A) ==
  /\ part = "operations" /\ A
  /\ UNCHANGED <<part, formVars, viewVars, loginVars, metricsVars, consoleVars>>
FormsStep(A) ==
  /\ part = "forms" /\ A
  /\ UNCHANGED <<part, operationsVars, viewVars, loginVars, metricsVars, consoleVars>>
CardStep ==
  /\ part = "card" /\ Card!Next
  /\ UNCHANGED <<part, operationsVars, formVars, loginVars, metricsVars, consoleVars>>
LoginStep ==
  /\ part = "login" /\ SignIn!Next
  /\ UNCHANGED <<part, operationsVars, formVars, viewVars, metricsVars, consoleVars>>
HistoryStep ==
  /\ part = "history" /\ History!Next
  /\ UNCHANGED <<part, operationsVars, formVars, viewVars, loginVars, consoleVars>>
ConsoleStep(A) ==
  /\ part = "console" /\ A
  /\ UNCHANGED <<part, operationsVars, formVars, viewVars, loginVars, metricsVars>>

\* The card asks no more: the rounds of the bounds are used up.
CardStops == part = "card" /\ revision + 2 > MaxRevision /\ UNCHANGED vars

Next ==
  \/ OperationsStep(Operations!Next) \/ FormsStep(Forms!Next)
  \/ CardStep \/ LoginStep \/ HistoryStep \/ ConsoleStep(Prompt!Next) \/ CardStops

\* A tab polls for as long as it takes, and an action ends; the stream of an
\* open tab ticks, and what it sends arrives; a console call has a deadline.
Fairness ==
  /\ \A t \in Caller: WF_vars(OperationsStep(Operations!Poll(t)))
  /\ WF_vars(OperationsStep(\E j \in 1 .. MaxJob: Operations!FinishJob(j)))
  /\ WF_vars(FormsStep(Forms!TickBegins \/ Forms!TickSends))
  /\ WF_vars(FormsStep(Forms!EventArrives))
  /\ \A t \in Tab: WF_vars(ConsoleStep(Prompt!Carried(t)))

Spec == Init /\ [][Next]_vars /\ Fairness

(***************************************************************************)
(* What the modules promise, each with its reasons there.                  *)
(***************************************************************************)

\* A tab is told of its own job, and the truth; it does not poll forever.  What
\* the console shows as done was done, it refuses what the game called unknown
\* and nothing else, and it gives the prompt back.
CallsAreAnswered == Operations!CallsAreAnswered /\ Prompt!ConsoleHolds

\* No event, late answer or other tab takes an edit away; an open form without
\* edits comes to show the settings as they are.
FormsHold == Forms!FormsHold

\* No late answer takes the card back behind what a button was told.
AcceptedStays == Card!AcceptedStays

\* The limit on failed sign-ins is exact, and a client is never told a time to
\* come back at which it is refused again.
LimitIsFair == SignIn!LimitIsFair

\* A row of the history that is still served sums up all that was measured in
\* its period, and the peak start admission books has seen its whole window.
HistoryIsWhole == History!HistoryIsWhole
=============================================================================
