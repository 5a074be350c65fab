-------------------------- MODULE ServerOperations --------------------------
(***************************************************************************)
(* Long requests of the dashboard.  A tab asks for an operation on the     *)
(* server and gets back at once the id of a job, or a refusal while        *)
(* another one holds the server; it then polls the job's row until the row *)
(* has the answer.  The job goes on whatever becomes of the tab, and a     *)
(* backend that starts up marks the jobs it finds running as failed.       *)
(***************************************************************************)
EXTENDS Naturals

CONSTANTS
  Caller,  \* dashboard tabs
  MaxJob   \* jobs of a behaviour

OperationsAssumption == MaxJob \in Nat \ {0}

VARIABLES
  calls,   \* what each tab is at
  rows,    \* the rows of server_operations, by job
  work,    \* what became of each job's action: part or all of it
  busy,    \* the job that holds the server, 0 for none
  began    \* the jobs so far

operationsVars == <<calls, rows, work, busy, began>>

Job == 1 .. MaxJob
AtRest == [is |-> "at rest"]
Unsure == [is |-> "unsure"]
On(job, is) == [is |-> is, job |-> job]
Told(job, status) == [is |-> "told", job |-> job, status |-> status]

Init ==
  /\ calls = [t \in Caller |-> AtRest]
  /\ rows = [j \in Job |-> "none"] /\ work = [j \in Job |-> "none"]
  /\ busy = 0 /\ began = 0

Becomes(t, c) == calls' = [calls EXCEPT ![t] = c]

Ask(t) ==
  /\ calls[t] = AtRest
  /\ Becomes(t, [is |-> "asking"])
  /\ UNCHANGED <<rows, work, busy, began>>

\* serverMutation: refused while the server is held, else a row, the answer
\* 202, and the action goes on by itself.
Accept(t) ==
  /\ calls[t].is = "asking"
  /\ IF busy # 0
     THEN /\ Becomes(t, [is |-> "refused"])
          /\ UNCHANGED <<rows, work, busy, began>>
     ELSE /\ began < MaxJob
          /\ began' = began + 1 /\ busy' = began + 1
          /\ rows' = [rows EXCEPT ![began + 1] = "running"]
          /\ work' = [work EXCEPT ![began + 1] = "going"]
          /\ Becomes(t, On(began + 1, "accepted"))

\* The request, or the answer to it, is lost: the tab cannot tell which.
ConnectionLost(t) ==
  /\ calls[t].is \in {"asking", "accepted", "polling"}
  /\ Becomes(t, Unsure)
  /\ UNCHANGED <<rows, work, busy, began>>

BeginPolling(t) ==
  /\ calls[t].is = "accepted"
  /\ Becomes(t, On(calls[t].job, "polling"))
  /\ UNCHANGED <<rows, work, busy, began>>

\* A poll that finds the job running changes nothing.
Poll(t) ==
  /\ calls[t].is = "polling" /\ rows[calls[t].job] # "running"
  /\ Becomes(t, Told(calls[t].job, rows[calls[t].job]))
  /\ UNCHANGED <<rows, work, busy, began>>

\* The user has read the outcome.
Dismiss(t) ==
  /\ calls[t].is \in {"told", "refused", "unsure"}
  /\ Becomes(t, AtRest)
  /\ UNCHANGED <<rows, work, busy, began>>

\* The action returns or throws, its row gets the answer, the server is free.
FinishJob(j) ==
  /\ busy = j /\ work[j] = "going"
  /\ \E whole \in BOOLEAN:
       /\ work' = [work EXCEPT ![j] = IF whole THEN "done" ELSE "given up"]
       /\ rows' = [rows EXCEPT ![j] = IF whole THEN "completed" ELSE "failed"]
  /\ busy' = 0
  /\ UNCHANGED <<calls, began>>

\* Broken on purpose (for CallsAreAnswered): the rows are left as they are.
RestartUnswept ==
  /\ busy # 0
  /\ work' = [j \in Job |-> IF work[j] = "going" THEN "cut short" ELSE work[j]]
  /\ busy' = 0
  /\ UNCHANGED <<calls, began, rows>>

\* A crash cuts the action short; the start that follows closes its row.
BackendRestarts ==
  /\ busy # 0
  /\ work' = [j \in Job |-> IF work[j] = "going" THEN "cut short" ELSE work[j]]
  /\ rows' = [j \in Job |-> IF rows[j] = "running" THEN "failed" ELSE rows[j]]
  /\ busy' = 0
  /\ UNCHANGED <<calls, began>>

TabStep(t) ==
  Ask(t) \/ Accept(t) \/ ConnectionLost(t) \/ BeginPolling(t) \/ Poll(t) \/ Dismiss(t)

Next == (\E t \in Caller: TabStep(t)) \/ (\E j \in Job: FinishJob(j)) \/ BackendRestarts

(***************************************************************************)
(* What a tab is told.                                                     *)
(***************************************************************************)

\* "Completed" is said of work that was done whole, "failed" of work that no
\* longer goes on, of this tab's own job whoever's came before or after.
AnswersAreTrue ==
  \A t \in Caller: calls[t].is = "told" =>
    /\ calls[t].status = "completed" => work[calls[t].job] = "done"
    /\ calls[t].status = "failed" => work[calls[t].job] \in {"given up", "cut short"}

\* No tab polls forever, through crashes and restarts: it polls every 750 ms
\* for as long as it takes, and an action ends, or the restart closes its row.
CallsEnd == \A t \in Caller: []<>(calls[t].is # "polling")

\* A tab gets the truth, and gets it.
CallsAreAnswered == []AnswersAreTrue /\ CallsEnd
=============================================================================
