---------------------------- MODULE SnapshotView ----------------------------
(***************************************************************************)
(* The snapshots card of one tab.  It asks every three seconds for the     *)
(* latest job and then for the list; its buttons start and cancel jobs.    *)
(* Answers come back in any order, so each round of questions takes a      *)
(* revision, and an answer counts only while its revision is the newest.   *)
(*                                                                         *)
(* The backend's job is abstract here: it is the number of changes it has  *)
(* gone through, an even number when no job runs (SnapshotJobs has it).    *)
(***************************************************************************)
EXTENDS Naturals

CONSTANTS MaxStage, MaxRevision

ViewAssumption == {MaxStage, MaxRevision} \subseteq Nat

VARIABLES
  stage,    \* what the backend's job has come to
  shown,    \* the stage the card shows
  known,    \* the card trusts what it shows
  revision, \* the newest round of questions
  loads,    \* rounds of questions on their way
  button    \* a button pressed: its request and the answer to it

viewVars == <<stage, shown, known, revision, loads, button>>

Unpressed == [is |-> "unpressed"]
Running(s) == s % 2 = 1

Init ==
  /\ stage \in {0, 1} /\ shown = 0 /\ known = FALSE
  /\ revision = 0 /\ loads = {} /\ button = Unpressed

(***************************************************************************)
(* A round: the job is asked for, the answer comes, the list is asked for. *)
(***************************************************************************)
Round(is, at, ofPoll) == [is |-> is, at |-> at, ofPoll |-> ofPoll, stage |-> 0]

\* The poll waits for its own round to be over, not for those of the buttons.
PollAgain ==
  /\ revision < MaxRevision /\ ~\E l \in loads: l.ofPoll
  /\ revision' = revision + 1
  /\ loads' = loads \cup {Round("asked", revision + 1, TRUE)}
  /\ UNCHANGED <<stage, shown, known, button>>

JobRead(l) ==
  /\ l.is = "asked"
  /\ loads' = (loads \ {l}) \cup {[l EXCEPT !.is = "answered", !.stage = stage]}
  /\ UNCHANGED <<stage, shown, known, revision, button>>

\* Broken on purpose (for AcceptedStays): every answer counts.
AnyAnswer(l) == l.at > 0

Current(l) == l.at = revision

JobArrives(l) ==
  /\ l.is = "answered"
  /\ IF Current(l)
     THEN shown' = l.stage /\ known' = TRUE
     ELSE UNCHANGED <<shown, known>>
  /\ loads' = IF Current(l) THEN (loads \ {l}) \cup {Round("list", l.at, l.ofPoll)}
                            ELSE loads \ {l}
  /\ UNCHANGED <<stage, revision, button>>

\* The list changes nothing here, and neither does its failure.
ListArrives(l) ==
  /\ l.is = "list" /\ loads' = loads \ {l}
  /\ UNCHANGED <<stage, shown, known, revision, button>>

LoadFails(l) ==
  /\ l.is \in {"asked", "answered"}
  /\ loads' = loads \ {l}
  /\ known' = IF Current(l) THEN FALSE ELSE known
  /\ UNCHANGED <<stage, shown, revision, button>>

(***************************************************************************)
(* The buttons.  Pressing one makes the rounds under way too old; so does  *)
(* the answer, which carries the job as the request left it.               *)
(***************************************************************************)
Press(is) ==
  /\ button = Unpressed /\ known /\ revision < MaxRevision
  /\ is = IF Running(shown) THEN "cancel" ELSE "create"
  /\ revision' = revision + 1
  /\ button' = [is |-> is]
  /\ UNCHANGED <<stage, shown, known, loads>>

\* Accepted when it fits the job as it is by now.
Pressed ==
  /\ button.is \in {"create", "cancel"}
  /\ IF Running(stage) = (button.is = "cancel") /\ stage < MaxStage
     THEN stage' = stage + 1 /\ button' = [is |-> "accepted", stage |-> stage + 1]
     ELSE UNCHANGED stage /\ button' = [is |-> "refused"]
  /\ UNCHANGED <<shown, known, revision, loads>>

Accepted ==
  /\ button.is = "accepted" /\ revision + 1 < MaxRevision
  /\ shown' = button.stage /\ known' = TRUE
  /\ revision' = revision + 2
  /\ loads' = loads \cup {Round("asked", revision + 2, FALSE)}
  /\ button' = Unpressed
  /\ UNCHANGED stage

\* An error is shown and nothing else.
Refused ==
  /\ button.is # "unpressed" /\ button' = Unpressed
  /\ UNCHANGED <<stage, shown, known, revision, loads>>

\* The job moves by itself: it ends, or another tab starts one.
JobMoves ==
  /\ stage < MaxStage /\ stage' = stage + 1
  /\ UNCHANGED <<shown, known, revision, loads, button>>

Next ==
  \/ PollAgain \/ Pressed \/ Accepted \/ Refused \/ JobMoves
  \/ \E is \in {"create", "cancel"}: Press(is)
  \/ \E l \in loads: JobRead(l) \/ JobArrives(l) \/ ListArrives(l) \/ LoadFails(l)

(***************************************************************************)
(* What the card shows.                                                    *)
(***************************************************************************)

\* The card goes back to an earlier job only when the answer to a button comes
\* later than a round that already saw more, never by an answer to a round:
\* the job a button was told of stays shown, whatever comes late.
AcceptedStays ==
  [][shown' < shown => button.is = "accepted" /\ button' = Unpressed]_viewVars
=============================================================================
