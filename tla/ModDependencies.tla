--------------------------- MODULE ModDependencies ---------------------------
(***************************************************************************)
(* Repairing the mods of a server: while a mod that another one requires   *)
(* is missing, candidates for it are fetched and tried, each against all   *)
(* requirements known by then, with backtracking; a complete set is linked *)
(* into mods/ file by file, and taken out again when anything fails.       *)
(*                                                                         *)
(* A file is one version of one mod.  What the pack's own mods require is  *)
(* put together as the requirement of Pack.                                *)
(***************************************************************************)
EXTENDS Naturals, SequencesExt

CONSTANTS
  Id, Version,
  Pack,
  Wishes   \* what files can require: functions from files, and Pack

VARIABLES
  wants,    \* what each file requires: versions of another mod, {} for nothing
  offered,  \* files the sources can deliver
  mods,     \* files in mods/, besides the pack's own
  before,   \* mods/ as it was when the repair began
  pc,       \* what the repair is at
  frames,   \* the search: what is missing, what is left to try, what was added
  adding,   \* a complete set of additions
  linked,   \* those in mods/ already
  result    \* how the latest repair ended

modVars == <<wants, offered, mods, before, pc, frames, adding, linked, result>>

File == Id \X Version
Owner == {Pack} \cup File

ModAssumption == Wishes \subseteq [Owner -> [Id -> SUBSET Version]] /\ IsFiniteSet(File)

Requirements(S, id) == {wants[o][id]: o \in {Pack} \cup S} \ {{}}
Satisfies(S, f) == \A r \in Requirements(S, f[1]): f[2] \in r

\* An installed mod that does not satisfy a requirement ends the attempt:
\* mods are added, never replaced.
Clash(S) == \E f \in S: ~Satisfies(S, f)
Missing(S) == {id \in Id: Requirements(S, id) # {} /\ \A f \in S: f[1] # id}

Init ==
  /\ wants \in Wishes
  /\ offered \in SUBSET File
  /\ mods \in {{}} \cup {{f}: f \in File}
  /\ before = {} /\ pc = "idle" /\ frames = <<>> /\ adding = {} /\ linked = {}
  /\ result = "none"

Searching(id, S) == [id |-> id, left |-> {f \in offered: f[1] = id}, added |-> S]
Fails == pc' = "idle" /\ result' = "failed" /\ frames' = <<>> /\ adding' = {} /\ linked' = {}

EnsureModDependencies ==
  /\ pc = "idle" /\ before' = mods
  /\ \/ Clash(mods) /\ Fails
     \/ /\ ~Clash(mods) /\ Missing(mods) = {}
        /\ result' = "complete" /\ UNCHANGED <<pc, frames, adding, linked>>
     \/ /\ ~Clash(mods) /\ pc' = "solve" /\ result' = "none"
        /\ \E id \in Missing(mods): frames' = <<Searching(id, {})>>
        /\ UNCHANGED <<adding, linked>>
  /\ UNCHANGED <<wants, offered, mods>>

\* Broken on purpose (for RepairsHold): what a candidate brings is not looked at.
TryBlindly(f) ==
  LET top == Last(frames)
      added == top.added \cup {f}
      rest == [frames EXCEPT ![Len(frames)].left = @ \ {f}] IN
  /\ pc = "solve" /\ f \in top.left
  /\ IF Missing(mods \cup added) = {}
     THEN pc' = "link" /\ adding' = added /\ frames' = <<>>
     ELSE /\ \E id \in Missing(mods \cup added): frames' = Append(rest, Searching(id, added))
          /\ UNCHANGED <<pc, adding>>
  /\ UNCHANGED <<wants, offered, mods, before, linked, result>>

\* A candidate must satisfy every requirement known by now.  It is dropped when
\* what it brings clashes with what is there.
Try(f) ==
  LET top == Last(frames)
      added == top.added \cup {f}
      rest == [frames EXCEPT ![Len(frames)].left = @ \ {f}] IN
  /\ pc = "solve" /\ f \in top.left
  /\ \/ /\ ~Satisfies(mods \cup top.added, f) \/ Clash(mods \cup added)
        /\ frames' = rest /\ UNCHANGED <<pc, adding>>
     \/ /\ Satisfies(mods \cup top.added, f) /\ ~Clash(mods \cup added)
        /\ IF Missing(mods \cup added) = {}
           THEN pc' = "link" /\ adding' = added /\ frames' = <<>>
           ELSE /\ \E id \in Missing(mods \cup added): frames' = Append(rest, Searching(id, added))
                /\ UNCHANGED <<pc, adding>>
  /\ UNCHANGED <<wants, offered, mods, before, linked, result>>

\* No candidate is left: the file that asked for this mod is dropped too.
Backtrack ==
  /\ pc = "solve" /\ Last(frames).left = {}
  /\ IF Len(frames) = 1 THEN Fails
     ELSE frames' = Front(frames) /\ UNCHANGED <<pc, adding, linked, result>>
  /\ UNCHANGED <<wants, offered, mods, before>>

Link(f) ==
  /\ pc = "link" /\ f \in adding \ linked
  /\ linked' = linked \cup {f} /\ mods' = mods \cup {f}
  /\ UNCHANGED <<wants, offered, before, pc, frames, adding, result>>

\* The report is the last thing written.
Installed ==
  /\ pc = "link" /\ linked = adding
  /\ pc' = "idle" /\ result' = "installed" /\ adding' = {} /\ linked' = {}
  /\ UNCHANGED <<wants, offered, mods, before, frames>>

\* A link or the report fails.  Taking a link out may fail as well.
TakenOut ==
  /\ pc = "link"
  /\ \E stuck \in SUBSET linked:
       /\ mods' = (mods \ linked) \cup stuck
       /\ pc' = "idle" /\ result' = IF stuck = {} THEN "not linked" ELSE "half linked"
  /\ frames' = <<>> /\ adding' = {} /\ linked' = {}
  /\ UNCHANGED <<wants, offered, before>>

BackendStops ==
  /\ pc # "idle"
  /\ pc' = "idle" /\ result' = "none" /\ frames' = <<>> /\ adding' = {} /\ linked' = {}
  /\ UNCHANGED <<wants, offered, mods, before>>

Next ==
  \/ EnsureModDependencies \/ Backtrack \/ Installed \/ TakenOut \/ BackendStops
  \/ \E f \in File: Try(f) \/ Link(f)

Spec == Init /\ [][Next]_modVars

(***************************************************************************)
(* What a repair promises.                                                 *)
(***************************************************************************)
Consistent(S) == ~Clash(S) /\ Missing(S) = {} /\ \A f, g \in S: f[1] = g[1] => f = g
Solvable(S) == \E T \in SUBSET offered: Consistent(S \cup T)

\* A repair that went through leaves every requirement met, by one file each,
\* and every earlier file in place.  One that failed leaves mods/ as it was,
\* and it fails for want of candidates only if no choice of them would do.
RepairsAreRight ==
  /\ result \in {"installed", "complete"} /\ pc = "idle" => Consistent(mods) /\ before \subseteq mods
  /\ result \in {"failed", "not linked"} /\ pc = "idle" => mods = before
  /\ result = "failed" /\ pc = "idle" => ~Solvable(mods)

\* A repair cut short by a crash, or half undone, can be finished later: the
\* links it left are part of a solution.
StaysSolvable == [][Solvable(mods) => Solvable(mods')]_modVars

\* A repair ends well, or leaves what another one can finish.
RepairsHold == []RepairsAreRight /\ StaysSolvable
=============================================================================
