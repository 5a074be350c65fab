---------------------------- MODULE SettingsForms ----------------------------
(***************************************************************************)
(* One form of the settings page in one tab: what the tab knows of the     *)
(* server, through the event stream and through requests of its own, what  *)
(* the form shows, what the user edits, and what a save sends.  Other tabs *)
(* change the same settings.                                               *)
(*                                                                         *)
(* The form's effect, which copies what the tab knows into a form without  *)
(* edits, runs when that changes and when a save ends.                     *)
(***************************************************************************)
EXTENDS Naturals, Sequences

CONSTANTS
  Field,
  MaxChanges,  \* bound: changes of the row in a behaviour
  MaxQueue     \* bound: events on their way

FormAssumption == {MaxChanges, MaxQueue} \subseteq Nat \ {0}

VARIABLES
  row,       \* the settings in the server's row
  changes,   \* how often it changed
  open,      \* the tab is visible and has its stream
  sending,   \* the record the stream's tick began with, or NoTick
  events,    \* records on their way to the tab, in order
  fetches,   \* requests for the record: asked, or answered with one
  view,      \* the record the tab goes by
  values, baseline, \* the form, and what it counts as unedited
  saving,    \* the save under way: its patch sent, handled, answered
  byHand     \* the user took back an edit, the record moved on meanwhile

formVars == <<row, changes, open, sending, events, fetches, view, values, baseline, saving, byHand>>

Value == 0 .. 1
Record == [Field -> Value]
NoTick == [is |-> "no tick"]
NotSaving == [is |-> "not saving"]
Read(r) == [is |-> "read", record |-> r]

\* A request for the record, of the save or of another part of the page.
Asked(own) == [is |-> "asked", own |-> own]
Answered(own, r) == [is |-> "answered", own |-> own, record |-> r]

\* Broken on purpose (for FormsHold): a form is refreshed whatever was typed.
AlwaysPristine == TRUE

Pristine == values = baseline

Init ==
  /\ row \in Record /\ changes = 0 /\ open = TRUE
  /\ sending = NoTick /\ events = <<>> /\ fetches = {}
  /\ view = row /\ values = row /\ baseline = row
  /\ saving = NotSaving /\ byHand = FALSE

(***************************************************************************)
(* What the tab comes to know.                                             *)
(***************************************************************************)
Refreshed(r) ==
  IF Pristine THEN values' = r /\ baseline' = r /\ byHand' = FALSE ELSE UNCHANGED <<values, baseline, byHand>>

Learns(r) ==
  /\ view' = r
  /\ IF r # view /\ saving = NotSaving THEN Refreshed(r) ELSE UNCHANGED <<values, baseline, byHand>>

\* The room's tick reads the record, refreshes its status and sends what came
\* of it, the record it began with when the refresh failed.
TickBegins ==
  /\ open /\ sending = NoTick /\ Len(events) < MaxQueue
  /\ sending' = Read(row)
  /\ UNCHANGED <<row, changes, open, events, fetches, view, values, baseline, saving, byHand>>

TickSends ==
  /\ sending # NoTick /\ sending' = NoTick
  /\ events' \in {Append(events, r): r \in {sending.record, row}}
  /\ UNCHANGED <<row, changes, open, fetches, view, values, baseline, saving, byHand>>

EventArrives ==
  /\ events # <<>> /\ events' = Tail(events)
  /\ Learns(Head(events))
  /\ UNCHANGED <<row, changes, open, sending, fetches, saving>>

\* The tab is hidden: its stream closes, and the room with it.
Hides ==
  /\ open /\ open' = FALSE /\ events' = <<>> /\ sending' = NoTick
  /\ UNCHANGED <<row, changes, fetches, view, values, baseline, saving, byHand>>

\* A new stream begins with the record as it is.
Shows ==
  /\ ~open /\ open' = TRUE /\ events' = <<row>>
  /\ UNCHANGED <<row, changes, sending, fetches, view, values, baseline, saving, byHand>>

FetchServer(own) == fetches' = fetches \cup {Asked(own)}

FetchAnswered(own) ==
  /\ Asked(own) \in fetches
  /\ fetches' = (fetches \ {Asked(own)}) \cup {Answered(own, row)}
  /\ UNCHANGED <<row, changes, open, sending, events, view, values, baseline, saving, byHand>>

\* A request that fails changes nothing.
FetchArrives(f) ==
  /\ f.is = "answered" /\ ~f.own
  /\ fetches' = fetches \ {f}
  /\ Learns(f.record) \/ UNCHANGED <<view, values, baseline, byHand>>
  /\ UNCHANGED <<row, changes, open, sending, events, saving>>

\* The snapshots card asks when it restored one, the pack card when it saved.
OtherFetch ==
  /\ \A f \in fetches: f.own
  /\ FetchServer(FALSE)
  /\ UNCHANGED <<row, changes, open, sending, events, view, values, baseline, saving, byHand>>

(***************************************************************************)
(* The form.                                                               *)
(***************************************************************************)
Edit(field, value) ==
  /\ saving = NotSaving /\ values[field] # value
  /\ values' = [values EXCEPT ![field] = value]
  /\ byHand' = (values' = baseline /\ baseline # view)
  /\ UNCHANGED <<row, changes, open, sending, events, fetches, view, baseline, saving>>

Discard ==
  /\ saving = NotSaving /\ ~Pristine
  /\ values' = view /\ baseline' = view /\ byHand' = FALSE
  /\ UNCHANGED <<row, changes, open, sending, events, fetches, view, saving>>

\* The section as a whole: what was edited, the rest as the tab knows it.
ToPatch == [f \in Field |-> IF values[f] # baseline[f] THEN values[f] ELSE view[f]]
Edited == {f \in Field: values[f] # baseline[f]}

Save ==
  /\ saving = NotSaving /\ ~Pristine
  /\ saving' = [is |-> "sent", patch |-> ToPatch, edited |-> Edited]
  /\ UNCHANGED <<row, changes, open, sending, events, fetches, view, values, baseline, byHand>>

\* The backend may refuse, before or after it wrote the row.
SaveHandled ==
  /\ saving.is = "sent" /\ changes < MaxChanges
  /\ \E written, ok \in BOOLEAN:
       /\ ok => written
       /\ row' = IF written THEN saving.patch ELSE row
       /\ changes' = IF written THEN changes + 1 ELSE changes
       /\ saving' = [is |-> IF ok THEN "saved" ELSE "refused"]
  /\ UNCHANGED <<open, sending, events, fetches, view, values, baseline, byHand>>

SaveLost ==
  /\ saving.is = "sent" /\ changes >= MaxChanges /\ saving' = [is |-> "refused"]
  /\ UNCHANGED <<row, changes, open, sending, events, fetches, view, values, baseline, byHand>>

\* What was saved counts as unedited; the record is asked for, and the save
\* lasts until it is there.
Saved ==
  /\ saving.is = "saved"
  /\ baseline' = values /\ byHand' = FALSE
  /\ saving' = [is |-> "fetching"] /\ FetchServer(TRUE)
  /\ UNCHANGED <<row, changes, open, sending, events, view, values>>

\* The end of a save: with the record, or without one when asking failed.
SaveEnds ==
  /\ saving.is = "fetching"
  /\ \E f \in fetches, ok \in BOOLEAN:
       /\ f.own /\ f.is = "answered"
       /\ fetches' = fetches \ {f}
       /\ view' = IF ok THEN f.record ELSE view
       /\ Refreshed(view')
  /\ saving' = NotSaving
  /\ UNCHANGED <<row, changes, open, sending, events>>

Refused ==
  /\ saving.is = "refused" /\ saving' = NotSaving
  /\ UNCHANGED <<row, changes, open, sending, events, fetches, view, values, baseline, byHand>>

OtherTabSaves(r) ==
  /\ changes < MaxChanges /\ r # row
  /\ row' = r /\ changes' = changes + 1
  /\ UNCHANGED <<open, sending, events, fetches, view, values, baseline, saving, byHand>>

Next ==
  \/ TickBegins \/ TickSends \/ EventArrives \/ Hides \/ Shows
  \/ OtherFetch \/ \E own \in BOOLEAN: FetchAnswered(own)
  \/ \E f \in fetches: FetchArrives(f)
  \/ \E field \in Field, value \in Value: Edit(field, value)
  \/ Discard \/ Save \/ SaveHandled \/ SaveLost \/ Saved \/ SaveEnds \/ Refused
  \/ \E r \in Record: OtherTabSaves(r)

(***************************************************************************)
(* What the form promises.                                                 *)
(***************************************************************************)

\* What the user typed is there until the user discards it, types again, or
\* the row had it: neither events nor late answers nor the saves of other
\* tabs take an edit away.
EditsSurvive ==
  [][ \A f \in Edited: values'[f] # values[f] => saving = NotSaving /\ view' = view ]_formVars

\* A tab that stays open ends up showing the settings as they are, whatever
\* came late, except in a form with edits, and in one whose user took an edit
\* back while the record moved on.
FormCatchesUp == []<>(values = row \/ ~open \/ ~Pristine \/ byHand \/ saving # NotSaving)

\* Neither an edit nor a change of the record is lost on a form.
FormsHold == EditsSurvive /\ FormCatchesUp

\* The comment on the form: each journey saves only its own changes.
SavesOnlyItsOwn ==
  [][ (saving.is = "sent" /\ row' # row /\ saving' # saving)
      => \A f \in Field \ saving.edited: row'[f] = row[f] ]_formVars
=============================================================================
