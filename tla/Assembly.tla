------------------------------ MODULE Assembly ------------------------------
(***************************************************************************)
(* What chunked uploads promise: a file grows slice by slice, in order and *)
(* each slice once; it is handed over when it is whole, to one consumer;   *)
(* and what is handed over does not change.  Uploads implements this with  *)
(* retries, late requests, a sweeper and a process that may die.           *)
(***************************************************************************)
EXTENDS Naturals, Sequences

CONSTANTS
  Upload,  \* the sessions
  Slices   \* slices of a file

VARIABLES
  stored,  \* [Upload -> the slices assembled so far]
  fate     \* [Upload -> where the file is in its life]

vars == <<stored, fate>>

Whole == [k \in 1..Slices |-> k - 1]

Become(u, from, to) == fate[u] \in from /\ fate' = [fate EXCEPT ![u] = to]

Init == stored = [u \in Upload |-> <<>>] /\ fate = [u \in Upload |-> "none"]

Open(u) == Become(u, {"none"}, "open") /\ UNCHANGED stored

\* The next slice, and no other, is added.
Grow(u) ==
  /\ fate[u] = "open" /\ Len(stored[u]) < Slices
  /\ stored' = [stored EXCEPT ![u] = Append(@, Len(@))]
  /\ UNCHANGED fate

Take(u) == stored[u] = Whole /\ Become(u, {"open"}, "taken") /\ UNCHANGED stored

Use(u) == Become(u, {"taken"}, "used") /\ UNCHANGED stored

Drop(u) ==
  /\ Become(u, {"none", "open", "taken"}, "gone")
  /\ stored' = [stored EXCEPT ![u] = <<>>]

\* The process died: every file that was not used is lost with it.
Lost(u) == fate[u] \in {"open", "taken"}

LoseAll ==
  /\ fate' = [u \in Upload |-> IF Lost(u) THEN "gone" ELSE fate[u]]
  /\ stored' = [u \in Upload |-> IF Lost(u) THEN <<>> ELSE stored[u]]

Next ==
  \/ LoseAll
  \/ \E u \in Upload: Open(u) \/ Grow(u) \/ Take(u) \/ Use(u) \/ Drop(u)

Spec == Init /\ [][Next]_vars
=============================================================================
