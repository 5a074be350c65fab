----------------------------- MODULE RconClient -----------------------------
(***************************************************************************)
(* sendRconCommands: one connection that authenticates and runs a batch of *)
(* commands, one after the other, and what Minecraft's side makes of it.   *)
(* An answer is split into full chunks and a short one; one that fits its  *)
(* chunks exactly has no short one.                                        *)
(***************************************************************************)
EXTENDS Integers, Sequences

CONSTANTS
  Command,    \* the batch: 1..n
  Full,       \* [Command -> full chunks of its answer]
  Exact       \* commands whose answer ends on a full chunk

\* A batch without commands makes no connection.
RconAssumption ==
  /\ Command = 1..Len(Full) /\ Full \in Seq(Nat) /\ Full # <<>>
  /\ Exact \subseteq {c \in Command: Full[c] > 0}

VARIABLES
  phase,      \* connecting, authenticating, running, done or failed
  inFlight,   \* the command that is waited for
  grace,      \* chunkTimer is set
  answers,    \* [Command -> chunks received]
  toGame,     \* requests on their way
  game,       \* what the game has yet to write
  toClient,   \* chunks on their way
  hasty       \* history: commands that were given up waiting for too early

vars == <<phase, inFlight, grace, answers, toGame, game, toClient, hasty>>

\* The game's answer: the chunks as it writes them.
Chunks(c) ==
  [i \in 1..Full[c] |-> [of |-> c, short |-> FALSE]]
    \o (IF c \in Exact THEN <<>> ELSE <<[of |-> c, short |-> TRUE]>>)

\* finish
Settle(outcome) ==
  /\ phase' = outcome
  /\ grace' = FALSE
  /\ UNCHANGED <<toGame, game>>

\* sendNext: one packet on its own, or the end of the batch.
SendNext ==
  IF inFlight = Len(Full)
    THEN Settle("done") /\ UNCHANGED inFlight
    ELSE /\ inFlight' = inFlight + 1
         /\ toGame' = Append(toGame, inFlight + 1)
         /\ grace' = FALSE
         /\ UNCHANGED <<phase, game>>

\* Broken on purpose (for AnswersBelong): a full chunk is taken for the end.
EndsAtAnyChunk(chunk) == chunk.of = inFlight

\* A short chunk of the awaited command ends its answer.
Ends(chunk) == chunk.of = inFlight /\ chunk.short

-----------------------------------------------------------------------------

Connect ==
  /\ phase = "connecting"
  /\ phase' = "authenticating"
  /\ UNCHANGED <<inFlight, grace, answers, toGame, game, toClient, hasty>>

Authenticated ==
  /\ phase = "authenticating"
  /\ phase' = "running"
  /\ inFlight' = 1 /\ toGame' = <<1>>
  /\ UNCHANGED <<grace, answers, game, toClient, hasty>>

\* A chunk arrives.  It is kept with its command; a full one of the awaited
\* command starts the grace period again.
Receive ==
  /\ phase = "running" /\ toClient # <<>>
  /\ LET chunk == Head(toClient) IN
     /\ answers' = [answers EXCEPT ![chunk.of] = Append(@, chunk)]
     /\ IF Ends(chunk)
          THEN SendNext
          ELSE /\ grace' = (grace \/ chunk.of = inFlight)
               /\ UNCHANGED <<phase, inFlight, toGame, game>>
  /\ toClient' = Tail(toClient)
  /\ UNCHANGED hasty

\* 300 ms without another chunk.
GraceOver ==
  /\ phase = "running" /\ grace
  /\ hasty' = IF \E i \in DOMAIN (game \o toClient): (game \o toClient)[i].of = inFlight
                THEN hasty \cup {inFlight} ELSE hasty
  /\ SendNext
  /\ UNCHANGED <<answers, toClient>>

\* Wrong password, a closed connection, a time-out.
Fail ==
  /\ phase \notin {"done", "failed"}
  /\ Settle("failed")
  /\ UNCHANGED <<inFlight, answers, toClient, hasty>>

\* The game reads a request when it has written the answers before it.
GameReads ==
  /\ toGame # <<>> /\ game = <<>>
  /\ game' = Chunks(Head(toGame))
  /\ toGame' = Tail(toGame)
  /\ UNCHANGED <<phase, inFlight, grace, answers, toClient, hasty>>

GameWrites ==
  /\ game # <<>>
  /\ toClient' = Append(toClient, Head(game))
  /\ game' = Tail(game)
  /\ UNCHANGED <<phase, inFlight, grace, answers, toGame, hasty>>

-----------------------------------------------------------------------------

Init ==
  /\ phase = "connecting" /\ inFlight = 0 /\ grace = FALSE
  /\ answers = [c \in Command |-> <<>>]
  /\ toGame = <<>> /\ game = <<>> /\ toClient = <<>> /\ hasty = {}

Next ==
  \/ Connect \/ Authenticated \/ Receive \/ GraceOver \/ Fail
  \/ GameReads \/ GameWrites

Spec == Init /\ [][Next]_vars

-----------------------------------------------------------------------------
(* Properties.                                                             *)

\* A batch that succeeds gives every command its own, whole answer, in spite
\* of answers of several chunks and of answers that end on a full one; only
\* the end of an answer that took longer than the grace period is missed.  And
\* never are two requests on their way, which the game would hang up on.
RepliesBelong ==
  /\ Len(toGame) <= 1
  /\ phase = "done" => \A c \in Command: c \in hasty \/ answers[c] = Chunks(c)
=============================================================================
