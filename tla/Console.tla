------------------------------ MODULE Console ------------------------------
(***************************************************************************)
(* The console of one server: consoleService with what it learns of the    *)
(* game's commands, its routes, and the ConsoleCard of each open tab.      *)
(***************************************************************************)
EXTENDS Naturals, SequencesExt

CONSTANTS
  Tab,
  Vanilla, Modded,  \* names of commands: the catalog's, and those of packs
  HistoryLimit,     \* HISTORY_LIMIT
  MaxCommands       \* bound: commands typed

Stop == "stop"
Verb == Vanilla \cup Modded

ConsoleAssumption == Stop \in Vanilla /\ HistoryLimit \in Nat \ {0} /\ Vanilla \cap Modded = {}

VARIABLES
  game,            \* "down", "booting" or "up"
  has,             \* the commands of the server's present pack
  works, missing,  \* knowledge: what the game accepted, what it called unknown
  entries,         \* history: the entries remembered, oldest first
  sent,            \* commands typed so far
  commands,        \* of a tab: the command under way
  lines,           \* of a tab: its scrollback
  reading,         \* of a tab: a load() under way
  clearing,        \* of a tab: its DELETE is under way
  ran, doubted     \* what the game ran; names it had cause to call unknown

consoleVars ==
  <<game, has, works, missing, entries, sent, commands, lines, reading, clearing, ran, doubted>>
gameVars == <<game, has, ran, doubted>>
memory == <<works, missing, entries>>
page == <<lines, reading, clearing>>

Idle == [at |-> "idle"]
\* A load() has asked for the history, or has it; the completions it asks for
\* at the same time change no line.
NoLoad == [at |-> "none"]
Loading == [at |-> "asked"]

-----------------------------------------------------------------------------
(* The backend.                                                            *)

\* Broken on purpose (for ConsoleHolds): whatever fails is an unknown command.
StatusCoarse(c) == IF c.verb \in has /\ c.args = "right" THEN "ok" ELSE "unknown-command"

\* classifyOutput of what the game says: vanilla's "Unknown or incomplete
\* command" is said of a name it does not have and of one it wants more after.
Status(c) ==
  IF c.verb \notin has \/ c.args = "lacking" THEN "unknown-command"
  ELSE IF c.args = "wrong" THEN "bad-arguments" ELSE "ok"

Set(t, c) == commands' = [commands EXCEPT ![t] = c]
At(t, at) == commands[t].at = at
Moves(t, at) == Set(t, [commands[t] EXCEPT !.at = at])

\* runConsoleCommand: sanitizeCommand, and the names the game said it lacks.
Begin(t) ==
  /\ At(t, "sent")
  /\ Moves(t, IF commands[t].args = "malformed" \/ commands[t].verb \in missing
              THEN "refused" ELSE "accepted")
  /\ UNCHANGED <<gameVars, memory, page, sent>>

\* resolveEndpoint, and the connection: Docker's proxy accepts it in a boot too.
Connect(t) ==
  /\ At(t, "accepted")
  /\ Moves(t, IF game = "down" THEN "refused" ELSE "connected")
  /\ UNCHANGED <<gameVars, memory, page, sent>>

\* The socket closes: no RCON listener yet, or none any more.
Drop(t) ==
  /\ At(t, "connected") /\ game # "up"
  /\ Moves(t, "dropped")
  /\ UNCHANGED <<gameVars, memory, page, sent>>

\* No answer in COMMAND_TIMEOUT_MS, whatever the game did.
TimesOut(t) ==
  /\ commands[t].at \in {"connected", "said"}
  /\ Moves(t, "refused")
  /\ UNCHANGED <<gameVars, memory, page, sent>>

Remember(entry) ==
  LET all == Append(entries, entry)
  IN entries' = SubSeq(all, 1 + (IF Len(all) > HistoryLimit THEN Len(all) - HistoryLimit ELSE 0), Len(all))

\* The server's own word is recorded, and the entry with it.
Record(t, status) ==
  LET entry == [id |-> commands[t].id, verb |-> commands[t].verb, status |-> status] IN
  /\ IF status = "unknown-command"
     THEN missing' = missing \cup {entry.verb} /\ UNCHANGED works
     ELSE works' = works \cup {entry.verb} /\ UNCHANGED missing
  /\ Remember(entry)
  /\ Set(t, [at |-> "recorded", entry |-> entry])
  /\ UNCHANGED <<gameVars, page, sent>>

Answered(t) == At(t, "said") /\ Record(t, commands[t].status)

\* A stop closes its own connection, which is a success; anything else is not.
Dropped(t) ==
  /\ At(t, "dropped")
  /\ IF commands[t].verb = Stop THEN Record(t, "ok")
     ELSE Moves(t, "refused") /\ UNCHANGED <<gameVars, memory, page, sent>>

\* knownCommands: the catalog without the missing, and what else has worked.
Known == (Vanilla \ missing) \cup (works \ Vanilla)

\* The maps live in the process; every request under way fails.
BackendRestarts ==
  /\ works' = {} /\ missing' = {} /\ entries' = <<>>
  /\ commands' = [t \in Tab |-> IF At(t, "idle") THEN Idle ELSE [at |-> "refused", id |-> 0]]
  /\ reading' = [t \in Tab |-> NoLoad] /\ clearing' = [t \in Tab |-> FALSE]
  /\ UNCHANGED <<gameVars, lines, sent>>

-----------------------------------------------------------------------------
(* The game.                                                               *)

\* It runs what it can, and answers; a stop may take the answer with it.
Run(t) ==
  /\ At(t, "connected") /\ game = "up"
  /\ LET c == commands[t]
         status == Status(c)
         stops == c.verb = Stop /\ status = "ok"
     IN /\ ran' = IF status = "ok" THEN ran \cup {c.id} ELSE ran
        /\ game' = IF stops THEN "down" ELSE game
        /\ \/ Set(t, [at |-> "said", id |-> c.id, verb |-> c.verb, status |-> status])
           \/ stops /\ Moves(t, "dropped")
  /\ UNCHANGED <<has, doubted, memory, page, sent>>

GameStarts ==
  /\ game = "down" /\ game' = "booting"
  /\ UNCHANGED <<has, ran, doubted, memory, page, sent, commands>>

GameIsUp ==
  /\ game = "booting" /\ game' = "up"
  /\ UNCHANGED <<has, ran, doubted, memory, page, sent, commands>>

GameStops ==
  /\ game # "down" /\ game' = "down"
  /\ UNCHANGED <<has, ran, doubted, memory, page, sent, commands>>

\* Another version of the pack, with its own commands.
PackChanges ==
  /\ game = "down"
  /\ \E mods \in SUBSET Modded:
       has' = Vanilla \cup mods /\ doubted' = doubted \cup (Modded \ mods)
  /\ UNCHANGED <<game, ran, memory, page, sent, commands>>

-----------------------------------------------------------------------------
(* The card.                                                               *)

Send(t, verb, args) ==
  /\ At(t, "idle") /\ sent < MaxCommands
  /\ ~ (verb = Stop /\ args = "lacking")
  /\ sent' = sent + 1
  /\ Set(t, [at |-> "sent", id |-> sent + 1, verb |-> verb, args |-> args])
  /\ doubted' = IF args = "lacking" THEN doubted \cup {verb} ELSE doubted
  /\ UNCHANGED <<game, has, ran, memory, page>>

Line(t, line) == lines' = [lines EXCEPT ![t] = Append(@, line)]

\* An entry comes back; load() is called, not awaited, if it changes what the
\* card offers (bound: one load() of a tab at a time).
Receive(t) ==
  /\ At(t, "recorded")
  /\ Line(t, commands[t].entry)
  /\ IF commands[t].entry.status = "unknown-command"
     THEN reading[t] = NoLoad /\ reading' = [reading EXCEPT ![t] = Loading]
     ELSE UNCHANGED reading
  /\ Set(t, Idle)
  /\ UNCHANGED <<gameVars, memory, sent, clearing>>

ReceiveError(t) ==
  /\ At(t, "refused")
  /\ Line(t, [id |-> commands[t].id, status |-> "error"]) /\ Set(t, Idle)
  /\ UNCHANGED <<gameVars, memory, sent, reading, clearing>>

\* The card is opened.
Mount(t) ==
  /\ reading[t] = NoLoad /\ lines[t] = <<>> /\ At(t, "idle")
  /\ reading' = [reading EXCEPT ![t] = Loading]
  /\ UNCHANGED <<gameVars, memory, sent, commands, lines, clearing>>

\* GET /console.
ReadHistory(t) ==
  /\ reading[t].at = "asked"
  /\ reading' = [reading EXCEPT ![t] = [at |-> "read", history |-> entries]]
  /\ UNCHANGED <<gameVars, memory, sent, commands, lines, clearing>>

Load(t) ==
  /\ reading[t].at = "read"
  /\ lines' = [lines EXCEPT ![t] = reading[t].history]
  /\ reading' = [reading EXCEPT ![t] = NoLoad]
  /\ UNCHANGED <<gameVars, memory, sent, commands, clearing>>

LoadFails(t) ==
  /\ reading[t] # NoLoad
  /\ reading' = [reading EXCEPT ![t] = NoLoad]
  /\ UNCHANGED <<gameVars, memory, sent, commands, lines, clearing>>

Clear(t) ==
  /\ lines[t] # <<>>
  /\ lines' = [lines EXCEPT ![t] = <<>>] /\ clearing' = [clearing EXCEPT ![t] = TRUE]
  /\ UNCHANGED <<gameVars, memory, sent, commands, reading>>

\* The DELETE empties the history for every tab, or never gets there.
ClearEnds(t) ==
  /\ clearing[t] /\ clearing' = [clearing EXCEPT ![t] = FALSE]
  /\ entries' \in {<<>>, entries}
  /\ UNCHANGED <<gameVars, works, missing, sent, commands, lines, reading>>

-----------------------------------------------------------------------------

Init ==
  /\ game = "down" /\ ran = {}
  /\ \E mods \in SUBSET Modded: has = Vanilla \cup mods /\ doubted = Modded \ mods
  /\ works = {} /\ missing = {} /\ entries = <<>> /\ sent = 0
  /\ commands = [t \in Tab |-> Idle]
  /\ lines = [t \in Tab |-> <<>>]
  /\ reading = [t \in Tab |-> NoLoad] /\ clearing = [t \in Tab |-> FALSE]

Args == {"right", "wrong", "lacking", "malformed"}

\* A request is carried on with, whatever comes of it.
Serves(t) ==
  Begin(t) \/ Connect(t) \/ Drop(t) \/ TimesOut(t) \/ Answered(t) \/ Dropped(t)
Shows(t) == Receive(t) \/ ReceiveError(t)
Loads(t) == ReadHistory(t) \/ Load(t) \/ LoadFails(t)
Carried(t) == Serves(t) \/ Shows(t) \/ Loads(t)

Next ==
  \/ \E t \in Tab:
       \/ \E verb \in Verb, args \in Args: Send(t, verb, args)
       \/ Carried(t) \/ Run(t)
       \/ Mount(t) \/ Clear(t) \/ ClearEnds(t)
  \/ BackendRestarts \/ GameStarts \/ GameIsUp \/ GameStops \/ PackChanges

\* A tab is open and the backend runs: RCON calls have a deadline.
Fairness ==
  \A t \in Tab: WF_consoleVars(Carried(t))

Spec == Init /\ [][Next]_consoleVars /\ Fairness

-----------------------------------------------------------------------------
(* Properties.                                                             *)

\* A command is refused only if the game had cause to call it unknown: wrong
\* arguments never take a command away, a modded one included.
RefusedForAReason == missing \subseteq doubted

\* What the scrollback shows as done was done by the game: no entry is of a
\* command that a boot or a stop swallowed, `stop` itself aside.
ShownWasRun ==
  \A t \in Tab: \A i \in DOMAIN lines[t]:
    lines[t][i].status = "ok" => lines[t][i].id \in ran \/ lines[t][i].verb = Stop

\* The history every tab loads has each command once, in order of arrival.
HistoryIsPlain ==
  /\ Len(entries) <= HistoryLimit
  /\ \A i, j \in DOMAIN entries: i # j => entries[i].id # entries[j].id

\* A tab that sent a command gets its answer or an error.
PromptReturns == \A t \in Tab: []<>At(t, "idle")

\* The console is true to the game, and gives the prompt back.
ConsoleHolds == [](RefusedForAReason /\ ShownWasRun /\ HistoryIsPlain) /\ PromptReturns

\* The comment at knownCommands: what is offered lacks what the game said it
\* does not have.
OfferedIsNotMissing == Known \cap missing = {}

\* What the reason of CONSOLE_COMMAND_UNKNOWN says: the server has no such
\* command.
RefusedIsMissing == missing \cap has = {} \/ game # "up"

\* The comment at SELF_TERMINATING: a stop whose connection closed succeeded.
StopIsTrue == \A i \in DOMAIN entries: entries[i].status = "ok" => entries[i].id \in ran

\* The comment at ConsoleLine: an error line is of a command that never ran.
ErrorsNeverRan ==
  \A t \in Tab: \A i \in DOMAIN lines[t]: lines[t][i].status = "error" => lines[t][i].id \notin ran

\* No answer is shown twice.
ShownOnce ==
  \A t \in Tab: \A i, j \in DOMAIN lines[t]:
    i # j /\ {lines[t][i].status, lines[t][j].status} \cap {"error"} = {} => lines[t][i].id # lines[t][j].id
=============================================================================
