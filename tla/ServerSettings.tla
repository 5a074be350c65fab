--------------------------- MODULE ServerSettings ---------------------------
(***************************************************************************)
(* Changing the settings of one server: PATCH /servers/:id.  The row is    *)
(* written first, the files of the pack next, then what a running game     *)
(* takes over RCON, the container's limits, and, for a new port or Java    *)
(* image, a new container; last comes the "restart required" flag.  Every  *)
(* step can fail, and the backend can stop between any two.                *)
(*                                                                         *)
(* A field has one of two values.  "mode" stands for whatever the game     *)
(* reads only when it starts (game mode, heap, view distance, seed),       *)
(* "build" for what is fixed in the container (port, Java image).          *)
(***************************************************************************)
EXTENDS Naturals, TLC

VARIABLES
  row,        \* the settings in the server's row
  flag,       \* the row's restartRequired, as stored
  live,       \* the row's status is running, starting or restarting
  files,      \* the settings in the pack's files
  container,  \* the build the container was created with
  game,       \* the game process: Down, Unread, or the settings it goes by
  rcon,       \* the game answers on RCON
  op,         \* the PATCH being handled, or Idle
  told        \* how the latest PATCH was answered, or "not yet"

settingsVars == <<row, flag, live, files, container, game, rcon, op, told>>

AtStart == {"difficulty", "mode", "bans"}   \* what the game reads from its files
Field == AtStart \cup {"build"}
Value == {0, 1}
Settings == [AtStart -> Value]

Idle == [pc |-> "idle"]
Down == [is |-> "down"]
Unread == [is |-> "unread"]      \* the process is up and has not read its files
Playing(s) == [is |-> "playing", by |-> s]

\* What a request can carry.  The forms send the game object as a whole.
Sections == {{"difficulty", "mode"}, {"bans"}, {"build"}}
Patches == UNION {[s -> Value]: s \in Sections}

OfRow == [f \in AtStart |-> row[f]]

Init ==
  /\ row = [f \in Field |-> 0] /\ flag = FALSE /\ live = FALSE
  /\ files = [f \in AtStart |-> 0] /\ container = 0
  /\ game = Down /\ rcon = FALSE
  /\ op = Idle /\ told = "saved"

(***************************************************************************)
(* The request.                                                            *)
(***************************************************************************)
Sent == DOMAIN op.patch
Altered == {f \in Sent: op.patch[f] # op.before[f]}
BuildAltered == "build" \in Altered

\* Broken on purpose (for SavesAreTrue): the difficulty is among what differs.
DifficultyAmongOthers == "difficulty" \in Altered /\ "bans" \notin Sent

\* Only the bans were sent, or only the difficulty of the game differs.
OnlyBans == Sent = {"bans"}
OnlyDifficulty == Altered = {"difficulty"} /\ "bans" \notin Sent

\* A new port or image is refused while the row says the server is up.
Update(p) ==
  /\ op = Idle
  /\ ~(live /\ "build" \in DOMAIN p /\ p["build"] # row["build"])
  /\ row' = p @@ row
  /\ op' = [pc |-> "files", patch |-> p, before |-> row, inGame |-> {}, failed |-> FALSE]
  /\ told' = "not yet"
  /\ UNCHANGED <<flag, live, files, container, game, rcon>>

GoTo(pc) == op' = [op EXCEPT !.pc = pc]

\* applyConfigFiles writes the game's properties and arguments, then the
\* access lists; it stops at the first error, and a name without a UUID is an
\* error after the lists are written without it.
ApplyConfigFiles ==
  /\ op.pc = "files"
  /\ \/ files' = OfRow /\ GoTo("bans")
     \/ /\ files' \in {files, [OfRow EXCEPT !["bans"] = files["bans"]], [OfRow EXCEPT !["bans"] = 1 - @]}
        /\ op' = [op EXCEPT !.pc = "resources", !.failed = TRUE]
  /\ UNCHANGED <<row, flag, live, container, game, rcon, told>>

\* One setting, over RCON.  A setting equal to the row's earlier one counts as
\* applied without a command, as soon as a container runs.  A command that
\* fails can have been carried out.
SyncLive(f, next) ==
  LET taken == IF game.is = "playing" THEN Playing([game.by EXCEPT ![f] = row[f]]) ELSE game
      applied == [op EXCEPT !.pc = next, !.inGame = @ \cup {f}] IN
  IF f \notin Altered
  THEN /\ op' = IF game # Down THEN applied ELSE [op EXCEPT !.pc = next]
       /\ UNCHANGED game
  ELSE \/ rcon /\ game' = taken /\ op' = applied
       \/ game' \in (IF rcon THEN {game, taken} ELSE {game}) /\ GoTo(next)

SyncBlacklistLive ==
  /\ op.pc = "bans"
  /\ IF "bans" \in Sent THEN SyncLive("bans", "difficulty") ELSE GoTo("difficulty") /\ UNCHANGED game
  /\ UNCHANGED <<row, flag, live, files, container, rcon, told>>

SyncDifficultyLive ==
  /\ op.pc = "difficulty"
  /\ IF "difficulty" \in Altered THEN SyncLive("difficulty", "resources") ELSE GoTo("resources") /\ UNCHANGED game
  /\ UNCHANGED <<row, flag, live, files, container, rcon, told>>

\* Docker may refuse the new limits.
UpdateResources ==
  /\ op.pc = "resources"
  /\ op' \in {[op EXCEPT !.pc = "recreate", !.failed = @ \/ e]: e \in IF "mode" \in Sent THEN BOOLEAN ELSE {FALSE}}
  /\ UNCHANGED <<row, flag, live, files, container, game, rcon, told>>

\* A new container is made from files written anew.
RecreateContainer ==
  /\ op.pc = "recreate"
  /\ IF BuildAltered
     THEN \/ /\ files' = OfRow /\ container' = row["build"]
             /\ flag' = FALSE /\ live' = FALSE
             /\ GoTo("answer")
          \/ /\ files' \in {files, OfRow}
             /\ op' = [op EXCEPT !.pc = "answer", !.failed = TRUE]
             /\ UNCHANGED <<container, flag, live>>
     ELSE GoTo("answer") /\ UNCHANGED <<files, container, flag, live>>
  /\ UNCHANGED <<row, game, rcon, told>>

NeedsRestart ==
  ~(\/ OnlyBans /\ "bans" \in op.inGame
    \/ OnlyDifficulty /\ "difficulty" \in op.inGame)

Answer ==
  /\ op.pc = "answer"
  /\ flag' = IF BuildAltered THEN flag ELSE NeedsRestart
  /\ told' = IF op.failed THEN "partly" ELSE "saved"
  /\ op' = Idle
  /\ UNCHANGED <<row, live, files, container, game, rcon>>

(***************************************************************************)
(* The server.  Starting and stopping hold the same lock as a PATCH; the   *)
(* game reads its files some time after its container started, and can     *)
(* end by itself.                                                          *)
(***************************************************************************)
Start ==
  /\ op = Idle /\ game = Down
  /\ game' = Unread /\ live' = TRUE /\ flag' = FALSE
  /\ UNCHANGED <<row, files, container, rcon, op, told>>

Stop ==
  /\ op = Idle /\ live
  /\ game' = Down /\ rcon' = FALSE /\ live' = FALSE
  /\ UNCHANGED <<row, flag, files, container, op, told>>

GameReads ==
  /\ game = Unread /\ game' = Playing(files)
  /\ UNCHANGED <<row, flag, live, files, container, rcon, op, told>>

GameOpens ==
  /\ game.is = "playing" /\ ~rcon /\ rcon' = TRUE
  /\ UNCHANGED <<row, flag, live, files, container, game, op, told>>

GameEnds ==
  /\ game # Down /\ game' = Down /\ rcon' = FALSE
  /\ UNCHANGED <<row, flag, live, files, container, op, told>>

\* The status poll leaves a server alone while a request holds it.
RefreshStatus ==
  /\ op = Idle /\ live # (game # Down) /\ live' = (game # Down)
  /\ UNCHANGED <<row, flag, files, container, game, rcon, op, told>>

BackendStops ==
  /\ op # Idle /\ op' = Idle /\ told' = "lost"
  /\ UNCHANGED <<row, flag, live, files, container, game, rcon>>

Next ==
  \/ \E p \in Patches: Update(p)
  \/ ApplyConfigFiles \/ SyncBlacklistLive \/ SyncDifficultyLive \/ UpdateResources
  \/ RecreateContainer \/ Answer
  \/ Start \/ Stop \/ GameReads \/ GameOpens \/ GameEnds \/ RefreshStatus \/ BackendStops

Spec == Init /\ [][Next]_settingsVars

(***************************************************************************)
(* What a save promises.                                                   *)
(***************************************************************************)

\* After a save answered without an error the next start runs with the saved
\* settings: files and row agree, whatever failed or stopped before.
SavedIsOnDisk == op = Idle /\ told = "saved" => files = OfRow

\* A save answered without an error and without "restart required" has taken
\* effect: a running game goes by every setting the request changed.
AppliedIsInEffect ==
  [][ (op.pc = "answer" /\ told' = "saved" /\ op' = Idle /\ ~flag' /\ game.is = "playing")
      => \A f \in Altered \cap AtStart: game.by[f] = row[f] ]_settingsVars

\* A save is on disk, and in effect where it says so.
SavesAreTrue == []SavedIsOnDisk /\ AppliedIsInEffect

\* The comment on the flag: it says that a running process is out of date
\* with the files on disk.
OutdatedIsFlagged ==
  op = Idle /\ live /\ told = "saved" /\ game.is = "playing" /\ game.by # files => flag

\* The settings page: the container is recreated when its port changes.
BuildIsInUse == op = Idle /\ told = "saved" => container = row["build"]
=============================================================================
