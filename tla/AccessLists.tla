---------------------------- MODULE AccessLists ----------------------------
(***************************************************************************)
(* The ban list of one server, from its row to banned-players.json and the *)
(* game: applyAccessLists, with names looked up at Mojang, and             *)
(* syncBlacklistLive.  The whitelist goes the same way to its file.  A     *)
(* request is one step here; what can come between its steps is in         *)
(* ServerSettings.                                                         *)
(***************************************************************************)
EXTENDS FiniteSets, Naturals

CONSTANTS
  Player,       \* names an admin types
  Registered,   \* those Mojang has a UUID for
  WithUuid,     \* entries typed with their UUID
  Plain         \* names that RCON commands may carry (SAFE_RCON_NAME)

ListsAssumption == Registered \cup WithUuid \cup Plain \subseteq Player

VARIABLES
  banned, enforced,  \* the row's blacklist and blacklistEnabled
  onlineMode,        \* online-mode in server.properties
  banFile,           \* banned-players.json: players, each with the kind of its UUID
  looked,            \* mojangUuidCache
  playing,           \* the names a running game refuses, or NotPlaying
  savedAs            \* what the latest request was told

listVars == <<banned, enforced, onlineMode, banFile, looked, playing, savedAs>>

NotPlaying == [is |-> "down"]
Refusing(names) == [is |-> "up", names |-> names]

-----------------------------------------------------------------------------

\* Broken on purpose (for SavesAreTrue): a name that Mojang does not give a UUID
\* for gets the one of a server in offline mode.
UuidOrOffline(p, found, online) ==
  IF p \in WithUuid THEN "given"
  ELSE IF online /\ p \in found THEN "mojang" ELSE "offline"

\* resolveAccessEntries: the kind of UUID an entry gets, if any.
Uuid(p, found, online) ==
  IF p \in WithUuid THEN "given"
  ELSE IF ~ online THEN "offline"
  ELSE IF p \in found THEN "mojang" ELSE "none"

Names == IF enforced THEN banned ELSE {}

\* resolveMojangUuid: the cache, or a lookup that may fail; what it finds is kept.
Lookups(names, online) ==
  LET asked == IF online THEN (names \ WithUuid) \ looked ELSE {}
  IN {looked \cup got: got \in SUBSET (asked \cap Registered)}

Entries(names, found, online) ==
  {[name |-> p, uuid |-> Uuid(p, found, online)]: p \in {q \in names: Uuid(q, found, online) # "none"}}

Unresolved(names, found, online) == {p \in names: Uuid(p, found, online) = "none"}

-----------------------------------------------------------------------------

\* blacklistNames, and the commands for what differs: names that a command may
\* not carry are left to the file.  None to send is a success.
Commands(old, new) == [ban |-> (new \ old) \cap Plain, pardon |-> (old \ new) \cap Plain]

SyncLive(old, new) ==
  LET sent == Commands(old, new) IN
  \/ /\ playing # NotPlaying
     /\ playing' = Refusing((playing.names \cup sent.ban) \ sent.pardon)
  \/ UNCHANGED playing

\* PATCH with the list or its switch: entries that resolve are written, and the
\* game is told, unless some did not; those are the answer's error.
Save(names, on) ==
  LET new == IF on THEN names ELSE {} IN
  /\ banned' = names /\ enforced' = on
  /\ looked' \in Lookups(new, onlineMode)
  /\ banFile' = Entries(new, looked', onlineMode)
  /\ LET skipped == Unresolved(new, looked', onlineMode) IN
     /\ savedAs' = IF skipped = {} THEN [is |-> "saved", skipped |-> {}]
                                   ELSE [is |-> "partly", skipped |-> skipped]
     /\ IF skipped = {} THEN SyncLive(Names, new) ELSE UNCHANGED playing
  /\ UNCHANGED onlineMode

\* Any other setting is saved: the files are written anew, from the row.
SaveOther ==
  /\ looked' \in Lookups(Names, onlineMode)
  /\ banFile' = Entries(Names, looked', onlineMode)
  /\ LET skipped == Unresolved(Names, looked', onlineMode) IN
     savedAs' = IF skipped = {} THEN [is |-> "saved", skipped |-> {}]
                                ELSE [is |-> "partly", skipped |-> skipped]
  /\ UNCHANGED <<banned, enforced, onlineMode, playing>>

\* Prepare with a pack of either mode: nothing of a rebuild that cannot resolve
\* every name reaches the server.
Prepare ==
  /\ playing = NotPlaying
  /\ \E online \in BOOLEAN:
       /\ looked' \in Lookups(Names, online)
       /\ IF Unresolved(Names, looked', online) = {}
          THEN /\ onlineMode' = online
               /\ banFile' = Entries(Names, looked', online)
               /\ savedAs' = [is |-> "saved", skipped |-> {}]
          ELSE UNCHANGED <<onlineMode, banFile, savedAs>>
  /\ UNCHANGED <<banned, enforced, playing>>

\* The game reads its file as it starts.
GameStarts ==
  /\ playing = NotPlaying
  /\ playing' = Refusing({b.name: b \in banFile})
  /\ UNCHANGED <<banned, enforced, onlineMode, banFile, looked, savedAs>>

GameStops ==
  /\ playing # NotPlaying /\ playing' = NotPlaying
  /\ UNCHANGED <<banned, enforced, onlineMode, banFile, looked, savedAs>>

BackendRestarts ==
  /\ looked' = {}
  /\ UNCHANGED <<banned, enforced, onlineMode, banFile, playing, savedAs>>

-----------------------------------------------------------------------------

Init ==
  /\ banned = {} /\ enforced = FALSE /\ onlineMode \in BOOLEAN /\ banFile = {}
  /\ looked = {} /\ playing = NotPlaying /\ savedAs = [is |-> "saved", skipped |-> {}]

Next ==
  \/ \E names \in SUBSET Player, on \in BOOLEAN: Save(names, on)
  \/ SaveOther \/ Prepare \/ GameStarts \/ GameStops \/ BackendRestarts

Spec == Init /\ [][Next]_listVars

-----------------------------------------------------------------------------
(* Properties.                                                             *)

\* No player on the file has a UUID of the wrong mode, under which the game
\* would let them in.
UuidsBan ==
  \A b \in banFile: b.uuid \in (IF onlineMode THEN {"given", "mojang"} ELSE {"given", "offline"})

\* Whoever is on the list and not on the file was named by the answer.
SkippedAreNamed == Names \ {b.name: b \in banFile} = savedAs.skipped

ListsAreTrue == UuidsBan /\ SkippedAreNamed

\* The comment in applyAccessLists: valid bans still apply when other names do
\* not resolve.
BansStay ==
  [][ SaveOther => {b.name: b \in banFile} \subseteq {b.name: b \in banFile'} ]_listVars

\* A save of the ban list that reports no error and that the game was told of.
BansInEffect ==
  [][ \A names \in SUBSET Player:
        Save(names, TRUE) /\ playing' # playing => names \subseteq playing'.names ]_listVars
=============================================================================
