--------------------------- MODULE Configuration ---------------------------
(***************************************************************************)
(* How a server comes to be and what it runs with: the list of servers,    *)
(* changes of settings, the ban list, what they mean for its memory and    *)
(* its JVM, the repair of its mods, and the gate in front of a start on a  *)
(* host without a memory pool.  Each module has the part of the state it   *)
(* needs and none of another's; a behaviour follows one of them, and the   *)
(* others stay in one of their initial states.                             *)
(***************************************************************************)
EXTENDS Naturals

CONSTANTS
  Server, Pack, Request, Name, MinPort, MaxPort, RouterPort, HostPort,
  OverheadPercent, OverheadMinMb, DefaultMinMb, MaxRamMb,
  PackArgs, Heaps,
  Id, Version, OwnMods, Wishes,
  Host, Floors, Cap, Histories, HostMb, DaemonMb, ReserveMb, BurstMb, FreeMb, Free,
  Player, Registered, WithUuid, Plain

VARIABLES
  part,   \* the module this behaviour follows
  row, flag, live, files, container, game, rcon, op, told,
  rows, used, disk, reqs, locked,
  maxRam, minRam, migrated, oldHeap, low, high, plan,
  shipped, file, heapPlan, applied,
  wants, offered, mods, before, pc, frames, adding, linked, result,
  floors, history, up, believed, daemon, requests,
  banned, enforced, onlineMode, banFile, looked, playing, savedAs

Settings == INSTANCE ServerSettings
Registry == INSTANCE ServerRegistry
Plan == INSTANCE MemoryPlan
Args == INSTANCE JvmArgs WITH plan <- heapPlan
Mods == INSTANCE ModDependencies WITH Pack <- OwnMods
Capacity == INSTANCE HostCapacity
Lists == INSTANCE AccessLists

ASSUME ConfigurationAssumption ==
  /\ Registry!RegistryAssumption /\ Plan!PlanAssumption /\ Args!ArgsAssumption /\ Mods!ModAssumption
  /\ Capacity!CapacityAssumption /\ Lists!ListsAssumption

settingsVars == <<row, flag, live, files, container, game, rcon, op, told>>
registryVars == <<rows, used, disk, reqs, locked>>
planVars == <<maxRam, minRam, migrated, oldHeap, low, high, plan>>
argsVars == <<shipped, file, heapPlan, applied>>
modVars == <<wants, offered, mods, before, pc, frames, adding, linked, result>>
capacityVars == <<floors, history, up, believed, daemon, requests>>
listVars == <<banned, enforced, onlineMode, banFile, looked, playing, savedAs>>
vars ==
  <<part, settingsVars, registryVars, planVars, argsVars, modVars, capacityVars, listVars>>

Parts == {"settings", "registry", "plan", "args", "mods", "capacity", "lists"}

\* One state is enough for a part that is not followed.
Unless(p, choice) == part = p \/ choice

Init ==
  /\ part \in Parts
  /\ Settings!Init /\ Registry!Init
  /\ Unless("plan", maxRam = 1 /\ minRam = 0 /\ migrated = TRUE) /\ Plan!Init
  /\ Unless("args", shipped = <<>> /\ heapPlan = CHOOSE heap \in Heaps: TRUE) /\ Args!Init
  /\ Unless("mods", offered = {} /\ mods = {} /\ wants = CHOOSE w \in Wishes: TRUE) /\ Mods!Init
  /\ Unless("capacity", /\ floors = CHOOSE f \in [Host -> Floors]: TRUE
                        /\ history = CHOOSE h \in Histories: TRUE) /\ Capacity!Init
  /\ Unless("lists", onlineMode = TRUE) /\ Lists!Init

SettingsStep ==
  /\ part = "settings" /\ Settings!Next
  /\ UNCHANGED <<part, registryVars, planVars, argsVars, modVars, capacityVars, listVars>>
RegistryStep ==
  /\ part = "registry" /\ Registry!Next
  /\ UNCHANGED <<part, settingsVars, planVars, argsVars, modVars, capacityVars, listVars>>
PlanStep ==
  /\ part = "plan" /\ Plan!Next
  /\ UNCHANGED <<part, settingsVars, registryVars, argsVars, modVars, capacityVars, listVars>>
ArgsStep ==
  /\ part = "args" /\ Args!Next
  /\ UNCHANGED <<part, settingsVars, registryVars, planVars, modVars, capacityVars, listVars>>
ModsStep ==
  /\ part = "mods" /\ Mods!Next
  /\ UNCHANGED <<part, settingsVars, registryVars, planVars, argsVars, capacityVars, listVars>>
CapacityStep ==
  /\ part = "capacity" /\ Capacity!Next
  /\ UNCHANGED <<part, settingsVars, registryVars, planVars, argsVars, modVars, listVars>>
ListsStep ==
  /\ part = "lists" /\ Lists!Next
  /\ UNCHANGED <<part, settingsVars, registryVars, planVars, argsVars, modVars, capacityVars>>

\* The ids and files of the bounds are used up.
OutOfPacks == part = "registry" /\ Pack \subseteq used /\ UNCHANGED vars

Next ==
  \/ SettingsStep \/ RegistryStep \/ PlanStep \/ ArgsStep \/ ModsStep \/ CapacityStep
  \/ ListsStep \/ OutOfPacks

Spec == Init /\ [][Next]_vars

(***************************************************************************)
(* What the modules promise, each with its reasons there.                  *)
(***************************************************************************)

\* A save answered without an error left the files as the row has them, and
\* one answered without "restart required" took effect in the running game; the
\* names a ban list's file leaves out are those the answer named.
SavesAreTrue == Settings!SavesAreTrue /\ [](Lists!UuidsBan /\ Lists!SkippedAreNamed)

\* Two servers never share a subdomain, and no request takes away the file
\* another one made a server's pack.
RegistryHolds == Registry!RegistryHolds

\* The heap is the largest that fits the container's limit, and the migration
\* from older versions keeps every heap.
PlanIsRight == Plan!PlanIsRight

\* The JVM gets the heap of the settings and the pack's own arguments, however
\* often the argument file was rewritten.
TuningHolds == Args!TuningHolds

\* A repair of the mods ends with every requirement met or with mods/ as it
\* was, and one cut short can be finished later.
RepairsHold == Mods!RepairsHold

\* An undisturbed admission keeps the floors of what runs within the memory
\* of Docker's machine.
AdmissionHolds == Capacity!AdmissionHolds
=============================================================================
