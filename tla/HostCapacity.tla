---------------------------- MODULE HostCapacity ----------------------------
(***************************************************************************)
(* Admission without a verified memory pool: the ledger of what running    *)
(* servers are guaranteed and may peak at, and the gate that every start   *)
(* passes, and every change of the memory of a running server.  The ledger *)
(* is read across awaits: the host's memory, then the rows, then what      *)
(* Docker says is running.  Requests for two servers hold two locks, so    *)
(* their readings and effects interleave.                                  *)
(***************************************************************************)
EXTENDS Integers, FiniteSets, FiniteSetsExt

CONSTANTS
  Host,      \* the servers
  Floors,    \* floors a server's settings can give it, a set of numbers
  Cap,       \* the limit of every container
  Histories, \* the peaks observed: functions from servers to numbers, margin
             \* included, 0 while too little is known
  HostMb, DaemonMb, ReserveMb, \* memory of this host, of Docker's, and what is kept back
  BurstMb,   \* what all peaks may add up to
  FreeMb,    \* what must stay free on the host
  Free       \* memory that other programs may leave available

CapacityAssumption ==
  /\ {Cap, HostMb, DaemonMb, ReserveMb, BurstMb, FreeMb} \subseteq Nat
  /\ Floors \subseteq 1 .. Cap /\ Histories \subseteq [Host -> Nat] /\ Free \subseteq Nat
  /\ IsFiniteSet(Host)

VARIABLES
  floors,   \* the floor each server's row gives it
  history,  \* the observed peak of each server
  up,       \* the containers that run
  believed, \* the servers whose row says they run
  daemon,   \* Docker answers questions
  requests  \* the requests and changes under way, one per server

capacityVars == <<floors, history, up, believed, daemon, requests>>

NoRequest == [pc |-> "none"]

Init ==
  /\ floors \in [Host -> Floors] /\ history \in Histories
  /\ up = {} /\ believed = {} /\ daemon = TRUE
  /\ requests = [h \in Host |-> NoRequest]

(***************************************************************************)
(* The estimates.                                                          *)
(***************************************************************************)
\* What the burst tier books: the peak seen, between the floor and the limit.
ExpectedPeak(floor, seen) == IF seen = 0 THEN Cap ELSE Min({Cap, Max({floor, seen})})

\* The daemon's total is the authority on size; this host's figures count when
\* the two agree, or when the daemon's is not known.
SameMachine(known) == ~known \/ HostMb = DaemonMb
TotalMb(known) == IF SameMachine(known) THEN HostMb ELSE DaemonMb
BudgetMb(known) == Max({0, TotalMb(known) - ReserveMb})

\* What a function to numbers adds up to, counted unit by unit.
Total(amount) == Cardinality(UNION {{h} \X (1 .. amount[h]): h \in DOMAIN amount})

FloorsOf(S, row) == Total([h \in S |-> row[h]])
PeaksOf(S, row) == Total([h \in S |-> ExpectedPeak(row[h], history[h])])

(***************************************************************************)
(* A request.  It is undisturbed until something changes what the ledger   *)
(* was read from, or Docker cannot be asked.                               *)
(***************************************************************************)
Goes(h, s) == requests' = [requests EXCEPT ![h] = s]

Weigh(h, kind, floor) ==
  Goes(h, [pc |-> "memory", kind |-> kind, floor |-> floor, undisturbed |-> TRUE, wasUp |-> h \in up])

AssertCanStart(h) ==
  /\ requests[h] = NoRequest
  /\ Weigh(h, "start", floors[h])
  /\ UNCHANGED <<floors, history, up, believed, daemon>>

\* Every other request that is being weighed is counted wrong from now on.
Disturb(h) ==
  requests' = [g \in Host |->
    IF g = h \/ requests[g] = NoRequest THEN NoRequest ELSE [requests[g] EXCEPT !.undisturbed = FALSE]]

\* PATCH: the settings of a server that does not run are not weighed.
Update(h, floor) ==
  /\ requests[h] = NoRequest /\ floor # floors[h]
  /\ IF h \in believed
     THEN Weigh(h, "change", floor) /\ UNCHANGED floors
     ELSE Disturb(h) /\ floors' = [floors EXCEPT ![h] = floor]
  /\ UNCHANGED <<history, up, believed, daemon>>

\* What is available is up to the other programs of the host, and says nothing
\* of another machine; Docker's total may be known from an answer of the last
\* minute.
ReadHostMemory(h, free, known) ==
  /\ requests[h].pc = "memory" /\ (daemon => known)
  /\ LET q == requests[h] IN
     Goes(h, [pc |-> "live", kind |-> q.kind, floor |-> q.floor, wasUp |-> q.wasUp,
              undisturbed |-> q.undisturbed /\ known,
              known |-> known, free |-> IF SameMachine(known) THEN free ELSE 0, row |-> floors])
  /\ UNCHANGED <<floors, history, up, believed, daemon>>

\* runningServerIds, or the statuses when Docker does not answer.
LiveServerIds(h) ==
  /\ requests[h].pc = "live"
  /\ LET q == requests[h] IN
     Goes(h, [pc |-> "decide", kind |-> q.kind, floor |-> q.floor, wasUp |-> q.wasUp,
              undisturbed |-> q.undisturbed /\ daemon,
              known |-> q.known, free |-> q.free, row |-> q.row,
              live |-> IF daemon THEN up ELSE believed])
  /\ UNCHANGED <<floors, history, up, believed, daemon>>

RemainingGuaranteedMb(q) == BudgetMb(q.known) - FloorsOf(q.live, q.row)

\* Broken on purpose (for AdmissionHolds): the ledger without the server that starts.
StartFitsByOthers(q, h) ==
  \/ h \in q.live
  \/ /\ RemainingGuaranteedMb(q) >= 0
     /\ PeaksOf(q.live, q.row) <= BurstMb
     /\ SameMachine(q.known) => q.free - q.row[h] >= FreeMb

\* decideAdmission, in its order: a running server passes, the floors fit,
\* the peaks fit, and the host has the memory right now.
StartFits(q, h) ==
  \/ h \in q.live
  \/ /\ q.row[h] <= RemainingGuaranteedMb(q)
     /\ PeaksOf(q.live, q.row) + ExpectedPeak(q.row[h], history[h]) <= BurstMb
     /\ SameMachine(q.known) => q.free - q.row[h] >= FreeMb

\* Only an increase is weighed, and only what it adds.
ChangeFits(q, h) == q.floor > q.row[h] => q.floor - q.row[h] <= RemainingGuaranteedMb(q)

Fits(q, h) == IF q.kind = "start" THEN StartFits(q, h) ELSE ChangeFits(q, h)

Decide(h, force) ==
  /\ requests[h].pc = "decide" /\ (force => requests[h].kind = "start")
  /\ LET fits == Fits(requests[h], h) IN
     Goes(h, [pc |-> IF fits \/ force THEN "admitted" ELSE "refused",
              kind |-> requests[h].kind, floor |-> requests[h].floor, wasUp |-> requests[h].wasUp,
              undisturbed |-> requests[h].undisturbed /\ (fits \/ ~force)])
  /\ UNCHANGED <<floors, history, up, believed, daemon>>

ContainerStarts(h) ==
  /\ requests[h].pc = "admitted" /\ requests[h].kind = "start" /\ daemon
  /\ up' = up \cup {h} /\ believed' = believed \cup {h}
  /\ Disturb(h)
  /\ UNCHANGED <<floors, history, daemon>>

SettingsWritten(h) ==
  /\ requests[h].pc = "admitted" /\ requests[h].kind = "change"
  /\ floors' = [floors EXCEPT ![h] = requests[h].floor]
  /\ Disturb(h)
  /\ UNCHANGED <<history, up, believed, daemon>>

RequestFails(h) ==
  /\ \/ requests[h].pc = "refused"
     \/ requests[h].pc = "admitted" /\ requests[h].kind = "start" /\ ~daemon
  /\ Goes(h, NoRequest)
  /\ UNCHANGED <<floors, history, up, believed, daemon>>

(***************************************************************************)
(* Around it.                                                              *)
(***************************************************************************)
\* A container ends; its row is corrected when the statuses are refreshed.
ContainerEnds(h) ==
  /\ h \in up /\ up' = up \ {h}
  /\ requests' = [g \in Host |-> IF g = h /\ requests[g] # NoRequest
                               THEN [requests[g] EXCEPT !.undisturbed = FALSE, !.wasUp = FALSE] ELSE requests[g]]
  /\ UNCHANGED <<floors, history, believed, daemon>>

RefreshStatuses ==
  /\ daemon /\ believed # up /\ believed' = up
  /\ UNCHANGED <<floors, history, up, daemon, requests>>

DaemonChanges ==
  /\ daemon' = ~daemon
  /\ UNCHANGED <<floors, history, up, believed, requests>>

Next ==
  \/ \E h \in Host:
       \/ AssertCanStart(h) \/ LiveServerIds(h)
       \/ \E free \in Free, known \in BOOLEAN: ReadHostMemory(h, free, known)
       \/ \E force \in BOOLEAN: Decide(h, force)
       \/ ContainerStarts(h) \/ SettingsWritten(h) \/ RequestFails(h) \/ ContainerEnds(h)
       \/ \E floor \in Floors: Update(h, floor)
  \/ RefreshStatuses \/ DaemonChanges

Spec == Init /\ [][Next]_capacityVars

(***************************************************************************)
(* What the gate promises.                                                 *)
(***************************************************************************)

\* A start, or an increase for a running server, that was weighed while Docker
\* answered and nothing else started or changed, and was not forced, leaves
\* the floors of all running servers within the memory of the machine Docker
\* runs on.  A start of a server that runs all along is never refused,
\* whatever the ledger says.
AdmissionHolds ==
  [][ \A h \in Host:
        /\ (requests[h].pc = "admitted" /\ requests[h].undisturbed /\ h \in up'
               /\ (h \notin up \/ floors'[h] > floors[h]))
             => FloorsOf(up', floors') <= BudgetMb(TRUE)
        /\ (requests'[h].pc = "refused" /\ requests'[h].kind = "start" /\ requests'[h].undisturbed)
             => ~requests'[h].wasUp ]_capacityVars
=============================================================================
