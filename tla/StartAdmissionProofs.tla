------------------------ MODULE StartAdmissionProofs ------------------------
(***************************************************************************)
(* A JVM that boots keeps the memory it was admitted with                  *)
(* (BootsStayBooked), and who is admitted fits with all the other boots    *)
(* counted in full (AdmissionIsSafe), for any finite set of servers, any   *)
(* sizes and any number of audits under way.                               *)
(*                                                                         *)
(* What a start has counted as pending is the sum of what the other boots  *)
(* may still ask for.  Between its check and its admission they may grow,  *)
(* which moves what is owed into what is used, ripen or exit: so the       *)
(* invariant (CountsBoots) is stated server by server, of the amounts that *)
(* were summed up, and the sums are compared once, at the admission.       *)
(***************************************************************************)
EXTENDS StartAdmission, FiniteSetTheorems, TLAPS

\* What the head of the queue is during its start: past the check it is down.
HeadIsDown ==
  /\ start.step # "idle" => queue # <<>>
  /\ start.step \in {"room", "launch"} => ctr[Head(queue)] = "down"

\* The inductive invariant.
AdmissionInv == TypeOK /\ BootsAreBooked /\ HeadIsDown

-----------------------------------------------------------------------------

LEMMA AtLeastIsNat ==
  ASSUME NEW x \in Nat, NEW y \in Nat
  PROVE  AtLeast(x, y) \in Nat /\ AtLeast(x, y) >= x /\ AtLeast(x, y) >= y
BY DEF AtLeast

LEMMA DemandIsNat ==
  ASSUME TypeOK, NEW s \in Server
  PROVE  BootDemand(s) \in Nat /\ BootDemand(s) >= Floor[s]
<1>1. Floor[s] \in Nat /\ Cap[s] \in Nat /\ learned[s] \in Nat
  BY AdmissionAssumption DEF TypeOK
<1>2. (11 * learned[s] + 9) \div 10 \in Nat
  BY <1>1
<1>3. AtMost(Cap[s], (11 * learned[s] + 9) \div 10) \in Nat
  BY <1>1, <1>2 DEF AtMost
<1>4. QED
  BY <1>1, <1>3, AtLeastIsNat DEF BootDemand

LEMMA NoAuditTyped == NoAudit \in [on: BOOLEAN, listed: SUBSET Server]
BY DEF NoAudit

LEMMA AdmissionInit == Init => AdmissionInv
<1> SUFFICES ASSUME Init PROVE AdmissionInv
  OBVIOUS
<1> USE DEF Init
<1>1. start = NoStart /\ start.step = "idle"
  BY DEF NoStart
<1>2. start \in [step: {"idle", "audit", "check", "room", "launch"},
                 request: Nat, pending: Nat, blind: BOOLEAN]
  BY DEF NoStart
<1>3. TypeOK
  BY <1>2, NoAuditTyped DEF TypeOK
<1>4. BootsAreBooked
  BY DEF BootsAreBooked, Boots
<1>5. QED
  BY <1>1, <1>3, <1>4 DEF AdmissionInv, HeadIsDown

-----------------------------------------------------------------------------
(* Sums.                                                                   *)

\* The units a sum counts.
Units(f) == UNION {{s} \X (1 .. f[s]): s \in DOMAIN f}

LEMMA UnitsAre ==
  ASSUME NEW S, NEW f \in [S -> Nat]
  PROVE  \A u: u \in Units(f) <=> \E s \in S: \E k \in 1 .. f[s]: u = <<s, k>>
BY DEF Units

LEMMA TotalIsNat ==
  ASSUME NEW S, IsFiniteSet(S), NEW f \in [S -> Nat]
  PROVE  IsFiniteSet(Units(f)) /\ Total(f) = Cardinality(Units(f)) /\ Total(f) \in Nat
<1> DEFINE column == [s \in S |-> {s} \X (1 .. f[s])]
           columns == {{s} \X (1 .. f[s]): s \in DOMAIN f}
<1>1. column \in Surjection(S, columns)
  BY DEF Surjection
<1>2. IsFiniteSet(columns)
  BY <1>1, FS_Surjection
<1>3. ASSUME NEW s \in S PROVE IsFiniteSet({s} \X (1 .. f[s]))
  <2>1. f[s] \in Nat
    OBVIOUS
  <2>2. IsFiniteSet({s})
    BY FS_Singleton
  <2>3. IsFiniteSet(1 .. f[s])
    BY <2>1, FS_Interval
  <2>4. QED
    BY <2>2, <2>3, FS_Product
<1>4. IsFiniteSet(Units(f))
  <2>1. \A column_ \in columns: IsFiniteSet(column_)
    BY <1>3
  <2>2. IsFiniteSet(UNION columns)
    BY <1>2, <2>1, FS_UNION
  <2>3. QED
    BY <2>2 DEF Units
<1>5. QED
  BY <1>4, FS_CardinalityType DEF Units, Total

\* What is no more than two amounts together, one by one, adds up to no more
\* than their sums do.
LEMMA TotalsAdd ==
  ASSUME NEW A, NEW B, NEW C, IsFiniteSet(A), IsFiniteSet(B), IsFiniteSet(C),
         NEW f \in [A -> Nat], NEW g \in [B -> Nat], NEW d \in [C -> Nat],
         \A s \in A: f[s] <= (IF s \in B THEN g[s] ELSE 0) + (IF s \in C THEN d[s] ELSE 0)
  PROVE  Total(f) <= Total(g) + Total(d)
<1> DEFINE Base(s) == IF s \in B THEN g[s] ELSE 0
           On(u) == <<u[1], Base(u[1]) + u[2]>>
           above == [u \in Units(d) |-> On(u)]
           Above == {On(u): u \in Units(d)}
<1>1. /\ IsFiniteSet(Units(f)) /\ Total(f) = Cardinality(Units(f)) /\ Total(f) \in Nat
      /\ IsFiniteSet(Units(g)) /\ Total(g) = Cardinality(Units(g)) /\ Total(g) \in Nat
      /\ IsFiniteSet(Units(d)) /\ Total(d) = Cardinality(Units(d)) /\ Total(d) \in Nat
  BY TotalIsNat
<1>2. above \in Surjection(Units(d), Above)
  BY DEF Surjection
<1>3. IsFiniteSet(Above) /\ Cardinality(Above) <= Total(d)
  BY <1>1, <1>2, FS_Surjection
<1>4. ASSUME NEW s \in A, NEW k \in 1 .. f[s], s \notin B \/ k > g[s]
      PROVE  <<s, k>> \in Above
  <2>1. Base(s) \in Nat /\ f[s] \in Nat /\ k \in Nat /\ k >= 1 /\ k > Base(s) /\ k <= f[s]
    BY <1>4
  <2>2. s \in C /\ d[s] \in Nat /\ k - Base(s) \in 1 .. d[s]
    BY <2>1
  <2>3. <<s, k - Base(s)>> \in Units(d)
    BY <2>2, UnitsAre
  <2>4. On(<<s, k - Base(s)>>) = <<s, k>>
    <3>1. Base(s) + (k - Base(s)) = k
      BY <2>1
    <3>2. QED
      BY <3>1
  <2>5. QED
    BY <2>3, <2>4
<1>5. Units(f) \subseteq Units(g) \cup Above
  <2> SUFFICES ASSUME NEW s \in A, NEW k \in 1 .. f[s]
               PROVE  <<s, k>> \in Units(g) \cup Above
    BY UnitsAre
  <2>1. CASE s \notin B \/ k > g[s]
    BY <1>4, <2>1
  <2>2. CASE s \in B /\ ~(k > g[s])
    <3>1. k \in 1 .. g[s]
      BY <2>2
    <3>2. QED
      BY <2>2, <3>1, UnitsAre
  <2>3. QED
    BY <2>1, <2>2
<1>6. /\ IsFiniteSet(Units(g) \cup Above)
      /\ Cardinality(Units(g) \cup Above) <= Cardinality(Units(g)) + Cardinality(Above)
      /\ Cardinality(Above) \in Nat
  <2>1. Cardinality(Units(g) \cap Above) \in Nat /\ Cardinality(Above) \in Nat
    BY <1>1, <1>3, FS_Intersection, FS_CardinalityType
  <2>2. Cardinality(Units(g) \cup Above)
          = Cardinality(Units(g)) + Cardinality(Above) - Cardinality(Units(g) \cap Above)
    BY <1>1, <1>3, FS_Union
  <2>3. IsFiniteSet(Units(g) \cup Above)
    BY <1>1, <1>3, FS_Union
  <2>4. Cardinality(Units(g)) \in Nat
    BY <1>1
  <2>5. QED
    BY <2>1, <2>2, <2>3, <2>4
<1>7. Cardinality(Units(f)) <= Cardinality(Units(g) \cup Above)
  BY <1>5, <1>6, FS_Subset
<1>8. Cardinality(Units(g) \cup Above) \in Nat
  BY <1>6, FS_CardinalityType
<1>9. QED
  BY <1>1, <1>3, <1>6, <1>7, <1>8

\* What is pending at a check is such a sum.
LEMMA PendingIsTotal ==
  ASSUME NEW held \in [Server -> Nat], NEW sample \in Samples
  PROVE  \E owed \in [Server -> Nat]:
           /\ Pending(held, sample) = Total(owed)
           /\ \A s \in Server: sample[s] \in Nat /\ held[s] <= sample[s] + owed[s]
<1> DEFINE owed == [s \in Server |-> AtLeast(0, held[s] - sample[s])]
<1>1. \A s \in Server: sample[s] \in Nat
  BY DEF Samples
<1>2. \A s \in Server: owed[s] \in Nat /\ held[s] <= sample[s] + owed[s]
  BY <1>1 DEF AtLeast
<1>3. QED
  BY <1>1, <1>2 DEF Pending

-----------------------------------------------------------------------------
(* The audits.                                                             *)

LEMMA ListTyped ==
  ASSUME TypeOK, NEW a \in Process, AuditList(a) \/ AuditEnd(a)
  PROVE  audit' \in [Process -> [on: BOOLEAN, listed: SUBSET Server]]
<1> DEFINE listing == [on |-> TRUE, listed |-> {s \in Server: ctr[s] # "down"}]
<1>1. listing \in [on: BOOLEAN, listed: SUBSET Server]
  OBVIOUS
<1>2. audit' = [audit EXCEPT ![a] = listing] \/ audit' = [audit EXCEPT ![a] = NoAudit]
  BY DEF AuditList, AuditEnd
<1>3. QED
  <2> HIDE DEF listing
  <2>1. QED
    BY <1>1, <1>2, NoAuditTyped DEF TypeOK

\* An audit takes an allowance only from servers that do not boot, or that it
\* has not listed and then counts as lost.
LEMMA AuditBooks ==
  ASSUME TypeOK, BootsAreBooked, NEW a \in Process, AuditDone(a), ctr' = ctr
  PROVE  /\ allowance' \in [Server -> Nat]
         /\ lost' \subseteq Server
         /\ granted' = granted
         /\ BootsAreBooked'
<1>1. PICK kept \in SUBSET audit[a].listed, mb \in [Server -> 0..LargestCap]:
        /\ \A s \in Server: mb[s] \in IF s \in kept THEN RecoveryDemands(s) ELSE {0}
        /\ \A s \in kept: MayKeep(s)
        /\ \A s \in audit[a].listed \ kept: MayRelease(s)
        /\ allowance' = [s \in Server |->
                           IF s \in kept
                             THEN AtLeast(allowance[s], AtLeast(BootDemand(s), mb[s]))
                             ELSE 0]
  BY DEF AuditDone
<1>2. ASSUME NEW s \in Server, s \in kept
      PROVE  allowance'[s] \in Nat /\ allowance'[s] >= allowance[s]
  <2>1. mb[s] \in Nat
    BY <1>1, <1>2, AdmissionAssumption DEF RecoveryDemands
  <2>2. AtLeast(BootDemand(s), mb[s]) \in Nat
    BY <2>1, DemandIsNat, AtLeastIsNat
  <2>3. allowance[s] \in Nat
    BY DEF TypeOK
  <2>4. allowance'[s] = AtLeast(allowance[s], AtLeast(BootDemand(s), mb[s]))
    BY <1>1, <1>2
  <2>5. QED
    BY <2>2, <2>3, <2>4, AtLeastIsNat
<1>3. allowance' \in [Server -> Nat]
  <2>1. DOMAIN allowance' = Server /\ allowance' = [s \in Server |-> allowance'[s]]
    BY <1>1
  <2>2. \A s \in Server: allowance'[s] \in Nat
    BY <1>1, <1>2
  <2>3. QED
    BY <2>1, <2>2
<1>4. lost' = {s \in lost \cup (Server \ audit[a].listed): Boots(s) /\ allowance'[s] < granted[s]}
  BY DEF AuditDone
<1>5. lost' \subseteq Server /\ granted' = granted
  BY <1>4 DEF AuditDone, TypeOK
<1>6. ASSUME NEW s \in Server, Boots(s), s \notin lost'
      PROVE  allowance'[s] >= granted[s]
  <2>1. allowance'[s] \in Nat /\ granted[s] \in Nat /\ allowance[s] \in Nat
    BY <1>3 DEF TypeOK
  <2>2. CASE s \in lost \cup (Server \ audit[a].listed)
    BY <1>4, <1>6, <2>1, <2>2
  <2>3. CASE s \notin lost /\ s \in audit[a].listed
    <3>1. allowance[s] >= granted[s]
      BY <1>6, <2>3 DEF BootsAreBooked
    <3>2. s \in kept
      BY <1>1, <1>6, <2>3 DEF MayRelease, Boots
    <3>3. QED
      BY <1>2, <2>1, <3>1, <3>2
  <2>4. QED
    BY <2>2, <2>3
<1>7. BootsAreBooked'
  BY <1>5, <1>6 DEF BootsAreBooked, Boots
<1>8. QED
  BY <1>3, <1>5, <1>7

-----------------------------------------------------------------------------
(* The steps.                                                              *)

LEMMA AuditStepsKeep ==
  ASSUME AdmissionInv, NEW a \in Auditor, AuditSteps(a)
  PROVE  AdmissionInv'
<1> USE DEF AdmissionInv
<1>1. UNCHANGED <<ctr, inPool, use, learned, queue, start>>
  BY DEF AuditSteps, machine
<1>2. HeadIsDown'
  BY <1>1 DEF HeadIsDown
<1>3. audit' \in [Process -> [on: BOOLEAN, listed: SUBSET Server]]
  <2>1. a \in Process
    BY DEF Process
  <2>2. AuditList(a) \/ AuditEnd(a)
    BY DEF AuditSteps, AuditDone, AuditFails
  <2>3. QED
    BY <2>1, <2>2, ListTyped
<1>4. /\ allowance' \in [Server -> Nat] /\ lost' \subseteq Server
      /\ granted' = granted /\ BootsAreBooked'
  <2>1. CASE AuditDone(a)
    BY <1>1, <2>1, AuditBooks DEF Process
  <2>2. CASE UNCHANGED <<allowance, history>>
    BY <1>1, <2>2 DEF TypeOK, BootsAreBooked, Boots, history
  <2>3. QED
    BY <2>1, <2>2 DEF AuditSteps
<1>5. TypeOK'
  BY <1>1, <1>3, <1>4 DEF TypeOK
<1>6. QED
  BY <1>2, <1>4, <1>5

\* The type of the start at the head.
Starts ==
  [step: {"idle", "audit", "check", "room", "launch"}, request: Nat, pending: Nat, blind: BOOLEAN]

LEMMA StartAuditKeeps == AdmissionInv /\ StartAudit => AdmissionInv'
<1> SUFFICES ASSUME AdmissionInv, StartAudit PROVE AdmissionInv'
  OBVIOUS
<1> USE DEF AdmissionInv
<1>1. UNCHANGED <<ctr, inPool, use, learned, allowance, queue, granted, lost>> /\ queue # <<>>
  BY DEF StartAudit, machine, history
<1>2. PICK mb \in RecoveryDemands(Head(queue)):
        start' = [NoStart EXCEPT !.step = "audit", !.request = mb]
  BY DEF StartAudit
<1>3. mb \in Nat
  BY <1>1, AdmissionAssumption DEF RecoveryDemands, TypeOK
<1>4. start' \in Starts /\ start'.step = "audit"
  BY <1>2, <1>3 DEF NoStart, Starts
<1>5. audit' \in [Process -> [on: BOOLEAN, listed: SUBSET Server]]
  BY ListTyped DEF StartAudit, Process
<1>6. TypeOK'
  BY <1>1, <1>4, <1>5 DEF TypeOK, Starts
<1>7. QED
  BY <1>1, <1>4, <1>6 DEF HeadIsDown, BootsAreBooked, Boots

LEMMA StartAuditedKeeps == AdmissionInv /\ StartAudited => AdmissionInv'
<1> SUFFICES ASSUME AdmissionInv, StartAudited PROVE AdmissionInv'
  OBVIOUS
<1> USE DEF AdmissionInv
<1>1. UNCHANGED <<ctr, inPool, use, learned, queue>> /\ AuditDone(Starter)
      /\ start.step = "audit" /\ Starter \in Process
  BY DEF StartAudited, machine, Process
<1>2. /\ allowance' \in [Server -> Nat] /\ lost' \subseteq Server
      /\ granted' = granted /\ BootsAreBooked'
  BY <1>1, AuditBooks
<1>3. start' \in Starts /\ start'.step = "check"
  BY DEF StartAudited, TypeOK, Starts
<1>4. audit' \in [Process -> [on: BOOLEAN, listed: SUBSET Server]]
  BY <1>1, ListTyped DEF AuditDone
<1>5. TypeOK'
  BY <1>1, <1>2, <1>3, <1>4 DEF TypeOK, Starts
<1>6. QED
  BY <1>1, <1>2, <1>3, <1>5 DEF HeadIsDown

\* A start that leaves the queue leaves the allowances of the others alone.
LEMMA LeaveKeeps ==
  ASSUME AdmissionInv, queue # <<>>, Leave, UNCHANGED <<machine, learned, history>>,
         audit' \in [Process -> [on: BOOLEAN, listed: SUBSET Server]],
         allowance' = allowance \/ (ctr[Head(queue)] = "down"
                                    /\ allowance' = [allowance EXCEPT ![Head(queue)] = 0])
  PROVE  AdmissionInv'
<1> USE DEF AdmissionInv
<1>1. UNCHANGED <<ctr, inPool, use, learned, granted, lost>>
  BY DEF machine, history
<1>2. queue' \in Seq(Server) /\ Head(queue) \in Server
  BY DEF Leave, TypeOK
<1>3. start' \in Starts /\ start'.step = "idle"
  BY DEF Leave, NoStart, Starts
<1>4. allowance' \in [Server -> Nat]
  <2>1. allowance \in [Server -> Nat]
    BY DEF TypeOK
  <2>2. [allowance EXCEPT ![Head(queue)] = 0] \in [Server -> Nat]
    BY <1>2, <2>1
  <2>3. QED
    BY <2>1, <2>2
<1>5. \A s \in Server: ctr[s] = "booting" => allowance'[s] = allowance[s]
  BY <1>2 DEF TypeOK
<1>6. TypeOK'
  BY <1>1, <1>2, <1>3, <1>4 DEF TypeOK, Starts
<1>7. BootsAreBooked'
  BY <1>1, <1>5 DEF BootsAreBooked, Boots
<1>8. QED
  BY <1>3, <1>6, <1>7 DEF HeadIsDown

LEMMA LeavingKeeps ==
  AdmissionInv /\ (StartRunning \/ StartRefused \/ StartThrows \/ StartFails) => AdmissionInv'
<1> SUFFICES ASSUME AdmissionInv, StartRunning \/ StartRefused \/ StartThrows \/ StartFails
             PROVE  AdmissionInv'
  OBVIOUS
<1>1. queue # <<>> /\ Leave /\ UNCHANGED <<machine, learned, history>>
  BY DEF StartRunning, StartRefused, StartThrows, StartFails, AdmissionInv, HeadIsDown
<1>2. audit' \in [Process -> [on: BOOLEAN, listed: SUBSET Server]]
  <2>1. audit' = audit \/ AuditEnd(Starter)
    BY DEF StartRunning, StartRefused, StartThrows, StartFails
  <2>2. QED
    BY <2>1, ListTyped DEF AdmissionInv, TypeOK, Process
<1>3. allowance' = allowance \/ (ctr[Head(queue)] = "down"
                                 /\ allowance' = [allowance EXCEPT ![Head(queue)] = 0])
  BY DEF StartRunning, StartRefused, StartThrows, StartFails, AdmissionInv, HeadIsDown
<1>4. QED
  BY <1>1, <1>2, <1>3, LeaveKeeps

LEMMA StartCheckKeeps == AdmissionInv /\ StartCheck => AdmissionInv'
<1> SUFFICES ASSUME AdmissionInv, StartCheck PROVE AdmissionInv'
  OBVIOUS
<1> USE DEF AdmissionInv
<1> DEFINE s == Head(queue)
<1>1. UNCHANGED <<ctr, inPool, use, learned, queue, audit, granted, lost>>
      /\ start.step = "check" /\ ctr[s] = "down" /\ queue # <<>>
  BY DEF StartCheck, machine, history, HeadIsDown
<1>2. s \in Server
  BY <1>1 DEF TypeOK
<1>3. allowance' = [allowance EXCEPT ![s] = 0]
  BY DEF StartCheck
<1>4. PICK sample \in Samples:
        start' = [step |-> "room", request |-> AtLeast(start.request, BootDemand(s)),
                  pending |-> Pending(allowance', sample),
                  blind |-> lost # {} \/ \E t \in Server: sample[t] > use[t]]
  BY DEF StartCheck
<1>5. AtLeast(start.request, BootDemand(s)) \in Nat
  <2>1. start.request \in Nat
    BY DEF TypeOK
  <2>2. QED
    BY <1>2, <2>1, DemandIsNat, AtLeastIsNat
<1>6. Pending(allowance', sample) \in Nat
  <2>1. allowance' \in [Server -> Nat]
    BY <1>2, <1>3 DEF TypeOK
  <2>2. QED
    BY <2>1, PendingIsTotal, TotalIsNat, AdmissionAssumption
<1>7. start' \in Starts /\ start'.step = "room"
  BY <1>4, <1>5, <1>6 DEF Starts
<1>8. TypeOK'
  BY <1>1, <1>2, <1>3, <1>7 DEF TypeOK, Starts
<1>9. BootsAreBooked'
  BY <1>1, <1>2, <1>3 DEF BootsAreBooked, Boots, TypeOK
<1>10. QED
  BY <1>1, <1>7, <1>8, <1>9 DEF HeadIsDown

LEMMA StartAdmitKeeps == AdmissionInv /\ StartAdmit => AdmissionInv'
<1> SUFFICES ASSUME AdmissionInv, StartAdmit PROVE AdmissionInv'
  OBVIOUS
<1> USE DEF AdmissionInv
<1> DEFINE s == Head(queue)
<1>1. UNCHANGED <<ctr, inPool, use, learned, queue, audit, lost>>
      /\ start.step = "room" /\ ctr[s] = "down" /\ queue # <<>>
  BY DEF StartAdmit, machine, HeadIsDown
<1>2. s \in Server /\ start.request \in Nat
  BY <1>1 DEF TypeOK
<1>3. allowance' = [allowance EXCEPT ![s] = AtLeast(allowance[s], start.request)]
      /\ granted' = [granted EXCEPT ![s] = start.request]
  BY DEF StartAdmit, Reserve
<1>4. AtLeast(allowance[s], start.request) \in Nat
  BY <1>2, AtLeastIsNat DEF TypeOK
<1>5. start' \in Starts /\ start'.step = "launch"
  BY DEF StartAdmit, NoStart, Starts
<1>6. TypeOK'
  BY <1>1, <1>2, <1>3, <1>4, <1>5 DEF TypeOK, Starts
<1>7. BootsAreBooked'
  BY <1>1, <1>2, <1>3 DEF BootsAreBooked, Boots, TypeOK
<1>8. QED
  BY <1>1, <1>5, <1>6, <1>7 DEF HeadIsDown

LEMMA StartLaunchKeeps == AdmissionInv /\ StartLaunch => AdmissionInv'
<1> SUFFICES ASSUME AdmissionInv, StartLaunch PROVE AdmissionInv'
  OBVIOUS
<1> USE DEF AdmissionInv
<1> DEFINE s == Head(queue)
<1>1. UNCHANGED <<inPool, learned, allowance, audit, granted>>
      /\ start.step = "launch" /\ ctr[s] = "down" /\ queue # <<>>
  BY DEF StartLaunch, HeadIsDown
<1>2. s \in Server /\ queue' \in Seq(Server)
  BY <1>1 DEF TypeOK, StartLaunch, Leave
<1>3. /\ ctr' = [ctr EXCEPT ![s] = "booting"] /\ use' = [use EXCEPT ![s] = 1]
      /\ lost' = IF allowance[s] < granted[s] THEN lost \cup {s} ELSE lost
  BY DEF StartLaunch
<1>4. start' \in Starts /\ start'.step = "idle"
  BY DEF StartLaunch, Leave, NoStart, Starts
<1>5. TypeOK'
  BY <1>1, <1>2, <1>3, <1>4 DEF TypeOK, Starts
<1>6. ASSUME NEW t \in Server, ctr'[t] = "booting", t \notin lost'
      PROVE  allowance[t] >= granted[t]
  <2>1. allowance[t] \in Nat /\ granted[t] \in Nat /\ t \notin lost
    BY <1>3, <1>6 DEF TypeOK
  <2>2. CASE t = s
    BY <1>3, <1>6, <2>1, <2>2
  <2>3. CASE t # s
    BY <1>2, <1>3, <1>6, <2>1, <2>3 DEF BootsAreBooked, Boots, TypeOK
  <2>4. QED
    BY <2>2, <2>3
<1>7. BootsAreBooked'
  BY <1>1, <1>6 DEF BootsAreBooked, Boots
<1>8. QED
  BY <1>4, <1>5, <1>7 DEF HeadIsDown

\* Requests, and what the containers do by themselves.
LEMMA OutsideKeeps ==
  ASSUME AdmissionInv, NEW s \in Server, Outside(s)
  PROVE  AdmissionInv'
<1> USE DEF AdmissionInv
<1>1. CASE RequestStart(s)
  <2>1. UNCHANGED <<ctr, inPool, use, learned, allowance, start, audit, granted, lost>>
    BY <1>1 DEF RequestStart, machine, history
  <2>2. queue' = Append(queue, s) /\ queue \in Seq(Server)
    BY <1>1 DEF RequestStart, TypeOK
  <2>3. queue' \in Seq(Server) /\ queue' # <<>> /\ (queue # <<>> => Head(queue') = Head(queue))
    BY <2>2
  <2>4. TypeOK'
    BY <2>1, <2>3 DEF TypeOK
  <2>5. HeadIsDown'
    BY <2>1, <2>3 DEF HeadIsDown
  <2>6. QED
    BY <2>1, <2>4, <2>5 DEF BootsAreBooked, Boots
<1>2. CASE Grow(s) \/ Learn(s) \/ Rebuild(s)
  <2>1. UNCHANGED <<ctr, allowance, queue, start, audit, granted, lost>>
    BY <1>2 DEF Grow, Learn, Rebuild, machine, history
  <2>2. inPool' \subseteq Server /\ use' \in [Server -> Nat] /\ learned' \in [Server -> Nat]
    <3>1. use[s] \in Nat /\ use \in [Server -> Nat] /\ learned \in [Server -> Nat] /\ inPool \subseteq Server
      BY DEF TypeOK
    <3>2. CASE Grow(s)
      BY <3>1, <3>2 DEF Grow
    <3>3. CASE Learn(s)
      BY <3>1, <3>3 DEF Learn, machine
    <3>4. CASE Rebuild(s)
      BY <3>1, <3>4 DEF Rebuild
    <3>5. QED
      BY <1>2, <3>2, <3>3, <3>4
  <2>3. TypeOK'
    BY <2>1, <2>2 DEF TypeOK
  <2>4. QED
    BY <2>1, <2>3 DEF BootsAreBooked, Boots, HeadIsDown
<1>3. CASE Shrink(s)
  <2>1. UNCHANGED <<ctr, inPool, learned, allowance, queue, audit, granted, lost>>
    BY <1>3 DEF Shrink, history
  <2>2. use' \in [Server -> Nat]
    BY <1>3 DEF Shrink, TypeOK
  <2>3. start' \in Starts /\ start'.step = start.step
    BY <1>3 DEF Shrink, TypeOK, Starts
  <2>4. TypeOK'
    BY <2>1, <2>2, <2>3 DEF TypeOK, Starts
  <2>5. QED
    BY <2>1, <2>3, <2>4 DEF BootsAreBooked, Boots, HeadIsDown
<1>4. CASE Ripen(s) \/ Exit(s)
  <2>1. UNCHANGED <<inPool, learned, allowance, queue, start, audit>>
    BY <1>4 DEF Ripen, Exit, history
  <2>2. /\ ctr' \in [Server -> {"down", "booting", "up"}] /\ use' \in [Server -> Nat]
        /\ granted' \in [Server -> Nat] /\ lost' \subseteq Server
    <3>1. CASE Ripen(s)
      BY <3>1 DEF Ripen, history, TypeOK
    <3>2. CASE Exit(s)
      BY <3>2 DEF Exit, TypeOK
    <3>3. QED
      BY <1>4, <3>1, <3>2
  <2>3. TypeOK'
    BY <2>1, <2>2 DEF TypeOK
  <2>4. \A t \in Server: (ctr'[t] = "booting" => t # s /\ ctr[t] = "booting") /\ (ctr[t] = "down" => ctr'[t] = "down")
    BY <1>4 DEF Ripen, Exit, Boots, TypeOK
  <2>5. \A t \in Server: t # s => granted'[t] = granted[t] /\ (t \in lost' <=> t \in lost)
    BY <1>4 DEF Ripen, Exit, history, TypeOK
  <2>6. BootsAreBooked'
    BY <2>1, <2>4, <2>5 DEF BootsAreBooked, Boots
  <2>7. HeadIsDown'
    BY <2>1, <2>4 DEF HeadIsDown, TypeOK
  <2>8. QED
    BY <2>3, <2>6, <2>7
<1>5. QED
  BY <1>1, <1>2, <1>3, <1>4 DEF Outside

LEMMA CrashKeeps == AdmissionInv /\ Crash => AdmissionInv'
<1> SUFFICES ASSUME AdmissionInv, Crash PROVE AdmissionInv'
  OBVIOUS
<1> USE DEF AdmissionInv
<1>1. UNCHANGED <<ctr, inPool, use, learned, granted>>
  BY DEF Crash, machine
<1>2. start' \in Starts /\ start'.step = "idle"
  BY DEF Crash, NoStart, Starts
<1>3. TypeOK'
  BY <1>1, <1>2, NoAuditTyped DEF Crash, TypeOK, Starts
<1>4. BootsAreBooked'
  BY <1>1 DEF Crash, BootsAreBooked, Boots
<1>5. QED
  BY <1>2, <1>3, <1>4 DEF HeadIsDown

LEMMA AdmissionNext == AdmissionInv /\ [Next]_vars => AdmissionInv'
<1> SUFFICES ASSUME AdmissionInv, [Next]_vars PROVE AdmissionInv'
  OBVIOUS
<1>1. CASE StartSteps
  BY <1>1, StartAuditKeeps, StartAuditedKeeps, LeavingKeeps, StartCheckKeeps, StartAdmitKeeps,
     StartLaunchKeeps DEF StartSteps
<1>2. CASE Crash
  BY <1>2, CrashKeeps
<1>3. CASE \E a \in Auditor: AuditSteps(a)
  BY <1>3, AuditStepsKeep
<1>4. CASE \E s \in Server: Outside(s)
  BY <1>4, OutsideKeeps
<1>5. CASE UNCHANGED vars
  <2>1. UNCHANGED <<ctr, inPool, use, learned, allowance, queue, start, audit, granted, lost>>
    BY <1>5 DEF vars, machine, history
  <2>2. QED
    BY <2>1 DEF AdmissionInv, TypeOK, BootsAreBooked, Boots, HeadIsDown
<1>6. QED
  BY <1>1, <1>2, <1>3, <1>4, <1>5 DEF Next

-----------------------------------------------------------------------------
(* What a start in front of its admission has counted.                     *)

\* The amounts that were summed up hold, server by server, what a boot was
\* granted and does not use yet; and every start asks for something.
Covered(owed) ==
  \A s \in Server: s # Head(queue) /\ Boots(s) => granted[s] <= use[s] + owed[s]

CountsBoots ==
  start.step = "room" =>
    /\ start.request > 0
    /\ ~ start.blind => \E owed \in [Server -> Nat]: start.pending = Total(owed) /\ Covered(owed)

LEMMA CountsInit == Init => CountsBoots
BY DEF Init, NoStart, CountsBoots

\* The check counts the allowances, which cover what was granted.
LEMMA CheckCounts == AdmissionInv /\ StartCheck => CountsBoots'
<1> SUFFICES ASSUME AdmissionInv, StartCheck PROVE CountsBoots'
  OBVIOUS
<1> USE DEF AdmissionInv
<1> DEFINE s == Head(queue)
<1>1. UNCHANGED <<ctr, use, queue, granted, lost>> /\ s \in Server
  <2>1. queue # <<>>
    BY DEF StartCheck, HeadIsDown
  <2>2. QED
    BY <2>1 DEF StartCheck, machine, history, TypeOK
<1>2. allowance' = [allowance EXCEPT ![s] = 0]
  BY DEF StartCheck
<1>3. PICK sample \in Samples:
        start' = [step |-> "room", request |-> AtLeast(start.request, BootDemand(s)),
                  pending |-> Pending(allowance', sample),
                  blind |-> lost # {} \/ \E t \in Server: sample[t] > use[t]]
  BY DEF StartCheck
<1>4. start'.request > 0
  <2>1. start.request \in Nat /\ Floor[s] \in Nat \ {0}
    BY <1>1, AdmissionAssumption DEF TypeOK
  <2>2. BootDemand(s) \in Nat /\ BootDemand(s) >= Floor[s]
    BY <1>1, DemandIsNat
  <2>3. start'.request >= BootDemand(s) /\ start'.request \in Nat
    BY <1>3, <2>1, <2>2, AtLeastIsNat
  <2>4. QED
    BY <2>1, <2>2, <2>3
<1>5. ASSUME ~ start'.blind
      PROVE  \E owed \in [Server -> Nat]: start'.pending = Total(owed) /\ Covered(owed)'
  <2>1. allowance' \in [Server -> Nat]
    BY <1>1, <1>2 DEF TypeOK
  <2>2. PICK owed \in [Server -> Nat]:
          /\ Pending(allowance', sample) = Total(owed)
          /\ \A t \in Server: sample[t] \in Nat /\ allowance'[t] <= sample[t] + owed[t]
    BY <2>1, PendingIsTotal
  <2>3. lost = {} /\ \A t \in Server: ~(sample[t] > use[t])
    BY <1>3, <1>5
  <2>4. ASSUME NEW t \in Server, t # s, ctr[t] = "booting"
        PROVE  granted[t] <= use[t] + owed[t]
    <3>1. /\ granted[t] \in Nat /\ use[t] \in Nat /\ owed[t] \in Nat
          /\ allowance[t] \in Nat /\ sample[t] \in Nat
      BY <2>2 DEF TypeOK
    <3>2. allowance[t] >= granted[t]
      BY <2>3, <2>4 DEF BootsAreBooked, Boots
    <3>3. allowance'[t] = allowance[t]
      BY <1>2, <2>4 DEF TypeOK
    <3>4. allowance'[t] <= sample[t] + owed[t] /\ sample[t] <= use[t]
      BY <2>2, <2>3, <3>1
    <3>5. QED
      BY <3>1, <3>2, <3>3, <3>4
  <2>5. Covered(owed)'
    BY <1>1, <2>4 DEF Covered, Boots
  <2>6. start'.pending = Total(owed)
    BY <1>3, <2>2
  <2>7. QED
    BY <2>5, <2>6
<1>6. QED
  BY <1>4, <1>5 DEF CountsBoots

\* A step of the others moves what is owed into what is used, or ends a boot.
LEMMA OthersCount ==
  ASSUME AdmissionInv, CountsBoots, start'.step = "room", start'.step = start.step,
         UNCHANGED <<start.request, start.pending>>, start'.blind \/ ~ start.blind,
         queue # <<>> => Head(queue') = Head(queue),
         start'.blind \/ \A s \in Server:
           ctr'[s] = "booting" => /\ ctr[s] = "booting"
                                  /\ granted'[s] = granted[s] /\ use'[s] >= use[s] /\ use'[s] \in Nat
  PROVE  CountsBoots'
<1> USE DEF AdmissionInv
<1>1. queue # <<>> /\ Head(queue') = Head(queue)
  BY DEF HeadIsDown
<1>2. start'.request > 0
  BY DEF CountsBoots
<1>3. ASSUME ~ start'.blind
      PROVE  \E owed \in [Server -> Nat]: start'.pending = Total(owed) /\ Covered(owed)'
  <2>1. PICK owed \in [Server -> Nat]: start.pending = Total(owed) /\ Covered(owed)
    BY <1>3 DEF CountsBoots
  <2>2. ASSUME NEW t \in Server, t # Head(queue), ctr'[t] = "booting"
        PROVE  granted'[t] <= use'[t] + owed[t]
    <3>1. /\ ctr[t] = "booting" /\ granted'[t] = granted[t] /\ use'[t] >= use[t] /\ use'[t] \in Nat
          /\ granted[t] \in Nat /\ use[t] \in Nat /\ owed[t] \in Nat
      BY <1>3, <2>2 DEF TypeOK
    <3>2. granted[t] <= use[t] + owed[t]
      BY <2>1, <2>2, <3>1 DEF Covered, Boots
    <3>3. QED
      BY <3>1, <3>2
  <2>3. Covered(owed)'
    BY <1>1, <2>2 DEF Covered, Boots
  <2>4. QED
    BY <2>1, <2>3
<1>4. QED
  BY <1>2, <1>3 DEF CountsBoots

LEMMA CountsNext == AdmissionInv /\ CountsBoots /\ [Next]_vars => CountsBoots'
<1> SUFFICES ASSUME AdmissionInv, CountsBoots, [Next]_vars PROVE CountsBoots'
  OBVIOUS
<1>1. CASE StartSteps
  <2>1. CASE StartCheck
    BY <2>1, CheckCounts
  <2>2. CASE ~ StartCheck
    <3>1. CASE StartAudit \/ StartAdmit
      BY <3>1 DEF StartAudit, StartAdmit, NoStart, CountsBoots
    <3>2. CASE StartAudited
      BY <3>2 DEF StartAudited, AdmissionInv, TypeOK, CountsBoots
    <3>3. CASE Leave
      BY <3>3 DEF Leave, NoStart, CountsBoots
    <3>4. QED
      BY <1>1, <2>2, <3>1, <3>2, <3>3 DEF StartSteps, StartRunning, StartRefused, StartThrows,
        StartLaunch, StartFails
  <2>3. QED
    BY <2>1, <2>2
<1>2. CASE Crash
  BY <1>2 DEF Crash, NoStart, CountsBoots
<1>3. CASE start'.step # "room"
  BY <1>3 DEF CountsBoots
<1>4. CASE \E a \in Auditor: AuditSteps(a)
  <2>1. UNCHANGED <<ctr, use, queue, start>>
    BY <1>4 DEF AuditSteps, machine
  <2>2. granted' = granted
    BY <1>4 DEF AuditSteps, AuditDone, history
  <2>3. QED
    BY <1>3, <2>1, <2>2, OthersCount DEF AdmissionInv, TypeOK
<1>5. CASE \E s \in Server: Outside(s)
  <2> SUFFICES ASSUME NEW s \in Server, Outside(s), start'.step = "room" PROVE CountsBoots'
    BY <1>3, <1>5
  <2>1. /\ start'.step = start.step /\ UNCHANGED <<start.request, start.pending>>
        /\ start'.blind \/ ~ start.blind
    BY DEF Outside, RequestStart, Grow, Shrink, Ripen, Exit, Rebuild, Learn, AdmissionInv, TypeOK
  <2>2. queue # <<>> => Head(queue') = Head(queue)
    <3>1. CASE RequestStart(s)
      BY <3>1 DEF RequestStart, AdmissionInv, TypeOK
    <3>2. CASE queue' = queue
      BY <3>2
    <3>3. QED
      BY <3>1, <3>2 DEF Outside, Grow, Shrink, Ripen, Exit, Rebuild, Learn
  <2>3. start'.blind \/ \A t \in Server:
           ctr'[t] = "booting" => /\ ctr[t] = "booting"
                                  /\ granted'[t] = granted[t] /\ use'[t] >= use[t] /\ use'[t] \in Nat
    <3>1. ctr \in [Server -> {"down", "booting", "up"}] /\ use \in [Server -> Nat] /\ granted \in [Server -> Nat]
      BY DEF AdmissionInv, TypeOK
    <3>2. CASE Shrink(s)
      BY <2>1, <3>2 DEF Shrink, AdmissionInv, TypeOK
    <3>3. CASE RequestStart(s) \/ Rebuild(s) \/ Learn(s) \/ Ripen(s)
      <4>1. use' = use /\ granted' = granted /\ (ctr' = ctr \/ ctr' = [ctr EXCEPT ![s] = "up"])
        BY <3>3 DEF RequestStart, Rebuild, Learn, Ripen, machine, history
      <4>2. QED
        BY <3>1, <4>1
    <3>4. CASE Grow(s)
      BY <3>1, <3>4 DEF Grow, history
    <3>5. CASE Exit(s)
      BY <3>1, <3>5 DEF Exit
    <3>6. QED
      BY <3>2, <3>3, <3>4, <3>5 DEF Outside
  <2>4. QED
    BY <2>1, <2>2, <2>3, OthersCount
<1>6. CASE UNCHANGED vars
  <2>1. UNCHANGED <<ctr, use, queue, start, granted>>
    BY <1>6 DEF vars, machine, history
  <2>2. QED
    BY <1>3, <2>1, OthersCount DEF AdmissionInv, TypeOK
<1>7. QED
  BY <1>1, <1>2, <1>4, <1>5, <1>6 DEF Next

\* Who finds room finds it with the other boots in full.
LEMMA RoomForAll ==
  ASSUME AdmissionInv, CountsBoots, StartAdmit, ~ start.blind
  PROVE  Committed(Head(queue)) + start.request <= Room
<1> USE DEF AdmissionInv
<1> DEFINE s == Head(queue)
           full == [t \in Server \ {s} |-> IF Boots(t) THEN AtLeast(use[t], granted[t]) ELSE use[t]]
<1>1. start.step = "room" /\ FitsPool(start.request, start.pending)
  BY DEF StartAdmit
<1>2. PICK owed \in [Server -> Nat]: start.pending = Total(owed) /\ Covered(owed)
  BY <1>1 DEF CountsBoots
<1>3. use \in [Server -> Nat] /\ granted \in [Server -> Nat] /\ start.request \in Nat
  BY DEF TypeOK
<1>4. full \in [Server \ {s} -> Nat]
  BY <1>3, AtLeastIsNat
<1>5. ASSUME NEW t \in Server \ {s} PROVE full[t] <= use[t] + owed[t]
  <2>1. use[t] \in Nat /\ granted[t] \in Nat /\ owed[t] \in Nat
    BY <1>3
  <2>2. Boots(t) => granted[t] <= use[t] + owed[t]
    BY <1>2 DEF Covered
  <2>3. QED
    BY <2>1, <2>2 DEF AtLeast
<1>6. IsFiniteSet(Server) /\ IsFiniteSet(Server \ {s})
  BY AdmissionAssumption, FS_Subset
<1>7. Total(full) <= Total(use) + Total(owed)
  <2>1. \A t \in Server \ {s}:
          full[t] <= (IF t \in Server THEN use[t] ELSE 0) + (IF t \in Server THEN owed[t] ELSE 0)
    BY <1>5
  <2> HIDE DEF full
  <2>2. QED
    BY <1>3, <1>4, <1>6, <2>1, TotalsAdd
<1>8. Total(full) \in Nat /\ Total(use) \in Nat /\ Total(owed) \in Nat
  <2> HIDE DEF full
  <2>1. QED
    BY <1>3, <1>4, <1>6, TotalIsNat
<1>9. start.request <= Room - Total(use) - Total(owed)
  <2>1. start.request <= AtLeast(0, Room - Total(use) - Total(owed)) /\ start.request > 0
    BY <1>1, <1>2 DEF FitsPool, WorkingSet, CountsBoots
  <2>2. Room \in Nat
    BY AdmissionAssumption
  <2>3. QED
    BY <1>3, <1>8, <2>1, <2>2 DEF AtLeast
<1>10. Committed(s) = Total(full)
  BY DEF Committed
<1>11. Room \in Nat
  BY AdmissionAssumption
<1>12. QED
  BY <1>3, <1>7, <1>8, <1>9, <1>10, <1>11

-----------------------------------------------------------------------------

\* For any servers, any caps and any number of audits under way: a JVM that
\* still boots keeps the allowance it was admitted with, unless an audit that
\* had not listed it, or a restart of the backend, took it.
THEOREM BootsStayBooked == Spec => []AllowancesCover
<1>1. Init => AdmissionInv
  BY AdmissionInit
<1>2. AdmissionInv => AllowancesCover
  BY DEF AdmissionInv, AllowancesCover
<1>3. QED
  BY <1>1, <1>2, AdmissionNext, PTL DEF Spec

\* For any servers, any sizes and any number of audits under way: an admission
\* fills no more than Room, with all that other boots were granted counted in
\* full, whoever grew, got ready or exited since the check, unless an allowance
\* was lost when the start looked, or a sample it used was above the use.
THEOREM AdmissionIsSafe == Spec => AdmissionFits
<1>1. Init => AdmissionInv /\ CountsBoots
  BY AdmissionInit, CountsInit
<1>2. AdmissionInv /\ CountsBoots /\ [Next]_vars => (AdmissionInv /\ CountsBoots)'
  BY AdmissionNext, CountsNext
<1>3. AdmissionInv /\ CountsBoots /\ [Next]_vars =>
        [\A s \in Server:
           StartAdmit /\ s = Head(queue) /\ ~ start.blind => Committed(s) + start.request <= Room]_vars
  BY RoomForAll
<1>4. QED
  BY <1>1, <1>2, <1>3, PTL DEF Spec, AdmissionFits
=============================================================================
