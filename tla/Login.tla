------------------------------- MODULE Login -------------------------------
(***************************************************************************)
(* The limit on failed sign-ins.  The backend keeps the failures of every  *)
(* client address in memory; a request to sign in is handled in one turn,  *)
(* the limit before the password.                                          *)
(***************************************************************************)
EXTENDS Integers, FiniteSets

CONSTANTS
  Address,
  MaxFailures, Window,  \* attempts allowed, and how long failures count
  SweepThreshold,       \* addresses kept before the expired ones are dropped
  MaxClock              \* bound: length of a behaviour

LoginAssumption ==
  /\ {MaxFailures, Window} \subseteq Nat \ {0}
  /\ {SweepThreshold, MaxClock} \subseteq Nat /\ IsFiniteSet(Address)

VARIABLES
  clock,
  buckets,  \* failures and when they stop to count, by address
  answer,   \* the latest answer to an address
  tries,    \* the address's window, by its own count: its beginning, wrong passwords
  retryAt   \* when an address that was refused was told to come back; 0 for none

loginVars == <<clock, buckets, answer, tries, retryAt>>

NoTries == [since |-> -Window, wrong |-> 0]

Init ==
  /\ clock = 0 /\ buckets = [a \in {} |-> 0]
  /\ answer = [a \in Address |-> "none"]
  /\ tries = [a \in Address |-> NoTries] /\ retryAt = [a \in Address |-> 0]

Put(bs, a, b) == [x \in DOMAIN bs \cup {a} |-> IF x = a THEN b ELSE bs[x]]
Without(bs, S) == [x \in DOMAIN bs \ S |-> bs[x]]

SweepExpired(bs) ==
  IF Cardinality(DOMAIN bs) > SweepThreshold THEN Without(bs, {a \in DOMAIN bs: bs[a].resetAt <= clock}) ELSE bs

\* Broken on purpose (for LimitIsFair): a failure prolongs the window.
BucketProlonged(bs, a) ==
  IF a \in DOMAIN bs /\ bs[a].resetAt > clock
  THEN [bs[a] EXCEPT !.resetAt = clock + Window]
  ELSE [failures |-> 0, resetAt |-> clock + Window]

Fresh == [failures |-> 0, resetAt |-> clock + Window]
BucketFor(bs, a) == IF a \in DOMAIN bs /\ bs[a].resetAt > clock THEN bs[a] ELSE Fresh

Counted(t) == IF clock >= t.since + Window THEN [since |-> clock, wrong |-> 0] ELSE t

Answered(a, status) == answer' = [answer EXCEPT ![a] = status]
LeaveRetry(a) == retryAt' = [retryAt EXCEPT ![a] = 0]

\* A refused attempt counts for nothing, nor does one without a password; a
\* wrong one is a failure, and the right one clears the address.
Attempt(a, password) ==
  LET swept == SweepExpired(buckets)
      bucket == BucketFor(swept, a)
      count == Counted(tries[a]) IN
  /\ \/ /\ bucket.failures >= MaxFailures
        /\ buckets' = Put(swept, a, bucket)
        /\ Answered(a, "429")
        /\ retryAt' = [retryAt EXCEPT ![a] = bucket.resetAt]
        /\ UNCHANGED tries
     \/ /\ bucket.failures < MaxFailures /\ password = "right"
        /\ buckets' = Without(swept, {a})
        /\ tries' = [tries EXCEPT ![a] = NoTries]
        /\ Answered(a, "200") /\ LeaveRetry(a)
     \/ /\ bucket.failures < MaxFailures /\ password = "wrong"
        /\ buckets' = Put(swept, a, [bucket EXCEPT !.failures = @ + 1])
        /\ tries' = [tries EXCEPT ![a] = [count EXCEPT !.wrong = @ + 1]]
        /\ Answered(a, "401") /\ LeaveRetry(a)
     \/ /\ bucket.failures < MaxFailures /\ password = "missing"
        /\ buckets' = Put(swept, a, bucket)
        /\ tries' = [tries EXCEPT ![a] = count]
        /\ Answered(a, "400") /\ LeaveRetry(a)
  /\ UNCHANGED clock

Tick ==
  /\ clock < MaxClock /\ clock' = clock + 1
  /\ UNCHANGED <<buckets, answer, tries, retryAt>>

BackendRestarts ==
  /\ buckets' = [a \in {} |-> 0] /\ tries' = [a \in Address |-> NoTries]
  /\ UNCHANGED <<clock, answer, retryAt>>

Next ==
  \/ \E a \in Address, password \in {"right", "wrong", "missing"}: Attempt(a, password)
  \/ Tick \/ BackendRestarts

Spec == Init /\ [][Next]_loginVars

(***************************************************************************)
(* What the limit promises.                                                *)
(***************************************************************************)

\* The limit is exact in every window of every address, whatever the others
\* do: no more wrong passwords are answered than it allows, nobody is refused
\* before that many, and a client is told to come back at the end of a window
\* it was refused in and is not refused then, however often it tried meanwhile.
LimitIsFair ==
  [][ \A a \in Address:
        /\ tries'[a].wrong <= MaxFailures
        /\ (answer'[a] = "429" /\ <<answer[a], retryAt[a]>>' # <<answer[a], retryAt[a]>>)
             => /\ answer[a] # "429" /\ tries[a].wrong = MaxFailures
                /\ retryAt'[a] = tries[a].since + Window ]_loginVars
=============================================================================
