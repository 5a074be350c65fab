-------------------------- MODULE DashboardProofs --------------------------
(***************************************************************************)
(* What the dashboard goes by, for any bounds.                             *)
(***************************************************************************)
EXTENDS Dashboard, Integers, SequenceTheorems, TLAPS

-----------------------------------------------------------------------------
(* Time is cut into buckets.                                               *)

\* The bucket of a time begins at the last multiple of its length.
LEMMA Division ==
  ASSUME NEW R \in Nat \ {0}, NEW t \in Nat
  PROVE  /\ t \div R \in Nat
         /\ (t \div R) * R <= t /\ t < (t \div R) * R + R
         /\ (t \div R) * R \in Nat
BY Z3

LEMMA Divides ==
  ASSUME NEW a \in Nat, NEW b \in Nat \ {0}, a % b = 0
  PROVE  \E k \in Nat: a = k * b
BY Z3

\* Of two multiples of R less than R apart, neither is the smaller.
LEMMA Multiples ==
  ASSUME NEW R \in Nat \ {0}, NEW q \in Nat, NEW p \in Nat, q * R < p * R + R
  PROVE  q <= p
<1> SUFFICES ASSUME q > p PROVE FALSE  OBVIOUS
<1>1. PICK d \in Nat: q = p + 1 + d
  <2>1. q - p - 1 \in Nat  OBVIOUS
  <2>2. q = p + 1 + (q - p - 1)  OBVIOUS
  <2> QED  BY <2>1, <2>2
<1>2. q * R = p * R + R + d * R  BY <1>1
<1>3. d * R \in Nat  OBVIOUS
<1>4. p * R \in Nat /\ q * R \in Nat  OBVIOUS
<1> QED  BY <1>2, <1>3, <1>4

\* What lies within R of a multiple is in its bucket.
LEMMA InBucket ==
  ASSUME NEW R \in Nat \ {0}, NEW q \in Nat, NEW t \in Nat, q * R <= t, t < q * R + R
  PROVE  t \div R = q
<1>1. PICK p \in Nat: p = t \div R  BY Division
<1>2. p * R <= t /\ t < p * R + R  BY <1>1, Division
<1>3. p * R \in Nat /\ q * R \in Nat  OBVIOUS
<1>4. q * R < p * R + R /\ p * R < q * R + R  BY <1>2, <1>3
<1>5. q <= p /\ p <= q  BY <1>4, Multiples
<1> QED  BY <1>1, <1>5

\* A multiple of the longer bucket is one of the shorter.
LEMMA Nested ==
  ASSUME NEW R \in Nat \ {0}, NEW k \in Nat \ {0}, NEW t \in Nat
  PROVE  /\ k * R \in Nat \ {0}
         /\ ((t \div R) * R) \div (k * R) = t \div (k * R)
<1>1. k * R \in Nat \ {0}
  <2>1. k >= 1 /\ R >= 1  OBVIOUS
  <2>2. PICK d \in Nat: k = 1 + d  BY <2>1
  <2>3. k * R = R + d * R /\ d * R \in Nat  BY <2>2
  <2> QED  BY <2>1, <2>3
<1>2. PICK L \in Nat \ {0}: L = k * R  BY <1>1
<1>3. PICK q \in Nat: q = t \div L  BY <1>2, Division
<1>4. PICK u \in Nat: u = t \div R  BY Division
<1>5. u * R \in Nat /\ u * R <= t /\ t < u * R + R  BY <1>4, Division
<1>6. q * L \in Nat /\ q * L <= t /\ t < q * L + L  BY <1>2, <1>3, Division
<1>7. PICK v \in Nat: v = q * k  OBVIOUS
<1>8. q * L = v * R  BY <1>2, <1>7
<1>9. v * R < u * R + R  BY <1>5, <1>6, <1>8
<1>10. v <= u  BY <1>9, Multiples
<1>11. v * R <= u * R
  <2>1. PICK d \in Nat: u = v + d
    <3>1. u - v \in Nat /\ u = v + (u - v)  BY <1>10
    <3> QED  BY <3>1
  <2>2. u * R = v * R + d * R /\ d * R \in Nat  BY <2>1
  <2>3. v * R \in Nat  OBVIOUS
  <2> QED  BY <2>2, <2>3
<1>12. q * L <= u * R /\ u * R < q * L + L  BY <1>2, <1>5, <1>6, <1>8, <1>11
<1>13. (u * R) \div L = q  BY <1>2, <1>5, <1>12, InBucket
<1> QED  BY <1>1, <1>2, <1>3, <1>4, <1>13

-----------------------------------------------------------------------------
(* The tiers of the history.                                               *)

LEMMA HistoryConstants ==
  /\ Middle \in Nat \ {0} /\ Coarse \in Nat \ {0} /\ FineWindow \in Nat \ {0}
  /\ MiddleWindow \in Nat \ {0} /\ CoarseWindow \in Nat \ {0} /\ PruneInterval \in Nat \ {0}
  /\ MaxDelay \in Nat \ {0} /\ MaxNow \in Nat \ {0}
  /\ Middle - 1 + MaxDelay <= FineWindow /\ Coarse - 1 + MaxDelay <= MiddleWindow
  /\ \E k \in Nat \ {0}: Coarse = k * Middle
<1>1. History!MetricsAssumption  BY DashboardAssumption
<1>2. /\ Middle \in Nat \ {0} /\ Coarse \in Nat \ {0} /\ Coarse % Middle = 0
  BY <1>1 DEF History!MetricsAssumption
<1>3. \E k \in Nat \ {0}: Coarse = k * Middle
  <2>3. PICK k \in Nat: Coarse = k * Middle  BY <1>2, Divides
  <2>4. k # 0
    <3>1. 0 * Middle = 0  BY <1>2
    <3> QED  BY <1>2, <2>3, <3>1
  <2> QED  BY <2>3, <2>4
<1> QED  BY <1>1, <1>3 DEF History!MetricsAssumption

LEMMA Lengths ==
  /\ History!Tiers = {"1h", "1d", "7d"}
  /\ History!Resolution["1h"] = 1 /\ History!Resolution["1d"] = Middle /\ History!Resolution["7d"] = Coarse
  /\ History!WindowOf["1h"] = FineWindow /\ History!WindowOf["1d"] = MiddleWindow
  /\ History!WindowOf["7d"] = CoarseWindow
  /\ \A tier \in History!Tiers: History!Resolution[tier] \in Nat \ {0} /\ History!WindowOf[tier] \in Nat \ {0}
BY HistoryConstants DEF History!Tiers, History!Resolution, History!WindowOf

\* A time is in its bucket, and every time in a bucket has this bucket.
LEMMA BucketOf ==
  ASSUME NEW tier \in History!Tiers, NEW b \in Nat
  PROVE  /\ History!BucketStart(tier, b) \in Nat
         /\ b \in History!Within(tier, History!BucketStart(tier, b))
         /\ b - (History!Resolution[tier] - 1) <= History!BucketStart(tier, b)
         /\ History!BucketStart(tier, History!BucketStart(tier, b)) = History!BucketStart(tier, b)
<1>1. PICK R \in Nat \ {0}: R = History!Resolution[tier]  BY Lengths
<1>2. PICK q \in Nat: q = b \div R  BY Division
<1>3. PICK s \in Nat: s = q * R  BY <1>2, Division
<1>4. s <= b /\ b < s + R  BY <1>2, <1>3, Division
<1>5. History!BucketStart(tier, b) = s  BY <1>1, <1>2, <1>3 DEF History!BucketStart
<1>6. b \in History!Within(tier, s) /\ b - (R - 1) <= s  BY <1>1, <1>4 DEF History!Within
<1>7. s \div R = q
  <2>1. q * R <= s /\ s < q * R + R  BY <1>3
  <2> QED  BY <2>1, InBucket
<1>8. History!BucketStart(tier, s) = s  BY <1>1, <1>3, <1>7 DEF History!BucketStart
<1> QED  BY <1>1, <1>5, <1>6, <1>8

LEMMA BucketIs ==
  ASSUME NEW tier \in History!Tiers, NEW s \in Nat, History!BucketStart(tier, s) = s,
         NEW b \in History!Within(tier, s)
  PROVE  b \in Nat /\ History!BucketStart(tier, b) = s
<1>1. PICK R \in Nat \ {0}: R = History!Resolution[tier]  BY Lengths
<1>2. b \in Nat /\ s <= b /\ b < s + R  BY <1>1 DEF History!Within
<1>3. PICK q \in Nat: q = s \div R  BY Division
<1>4. s = q * R  BY <1>1, <1>3 DEF History!BucketStart
<1>5. b \div R = q  BY <1>2, <1>4, InBucket
<1> QED  BY <1>1, <1>2, <1>4, <1>5 DEF History!BucketStart

\* Each bucket of a tier is within one of the next.
LEMMA NextTier ==
  ASSUME NEW finer \in History!Tiers, NEW tier \in History!Tiers,
         <<finer, tier>> \in {<<"1h", "1d">>, <<"1d", "7d">>}, NEW b \in Nat
  PROVE  History!BucketStart(tier, History!BucketStart(finer, b)) = History!BucketStart(tier, b)
<1>1. PICK R \in Nat \ {0}, k \in Nat \ {0}: R = History!Resolution[finer] /\ k * R = History!Resolution[tier]
  <2>1. CASE finer = "1h" /\ tier = "1d"
    <3>1. Middle * 1 = Middle /\ Middle \in Nat \ {0}  BY HistoryConstants
    <3> QED  BY <2>1, <3>1, Lengths
  <2>2. CASE finer = "1d" /\ tier = "7d"
    <3>1. PICK k \in Nat \ {0}: Coarse = k * Middle  BY HistoryConstants
    <3> QED  BY <2>2, <3>1, Lengths, HistoryConstants
  <2> QED  BY <2>1, <2>2
<1>2. PICK L \in Nat \ {0}: L = k * R  BY Nested
<1>3. PICK s \in Nat: s = (b \div R) * R  BY Division
<1>4. s \div L = b \div L  BY <1>2, <1>3, Nested
<1>5. History!BucketStart(finer, b) = s  BY <1>1, <1>3 DEF History!BucketStart
<1> QED  BY <1>1, <1>2, <1>4, <1>5 DEF History!BucketStart

-----------------------------------------------------------------------------
(* The history is whole.                                                   *)

\* A row of the tier sums up what was written in its bucket.
WholeRows(tier, tierRows, done) ==
  \A s \in DOMAIN tierRows:
    /\ s \in Nat /\ History!BucketStart(tier, s) = s
    /\ tierRows[s] = done \cap History!Within(tier, s)

\* What was written since then has its row.
CoveredRows(tier, tierRows, done, since) ==
  \A b \in done: History!BucketStart(tier, b) >= since => History!BucketStart(tier, b) \in DOMAIN tierRows

Buckets == [start: Nat, sampled: BOOLEAN]

ClockInv ==
  /\ now \in Nat /\ acc \in {History!NoBucket} \cup Buckets
  /\ acc # History!NoBucket => acc.start <= now /\ now - acc.start <= MaxDelay
  /\ tick.pc = "docker" => acc # History!NoBucket
  /\ \A b \in written: b \in Nat /\ b < now /\ (acc # History!NoBucket => b < acc.start)

RowsInv ==
  /\ DOMAIN rollups = History!Tiers
  /\ \A tier \in History!Tiers:
       /\ WholeRows(tier, rollups[tier], written)
       /\ CoveredRows(tier, rollups[tier], written, now - History!WindowOf[tier])

HistoryInv == ClockInv /\ RowsInv

\* The row of the bucket that has got one more part is put in whole.
LEMMA PutWhole ==
  ASSUME NEW tier \in History!Tiers, NEW tierRows, NEW done \in SUBSET Nat, NEW b \in Nat, NEW since,
         WholeRows(tier, tierRows, done), NEW start, start = History!BucketStart(tier, b),
         NEW parts, parts = (done \cup {b}) \cap History!Within(tier, start),
         NEW put, put = History!Put(tierRows, start, parts)
  PROVE  /\ WholeRows(tier, put, done \cup {b})
         /\ CoveredRows(tier, tierRows, done, since) => CoveredRows(tier, put, done \cup {b}, since)
<1>1. /\ DOMAIN put = DOMAIN tierRows \cup {start}
      /\ \A s \in DOMAIN put: put[s] = IF s = start THEN parts ELSE tierRows[s]
  BY DEF History!Put
<1>2. start \in Nat /\ History!BucketStart(tier, start) = start  BY BucketOf
<1>3. WholeRows(tier, put, done \cup {b})
  <2> SUFFICES ASSUME NEW s \in DOMAIN put
               PROVE  /\ s \in Nat /\ History!BucketStart(tier, s) = s
                      /\ put[s] = (done \cup {b}) \cap History!Within(tier, s)
    BY DEF WholeRows
  <2>1. CASE s = start  BY <1>1, <1>2, <2>1
  <2>2. CASE s # start
    <3>1. s \in DOMAIN tierRows /\ put[s] = tierRows[s]  BY <1>1, <2>2
    <3>2. s \in Nat /\ History!BucketStart(tier, s) = s /\ tierRows[s] = done \cap History!Within(tier, s)
      BY <3>1 DEF WholeRows
    <3>3. b \notin History!Within(tier, s)  BY <2>2, <3>2, BucketIs
    <3> QED  BY <3>1, <3>2, <3>3
  <2> QED  BY <2>1, <2>2
<1>4. CoveredRows(tier, tierRows, done, since) => CoveredRows(tier, put, done \cup {b}, since)
  BY <1>1 DEF CoveredRows
<1> QED  BY <1>3, <1>4

\* A row of the next tier, put together from rows that are whole and all there.
LEMMA Rebuilt ==
  ASSUME NEW finer \in History!Tiers, NEW tier \in History!Tiers,
         <<finer, tier>> \in {<<"1h", "1d">>, <<"1d", "7d">>},
         NEW fine, NEW done \in SUBSET Nat, NEW since \in Int,
         WholeRows(finer, fine, done), CoveredRows(finer, fine, done, since),
         NEW start \in Nat, History!BucketStart(tier, start) = start, since <= start
  PROVE  UNION {fine[s]: s \in DOMAIN fine \cap History!Within(tier, start)}
           = done \cap History!Within(tier, start)
<1>1. ASSUME NEW s \in DOMAIN fine \cap History!Within(tier, start), NEW b \in fine[s]
      PROVE  b \in done \cap History!Within(tier, start)
  <2>1. s \in Nat /\ History!BucketStart(finer, s) = s /\ b \in done /\ b \in History!Within(finer, s)
    BY <1>1 DEF WholeRows
  <2>2. b \in Nat /\ History!BucketStart(finer, b) = s  BY <2>1, BucketIs
  <2>3. History!BucketStart(tier, s) = start  BY <1>1, <2>1, BucketIs
  <2>4. History!BucketStart(tier, b) = start  BY <2>2, <2>3, NextTier
  <2> QED  BY <2>1, <2>2, <2>4, BucketOf
<1>2. ASSUME NEW b \in done \cap History!Within(tier, start)
      PROVE  \E s \in DOMAIN fine \cap History!Within(tier, start): b \in fine[s]
  <2>1. PICK s \in Nat: s = History!BucketStart(finer, b)  BY BucketOf
  <2>2. b \in Nat /\ History!BucketStart(tier, b) = start  BY BucketIs
  <2>3. History!BucketStart(tier, s) = start  BY <2>1, <2>2, NextTier
  <2>4. s \in History!Within(tier, start)  BY <2>3, BucketOf
  <2>5. start <= s
    <3>1. PICK R \in Nat \ {0}: R = History!Resolution[tier]  BY Lengths
    <3> QED  BY <2>4, <3>1 DEF History!Within
  <2>6. s >= since  BY <2>5
  <2>7. s \in DOMAIN fine  BY <2>1, <2>6 DEF CoveredRows
  <2>8. b \in History!Within(finer, s)  BY <2>1, <2>2, BucketOf
  <2>9. b \in fine[s]  BY <2>7, <2>8 DEF WholeRows
  <2> QED  BY <2>4, <2>7, <2>9
<1> QED  BY <1>1, <1>2

LEMMA WriteKeeps ==
  ASSUME HistoryInv, NEW b \in Nat, now - b <= MaxDelay, History!WriteFineBucket(b), now' = now
  PROVE  RowsInv' /\ written' = written \cup {b}
<1>1. now \in Nat /\ written \in SUBSET Nat  BY DEF HistoryInv, ClockInv
<1>2. PICK W \in SUBSET Nat: W = written  BY <1>1
<1>3. PICK W2 \in SUBSET Nat: W2 = W \cup {b}  BY <1>2
<1>4. written' = W2  BY <1>2, <1>3 DEF History!WriteFineBucket
<1> DEFINE f0 == rollups["1h"]
           m0 == rollups["1d"]
           c0 == rollups["7d"]
           ms == History!BucketStart("1d", b)
           cs == History!BucketStart("7d", b)
           f1 == History!Put(f0, b, {b})
           mp == UNION {f1[s]: s \in DOMAIN f1 \cap History!Within("1d", ms)}
           m1 == History!Put(m0, ms, mp)
           cp == UNION {m1[s]: s \in DOMAIN m1 \cap History!Within("7d", cs)}
           c1 == History!Put(c0, cs, cp)
<1>5. rollups' = [tier \in History!Tiers |-> CASE tier = "1h" -> f1 [] tier = "1d" -> m1 [] tier = "7d" -> c1]
  BY DEF History!WriteFineBucket, History!Rollup
<1>6. /\ WholeRows("1h", f0, W) /\ CoveredRows("1h", f0, W, now - FineWindow)
      /\ WholeRows("1d", m0, W) /\ CoveredRows("1d", m0, W, now - MiddleWindow)
      /\ WholeRows("7d", c0, W) /\ CoveredRows("7d", c0, W, now - CoarseWindow)
  <2>1. "1h" \in History!Tiers /\ "1d" \in History!Tiers /\ "7d" \in History!Tiers  BY Lengths
  <2> QED  BY <1>2, <2>1, Lengths DEF HistoryInv, RowsInv
<1>7. /\ ms \in Nat /\ b - (Middle - 1) <= ms /\ History!BucketStart("1d", ms) = ms
      /\ cs \in Nat /\ b - (Coarse - 1) <= cs /\ History!BucketStart("7d", cs) = cs
  BY BucketOf, Lengths
<1>8. WholeRows("1h", f1, W2) /\ CoveredRows("1h", f1, W2, now - FineWindow)
  <2>1. History!BucketStart("1h", b) = b /\ {b} = W2 \cap History!Within("1h", b)
    <3>1. History!BucketStart("1h", b) \in Nat /\ b \in History!Within("1h", History!BucketStart("1h", b))
      BY BucketOf, Lengths
    <3>2. \A n \in Nat: History!Within("1h", n) = {n}
      <4>1. \A n \in Nat: n..n + 1 - 1 = {n}  OBVIOUS
      <4> QED  BY <4>1, Lengths DEF History!Within
    <3> QED  BY <1>3, <3>1, <3>2
  <2> HIDE DEF f0
  <2> QED  BY <1>3, <1>6, <2>1, PutWhole, Lengths
<1>9. mp = W2 \cap History!Within("1d", ms)
  <2>1. now - FineWindow <= ms /\ now - FineWindow \in Int  BY <1>1, <1>7, HistoryConstants
  <2> HIDE DEF f1, ms
  <2> QED  BY <1>7, <1>8, <2>1, Rebuilt, Lengths
<1>10. WholeRows("1d", m1, W2) /\ CoveredRows("1d", m1, W2, now - MiddleWindow)
  <2> HIDE DEF m0, mp
  <2> QED  BY <1>3, <1>6, <1>9, PutWhole, Lengths
<1>11. cp = W2 \cap History!Within("7d", cs)
  <2>1. now - MiddleWindow <= cs /\ now - MiddleWindow \in Int  BY <1>1, <1>7, HistoryConstants
  <2> HIDE DEF m1, cs
  <2> QED  BY <1>7, <1>10, <2>1, Rebuilt, Lengths
<1>12. WholeRows("7d", c1, W2) /\ CoveredRows("7d", c1, W2, now - CoarseWindow)
  <2> HIDE DEF c0, cp
  <2> QED  BY <1>3, <1>6, <1>11, PutWhole, Lengths
<1>13. PICK F, M, C: F = f1 /\ M = m1 /\ C = c1  OBVIOUS
<1> HIDE DEF f1, m1, c1
<1>14. /\ DOMAIN rollups' = History!Tiers
       /\ rollups'["1h"] = F /\ rollups'["1d"] = M /\ rollups'["7d"] = C
  BY <1>5, <1>13, Lengths
<1>15. ASSUME NEW tier \in History!Tiers
       PROVE  /\ WholeRows(tier, rollups'[tier], written')
              /\ CoveredRows(tier, rollups'[tier], written', now' - History!WindowOf[tier])
  BY <1>4, <1>8, <1>10, <1>12, <1>13, <1>14, Lengths
<1> QED  BY <1>2, <1>3, <1>4, <1>14, <1>15 DEF RowsInv

\* As time goes on less has to be there.
LEMMA LaterCovers ==
  ASSUME NEW tier \in History!Tiers, NEW tierRows, NEW done \in SUBSET Nat,
         NEW since \in Int, NEW later \in Int, since <= later, CoveredRows(tier, tierRows, done, since)
  PROVE  CoveredRows(tier, tierRows, done, later)
<1> SUFFICES ASSUME NEW b \in done, History!BucketStart(tier, b) >= later
             PROVE  History!BucketStart(tier, b) \in DOMAIN tierRows
  BY DEF CoveredRows
<1>1. History!BucketStart(tier, b) \in Nat  BY BucketOf
<1>2. History!BucketStart(tier, b) >= since  BY <1>1
<1> QED  BY <1>2 DEF CoveredRows

\* Prune leaves every row that has to be there.
LEMMA PruneKeeps ==
  ASSUME HistoryInv, History!Prune, now' = now, written' = written
  PROVE  RowsInv'
<1>1. now \in Nat /\ written \in SUBSET Nat  BY DEF HistoryInv, ClockInv
<1>2. rollups' = [tier \in History!Tiers |-> [s \in History!Retained(tier) |-> rollups[tier][s]]]
  BY DEF History!Prune
<1>3. ASSUME NEW tier \in History!Tiers
      PROVE  /\ WholeRows(tier, rollups'[tier], written')
             /\ CoveredRows(tier, rollups'[tier], written', now' - History!WindowOf[tier])
  <2>1. PICK old: old = rollups[tier]  OBVIOUS
  <2>2. PICK kept: kept = [s \in History!Retained(tier) |-> rollups[tier][s]]  OBVIOUS
  <2>3. PICK since \in Int: since = now - History!WindowOf[tier]  BY <1>1, Lengths
  <2>4. DOMAIN kept = {s \in DOMAIN old: s >= since} /\ \A s \in DOMAIN kept: kept[s] = old[s]
    BY <2>1, <2>2, <2>3 DEF History!Retained
  <2>5. WholeRows(tier, old, written) /\ CoveredRows(tier, old, written, since)
    BY <2>1, <2>3 DEF HistoryInv, RowsInv
  <2>6. WholeRows(tier, kept, written)  BY <2>4, <2>5 DEF WholeRows
  <2>7. CoveredRows(tier, kept, written, since)  BY <2>4, <2>5 DEF CoveredRows
  <2>8. rollups'[tier] = kept /\ now' - History!WindowOf[tier] = since  BY <1>2, <2>2, <2>3
  <2> QED  BY <2>6, <2>7, <2>8
<1> QED  BY <1>2, <1>3 DEF RowsInv

LEMMA HistoryBegins == History!Init => HistoryInv
<1> SUFFICES ASSUME History!Init PROVE HistoryInv  OBVIOUS
<1>1. now = 0 /\ acc = History!NoBucket /\ tick = History!NoTick /\ written = {}
      /\ rollups = [tier \in History!Tiers |-> [start \in {} |-> {}]]
  BY DEF History!Init
<1>2. ClockInv  BY <1>1 DEF ClockInv, History!NoTick
<1>3. RowsInv  BY <1>1 DEF RowsInv, WholeRows, CoveredRows
<1> QED  BY <1>2, <1>3 DEF HistoryInv

LEMMA SameHistory ==
  ASSUME RowsInv, UNCHANGED <<now, rollups, written>>
  PROVE  RowsInv'
BY DEF RowsInv, WholeRows, CoveredRows

LEMMA TickBeginsKeeps ==
  ASSUME HistoryInv, History!TickBegins
  PROVE  HistoryInv'
<1>1. ClockInv /\ RowsInv /\ now' = now /\ now \in Nat  BY DEF HistoryInv, History!TickBegins, ClockInv
<1>2. CASE ~listed /\ acc' = History!NoBucket /\ tick' = [pc |-> "end", at |-> now] /\ UNCHANGED <<rollups, written>>
  <2>1. ClockInv'  BY <1>1, <1>2 DEF ClockInv
  <2> QED  BY <1>1, <1>2, <2>1, SameHistory DEF HistoryInv
<1>3. CASE listed /\ preparing /\ tick' = [pc |-> "end", at |-> now] /\ UNCHANGED <<acc, rollups, written>>
  <2>1. ClockInv'  BY <1>1, <1>3 DEF ClockInv
  <2> QED  BY <1>1, <1>3, <2>1, SameHistory DEF HistoryInv
<1>4. CASE /\ listed /\ ~preparing
           /\ IF acc # History!NoBucket /\ acc.start # now THEN History!Flush ELSE UNCHANGED <<rollups, written>>
           /\ acc' = IF acc # History!NoBucket /\ acc.start = now THEN acc ELSE [start |-> now, sampled |-> FALSE]
           /\ tick' \in {[pc |-> "docker", at |-> now], [pc |-> "end", at |-> now]}
  <2>1. acc' \in Buckets /\ acc'.start = now
    <3>1. [start |-> now, sampled |-> FALSE] \in Buckets  BY <1>1 DEF Buckets
    <3>2. acc # History!NoBucket => acc \in Buckets  BY <1>1 DEF ClockInv
    <3> QED  BY <1>4, <3>1, <3>2
  <2>2. acc' # History!NoBucket /\ now' - acc'.start <= MaxDelay
    <3>1. acc'.start # -1  BY <1>1, <2>1
    <3>2. History!NoBucket.start = -1  BY DEF History!NoBucket
    <3>3. now - now <= MaxDelay  BY <1>1, HistoryConstants
    <3> QED  BY <1>1, <2>1, <3>1, <3>2, <3>3
  <2>3. CASE UNCHANGED <<rollups, written>>
    <3>1. \A b \in written': b \in Nat /\ b < now' /\ b < acc'.start
      BY <1>1, <2>1, <2>3 DEF ClockInv
    <3>2. ClockInv'  BY <1>1, <2>1, <2>2, <3>1 DEF ClockInv
    <3> QED  BY <1>1, <2>3, <3>2, SameHistory DEF HistoryInv
  <2>4. CASE acc # History!NoBucket /\ acc.start # now /\ History!Flush /\ acc.sampled
    <3>1. acc \in Buckets /\ acc.start \in Nat /\ acc.start < now /\ now - acc.start <= MaxDelay
      BY <1>1, <2>4 DEF ClockInv, Buckets
    <3>2. RowsInv' /\ written' = written \cup {acc.start}
      BY <1>1, <2>4, <3>1, WriteKeeps DEF HistoryInv, History!Flush
    <3>3. \A b \in written': b \in Nat /\ b < now' /\ b < acc'.start
      BY <1>1, <2>1, <3>1, <3>2 DEF ClockInv
    <3>4. ClockInv'  BY <1>1, <2>1, <2>2, <3>3 DEF ClockInv
    <3> QED  BY <3>2, <3>4 DEF HistoryInv
  <2> QED  BY <1>4, <2>3, <2>4 DEF History!Flush
<1> QED  BY <1>2, <1>3, <1>4 DEF History!TickBegins

LEMMA HistoryKeeps == HistoryInv /\ [History!Next]_metricsVars => HistoryInv'
<1> SUFFICES ASSUME HistoryInv, [History!Next]_metricsVars PROVE HistoryInv'  OBVIOUS
<1>1. ClockInv /\ RowsInv /\ now \in Nat  BY DEF HistoryInv, ClockInv
<1>2. CASE History!TickBegins  BY <1>2, TickBeginsKeeps
<1>3. CASE History!Sampled
  <2>1. /\ tick.pc = "docker" /\ acc' \in {acc, [acc EXCEPT !.sampled = TRUE]}
        /\ tick' = [tick EXCEPT !.pc = "end"] /\ UNCHANGED <<now, rollups, written>>
    BY <1>3 DEF History!Sampled
  <2>2. acc \in Buckets  BY <1>1, <2>1 DEF ClockInv
  <2>3. acc' \in Buckets /\ acc'.start = acc.start  BY <2>1, <2>2 DEF Buckets
  <2>4. acc # History!NoBucket /\ acc' # History!NoBucket
    <3>1. acc.start # -1 /\ acc'.start # -1  BY <2>2, <2>3 DEF Buckets
    <3> QED  BY <3>1 DEF History!NoBucket
  <2>5. ClockInv'  BY <1>1, <2>1, <2>3, <2>4 DEF ClockInv
  <2> QED  BY <1>1, <2>1, <2>5, SameHistory DEF HistoryInv
<1>4. CASE History!TickEnds
  <2>1. tick' = History!NoTick /\ UNCHANGED <<now, acc, written>>  BY <1>4 DEF History!TickEnds
  <2>2. ClockInv'  BY <1>1, <2>1 DEF ClockInv, History!NoTick
  <2>3. RowsInv'
    <3>1. CASE History!Prune  BY <2>1, <3>1, PruneKeeps
    <3>2. CASE UNCHANGED rollups  BY <1>1, <2>1, <3>2, SameHistory
    <3> QED  BY <1>4, <3>1, <3>2 DEF History!TickEnds
  <2> QED  BY <2>2, <2>3 DEF HistoryInv
<1>5. CASE History!TimePasses
  <2>1. now' = now + 1 /\ UNCHANGED <<acc, tick, rollups, written>>
        /\ (acc # History!NoBucket => now - acc.start < MaxDelay)
    BY <1>5 DEF History!TimePasses
  <2>2. ClockInv'
    <3>1. acc # History!NoBucket => acc.start \in Nat  BY <1>1 DEF ClockInv, Buckets
    <3>2. acc # History!NoBucket => acc.start <= now + 1 /\ (now + 1) - acc.start <= MaxDelay
      BY <1>1, <2>1, <3>1, HistoryConstants DEF ClockInv
    <3>3. \A b \in written: b \in Nat /\ b < now + 1 /\ (acc # History!NoBucket => b < acc.start)
      BY <1>1 DEF ClockInv
    <3>4. (acc # History!NoBucket => acc.start <= now /\ now - acc.start <= MaxDelay)'
      <4>1. acc' = acc /\ now' = now + 1  BY <2>1
      <4> QED  BY <3>2, <4>1
    <3>5. (\A b \in written: b \in Nat /\ b < now /\ (acc # History!NoBucket => b < acc.start))'
      BY <2>1, <3>3
    <3>6. now' \in Nat /\ acc' \in {History!NoBucket} \cup Buckets
          /\ (tick'.pc = "docker" => acc' # History!NoBucket)
      BY <1>1, <2>1 DEF ClockInv
    <3> QED  BY <3>4, <3>5, <3>6 DEF ClockInv
  <2>3. RowsInv'
    <3>1. ASSUME NEW tier \in History!Tiers
          PROVE  CoveredRows(tier, rollups[tier], written, (now + 1) - History!WindowOf[tier])
      <4>1. PICK since \in Int, later \in Int: since = now - History!WindowOf[tier]
                                               /\ later = (now + 1) - History!WindowOf[tier]
        BY <1>1, Lengths
      <4>2. since <= later /\ written \in SUBSET Nat  BY <1>1, <4>1, Lengths DEF ClockInv
      <4>3. CoveredRows(tier, rollups[tier], written, since)  BY <1>1, <4>1 DEF RowsInv
      <4> QED  BY <4>1, <4>2, <4>3, LaterCovers
    <3>2. ASSUME NEW tier \in History!Tiers
          PROVE  /\ WholeRows(tier, rollups'[tier], written')
                 /\ CoveredRows(tier, rollups'[tier], written', now' - History!WindowOf[tier])
      <4>1. WholeRows(tier, rollups[tier], written)  BY <1>1 DEF RowsInv
      <4>2. CoveredRows(tier, rollups[tier], written, (now + 1) - History!WindowOf[tier])  BY <3>1
      <4>3. rollups' = rollups /\ written' = written /\ now' = now + 1  BY <2>1
      <4>4. WholeRows(tier, rollups'[tier], written')  BY <4>1, <4>3
      <4>5. CoveredRows(tier, rollups'[tier], written', now' - History!WindowOf[tier])  BY <4>2, <4>3
      <4> QED  BY <4>4, <4>5
    <3> QED  BY <1>1, <2>1, <3>2 DEF RowsInv
  <2> QED  BY <2>2, <2>3 DEF HistoryInv
<1>6. CASE History!Prepare \/ History!Delete \/ UNCHANGED metricsVars
  <2>1. UNCHANGED <<now, acc, tick, rollups, written>>
    BY <1>6 DEF History!Prepare, History!Delete, metricsVars
  <2> QED  BY <1>1, <2>1, SameHistory DEF HistoryInv, ClockInv
<1>7. CASE History!BackendRestarts
  <2>1. acc' = History!NoBucket /\ tick' = History!NoTick /\ UNCHANGED <<now, rollups, written>>
    BY <1>7 DEF History!BackendRestarts
  <2>2. ClockInv'  BY <1>1, <2>1 DEF ClockInv, History!NoTick
  <2> QED  BY <1>1, <2>1, <2>2, SameHistory DEF HistoryInv
<1> QED  BY <1>2, <1>3, <1>4, <1>5, <1>6, <1>7 DEF History!Next

LEMMA WholeHistory == HistoryInv => History!HistoryIsWhole
<1> SUFFICES ASSUME HistoryInv PROVE History!HistoryIsWhole  OBVIOUS
<1>1. written \in SUBSET Nat /\ now \in Nat  BY DEF HistoryInv, ClockInv
<1>2. ASSUME NEW tier \in History!Tiers, NEW s \in History!Retained(tier)
      PROVE  rollups[tier][s] = written \cap History!Within(tier, s)
  <2>1. s \in DOMAIN rollups[tier]  BY <1>2 DEF History!Retained
  <2> QED  BY <2>1 DEF HistoryInv, RowsInv, WholeRows
<1>3. ASSUME NEW b \in written, History!BucketStart("7d", b) >= now - CoarseWindow
      PROVE  b \in History!Peak
  <2>1. "7d" \in History!Tiers  BY Lengths
  <2>2. PICK s \in Nat: s = History!BucketStart("7d", b) /\ b \in History!Within("7d", s)
    BY <1>1, <2>1, BucketOf
  <2>3. s \in DOMAIN rollups["7d"]
    BY <1>3, <2>1, <2>2, Lengths DEF HistoryInv, RowsInv, CoveredRows
  <2>4. s \in History!Retained("7d")  BY <1>3, <2>2, <2>3, Lengths DEF History!Retained
  <2>5. b \in rollups["7d"][s]  BY <1>2, <2>1, <2>2, <2>4
  <2> QED  BY <2>4, <2>5 DEF History!Peak
<1> QED  BY <1>2, <1>3 DEF History!HistoryIsWhole

LEMMA HistoryApart == [Next]_vars => [History!Next]_metricsVars
<1> SUFFICES ASSUME [Next]_vars PROVE [History!Next]_metricsVars  OBVIOUS
<1>1. CASE HistoryStep  BY <1>1 DEF HistoryStep
<1>2. CASE OperationsStep(Operations!Next) \/ FormsStep(Forms!Next) \/ CardStep \/ LoginStep
           \/ ConsoleStep(Prompt!Next)
  BY <1>2 DEF OperationsStep, FormsStep, CardStep, LoginStep, ConsoleStep
<1>3. CASE CardStops \/ UNCHANGED vars  BY <1>3 DEF CardStops, vars
<1> QED  BY <1>1, <1>2, <1>3 DEF Next

\* For any lengths of buckets, windows and delays that nest: every row a query
\* returns sums up all that was written in its period, and the peak has seen
\* its whole window.
THEOREM HistoryStaysWhole == Spec => []HistoryIsWhole
<1>1. Init => HistoryInv
  BY HistoryBegins DEF Init
<1>2. HistoryInv /\ [Next]_vars => HistoryInv'
  BY HistoryApart, HistoryKeeps
<1>3. HistoryInv => HistoryIsWhole
  BY WholeHistory DEF HistoryIsWhole
<1> QED
  BY <1>1, <1>2, <1>3, PTL DEF Spec

-----------------------------------------------------------------------------
(* The snapshots card: the newest round has seen no less than is shown.    *)

Round == [is: {"asked", "answered", "list"}, at: Nat, ofPoll: BOOLEAN, stage: Nat]

CardInv ==
  /\ stage \in Nat /\ shown \in Nat /\ revision \in Nat
  /\ shown <= stage
  /\ button.is = "accepted" => button.stage \in Nat /\ button.stage <= stage
  /\ \A l \in loads: l \in Round /\ l.at <= revision /\ l.stage <= stage
  /\ \A l, m \in loads: l.at = m.at => l = m
  /\ \A l \in loads: l.is = "answered" /\ l.at = revision => shown <= l.stage

LEMMA CardBegins == Card!Init => CardInv
BY DEF Card!Init, CardInv, Card!Unpressed

LEMMA CardKeeps == CardInv /\ [Card!Next]_viewVars => CardInv'
<1> SUFFICES ASSUME CardInv, [Card!Next]_viewVars PROVE CardInv'  OBVIOUS
<1>1. /\ stage \in Nat /\ shown \in Nat /\ revision \in Nat /\ shown <= stage
      /\ button.is = "accepted" => button.stage \in Nat /\ button.stage <= stage
      /\ \A l \in loads: l \in Round /\ l.at \in Nat /\ l.stage \in Nat /\ l.at <= revision /\ l.stage <= stage
      /\ \A l, m \in loads: l.at = m.at => l = m
      /\ \A l \in loads: l.is = "answered" /\ l.at = revision => shown <= l.stage
  BY DEF CardInv, Round
<1>2. CASE Card!PollAgain
  <2>1. PICK new: new = Card!Round("asked", revision + 1, TRUE)  OBVIOUS
  <2>2. /\ revision' = revision + 1 /\ loads' = loads \cup {new} /\ UNCHANGED <<stage, shown, button>>
    BY <1>2, <2>1 DEF Card!PollAgain
  <2>3. new \in Round /\ new.is = "asked" /\ new.at = revision + 1 /\ new.stage = 0
    BY <1>1, <2>1 DEF Card!Round, Round
  <2>4. \A l \in loads: l.at < revision + 1  BY <1>1
  <2>5. \A l \in loads': l \in Round /\ l.at <= revision + 1 /\ l.stage <= stage
    BY <1>1, <2>2, <2>3
  <2>6. \A l, m \in loads': l.at = m.at => l = m  BY <1>1, <2>2, <2>3, <2>4
  <2>7. \A l \in loads': l.is = "answered" => l.at # revision + 1  BY <1>1, <2>2, <2>3, <2>4
  <2> QED  BY <1>1, <2>2, <2>5, <2>6, <2>7 DEF CardInv, Round
<1>3. CASE Card!Pressed
  <2>1. /\ \/ stage' = stage + 1 /\ button' = [is |-> "accepted", stage |-> stage + 1]
           \/ stage' = stage /\ button' = [is |-> "refused"]
        /\ UNCHANGED <<shown, revision, loads>>
    BY <1>3 DEF Card!Pressed
  <2>2. stage' \in Nat /\ stage <= stage'  BY <1>1, <2>1
  <2>3. button'.is = "accepted" => button'.stage \in Nat /\ button'.stage <= stage'
    BY <1>1, <2>1
  <2>4. \A l \in loads: l.stage <= stage'  BY <1>1, <2>2
  <2> QED  BY <1>1, <2>1, <2>2, <2>3, <2>4 DEF CardInv, Round
<1>4. CASE Card!Accepted
  <2>1. PICK new: new = Card!Round("asked", revision + 2, FALSE)  OBVIOUS
  <2>2. /\ button.is = "accepted" /\ shown' = button.stage /\ revision' = revision + 2
        /\ loads' = loads \cup {new} /\ button' = Card!Unpressed /\ stage' = stage
    BY <1>4, <2>1 DEF Card!Accepted
  <2>3. new \in Round /\ new.is = "asked" /\ new.at = revision + 2 /\ new.stage = 0
    BY <1>1, <2>1 DEF Card!Round, Round
  <2>4. \A l \in loads: l.at < revision + 2  BY <1>1
  <2>5. \A l \in loads': l \in Round /\ l.at <= revision + 2 /\ l.stage <= stage
    BY <1>1, <2>2, <2>3
  <2>6. \A l, m \in loads': l.at = m.at => l = m  BY <1>1, <2>2, <2>3, <2>4
  <2>7. \A l \in loads': l.is = "answered" => l.at # revision + 2  BY <1>1, <2>2, <2>3, <2>4
  <2>8. button'.is # "accepted"  BY <2>2 DEF Card!Unpressed
  <2> QED  BY <1>1, <2>2, <2>5, <2>6, <2>7, <2>8 DEF CardInv, Round
<1>5. CASE Card!Refused
  <2>1. button' = Card!Unpressed /\ UNCHANGED <<stage, shown, revision, loads>>  BY <1>5 DEF Card!Refused
  <2>2. button'.is # "accepted"  BY <2>1 DEF Card!Unpressed
  <2> QED  BY <1>1, <2>1, <2>2 DEF CardInv, Round
<1>6. CASE Card!JobMoves
  <2>1. stage' = stage + 1 /\ UNCHANGED <<shown, revision, loads, button>>  BY <1>6 DEF Card!JobMoves
  <2>2. \A n \in Nat: n <= stage => n <= stage + 1  BY <1>1
  <2>3. \A l \in loads: l.stage <= stage + 1  BY <1>1
  <2> QED  BY <1>1, <2>1, <2>2, <2>3 DEF CardInv, Round
<1>7. ASSUME NEW is \in {"create", "cancel"}, Card!Press(is) PROVE CardInv'
  <2>1. revision' = revision + 1 /\ button' = [is |-> is] /\ UNCHANGED <<stage, shown, loads>>
    BY <1>7 DEF Card!Press
  <2>2. button'.is # "accepted"  BY <2>1
  <2>3. \A l \in loads: l.at <= revision + 1 /\ l.at # revision + 1  BY <1>1
  <2> QED  BY <1>1, <2>1, <2>2, <2>3 DEF CardInv, Round
<1>8. ASSUME NEW l \in loads, Card!JobRead(l) PROVE CardInv'
  <2>1. PICK new: new = [l EXCEPT !.is = "answered", !.stage = stage]  OBVIOUS
  <2>2. loads' = (loads \ {l}) \cup {new} /\ UNCHANGED <<stage, shown, revision, button>>
    BY <1>8, <2>1 DEF Card!JobRead
  <2>3. new \in Round /\ new.at = l.at /\ new.stage = stage  BY <1>1, <2>1 DEF Round
  <2>4. \A m \in loads': m \in Round /\ m.at <= revision /\ m.stage <= stage  BY <1>1, <2>2, <2>3
  <2>5. \A m, n \in loads': m.at = n.at => m = n  BY <1>1, <2>2, <2>3
  <2>6. \A m \in loads': m.is = "answered" /\ m.at = revision => shown <= m.stage  BY <1>1, <2>2, <2>3
  <2> QED  BY <1>1, <2>2, <2>4, <2>5, <2>6 DEF CardInv, Round
<1>9. ASSUME NEW l \in loads, Card!JobArrives(l) PROVE CardInv'
  <2>1. PICK new: new = Card!Round("list", l.at, l.ofPoll)  OBVIOUS
  <2>2. new \in Round /\ new.at = l.at /\ new.stage = 0 /\ new.is = "list"
    BY <1>1, <2>1 DEF Card!Round, Round
  <2>3. CASE l.at = revision
    <3>1. /\ shown' = l.stage /\ loads' = (loads \ {l}) \cup {new} /\ UNCHANGED <<stage, revision, button>>
      BY <1>9, <2>1, <2>3 DEF Card!JobArrives, Card!Current
    <3>2. \A m \in loads': m \in Round /\ m.at <= revision /\ m.stage <= stage  BY <1>1, <2>2, <3>1
    <3>3. \A m, n \in loads': m.at = n.at => m = n  BY <1>1, <2>2, <3>1
    <3>4. \A m \in loads': m.is = "answered" => m.at # revision  BY <1>1, <2>2, <2>3, <3>1
    <3>5. shown' \in Nat /\ shown' <= stage  BY <1>1, <3>1
    <3> QED  BY <1>1, <3>1, <3>2, <3>3, <3>4, <3>5 DEF CardInv, Round
  <2>4. CASE l.at # revision
    <3>1. loads' = loads \ {l} /\ UNCHANGED <<stage, shown, revision, button>>
      BY <1>9, <2>4 DEF Card!JobArrives, Card!Current
    <3> QED  BY <1>1, <3>1 DEF CardInv, Round
  <2> QED  BY <2>3, <2>4
<1>10. ASSUME NEW l \in loads, Card!ListArrives(l) \/ Card!LoadFails(l) PROVE CardInv'
  <2>1. loads' = loads \ {l} /\ UNCHANGED <<stage, shown, revision, button>>
    BY <1>10 DEF Card!ListArrives, Card!LoadFails
  <2> QED  BY <1>1, <2>1 DEF CardInv, Round
<1>11. CASE UNCHANGED viewVars
  BY <1>1, <1>11 DEF CardInv, Round, viewVars
<1> QED  BY <1>2, <1>3, <1>4, <1>5, <1>6, <1>7, <1>8, <1>9, <1>10, <1>11 DEF Card!Next

\* Only a newest round and the answer to a button change what is shown.
LEMMA ShownRises ==
  ASSUME CardInv, [Card!Next]_viewVars, shown' < shown
  PROVE  button.is = "accepted" /\ button' = Card!Unpressed
<1>1. shown \in Nat /\ shown' # shown
  <2>1. shown \in Nat  BY DEF CardInv
  <2> QED  BY <2>1
<1>2. CASE Card!Accepted  BY <1>2 DEF Card!Accepted
<1>3. ASSUME NEW l \in loads, Card!JobArrives(l) PROVE FALSE
  <2>1. l.is = "answered" /\ l.at = revision /\ shown' = l.stage
    BY <1>1, <1>3 DEF Card!JobArrives, Card!Current
  <2>2. shown <= l.stage /\ l.stage \in Nat  BY <2>1 DEF CardInv, Round
  <2> QED  BY <1>1, <2>1, <2>2
<1>4. Card!Accepted \/ \E l \in loads: Card!JobArrives(l)
  BY <1>1 DEF Card!Next, Card!PollAgain, Card!Pressed, Card!Refused, Card!JobMoves, Card!Press,
     Card!JobRead, Card!ListArrives, Card!LoadFails, viewVars
<1> QED  BY <1>2, <1>3, <1>4

LEMMA CardApart == [Next]_vars => [Card!Next]_viewVars
<1> SUFFICES ASSUME [Next]_vars PROVE [Card!Next]_viewVars  OBVIOUS
<1>1. CASE CardStep  BY <1>1 DEF CardStep
<1>2. CASE OperationsStep(Operations!Next) \/ FormsStep(Forms!Next) \/ HistoryStep \/ LoginStep
           \/ ConsoleStep(Prompt!Next)
  BY <1>2 DEF OperationsStep, FormsStep, HistoryStep, LoginStep, ConsoleStep
<1>3. CASE CardStops \/ UNCHANGED vars  BY <1>3 DEF CardStops, vars
<1> QED  BY <1>1, <1>2, <1>3 DEF Next

\* For any number of rounds, presses and moves of the job, answered in any
\* order or not at all: no late answer takes the card back behind what a
\* button was told.
THEOREM AcceptedJobStays == Spec => AcceptedStays
<1>1. Init => CardInv
  BY CardBegins DEF Init
<1>2. CardInv /\ [Next]_vars => CardInv'
  BY CardApart, CardKeeps
<1>3. CardInv /\ [Next]_vars
        => [shown' < shown => button.is = "accepted" /\ button' = Card!Unpressed]_(Card!viewVars)
  BY CardApart, ShownRises
<1> QED
  BY <1>1, <1>2, <1>3, PTL DEF Spec, AcceptedStays, Card!AcceptedStays

-----------------------------------------------------------------------------
(* Sign-ins: a bucket is the window the address counts for itself.         *)

Bucket == [failures: Nat, resetAt: Int]
Try == [since: Int, wrong: Nat]

\* As long as the address has a bucket it is the address's own count of its
\* window, and without one the window is over.
CountOf(a) ==
  /\ tries[a] \in Try /\ tries[a].wrong <= MaxFailures
  /\ a \in DOMAIN buckets
       => buckets[a] = [failures |-> tries[a].wrong, resetAt |-> tries[a].since + Window]
  /\ a \notin DOMAIN buckets => clock >= tries[a].since + Window

\* Who was refused was told the end of the window it is still refused in.
ToldOf(a) ==
  answer[a] = "429" /\ a \in DOMAIN buckets /\ buckets[a].failures >= MaxFailures
    => retryAt[a] = buckets[a].resetAt

LoginInv ==
  /\ clock \in Nat
  /\ tries \in [Address -> Try] /\ DOMAIN answer = Address /\ DOMAIN retryAt = Address
  /\ \A a \in Address: CountOf(a) /\ ToldOf(a)

LEMMA LoginConstants == Window \in Nat \ {0} /\ MaxFailures \in Nat \ {0}
BY DashboardAssumption DEF SignIn!LoginAssumption

LEMMA LoginBegins == SignIn!Init => LoginInv
<1> SUFFICES ASSUME SignIn!Init PROVE LoginInv  OBVIOUS
<1>1. /\ clock = 0 /\ DOMAIN buckets = {} /\ tries = [a \in Address |-> [since |-> -Window, wrong |-> 0]]
      /\ DOMAIN answer = Address /\ DOMAIN retryAt = Address
      /\ \A a \in Address: tries[a] = [since |-> -Window, wrong |-> 0]
  BY DEF SignIn!Init, SignIn!NoTries
<1>2. -Window + Window = 0 /\ -Window \in Int  BY LoginConstants
<1> QED  BY <1>1, <1>2, LoginConstants DEF LoginInv, CountOf, ToldOf, Try

LEMMA OwnCount ==
  ASSUME LoginInv, NEW a \in Address
  PROVE  /\ clock \in Nat /\ tries[a] \in Try /\ tries[a].wrong <= MaxFailures
         /\ tries[a].since \in Int /\ tries[a].since + Window \in Int
         /\ a \in DOMAIN buckets
              => /\ buckets[a] = [failures |-> tries[a].wrong, resetAt |-> tries[a].since + Window]
                 /\ buckets[a].resetAt = tries[a].since + Window
         /\ a \notin DOMAIN buckets => clock >= tries[a].since + Window
<1>1. CountOf(a) /\ clock \in Nat  BY DEF LoginInv
<1>2. tries[a].since \in Int  BY <1>1 DEF CountOf, Try
<1>3. PICK until \in Int: until = tries[a].since + Window  BY <1>2, LoginConstants
<1>4. a \in DOMAIN buckets => buckets[a] = [failures |-> tries[a].wrong, resetAt |-> until]
  BY <1>1, <1>3 DEF CountOf
<1>5. a \in DOMAIN buckets => buckets[a].resetAt = until  BY <1>4
<1> QED  BY <1>1, <1>2, <1>3, <1>5 DEF CountOf

\* Dropping expired buckets ends no window that is not over.
LEMMA SweptCounts ==
  ASSUME LoginInv, NEW a \in Address, NEW swept, swept = SignIn!SweepExpired(buckets)
  PROVE  /\ DOMAIN swept \subseteq DOMAIN buckets
         /\ a \in DOMAIN swept => swept[a] = buckets[a]
         /\ a \notin DOMAIN swept => clock >= tries[a].since + Window
<1>1. swept = buckets \/ swept = SignIn!Without(buckets, {x \in DOMAIN buckets: buckets[x].resetAt <= clock})
  BY DEF SignIn!SweepExpired
<1>2. CASE swept = buckets  BY <1>2 DEF LoginInv, CountOf
<1>3. CASE swept = SignIn!Without(buckets, {x \in DOMAIN buckets: buckets[x].resetAt <= clock})
  <2>1. /\ DOMAIN swept = {x \in DOMAIN buckets: ~(buckets[x].resetAt <= clock)}
        /\ \A x \in DOMAIN swept: swept[x] = buckets[x]
    BY <1>3 DEF SignIn!Without
  <2>2. a \notin DOMAIN swept => clock >= tries[a].since + Window
    <3>1. CASE a \in DOMAIN buckets
      <4>1. buckets[a].resetAt = tries[a].since + Window  BY <3>1, OwnCount
      <4>2. clock \in Nat /\ tries[a].since + Window \in Int  BY OwnCount
      <4> QED  BY <2>1, <3>1, <4>1, <4>2
    <3>2. CASE a \notin DOMAIN buckets  BY <3>2 DEF LoginInv, CountOf
    <3> QED  BY <3>1, <3>2
  <2> QED  BY <2>1, <2>2
<1> QED  BY <1>1, <1>2, <1>3

\* The bucket an attempt is held against is the count of the address.
LEMMA BucketCounts ==
  ASSUME LoginInv, NEW a \in Address, NEW swept, swept = SignIn!SweepExpired(buckets),
         NEW bucket, bucket = SignIn!BucketFor(swept, a),
         NEW count, count = SignIn!Counted(tries[a])
  PROVE  /\ count \in Try /\ count.wrong <= MaxFailures
         /\ bucket = [failures |-> count.wrong, resetAt |-> count.since + Window]
         /\ bucket.failures >= MaxFailures
              => count = tries[a] /\ a \in DOMAIN buckets /\ bucket = buckets[a]
<1>1. /\ clock \in Nat /\ tries[a] \in Try /\ tries[a].wrong <= MaxFailures
      /\ tries[a].since \in Int /\ tries[a].since + Window \in Int
  BY OwnCount
<1>2. CASE a \in DOMAIN swept /\ swept[a].resetAt > clock
  <2>1. bucket = swept[a]  BY <1>2 DEF SignIn!BucketFor
  <2>2. a \in DOMAIN buckets /\ bucket = buckets[a]  BY <1>2, <2>1, SweptCounts
  <2>3. bucket = [failures |-> tries[a].wrong, resetAt |-> tries[a].since + Window]
    BY <2>2, OwnCount
  <2>4. ~(clock >= tries[a].since + Window)  BY <1>1, <1>2, <2>1, <2>3
  <2>5. count = tries[a]  BY <2>4 DEF SignIn!Counted
  <2> QED  BY <1>1, <2>2, <2>3, <2>5
<1>3. CASE ~(a \in DOMAIN swept /\ swept[a].resetAt > clock)
  <2>1. bucket = [failures |-> 0, resetAt |-> clock + Window]
    BY <1>3 DEF SignIn!BucketFor, SignIn!Fresh
  <2>2. clock >= tries[a].since + Window
    <3>1. CASE a \in DOMAIN swept
      <4>1. a \in DOMAIN buckets /\ swept[a] = buckets[a]  BY <3>1, SweptCounts
      <4>2. swept[a].resetAt = tries[a].since + Window  BY <4>1, OwnCount
      <4> QED  BY <1>1, <1>3, <3>1, <4>2
    <3>2. CASE a \notin DOMAIN swept  BY <3>2, SweptCounts
    <3> QED  BY <3>1, <3>2
  <2>3. count = [since |-> clock, wrong |-> 0]  BY <2>2 DEF SignIn!Counted
  <2> QED  BY <1>1, <2>1, <2>3, LoginConstants DEF Try
<1> QED  BY <1>2, <1>3

\* An attempt that leaves each address with its count keeps the invariant.
LEMMA AttemptLeaves ==
  ASSUME LoginInv, NEW a \in Address, NEW swept, swept = SignIn!SweepExpired(buckets),
         NEW bucket, NEW count \in Try, count.wrong <= MaxFailures,
         bucket = [failures |-> count.wrong, resetAt |-> count.since + Window],
         buckets' = SignIn!Put(swept, a, bucket), tries' = [tries EXCEPT ![a] = count],
         NEW status, SignIn!Answered(a, status), NEW told, retryAt' = [retryAt EXCEPT ![a] = told],
         status = "429" => told = bucket.resetAt, clock' = clock
  PROVE  LoginInv'
<1>1. /\ DOMAIN buckets' = DOMAIN swept \cup {a}
      /\ \A x \in DOMAIN buckets': buckets'[x] = IF x = a THEN bucket ELSE swept[x]
  BY DEF SignIn!Put
<1>2. tries' \in [Address -> Try] /\ DOMAIN answer' = Address /\ DOMAIN retryAt' = Address /\ clock' \in Nat
  BY DEF LoginInv, SignIn!Answered
<1>3. tries'[a] = count /\ answer'[a] = status /\ retryAt'[a] = told
  BY DEF LoginInv, SignIn!Answered
<1>4. CountOf(a)' /\ ToldOf(a)'
  <2>1. a \in DOMAIN buckets' /\ buckets'[a] = bucket  BY <1>1
  <2> QED  BY <1>3, <2>1 DEF CountOf, ToldOf
<1>5. ASSUME NEW b \in Address, b # a PROVE CountOf(b)' /\ ToldOf(b)'
  <2>1. tries'[b] = tries[b] /\ answer'[b] = answer[b] /\ retryAt'[b] = retryAt[b]
    BY <1>5 DEF LoginInv, SignIn!Answered
  <2>2. b \in DOMAIN buckets' <=> b \in DOMAIN swept  BY <1>1, <1>5
  <2>3. b \in DOMAIN swept => b \in DOMAIN buckets /\ buckets'[b] = buckets[b]
    BY <1>1, <1>5, <2>2, SweptCounts
  <2>4. b \notin DOMAIN swept => clock >= tries[b].since + Window  BY SweptCounts
  <2>5. CountOf(b) /\ ToldOf(b)  BY DEF LoginInv
  <2> QED  BY <2>1, <2>2, <2>3, <2>4, <2>5 DEF CountOf, ToldOf
<1> QED  BY <1>2, <1>4, <1>5 DEF LoginInv

LEMMA AttemptKeeps ==
  ASSUME LoginInv, NEW a \in Address, NEW password, SignIn!Attempt(a, password)
  PROVE  LoginInv'
<1>1. PICK swept: swept = SignIn!SweepExpired(buckets)  OBVIOUS
<1>2. PICK bucket: bucket = SignIn!BucketFor(swept, a)  OBVIOUS
<1>3. PICK count: count = SignIn!Counted(tries[a])  OBVIOUS
<1>4. /\ count \in Try /\ count.wrong <= MaxFailures
      /\ bucket = [failures |-> count.wrong, resetAt |-> count.since + Window]
      /\ bucket.failures >= MaxFailures
           => count = tries[a] /\ a \in DOMAIN buckets /\ bucket = buckets[a]
  BY <1>1, <1>2, <1>3, BucketCounts
<1>5. tries \in [Address -> Try]  BY DEF LoginInv
<1>6. clock' = clock  BY DEF SignIn!Attempt
<1>7. CASE /\ bucket.failures >= MaxFailures /\ buckets' = SignIn!Put(swept, a, bucket)
           /\ SignIn!Answered(a, "429") /\ retryAt' = [retryAt EXCEPT ![a] = bucket.resetAt]
           /\ UNCHANGED tries
  <2>1. tries' = [tries EXCEPT ![a] = count]
    <3>1. tries' = tries /\ count = tries[a]  BY <1>4, <1>7
    <3> QED  BY <1>5, <3>1
  <2>2. PICK told: told = bucket.resetAt  OBVIOUS
  <2>3. retryAt' = [retryAt EXCEPT ![a] = told]  BY <1>7, <2>2
  <2>4. PICK status: status = "429"  OBVIOUS
  <2>5. SignIn!Answered(a, status) /\ buckets' = SignIn!Put(swept, a, bucket)  BY <1>7, <2>4
  <2> QED  BY ONLY LoginInv, a \in Address, <1>1, <1>4, <1>6, <2>1, <2>2, <2>3, <2>5, AttemptLeaves
<1>8. CASE /\ bucket.failures < MaxFailures /\ buckets' = SignIn!Without(swept, {a})
           /\ tries' = [tries EXCEPT ![a] = SignIn!NoTries]
           /\ SignIn!Answered(a, "200") /\ SignIn!LeaveRetry(a)
  <2>1. /\ DOMAIN buckets' = DOMAIN swept \ {a}
        /\ \A x \in DOMAIN buckets': buckets'[x] = swept[x]
    BY <1>8 DEF SignIn!Without
  <2>2. tries' \in [Address -> Try] /\ DOMAIN answer' = Address /\ DOMAIN retryAt' = Address /\ clock' \in Nat
    <3>1. SignIn!NoTries \in Try  BY LoginConstants DEF SignIn!NoTries, Try
    <3> QED  BY <1>6, <1>8, <3>1 DEF LoginInv, SignIn!Answered, SignIn!LeaveRetry
  <2>3. CountOf(a)' /\ ToldOf(a)'
    <3>1. tries'[a] = [since |-> -Window, wrong |-> 0]  BY <1>5, <1>8 DEF SignIn!NoTries
    <3>2. -Window + Window = 0 /\ -Window \in Int  BY LoginConstants
    <3> QED  BY <2>1, <2>2, <3>1, <3>2, LoginConstants DEF CountOf, ToldOf, Try
  <2>4. ASSUME NEW b \in Address, b # a PROVE CountOf(b)' /\ ToldOf(b)'
    <3>1. tries'[b] = tries[b] /\ answer'[b] = answer[b] /\ retryAt'[b] = retryAt[b]
      BY <1>8, <2>4 DEF LoginInv, SignIn!Answered, SignIn!LeaveRetry
    <3>2. b \in DOMAIN buckets' <=> b \in DOMAIN swept  BY <2>1, <2>4
    <3>3. b \in DOMAIN swept => b \in DOMAIN buckets /\ buckets'[b] = buckets[b]
      BY <1>1, <2>1, <3>2, SweptCounts
    <3>4. b \notin DOMAIN swept => clock >= tries[b].since + Window  BY <1>1, SweptCounts
    <3>5. CountOf(b) /\ ToldOf(b)  BY DEF LoginInv
    <3> QED  BY <1>6, <3>1, <3>2, <3>3, <3>4, <3>5 DEF CountOf, ToldOf
  <2> QED  BY <2>2, <2>3, <2>4 DEF LoginInv
<1>9. CASE /\ bucket.failures < MaxFailures
           /\ buckets' = SignIn!Put(swept, a, [bucket EXCEPT !.failures = @ + 1])
           /\ tries' = [tries EXCEPT ![a] = [count EXCEPT !.wrong = @ + 1]]
           /\ SignIn!Answered(a, "401") /\ SignIn!LeaveRetry(a)
  <2>1. PICK more: more = [count EXCEPT !.wrong = @ + 1]  OBVIOUS
  <2>2. PICK fuller: fuller = [bucket EXCEPT !.failures = @ + 1]  OBVIOUS
  <2>3. more \in Try /\ more.wrong = count.wrong + 1 /\ more.since = count.since
    BY <1>4, <2>1 DEF Try
  <2>4. fuller = [failures |-> more.wrong, resetAt |-> more.since + Window]
    BY <1>4, <2>2, <2>3
  <2>5. more.wrong <= MaxFailures
    <3>1. count.wrong \in Nat /\ count.wrong < MaxFailures  BY <1>4, <1>9 DEF Try
    <3> QED  BY <2>3, <3>1, LoginConstants
  <2>6. retryAt' = [retryAt EXCEPT ![a] = 0]  BY <1>9 DEF SignIn!LeaveRetry
  <2>7. buckets' = SignIn!Put(swept, a, fuller) /\ tries' = [tries EXCEPT ![a] = more]
    BY <1>9, <2>1, <2>2
  <2>8. PICK status: status = "401"  OBVIOUS
  <2>9. SignIn!Answered(a, status) /\ status # "429"  BY <1>9, <2>8
  <2> QED
    BY ONLY LoginInv, a \in Address, <1>1, <1>6, <2>3, <2>4, <2>5, <2>6, <2>7, <2>9, AttemptLeaves
<1>10. CASE /\ bucket.failures < MaxFailures /\ buckets' = SignIn!Put(swept, a, bucket)
            /\ tries' = [tries EXCEPT ![a] = count]
            /\ SignIn!Answered(a, "400") /\ SignIn!LeaveRetry(a)
  <2>1. retryAt' = [retryAt EXCEPT ![a] = 0]  BY <1>10 DEF SignIn!LeaveRetry
  <2>2. "400" = "429" => 0 = bucket.resetAt  OBVIOUS
  <2> QED
    BY ONLY LoginInv, a \in Address, <1>1, <1>4, <1>6, <1>10, <2>1, <2>2, AttemptLeaves
<1> QED  BY <1>1, <1>2, <1>3, <1>7, <1>8, <1>9, <1>10 DEF SignIn!Attempt

LEMMA LoginKeeps == LoginInv /\ [SignIn!Next]_loginVars => LoginInv'
<1> SUFFICES ASSUME LoginInv, [SignIn!Next]_loginVars PROVE LoginInv'  OBVIOUS
<1>1. ASSUME NEW a \in Address, NEW password \in {"right", "wrong", "missing"}, SignIn!Attempt(a, password)
      PROVE  LoginInv'
  BY <1>1, AttemptKeeps
<1>2. CASE SignIn!Tick
  <2>1. clock' = clock + 1 /\ UNCHANGED <<buckets, answer, tries, retryAt>>  BY <1>2 DEF SignIn!Tick
  <2>2. clock \in Nat  BY DEF LoginInv
  <2>3. ASSUME NEW a \in Address PROVE CountOf(a)' /\ ToldOf(a)'
    <3>1. CountOf(a) /\ ToldOf(a)  BY DEF LoginInv
    <3>2. tries[a].since + Window \in Int  BY <3>1, LoginConstants DEF CountOf, Try
    <3>3. clock >= tries[a].since + Window => clock + 1 >= tries[a].since + Window  BY <2>2, <3>2
    <3> QED  BY <2>1, <3>1, <3>3 DEF CountOf, ToldOf
  <2> QED  BY <2>1, <2>2, <2>3 DEF LoginInv
<1>3. CASE SignIn!BackendRestarts
  <2>1. /\ DOMAIN buckets' = {} /\ UNCHANGED <<clock, answer, retryAt>>
        /\ tries' = [a \in Address |-> [since |-> -Window, wrong |-> 0]]
        /\ \A a \in Address: tries'[a] = [since |-> -Window, wrong |-> 0]
    BY <1>3 DEF SignIn!BackendRestarts, SignIn!NoTries
  <2>2. -Window + Window = 0 /\ -Window \in Int  BY LoginConstants
  <2> QED  BY <2>1, <2>2, LoginConstants DEF LoginInv, CountOf, ToldOf, Try
<1>4. CASE UNCHANGED loginVars
  BY <1>4 DEF loginVars, LoginInv, CountOf, ToldOf
<1> QED  BY <1>1, <1>2, <1>3, <1>4 DEF SignIn!Next

\* Only who has used up its window is refused, and is told its end.
LEMMA Refused ==
  ASSUME LoginInv, [SignIn!Next]_loginVars, NEW b \in Address, answer'[b] = "429",
         <<answer[b], retryAt[b]>>' # <<answer[b], retryAt[b]>>
  PROVE  answer[b] # "429" /\ tries[b].wrong = MaxFailures /\ retryAt'[b] = tries[b].since + Window
<1>1. DOMAIN answer = Address /\ DOMAIN retryAt = Address  BY DEF LoginInv
<1>2. PICK a \in Address: \E password \in {"right", "wrong", "missing"}: SignIn!Attempt(a, password)
  BY DEF SignIn!Next, SignIn!Tick, SignIn!BackendRestarts, loginVars
<1>3. PICK bucket: bucket = SignIn!BucketFor(SignIn!SweepExpired(buckets), a)  OBVIOUS
<1>4. PICK count: count = SignIn!Counted(tries[a])  OBVIOUS
<1>5. /\ count \in Try /\ count.wrong <= MaxFailures
      /\ bucket = [failures |-> count.wrong, resetAt |-> count.since + Window]
      /\ bucket.failures >= MaxFailures
           => count = tries[a] /\ a \in DOMAIN buckets /\ bucket = buckets[a]
  BY <1>3, <1>4, BucketCounts
<1>6. PICK status, told: SignIn!Answered(a, status) /\ retryAt' = [retryAt EXCEPT ![a] = told]
                         /\ (status = "429" => bucket.failures >= MaxFailures /\ told = bucket.resetAt)
  <2>1. \/ /\ SignIn!Answered(a, "429") /\ retryAt' = [retryAt EXCEPT ![a] = bucket.resetAt]
           /\ bucket.failures >= MaxFailures
        \/ SignIn!Answered(a, "200") /\ retryAt' = [retryAt EXCEPT ![a] = 0]
        \/ SignIn!Answered(a, "401") /\ retryAt' = [retryAt EXCEPT ![a] = 0]
        \/ SignIn!Answered(a, "400") /\ retryAt' = [retryAt EXCEPT ![a] = 0]
    BY <1>2, <1>3 DEF SignIn!Attempt, SignIn!LeaveRetry
  <2> QED  BY <2>1
<1>7. b = a  BY <1>1, <1>6 DEF SignIn!Answered
<1>8. answer'[b] = status /\ retryAt'[b] = told  BY <1>1, <1>6, <1>7 DEF SignIn!Answered
<1>9. bucket.failures >= MaxFailures /\ told = bucket.resetAt  BY <1>6, <1>8
<1>10. tries[b].wrong = MaxFailures /\ retryAt'[b] = tries[b].since + Window
  <2>1. count.wrong \in Nat /\ count.wrong >= MaxFailures  BY <1>5, <1>9 DEF Try
  <2> QED  BY <1>5, <1>7, <1>8, <1>9, <2>1, LoginConstants
<1>11. answer[b] # "429"
  <2> SUFFICES ASSUME answer[b] = "429" PROVE FALSE  OBVIOUS
  <2>1. retryAt[b] = buckets[b].resetAt  BY <1>5, <1>7, <1>9 DEF LoginInv, ToldOf
  <2>2. retryAt'[b] = retryAt[b]  BY <1>5, <1>7, <1>8, <1>9, <2>1
  <2> QED  BY <2>2
<1> QED  BY <1>10, <1>11

LEMMA LoginApart == [Next]_vars => [SignIn!Next]_loginVars
<1> SUFFICES ASSUME [Next]_vars PROVE [SignIn!Next]_loginVars  OBVIOUS
<1>1. CASE LoginStep  BY <1>1 DEF LoginStep
<1>2. CASE OperationsStep(Operations!Next) \/ FormsStep(Forms!Next) \/ HistoryStep \/ CardStep
           \/ ConsoleStep(Prompt!Next)
  BY <1>2 DEF OperationsStep, FormsStep, HistoryStep, CardStep, ConsoleStep
<1>3. CASE CardStops \/ UNCHANGED vars  BY <1>3 DEF CardStops, vars
<1> QED  BY <1>1, <1>2, <1>3 DEF Next

\* For any addresses, limit and window, whenever expired buckets are dropped
\* and the backend restarts: the limit is exact in every window of every
\* address, and who is refused is told its end.
THEOREM SignInIsFair == Spec => LimitIsFair
<1>1. Init => LoginInv
  BY LoginBegins DEF Init
<1>2. LoginInv /\ [Next]_vars => LoginInv'
  BY LoginApart, LoginKeeps
<1>3. LoginInv /\ LoginInv' /\ [Next]_vars
        => [ \A a \in Address:
               /\ tries'[a].wrong <= MaxFailures
               /\ (answer'[a] = "429" /\ <<answer[a], retryAt[a]>>' # <<answer[a], retryAt[a]>>)
                    => /\ answer[a] # "429" /\ tries[a].wrong = MaxFailures
                       /\ retryAt'[a] = tries[a].since + Window ]_(SignIn!loginVars)
  <2> SUFFICES ASSUME LoginInv, LoginInv', [Next]_vars, NEW a \in Address
               PROVE  /\ tries'[a].wrong <= MaxFailures
                      /\ (answer'[a] = "429" /\ <<answer[a], retryAt[a]>>' # <<answer[a], retryAt[a]>>)
                           => /\ answer[a] # "429" /\ tries[a].wrong = MaxFailures
                              /\ retryAt'[a] = tries[a].since + Window
    OBVIOUS
  <2>1. tries'[a].wrong <= MaxFailures  BY DEF LoginInv, CountOf
  <2> QED  BY <2>1, LoginApart, Refused
<1> QED
  BY <1>1, <1>2, <1>3, PTL DEF Spec, LimitIsFair, SignIn!LimitIsFair

-----------------------------------------------------------------------------
(* Long requests: the row of a job follows its action.                     *)

\* A running row is of the job that holds the server, and a closed one says
\* what became of the action.
RowFollows(j) ==
  /\ rows[j] = "completed" => work[j] = "done"
  /\ rows[j] = "failed" => work[j] \in {"given up", "cut short"}
  /\ (rows[j] = "running" \/ work[j] = "going") => busy = j /\ rows[j] = "running" /\ work[j] = "going"

\* A tab goes by a job that was begun, and what it was told is so.
CallIsTrue(c) ==
  /\ c.is \in {"accepted", "polling", "told"} => c.job \in Operations!Job /\ c.job <= began
  /\ c.is = "told" =>
       /\ c.status = "completed" => work[c.job] = "done"
       /\ c.status = "failed" => work[c.job] \in {"given up", "cut short"}

OperationsInv ==
  /\ began \in Nat
  /\ DOMAIN calls = Caller /\ DOMAIN rows = Operations!Job /\ DOMAIN work = Operations!Job
  /\ \A j \in Operations!Job: RowFollows(j)
  /\ \A t \in Caller: CallIsTrue(calls[t])

LEMMA OperationsBegin == Operations!Init => OperationsInv
<1> SUFFICES ASSUME Operations!Init PROVE OperationsInv  OBVIOUS
<1>1. \A t \in Caller: calls[t].is = "at rest"  BY DEF Operations!Init, Operations!AtRest
<1> QED  BY <1>1 DEF Operations!Init, OperationsInv, RowFollows, CallIsTrue

\* A step of one tab that leaves the jobs alone.
LEMMA TabMoves ==
  ASSUME OperationsInv, NEW t \in Caller, NEW c, CallIsTrue(c), Operations!Becomes(t, c),
         UNCHANGED <<rows, work, busy, began>>
  PROVE  OperationsInv'
<1>1. DOMAIN calls' = Caller /\ \A u \in Caller: calls'[u] = IF u = t THEN c ELSE calls[u]
  BY DEF OperationsInv, Operations!Becomes
<1>2. \A u \in Caller: CallIsTrue(calls'[u])  BY <1>1 DEF OperationsInv
<1>3. \A u \in Caller: CallIsTrue(calls[u])'  BY <1>2 DEF CallIsTrue
<1>4. \A j \in Operations!Job: RowFollows(j)'  BY DEF OperationsInv, RowFollows
<1> QED  BY <1>1, <1>3, <1>4 DEF OperationsInv

\* What a finished action has come to stays: the jobs change only while they
\* go on.
LEMMA JobsMove ==
  ASSUME OperationsInv, DOMAIN rows' = Operations!Job, DOMAIN work' = Operations!Job,
         UNCHANGED <<calls, began>>,
         \A j \in Operations!Job: RowFollows(j)',
         \A j \in Operations!Job: work[j] # "going" => work'[j] = work[j]
  PROVE  OperationsInv'
<1>1. ASSUME NEW t \in Caller PROVE CallIsTrue(calls[t])'
  <2>1. CallIsTrue(calls[t])  BY DEF OperationsInv
  <2> QED  BY <2>1 DEF CallIsTrue
<1> QED  BY <1>1 DEF OperationsInv

LEMMA OperationsKeep == OperationsInv /\ [Operations!Next]_operationsVars => OperationsInv'
<1> SUFFICES ASSUME OperationsInv, [Operations!Next]_operationsVars PROVE OperationsInv'  OBVIOUS
<1>1. /\ began \in Nat /\ DOMAIN calls = Caller
      /\ DOMAIN rows = Operations!Job /\ DOMAIN work = Operations!Job
      /\ \A j \in Operations!Job: RowFollows(j)
      /\ \A t \in Caller: CallIsTrue(calls[t])
  BY DEF OperationsInv
<1>2. ASSUME NEW t \in Caller, Operations!Ask(t) \/ Operations!ConnectionLost(t) \/ Operations!Dismiss(t)
      PROVE  OperationsInv'
  <2>1. PICK c: /\ Operations!Becomes(t, c) /\ c.is \in {"asking", "unsure", "at rest"}
                /\ UNCHANGED <<rows, work, busy, began>>
    BY <1>2 DEF Operations!Ask, Operations!ConnectionLost, Operations!Dismiss, Operations!Unsure,
       Operations!AtRest
  <2>2. CallIsTrue(c)  BY <2>1 DEF CallIsTrue
  <2> QED  BY <2>1, <2>2, TabMoves
<1>3. ASSUME NEW t \in Caller, Operations!BeginPolling(t) PROVE OperationsInv'
  <2>1. PICK job: job = calls[t].job  OBVIOUS
  <2>2. PICK c: c = Operations!On(job, "polling")  OBVIOUS
  <2>3. /\ calls[t].is = "accepted" /\ Operations!Becomes(t, c)
        /\ UNCHANGED <<rows, work, busy, began>>
    BY <1>3, <2>1, <2>2 DEF Operations!BeginPolling
  <2>4. job \in Operations!Job /\ job <= began  BY <1>1, <2>1, <2>3 DEF CallIsTrue
  <2>5. CallIsTrue(c)  BY <2>2, <2>4 DEF CallIsTrue, Operations!On
  <2> QED  BY <2>3, <2>5, TabMoves
<1>4. ASSUME NEW t \in Caller, Operations!Poll(t) PROVE OperationsInv'
  <2>1. PICK job: job = calls[t].job  OBVIOUS
  <2>2. PICK c: c = Operations!Told(job, rows[job])  OBVIOUS
  <2>3. /\ calls[t].is = "polling" /\ Operations!Becomes(t, c)
        /\ UNCHANGED <<rows, work, busy, began>>
    BY <1>4, <2>1, <2>2 DEF Operations!Poll
  <2>4. job \in Operations!Job /\ job <= began  BY <1>1, <2>1, <2>3 DEF CallIsTrue
  <2>5. RowFollows(job)  BY <1>1, <2>4
  <2>6. c.is = "told" /\ c.job = job /\ c.status = rows[job]  BY <2>2 DEF Operations!Told
  <2>7. CallIsTrue(c)  BY <2>4, <2>5, <2>6 DEF CallIsTrue, RowFollows
  <2> QED  BY <2>3, <2>7, TabMoves
<1>5. ASSUME NEW t \in Caller, Operations!Accept(t) PROVE OperationsInv'
  <2>1. CASE busy # 0
    <3>1. PICK c: c = [is |-> "refused"]  OBVIOUS
    <3>2. Operations!Becomes(t, c) /\ UNCHANGED <<rows, work, busy, began>>
      BY <1>5, <2>1, <3>1 DEF Operations!Accept
    <3>3. CallIsTrue(c)  BY <3>1 DEF CallIsTrue
    <3> QED  BY <3>2, <3>3, TabMoves
  <2>2. CASE busy = 0
    <3>1. PICK new: new = began + 1  OBVIOUS
    <3>2. PICK c: c = Operations!On(new, "accepted")  OBVIOUS
    <3>3. /\ began < MaxJob /\ began' = new /\ busy' = new /\ Operations!Becomes(t, c)
          /\ rows' = [rows EXCEPT ![new] = "running"] /\ work' = [work EXCEPT ![new] = "going"]
      BY <1>5, <2>2, <3>1, <3>2 DEF Operations!Accept
    <3>4. new \in Operations!Job /\ new \in Nat /\ new # 0
      <4>1. MaxJob \in Nat  BY DashboardAssumption DEF Operations!OperationsAssumption
      <4> QED  BY <1>1, <3>1, <3>3, <4>1 DEF Operations!Job
    <3>5. ASSUME NEW j \in Operations!Job PROVE RowFollows(j)'
      <4>1. CASE j = new
        <5>1. rows'[j] = "running" /\ work'[j] = "going"  BY <1>1, <3>3, <4>1
        <5> QED  BY <3>3, <4>1, <5>1 DEF RowFollows
      <4>2. CASE j # new
        <5>1. rows'[j] = rows[j] /\ work'[j] = work[j]  BY <1>1, <3>3, <4>2
        <5>2. RowFollows(j) /\ j # 0  BY <1>1 DEF Operations!Job
        <5> QED  BY <2>2, <5>1, <5>2 DEF RowFollows
      <4> QED  BY <4>1, <4>2
    <3>6. ASSUME NEW u \in Caller PROVE CallIsTrue(calls[u])'
      <4>1. CASE u = t
        <5>1. calls'[u] = c /\ c.is = "accepted" /\ c.job = new
          BY <1>1, <3>2, <3>3, <4>1 DEF Operations!Becomes, Operations!On
        <5> QED  BY <3>3, <3>4, <5>1 DEF CallIsTrue
      <4>2. CASE u # t
        <5>1. calls'[u] = calls[u]  BY <1>1, <3>3, <4>2 DEF Operations!Becomes
        <5>2. CallIsTrue(calls[u])  BY <1>1
        <5>3. ASSUME calls[u].is \in {"accepted", "polling", "told"}
              PROVE  /\ calls[u].job \in Operations!Job /\ calls[u].job <= new
                     /\ work'[calls[u].job] = work[calls[u].job]
          <6>1. PICK job: job = calls[u].job  OBVIOUS
          <6>2. job \in Operations!Job /\ job <= began  BY <5>2, <5>3, <6>1 DEF CallIsTrue
          <6>3. job \in Int  BY <6>2 DEF Operations!Job
          <6>4. job <= new /\ job # new  BY <1>1, <3>1, <6>2, <6>3
          <6>5. work'[job] = work[job]  BY <1>1, <3>3, <6>2, <6>4
          <6> QED  BY <6>1, <6>2, <6>4, <6>5
        <5> QED  BY <3>3, <5>1, <5>2, <5>3 DEF CallIsTrue
      <4> QED  BY <4>1, <4>2
    <3>7. DOMAIN rows' = Operations!Job /\ DOMAIN work' = Operations!Job /\ DOMAIN calls' = Caller
      BY <1>1, <3>3 DEF Operations!Becomes
    <3> QED  BY <3>3, <3>4, <3>5, <3>6, <3>7 DEF OperationsInv
  <2> QED  BY <2>1, <2>2
<1>6. ASSUME NEW i \in Operations!Job, Operations!FinishJob(i) PROVE OperationsInv'
  <2>1. PICK whole \in BOOLEAN:
          /\ work' = [work EXCEPT ![i] = IF whole THEN "done" ELSE "given up"]
          /\ rows' = [rows EXCEPT ![i] = IF whole THEN "completed" ELSE "failed"]
    BY <1>6 DEF Operations!FinishJob
  <2>2. busy = i /\ work[i] = "going" /\ busy' = 0 /\ UNCHANGED <<calls, began>>
    BY <1>6 DEF Operations!FinishJob
  <2>3. ASSUME NEW j \in Operations!Job PROVE RowFollows(j)'
    <3>1. CASE j = i
      <4>1. \/ work'[j] = "done" /\ rows'[j] = "completed"
            \/ work'[j] = "given up" /\ rows'[j] = "failed"
        BY <1>1, <2>1, <3>1
      <4> QED  BY <4>1 DEF RowFollows
    <3>2. CASE j # i
      <4>1. rows'[j] = rows[j] /\ work'[j] = work[j]  BY <1>1, <2>1, <3>2
      <4>2. RowFollows(j)  BY <1>1
      <4> QED  BY <2>2, <3>2, <4>1, <4>2 DEF RowFollows
    <3> QED  BY <3>1, <3>2
  <2>4. \A j \in Operations!Job: work[j] # "going" => work'[j] = work[j]  BY <1>1, <2>1, <2>2
  <2>5. DOMAIN rows' = Operations!Job /\ DOMAIN work' = Operations!Job  BY <1>1, <2>1
  <2> QED  BY <2>2, <2>3, <2>4, <2>5, JobsMove
<1>7. CASE Operations!BackendRestarts
  <2>1. /\ work' = [j \in Operations!Job |-> IF work[j] = "going" THEN "cut short" ELSE work[j]]
        /\ rows' = [j \in Operations!Job |-> IF rows[j] = "running" THEN "failed" ELSE rows[j]]
        /\ busy' = 0 /\ UNCHANGED <<calls, began>>
    BY <1>7 DEF Operations!BackendRestarts
  <2>2. ASSUME NEW j \in Operations!Job PROVE RowFollows(j)'
    <3>1. RowFollows(j)  BY <1>1
    <3>2. /\ work'[j] = IF work[j] = "going" THEN "cut short" ELSE work[j]
          /\ rows'[j] = IF rows[j] = "running" THEN "failed" ELSE rows[j]
      BY <2>1
    <3>3. CASE work[j] = "going" \/ rows[j] = "running"
      <4>1. work'[j] = "cut short" /\ rows'[j] = "failed"  BY <3>1, <3>2, <3>3 DEF RowFollows
      <4> QED  BY <4>1 DEF RowFollows
    <3>4. CASE work[j] # "going" /\ rows[j] # "running"
      <4>1. work'[j] = work[j] /\ rows'[j] = rows[j]  BY <3>2, <3>4
      <4> QED  BY <3>1, <3>4, <4>1 DEF RowFollows
    <3> QED  BY <3>3, <3>4
  <2>3. \A j \in Operations!Job: work[j] # "going" => work'[j] = work[j]  BY <2>1
  <2>4. DOMAIN rows' = Operations!Job /\ DOMAIN work' = Operations!Job  BY <2>1
  <2> QED  BY <2>1, <2>2, <2>3, <2>4, JobsMove
<1>8. CASE UNCHANGED operationsVars
  BY <1>1, <1>8 DEF operationsVars, OperationsInv, RowFollows, CallIsTrue
<1> QED  BY <1>2, <1>3, <1>4, <1>5, <1>6, <1>7, <1>8 DEF Operations!Next, Operations!TabStep

LEMMA OperationsApart == [Next]_vars => [Operations!Next]_operationsVars
<1> SUFFICES ASSUME [Next]_vars PROVE [Operations!Next]_operationsVars  OBVIOUS
<1>1. CASE OperationsStep(Operations!Next)  BY <1>1 DEF OperationsStep
<1>2. CASE FormsStep(Forms!Next) \/ LoginStep \/ HistoryStep \/ CardStep \/ ConsoleStep(Prompt!Next)
  BY <1>2 DEF FormsStep, LoginStep, HistoryStep, CardStep, ConsoleStep
<1>3. CASE CardStops \/ UNCHANGED vars  BY <1>3 DEF CardStops, vars
<1> QED  BY <1>1, <1>2, <1>3 DEF Next

\* The safety part of CallsAreAnswered.  For any tabs and any number of jobs,
\* through lost answers, crashes and restarts: a tab that is told "completed"
\* asked for work that was done whole, and one that is told "failed" for work
\* that no longer goes on.
THEOREM ToldTheTruth == Spec => []Operations!AnswersAreTrue
<1>1. Init => OperationsInv
  BY OperationsBegin DEF Init
<1>2. OperationsInv /\ [Next]_vars => OperationsInv'
  BY OperationsApart, OperationsKeep
<1>3. OperationsInv => Operations!AnswersAreTrue
  BY DEF OperationsInv, CallIsTrue, Operations!AnswersAreTrue
<1> QED
  BY <1>1, <1>2, <1>3, PTL DEF Spec

-----------------------------------------------------------------------------
(* The settings forms: only the user takes an edit away.                   *)

\* A form without edits has none to lose when it is refreshed.
LEMMA NothingEdited == Forms!Pristine => Forms!Edited = {}
BY DEF Forms!Pristine, Forms!Edited

LEMMA LearnsNothingEdited ==
  ASSUME NEW r, Forms!Learns(r), NEW f \in Forms!Edited
  PROVE  values' = values
<1>1. ~Forms!Pristine  BY NothingEdited
<1> QED  BY <1>1 DEF Forms!Learns, Forms!Refreshed

LEMMA FormsApart == [Next]_vars => [Forms!Next]_formVars
<1> SUFFICES ASSUME [Next]_vars PROVE [Forms!Next]_formVars  OBVIOUS
<1>1. CASE FormsStep(Forms!Next)  BY <1>1 DEF FormsStep
<1>2. CASE OperationsStep(Operations!Next) \/ LoginStep \/ HistoryStep \/ CardStep
           \/ ConsoleStep(Prompt!Next)
  BY <1>2 DEF OperationsStep, LoginStep, HistoryStep, CardStep, ConsoleStep
<1>3. CASE CardStops \/ UNCHANGED vars  BY <1>3 DEF CardStops, vars
<1> QED  BY <1>1, <1>2, <1>3 DEF Next

\* The safety part of FormsHold.  For any fields, any events, late answers and
\* saves of other tabs: what the user typed changes only by the user's hand.
THEOREM EditsAreKept == Spec => Forms!EditsSurvive
<1>1. [Next]_vars
        => [ \A f \in Forms!Edited: values'[f] # values[f]
               => saving = Forms!NotSaving /\ view' = view ]_(Forms!formVars)
  <2> SUFFICES ASSUME [Forms!Next]_formVars, NEW f \in Forms!Edited, values'[f] # values[f]
               PROVE  saving = Forms!NotSaving /\ view' = view
    BY FormsApart DEF formVars, Forms!formVars
  <2>1. values' # values  OBVIOUS
  <2>2. ASSUME Forms!EventArrives PROVE FALSE
    BY <2>1, <2>2, LearnsNothingEdited DEF Forms!EventArrives
  <2>3. ASSUME NEW g \in fetches, Forms!FetchArrives(g) PROVE FALSE
    <3>1. Forms!Learns(g.record) \/ UNCHANGED values  BY <2>3 DEF Forms!FetchArrives
    <3> QED  BY <2>1, <3>1, LearnsNothingEdited
  <2>4. ASSUME Forms!SaveEnds PROVE FALSE
    <3>1. ~Forms!Pristine  BY NothingEdited
    <3>2. Forms!Refreshed(view')  BY <2>4 DEF Forms!SaveEnds
    <3> QED  BY <2>1, <3>1, <3>2 DEF Forms!Refreshed
  <2>5. ASSUME NEW field \in Field, NEW value \in Forms!Value, Forms!Edit(field, value)
        PROVE  saving = Forms!NotSaving /\ view' = view
    BY <2>5 DEF Forms!Edit
  <2>6. ASSUME Forms!Discard PROVE saving = Forms!NotSaving /\ view' = view
    BY <2>6 DEF Forms!Discard
  <2>7. ASSUME \/ Forms!TickBegins \/ Forms!TickSends \/ Forms!Hides \/ Forms!Shows \/ Forms!OtherFetch
               \/ (\E own \in BOOLEAN: Forms!FetchAnswered(own))
        PROVE  FALSE
    BY <2>1, <2>7 DEF Forms!TickBegins, Forms!TickSends, Forms!Hides, Forms!Shows, Forms!OtherFetch,
       Forms!FetchAnswered
  <2>8. ASSUME \/ Forms!Save \/ Forms!SaveHandled \/ Forms!SaveLost \/ Forms!Saved \/ Forms!Refused
               \/ (\E r \in Forms!Record: Forms!OtherTabSaves(r)) \/ UNCHANGED formVars
        PROVE  FALSE
    BY <2>1, <2>8 DEF Forms!Save, Forms!SaveHandled, Forms!SaveLost, Forms!Saved, Forms!Refused,
       Forms!OtherTabSaves, formVars
  <2> QED  BY <2>2, <2>3, <2>4, <2>5, <2>6, <2>7, <2>8 DEF Forms!Next
<1> QED
  BY <1>1, PTL DEF Spec, Forms!EditsSurvive

-----------------------------------------------------------------------------
(* The console is true to the game.                                        *)

Word == {"ok", "bad-arguments", "unknown-command"}
Entry == [id: Nat, verb: Prompt!Verb, status: Word]
ErrorLine == [id: Nat, status: {"error"}]

Typed ==
  [at: {"sent", "accepted", "connected", "dropped", "refused"}, id: Nat, verb: Prompt!Verb, args: Prompt!Args]
Said == [at: {"said", "refused"}, id: Nat, verb: Prompt!Verb, status: Word]
Recorded == [at: {"recorded"}, entry: Entry]
Failed == [at: {"refused"}, id: {0}]
Command == {Prompt!Idle} \cup Typed \cup Said \cup Recorded \cup Failed

UnderWay(c) == c.at \in {"sent", "accepted", "connected", "dropped", "said"}

\* What is said to be done was run, a stop aside.
TrueEntry(e, run) == e.status = "ok" => e.id \in run \/ e.verb = Prompt!Stop
TrueTo(s, run) == \A i \in 1 .. Len(s): TrueEntry(s[i], run)

\* A command under way, among n of them, with what the game ran and had cause
\* to call unknown.
FineCommand(c, n, run, cause) ==
  /\ c \in Command
  /\ UnderWay(c) => c.id \in 1 .. n
  /\ c.at \in {"sent", "accepted", "connected"} /\ c.args = "lacking" => c.verb \in cause
  /\ c.at = "said" =>
       /\ c.status = "ok" => c.id \in run
       /\ c.status = "unknown-command" => c.verb \in cause
  /\ c.at = "recorded" => TrueEntry(c.entry, run)

GameInv == sent \in Nat /\ missing \subseteq doubted /\ Prompt!Verb \ has \subseteq doubted

CommandsInv ==
  /\ DOMAIN commands = Tab
  /\ \A t \in Tab: FineCommand(commands[t], sent, ran, doubted)
  /\ \A t, u \in Tab:
       UnderWay(commands[t]) /\ UnderWay(commands[u]) /\ commands[t].id = commands[u].id => t = u

\* The history has each command once, none of them still under way.
EntriesInv ==
  /\ entries \in Seq(Entry) /\ Len(entries) <= HistoryLimit /\ TrueTo(entries, ran)
  /\ \A i, j \in 1 .. Len(entries): entries[i].id = entries[j].id => i = j
  /\ \A i \in 1 .. Len(entries):
       /\ entries[i].id <= sent
       /\ \A t \in Tab: UnderWay(commands[t]) => commands[t].id # entries[i].id

PagesInv ==
  /\ DOMAIN lines = Tab /\ DOMAIN reading = Tab
  /\ \A t \in Tab:
       /\ lines[t] \in Seq(Entry \cup ErrorLine) /\ TrueTo(lines[t], ran)
       /\ reading[t].at = "read"
            => reading[t].history \in Seq(Entry) /\ TrueTo(reading[t].history, ran)

ConsoleInv == GameInv /\ CommandsInv /\ EntriesInv /\ PagesInv

LEMMA ConsoleConstants ==
  Prompt!Stop \in Prompt!Verb /\ HistoryLimit \in Nat \ {0}
BY DashboardAssumption DEF Prompt!ConsoleAssumption, Prompt!Verb

LEMMA StaysTrue ==
  ASSUME NEW s, NEW run, NEW more, run \subseteq more, TrueTo(s, run)
  PROVE  TrueTo(s, more)
BY DEF TrueTo, TrueEntry

LEMMA StaysFine ==
  ASSUME NEW c, NEW n \in Nat, NEW m \in Nat, n <= m, NEW run, NEW run2, run \subseteq run2,
         NEW cause, NEW cause2, cause \subseteq cause2, FineCommand(c, n, run, cause)
  PROVE  FineCommand(c, m, run2, cause2)
<1>1. 1 .. n \subseteq 1 .. m  OBVIOUS
<1> QED  BY <1>1 DEF FineCommand, TrueEntry

LEMMA Kinds ==
  ASSUME NEW c \in Command
  PROVE  /\ c.at \in {"sent", "accepted", "connected", "dropped"} => c \in Typed
         /\ c.at = "said" => c \in Said
         /\ c.at = "recorded" => c \in Recorded
         /\ c.at = "refused" => c.id \in Nat
<1>1. CASE c = Prompt!Idle  BY <1>1 DEF Prompt!Idle
<1>2. CASE c \in Typed  BY <1>2 DEF Typed
<1>3. CASE c \in Said  BY <1>3 DEF Said
<1>4. CASE c \in Recorded  BY <1>4 DEF Recorded
<1>5. CASE c \in Failed  BY <1>5 DEF Failed
<1> QED  BY <1>1, <1>2, <1>3, <1>4, <1>5 DEF Command

LEMMA ConsoleBegins == Prompt!Init => ConsoleInv
<1> SUFFICES ASSUME Prompt!Init PROVE ConsoleInv  OBVIOUS
<1>1. GameInv
  <2>1. PICK mods \in SUBSET Modded: has = Vanilla \cup mods /\ doubted = Modded \ mods
    BY DEF Prompt!Init
  <2> QED  BY <2>1 DEF Prompt!Init, GameInv, Prompt!Verb
<1>2. CommandsInv
  <2>1. \A t \in Tab: commands[t] = Prompt!Idle /\ commands[t].at = "idle"
    BY DEF Prompt!Init, Prompt!Idle
  <2> QED  BY <2>1 DEF Prompt!Init, CommandsInv, FineCommand, UnderWay, Command
<1>3. EntriesInv
  <2>1. <<>> \in Seq(Entry) /\ Len(<<>>) = 0  OBVIOUS
  <2> QED  BY <2>1, ConsoleConstants DEF Prompt!Init, EntriesInv, TrueTo
<1>4. PagesInv
  <2>1. <<>> \in Seq(Entry \cup ErrorLine) /\ Len(<<>>) = 0  OBVIOUS
  <2>2. \A t \in Tab: reading[t].at = "none" /\ lines[t] = <<>>
    BY DEF Prompt!Init, Prompt!NoLoad
  <2> QED  BY <2>1, <2>2 DEF Prompt!Init, PagesInv, TrueTo
<1> QED  BY <1>1, <1>2, <1>3, <1>4 DEF ConsoleInv

\* A command moves on under its own number, or out of the way.
LEMMA CommandMoves ==
  ASSUME ConsoleInv, NEW t \in Tab, NEW c, Prompt!Set(t, c),
         sent' = sent, ran \subseteq ran', doubted \subseteq doubted',
         FineCommand(c, sent, ran', doubted'),
         UnderWay(c) => UnderWay(commands[t]) /\ c.id = commands[t].id
  PROVE  CommandsInv' /\ (entries' = entries => EntriesInv')
<1>1. DOMAIN commands' = Tab /\ \A u \in Tab: commands'[u] = IF u = t THEN c ELSE commands[u]
  BY DEF ConsoleInv, CommandsInv, Prompt!Set
<1>2. \A u \in Tab: FineCommand(commands'[u], sent', ran', doubted')
  <2>1. sent \in Nat /\ sent <= sent  BY DEF ConsoleInv, GameInv
  <2>2. \A u \in Tab: FineCommand(commands[u], sent, ran, doubted)  BY DEF ConsoleInv, CommandsInv
  <2>3. \A u \in Tab: FineCommand(commands[u], sent, ran', doubted')  BY <2>1, <2>2, StaysFine
  <2> QED  BY <1>1, <2>3
<1>3. \A u \in Tab: UnderWay(commands'[u]) => UnderWay(commands[u]) /\ commands'[u].id = commands[u].id
  BY <1>1
<1>4. CommandsInv'
  <2>1. ASSUME NEW u \in Tab, NEW w \in Tab, UnderWay(commands'[u]), UnderWay(commands'[w]),
               commands'[u].id = commands'[w].id
        PROVE  u = w
    BY <1>3, <2>1 DEF ConsoleInv, CommandsInv
  <2>2. (\A u, w \in Tab:
           UnderWay(commands[u]) /\ UnderWay(commands[w]) /\ commands[u].id = commands[w].id => u = w)'
    BY <2>1 DEF UnderWay
  <2>3. (\A u \in Tab: FineCommand(commands[u], sent, ran, doubted))'
    BY <1>2 DEF FineCommand, UnderWay, TrueEntry
  <2> QED  BY <1>1, <2>2, <2>3 DEF CommandsInv
<1>5. ASSUME entries' = entries PROVE EntriesInv'
  <2>1. TrueTo(entries, ran')  BY StaysTrue DEF ConsoleInv, EntriesInv
  <2>2. TrueTo(entries, ran)'  BY <1>5, <2>1 DEF TrueTo, TrueEntry
  <2>3. \A i \in 1 .. Len(entries): \A u \in Tab: UnderWay(commands'[u]) => commands'[u].id # entries[i].id
    BY <1>3 DEF ConsoleInv, EntriesInv
  <2>4. (\A i \in 1 .. Len(entries):
           /\ entries[i].id <= sent
           /\ \A u \in Tab: UnderWay(commands[u]) => commands[u].id # entries[i].id)'
    BY <1>5, <2>3 DEF ConsoleInv, EntriesInv, UnderWay
  <2> QED  BY <1>5, <2>2, <2>4 DEF ConsoleInv, EntriesInv
<1> QED  BY <1>4, <1>5

LEMMA PagesStay ==
  ASSUME ConsoleInv, UNCHANGED <<lines, reading>>, ran \subseteq ran'
  PROVE  PagesInv'
<1>1. \A t \in Tab: TrueTo(lines[t], ran') /\ (reading[t].at = "read" => TrueTo(reading[t].history, ran'))
  BY StaysTrue DEF ConsoleInv, PagesInv
<1>2. \A t \in Tab: TrueTo(lines[t], ran)' /\ (reading'[t].at = "read" => TrueTo(reading[t].history, ran)')
  BY <1>1 DEF TrueTo, TrueEntry
<1> QED  BY <1>2 DEF ConsoleInv, PagesInv

\* A step of the request that the game has no part in.
LEMMA RequestMoves ==
  ASSUME ConsoleInv, NEW t \in Tab, commands[t] \in Typed \cup Said, UnderWay(commands[t]),
         NEW at \in {"accepted", "connected", "dropped", "refused"},
         commands[t] \in Said => at = "refused",
         at \in {"accepted", "connected"} => commands[t].at \in {"sent", "accepted"},
         Prompt!Moves(t, at), UNCHANGED <<has, ran, doubted, works, missing, entries, lines, reading, sent>>
  PROVE  ConsoleInv'
<1>1. PICK c: c = [commands[t] EXCEPT !.at = at]  OBVIOUS
<1>2. PICK b: b = commands[t]  OBVIOUS
<1>3. Prompt!Set(t, c)  BY <1>1 DEF Prompt!Moves
<1>4. c \in Command /\ c.at = at /\ c.id = b.id /\ (b \in Typed => c.args = b.args /\ c.verb = b.verb)
  <2>1. CASE b \in Typed
    <3>1. c = [at |-> at, id |-> b.id, verb |-> b.verb, args |-> b.args]
      BY <1>1, <1>2, <2>1 DEF Typed
    <3>2. c \in Typed  BY <2>1, <3>1 DEF Typed
    <3> QED  BY <3>1, <3>2 DEF Command
  <2>2. CASE b \in Said
    <3>1. c = [at |-> at, id |-> b.id, verb |-> b.verb, status |-> b.status]
      BY <1>1, <1>2, <2>2 DEF Said
    <3>2. c \in Said  BY <1>2, <2>2, <3>1 DEF Said
    <3>3. b \notin Typed
      <4>1. DOMAIN b = {"at", "id", "verb", "status"}  BY <2>2 DEF Said
      <4>2. b \in Typed => DOMAIN b = {"at", "id", "verb", "args"}  BY DEF Typed
      <4>3. "status" \in {"at", "id", "verb", "status"} /\ "status" \notin {"at", "id", "verb", "args"}
        OBVIOUS
      <4> QED  BY <4>1, <4>2, <4>3
    <3> QED  BY <3>1, <3>2, <3>3 DEF Command
  <2> QED  BY <1>2, <2>1, <2>2
<1>5. FineCommand(b, sent, ran, doubted)  BY <1>2 DEF ConsoleInv, CommandsInv
<1>6. FineCommand(c, sent, ran, doubted)
  <2>1. UnderWay(c) => c.id \in 1 .. sent  BY <1>2, <1>4, <1>5 DEF FineCommand
  <2>2. c.at \in {"sent", "accepted", "connected"} /\ c.args = "lacking" => c.verb \in doubted
    <3> SUFFICES ASSUME c.at \in {"sent", "accepted", "connected"}, c.args = "lacking"
                 PROVE  c.verb \in doubted
      OBVIOUS
    <3>1. b.at \in {"sent", "accepted"} /\ b \in Typed  BY <1>2, <1>4
    <3> QED  BY <1>4, <1>5, <3>1 DEF FineCommand
  <2>3. c.at # "said" /\ c.at # "recorded"  BY <1>4
  <2> QED  BY <1>4, <2>1, <2>2, <2>3 DEF FineCommand
<1>7. CommandsInv' /\ EntriesInv'
  <2>1. FineCommand(c, sent, ran', doubted')
    <3>1. ran' = ran /\ doubted' = doubted  OBVIOUS
    <3> QED  BY <1>6, <3>1
  <2> QED  BY <1>2, <1>3, <1>4, <2>1, CommandMoves
<1>8. PagesInv'  BY PagesStay
<1>9. GameInv'  BY DEF ConsoleInv, GameInv
<1> QED  BY <1>7, <1>8, <1>9 DEF ConsoleInv

\* How many of the oldest entries a history with one more has to forget.
Excess(all) == IF Len(all) > HistoryLimit THEN Len(all) - HistoryLimit ELSE 0

LEMMA FewForgotten ==
  ASSUME NEW all, Len(all) \in Nat, Len(all) <= HistoryLimit + 1
  PROVE  Excess(all) \in Nat /\ Excess(all) <= 1 /\ Len(all) - Excess(all) <= HistoryLimit
<1>1. HistoryLimit \in Nat  BY ConsoleConstants
<1>2. CASE Len(all) > HistoryLimit
  <2>1. Len(all) = HistoryLimit + 1  BY <1>1, <1>2
  <2>2. Excess(all) = 1  BY <1>1, <1>2, <2>1 DEF Excess
  <2> QED  BY <1>1, <2>1, <2>2
<1>3. CASE ~(Len(all) > HistoryLimit)
  <2>1. Excess(all) = 0  BY <1>3 DEF Excess
  <2> QED  BY <1>1, <1>3, <2>1
<1> QED  BY <1>2, <1>3

\* The history gets the entry at its end, and forgets the oldest when full.
LEMMA Remembered ==
  ASSUME NEW s \in Seq(Entry), NEW e \in Entry, NEW all, all = Append(s, e),
         NEW d \in Nat, d <= 1, NEW r, r = SubSeq(all, 1 + d, Len(all))
  PROVE  /\ r \in Seq(Entry) /\ Len(r) = (Len(s) + 1) - d
         /\ \A i \in 1 .. Len(r): \/ i + d \in 1 .. Len(s) /\ r[i] = s[i + d]
                                  \/ i + d = Len(s) + 1 /\ r[i] = e
<1>1. PICK n \in Nat: n = Len(s)  OBVIOUS
<1>2. all \in Seq(Entry) /\ Len(all) = n + 1 /\ all[n + 1] = e /\ \A i \in 1 .. n: all[i] = s[i]
  BY <1>1, AppendProperties
<1>3. PICK first \in Int, last \in Int: first = 1 + d /\ last = n + 1  OBVIOUS
<1>4. \A i \in first .. last: all[i] \in Entry
  <2>1. first .. last \subseteq 1 .. n + 1  BY <1>3
  <2> QED  BY <1>2, <2>1, ElementOfSeq
<1>5. PICK length \in Int: length = (n + 1) - d  OBVIOUS
<1>6. /\ r \in Seq(Entry) /\ Len(r) = length
      /\ \A i \in 1 .. length: r[i] = all[i + d]
  <2>1. r = SubSeq(all, first, last)  BY <1>2, <1>3
  <2>2. /\ r \in Seq(Entry)
        /\ Len(r) = IF first <= last THEN last - first + 1 ELSE 0
        /\ \A i \in 1 .. last - first + 1: r[i] = all[first + i - 1]
    BY ONLY first \in Int, last \in Int, <1>4, <2>1, SubSeqProperties
  <2>3. last - first + 1 = length /\ first <= last + 1
    BY <1>3, <1>5
  <2>4. Len(r) = length
    BY ONLY length \in Int, first \in Int, last \in Int, <2>2, <2>3
  <2>5. ASSUME NEW i \in 1 .. length PROVE r[i] = all[i + d]
    <3>1. first + i - 1 = i + d  BY <1>3
    <3>2. r[i] = all[first + i - 1]  BY <2>2, <2>3
    <3> QED  BY <3>1, <3>2
  <2> QED  BY <2>2, <2>4, <2>5
<1>7. ASSUME NEW i \in 1 .. length
      PROVE  \/ i + d \in 1 .. Len(s) /\ r[i] = s[i + d]
             \/ i + d = Len(s) + 1 /\ r[i] = e
  <2>1. i + d \in 1 .. n \/ i + d = n + 1  BY <1>5
  <2>2. r[i] = all[i + d]  BY <1>6
  <2> QED  BY <1>1, <1>2, <2>1, <2>2
<1> QED  BY <1>1, <1>5, <1>6, <1>7

\* The server's word about a command is remembered once.
LEMMA RecordKeeps ==
  ASSUME ConsoleInv, NEW t \in Tab, NEW status \in Word, Prompt!Record(t, status),
         commands[t] \in Typed \cup Said, UnderWay(commands[t]),
         status = "ok" => commands[t].id \in ran \/ commands[t].verb = Prompt!Stop,
         status = "unknown-command" => commands[t].verb \in doubted
  PROVE  ConsoleInv'
<1>1. PICK id \in Nat, verb \in Prompt!Verb: id = commands[t].id /\ verb = commands[t].verb
  BY DEF Typed, Said
<1>2. PICK e \in Entry: e = [id |-> id, verb |-> verb, status |-> status]  BY DEF Entry
<1>3. PICK c: c = [at |-> "recorded", entry |-> e]  OBVIOUS
<1>4. PICK all: all = Append(entries, e)  OBVIOUS
<1>5. PICK k \in Nat: k = Excess(all) /\ k <= 1 /\ (Len(entries) + 1) - k <= HistoryLimit
  <2>1. PICK s \in Seq(Entry): s = entries /\ Len(s) <= HistoryLimit
    BY DEF ConsoleInv, EntriesInv
  <2>2. Len(all) = Len(s) + 1  BY <1>4, <2>1, AppendProperties
  <2>3. Len(all) \in Nat /\ Len(all) <= HistoryLimit + 1  BY <2>1, <2>2, ConsoleConstants
  <2> QED  BY <2>1, <2>2, <2>3, FewForgotten
<1>6. /\ Prompt!Set(t, c) /\ entries' = SubSeq(all, 1 + k, Len(all))
      /\ UNCHANGED <<game, has, ran, doubted, lines, reading, sent>>
      /\ missing' = missing \/ (status = "unknown-command" /\ missing' = missing \cup {verb})
  BY <1>1, <1>2, <1>3, <1>4, <1>5 DEF Prompt!Record, Prompt!Remember, Prompt!gameVars, Prompt!page, Excess
<1>7. e.id = id /\ e.verb = verb /\ e.status = status /\ TrueEntry(e, ran)
  BY <1>1, <1>2 DEF TrueEntry
<1>8. FineCommand(c, sent, ran, doubted) /\ ~UnderWay(c)
  <2>1. c \in Recorded /\ c.at = "recorded" /\ c.entry = e  BY <1>2, <1>3 DEF Recorded
  <2> QED  BY <1>7, <2>1 DEF FineCommand, UnderWay, Command
<1>9. CommandsInv'
  <2>1. ran' = ran /\ doubted' = doubted /\ sent' = sent  BY <1>6
  <2>2. FineCommand(c, sent, ran', doubted')  BY <1>8, <2>1
  <2> QED  BY <1>6, <1>8, <2>1, <2>2, CommandMoves
<1>10. GameInv'
  <2>1. missing' \subseteq doubted  BY <1>1, <1>6 DEF ConsoleInv, GameInv
  <2> QED  BY <1>6, <2>1 DEF ConsoleInv, GameInv
<1>11. PagesInv'  BY <1>6, PagesStay
<1>12. EntriesInv'
  <2>1. /\ entries \in Seq(Entry) /\ Len(entries) <= HistoryLimit /\ TrueTo(entries, ran)
        /\ \A i, j \in 1 .. Len(entries): entries[i].id = entries[j].id => i = j
        /\ \A i \in 1 .. Len(entries):
             /\ entries[i].id <= sent
             /\ \A u \in Tab: UnderWay(commands[u]) => commands[u].id # entries[i].id
    BY DEF ConsoleInv, EntriesInv
  <2>2. PICK r: r = entries'  OBVIOUS
  <2>3. /\ r \in Seq(Entry) /\ Len(r) <= HistoryLimit /\ k \in Nat
        /\ \A i \in 1 .. Len(r): \/ i + k \in 1 .. Len(entries) /\ r[i] = entries[i + k]
                                 \/ i + k = Len(entries) + 1 /\ r[i] = e
    <3>1. r = SubSeq(all, 1 + k, Len(all))  BY <1>6, <2>2
    <3>2. PICK s \in Seq(Entry): s = entries  BY <2>1
    <3>3. all = Append(s, e)  BY <1>4, <3>2
    <3> k <= 1  BY <1>5
    <3>4. /\ r \in Seq(Entry) /\ Len(r) = (Len(s) + 1) - k
          /\ \A i \in 1 .. Len(r): \/ i + k \in 1 .. Len(s) /\ r[i] = s[i + k]
                                   \/ i + k = Len(s) + 1 /\ r[i] = e
      BY ONLY s \in Seq(Entry), e \in Entry, k \in Nat, k <= 1, <3>1, <3>3, Remembered
    <3> QED  BY <1>5, <3>2, <3>4
  <2>4. id <= sent /\ \A i \in 1 .. Len(entries): entries[i].id # id
    <3>1. FineCommand(commands[t], sent, ran, doubted)  BY DEF ConsoleInv, CommandsInv
    <3>2. id \in 1 .. sent /\ sent \in Nat  BY <1>1, <3>1 DEF FineCommand, ConsoleInv, GameInv
    <3> QED  BY <1>1, <2>1, <3>2
  <2>5. TrueTo(r, ran)
    <3> SUFFICES ASSUME NEW i \in 1 .. Len(r) PROVE TrueEntry(r[i], ran)  BY DEF TrueTo
    <3>1. \A j \in 1 .. Len(entries): TrueEntry(entries[j], ran)  BY <2>1 DEF TrueTo
    <3> QED  BY <1>7, <2>3, <3>1
  <2>6. ASSUME NEW i \in 1 .. Len(r), NEW j \in 1 .. Len(r), r[i].id = r[j].id PROVE i = j
    <3>1. i \in Int /\ j \in Int /\ Len(r) \in Nat  BY <2>3
    <3>2. CASE i + k \in 1 .. Len(entries) /\ j + k \in 1 .. Len(entries)
      <4>1. r[i] = entries[i + k] /\ r[j] = entries[j + k]
        <5>1. Len(entries) \in Nat  BY <2>1
        <5>2. i + k # Len(entries) + 1 /\ j + k # Len(entries) + 1  BY <3>2, <5>1
        <5> QED  BY <2>3, <5>2
      <4>2. i + k = j + k  BY <2>1, <2>6, <3>2, <4>1
      <4> QED  BY <2>3, <3>1, <4>2
    <3>3. CASE i + k = Len(entries) + 1 /\ j + k = Len(entries) + 1
      BY <2>3, <3>1, <3>3
    <3>4. ASSUME NEW p \in 1 .. Len(r), NEW q \in 1 .. Len(r), r[p].id = r[q].id,
                 p + k \in 1 .. Len(entries), q + k = Len(entries) + 1
          PROVE  FALSE
      <4>1. Len(entries) \in Nat  BY <2>1
      <4>2. p + k # Len(entries) + 1 /\ q + k \notin 1 .. Len(entries)  BY <3>4, <4>1
      <4>3. r[p] = entries[p + k] /\ r[q] = e  BY <2>3, <4>2
      <4> QED  BY <1>7, <2>4, <3>4, <4>3
    <3>5. /\ i + k \in 1 .. Len(entries) \/ i + k = Len(entries) + 1
          /\ j + k \in 1 .. Len(entries) \/ j + k = Len(entries) + 1
      BY <2>3
    <3> QED  BY <2>6, <3>2, <3>3, <3>4, <3>5
  <2>7. \A u \in Tab: UnderWay(commands'[u]) => UnderWay(commands[u]) /\ commands'[u] = commands[u] /\ u # t
    BY <1>6, <1>8 DEF Prompt!Set, ConsoleInv, CommandsInv
  <2>8. ASSUME NEW i \in 1 .. Len(r)
        PROVE  /\ r[i].id <= sent
               /\ \A u \in Tab: UnderWay(commands'[u]) => commands'[u].id # r[i].id
    <3>1. CASE i + k \in 1 .. Len(entries) /\ r[i] = entries[i + k]
      BY <2>1, <2>7, <3>1
    <3>2. CASE r[i] = e
      <4>1. \A u \in Tab: UnderWay(commands[u]) /\ u # t => commands[u].id # id
        BY <1>1 DEF ConsoleInv, CommandsInv
      <4> QED  BY <1>7, <2>4, <2>7, <3>2, <4>1
    <3> QED  BY <2>3, <3>1, <3>2
  <2>9. (TrueTo(entries, ran))'  BY <1>6, <2>2, <2>5 DEF TrueTo, TrueEntry
  <2>10. (\A i \in 1 .. Len(entries):
            /\ entries[i].id <= sent
            /\ \A u \in Tab: UnderWay(commands[u]) => commands[u].id # entries[i].id)'
    BY <1>6, <2>2, <2>8 DEF UnderWay
  <2> QED  BY <2>2, <2>3, <2>6, <2>9, <2>10 DEF EntriesInv
<1> QED  BY <1>9, <1>10, <1>11, <1>12 DEF ConsoleInv

LEMMA ServesKeeps ==
  ASSUME ConsoleInv, NEW t \in Tab, Prompt!Serves(t)
  PROVE  ConsoleInv'
<1>1. FineCommand(commands[t], sent, ran, doubted)  BY DEF ConsoleInv, CommandsInv
<1>2. commands[t] \in Command  BY <1>1 DEF FineCommand
<1>3. ASSUME NEW at \in {"accepted", "connected", "dropped", "refused"}, Prompt!Moves(t, at),
             UNCHANGED <<Prompt!gameVars, Prompt!memory, Prompt!page, sent>>,
             \/ commands[t].at \in {"sent", "accepted"}
             \/ commands[t].at = "connected" /\ at \in {"dropped", "refused"}
             \/ commands[t].at \in {"dropped", "said"} /\ at = "refused"
      PROVE  ConsoleInv'
  <2>1. commands[t] \in Typed \cup Said /\ UnderWay(commands[t])  BY <1>2, <1>3, Kinds DEF UnderWay
  <2>2. commands[t] \in Said => commands[t].at \in {"said", "refused"}  BY DEF Said
  <2>3. commands[t] \in Said => at = "refused"  BY <1>3, <2>2
  <2>4. at \in {"accepted", "connected"} => commands[t].at \in {"sent", "accepted"}  BY <1>3
  <2>5. UNCHANGED <<has, ran, doubted, works, missing, entries, lines, reading, sent>>
    BY <1>3 DEF Prompt!gameVars, Prompt!memory, Prompt!page
  <2> QED  BY <1>3, <2>1, <2>3, <2>4, <2>5, RequestMoves
<1>4. CASE Prompt!Begin(t)
  <2>1. PICK at \in {"accepted", "refused"}: Prompt!Moves(t, at)  BY <1>4 DEF Prompt!Begin
  <2> QED  BY <1>3, <1>4, <2>1 DEF Prompt!Begin, Prompt!At
<1>5. CASE Prompt!Connect(t)
  <2>1. PICK at \in {"connected", "refused"}: Prompt!Moves(t, at)  BY <1>5 DEF Prompt!Connect
  <2> QED  BY <1>3, <1>5, <2>1 DEF Prompt!Connect, Prompt!At
<1>6. CASE Prompt!Drop(t) \/ Prompt!TimesOut(t)
  BY <1>3, <1>6 DEF Prompt!Drop, Prompt!TimesOut, Prompt!At
<1>7. CASE Prompt!Answered(t)
  <2>1. commands[t].at = "said" /\ Prompt!Record(t, commands[t].status)
    BY <1>7 DEF Prompt!Answered, Prompt!At
  <2>2. commands[t] \in Said /\ UnderWay(commands[t])  BY <1>2, <2>1, Kinds DEF UnderWay
  <2>3. PICK status \in Word: status = commands[t].status  BY <2>2 DEF Said
  <2>4. /\ status = "ok" => commands[t].id \in ran
        /\ status = "unknown-command" => commands[t].verb \in doubted
    BY <1>1, <2>1, <2>3 DEF FineCommand
  <2> QED  BY <2>1, <2>2, <2>3, <2>4, RecordKeeps
<1>8. CASE Prompt!Dropped(t)
  <2>1. commands[t].at = "dropped"  BY <1>8 DEF Prompt!Dropped, Prompt!At
  <2>2. CASE commands[t].verb = Prompt!Stop
    <3>1. Prompt!Record(t, "ok")  BY <1>8, <2>2 DEF Prompt!Dropped
    <3>2. commands[t] \in Typed /\ UnderWay(commands[t])  BY <1>2, <2>1, Kinds DEF UnderWay
    <3>3. PICK status \in Word: status = "ok"  BY DEF Word
    <3> QED  BY <2>2, <3>1, <3>2, <3>3, RecordKeeps
  <2>3. CASE commands[t].verb # Prompt!Stop
    BY <1>3, <1>8, <2>1, <2>3 DEF Prompt!Dropped
  <2> QED  BY <2>2, <2>3
<1> QED  BY <1>4, <1>5, <1>6, <1>7, <1>8 DEF Prompt!Serves

LEMMA RunKeeps ==
  ASSUME ConsoleInv, NEW t \in Tab, Prompt!Run(t)
  PROVE  ConsoleInv'
<1>1. PICK b: b = commands[t]  OBVIOUS
<1>2. PICK status: status = Prompt!Status(b)  OBVIOUS
<1>3. /\ b.at = "connected"
      /\ ran' = (IF status = "ok" THEN ran \cup {b.id} ELSE ran)
      /\ \/ Prompt!Set(t, [at |-> "said", id |-> b.id, verb |-> b.verb, status |-> status])
         \/ b.verb = Prompt!Stop /\ Prompt!Moves(t, "dropped")
      /\ UNCHANGED <<has, doubted, works, missing, entries, lines, reading, sent>>
  BY <1>1, <1>2 DEF Prompt!Run, Prompt!At, Prompt!memory, Prompt!page
<1>4. FineCommand(b, sent, ran, doubted)  BY <1>1 DEF ConsoleInv, CommandsInv
<1>5. b \in Typed /\ UnderWay(b)  BY <1>3, <1>4, Kinds DEF FineCommand, UnderWay
<1>6. b.id \in 1 .. sent /\ b.id \in Nat /\ b.verb \in Prompt!Verb  BY <1>4, <1>5 DEF FineCommand, Typed
<1>7. status \in Word /\ (status = "unknown-command" => b.verb \in doubted)
  <2>1. b.args = "lacking" => b.verb \in doubted  BY <1>3, <1>4 DEF FineCommand
  <2>2. b.verb \notin has => b.verb \in doubted  BY <1>6 DEF ConsoleInv, GameInv
  <2> QED  BY <1>2, <2>1, <2>2 DEF Prompt!Status, Word
<1>8. ran \subseteq ran' /\ (status = "ok" => b.id \in ran')  BY <1>3
<1>9. PICK c: /\ Prompt!Set(t, c) /\ FineCommand(c, sent, ran', doubted) /\ c.id = b.id
  <2>1. CASE Prompt!Set(t, [at |-> "said", id |-> b.id, verb |-> b.verb, status |-> status])
    <3>1. PICK c: c = [at |-> "said", id |-> b.id, verb |-> b.verb, status |-> status]  OBVIOUS
    <3>2. c \in Said /\ c.at = "said"  BY <1>6, <1>7, <3>1 DEF Said
    <3>3. c.id = b.id /\ c.verb = b.verb /\ c.status = status  BY <3>1
    <3>4. FineCommand(c, sent, ran', doubted)
      BY <1>6, <1>7, <1>8, <3>2, <3>3 DEF FineCommand, Command
    <3> QED  BY <2>1, <3>1, <3>3, <3>4
  <2>2. CASE Prompt!Moves(t, "dropped")
    <3>1. PICK c: c = [b EXCEPT !.at = "dropped"]  OBVIOUS
    <3>2. c = [at |-> "dropped", id |-> b.id, verb |-> b.verb, args |-> b.args]
      BY <1>5, <3>1 DEF Typed
    <3>3. c \in Typed /\ c.at = "dropped" /\ c.id = b.id  BY <1>5, <3>2 DEF Typed
    <3>4. FineCommand(c, sent, ran', doubted)  BY <1>6, <3>3 DEF FineCommand, Command
    <3>5. Prompt!Set(t, c)  BY <1>1, <2>2, <3>1 DEF Prompt!Moves
    <3> QED  BY <3>3, <3>4, <3>5
  <2> QED  BY <1>3, <2>1, <2>2
<1>10. CommandsInv' /\ EntriesInv'
  <2>1. doubted' = doubted /\ sent' = sent /\ entries' = entries  BY <1>3
  <2>2. FineCommand(c, sent, ran', doubted')  BY <1>9, <2>1
  <2> QED  BY <1>1, <1>5, <1>8, <1>9, <2>1, <2>2, CommandMoves
<1>11. PagesInv'  BY <1>3, <1>8, PagesStay
<1>12. GameInv'  BY <1>3 DEF ConsoleInv, GameInv
<1> QED  BY <1>10, <1>11, <1>12 DEF ConsoleInv

\* A step that leaves requests and the history alone.
LEMMA RequestsStay ==
  ASSUME ConsoleInv, UNCHANGED <<commands, entries, sent, ran>>, doubted \subseteq doubted'
  PROVE  CommandsInv' /\ EntriesInv'
<1>1. \A u \in Tab: FineCommand(commands[u], sent, ran, doubted')
  <2>1. sent \in Nat /\ sent <= sent  BY DEF ConsoleInv, GameInv
  <2> QED  BY <2>1, StaysFine DEF ConsoleInv, CommandsInv
<1>2. (\A u \in Tab: FineCommand(commands[u], sent, ran, doubted))'
  BY <1>1 DEF FineCommand, UnderWay, TrueEntry
<1>3. CommandsInv'  BY <1>2 DEF ConsoleInv, CommandsInv, UnderWay
<1>4. EntriesInv'  BY DEF ConsoleInv, EntriesInv, UnderWay, TrueTo, TrueEntry
<1> QED  BY <1>3, <1>4

LEMMA GameKeeps ==
  ASSUME ConsoleInv, Prompt!GameStarts \/ Prompt!GameIsUp \/ Prompt!GameStops \/ Prompt!PackChanges
  PROVE  ConsoleInv'
<1>1. UNCHANGED <<commands, entries, missing, lines, reading, sent, ran>>
  BY DEF Prompt!GameStarts, Prompt!GameIsUp, Prompt!GameStops, Prompt!PackChanges, Prompt!memory, Prompt!page
<1>2. doubted \subseteq doubted' /\ Prompt!Verb \ has' \subseteq doubted'
  <2>1. CASE UNCHANGED <<has, doubted>>  BY <2>1 DEF ConsoleInv, GameInv
  <2>2. CASE Prompt!PackChanges
    <3>1. PICK mods \in SUBSET Modded: has' = Vanilla \cup mods /\ doubted' = doubted \cup (Modded \ mods)
      BY <2>2 DEF Prompt!PackChanges
    <3> QED  BY <3>1 DEF Prompt!Verb
  <2> QED  BY <2>1, <2>2 DEF Prompt!GameStarts, Prompt!GameIsUp, Prompt!GameStops
<1>3. CommandsInv' /\ EntriesInv'  BY <1>1, <1>2, RequestsStay
<1>4. PagesInv'  BY <1>1, PagesStay
<1>5. GameInv'  BY <1>1, <1>2 DEF ConsoleInv, GameInv
<1> QED  BY <1>3, <1>4, <1>5 DEF ConsoleInv

LEMMA SendKeeps ==
  ASSUME ConsoleInv, NEW t \in Tab, NEW verb \in Prompt!Verb, NEW args \in Prompt!Args,
         Prompt!Send(t, verb, args)
  PROVE  ConsoleInv'
<1>1. PICK new \in Nat: new = sent + 1 /\ new # 0  BY DEF ConsoleInv, GameInv
<1>2. PICK c: c = [at |-> "sent", id |-> new, verb |-> verb, args |-> args]  OBVIOUS
<1>3. /\ commands[t].at = "idle" /\ sent' = new /\ Prompt!Set(t, c)
      /\ doubted' = (IF args = "lacking" THEN doubted \cup {verb} ELSE doubted)
      /\ UNCHANGED <<has, ran, missing, entries, lines, reading>>
  BY <1>1, <1>2 DEF Prompt!Send, Prompt!At, Prompt!memory, Prompt!page
<1>4. doubted \subseteq doubted'  BY <1>3
<1>5. FineCommand(c, new, ran, doubted')
  <2>1. c \in Typed /\ c.at = "sent" /\ c.id = new /\ c.verb = verb /\ c.args = args
    BY <1>2 DEF Typed
  <2>2. c.id \in 1 .. new  BY <1>1, <2>1
  <2> QED  BY <1>3, <2>1, <2>2 DEF FineCommand, Command
<1>6. DOMAIN commands' = Tab /\ \A u \in Tab: commands'[u] = IF u = t THEN c ELSE commands[u]
  BY <1>3 DEF ConsoleInv, CommandsInv, Prompt!Set
<1>7. \A u \in Tab: /\ FineCommand(commands'[u], new, ran, doubted')
                    /\ UnderWay(commands[u]) => commands[u].id \in 1 .. sent
  <2>1. sent \in Nat /\ sent <= new  BY <1>1 DEF ConsoleInv, GameInv
  <2>2. \A u \in Tab: FineCommand(commands[u], sent, ran, doubted)  BY DEF ConsoleInv, CommandsInv
  <2>3. \A u \in Tab: FineCommand(commands[u], new, ran, doubted')  BY <1>4, <2>1, <2>2, StaysFine
  <2>4. \A u \in Tab: UnderWay(commands[u]) => commands[u].id \in 1 .. sent  BY <2>2 DEF FineCommand
  <2> QED  BY <1>5, <1>6, <2>3, <2>4
<1>8. \A u \in Tab: UnderWay(commands[u]) => commands[u].id # new
  BY <1>1, <1>7 DEF ConsoleInv, GameInv
<1>9. c.id = new  BY <1>2
<1>10. CommandsInv'
  <2>1. ASSUME NEW u \in Tab, NEW w \in Tab, UnderWay(commands'[u]), UnderWay(commands'[w]),
               commands'[u].id = commands'[w].id
        PROVE  u = w
    BY <1>6, <1>8, <1>9, <2>1 DEF ConsoleInv, CommandsInv
  <2>2. (\A u, w \in Tab:
           UnderWay(commands[u]) /\ UnderWay(commands[w]) /\ commands[u].id = commands[w].id => u = w)'
    BY <2>1 DEF UnderWay
  <2>3. (\A u \in Tab: FineCommand(commands[u], sent, ran, doubted))'
    BY <1>3, <1>7 DEF FineCommand, UnderWay, TrueEntry
  <2> QED  BY <1>6, <2>2, <2>3 DEF CommandsInv
<1>11. EntriesInv'
  <2>1. \A i \in 1 .. Len(entries): entries[i].id \in Nat /\ entries[i].id <= sent
    <3>1. entries \in Seq(Entry) /\ \A i \in 1 .. Len(entries): entries[i].id <= sent
      BY DEF ConsoleInv, EntriesInv
    <3>2. \A i \in 1 .. Len(entries): entries[i] \in Entry  BY <3>1, ElementOfSeq
    <3>3. \A e \in Entry: e.id \in Nat  BY DEF Entry
    <3> QED  BY <3>1, <3>2, <3>3
  <2>2. \A i \in 1 .. Len(entries): entries[i].id <= new /\ entries[i].id # new
    BY <1>1, <2>1 DEF ConsoleInv, GameInv
  <2>3. \A i \in 1 .. Len(entries): \A u \in Tab: UnderWay(commands'[u]) => commands'[u].id # entries[i].id
    BY <1>6, <1>9, <2>2 DEF ConsoleInv, EntriesInv
  <2>4. (\A i \in 1 .. Len(entries):
           /\ entries[i].id <= sent
           /\ \A u \in Tab: UnderWay(commands[u]) => commands[u].id # entries[i].id)'
    BY <1>3, <2>2, <2>3 DEF UnderWay
  <2>5. TrueTo(entries, ran)'  BY <1>3 DEF ConsoleInv, EntriesInv, TrueTo, TrueEntry
  <2> QED  BY <1>3, <2>4, <2>5 DEF ConsoleInv, EntriesInv
<1>12. PagesInv'  BY <1>3, PagesStay
<1>13. GameInv'  BY <1>1, <1>3, <1>4 DEF ConsoleInv, GameInv
<1> QED  BY <1>10, <1>11, <1>12, <1>13 DEF ConsoleInv

\* One tab's scrollback or load changes.
LEMMA PageMoves ==
  ASSUME ConsoleInv, NEW t \in Tab, NEW scroll, NEW load,
         lines' = [lines EXCEPT ![t] = scroll] \/ (lines' = lines /\ scroll = lines[t]),
         reading' = [reading EXCEPT ![t] = load] \/ (reading' = reading /\ load = reading[t]),
         scroll \in Seq(Entry \cup ErrorLine), TrueTo(scroll, ran),
         load.at = "read" => load.history \in Seq(Entry) /\ TrueTo(load.history, ran), ran' = ran
  PROVE  PagesInv'
<1>1. /\ DOMAIN lines' = Tab /\ DOMAIN reading' = Tab /\ lines'[t] = scroll /\ reading'[t] = load
      /\ \A u \in Tab: u # t => lines'[u] = lines[u] /\ reading'[u] = reading[u]
  BY DEF ConsoleInv, PagesInv
<1>2. ASSUME NEW u \in Tab
      PROVE  /\ lines'[u] \in Seq(Entry \cup ErrorLine) /\ TrueTo(lines'[u], ran)
             /\ reading'[u].at = "read"
                  => reading'[u].history \in Seq(Entry) /\ TrueTo(reading'[u].history, ran)
  <2>1. CASE u = t  BY <1>1, <2>1
  <2>2. CASE u # t  BY <1>1, <2>2 DEF ConsoleInv, PagesInv
  <2> QED  BY <2>1, <2>2
<1> QED  BY <1>1, <1>2 DEF PagesInv, TrueTo, TrueEntry

\* A line more in the scrollback.
LEMMA OneLineMore ==
  ASSUME NEW s \in Seq(Entry \cup ErrorLine), NEW e \in Entry \cup ErrorLine, NEW run,
         TrueTo(s, run), TrueEntry(e, run)
  PROVE  Append(s, e) \in Seq(Entry \cup ErrorLine) /\ TrueTo(Append(s, e), run)
<1>1. PICK r: r = Append(s, e)  OBVIOUS
<1>2. /\ r \in Seq(Entry \cup ErrorLine) /\ Len(r) = Len(s) + 1 /\ r[Len(s) + 1] = e
      /\ \A i \in 1 .. Len(s): r[i] = s[i]
  BY <1>1, AppendProperties
<1>3. ASSUME NEW i \in 1 .. Len(r) PROVE TrueEntry(r[i], run)
  <2>1. i \in 1 .. Len(s) \/ i = Len(s) + 1  BY <1>2
  <2>2. \A j \in 1 .. Len(s): TrueEntry(s[j], run)  BY DEF TrueTo
  <2> QED  BY <1>2, <2>1, <2>2
<1> QED  BY <1>1, <1>2, <1>3 DEF TrueTo

LEMMA IdleIsFine ==
  ASSUME NEW n, NEW run, NEW cause
  PROVE  FineCommand(Prompt!Idle, n, run, cause) /\ ~UnderWay(Prompt!Idle)
<1>1. Prompt!Idle.at = "idle"  BY DEF Prompt!Idle
<1> QED  BY <1>1 DEF FineCommand, UnderWay, Command

LEMMA ShowsKeeps ==
  ASSUME ConsoleInv, NEW t \in Tab, Prompt!Shows(t)
  PROVE  ConsoleInv'
<1>1. PICK b: b = commands[t]  OBVIOUS
<1>2. FineCommand(b, sent, ran, doubted) /\ b \in Command
  BY <1>1 DEF ConsoleInv, CommandsInv, FineCommand
<1>3. /\ Prompt!Set(t, Prompt!Idle)
      /\ UNCHANGED <<has, ran, doubted, works, missing, entries, sent>>
  BY DEF Prompt!Shows, Prompt!Receive, Prompt!ReceiveError, Prompt!gameVars, Prompt!memory
<1>4. PICK e \in Entry \cup ErrorLine: TrueEntry(e, ran) /\ Prompt!Line(t, e)
  <2>1. CASE Prompt!Receive(t)
    <3>1. b.at = "recorded" /\ Prompt!Line(t, b.entry)  BY <1>1, <2>1 DEF Prompt!Receive, Prompt!At
    <3>2. b.entry \in Entry  BY <1>2, <3>1, Kinds DEF Recorded
    <3>3. TrueEntry(b.entry, ran)  BY <1>2, <3>1 DEF FineCommand
    <3> QED  BY <3>1, <3>2, <3>3
  <2>2. CASE Prompt!ReceiveError(t)
    <3>1. PICK e: e = [id |-> b.id, status |-> "error"]  OBVIOUS
    <3>2. b.at = "refused" /\ Prompt!Line(t, e)  BY <1>1, <2>2, <3>1 DEF Prompt!ReceiveError, Prompt!At
    <3>3. b.id \in Nat  BY <1>2, <3>2, Kinds
    <3>4. e \in ErrorLine /\ e.status = "error"  BY <3>1, <3>3 DEF ErrorLine
    <3> QED  BY <3>2, <3>4 DEF TrueEntry
  <2> QED  BY <2>1, <2>2 DEF Prompt!Shows
<1>5. CommandsInv' /\ EntriesInv'
  <2>1. FineCommand(Prompt!Idle, sent, ran', doubted')  BY IdleIsFine
  <2> QED  BY <1>3, <2>1, IdleIsFine, CommandMoves
<1>6. PagesInv'
  <2>1. PICK old \in Seq(Entry \cup ErrorLine): old = lines[t] /\ TrueTo(old, ran)
    BY DEF ConsoleInv, PagesInv
  <2>2. PICK scroll: scroll = Append(old, e)  OBVIOUS
  <2>3. scroll \in Seq(Entry \cup ErrorLine) /\ TrueTo(scroll, ran)  BY <1>4, <2>1, <2>2, OneLineMore
  <2>4. lines' = [lines EXCEPT ![t] = scroll]  BY <1>4, <2>1, <2>2 DEF Prompt!Line
  <2>5. PICK load: /\ reading' = [reading EXCEPT ![t] = load] \/ (reading' = reading /\ load = reading[t])
                   /\ load.at = "asked" \/ load = reading[t]
    BY DEF Prompt!Shows, Prompt!Receive, Prompt!ReceiveError, Prompt!Loading
  <2>6. load.at = "read" => load.history \in Seq(Entry) /\ TrueTo(load.history, ran)
    BY <2>5 DEF ConsoleInv, PagesInv
  <2> QED  BY <1>3, <2>3, <2>4, <2>5, <2>6, PageMoves
<1>7. GameInv'  BY <1>3 DEF ConsoleInv, GameInv
<1> QED  BY <1>5, <1>6, <1>7 DEF ConsoleInv

LEMMA LoadsKeep ==
  ASSUME ConsoleInv, NEW t \in Tab, Prompt!Loads(t) \/ Prompt!Mount(t) \/ Prompt!Clear(t)
  PROVE  ConsoleInv'
<1>1. UNCHANGED <<has, ran, doubted, works, missing, entries, sent, commands>>
  BY DEF Prompt!Loads, Prompt!ReadHistory, Prompt!Load, Prompt!LoadFails, Prompt!Mount, Prompt!Clear,
     Prompt!gameVars, Prompt!memory
<1>2. lines[t] \in Seq(Entry \cup ErrorLine) /\ TrueTo(lines[t], ran)  BY DEF ConsoleInv, PagesInv
<1>3. reading[t].at = "read" => reading[t].history \in Seq(Entry) /\ TrueTo(reading[t].history, ran)
  BY DEF ConsoleInv, PagesInv
<1>4. entries \in Seq(Entry) /\ TrueTo(entries, ran)  BY DEF ConsoleInv, EntriesInv
<1>5. PICK scroll, load:
        /\ lines' = [lines EXCEPT ![t] = scroll] \/ (lines' = lines /\ scroll = lines[t])
        /\ reading' = [reading EXCEPT ![t] = load] \/ (reading' = reading /\ load = reading[t])
        /\ \/ scroll = lines[t] \/ scroll = <<>>
           \/ reading[t].at = "read" /\ scroll = reading[t].history
        /\ \/ load = reading[t] \/ load.at \in {"none", "asked"}
           \/ load.at = "read" /\ load.history = entries
  <2>1. CASE Prompt!ReadHistory(t)
    <3>1. PICK load: load = [at |-> "read", history |-> entries]  OBVIOUS
    <3>2. reading' = [reading EXCEPT ![t] = load] /\ lines' = lines
      BY <2>1, <3>1 DEF Prompt!ReadHistory
    <3>3. load.at = "read" /\ load.history = entries  BY <3>1
    <3> QED  BY <3>2, <3>3
  <2>2. CASE Prompt!Load(t)
    <3>1. /\ reading[t].at = "read" /\ lines' = [lines EXCEPT ![t] = reading[t].history]
          /\ reading' = [reading EXCEPT ![t] = Prompt!NoLoad] /\ Prompt!NoLoad.at = "none"
      BY <2>2 DEF Prompt!Load, Prompt!NoLoad
    <3> QED  BY <3>1
  <2>3. CASE Prompt!LoadFails(t)
    <3>1. lines' = lines /\ reading' = [reading EXCEPT ![t] = Prompt!NoLoad] /\ Prompt!NoLoad.at = "none"
      BY <2>3 DEF Prompt!LoadFails, Prompt!NoLoad
    <3> QED  BY <3>1
  <2>4. CASE Prompt!Mount(t)
    <3>1. lines' = lines /\ reading' = [reading EXCEPT ![t] = Prompt!Loading] /\ Prompt!Loading.at = "asked"
      BY <2>4 DEF Prompt!Mount, Prompt!Loading
    <3> QED  BY <3>1
  <2>5. CASE Prompt!Clear(t)
    <3>1. lines' = [lines EXCEPT ![t] = <<>>] /\ reading' = reading  BY <2>5 DEF Prompt!Clear
    <3> QED  BY <3>1
  <2> QED  BY <2>1, <2>2, <2>3, <2>4, <2>5 DEF Prompt!Loads
<1>6. scroll \in Seq(Entry \cup ErrorLine) /\ TrueTo(scroll, ran)
  <2>1. CASE scroll = lines[t]  BY <1>2, <2>1
  <2>2. CASE scroll = <<>>
    <3>1. <<>> \in Seq(Entry \cup ErrorLine) /\ Len(<<>>) = 0  OBVIOUS
    <3> QED  BY <2>2, <3>1 DEF TrueTo
  <2>3. CASE reading[t].at = "read" /\ scroll = reading[t].history
    <3>1. scroll \in Seq(Entry) /\ TrueTo(scroll, ran)  BY <1>3, <2>3
    <3>2. Seq(Entry) \subseteq Seq(Entry \cup ErrorLine)
      <4>1. \A s \in Seq(Entry): s \in Seq(Entry \cup ErrorLine)  OBVIOUS
      <4> QED  BY <4>1
    <3> QED  BY <3>1, <3>2
  <2> QED  BY <1>5, <2>1, <2>2, <2>3
<1>7. load.at = "read" => load.history \in Seq(Entry) /\ TrueTo(load.history, ran)
  BY <1>3, <1>4, <1>5
<1>8. PagesInv'  BY <1>1, <1>5, <1>6, <1>7, PageMoves
<1>9. CommandsInv' /\ EntriesInv'  BY <1>1, RequestsStay
<1>10. GameInv'  BY <1>1 DEF ConsoleInv, GameInv
<1> QED  BY <1>8, <1>9, <1>10 DEF ConsoleInv

LEMMA EmptyHistory ==
  ASSUME entries' = <<>>
  PROVE  EntriesInv'
<1>1. <<>> \in Seq(Entry) /\ Len(<<>>) = 0  OBVIOUS
<1>2. HistoryLimit \in Nat  BY ConsoleConstants
<1>3. entries' \in Seq(Entry) /\ Len(entries') = 0 /\ Len(entries') <= HistoryLimit
  BY <1>1, <1>2
<1>4. \A i \in 1 .. Len(entries'): FALSE  BY <1>3
<1> QED  BY <1>3, <1>4 DEF EntriesInv, TrueTo

LEMMA ClearKeeps ==
  ASSUME ConsoleInv, NEW t \in Tab, Prompt!ClearEnds(t)
  PROVE  ConsoleInv'
<1>1. /\ entries' = <<>> \/ entries' = entries
      /\ UNCHANGED <<has, ran, doubted, works, missing, sent, commands, lines, reading>>
  BY DEF Prompt!ClearEnds, Prompt!gameVars
<1>2. EntriesInv'
  <2>1. CASE entries' = <<>>  BY <2>1, EmptyHistory
  <2>2. CASE entries' = entries  BY <1>1, <2>2, RequestsStay
  <2> QED  BY <1>1, <2>1, <2>2
<1>3. CommandsInv'
  <2>1. (\A u \in Tab: FineCommand(commands[u], sent, ran, doubted))'
    BY <1>1 DEF ConsoleInv, CommandsInv, FineCommand, UnderWay, TrueEntry
  <2> QED  BY <1>1, <2>1 DEF ConsoleInv, CommandsInv, UnderWay
<1>4. PagesInv'  BY <1>1, PagesStay
<1>5. GameInv'  BY <1>1 DEF ConsoleInv, GameInv
<1> QED  BY <1>2, <1>3, <1>4, <1>5 DEF ConsoleInv

LEMMA ConsoleRestarts ==
  ASSUME ConsoleInv, Prompt!BackendRestarts
  PROVE  ConsoleInv'
<1>1. /\ missing' = {} /\ entries' = <<>>
      /\ commands' = [t \in Tab |-> IF commands[t].at = "idle" THEN Prompt!Idle ELSE [at |-> "refused", id |-> 0]]
      /\ reading' = [t \in Tab |-> Prompt!NoLoad]
      /\ UNCHANGED <<has, ran, doubted, lines, sent>>
  BY DEF Prompt!BackendRestarts, Prompt!gameVars, Prompt!At
<1>2. ASSUME NEW t \in Tab
      PROVE  FineCommand(commands'[t], sent, ran, doubted) /\ ~UnderWay(commands'[t])
  <2>1. CASE commands'[t] = Prompt!Idle  BY <2>1, IdleIsFine
  <2>2. CASE commands'[t] = [at |-> "refused", id |-> 0]
    <3>1. commands'[t] \in Failed /\ commands'[t].at = "refused"  BY <2>2 DEF Failed
    <3> QED  BY <3>1 DEF FineCommand, UnderWay, Command
  <2> QED  BY <1>1, <2>1, <2>2
<1>3. CommandsInv'
  <2>1. (\A u \in Tab: FineCommand(commands[u], sent, ran, doubted) /\ ~UnderWay(commands[u]))'
    BY <1>1, <1>2 DEF FineCommand, UnderWay, TrueEntry
  <2> QED  BY <1>1, <2>1 DEF CommandsInv, UnderWay
<1>4. EntriesInv'  BY <1>1, EmptyHistory
<1>5. PagesInv'
  <2>1. \A t \in Tab: reading'[t].at = "none"  BY <1>1 DEF Prompt!NoLoad
  <2>2. \A t \in Tab: lines[t] \in Seq(Entry \cup ErrorLine) /\ TrueTo(lines[t], ran)
    BY DEF ConsoleInv, PagesInv
  <2>3. (\A t \in Tab: lines[t] \in Seq(Entry \cup ErrorLine) /\ TrueTo(lines[t], ran))'
    BY <1>1, <2>2 DEF TrueTo, TrueEntry
  <2>4. DOMAIN lines' = Tab /\ DOMAIN reading' = Tab  BY <1>1 DEF ConsoleInv, PagesInv
  <2> QED  BY <2>1, <2>3, <2>4 DEF PagesInv
<1>6. GameInv'  BY <1>1 DEF ConsoleInv, GameInv
<1> QED  BY <1>3, <1>4, <1>5, <1>6 DEF ConsoleInv

LEMMA ConsoleKeeps == ConsoleInv /\ [Prompt!Next]_consoleVars => ConsoleInv'
<1> SUFFICES ASSUME ConsoleInv, [Prompt!Next]_consoleVars PROVE ConsoleInv'  OBVIOUS
<1>1. CASE UNCHANGED consoleVars
  <2>1. UNCHANGED <<has, ran, doubted, missing, entries, sent, commands, lines, reading>>
    BY <1>1 DEF consoleVars
  <2>2. CommandsInv' /\ EntriesInv'  BY <2>1, RequestsStay
  <2>3. PagesInv'  BY <2>1, PagesStay
  <2>4. GameInv'  BY <2>1 DEF ConsoleInv, GameInv
  <2> QED  BY <2>2, <2>3, <2>4 DEF ConsoleInv
<1>2. ASSUME NEW t \in Tab, Prompt!Carried(t) PROVE ConsoleInv'
  BY <1>2, ServesKeeps, ShowsKeeps, LoadsKeep DEF Prompt!Carried
<1>3. ASSUME NEW t \in Tab, NEW verb \in Prompt!Verb, NEW args \in Prompt!Args, Prompt!Send(t, verb, args)
      PROVE  ConsoleInv'
  BY <1>3, SendKeeps
<1>4. ASSUME NEW t \in Tab, Prompt!Run(t) \/ Prompt!Mount(t) \/ Prompt!Clear(t) \/ Prompt!ClearEnds(t)
      PROVE  ConsoleInv'
  BY <1>4, RunKeeps, LoadsKeep, ClearKeeps
<1>5. CASE \/ Prompt!BackendRestarts \/ Prompt!GameStarts \/ Prompt!GameIsUp \/ Prompt!GameStops
           \/ Prompt!PackChanges
  BY <1>5, ConsoleRestarts, GameKeeps
<1> QED  BY <1>1, <1>2, <1>3, <1>4, <1>5 DEF Prompt!Next

LEMMA ConsoleApart == [Next]_vars => [Prompt!Next]_consoleVars
<1> SUFFICES ASSUME [Next]_vars PROVE [Prompt!Next]_consoleVars  OBVIOUS
<1>1. CASE ConsoleStep(Prompt!Next)  BY <1>1 DEF ConsoleStep
<1>2. CASE OperationsStep(Operations!Next) \/ FormsStep(Forms!Next) \/ LoginStep \/ HistoryStep \/ CardStep
  BY <1>2 DEF OperationsStep, FormsStep, LoginStep, HistoryStep, CardStep
<1>3. CASE CardStops \/ UNCHANGED vars  BY <1>3 DEF CardStops, vars
<1> QED  BY <1>1, <1>2, <1>3 DEF Next

\* The safety part of ConsoleHolds.  For any tabs, commands and packs, through
\* boots, stops, timeouts and restarts: a command is refused only if the game
\* had cause to call it unknown, what the scrollback shows as done was done,
\* and the history has each command once.
THEOREM ConsoleIsTrue ==
  Spec => [](Prompt!RefusedForAReason /\ Prompt!ShownWasRun /\ Prompt!HistoryIsPlain)
<1>1. Init => ConsoleInv
  BY ConsoleBegins DEF Init
<1>2. ConsoleInv /\ [Next]_vars => ConsoleInv'
  BY ConsoleApart, ConsoleKeeps
<1>3. ConsoleInv => Prompt!RefusedForAReason /\ Prompt!ShownWasRun /\ Prompt!HistoryIsPlain
  <2> SUFFICES ASSUME ConsoleInv
               PROVE  Prompt!RefusedForAReason /\ Prompt!ShownWasRun /\ Prompt!HistoryIsPlain
    OBVIOUS
  <2>1. Prompt!RefusedForAReason  BY DEF ConsoleInv, GameInv, Prompt!RefusedForAReason
  <2>2. Prompt!ShownWasRun
    <3>1. \A t \in Tab: DOMAIN lines[t] = 1 .. Len(lines[t]) /\ TrueTo(lines[t], ran)
      BY LenProperties DEF ConsoleInv, PagesInv
    <3> QED  BY <3>1 DEF TrueTo, TrueEntry, Prompt!ShownWasRun
  <2>3. Prompt!HistoryIsPlain
    <3>1. DOMAIN entries = 1 .. Len(entries)  BY LenProperties DEF ConsoleInv, EntriesInv
    <3> QED  BY <3>1 DEF ConsoleInv, EntriesInv, Prompt!HistoryIsPlain
  <2> QED  BY <2>1, <2>2, <2>3
<1> QED
  BY <1>1, <1>2, <1>3, PTL DEF Spec

=============================================================================
