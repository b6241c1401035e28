-------------------------- MODULE RankedRecallProofs --------------------------
(***************************************************************************)
(* Proofs about activations and the ranked recall: what decay leaves, that *)
(* cues go before activations, and that the claims of recent journals are  *)
(* found. That the ranked recall implements the store, so that what is     *)
(* proved of the store holds here, is in KernelStoreRefinement.            *)
(***************************************************************************)
EXTENDS KernelStoreRefinement, WellFoundedInduction

-----------------------------------------------------------------------------
(* Powers of two, as the numbers of subsets                                *)

\* How many subsets n elements have.
LEMMA Subsets ==
  ASSUME NEW S, IsFiniteSet(S), NEW n \in Nat, Cardinality(S) = n
  PROVE  IsFiniteSet(SUBSET S) /\ Cardinality(SUBSET S) = 2 ^ n
<1>1. IsFiniteSet(SUBSET S) /\ Cardinality(SUBSET S) = 2 ^ Cardinality(S)
  BY FS_SUBSET
<1> QED BY <1>1

\* Powers of two are positive.
LEMMA PowerIsPositive ==
  ASSUME NEW n \in Nat PROVE 2 ^ n \in Nat \ {0}
<1>1. IsFiniteSet(1 .. n) /\ Cardinality(1 .. n) = n
  BY FS_Interval
<1>2. IsFiniteSet(SUBSET (1 .. n)) /\ Cardinality(SUBSET (1 .. n)) = 2 ^ n
  BY <1>1, Subsets
<1>3. Cardinality(SUBSET (1 .. n)) \in Nat /\ Cardinality(SUBSET (1 .. n)) # 0
  <2>1. {} \in SUBSET (1 .. n)
    OBVIOUS
  <2>2. SUBSET (1 .. n) # {}
    BY <2>1
  <2> QED BY <1>2, <2>2, FS_EmptySet, FS_CardinalityType
<1> QED BY <1>2, <1>3

\* The empty set has one subset.
LEMMA PowerOfZero == 2 ^ 0 = 1
<1>1. IsFiniteSet({}) /\ Cardinality({}) = 0
  BY FS_EmptySet
<1>2. Cardinality(SUBSET {}) = 2 ^ 0
  BY <1>1, Subsets
<1>3. SUBSET {} = {{}}
  OBVIOUS
<1>4. Cardinality({{}}) = 1
  BY FS_Singleton
<1> QED BY <1>2, <1>3, <1>4

\* A subset of a + b elements is one of the first a and one of the last b.
LEMMA PowerOfSum ==
  ASSUME NEW a \in Nat, NEW b \in Nat
  PROVE  2 ^ (a + b) = 2 ^ a * 2 ^ b
<1> DEFINE A == 1 .. a
           B == a + 1 .. a + b
           C == 1 .. a + b
           split == [X \in SUBSET C |-> <<X \cap A, X \cap B>>]
<1>1. /\ IsFiniteSet(A) /\ Cardinality(A) = a
      /\ IsFiniteSet(B) /\ Cardinality(B) = b
      /\ IsFiniteSet(C) /\ Cardinality(C) = a + b
  <2>1. IsFiniteSet(A) /\ Cardinality(A) = a
    BY FS_Interval
  <2>2. IsFiniteSet(B) /\ Cardinality(B) = IF a + 1 > a + b THEN 0 ELSE (a + b) - (a + 1) + 1
    BY FS_Interval
  <2>3. IsFiniteSet(C) /\ Cardinality(C) = IF 1 > a + b THEN 0 ELSE (a + b) - 1 + 1
    BY FS_Interval
  <2>4. Cardinality(B) = b
    BY <2>2
  <2>5. Cardinality(C) = a + b
    BY <2>3
  <2> QED BY <2>1, <2>2, <2>3, <2>4, <2>5
<1>2. /\ IsFiniteSet(SUBSET A) /\ Cardinality(SUBSET A) = 2 ^ a
      /\ IsFiniteSet(SUBSET B) /\ Cardinality(SUBSET B) = 2 ^ b
      /\ IsFiniteSet(SUBSET C) /\ Cardinality(SUBSET C) = 2 ^ (a + b)
  <2>1. a + b \in Nat
    OBVIOUS
  <2> QED BY <1>1, <2>1, Subsets
<1>3. A \cup B = C /\ A \cap B = {}
  OBVIOUS
<1> HIDE DEF A, B, C
<1>4. split \in [SUBSET C -> (SUBSET A) \X (SUBSET B)]
  OBVIOUS
<1>5. ASSUME NEW X \in SUBSET C, NEW Y \in SUBSET C, split[X] = split[Y] PROVE X = Y
  <2>1. X \cap A = Y \cap A /\ X \cap B = Y \cap B
    BY <1>5
  <2> QED BY <1>3, <2>1
<1>6. ASSUME NEW z \in (SUBSET A) \X (SUBSET B) PROVE \E X \in SUBSET C : split[X] = z
  <2> DEFINE X == z[1] \cup z[2]
  <2>1. z = <<z[1], z[2]>> /\ z[1] \subseteq A /\ z[2] \subseteq B
    OBVIOUS
  <2>2. X \in SUBSET C /\ X \cap A = z[1] /\ X \cap B = z[2]
    BY <1>3, <2>1
  <2> HIDE DEF X
  <2>3. split[X] = <<z[1], z[2]>>
    BY <2>2
  <2> QED BY <2>1, <2>2, <2>3
<1>7. split \in Bijection(SUBSET C, (SUBSET A) \X (SUBSET B))
  BY <1>4, <1>5, <1>6 DEF Bijection, Injection, IsInjective, Surjection
<1>8. Cardinality((SUBSET A) \X (SUBSET B)) = Cardinality(SUBSET C)
  BY <1>2, <1>7, FS_Bijection DEF ExistsBijection
<1>9. Cardinality((SUBSET A) \X (SUBSET B)) = Cardinality(SUBSET A) * Cardinality(SUBSET B)
  BY <1>2, FS_Product
<1> QED BY <1>2, <1>8, <1>9

\* Division undoes multiplication.
LEMMA ExactDivision ==
  ASSUME NEW x \in Nat, NEW p \in Nat \ {0} PROVE (x * p) \div p = x
OBVIOUS

\* How products are regrouped.
LEMMA Products ==
  ASSUME NEW x \in Nat, NEW y \in Nat, NEW z \in Nat
  PROVE  x * y \in Nat /\ (x * y) * z = x * (y * z) /\ x * (y + z) = x * y + x * z /\ x * y = y * x
OBVIOUS

-----------------------------------------------------------------------------
(* Activations                                                             *)

\* x is a number of times 2^n.
Multiple(x, n) == \E c \in Nat : x = c * 2 ^ n

\* Sums and products of multiples.
LEMMA MultiplesAdd ==
  ASSUME NEW n \in Nat, NEW x \in Nat, NEW y \in Nat, Multiple(x, n), Multiple(y, n)
  PROVE  Multiple(x + y, n)
<1> DEFINE u == 2 ^ n
<1>1. u \in Nat
  BY PowerIsPositive
<1>2. PICK a \in Nat : x = a * u
  BY DEF Multiple
<1>3. PICK b \in Nat : y = b * u
  BY DEF Multiple
<1> HIDE DEF u
<1>4. x + y = (a + b) * u /\ a + b \in Nat
  BY <1>1, <1>2, <1>3
<1> QED BY <1>4 DEF Multiple, u

LEMMA MultiplesScale ==
  ASSUME NEW n \in Nat, NEW k \in Nat, NEW x \in Nat, Multiple(x, n)
  PROVE  Multiple(k * x, n)
<1> DEFINE u == 2 ^ n
<1>1. u \in Nat
  BY PowerIsPositive
<1>2. PICK a \in Nat : x = a * u
  BY DEF Multiple
<1> HIDE DEF u
<1>3. k * x = (k * a) * u /\ k * a \in Nat
  BY <1>1, <1>2, Products
<1> QED BY <1>3 DEF Multiple, u

\* A multiple of a power is one of each lower power.
LEMMA MultiplesNest ==
  ASSUME NEW n \in Nat, NEW k \in 0 .. n, NEW x \in Nat, Multiple(x, n)
  PROVE  Multiple(x, k)
<1> DEFINE j == n - k
           u == 2 ^ k
           v == 2 ^ j
<1>1. j \in Nat /\ k \in Nat /\ j + k = n
  OBVIOUS
<1> HIDE DEF j
<1>2. u \in Nat /\ v \in Nat /\ 2 ^ n = v * u
  BY <1>1, PowerIsPositive, PowerOfSum
<1>3. PICK a \in Nat : x = a * 2 ^ n
  BY DEF Multiple
<1>4. x = a * (v * u)
  BY <1>2, <1>3
<1> HIDE DEF u, v
<1>5. x = (a * v) * u /\ a * v \in Nat
  BY <1>2, <1>4, Products
<1> QED BY <1>5 DEF Multiple, u

Heat == [value : Nat, at : Nat]

\* An activation was halved exactly, and can be halved until the clock ends.
HeatOK(h, r) ==
  /\ h.at <= clock /\ r.at <= h.at
  /\ h.value * 2 ^ (h.at - r.at) = r.value
  /\ Multiple(h.value, MaxClock - h.at)
  /\ h.value <= Ceiling

HeatInv ==
  /\ clock \in 0 .. MaxClock
  /\ heat \in [Scopes -> [Memory -> Heat]] /\ raised \in [Scopes -> [Memory -> Heat]]
  /\ \A s \in Scopes, m \in Memory : HeatOK(heat[s][m], raised[s][m])

\* The unit of activations is a power of two.
LEMMA UnitIsPositive == Unit \in Nat \ {0} /\ Ceiling \in Nat
<1>1. Unit \in Nat \ {0}
  BY MaxClockOK, PowerIsPositive DEF Unit
<1> QED BY <1>1 DEF Ceiling

\* Decay halves once for each half-life since the last write.
LEMMA DecayIsExact ==
  ASSUME NEW h \in Heat, NEW r \in Heat, clock \in 0 .. MaxClock, HeatOK(h, r), NEW now \in 0 .. clock
  PROVE  Decayed(h, now) \in Heat /\ HeatOK(Decayed(h, now), r)
<1>1. CASE now <= h.at \/ h.value = 0
  BY <1>1, Zenon DEF Decayed
<1>2. CASE ~(now <= h.at \/ h.value = 0)
  <2> DEFINE a == h.at
             b == r.at
             d == now - a
             e == a - b
             f == MaxClock - now
             u == 2 ^ d
             v == 2 ^ e
             w == 2 ^ f
             x == h.value
             y == x \div u
  <2>1. /\ a \in Nat /\ b \in Nat /\ now \in Nat /\ x \in Nat /\ r.value \in Nat
        /\ a < now /\ now <= clock /\ clock <= MaxClock /\ b <= a /\ MaxClock \in Nat
    BY <1>2, MaxClockOK DEF Heat, HeatOK
  <2>2. Decayed(h, now) = [value |-> y, at |-> now]
    BY <1>2, Zenon DEF Decayed
  <2>3. x * v = r.value /\ Multiple(x, MaxClock - a) /\ x <= Ceiling
    BY DEF HeatOK
  <2> HIDE DEF a, b, x
  <2>4. d \in Nat /\ e \in Nat /\ f \in Nat /\ f + d = MaxClock - a /\ d + e = now - b /\ MaxClock - a \in Nat
    BY <2>1
  <2>5. /\ u \in Nat \ {0} /\ v \in Nat /\ w \in Nat
        /\ 2 ^ (MaxClock - a) = w * u /\ 2 ^ (now - b) = u * v
    <3> HIDE DEF d, e, f
    <3>1. 2 ^ (f + d) = w * u /\ 2 ^ (d + e) = u * v
      BY <2>4, PowerOfSum
    <3> QED BY <2>4, <3>1, PowerIsPositive
  <2>6. PICK c \in Nat : x = c * 2 ^ (MaxClock - a)
    BY <2>3 DEF Multiple
  <2>7. x = c * (w * u)
    BY <2>5, <2>6
  <2> HIDE DEF u, v, w
  <2>8. x = (c * w) * u /\ c * w \in Nat
    BY <2>5, <2>7, Products
  <2>9. y = c * w
    BY <2>5, <2>8, ExactDivision
  <2> HIDE DEF y
  <2>10. y * (u * v) = r.value /\ y \in Nat
    <3>1. (y * u) * v = y * (u * v)
      BY <2>5, <2>8, <2>9, Products
    <3> QED BY <2>3, <2>8, <2>9, <3>1
  <2>11. y <= x
    BY <2>5, <2>8, <2>9
  <2>12. y <= Ceiling
    BY <2>1, <2>3, <2>10, <2>11, UnitIsPositive
  <2>13. Multiple(y, MaxClock - now)
    BY <2>9 DEF Multiple, w, f
  <2>14. y * 2 ^ (now - b) = r.value
    BY <2>5, <2>10
  <2> DEFINE g == [value |-> y, at |-> now]
  <2>15. g \in Heat /\ g.value = y /\ g.at = now
    BY <2>1, <2>10 DEF Heat
  <2> HIDE DEF g
  <2>16. HeatOK(g, r)
    BY <2>1, <2>12, <2>13, <2>14, <2>15 DEF HeatOK, b
  <2> QED BY <2>2, <2>15, <2>16 DEF g
<1> QED BY <1>1, <1>2

\* A raise adds whole tenths, up to a whole.
LEMMA RaiseIsExact ==
  ASSUME NEW h \in Heat, NEW r \in Heat, clock \in 0 .. MaxClock, HeatOK(h, r), NEW n \in Nat \ {0}, NEW row
  PROVE  RaisedBy(row, h, n, clock) \in Heat /\ HeatOK(RaisedBy(row, h, n, clock), RaisedBy(row, h, n, clock))
<1> DEFINE k == MaxClock - clock
           x == h.value
           y == Fresh + (n - 1) * Step
           z == x + n * Step
           v == AtMost(IF row = None THEN y ELSE z, Ceiling)
           g == [value |-> v, at |-> clock]
<1>1. k \in Nat /\ clock \in Nat /\ MaxClock \in Nat /\ k \in 0 .. MaxClock
  BY MaxClockOK
<1>2. x \in Nat /\ h.at \in Nat /\ h.at <= clock /\ Multiple(x, MaxClock - h.at)
  BY DEF Heat, HeatOK
<1>3. Multiple(x, k)
  <2>1. MaxClock - h.at \in Nat /\ k \in 0 .. MaxClock - h.at
    BY <1>1, <1>2
  <2> QED BY <1>2, <2>1, MultiplesNest
<1>4. Unit \in Nat /\ Multiple(Unit, k)
  <2>1. Multiple(Unit, MaxClock)
    <3>1. Unit = 1 * 2 ^ MaxClock
      BY UnitIsPositive DEF Unit
    <3> QED BY <3>1 DEF Multiple
  <2> QED BY <1>1, <2>1, UnitIsPositive, MultiplesNest
<1>5. Fresh \in Nat /\ Multiple(Fresh, k) /\ Step \in Nat /\ Multiple(Step, k) /\ Ceiling \in Nat /\ Multiple(Ceiling, k)
  <2>1. Multiple(45 * Unit, k) /\ Multiple(10 * Unit, k) /\ Multiple(95 * Unit, k)
    BY <1>1, <1>4, MultiplesScale
  <2>2. 45 * Unit \in Nat /\ 10 * Unit \in Nat /\ 95 * Unit \in Nat
    BY <1>4
  <2> QED BY <2>1, <2>2 DEF Fresh, Step, Ceiling
<1>6. (n - 1) * Step \in Nat /\ Multiple((n - 1) * Step, k) /\ n * Step \in Nat /\ Multiple(n * Step, k)
  <2>1. n - 1 \in Nat /\ n \in Nat
    OBVIOUS
  <2> QED BY <1>1, <1>5, <2>1, MultiplesScale, Products
<1>7. y \in Nat /\ Multiple(y, k) /\ z \in Nat /\ Multiple(z, k)
  <2> DEFINE a == (n - 1) * Step
             b == n * Step
  <2>1. a \in Nat /\ Multiple(a, k) /\ b \in Nat /\ Multiple(b, k)
    BY <1>6
  <2> HIDE DEF a, b, x
  <2>2. Multiple(Fresh + a, k) /\ Multiple(x + b, k)
    BY <1>1, <1>2, <1>3, <1>5, <2>1, MultiplesAdd
  <2>3. Fresh + a \in Nat /\ x + b \in Nat
    BY <1>2, <1>5, <2>1
  <2> QED BY <2>2, <2>3 DEF a, b
<1> HIDE DEF y, z
<1>8. v \in Nat /\ v <= Ceiling /\ Multiple(v, k)
  BY <1>5, <1>7 DEF AtMost
<1>9. RaisedBy(row, h, n, clock) = g
  BY DEF RaisedBy, y, z
<1>10. g \in Heat /\ g.value = v /\ g.at = clock
  BY <1>1, <1>8 DEF Heat
<1> HIDE DEF v, g
<1>11. v * 2 ^ (clock - clock) = v
  BY <1>1, <1>8, PowerOfZero
<1>12. HeatOK(g, g)
  BY <1>1, <1>8, <1>10, <1>11 DEF HeatOK
<1> QED BY <1>9, <1>10, <1>12

\* A memory that was never raised has no activation.
LEMMA ColdIsExact == ASSUME clock \in 0 .. MaxClock PROVE Cold \in Heat /\ HeatOK(Cold, Cold)
<1>1. Cold \in Heat /\ Cold.value = 0 /\ Cold.at = 0
  BY DEF Cold, Heat
<1>2. 0 * 2 ^ (0 - 0) = 0
  BY PowerOfZero
<1>3. Multiple(0, MaxClock - 0)
  <2>1. 2 ^ MaxClock \in Nat /\ MaxClock - 0 = MaxClock
    BY MaxClockOK, PowerIsPositive
  <2>2. 0 = 0 * 2 ^ (MaxClock - 0)
    BY <2>1
  <2> QED BY <2>2 DEF Multiple
<1>4. 0 <= clock /\ 0 <= Ceiling
  BY MaxClockOK, UnitIsPositive
<1> QED BY <1>1, <1>2, <1>3, <1>4 DEF HeatOK

\* A finite proposal hits a memory a number of times.
LEMMA HitsAreCounted ==
  ASSUME NEW p \in Proposals, NEW m, Hits(p, m) # {}
  PROVE  Cardinality(Hits(p, m)) \in Nat \ {0}
<1>1. Hits(p, m) \in SUBSET CitedClaim
  BY ConstantsOK DEF Hits, Proposal
<1>2. IsFiniteSet(Hits(p, m))
  BY <1>1, FiniteData, FS_Subset
<1> QED BY <1>2, FS_CardinalityType, FS_EmptySet

\* At first every activation is cold.
LEMMA InitHeatInv == HotInit => HeatInv
<1> SUFFICES ASSUME HotInit PROVE HeatInv
  OBVIOUS
<1>1. clock \in 0 .. MaxClock /\ heat = [s \in Scopes |-> [m \in Memory |-> Cold]] /\ raised = heat
  BY MaxClockOK DEF HotInit
<1>2. Cold \in Heat /\ HeatOK(Cold, Cold)
  BY <1>1, ColdIsExact
<1> QED BY <1>1, <1>2 DEF HeatInv

\* A later clock does not disturb what is known of an activation.
LEMMA HeatOKLater ==
  ASSUME NEW h \in Heat, NEW r \in Heat, HeatOK(h, r), clock \in Nat, clock' \in Nat, clock <= clock'
  PROVE  HeatOK(h, r)'
BY DEF HeatOK, Heat

\* Raises start the count of half-lives anew, maintenance halves exactly, a purge
\* leaves cold activations, and every other step leaves them alone.
LEMMA HeatNextKeepsInv == HeatInv /\ [RankedNext]_allVars => HeatInv'
<1> SUFFICES ASSUME HeatInv, [RankedNext]_allVars PROVE HeatInv'
  OBVIOUS
<1>0. /\ clock \in 0 .. MaxClock /\ clock \in Nat
      /\ heat \in [Scopes -> [Memory -> Heat]] /\ raised \in [Scopes -> [Memory -> Heat]]
      /\ \A s \in Scopes, m \in Memory : /\ heat[s][m] \in Heat /\ raised[s][m] \in Heat
                                         /\ HeatOK(heat[s][m], raised[s][m])
  BY MaxClockOK DEF HeatInv
<1>1. CASE Pass
  <2>1. clock' \in 0 .. MaxClock /\ clock' \in Nat /\ clock <= clock' /\ heat' = heat /\ raised' = raised
    BY <1>0, <1>1, MaxClockOK DEF Pass
  <2>2. ASSUME NEW s \in Scopes, NEW m \in Memory PROVE HeatOK(heat[s][m], raised[s][m])'
    BY <1>0, <2>1, HeatOKLater DEF HeatOK
  <2> QED BY <1>0, <2>1, <2>2 DEF HeatInv
\* What is left to show of a step that only touches the memories of one scope.
<1>2. ASSUME NEW s \in Scopes, clock' = clock,
             NEW h \in [Memory -> Heat], NEW r \in [Memory -> Heat],
             heat' = [heat EXCEPT ![s] = h], raised' = [raised EXCEPT ![s] = r],
             \A m \in Memory : HeatOK(h[m], r[m])
      PROVE  HeatInv'
  <2>1. heat' \in [Scopes -> [Memory -> Heat]] /\ raised' \in [Scopes -> [Memory -> Heat]]
    BY <1>0, <1>2
  <2>2. ASSUME NEW x \in Scopes, NEW m \in Memory PROVE HeatOK(heat'[x][m], raised'[x][m])
    <3>1. CASE x = s
      BY <1>0, <1>2, <3>1
    <3>2. CASE x # s
      BY <1>0, <1>2, <3>2
    <3> QED BY <3>1, <3>2
  <2>3. \A x \in Scopes, m \in Memory : HeatOK(heat[x][m], raised[x][m])'
    BY <1>2, <2>2 DEF HeatOK
  <2> QED BY <1>0, <1>2, <2>1, <2>3 DEF HeatInv
<1>3. ASSUME NEW s \in Scopes, NEW d \in Days, NEW p \in Proposals, HotSaveJournal(s, d, p)
      PROVE  HeatInv'
  <2> DEFINE hit == {m \in Memory : /\ ~SameDigest(s, d, p)
                                    /\ Hits(p, m) # {}
                                    /\ ~TerminalMemory(s, m)}
             Hot(m) == RaisedBy(memories[s][m], heat[s][m], Cardinality(Hits(p, m)), clock)
             h == [m \in Memory |-> IF m \in hit THEN Hot(m) ELSE heat[s][m]]
             r == [m \in Memory |-> IF m \in hit THEN heat'[s][m] ELSE raised[s][m]]
  <2>1. clock' = clock /\ heat' = [heat EXCEPT ![s] = h] /\ raised' = [raised EXCEPT ![s] = r]
    BY <1>3 DEF HotSaveJournal, SaveTimes
  <2>2. ASSUME NEW m \in hit PROVE Hot(m) \in Heat /\ HeatOK(Hot(m), Hot(m))
    <3>1. Cardinality(Hits(p, m)) \in Nat \ {0}
      BY HitsAreCounted
    <3> QED BY <1>0, <3>1, RaiseIsExact
  <2>3. hit \subseteq Memory
    OBVIOUS
  <2>4. heat'[s] = h /\ \A m \in Memory : r[m] = IF m \in hit THEN h[m] ELSE raised[s][m]
    BY <1>0, <2>1
  <2> HIDE DEF Hot, hit
  <2>5. \A m \in Memory : h[m] = IF m \in hit THEN Hot(m) ELSE heat[s][m]
    OBVIOUS
  <2>6. h = [m \in Memory |-> h[m]] /\ r = [m \in Memory |-> r[m]]
    OBVIOUS
  <2> HIDE DEF h, r
  <2>7. \A m \in Memory : h[m] \in Heat /\ r[m] \in Heat /\ HeatOK(h[m], r[m])
    BY <1>0, <2>2, <2>4, <2>5
  <2>8. h \in [Memory -> Heat] /\ r \in [Memory -> Heat]
    BY <2>6, <2>7
  <2> QED BY <1>2, <2>1, <2>7, <2>8
<1>4. ASSUME NEW s \in Scopes, NEW t \in Times, NEW id \in OpIds, HotRetainPayloads(s, t, id)
      PROVE  HeatInv'
  <2>1. PICK now \in 0 .. clock :
          heat' = [heat EXCEPT ![s] = [m \in Memory |->
             IF memories[s][m] # None /\ memories[s][m].state = "active"
               THEN Decayed(heat[s][m], now) ELSE heat[s][m]]]
    BY <1>4 DEF HotRetainPayloads, RetainTimes
  <2> DEFINE h == [m \in Memory |-> IF memories[s][m] # None /\ memories[s][m].state = "active"
                                    THEN Decayed(heat[s][m], now) ELSE heat[s][m]]
             r == raised[s]
  <2>2. clock' = clock /\ raised' = raised
    BY <1>4 DEF HotRetainPayloads
  <2>3. raised' = [raised EXCEPT ![s] = r]
    BY <1>0, <2>2
  <2>4. \A m \in Memory : Decayed(heat[s][m], now) \in Heat /\ HeatOK(Decayed(heat[s][m], now), r[m])
    BY <1>0, DecayIsExact
  <2>5. \A m \in Memory : h[m] \in Heat /\ HeatOK(h[m], r[m])
    BY <1>0, <2>4
  <2>6. h = [m \in Memory |-> h[m]]
    OBVIOUS
  <2>7. heat' = [heat EXCEPT ![s] = h]
    BY <2>1
  <2> HIDE DEF h
  <2>8. h \in [Memory -> Heat]
    BY <2>5, <2>6
  <2>9. r \in [Memory -> Heat]
    BY <1>0
  <2> HIDE DEF r
  <2> QED BY <1>2, <2>2, <2>3, <2>5, <2>7, <2>8, <2>9
<1>5. ASSUME NEW s \in Scopes, NEW id \in OpIds, HotPurgeScope(s, id)
      PROVE  HeatInv'
  <2> DEFINE h == [m \in Memory |-> Cold]
  <2>1. clock' = clock /\ heat' = [heat EXCEPT ![s] = h] /\ raised' = [raised EXCEPT ![s] = heat'[s]]
    BY <1>5 DEF HotPurgeScope
  <2>2. raised' = [raised EXCEPT ![s] = h]
    BY <1>0, <2>1
  <2>3. h \in [Memory -> Heat] /\ \A m \in Memory : HeatOK(h[m], h[m])
    BY <1>0, ColdIsExact
  <2> HIDE DEF h
  <2> QED BY <1>2, <2>1, <2>2, <2>3
<1>6. CASE UNCHANGED heatVars
  BY <1>6 DEF heatVars, HeatInv, HeatOK
<1>7. CASE HotNext
  BY <1>1, <1>3, <1>4, <1>5, <1>6, <1>7 DEF HotNext, Unheated
<1>8. CASE \E s \in Scopes, q \in Requests : RankedRecall(s, q)
  BY <1>6, <1>8 DEF RankedRecall
<1>9. CASE UNCHANGED allVars
  BY <1>6, <1>9 DEF allVars
<1> QED BY <1>7, <1>8, <1>9 DEF RankedNext

\* The invariant holds of the store with activations, and with ranked recalls.
LEMMA HeatInvHolds == (HotSpec => []HeatInv) /\ (RankedSpec => []HeatInv)
<1>1. HeatInv /\ [HotNext]_allVars => HeatInv'
  BY HeatNextKeepsInv DEF RankedNext
<1> QED BY <1>1, InitHeatInv, HeatNextKeepsInv, PTL DEF HotSpec, RankedSpec

\* For any number of memories, claims and runs of maintenance, and a clock of any
\* length: a memory lost exactly the half-lives between its last raise and its last
\* decay, whenever those runs read the clock (decay_active_memories).
THEOREM DecayHasNoMemory == HotSpec => []DecayIsMemoryless
<1>1. HeatInv => DecayIsMemoryless
  BY DEF HeatInv, HeatOK, DecayIsMemoryless
<1> QED BY <1>1, HeatInvHolds, PTL

-----------------------------------------------------------------------------
(* Cues before activation                                                  *)

\* The cues of a request that are found are finitely many.
LEMMA MatchedIsNat ==
  ASSUME NEW q \in Requests, NEW titles, NEW texts, NEW ids
  PROVE  Matched(q, titles, texts, ids) \in Nat
<1> DEFINE M == {c \in q.cues : \/ FoundIn[c].titles \cap titles # {}
                                \/ FoundIn[c].texts \cap texts # {}
                                \/ FoundIn[c].ids \cap ids # {}}
<1>1. q.cues \in SUBSET Cues
  BY RecallOK DEF Request
<1>2. M \in SUBSET Cues
  BY <1>1
<1>3. Cardinality(M) \in Nat
  BY <1>2, FinitelyMany, FS_Subset, FS_CardinalityType
<1> QED BY <1>3 DEF Matched

\* In tenths, an activation is at most ten.
LEMMA TenthsAreFew ==
  ASSUME NEW v \in Nat, v <= Ceiling
  PROVE  ((5 * Unit + v) \div (10 * Unit)) \in 0 .. 10
<1>1. Unit \in Nat \ {0} /\ Ceiling = 95 * Unit
  BY UnitIsPositive DEF Ceiling
<1> DEFINE a == 5 * Unit + v
           b == 10 * Unit
<1>2. a \in Nat /\ b \in Nat \ {0} /\ a <= 10 * b
  BY <1>1
<1>3. a \div b \in Int /\ b * (a \div b) <= a /\ a < b * ((a \div b) + 1)
  <2> HIDE DEF a, b
  <2> QED BY <1>2
<1> HIDE DEF a, b
<1>4. a \div b <= 10 /\ a \div b >= 0
  <2> DEFINE k == a \div b
  <2>1. k \in Int /\ b * k <= 10 * b /\ 0 < b * (k + 1)
    BY <1>2, <1>3
  <2> HIDE DEF k
  <2>2. ~(k >= 11)
    <3> SUFFICES ASSUME k >= 11 PROVE FALSE
      OBVIOUS
    <3>1. b * k >= b * 11
      BY <1>2, <2>1
    <3> QED BY <1>2, <2>1, <3>1
  <2>3. ~(k <= -1)
    <3> SUFFICES ASSUME k <= -1 PROVE FALSE
      OBVIOUS
    <3>1. b * (k + 1) <= 0
      BY <1>2, <2>1
    <3> QED BY <1>2, <2>1, <3>1
  <2>4. k <= 10 /\ k >= 0
    BY <2>1, <2>2, <2>3
  <2> QED BY <2>4 DEF k
<1>5. a \div b \in 0 .. 10
  BY <1>3, <1>4
<1> QED BY <1>5 DEF a, b

\* A candidate that is a memory is one of the rows that match.
LEMMA MemoriesAreMatched ==
  ASSUME NEW s \in Scopes, NEW q, NEW rows \in MemoryRows(s), NEW days,
         NEW x \in CandidatesFor(s, q, rows, days), x.item.source = "memory"
  PROVE  /\ x.item.id \in Memory
         /\ x.score = MemoryScore(InText(q, x.item.id[2]), heat[s][x.item.id].value)
<1>1. x \notin EpisodeCandidates(s, q, days)
  BY DEF EpisodeCandidates, Candidate
<1>2. ASSUME NEW taken PROVE x \notin ClaimCandidates(s, q, days, taken)
  BY DEF ClaimCandidates, Candidate
<1>3. x \in MemoryCandidates(s, q, rows)
  BY <1>1, <1>2 DEF CandidatesFor
<1>4. PICK m \in MatchedMemories(s, q, rows) :
        x = Candidate("memory", m, MemoryScore(InText(q, m[2]), heat[s][m].value),
                      Latest(memories[s][m].evidence))
  BY <1>3 DEF MemoryCandidates
<1>5. m \in Memory
  BY RowsAreRows DEF MatchedMemories, ActiveMemories
<1> QED BY <1>4, <1>5 DEF Candidate

\* For any activations: a memory with more of the cues is ranked before one with
\* fewer, since a cue weighs 120 and all of an activation at most ten
\* (score_memory in request_recall).
THEOREM CuesGoFirst == RankedSpec => []CuesBeforeActivation
<1>1. HeatInv => CuesBeforeActivation
  <2> SUFFICES ASSUME HeatInv, NEW s \in Scopes, NEW q \in Requests,
                      NEW rows \in MemoryRows(s), NEW days \in EpisodeRows(s),
                      NEW x \in CandidatesFor(s, q, rows, days),
                      NEW y \in CandidatesFor(s, q, rows, days),
                      x.item.source = "memory", y.item.source = "memory",
                      InText(q, x.item.id[2]) > InText(q, y.item.id[2])
               PROVE  x.score > y.score
    BY DEF CuesBeforeActivation
  <2>1. ASSUME NEW m \in Memory
        PROVE  ((5 * Unit + heat[s][m].value) \div (10 * Unit)) \in 0 .. 10
    <3>1. heat[s][m].value \in Nat /\ heat[s][m].value <= Ceiling
      BY DEF HeatInv, HeatOK, Heat
    <3> QED BY <3>1, TenthsAreFew
  <2> DEFINE tenths(m) == (5 * Unit + heat[s][m].value) \div (10 * Unit)
  <2>2. /\ x.item.id \in Memory /\ y.item.id \in Memory
        /\ x.score = InText(q, x.item.id[2]) * 120 + tenths(x.item.id)
        /\ y.score = InText(q, y.item.id[2]) * 120 + tenths(y.item.id)
    BY MemoriesAreMatched DEF MemoryScore
  <2>3. InText(q, x.item.id[2]) \in Nat /\ InText(q, y.item.id[2]) \in Nat
    BY MatchedIsNat DEF InText
  <2>4. tenths(x.item.id) \in 0 .. 10 /\ tenths(y.item.id) \in 0 .. 10
    BY <2>1, <2>2
  <2> HIDE DEF tenths
  <2> QED BY <2>2, <2>3, <2>4
<1> QED BY <1>1, HeatInvHolds, PTL

-----------------------------------------------------------------------------
(* Claims of recent journals                                               *)

\* A set of numbers has a least one.
LEMMA LeastNumber ==
  ASSUME NEW T \in SUBSET Nat, T # {} PROVE \E x \in T : \A y \in T : x <= y
<1> DEFINE R == {ss \in Nat \X Nat : ss[1] < ss[2]}
<1>1. IsWellFoundedOn(R, Nat)
  BY NatLessThanWellFounded, Zenon DEF OpToRel
<1>2. PICK x \in T : \A y \in T : ~(<<y, x>> \in R)
  BY <1>1, WFMin, Zenon
<1>3. ASSUME NEW y \in T PROVE x <= y
  <2>1. x \in Nat /\ y \in Nat /\ (y < x => <<y, x>> \in R)
    BY Zenon
  <2> QED BY <1>2, <2>1
<1> QED BY <1>3

\* The sets a query of events may begin with: none of the others comes first.
Beginnings(E, n) ==
  {F \in SUBSET E : /\ Cardinality(F) <= n
                    /\ \A x \in E \ F, y \in F : ~(IdOrder[x] < IdOrder[y])}

\* Some events have the first ids: of the beginnings that are short enough take a
\* longest one. If it is too short, the first of the others makes a longer one.
LEMMA SomeIdsAreFirst ==
  ASSUME NEW E \in SUBSET Event, NEW n \in Nat
  PROVE  \E F \in Beginnings(E, n) : Cardinality(F) = AtMost(Cardinality(E), n)
<1> DEFINE k == AtMost(Cardinality(E), n)
<1>1. IsFiniteSet(E) /\ Cardinality(E) \in Nat /\ k \in Nat /\ k <= n /\ k <= Cardinality(E)
  BY FiniteData, FS_Subset, FS_CardinalityType DEF AtMost
<1>2. ASSUME NEW F \in SUBSET E PROVE IsFiniteSet(F) /\ Cardinality(F) \in Nat /\ Cardinality(F) <= Cardinality(E)
  BY <1>1, FS_Subset, FS_CardinalityType
<1> DEFINE Short == {k - Cardinality(F) : F \in Beginnings(E, k)}
<1>3. Short \in SUBSET Nat
  <2> SUFFICES ASSUME NEW F \in Beginnings(E, k) PROVE k - Cardinality(F) \in Nat
    OBVIOUS
  <2>1. F \in SUBSET E /\ Cardinality(F) <= k
    BY DEF Beginnings
  <2> QED BY <1>1, <1>2, <2>1
<1>4. Short # {}
  <2>1. {} \in Beginnings(E, k)
    BY <1>1, FS_EmptySet DEF Beginnings
  <2> QED BY <2>1
<1>5. PICK least \in Short : \A y \in Short : least <= y
  BY <1>3, <1>4, LeastNumber
<1>6. PICK F \in Beginnings(E, k) : least = k - Cardinality(F)
  BY <1>5
<1>7. /\ F \in SUBSET E /\ Cardinality(F) \in Nat /\ Cardinality(F) <= k /\ IsFiniteSet(F)
      /\ \A x \in E \ F, y \in F : ~(IdOrder[x] < IdOrder[y])
  BY <1>2, <1>6 DEF Beginnings
<1>8. Cardinality(F) = k
  <2> SUFFICES ASSUME Cardinality(F) < k PROVE FALSE
    BY <1>1, <1>7
  <2>1. E \ F # {}
    <3> SUFFICES ASSUME E \ F = {} PROVE FALSE
      OBVIOUS
    <3>1. F = E
      BY <1>7
    <3> HIDE DEF k
    <3> QED BY <1>1, <3>1
  <2> DEFINE Ids == {IdOrder[x] : x \in E \ F}
  <2>2. Ids \in SUBSET Nat /\ Ids # {}
    BY <2>1, RecallOK
  <2>3. PICK first \in Ids : \A i \in Ids : first <= i
    BY <2>2, LeastNumber
  <2>4. PICK x \in E \ F : IdOrder[x] = first
    BY <2>3
  <2> DEFINE G == F \cup {x}
  <2>5. G \in SUBSET E /\ Cardinality(G) = Cardinality(F) + 1
    BY <1>7, <2>4, FS_AddElement
  <2>6. ASSUME NEW z \in E \ G, NEW y \in G PROVE ~(IdOrder[z] < IdOrder[y])
    <3>1. CASE y \in F
      BY <1>7, <3>1
    <3>2. CASE y = x
      <4>1. IdOrder[z] \in Ids /\ IdOrder[z] \in Nat /\ IdOrder[x] \in Nat
        BY RecallOK
      <4> HIDE DEF Ids
      <4>2. IdOrder[x] <= IdOrder[z]
        BY <2>3, <2>4, <4>1
      <4> QED BY <3>2, <4>1, <4>2
    <3> QED BY <3>1, <3>2
  <2>7. G \in Beginnings(E, k)
    BY <1>1, <1>7, <2>5, <2>6 DEF Beginnings
  <2>8. least <= k - (Cardinality(F) + 1)
    BY <1>5, <2>5, <2>7
  <2> QED BY <1>1, <1>6, <1>7, <2>8
<1>9. F \in Beginnings(E, n)
  BY <1>1, <1>7 DEF Beginnings
<1> QED BY <1>8, <1>9

\* Where there is evidence, some of it is read.
LEMMA FirstIdsOfSome ==
  ASSUME NEW E \in SUBSET Event, E # {} PROVE FirstIds(E) # {}
<1> DEFINE Before(x, y) == IdOrder[x] < IdOrder[y]
           S == Firsts(E, EvidenceLimit, Before)
<1>1. IsFiniteSet(E) /\ Cardinality(E) \in Nat /\ EvidenceLimit \in Nat \ {0}
  BY FiniteData, FS_Subset, FS_CardinalityType, RecallOK
<1>2. Cardinality(E) # 0
  BY <1>1, FS_EmptySet
<1>3. AtMost(Cardinality(E), EvidenceLimit) # 0
  BY <1>1, <1>2 DEF AtMost
<1>4. S # {}
  BY <1>1, SomeIdsAreFirst, Zenon DEF Firsts, Beginnings
<1>5. FirstIds(E) \in S
  BY <1>4, Zenon DEF FirstIds
<1>6. Cardinality(FirstIds(E)) = AtMost(Cardinality(E), EvidenceLimit)
  BY <1>5, Zenon DEF Firsts
<1> QED BY <1>3, <1>6, FS_EmptySet

\* Every recall reads the recent journals.
LEMMA RecentAreRead ==
  ASSUME NEW s \in Scopes, NEW days \in EpisodeRows(s), NEW d \in RecentJournals(s)
  PROVE  d \in days
<1> DEFINE D == {x \in Days : journals[s][x] # <<>>}
           later == {x \in Days : journals[s][x] # <<>> /\ DayStart[x] > DayStart[d]}
<1>1. /\ days \in SUBSET D /\ Cardinality(days) = AtMost(Cardinality(D), EpisodeLimit)
      /\ \A x \in D \ days, y \in days : ~(DayStart[x] > DayStart[y])
  BY Zenon DEF EpisodeRows, Firsts
<1>2. d \in D /\ Cardinality(later) < EpisodeLimit
  BY DEF RecentJournals
<1>3. /\ IsFiniteSet(D) /\ IsFiniteSet(days) /\ IsFiniteSet(later)
      /\ Cardinality(D) \in Nat /\ Cardinality(days) \in Nat /\ Cardinality(later) \in Nat
  <2>1. D \in SUBSET Days /\ days \in SUBSET Days /\ later \in SUBSET Days
    BY <1>1
  <2> HIDE DEF D, later
  <2> QED BY <2>1, FinitelyMany, FS_Subset, FS_CardinalityType
<1> SUFFICES ASSUME d \notin days PROVE FALSE
  OBVIOUS
<1>4. days \in SUBSET later
  <2> SUFFICES ASSUME NEW y \in days PROVE y \in later
    OBVIOUS
  <2>1. y \in Days /\ d \in Days /\ y # d /\ journals[s][y] # <<>> /\ ~(DayStart[d] > DayStart[y])
    BY <1>1, <1>2
  <2>2. DayStart[y] \in Nat /\ DayStart[d] \in Nat /\ DayStart[y] # DayStart[d]
    BY <2>1, RecallOK
  <2> QED BY <2>1, <2>2
<1> HIDE DEF later
<1>5. Cardinality(days) <= Cardinality(later)
  BY <1>3, <1>4, FS_Subset
<1>6. Cardinality(days) = Cardinality(D)
  BY <1>1, <1>2, <1>3, <1>5, RecallOK DEF AtMost
<1> HIDE DEF D
<1>7. days = D
  BY <1>1, <1>3, <1>6, FS_Subset
<1> QED BY <1>2, <1>7

\* More places hold no fewer of the cues.
LEMMA TitlesAddMatches ==
  ASSUME NEW q \in Requests, NEW titles, NEW text, NEW ids, InText(q, text) > 0
  PROVE  Matched(q, titles, {text}, ids) > 0
<1> DEFINE A == {c \in q.cues : FoundIn[c].texts \cap {text} # {}}
           B == {c \in q.cues : \/ FoundIn[c].titles \cap titles # {}
                                \/ FoundIn[c].texts \cap {text} # {}
                                \/ FoundIn[c].ids \cap ids # {}}
<1>1. B \in SUBSET Cues /\ A \in SUBSET B
  BY RecallOK DEF Request
<1>2. InText(q, text) = Cardinality(A) /\ Matched(q, titles, {text}, ids) = Cardinality(B)
  BY DEF InText, Matched
<1> HIDE DEF A, B
<1>3. IsFiniteSet(B) /\ Cardinality(A) <= Cardinality(B) /\ Cardinality(A) \in Nat /\ Cardinality(B) \in Nat
  BY <1>1, FinitelyMany, FS_Subset, FS_CardinalityType
<1> QED BY <1>2, <1>3

\* A recall that has a candidate answers with one.
LEMMA SomethingIsAnswered ==
  ASSUME TypeOK, NEW s \in Scopes, NEW q \in Requests,
         \A rows \in MemoryRows(s), days \in EpisodeRows(s) : CandidatesFor(s, q, rows, days) # {}
  PROVE  {} \notin Answers(s, q)
<1> SUFFICES ASSUME NEW exposed \in Answers(s, q), exposed = {} PROVE FALSE
  OBVIOUS
<1>1. PICK rows \in MemoryRows(s), days \in EpisodeRows(s) :
        \E best \in SUBSET CandidatesFor(s, q, rows, days) :
          /\ Cardinality(best) = AtMost(Cardinality(CandidatesFor(s, q, rows, days)), q.depth)
          /\ exposed = {c.item : c \in best}
  BY DEF Answers, Firsts
<1> DEFINE S == CandidatesFor(s, q, rows, days)
<1>2. Cardinality({}) = AtMost(Cardinality(S), q.depth)
  BY <1>1
<1>3. IsFiniteSet(S) /\ S # {}
  BY FiniteCandidates
<1> HIDE DEF S
<1>4. Cardinality(S) \in Nat \ {0} /\ Cardinality({}) = 0
  BY <1>3, FS_CardinalityType, FS_EmptySet
<1>5. q.depth \in Nat \ {0}
  BY RecallOK, ConstantsOK DEF Request
<1> QED BY <1>2, <1>4, <1>5 DEF AtMost

\* A claim whose text has a cue is a candidate, or a memory of the same text is.
LEMMA ClaimIsCandidate ==
  ASSUME TypeOK, JournalGrounded, NEW s \in Scopes, NEW q \in Requests,
         NEW rows \in MemoryRows(s), NEW days \in EpisodeRows(s),
         NEW d \in RecentJournals(s), NEW cc \in Current(s, d).claims,
         q.hint = None, cc.claim[1] = q.need, InText(q, cc.claim[2]) > 0,
         ~TerminalMemory(s, MemoryOf(cc.claim))
  PROVE  CandidatesFor(s, q, rows, days) # {}
<1>1. d \in Days /\ journals[s][d] # <<>> /\ d \in days
  BY RecentAreRead DEF RecentJournals
<1>2. Current(s, d).claims \subseteq CitedClaim
  BY <1>1, CurrentClaims
<1>3. cc \in CitedClaim /\ cc.claim[1] \in ClaimKinds /\ cc.evidence \in SUBSET Event
  BY <1>2 DEF CitedClaim, Claim
<1>4. q.need # "episode"
  BY <1>3, ConstantsOK
<1>5. cc.evidence # {}
  <2>1. journals[s][d] \in Seq(Proposal)
    BY <1>1 DEF TypeOK
  <2>2. Len(journals[s][d]) \in DOMAIN journals[s][d]
    BY <1>1, <2>1
  <2>3. cc \in ClaimsOf(journals[s][d])
    BY <2>2 DEF Current, ClaimsOf
  <2> QED BY <1>1, <2>3 DEF JournalGrounded
<1>6. FirstIds(cc.evidence) # {}
  BY <1>3, <1>5, FirstIdsOfSome
<1>7. Evidence(Current(s, d).claims) \in SUBSET Event /\ Evidence(Current(s, d).claims) # {}
  BY <1>2, <1>5 DEF Evidence, CitedClaim
<1>8. d \in ReadableEpisodes(s, q, days)
  BY <1>1, <1>7, FirstIdsOfSome DEF ReadableEpisodes, EpisodeEvidence, InWindow
<1> DEFINE taken == {m[2] : m \in MatchedMemories(s, q, rows)}
<1>9. CASE cc.claim[2] \in taken
  <2>1. PICK m \in MatchedMemories(s, q, rows) : TRUE
    BY <1>9
  <2>2. MemoryCandidates(s, q, rows) # {}
    BY <2>1, Zenon DEF MemoryCandidates
  <2> QED BY <1>4, <2>2 DEF CandidatesFor
<1>10. CASE cc.claim[2] \notin taken
  <2>1. InClaim(q, s, d, cc) > 0
    BY TitlesAddMatches DEF InClaim
  <2>2. StandsIn(s, cc) /\ InWindow(q, Latest(FirstIds(cc.evidence)))
    BY DEF StandsIn, InWindow
  <2> DEFINE X == {x \in Current(s, d).claims :
                      /\ x.claim[1] = q.need
                      /\ StandsIn(s, x)
                      /\ x.claim[2] \notin taken
                      /\ FirstIds(x.evidence) # {}
                      /\ InWindow(q, Latest(FirstIds(x.evidence)))
                      /\ InClaim(q, s, d, x) > 0}
  <2>3. cc \in X
    BY <1>6, <1>10, <2>1, <2>2
  <2> DEFINE Shown(x, y) == Candidate("claim", <<x, y.claim>>, InClaim(q, s, x, y) * 100,
                                      Latest(FirstIds(y.evidence)))
  <2>4. Shown(d, cc) \in {Shown(d, y) : y \in X}
    BY <2>3, Zenon
  <2> HIDE DEF Shown
  <2>5. Shown(d, cc) \in ClaimCandidates(s, q, days, taken)
    BY <1>8, <2>4, ZenonT(30) DEF ClaimCandidates, Shown
  <2> QED BY <1>4, <2>5 DEF CandidatesFor
<1> QED BY <1>9, <1>10

\* For any limits, cues and numbers of journals: a claim of one of the journals that
\* every recall reads is found by a cue of its text, also when its memory is beyond
\* the rows the recall reads (request_recall, the claims of an episode).
THEOREM ClaimsAreFound == RankedSpec => []CurrentClaimsFound
<1>1. TypeOK /\ JournalGrounded => CurrentClaimsFound
  BY ClaimIsCandidate, SomethingIsAnswered DEF CurrentClaimsFound
<1> QED
  BY <1>1, RankingRefinesStore, TypeCorrect, JournalsAreGrounded, PTL DEF RefinesKernelStore

==============================================================================
