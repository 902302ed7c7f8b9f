------------------------ MODULE FileProtectionProofs ------------------------
(* What the service does to a file, for any documents, jobs and tools: every *)
(* variable keeps its type, a release fails closed, the replacements of an   *)
(* output link what the file linked, and the graph in its manifest tells of  *)
(* all that is left in it.                                                   *)
EXTENDS FileProtection, Integers, Functions, FiniteSetTheorems, SequenceTheorems,
        WellFoundedInduction, TLAPS

-----------------------------------------------------------------------------
(* Sequences that are sorted and filtered *)

(* Numbers that are there have a least one.                                  *)
LEMMA SmallestOf ==
  ASSUME NEW S \in SUBSET Nat, S # {}
  PROVE  \E m \in S : \A k \in S : m <= k
<1> DEFINE R == OpToRel(<, Nat)
<1>1. \E m \in S : \A k \in S : ~(<<k, m>> \in R)
  BY NatLessThanWellFounded, WFMin
<1>2. \A k, m \in Nat : k < m => <<k, m>> \in R
  <2>1. \A k, m \in Nat : <<k, m>> \in Nat \X Nat /\ <<k, m>>[1] = k /\ <<k, m>>[2] = m
   OBVIOUS
  <2>2. R = {ss \in Nat \X Nat : ss[1] < ss[2]} BY DEF OpToRel
  <2>3. QED BY <2>1, <2>2
<1> HIDE DEF R
<1>3. PICK m \in S : \A k \in S : ~(<<k, m>> \in R)
  BY <1>1
<1>4. \A k \in S : ~(k < m)
  BY <1>2, <1>3
<1> QED
  BY <1>4

ValuesOf(s) == {s[k] : k \in DOMAIN s}

(* A sequence of some values is one of more.                                 *)
LEMMA SeqWidens ==
  ASSUME NEW S, NEW T, S \subseteq T, NEW s \in Seq(S)
  PROVE  s \in Seq(T)
<1>1. Len(s) \in Nat /\ s \in [1 .. Len(s) -> T]
  OBVIOUS
<1> QED BY <1>1

(* An order of finitely many places: of two, one is ahead of the other.      *)
IsOrder(ahead) ==
  LET places == DOMAIN ahead
  IN /\ IsFiniteSet(places)
     /\ \A k \in places : ahead[k] \subseteq places \ {k}
     /\ \A j, k \in places : j # k => j \in ahead[k] \/ k \in ahead[j]
     /\ \A j, k \in places : j \in ahead[k] => ahead[j] \subseteq ahead[k]

(* Every rank is that of one place.                                          *)
LEMMA Ranks ==
  ASSUME NEW ahead, IsOrder(ahead)
  PROVE  LET places == DOMAIN ahead
             n == Cardinality(places)
         IN /\ n \in Nat
            /\ \A k \in places : Cardinality(ahead[k]) \in 0 .. n - 1
            /\ \A j, k \in places : Cardinality(ahead[j]) = Cardinality(ahead[k]) => j = k
            /\ \A r \in 0 .. n - 1 : \E k \in places : Cardinality(ahead[k]) = r
<1> DEFINE places == DOMAIN ahead
           n == Cardinality(places)
           rank == [k \in places |-> Cardinality(ahead[k])]
<1>1. IsFiniteSet(places) /\ n \in Nat
  BY FS_CardinalityType DEF IsOrder
<1>2. \A k \in places : ahead[k] \in SUBSET places /\ k \notin ahead[k]
  BY DEF IsOrder
<1>3. ASSUME NEW k \in places
      PROVE  IsFiniteSet(ahead[k]) /\ Cardinality(ahead[k]) \in 0 .. n - 1
  <2>1. IsFiniteSet(ahead[k]) /\ Cardinality(ahead[k]) <= n
    BY <1>1, <1>2, FS_Subset
  <2>2. Cardinality(ahead[k]) # n
    BY <1>1, <1>2, FS_Subset
  <2> HIDE DEF n
  <2> QED BY <1>1, <2>1, <2>2, FS_CardinalityType
<1>4. ASSUME NEW j \in places, NEW k \in places, j \in ahead[k]
      PROVE  Cardinality(ahead[j]) # Cardinality(ahead[k])
  <2>1. ahead[j] \in SUBSET ahead[k] /\ j \notin ahead[j]
    BY <1>2, <1>4 DEF IsOrder
  <2>2. ahead[j] # ahead[k]
    BY <1>4, <2>1
  <2> QED BY <1>3, <2>1, <2>2, FS_Subset
<1>5. ASSUME NEW j \in places, NEW k \in places, Cardinality(ahead[j]) = Cardinality(ahead[k])
      PROVE  j = k
  BY <1>4, <1>5 DEF IsOrder
<1>6. rank \in [places -> 0 .. n - 1]
  BY <1>3
<1>7. rank \in Injection(places, 0 .. n - 1)
  BY <1>5, <1>6 DEF Injection, IsInjective
<1>8. IsFiniteSet(0 .. n - 1) /\ Cardinality(0 .. n - 1) = n
  <2> HIDE DEF n
  <2> QED BY <1>1, FS_Interval
<1>9. rank \in Surjection(places, 0 .. n - 1)
  BY <1>7, <1>8, FS_Injection
<1>10. \A r \in 0 .. n - 1 : \E k \in places : Cardinality(ahead[k]) = r
  BY <1>9 DEF Surjection
<1> QED BY <1>1, <1>3, <1>5, <1>10

(* The arrangement takes each place once, in the order.                      *)
Takes(a, s, ahead) ==
  /\ \A k \in DOMAIN ahead : /\ Cardinality(ahead[k]) + 1 \in DOMAIN a
                            /\ a[Cardinality(ahead[k]) + 1] = s[k]
  /\ \A i \in DOMAIN a : \E k \in DOMAIN ahead : Cardinality(ahead[k]) + 1 = i /\ a[i] = s[k]

(* An arrangement has as many values as there are places, in the order.      *)
LEMMA ArrangedTakes ==
  ASSUME NEW s, NEW ahead, IsOrder(ahead)
  PROVE  /\ Cardinality(DOMAIN ahead) \in Nat
         /\ Arranged(s, ahead) \in Seq({s[k] : k \in DOMAIN ahead})
         /\ Len(Arranged(s, ahead)) = Cardinality(DOMAIN ahead)
         /\ DOMAIN Arranged(s, ahead) = 1 .. Cardinality(DOMAIN ahead)
         /\ Takes(Arranged(s, ahead), s, ahead)
<1> DEFINE places == DOMAIN ahead
           n == Cardinality(places)
           S == {s[k] : k \in places}
           taken(i) == CHOOSE k \in places : Cardinality(ahead[k]) = i - 1
           a == [i \in 1 .. n |-> s[taken(i)]]
<1>1. n \in Nat
  BY Ranks
<1>2. \A i \in 1 .. n : taken(i) \in places /\ Cardinality(ahead[taken(i)]) = i - 1
  <2> TAKE i \in 1 .. n
  <2>1. i - 1 \in 0 .. n - 1
    BY <1>1
  <2>2. \E k \in places : Cardinality(ahead[k]) = i - 1
    BY <2>1, Ranks
  <2> QED BY <2>2
<1>3. a \in [1 .. n -> S]
  BY <1>2
<1>4. a \in Seq(S)
  <2> HIDE DEF a, n, S
  <2> QED BY <1>1, <1>3
<1>5. Arranged(s, ahead) = a
  <2>1. <<>> \o a = a
    <3> HIDE DEF a, S
    <3> QED BY <1>4
  <2> QED BY <2>1 DEF Arranged
<1>6. DOMAIN a = 1 .. n /\ Len(a) = n
  <2> HIDE DEF a, n, S
  <2> QED BY <1>1, <1>3, <1>4
<1>7. ASSUME NEW k \in places
      PROVE  Cardinality(ahead[k]) + 1 \in 1 .. n /\ a[Cardinality(ahead[k]) + 1] = s[k]
  <2>1. Cardinality(ahead[k]) \in 0 .. n - 1
    BY Ranks
  <2> DEFINE i == Cardinality(ahead[k]) + 1
  <2>2. i \in 1 .. n /\ i - 1 = Cardinality(ahead[k])
    <3> HIDE DEF n
    <3> QED BY <1>1, <2>1
  <2>3. Cardinality(ahead[taken(i)]) = Cardinality(ahead[k]) /\ taken(i) \in places
    <3> HIDE DEF i, taken
    <3> QED BY <1>2, <2>2
  <2>4. taken(i) = k
    <3> HIDE DEF taken
    <3> QED BY <2>3, Ranks
  <2>5. a[i] = s[taken(i)]
    <3> HIDE DEF i
    <3> QED BY <2>2
  <2> QED BY <2>2, <2>4, <2>5
<1>8. ASSUME NEW i \in 1 .. n
      PROVE  \E k \in places : Cardinality(ahead[k]) + 1 = i /\ a[i] = s[k]
  <2>1. taken(i) \in places /\ Cardinality(ahead[taken(i)]) = i - 1
    BY <1>2
  <2>2. a[i] = s[taken(i)]
    OBVIOUS
  <2> HIDE DEF taken, a
  <2> QED BY <2>1, <2>2
<1>9. Takes(a, s, ahead)
  <2> HIDE DEF a, n
  <2> QED BY <1>6, <1>7, <1>8 DEF Takes
<1> HIDE DEF a
<1> QED BY <1>1, <1>4, <1>5, <1>6, <1>9

(* It has the values at those places and no others.                          *)
LEMMA ArrangedValues ==
  ASSUME NEW s, NEW ahead, IsOrder(ahead)
  PROVE  ValuesOf(Arranged(s, ahead)) = {s[k] : k \in DOMAIN ahead}
<1> DEFINE a == Arranged(s, ahead)
<1>1. Takes(a, s, ahead)
  BY ArrangedTakes
<1> HIDE DEF a
<1>2. ValuesOf(a) = {s[k] : k \in DOMAIN ahead}
  BY <1>1 DEF Takes, ValuesOf
<1> QED BY <1>2 DEF a

-----------------------------------------------------------------------------
(* What is kept is kept in its order.                                        *)
LEMMA WhereIsOrder ==
  ASSUME NEW places \in SUBSET Nat, IsFiniteSet(places)
  PROVE  IsOrder([k \in places |-> {j \in places : j < k}])
<1> DEFINE ahead == [k \in places |-> {j \in places : j < k}]
<1>1. /\ DOMAIN ahead = places
      /\ \A k \in places : ahead[k] = {j \in places : j < k}
  OBVIOUS
<1> HIDE DEF ahead
<1>0. \A k \in places : k \in Nat
  OBVIOUS
<1>2. ASSUME NEW j \in places, NEW k \in places, j # k
      PROVE  j \in ahead[k] \/ k \in ahead[j]
  BY <1>0, <1>1, <1>2
<1>3. ASSUME NEW j \in places, NEW k \in places, j \in ahead[k]
      PROVE  ahead[j] \subseteq ahead[k]
  <2> SUFFICES ASSUME NEW i \in ahead[j]
               PROVE  i \in ahead[k]
    OBVIOUS
  <2>1. j \in places /\ j < k /\ i \in places /\ i < j
    BY <1>1, <1>3
  <2>2. i \in Nat /\ j \in Nat /\ k \in Nat
    BY <1>0, <2>1
  <2> QED BY <1>1, <2>1, <2>2
<1>4. \A k \in places : ahead[k] \subseteq places \ {k}
  BY <1>0, <1>1
<1>5. IsOrder(ahead)
  BY <1>1, <1>2, <1>3, <1>4 DEF IsOrder
<1> QED BY <1>5 DEF ahead

(* It has the values at those places, each place once, and no others.        *)
LEMMA WhereKeeps ==
  ASSUME NEW s, NEW places \in SUBSET Nat, IsFiniteSet(places)
  PROVE  /\ Where(s, places) \in Seq({s[k] : k \in places})
         /\ ValuesOf(Where(s, places)) = {s[k] : k \in places}
         /\ Len(Where(s, places)) = Cardinality(places)
<1> DEFINE ahead == [k \in places |-> {j \in places : j < k}]
<1>1. IsOrder(ahead)
  BY WhereIsOrder
<1>2. DOMAIN ahead = places /\ Where(s, places) = Arranged(s, ahead)
  BY DEF Where
<1> HIDE DEF ahead
<1>3. /\ Arranged(s, ahead) \in Seq({s[k] : k \in DOMAIN ahead})
      /\ Len(Arranged(s, ahead)) = Cardinality(DOMAIN ahead)
  BY <1>1, ArrangedTakes
<1>4. ValuesOf(Arranged(s, ahead)) = {s[k] : k \in DOMAIN ahead}
  BY <1>1, ArrangedValues
<1> QED BY <1>2, <1>3, <1>4

(* Tuples of numbers of the same length: of two that differ one is earlier.  *)
LEMMA EarlierIsStrict ==
  ASSUME NEW m \in Nat, NEW k \in [1 .. m -> Int]
  PROVE  ~Earlier(k, k)
  BY DEF Earlier

(* Of two tuples that differ one is earlier.                                 *)
LEMMA EarlierIsTotal ==
  ASSUME NEW m \in Nat, NEW k \in [1 .. m -> Int], NEW l \in [1 .. m -> Int], k # l
  PROVE  Earlier(k, l) \/ Earlier(l, k)
<1> DEFINE apart == {i \in 1 .. m : k[i] # l[i]}
<1>1. apart \in SUBSET Nat /\ apart # {}
  BY Z3
<1>2. PICK i \in apart : \A j \in apart : i <= j
  <2> HIDE DEF apart
  <2> QED BY <1>1, SmallestOf
<1>3. i \in 1 .. m /\ k[i] # l[i] /\ k[i] \in Int /\ l[i] \in Int
  OBVIOUS
<1>4. \A j \in 1 .. i - 1 : k[j] = l[j]
  BY <1>2, <1>3
<1>5. DOMAIN k = 1 .. m /\ DOMAIN l = 1 .. m
  OBVIOUS
<1>6. k[i] < l[i] \/ l[i] < k[i]
  BY <1>3
<1> QED BY <1>3, <1>4, <1>5, <1>6 DEF Earlier

(* What is earlier than an earlier one is earlier.                           *)
LEMMA EarlierGoesOn ==
  ASSUME NEW m \in Nat, NEW k \in [1 .. m -> Int], NEW l \in [1 .. m -> Int],
         NEW q \in [1 .. m -> Int], Earlier(k, l), Earlier(l, q)
  PROVE  Earlier(k, q)
<1>1. PICK i \in 1 .. m : k[i] < l[i] /\ \A j \in 1 .. i - 1 : k[j] = l[j]
  BY DEF Earlier
<1>2. PICK h \in 1 .. m : l[h] < q[h] /\ \A j \in 1 .. h - 1 : l[j] = q[j]
  BY DEF Earlier
<1> DEFINE b == IF i < h THEN i ELSE h
<1>3. b \in 1 .. m /\ b <= i /\ b <= h /\ (b = i \/ b = h)
  OBVIOUS
<1>4. \A j \in 1 .. b - 1 : k[j] = q[j]
  <2> HIDE DEF b
  <2>1. \A j \in 1 .. b - 1 : j \in 1 .. i - 1 /\ j \in 1 .. h - 1
    BY <1>3
  <2> QED BY <1>1, <1>2, <2>1
<1>5. k[b] < q[b]
  <2>1. k[b] \in Int /\ l[b] \in Int /\ q[b] \in Int
    BY <1>3
  <2>2. b < i => k[b] = l[b]
    <3> HIDE DEF b
    <3> QED BY <1>1, <1>3
  <2>3. b < h => l[b] = q[b]
    <3> HIDE DEF b
    <3> QED BY <1>2, <1>3
  <2> HIDE DEF b
  <2>4. b < i \/ b = i
    BY <1>3
  <2>5. b < h \/ b = h
    BY <1>3
  <2> QED BY <1>1, <1>2, <1>3, <2>1, <2>2, <2>3, <2>4, <2>5
<1>6. DOMAIN k = 1 .. m
  OBVIOUS
<1> HIDE DEF b
<1> QED BY <1>3, <1>4, <1>5, <1>6 DEF Earlier

(* Sorting keeps the values, whatever the keys are.                          *)
LEMMA SortedKeeps ==
  ASSUME NEW n \in Nat, NEW s, DOMAIN s = 1 .. n, NEW m \in Nat,
         NEW keys \in [1 .. n -> [1 .. m -> Int]]
  PROVE  /\ SortedBy(s, keys) \in Seq(ValuesOf(s))
         /\ ValuesOf(SortedBy(s, keys)) = ValuesOf(s)
         /\ Len(SortedBy(s, keys)) = n
<1> DEFINE Before(j, k) == Earlier(keys[j], keys[k]) \/ (keys[j] = keys[k] /\ j < k)
           ahead == [k \in 1 .. n |-> {j \in 1 .. n : Before(j, k)}]
<1>1. /\ DOMAIN ahead = 1 .. n
      /\ \A k \in 1 .. n : ahead[k] = {j \in 1 .. n : Before(j, k)}
  OBVIOUS
<1>2. \A k \in 1 .. n : keys[k] \in [1 .. m -> Int]
  OBVIOUS
<1>3. SortedBy(s, keys) = Arranged(s, ahead)
  BY DEF SortedBy
<1> HIDE DEF ahead
<1>4. \A k \in 1 .. n : ~Before(k, k)
  BY <1>2, EarlierIsStrict
<1>5. \A j, k \in 1 .. n : j # k => Before(j, k) \/ Before(k, j)
  <2> SUFFICES ASSUME NEW j \in 1 .. n, NEW k \in 1 .. n, j # k
               PROVE  Before(j, k) \/ Before(k, j)
    OBVIOUS
  <2>1. CASE keys[j] = keys[k]
    <3>1. j < k \/ k < j
      OBVIOUS
    <3> QED BY <2>1, <3>1
  <2>2. CASE keys[j] # keys[k]
    BY <1>2, <2>2, EarlierIsTotal
  <2> QED BY <2>1, <2>2
<1>6. \A i, j, k \in 1 .. n : Before(i, j) /\ Before(j, k) => Before(i, k)
  <2> SUFFICES ASSUME NEW i \in 1 .. n, NEW j \in 1 .. n, NEW k \in 1 .. n,
                      Before(i, j), Before(j, k)
               PROVE  Before(i, k)
    OBVIOUS
  <2>1. Earlier(keys[i], keys[j]) /\ Earlier(keys[j], keys[k]) => Earlier(keys[i], keys[k])
    BY <1>2, EarlierGoesOn
  <2>2. i < j /\ j < k => i < k
    OBVIOUS
  <2> QED BY <2>1, <2>2
<1>7. IsFiniteSet(1 .. n) /\ Cardinality(1 .. n) = n
  BY FS_Interval
<1> HIDE DEF Before
<1>8. IsOrder(ahead)
  <2>1. ASSUME NEW j \in 1 .. n, NEW k \in 1 .. n, j \in ahead[k]
        PROVE  ahead[j] \subseteq ahead[k]
    BY <1>1, <1>6, <2>1
  <2>2. \A k \in 1 .. n : ahead[k] \subseteq (1 .. n) \ {k}
    BY <1>1, <1>4
  <2>3. \A j, k \in 1 .. n : j # k => j \in ahead[k] \/ k \in ahead[j]
    BY <1>1, <1>5
  <2> QED BY <1>1, <1>7, <2>1, <2>2, <2>3 DEF IsOrder
<1>9. /\ Arranged(s, ahead) \in Seq({s[k] : k \in 1 .. n})
      /\ Len(Arranged(s, ahead)) = n
      /\ ValuesOf(Arranged(s, ahead)) = {s[k] : k \in 1 .. n}
  <2>1. /\ Arranged(s, ahead) \in Seq({s[k] : k \in DOMAIN ahead})
        /\ Len(Arranged(s, ahead)) = Cardinality(DOMAIN ahead)
    BY <1>8, ArrangedTakes
  <2>2. ValuesOf(Arranged(s, ahead)) = {s[k] : k \in DOMAIN ahead}
    BY <1>8, ArrangedValues
  <2> QED BY <1>1, <1>7, <2>1, <2>2
<1> QED BY <1>3, <1>9 DEF ValuesOf

-----------------------------------------------------------------------------
(* Folding *)

(* What holds of a set when it holds of all smaller ones holds of every      *)
(* finite set.                                                               *)
LEMMA BySubsets ==
  ASSUME NEW S, IsFiniteSet(S), NEW G,
         \A T \in SUBSET S : (\A U \in SUBSET T : U # T => U \in G) => T \in G
  PROVE  SUBSET S \subseteq G
<1> DEFINE R == StrictSubsetOrdering(S)
           bad == (SUBSET S) \ G
<1>1. SUFFICES ASSUME bad # {}
               PROVE  FALSE
  OBVIOUS
<1>2. IsWellFoundedOn(R, SUBSET S)
  BY FS_StrictSubsetOrderingWellFounded, FS_FiniteSubsetsOfFinite
<1>3. PICK T \in bad : \A U \in bad : ~(<<U, T>> \in R)
  <2> HIDE DEF R
  <2>1. bad \subseteq SUBSET S
    OBVIOUS
  <2> HIDE DEF bad
  <2> QED
    BY <1>1, <1>2, <2>1, WFMin
<1>4. \A U \in SUBSET T : U # T => U \in G
  <2> SUFFICES ASSUME NEW U \in SUBSET T, U # T, U \notin G
               PROVE  FALSE
    OBVIOUS
  <2>1. U \in SUBSET S /\ T \in SUBSET S
    BY <1>3
  <2>2. <<U, T>> \in (SUBSET S) \X (SUBSET S) /\ <<U, T>>[1] = U /\ <<U, T>>[2] = T
    BY <2>1
  <2>3. <<U, T>> \in R
    BY <2>2 DEF StrictSubsetOrdering
  <2> QED
    BY <1>3, <2>1, <2>3
<1> QED
  BY <1>3, <1>4

(* A function that is defined by what it is on a smaller set exists: of the  *)
(* set s it makes the step of an element of s and of its value on the rest.  *)
Folding(f, S, base, step, pick) ==
  \A s \in SUBSET S : f[s] = IF s = {} THEN base ELSE step[pick[s]][f[s \ {pick[s]}]]
Picks(pick, S) == pick \in [(SUBSET S) \ {{}} -> S] /\ \A s \in (SUBSET S) \ {{}} : pick[s] \in s

(* There is such a function, by steps from smaller sets to larger ones.      *)
LEMMA FoldExists ==
  ASSUME NEW S, IsFiniteSet(S), NEW R, NEW base \in R, NEW step \in [S -> [R -> R]],
         NEW pick, Picks(pick, S)
  PROVE  \E f \in [SUBSET S -> R] : Folding(f, S, base, step, pick)
<1> DEFINE Solves(h, T) ==
             /\ h \in [SUBSET T -> R]
             /\ \A s \in SUBSET T :
                   h[s] = IF s = {} THEN base ELSE step[pick[s]][h[s \ {pick[s]}]]
           G == {T \in SUBSET S : \E h : Solves(h, T)}
<1>0. pick \in [(SUBSET S) \ {{}} -> S] /\ \A s \in (SUBSET S) \ {{}} : pick[s] \in s
  BY DEF Picks
<1>1. ASSUME NEW T, NEW h, Solves(h, T), NEW U, NEW k, Solves(k, U)
      PROVE  \A s \in SUBSET S : s \subseteq T /\ s \subseteq U => h[s] = k[s]
  <2> DEFINE A == {s \in SUBSET S : s \subseteq T /\ s \subseteq U => h[s] = k[s]}
  <2>1. ASSUME NEW s \in SUBSET S, \A r \in SUBSET s : r # s => r \in A
        PROVE  s \in A
    <3>1. SUFFICES ASSUME s \subseteq T, s \subseteq U, s # {}
                   PROVE  h[s] = k[s]
      <4>1. CASE s = {}
        BY <1>1, <4>1
      <4> QED
        BY <4>1
    <3>2. pick[s] \in s /\ s \ {pick[s]} \in A
      BY <1>0, <2>1, <3>1
    <3>3. h[s \ {pick[s]}] = k[s \ {pick[s]}]
      BY <3>1, <3>2
    <3> QED
      BY <1>1, <3>1, <3>3
  <2>2. SUBSET S \subseteq A
    <3> HIDE DEF A
    <3> QED
      BY <2>1, BySubsets
  <2> QED
    BY <2>2
<1>2. ASSUME NEW T \in SUBSET S, \A U \in SUBSET T : U # T => U \in G
      PROVE  T \in G
  <2> DEFINE sol == [U \in SUBSET T |-> CHOOSE h : Solves(h, U)]
             rest(s) == s \ {pick[s]}
             h == [s \in SUBSET T |-> IF s = {} THEN base ELSE step[pick[s]][sol[rest(s)][rest(s)]]]
  <2>1. \A U \in SUBSET T : U # T => Solves(sol[U], U)
    <3> HIDE DEF Solves
    <3> QED
      BY <1>2
  <2>2. ASSUME NEW s \in SUBSET T, s # {}
        PROVE  /\ pick[s] \in S /\ rest(s) \in SUBSET T /\ rest(s) # T /\ rest(s) # s
               /\ sol[rest(s)][rest(s)] \in R
    <3>1. pick[s] \in s /\ s \in (SUBSET S) \ {{}}
      BY <1>0, <2>2
    <3>2. rest(s) \in SUBSET T /\ rest(s) # T /\ rest(s) # s
      BY <3>1
    <3>3. Solves(sol[rest(s)], rest(s))
      <4> HIDE DEF Solves, sol, rest
      <4> QED
        BY <2>1, <3>2
    <3>4. sol[rest(s)] \in [SUBSET (rest(s)) -> R]
      BY <3>3
    <3>5. rest(s) \in SUBSET (rest(s))
      OBVIOUS
    <3>6. sol[rest(s)][rest(s)] \in R
      <4> HIDE DEF sol, rest
      <4> QED
        BY <3>4, <3>5
    <3> QED
      BY <3>1, <3>2, <3>6
  <2>3. h \in [SUBSET T -> R]
    <3>1. ASSUME NEW s \in SUBSET T
          PROVE  (IF s = {} THEN base ELSE step[pick[s]][sol[rest(s)][rest(s)]]) \in R
      <4>1. CASE s = {}
        BY <4>1
      <4>2. CASE s # {}
        <5>1. pick[s] \in S /\ sol[rest(s)][rest(s)] \in R
          BY <2>2, <4>2
        <5> HIDE DEF sol, rest
        <5> QED
          BY <5>1, <4>2
      <4> QED
        BY <4>1, <4>2
    <3> HIDE DEF sol, rest
    <3> QED
      BY <3>1
  <2>4. ASSUME NEW s \in SUBSET T, s # {}
        PROVE  h[rest(s)] = sol[rest(s)][rest(s)]
    <3> DEFINE r == rest(s)
    <3>1. r \in SUBSET T /\ r # T
      BY <2>2, <2>4
    <3>2. Solves(sol[r], r)
      <4> HIDE DEF Solves, sol, r
      <4> QED
        BY <2>1, <3>1
    <3>3. CASE r = {}
      <4>1. sol[r][r] = base
        <5> HIDE DEF sol, r
        <5> QED
          BY <3>2, <3>3
      <4>2. h[r] = base
        <5> HIDE DEF sol
        <5> QED
          BY <3>1, <3>3
      <4> QED
        BY <4>1, <4>2
    <3>4. CASE r # {}
      <4> DEFINE q == rest(r)
      <4>1. q \in SUBSET T /\ q # T /\ q \subseteq r
        BY <2>2, <3>1, <3>4
      <4>2. Solves(sol[q], q)
        <5> HIDE DEF Solves, sol, q
        <5> QED
          BY <2>1, <4>1
      <4>3. sol[q][q] = sol[r][q]
        <5>1. r \in SUBSET S /\ q \in SUBSET S /\ q \subseteq q /\ q \subseteq r
          BY <3>1, <4>1
        <5> DEFINE a == sol[r]
                   b == sol[q]
        <5>2. Solves(a, r) /\ Solves(b, q)
          BY <3>2, <4>2
        <5> HIDE DEF Solves, sol, q, r, a, b
        <5>3. \A u \in SUBSET S : u \subseteq r /\ u \subseteq q => a[u] = b[u]
          BY <1>1, <5>1, <5>2
        <5>4. a[q] = b[q]
          BY <5>1, <5>3
        <5> QED
          BY <5>4 DEF a, b
      <4>4. h[r] = step[pick[r]][sol[q][q]]
        <5> HIDE DEF sol
        <5> QED
          BY <3>1, <3>4
      <4>5. sol[r][r] = step[pick[r]][sol[r][q]]
        <5>1. r \in SUBSET r
          OBVIOUS
        <5> HIDE DEF sol, r
        <5> QED
          BY <3>2, <3>4, <5>1
      <4> QED
        BY <4>3, <4>4, <4>5
    <3> QED
      BY <3>3, <3>4
  <2>5. ASSUME NEW s \in SUBSET T
        PROVE  h[s] = IF s = {} THEN base ELSE step[pick[s]][h[rest(s)]]
    <3>1. h[s] = IF s = {} THEN base ELSE step[pick[s]][sol[rest(s)][rest(s)]]
      <4> HIDE DEF sol, rest
      <4> QED
        OBVIOUS
    <3> HIDE DEF h, sol, rest
    <3> QED
      BY <2>4, <3>1
  <2>6. Solves(h, T)
    <3> HIDE DEF h
    <3> QED
      BY <2>3, <2>5
  <2> QED
    <3> HIDE DEF Solves, h
    <3> QED
      BY <2>6
<1>3. S \in G
  <2>1. SUBSET S \subseteq G
    <3> HIDE DEF G
    <3> QED
      BY <1>2, BySubsets
  <2> QED
    BY <2>1
<1>4. PICK f : Solves(f, S)
  BY <1>3
<1> QED
  BY <1>4 DEF Folding

(* What a fold keeps: its value on a set rests on that on a smaller one.     *)
LEMMA FoldStays ==
  ASSUME NEW D, IsFiniteSet(D), NEW R, NEW g,
         \A T \in SUBSET D : \/ g[T] \in R
                             \/ \E x \in T : g[T \ {x}] \in R => g[T] \in R
  PROVE  g[D] \in R
<1> DEFINE G == {T \in SUBSET D : g[T] \in R}
<1>1. ASSUME NEW T \in SUBSET D, \A U \in SUBSET T : U # T => U \in G
      PROVE  T \in G
  <2>1. SUFFICES ASSUME NEW x \in T, g[T \ {x}] \in R => g[T] \in R
                 PROVE  T \in G
    OBVIOUS
  <2>2. T \ {x} \in SUBSET T /\ T \ {x} # T
    OBVIOUS
  <2>3. g[T \ {x}] \in R
    BY <1>1, <2>2
  <2> QED BY <2>1, <2>3
<1>2. SUBSET D \subseteq G
  <2> HIDE DEF G
  <2> QED BY <1>1, BySubsets
<1> QED BY <1>2

(* Places of a sequence have a last one.                                     *)
LEMMA LastPlace ==
  ASSUME NEW n \in Nat, NEW T \in SUBSET (1 .. n), T # {}
  PROVE  Max(T) \in T /\ \A x \in T : x <= Max(T)
<1> DEFINE back == {n - x : x \in T}
<1>0. \A x \in T : x \in 1 .. n
  OBVIOUS
<1>1. back \in SUBSET Nat /\ back # {}
  <2>1. \A x \in T : n - x \in Nat
    BY <1>0
  <2>2. \A b \in back : b \in Nat
    BY <2>1
  <2> QED BY <2>2
<1>2. PICK b \in back : \A c \in back : b <= c
  <2> HIDE DEF back
  <2> QED BY <1>1, SmallestOf
<1>3. PICK m \in T : b = n - m
  BY <1>2
<1>4. \A x \in T : m >= x
  <2> SUFFICES ASSUME NEW x \in T PROVE m >= x
    OBVIOUS
  <2>1. n - x \in back
    OBVIOUS
  <2>2. n - m <= n - x /\ m \in 1 .. n /\ x \in 1 .. n
    BY <1>2, <1>3, <2>1
  <2> QED BY <2>2
<1>5. \E x \in T : \A y \in T : x >= y
  BY <1>4
<1>6. Max(T) \in T /\ \A y \in T : Max(T) >= y
  BY <1>5 DEF Max
<1> QED BY <1>6

(* Folding along a sequence: each value takes the result one step further.   *)
LastPick(n) == [T \in (SUBSET (1 .. n)) \ {{}} |-> Max(T)]

(* Taking the last place picks an element of every set of places.            *)
LEMMA LastPicks ==
  ASSUME NEW n \in Nat
  PROVE  Picks(LastPick(n), 1 .. n)
<1>1. \A T \in (SUBSET (1 .. n)) \ {{}} : Max(T) \in T /\ Max(T) \in 1 .. n
  BY LastPlace
<1> QED BY <1>1 DEF Picks, LastPick

-----------------------------------------------------------------------------

(* A sequence with one element replaced is one of the same values.           *)
LEMMA ReplacedIn ==
  ASSUME NEW C, NEW a \in Seq(C), NEW c \in C, NEW i
  PROVE  [a EXCEPT ![i] = c] \in Seq(C)
<1> DEFINE n == Len(a)
           b == [a EXCEPT ![i] = c]
<1>1. n \in Nat /\ a \in [1 .. n -> C]
  OBVIOUS
<1>2. b \in [1 .. n -> C]
  <2> HIDE DEF n
  <2> QED BY <1>1
<1> HIDE DEF n, b
<1>3. b \in Seq(C)
  BY <1>1, <1>2
<1> QED BY <1>3 DEF b

(* A candidate is added, takes a place or is dropped; what is kept are       *)
(* candidates.                                                               *)
LEMMA ConsiderKeeps ==
  ASSUME NEW C, NEW a \in Seq(C), NEW c \in C
  PROVE  Consider(a, c) \in Seq(C)
<1> DEFINE hits == {i \in DOMAIN a : /\ a[i].page = c.page
                                     /\ Duplicates(a[i], c) \/ Outranks(a[i], c)}
<1>1. Append(a, c) \in Seq(C)
  OBVIOUS
<1>2. \A i : [a EXCEPT ![i] = c] \in Seq(C)
  BY ReplacedIn
<1>3. Consider(a, c) \in {Append(a, c), a} \cup {[a EXCEPT ![i] = c] : i \in {Min(hits)}}
  BY DEF Consider
<1> HIDE DEF hits
<1> QED BY <1>1, <1>2, <1>3

(* The same when a structural candidate is merged in.                        *)
LEMMA MergeKeeps ==
  ASSUME NEW C, NEW a \in Seq(C), NEW c \in C
  PROVE  MergeStructural(a, c) \in Seq(C)
<1> DEFINE same == {i \in DOMAIN a :
                      /\ a[i].page = c.page /\ a[i].type = c.type
                      /\ a[i].value = c.value /\ IouAtLeast(a[i], c, 35)}
<1>1. Append(a, c) \in Seq(C)
  OBVIOUS
<1>2. \A i : [a EXCEPT ![i] = c] \in Seq(C)
  BY ReplacedIn
<1>3. MergeStructural(a, c) \in {Append(a, c), a} \cup {[a EXCEPT ![i] = c] : i \in {Min(same)}}
  BY DEF MergeStructural
<1> HIDE DEF same
<1> QED BY <1>1, <1>2, <1>3

(* detect_all considers one candidate after the other.                       *)
LEMMA ConsiderUnfolds ==
  ASSUME NEW C, NEW s \in Seq(C)
  PROVE  \E g : /\ FoldLeft(Consider, <<>>, s) = g[1 .. Len(s)]
                /\ \A T \in SUBSET (1 .. Len(s)) :
                     g[T] = IF T = {} THEN <<>> ELSE Consider(g[T \ {Max(T)}], s[Max(T)])
<1> DEFINE D == 1 .. Len(s)
           Eqn(g) == g = [T \in SUBSET D |->
                            IF T = {} THEN <<>> ELSE Consider(g[T \ {Max(T)}], s[Max(T)])]
           fold == CHOOSE g : Eqn(g)
           step == [x \in D |-> [a \in Seq(C) |-> Consider(a, s[x])]]
           pick == LastPick(Len(s))
<1>1. FoldLeft(Consider, <<>>, s) = fold[D]
  <2>1. DOMAIN s = D
    OBVIOUS
  <2>2. FoldLeft(Consider, <<>>, s)
          = MapThenFoldSet(LAMBDA c, a : Consider(a, c), <<>>, LAMBDA i : s[i], LAMBDA T : Max(T), D)
    BY <2>1 DEF FoldLeft
  <2> HIDE DEF D
  <2> QED BY <2>2 DEF MapThenFoldSet
<1>2. Len(s) \in Nat /\ IsFiniteSet(D) /\ \A x \in D : s[x] \in C
  BY FS_Interval
<1>3. step \in [D -> [Seq(C) -> Seq(C)]] /\ \A x \in D, a \in Seq(C) : step[x][a] = Consider(a, s[x])
  BY <1>2, ConsiderKeeps
<1>4. \A T \in (SUBSET D) \ {{}} : pick[T] = Max(T) /\ Max(T) \in T /\ Max(T) \in D
  BY <1>2, LastPlace DEF LastPick
<1>5. <<>> \in Seq(C)
  OBVIOUS
<1>6. PICK g \in [SUBSET D -> Seq(C)] : Folding(g, D, <<>>, step, pick)
  <2>1. Picks(pick, D)
    BY <1>2, LastPicks
  <2> HIDE DEF step, pick, D
  <2> QED BY <1>2, <1>3, <1>5, <2>1, FoldExists
<1>7. Eqn(g)
  <2>1. ASSUME NEW T \in SUBSET D
        PROVE  g[T] = IF T = {} THEN <<>> ELSE Consider(g[T \ {Max(T)}], s[Max(T)])
    <3>1. g[T] = IF T = {} THEN <<>> ELSE step[pick[T]][g[T \ {pick[T]}]]
      BY <1>6 DEF Folding
    <3>2. CASE T = {}
      BY <3>1, <3>2
    <3>3. CASE T # {}
      <4>1. pick[T] = Max(T) /\ Max(T) \in D
        BY <1>4, <3>3
      <4>2. g[T \ {Max(T)}] \in Seq(C)
        BY <1>6
      <4> HIDE DEF step, pick, D
      <4> QED BY <1>3, <3>1, <3>3, <4>1, <4>2
    <3> QED BY <3>2, <3>3
  <2> HIDE DEF D
  <2> QED BY <1>6, <2>1
<1>8. Eqn(fold)
  <2> HIDE DEF Eqn
  <2> QED BY <1>7
<1> HIDE DEF fold
<1>9. \A T \in SUBSET D : fold[T] = IF T = {} THEN <<>> ELSE Consider(fold[T \ {Max(T)}], s[Max(T)])
  BY <1>8
<1> QED BY <1>1, <1>9

(* What is kept of them are candidates.                                      *)
LEMMA ConsideredAll ==
  ASSUME NEW C, NEW s \in Seq(C)
  PROVE  FoldLeft(Consider, <<>>, s) \in Seq(C)
<1> DEFINE D == 1 .. Len(s)
<1>1. Len(s) \in Nat /\ IsFiniteSet(D) /\ \A x \in D : s[x] \in C
  BY FS_Interval
<1>2. PICK fold : /\ FoldLeft(Consider, <<>>, s) = fold[D]
                  /\ \A T \in SUBSET D :
                       fold[T] = IF T = {} THEN <<>> ELSE Consider(fold[T \ {Max(T)}], s[Max(T)])
  BY ConsiderUnfolds
<1>3. ASSUME NEW T \in SUBSET D
       PROVE  \/ fold[T] \in Seq(C)
              \/ \E x \in T : fold[T \ {x}] \in Seq(C) => fold[T] \in Seq(C)
  <2>1. CASE T = {}
    <3>1. fold[T] = <<>>
      BY <1>2, <2>1
    <3>2. <<>> \in Seq(C)
      OBVIOUS
    <3> QED BY <3>1, <3>2
  <2>2. CASE T # {}
    <3>1. Max(T) \in T /\ Max(T) \in D /\ s[Max(T)] \in C
      BY <1>1, LastPlace, <2>2
    <3>2. fold[T] = Consider(fold[T \ {Max(T)}], s[Max(T)])
      BY <1>2, <2>2
    <3>3. fold[T \ {Max(T)}] \in Seq(C) => fold[T] \in Seq(C)
      <4> DEFINE rest == fold[T \ {Max(T)}]
                 c == s[Max(T)]
      <4> HIDE DEF rest, c
      <4>1. rest \in Seq(C) => Consider(rest, c) \in Seq(C)
        BY <3>1, ConsiderKeeps DEF c
      <4> QED BY <3>2, <4>1 DEF rest, c
    <3> QED BY <3>1, <3>3
  <2> QED BY <2>1, <2>2
<1>4. fold[D] \in Seq(C)
  <2> HIDE DEF D
  <2> QED BY <1>1, <1>3, FoldStays
<1> QED BY <1>2, <1>4

(* And so for all structural candidates.                                     *)
LEMMA MergedAll ==
  ASSUME NEW C, NEW base \in Seq(C), NEW s \in Seq(C)
  PROVE  FoldLeft(MergeStructural, base, s) \in Seq(C)
<1> DEFINE D == 1 .. Len(s)
           Eqn(g) == g = [T \in SUBSET D |->
                            IF T = {} THEN base ELSE MergeStructural(g[T \ {Max(T)}], s[Max(T)])]
           fold == CHOOSE g : Eqn(g)
           step == [x \in D |-> [a \in Seq(C) |-> MergeStructural(a, s[x])]]
           pick == LastPick(Len(s))
<1>1. FoldLeft(MergeStructural, base, s) = fold[D]
  <2>1. DOMAIN s = D
    OBVIOUS
  <2>2. FoldLeft(MergeStructural, base, s)
          = MapThenFoldSet(LAMBDA c, a : MergeStructural(a, c), base, LAMBDA i : s[i], LAMBDA T : Max(T), D)
    BY <2>1 DEF FoldLeft
  <2> HIDE DEF D
  <2> QED BY <2>2 DEF MapThenFoldSet
<1>2. Len(s) \in Nat /\ IsFiniteSet(D) /\ \A x \in D : s[x] \in C
  BY FS_Interval
<1>3. step \in [D -> [Seq(C) -> Seq(C)]] /\ \A x \in D, a \in Seq(C) : step[x][a] = MergeStructural(a, s[x])
  BY <1>2, MergeKeeps
<1>4. \A T \in (SUBSET D) \ {{}} : pick[T] = Max(T) /\ Max(T) \in T /\ Max(T) \in D
  BY <1>2, LastPlace DEF LastPick
<1>5. base \in Seq(C)
  OBVIOUS
<1>6. PICK g \in [SUBSET D -> Seq(C)] : Folding(g, D, base, step, pick)
  <2>1. Picks(pick, D)
    BY <1>2, LastPicks
  <2> HIDE DEF step, pick, D
  <2> QED BY <1>2, <1>3, <1>5, <2>1, FoldExists
<1>7. Eqn(g)
  <2>1. ASSUME NEW T \in SUBSET D
        PROVE  g[T] = IF T = {} THEN base ELSE MergeStructural(g[T \ {Max(T)}], s[Max(T)])
    <3>1. g[T] = IF T = {} THEN base ELSE step[pick[T]][g[T \ {pick[T]}]]
      BY <1>6 DEF Folding
    <3>2. CASE T = {}
      BY <3>1, <3>2
    <3>3. CASE T # {}
      <4>1. pick[T] = Max(T) /\ Max(T) \in D
        BY <1>4, <3>3
      <4>2. g[T \ {Max(T)}] \in Seq(C)
        BY <1>6
      <4> HIDE DEF step, pick, D
      <4> QED BY <1>3, <3>1, <3>3, <4>1, <4>2
    <3> QED BY <3>2, <3>3
  <2> HIDE DEF D
  <2> QED BY <1>6, <2>1
<1>8. Eqn(fold)
  <2> HIDE DEF Eqn
  <2> QED BY <1>7
<1> HIDE DEF fold
<1>9. \A T \in SUBSET D : fold[T] = IF T = {} THEN base ELSE MergeStructural(fold[T \ {Max(T)}], s[Max(T)])
  BY <1>8
<1>10. ASSUME NEW T \in SUBSET D
       PROVE  \/ fold[T] \in Seq(C)
              \/ \E x \in T : fold[T \ {x}] \in Seq(C) => fold[T] \in Seq(C)
  <2>1. CASE T = {}
    BY <1>5, <1>9, <2>1
  <2>2. CASE T # {}
    <3>1. Max(T) \in T /\ Max(T) \in D /\ s[Max(T)] \in C
      BY <1>2, <1>4, <2>2
    <3>2. fold[T] = MergeStructural(fold[T \ {Max(T)}], s[Max(T)])
      BY <1>9, <2>2
    <3>3. fold[T \ {Max(T)}] \in Seq(C) => fold[T] \in Seq(C)
      <4> DEFINE rest == fold[T \ {Max(T)}]
                 c == s[Max(T)]
      <4> HIDE DEF rest, c
      <4>1. rest \in Seq(C) => MergeStructural(rest, c) \in Seq(C)
        BY <3>1, MergeKeeps DEF c
      <4> QED BY <3>2, <4>1 DEF rest, c
    <3> QED BY <3>1, <3>3
  <2> QED BY <2>1, <2>2
<1>11. fold[D] \in Seq(C)
  <2> HIDE DEF D
  <2> QED BY <1>2, <1>10, FoldStays
<1> QED BY <1>1, <1>11

-----------------------------------------------------------------------------
(* Findings *)

(* The first position of a rectangle.                                        *)
LEMMA FirstOf ==
  ASSUME NEW T, T # {}, \A x \in T : x \in Nat
  PROVE  Min(T) \in T /\ Min(T) \in Nat /\ \A x \in T : Min(T) <= x
<1>1. \E m \in T : \A k \in T : m <= k
  <2>1. T \in SUBSET Nat
    OBVIOUS
  <2> QED BY <2>1, SmallestOf
<1>2. Min(T) \in T /\ \A k \in T : Min(T) <= k
  BY <1>1 DEF Min
<1> QED BY <1>2

(* A finite set, listed in any order, is a sequence of its values.           *)
LEMMA ListedSet ==
  ASSUME NEW S, IsFiniteSet(S)
  PROVE  SetToSeq(S) \in Seq(S) /\ ValuesOf(SetToSeq(S)) = S
<1> DEFINE n == Cardinality(S)
<1>1. n \in Nat /\ ExistsBijection(1 .. n, S)
  BY FS_CardinalityType
<1>2. \E f \in [1 .. n -> S] : IsInjective(f)
  <2>1. PICK f \in Bijection(1 .. n, S) : TRUE
    BY <1>1 DEF ExistsBijection
  <2>2. f \in Injection(1 .. n, S)
    BY <2>1 DEF Bijection
  <2> HIDE DEF n
  <2> QED BY <2>2 DEF Injection
<1>3. SetToSeq(S) \in [1 .. n -> S] /\ IsInjective(SetToSeq(S))
  <2> HIDE DEF n
  <2> QED BY <1>2 DEF SetToSeq, n
<1>4. ValuesOf(SetToSeq(S)) = S
  <2> DEFINE f == SetToSeq(S)
  <2>1. f \in Injection(1 .. n, S)
    <3> HIDE DEF f, n
    <3> QED BY <1>3 DEF Injection, f
  <2>2. Cardinality(1 .. n) = n
    BY <1>1, FS_Interval
  <2> HIDE DEF f
  <2>3. f \in Surjection(1 .. n, S)
    BY <2>1, <2>2, FS_Injection
  <2> HIDE DEF n
  <2>4. f \in [1 .. n -> S] /\ \A t \in S : \E k \in 1 .. n : f[k] = t
    BY <2>3 DEF Surjection
  <2> QED BY <2>4 DEF ValuesOf, f
<1> HIDE DEF n
<1> QED BY <1>1, <1>3, <1>4

(* Every type has its place in the order of the types.                       *)
LEMMA TypesAreRanked ==
  ASSUME NEW type \in EntityTypes
  PROVE  TypeRank(type) \in DOMAIN TypeOrder /\ TypeRank(type) \in Nat /\ TypeOrder[TypeRank(type)] = type
<1>1. \E i \in DOMAIN TypeOrder : TypeOrder[i] = type
  <2>1. DOMAIN TypeOrder = 1 .. 26
    BY DEF TypeOrder
  <2>2. type \in {TypeOrder[1], TypeOrder[2], TypeOrder[3], TypeOrder[4], TypeOrder[5],
                  TypeOrder[6], TypeOrder[7], TypeOrder[8], TypeOrder[9], TypeOrder[10],
                  TypeOrder[11], TypeOrder[12], TypeOrder[13], TypeOrder[14], TypeOrder[15],
                  TypeOrder[16], TypeOrder[17], TypeOrder[18], TypeOrder[19], TypeOrder[20],
                  TypeOrder[21], TypeOrder[22], TypeOrder[23], TypeOrder[24], TypeOrder[25],
                  TypeOrder[26]}
    BY DEF TypeOrder, EntityTypes, DIRECT_TYPES, QUASI_TYPES, VISUAL_TYPES, CREDENTIAL_TYPES
  <2> HIDE DEF TypeOrder
  <2> QED BY <2>1, <2>2
<1>2. DOMAIN TypeOrder \subseteq Nat
  BY DEF TypeOrder
<1> HIDE DEF TypeOrder
<1> QED BY <1>1, <1>2 DEF TypeRank

(* The key that orders findings by their place is a tuple of numbers.        *)
LEMMA PlaceKeys ==
  ASSUME NEW c, IsFinding(c)
  PROVE  <<c.page, Min(c.box), TypeRank(c.type)>> \in [1 .. 3 -> Int]
<1>1. c.page \in Int /\ Min(c.box) \in Int /\ TypeRank(c.type) \in Int
  BY FirstOf, TypesAreRanked DEF IsFinding
<1> QED BY <1>1

(* So is the key that detect_all sorts candidates by.                        *)
LEMMA SortKeys ==
  ASSUME NEW c, IsFinding(c), c.origin # "structural"
  PROVE  SortKey(c) \in [1 .. 8 -> Int]
<1>1. c.page \in Int /\ Min(c.box) \in Int /\ 100 - c.conf \in Int
  BY FirstOf DEF IsFinding
<1>2. Priority(c.type) \in Int
  BY DEF Priority
<1>3. \A b : Flag(b) \in Int /\ 1 - Flag(b) \in Int
  BY DEF Flag
<1>4. (CHOOSE i \in DOMAIN Detectors : Detectors[i] = c.origin) \in Int
  <2>1. \E i \in DOMAIN Detectors : Detectors[i] = c.origin
    BY DEF IsFinding, ToSet
  <2>2. DOMAIN Detectors \subseteq Int
    BY DEF Detectors
  <2> HIDE DEF Detectors
  <2> QED BY <2>1, <2>2
<1> DEFINE last == CHOOSE i \in DOMAIN Detectors : Detectors[i] = c.origin
           a == c.page
           b == Min(c.box)
           d == 1 - Flag(IsField(c))
           e == Priority(c.type)
           f == Flag(IsV5(c))
           g == Flag(IsV3(c))
           h == 100 - c.conf
<1>5. SortKey(c) = <<a, b, d, e, f, g, h, last>>
  BY DEF SortKey
<1>6. a \in Int /\ b \in Int /\ d \in Int /\ e \in Int /\ f \in Int /\ g \in Int /\ h \in Int
      /\ last \in Int
  BY <1>1, <1>2, <1>3, <1>4
<1> HIDE DEF a, b, d, e, f, g, h, last
<1> QED BY <1>5, <1>6

(* Whatever is kept of a sequence, sorted or replaced is of what it had.     *)
LEMMA FilteredIn ==
  ASSUME NEW S, NEW s \in Seq(S), NEW places \in SUBSET (DOMAIN s)
  PROVE  Where(s, places) \in Seq(S)
<1>1. places \in SUBSET Nat /\ IsFiniteSet(places)
  <2>1. IsFiniteSet(1 .. Len(s)) /\ DOMAIN s = 1 .. Len(s) /\ 1 .. Len(s) \subseteq Nat
    BY FS_Interval
  <2> QED BY <2>1, FS_Subset
<1>2. Where(s, places) \in Seq({s[k] : k \in places})
  BY <1>1, WhereKeeps
<1>3. {s[k] : k \in places} \subseteq S
  OBVIOUS
<1> QED BY <1>2, <1>3, SeqWidens

(* Findings sorted by place are the same findings.                           *)
LEMMA ByPlaceIn ==
  ASSUME NEW S, \A c \in S : IsFinding(c), NEW s \in Seq(S)
  PROVE  ByPlace(s) \in Seq(S)
<1> DEFINE keys == [k \in DOMAIN s |-> <<s[k].page, Min(s[k].box), TypeRank(s[k].type)>>]
<1>1. DOMAIN s = 1 .. Len(s) /\ Len(s) \in Nat /\ ValuesOf(s) \subseteq S
  BY DEF ValuesOf
<1>2. keys \in [1 .. Len(s) -> [1 .. 3 -> Int]]
  BY <1>1, PlaceKeys DEF ValuesOf
<1>3. ByPlace(s) = SortedBy(s, keys)
  BY DEF ByPlace
<1> HIDE DEF keys
<1>4. SortedBy(s, keys) \in Seq(ValuesOf(s))
  BY <1>1, <1>2, SortedKeeps
<1> QED BY <1>1, <1>3, <1>4, SeqWidens

(* detect_all returns candidates that it was given.                          *)
LEMMA DetectedIn ==
  ASSUME NEW S, IsFiniteSet(S), \A c \in S : IsFinding(c) /\ c.origin # "structural"
  PROVE  detect_all(S) \in Seq(S)
<1> DEFINE found == SetToSeq(S)
           keys == [k \in DOMAIN found |-> SortKey(found[k])]
           accepted == FoldLeft(Consider, <<>>, SortedBy(found, keys))
<1>1. found \in Seq(S)
  BY ListedSet
<1>2. DOMAIN found = 1 .. Len(found) /\ Len(found) \in Nat /\ ValuesOf(found) \subseteq S
  <2> HIDE DEF found
  <2> QED BY <1>1 DEF ValuesOf
<1>3. keys \in [1 .. Len(found) -> [1 .. 8 -> Int]]
  <2> HIDE DEF found
  <2>1. \A k \in 1 .. Len(found) : found[k] \in S
    BY <1>1
  <2> QED BY <1>2, <2>1, SortKeys
<1>4. SortedBy(found, keys) \in Seq(S)
  <2> HIDE DEF found, keys
  <2>1. SortedBy(found, keys) \in Seq(ValuesOf(found))
    BY <1>2, <1>3, SortedKeeps
  <2> QED BY <1>2, <2>1, SeqWidens
<1>5. accepted \in Seq(S)
  <2> HIDE DEF found, keys
  <2> QED BY <1>4, ConsideredAll
<1>6. detect_all(S) = Where(accepted, {k \in DOMAIN accepted : ~Shadowed(accepted, accepted[k])})
  BY DEF detect_all
<1> HIDE DEF accepted
<1> QED BY <1>5, <1>6, FilteredIn

(* A candidate that an accepted detection has a say about overlaps it.       *)
LEMMA HitsTouch ==
  ASSUME NEW e, NEW c, IsFiniteSet(c.box), c.box # {}, IsFiniteSet(e.box), e.box # {},
         e.page = c.page, Duplicates(e, c) \/ Outranks(e, c)
  PROVE  Touches(e, c) /\ Touches(c, e)
<1>1. SUFFICES (e.chars \cap c.chars # {}) \/ (e.box \cap c.box # {})
  BY DEF Touches
<1>2. SUFFICES ASSUME e.chars \cap c.chars = {}, e.box \cap c.box = {}
               PROVE  FALSE
  OBVIOUS
<1>3. ~Shared(e, c)
  BY <1>2 DEF Shared
<1>4. Cardinality(e.box \cap c.box) = 0 /\ Cardinality(c.box \cap e.box) = 0
  <2>1. c.box \cap e.box = {}
    BY <1>2
  <2> QED BY <1>2, <2>1, FS_EmptySet
<1>5. \A p : ~IouAtLeast(e, c, p)
  BY <1>4 DEF IouAtLeast
<1>6. /\ Cardinality(c.box) \in Nat /\ Cardinality(c.box) # 0
      /\ Cardinality(e.box) \in Nat /\ Cardinality(e.box) # 0
  BY FS_CardinalityType, FS_EmptySet
<1>7. ~ContainedAtLeast(c, e, 80) /\ ~ContainedAtLeast(e, c, 70)
  BY <1>4, <1>6 DEF ContainedAtLeast
<1> QED BY <1>3, <1>5, <1>7 DEF Duplicates, Outranks

(* Candidates that overlap no other ones.                                    *)
IsCluster(K, C) == K \subseteq C /\ \A d \in K, e \in C : Touches(d, e) => e \in K
Holds(a, K) == \E k \in DOMAIN a : a[k] \in K

(* A cluster stays in the list, and is in it once one of it was considered.  *)
LEMMA ConsiderHolds ==
  ASSUME NEW C, \A c \in C : IsFinding(c), NEW K, IsCluster(K, C), NEW a \in Seq(C),
         NEW c \in C, c \in K \/ Holds(a, K)
  PROVE  Holds(Consider(a, c), K)
<1> DEFINE hits == {i \in DOMAIN a : /\ a[i].page = c.page
                                     /\ Duplicates(a[i], c) \/ Outranks(a[i], c)}
           m == Min(hits)
           taken == [a EXCEPT ![m] = c]
<1>1. Len(a) \in Nat /\ DOMAIN a = 1 .. Len(a) /\ \A i \in DOMAIN a : a[i] \in C
  OBVIOUS
<1>2. \A i \in hits : Touches(a[i], c) /\ Touches(c, a[i])
  <2> SUFFICES ASSUME NEW i \in hits PROVE Touches(a[i], c) /\ Touches(c, a[i])
    OBVIOUS
  <2> DEFINE e == a[i]
  <2>1. e \in C /\ e.page = c.page /\ (Duplicates(e, c) \/ Outranks(e, c))
    BY <1>1
  <2> HIDE DEF e
  <2>2. Touches(e, c) /\ Touches(c, e)
    BY <2>1, HitsTouch DEF IsFinding
  <2> QED BY <2>2 DEF e
<1>3. \A i \in hits : a[i] \in K <=> c \in K
  <2> HIDE DEF hits
  <2>1. \A i \in hits : i \in DOMAIN a
    BY DEF hits
  <2> QED BY <1>1, <1>2, <2>1 DEF IsCluster
<1>4. /\ hits = {} => Consider(a, c) = Append(a, c)
      /\ hits # {} => Consider(a, c) \in {taken, a}
  BY DEF Consider
<1>5. hits # {} => m \in hits /\ m \in DOMAIN a
  <2> SUFFICES ASSUME hits # {} PROVE m \in hits /\ m \in DOMAIN a
    OBVIOUS
  <2>1. hits \subseteq DOMAIN a /\ \A x \in hits : x \in Nat
    BY <1>1
  <2> HIDE DEF hits
  <2> QED BY <2>1, FirstOf
<1> HIDE DEF hits, m
<1>6. CASE hits = {}
  <2>1. Holds(Append(a, c), K)
    <3> DEFINE b == Append(a, c)
    <3>1. /\ b[Len(a) + 1] = c /\ Len(a) + 1 \in DOMAIN b
          /\ \A k \in 1 .. Len(a) : b[k] = a[k] /\ k \in DOMAIN b
      BY <1>1
    <3> HIDE DEF b
    <3> QED BY <1>1, <3>1 DEF Holds, b
  <2> QED BY <1>4, <1>6, <2>1
<1>7. CASE hits # {}
  <2>1. Holds(a, K)
    BY <1>3, <1>5, <1>7 DEF Holds
  <2>2. Holds(taken, K)
    <3>1. PICK k \in DOMAIN a : a[k] \in K
      BY <2>1 DEF Holds
    <3>2. DOMAIN taken = DOMAIN a /\ taken[m] = c /\ \A i \in DOMAIN a : i # m => taken[i] = a[i]
      BY <1>5, <1>7
    <3>3. m \in DOMAIN a /\ (a[m] \in K => c \in K)
      BY <1>3, <1>5, <1>7
    <3> HIDE DEF taken
    <3>4. CASE k = m
      BY <3>1, <3>2, <3>3, <3>4 DEF Holds
    <3>5. CASE k # m
      BY <3>1, <3>2, <3>5 DEF Holds
    <3> QED BY <3>4, <3>5
  <2> QED BY <1>4, <1>7, <2>1, <2>2
<1> QED BY <1>6, <1>7

(* So it is in the list at the end.                                          *)
LEMMA ConsideredHolds ==
  ASSUME NEW C, \A c \in C : IsFinding(c), NEW K, IsCluster(K, C), NEW s \in Seq(C),
         Holds(s, K)
  PROVE  Holds(FoldLeft(Consider, <<>>, s), K)
<1> DEFINE D == 1 .. Len(s)
<1>1. Len(s) \in Nat /\ DOMAIN s = D /\ IsFiniteSet(D) /\ \A x \in D : s[x] \in C
  BY FS_Interval
<1>2. PICK fold : /\ FoldLeft(Consider, <<>>, s) = fold[D]
                  /\ \A T \in SUBSET D :
                       fold[T] = IF T = {} THEN <<>> ELSE Consider(fold[T \ {Max(T)}], s[Max(T)])
  BY ConsiderUnfolds
<1> DEFINE G == {T \in SUBSET D : /\ fold[T] \in Seq(C)
                                  /\ (\E x \in T : s[x] \in K) => Holds(fold[T], K)}
<1>3. ASSUME NEW T \in SUBSET D, \A U \in SUBSET T : U # T => U \in G
      PROVE  T \in G
  <2>1. CASE T = {}
    <3>1. fold[T] = <<>>
      BY <1>2, <2>1
    <3>2. <<>> \in Seq(C)
      OBVIOUS
    <3> QED BY <2>1, <3>1, <3>2
  <2>2. CASE T # {}
    <3> DEFINE x == Max(T)
               rest == fold[T \ {x}]
               c == s[x]
    <3>1. x \in T /\ x \in D
      BY <1>1, <2>2, LastPlace
    <3>2. fold[T] = Consider(rest, c) /\ c \in C
      BY <1>1, <1>2, <2>2, <3>1
    <3> HIDE DEF x
    <3>3. T \ {x} \in SUBSET T /\ T \ {x} # T
      BY <3>1
    <3>4. T \ {x} \in G
      <4> HIDE DEF G
      <4> QED BY <1>3, <3>3
    <3>5. rest \in Seq(C) /\ ((\E y \in T \ {x} : s[y] \in K) => Holds(rest, K))
      BY <3>4
    <3>6. (\E y \in T : s[y] \in K) => c \in K \/ Holds(rest, K)
      BY <3>5
    <3> HIDE DEF rest, c
    <3>7. Consider(rest, c) \in Seq(C)
      BY <3>2, <3>5, ConsiderKeeps
    <3>8. (\E y \in T : s[y] \in K) => Holds(Consider(rest, c), K)
      BY <3>2, <3>5, <3>6, ConsiderHolds
    <3> QED BY <3>2, <3>7, <3>8
  <2> QED BY <2>1, <2>2
<1>4. D \in G
  <2>1. SUBSET D \subseteq G
    <3> HIDE DEF G, D
    <3> QED BY <1>1, <1>3, BySubsets
  <2> QED BY <2>1
<1> QED BY <1>1, <1>2, <1>4 DEF Holds

(* Of a cluster the filter for v5 detections leaves one.                     *)
LEMMA FilterHolds ==
  ASSUME NEW C, NEW K, IsCluster(K, C), NEW a \in Seq(C), Holds(a, K)
  PROVE  \E k \in DOMAIN a : a[k] \in K /\ ~Shadowed(a, a[k])
<1>1. PICK k \in DOMAIN a : a[k] \in K
  BY DEF Holds
<1>2. CASE ~Shadowed(a, a[k])
  BY <1>1, <1>2
<1>3. CASE Shadowed(a, a[k])
  <2> DEFINE c == a[k]
  <2>0. c \in K
    BY <1>1
  <2>1. PICK o \in ToSet(a) :
           /\ o.page = c.page /\ o.type = c.type /\ Shared(o, c)
           /\ IF c.type = "STREET_ADDRESS" THEN IsV5(c) /\ ~IsV5(o) ELSE IsV5(o) /\ ~IsV5(c)
    BY <1>3 DEF Shadowed
  <2>2. PICK j \in DOMAIN a : o = a[j]
    BY <2>1 DEF ToSet
  <2>3. o \in C
    BY <2>2
  <2> HIDE DEF c
  <2>4. Touches(c, o)
    BY <2>1 DEF Touches, Shared
  <2>5. o \in K
    BY <2>0, <2>3, <2>4 DEF IsCluster
  <2>6. ~Shadowed(a, o)
    BY <2>1 DEF Shadowed
  <2> QED BY <2>2, <2>5, <2>6
<1> QED BY <1>2, <1>3

(* Merging resolves overlaps, it does not forget: whatever overlaps among    *)
(* the candidates of a file, in chains of any length, detect_all keeps one   *)
(* of them, whichever of its many tests decides between two.  Only the       *)
(* sentence that EveryCandidateIsAnswered says of a single candidate needs    *)
(* its last exception.                                                       *)
THEOREM NoClusterIsForgotten ==
  ASSUME NEW C, IsFiniteSet(C), \A c \in C : IsFinding(c) /\ c.origin # "structural",
         NEW K, IsCluster(K, C), K # {}
  PROVE  \E m \in ToSet(detect_all(C)) : m \in K
<1> DEFINE found == SetToSeq(C)
           keys == [k \in DOMAIN found |-> SortKey(found[k])]
           sorted == SortedBy(found, keys)
           accepted == FoldLeft(Consider, <<>>, sorted)
           places == {k \in DOMAIN accepted : ~Shadowed(accepted, accepted[k])}
<1>1. found \in Seq(C) /\ ValuesOf(found) = C
  BY ListedSet
<1>2. DOMAIN found = 1 .. Len(found) /\ Len(found) \in Nat
  <2> HIDE DEF found
  <2> QED BY <1>1
<1>3. keys \in [1 .. Len(found) -> [1 .. 8 -> Int]]
  <2> HIDE DEF found
  <2>1. \A k \in 1 .. Len(found) : found[k] \in C
    BY <1>1
  <2> QED BY <1>2, <2>1, SortKeys
<1>4. sorted \in Seq(C) /\ ValuesOf(sorted) = C
  <2> HIDE DEF found, keys
  <2>1. SortedBy(found, keys) \in Seq(ValuesOf(found))
    BY <1>2, <1>3, SortedKeeps
  <2>2. ValuesOf(SortedBy(found, keys)) = ValuesOf(found)
    <3> DEFINE n == Len(found)
               eight == 8
    <3>1. n \in Nat /\ DOMAIN found = 1 .. n /\ eight \in Nat /\ keys \in [1 .. n -> [1 .. eight -> Int]]
      BY <1>2, <1>3
    <3> HIDE DEF n, eight
    <3> QED BY <3>1, SortedKeeps
  <2> QED BY <1>1, <2>1, <2>2
<1>5. Holds(sorted, K)
  <2> HIDE DEF sorted
  <2>1. PICK c \in K : c \in C
    BY DEF IsCluster
  <2> QED BY <1>4, <2>1 DEF Holds, ValuesOf
<1>6. accepted \in Seq(C) /\ Holds(accepted, K)
  <2> HIDE DEF sorted
  <2> QED BY <1>4, <1>5, ConsideredAll, ConsideredHolds
<1>7. detect_all(C) = Where(accepted, places)
  BY DEF detect_all
<1> HIDE DEF accepted
<1>8. PICK k \in DOMAIN accepted : accepted[k] \in K /\ ~Shadowed(accepted, accepted[k])
  BY <1>6, FilterHolds
<1>9. places \in SUBSET Nat /\ IsFiniteSet(places) /\ k \in places
  <2>1. IsFiniteSet(1 .. Len(accepted)) /\ DOMAIN accepted = 1 .. Len(accepted)
        /\ 1 .. Len(accepted) \subseteq Nat
    BY <1>6, FS_Interval
  <2> QED BY <1>8, <2>1, FS_Subset
<1> HIDE DEF places
<1>10. ValuesOf(Where(accepted, places)) = {accepted[j] : j \in places}
  BY <1>9, WhereKeeps
<1>11. accepted[k] \in ToSet(detect_all(C))
  BY <1>7, <1>9, <1>10 DEF ValuesOf, ToSet
<1> QED BY <1>8, <1>11

(* The mentions of a file: a list of findings.                               *)
AreMentions(s) == s \in Seq(ValuesOf(s)) /\ \A k \in DOMAIN s : IsFinding(s[k])

(* A sequence of findings can be the mentions of a file.                     *)
LEMMA ListedMentions ==
  ASSUME NEW S, \A c \in S : IsFinding(c), NEW s \in Seq(S)
  PROVE  AreMentions(s)
<1>1. Len(s) \in Nat /\ DOMAIN s = 1 .. Len(s) /\ \A k \in 1 .. Len(s) : s[k] \in S
  OBVIOUS
<1>2. s \in Seq(ValuesOf(s))
  <2>1. s \in [1 .. Len(s) -> ValuesOf(s)]
    BY <1>1 DEF ValuesOf
  <2> QED BY <1>1, <2>1
<1> QED BY <1>1, <1>2 DEF AreMentions

(* What is reviewed stays a finding.                                         *)
LEMMA ReviewedFinding ==
  ASSUME NEW c, IsFinding(c), NEW r \in Reviews
  PROVE  /\ IsFinding([c EXCEPT !.review = r])
         /\ [c EXCEPT !.review = r].review = r
         /\ [c EXCEPT !.review = r].type = c.type
BY DEF IsFinding

(* Structural candidates are merged in among findings.                       *)
LEMMA WithStructuralIn ==
  ASSUME NEW S, \A c \in S : IsFinding(c), NEW s \in Seq(S),
         NEW T \in SUBSET S, IsFiniteSet(T)
  PROVE  WithStructural(s, T) \in Seq(S)
<1>1. SetToSeq(T) \in Seq(S)
  <2>1. SetToSeq(T) \in Seq(T)
    BY ListedSet
  <2> QED BY <2>1, SeqWidens
<1>2. ByPlace(SetToSeq(T)) \in Seq(S)
  BY <1>1, ByPlaceIn
<1>3. FoldLeft(MergeStructural, s, ByPlace(SetToSeq(T))) \in Seq(S)
  BY <1>2, MergedAll
<1> QED BY <1>3, ByPlaceIn DEF WithStructural

(* The numbering that stabilises a list keeps to the list.                   *)
LEMMA StabilizeIn ==
  ASSUME NEW S, NEW s \in Seq(S)
  PROVE  Stabilize(s) \in Seq(S)
<1> DEFINE places == {k \in DOMAIN s : ~StabilizedAway(s, s[k])}
<1>1. Stabilize(s) = Where(s, places) /\ places \in SUBSET (DOMAIN s)
  BY DEF Stabilize
<1> HIDE DEF places
<1> QED BY <1>1, FilteredIn

(* The filter of unreadable codes only takes away.                           *)
LEMMA VideoFilterIn ==
  ASSUME NEW S, NEW s \in Seq(S)
  PROVE  _filter_video_geometry_only_qr(s) \in Seq(S)
<1> DEFINE places == {k \in DOMAIN s : ~(s[k].type = "QR_CODE" /\ Head(s[k].value)[3] = 0)}
<1>1. _filter_video_geometry_only_qr(s) = Where(s, places) /\ places \in SUBSET (DOMAIN s)
  BY DEF _filter_video_geometry_only_qr
<1> HIDE DEF places
<1> QED BY <1>1, FilteredIn

(* Reviews of one thing over time become one review, which is a finding.     *)
LEMMA CollapseIn ==
  ASSUME NEW S, \A c \in S : IsFinding(c), NEW s \in Seq(S)
  PROVE  AreMentions(_collapse_video_temporal_reviews(s))
<1> DEFINE C == S \cup {[c EXCEPT !.review = "NOT_REQUIRED"] : c \in S}
           t == _collapse_video_temporal_reviews(s)
<1>1. Len(s) \in Nat /\ DOMAIN s = 1 .. Len(s) /\ \A k \in 1 .. Len(s) : s[k] \in S
  OBVIOUS
<1>2. t = [k \in 1 .. Len(s) |-> IF AskedBefore(s, k) THEN [s[k] EXCEPT !.review = "NOT_REQUIRED"]
                                 ELSE s[k]]
  BY <1>1 DEF _collapse_video_temporal_reviews
<1>3. t \in Seq(C)
  <2>1. \A k \in 1 .. Len(s) :
           (IF AskedBefore(s, k) THEN [s[k] EXCEPT !.review = "NOT_REQUIRED"] ELSE s[k]) \in C
    BY <1>1
  <2> HIDE DEF C, t
  <2>2. t \in [1 .. Len(s) -> C]
    BY <1>2, <2>1
  <2> QED BY <1>1, <2>2
<1>4. \A c \in C : IsFinding(c)
  <2>1. "NOT_REQUIRED" \in Reviews
    BY DEF Reviews
  <2> QED BY <2>1, ReviewedFinding
<1> HIDE DEF C, t
<1>5. AreMentions(t)
  BY <1>3, <1>4, ListedMentions
<1> QED BY <1>5 DEF t

(* Whatever the format adds and takes away, what is stored are findings.     *)
LEMMA MentionsOf ==
  ASSUME NEW type, NEW S, IsFiniteSet(S), \A c \in S : IsFinding(c)
  PROVE  AreMentions(Mentions(type, S))
<1> DEFINE structural == {c \in S : c.origin = "structural"}
           found == detect_all(S \ structural)
           whole == WithStructural(found, structural)
           frames == WithStructural(_filter_video_geometry_only_qr(found), structural)
<1>1. structural \in SUBSET S /\ IsFiniteSet(structural) /\ IsFiniteSet(S \ structural)
  BY FS_Subset
<1>2. found \in Seq(S)
  <2> DEFINE rest == S \ structural
  <2>1. IsFiniteSet(rest) /\ \A c \in rest : IsFinding(c) /\ c.origin # "structural"
    BY <1>1
  <2>2. rest \subseteq S
    OBVIOUS
  <2> HIDE DEF rest
  <2>3. detect_all(rest) \in Seq(rest)
    BY <2>1, DetectedIn
  <2>4. detect_all(rest) \in Seq(S)
    BY <2>2, <2>3, SeqWidens
  <2> QED BY <2>4 DEF rest
<1> HIDE DEF structural, found
<1>3. whole \in Seq(S)
  BY <1>1, <1>2, WithStructuralIn
<1>4. frames \in Seq(S)
  <2> DEFINE f == _filter_video_geometry_only_qr(found)
  <2>1. f \in Seq(S)
    BY <1>2, VideoFilterIn
  <2> HIDE DEF f
  <2>2. WithStructural(f, structural) \in Seq(S)
    BY <1>1, <2>1, WithStructuralIn
  <2> QED BY <2>2 DEF f
<1>5. Mentions(type, S) \in {Stabilize(found), Stabilize(whole), found,
                             _collapse_video_temporal_reviews(Stabilize(frames))}
  BY DEF Mentions, structural, found
<1> HIDE DEF whole, frames
<1>6. AreMentions(found) /\ AreMentions(Stabilize(found)) /\ AreMentions(Stabilize(whole))
  BY <1>2, <1>3, StabilizeIn, ListedMentions
<1>7. AreMentions(_collapse_video_temporal_reviews(Stabilize(frames)))
  BY <1>4, StabilizeIn, CollapseIn
<1> QED BY <1>5, <1>6, <1>7

-----------------------------------------------------------------------------
(* The state of a file *)

HasOutput == stage \in {"transformed", "released", "blocked"}

(* What an output was made from is what the file still is.                   *)
OutputHolds ==
  HasOutput =>
    /\ output.level \in Levels
    /\ \/ output.level # 5 /\ output.instructions = Instructions(output.level)
          /\ output.graph = _graph(output.level)
       \/ output.level = 5 /\ document.type = "DATASET"
          /\ output.instructions = Rebound(Instructions(5))
          /\ \E privacy \in {50, 90} : output.graph = Measured(_graph(5), privacy, 80)

FileInv ==
  /\ document \in Documents /\ stage \in FileStages
  /\ AreMentions(mentions)
  /\ OutputHolds
  /\ run.results \subseteq Statuses

(* As long as file, job and mentions stay, instructions and graphs do.       *)
LEMMA SameFile ==
  ASSUME UNCHANGED <<document, job, mentions>>
  PROVE  \A level : Instructions(level)' = Instructions(level) /\ _graph(level)' = _graph(level)
<1>1. document' = document /\ job' = job /\ mentions' = mentions
  OBVIOUS
<1>2. Active' = Active
  BY <1>1 DEF Active
<1>3. \A e : Placeholder(e)' = Placeholder(e)
  BY <1>1 DEF Placeholder
<1>4. \A e : _mentions_by_entity(e)' = _mentions_by_entity(e)
  BY <1>1 DEF _mentions_by_entity
<1>5. _entity_rows' = _entity_rows
  BY <1>1, <1>3, <1>4 DEF _entity_rows
<1>6. \A level : _graph(level)' = _graph(level)
  BY <1>1, <1>5 DEF _graph
<1>7. \A e : _ordinal_map(e)' = _ordinal_map(e)
  BY <1>1, <1>2, <1>3 DEF _ordinal_map
<1>8. \A m, level : Instruction(m, level)' = Instruction(m, level)
  BY <1>1, <1>7 DEF Instruction
<1>9. \A m : RowKey(m)' = RowKey(m)
  BY <1>3 DEF RowKey
<1>10. \A level : Instructions(level)' = Instructions(level)
  BY <1>1, <1>2, <1>8, <1>9 DEF Instructions
<1> QED BY <1>6, <1>10

(* An attack passes, fails or could not run, whatever its input.             *)
LEMMA ResultsAreStatuses ==
  ASSUME NEW file, NEW out, NEW known, NEW instructions, NEW expected, NEW level,
         NEW dismissed, NEW useful, NEW tools
  PROVE  run_red_team(file, out, known, instructions, expected, level, dismissed, useful, tools)
           \subseteq Statuses
<1>1. \A possible, pass : Attempt(possible, pass) \in Statuses
  BY DEF Attempt, Statuses
<1>2. \A k, i : Content_tests(file, out, k, i, tools) \subseteq Statuses
  <2>1. /\ \A k, i : /\ independent_extraction(file, out, k, i, tools) \in Statuses
                     /\ raw_object_stream_scan(out, k, i, tools) \in Statuses
        /\ \A k : direct_identifier_fragment_attack(file, out, k, tools) \in Statuses
    BY <1>1 DEF independent_extraction, raw_object_stream_scan, direct_identifier_fragment_attack
  <2> QED BY <2>1 DEF Content_tests
<1>3. Transformation_tests(file, out, instructions, expected, level, tools) \subseteq Statuses
  <2>1. /\ region_replacement_integrity(file, out, instructions, tools) \in Statuses
        /\ metadata_inspection(out, tools) \in Statuses
        /\ policy_coverage(instructions, expected) \in Statuses
    BY <1>1 DEF region_replacement_integrity, metadata_inspection, policy_coverage
  <2>2. /\ relationship_consistency(instructions, level) \in Statuses
        /\ replacement_presence_attack(file, out, instructions, tools) \in Statuses
    BY <1>1 DEF relationship_consistency, replacement_presence_attack
  <2> QED BY <2>1, <2>2 DEF Transformation_tests
<1>4. /\ \A k, i : /\ secondary_parser_rescan(out, k, i, tools) \in Statuses
                   /\ hidden_channel_scan(out, k, i, tools) \in Statuses
                   /\ ocr_rescan(out, k, i, tools) \in Statuses
      /\ direct_identifier_rescan(file, out, tools) \in Statuses
      /\ structure_preservation(out, tools) \in Statuses
      /\ utility_anchor_preservation(file, out, instructions, tools) \in Statuses
      /\ qr_rescan(file, out, dismissed, tools) \in Statuses
      /\ synthetic_source_record_copy_attack(file, out, tools) \in Statuses
      /\ synthetic_utility_evidence_attack(useful) \in Statuses
  BY <1>1 DEF secondary_parser_rescan, hidden_channel_scan, ocr_rescan,
       direct_identifier_rescan, structure_preservation, utility_anchor_preservation, qr_rescan,
       synthetic_source_record_copy_attack, synthetic_utility_evidence_attack
<1>5. /\ \A k, i : /\ independent_extraction(file, out, k, i, tools) \in Statuses
                   /\ raw_object_stream_scan(out, k, i, tools) \in Statuses
      /\ \A k : /\ _video_fragment_attack_from_text(file, out, k, tools) \in Statuses
                /\ _video_direct_identifier_rescan_document(file, out, k, tools) \in Statuses
                /\ video_frame_ocr_rescan(file, out, k, tools) \in Statuses
      /\ video_visual_identifier_rescan(file, out, tools) \in Statuses
      /\ video_audio_absence(out, tools) \in Statuses
  BY <1>1 DEF independent_extraction, raw_object_stream_scan, _video_fragment_attack_from_text,
       _video_direct_identifier_rescan_document, video_frame_ocr_rescan,
       video_visual_identifier_rescan, video_audio_absence
<1> QED
  BY <1>2, <1>3, <1>4, <1>5 DEF run_red_team

(* What the detectors nominate are findings, and finitely many.              *)
LEMMA NominatedIsFound ==
  ASSUME NEW file \in Documents
  PROVE  IsFiniteSet(Nominated(file)) /\ \A c \in Nominated(file) : IsFinding(c)
<1>1. IsFiniteSet(file.candidates) /\ \A c \in file.candidates : IsFinding(c)
  BY FileAssumption
<1>2. Nominated(file) \in SUBSET file.candidates
  BY DEF Nominated
<1> QED BY <1>1, <1>2, FS_Subset

(* A review changes the review of one mention and nothing else.              *)
LEMMA ReviewKeepsMentions ==
  ASSUME NEW s, AreMentions(s), NEW k \in DOMAIN s, NEW r \in Reviews
  PROVE  AreMentions([s EXCEPT ![k].review = r])
<1> DEFINE c == [s[k] EXCEPT !.review = r]
           t == [s EXCEPT ![k] = c]
           C == ValuesOf(s) \cup {c}
<1>1. [s EXCEPT ![k].review = r] = t
  OBVIOUS
<1>2. IsFinding(c) /\ \A m \in ValuesOf(s) : IsFinding(m)
  BY ReviewedFinding DEF AreMentions, ValuesOf
<1>3. s \in Seq(C)
  <2>1. s \in Seq(ValuesOf(s)) /\ ValuesOf(s) \subseteq C
    BY DEF AreMentions
  <2> HIDE DEF C
  <2> QED BY <2>1, SeqWidens
<1>4. t \in Seq(C)
  <2>1. c \in C
    OBVIOUS
  <2> HIDE DEF C, c
  <2> QED BY <1>3, <2>1, ReplacedIn
<1>5. \A m \in C : IsFinding(m)
  <2> HIDE DEF c
  <2> QED BY <1>2
<1> HIDE DEF C, t, c
<1> QED BY <1>1, <1>4, <1>5, ListedMentions

(* A new file has what the invariant asks for.                               *)
LEMMA FileStart == FileInit => FileInv
<1>1. AreMentions(<<>>)
  BY DEF AreMentions
<1> QED BY <1>1 DEF FileInit, FileInv, FileStages, OutputHolds, HasOutput, NoRun

(* Upload, analysis, review, transformation and verification keep it.        *)
LEMMA FileStep == FileInv /\ [FileNext]_FileVars => FileInv'
<1> SUFFICES ASSUME FileInv, [FileNext]_FileVars
             PROVE  FileInv'
  OBVIOUS
<1>0. document' \in Documents
  BY DEF FileInv, FileNext, FileVars, Analyse, Review, TransformFails, Transform, Store,
         Synthesize, Verify
<1>1. CASE Analyse
  <2>1. AreMentions(mentions')
    BY <1>1, NominatedIsFound, MentionsOf DEF Analyse, FileInv
  <2>2. stage' \in {"analysed", "failed"} /\ run' = run
    BY <1>1 DEF Analyse
  <2> QED BY <1>0, <2>1, <2>2 DEF FileInv, FileStages, OutputHolds, HasOutput
<1>2. ASSUME NEW k \in DOMAIN mentions, NEW action \in {"PROTECT", "IGNORE"}, Review(k, action)
      PROVE  FileInv'
  <2>1. AreMentions(mentions')
    <3>1. action \in Reviews
      BY DEF Reviews
    <3> QED BY <1>2, <3>1, ReviewKeepsMentions DEF Review, FileInv
  <2>2. stage' = "analysed" /\ run' = run
    BY <1>2 DEF Review
  <2> QED BY <1>0, <2>1, <2>2 DEF FileInv, FileStages, OutputHolds, HasOutput
<1>3. ASSUME NEW level \in Levels, TransformFails(level)
      PROVE  FileInv'
  BY <1>0, <1>3 DEF TransformFails, FileInv, FileStages, OutputHolds, HasOutput
<1>4. ASSUME NEW level \in Levels, Transform(level)
      PROVE  FileInv'
  <2>1. /\ stage' = "transformed" /\ run' = NoRun /\ UNCHANGED <<document, job, mentions>>
        /\ output'.level = level /\ output'.instructions = Instructions(level)
        /\ output'.graph = _graph(level) /\ level # 5
    BY <1>4 DEF Transform, Store, Levels
  <2>2. Instructions(level)' = Instructions(level) /\ _graph(level)' = _graph(level)
    BY <2>1, SameFile
  <2>3. OutputHolds'
    BY <2>1, <2>2 DEF OutputHolds
  <2> QED BY <1>0, <2>1, <2>3 DEF FileInv, FileStages, NoRun
<1>5. CASE Synthesize
  <2>1. /\ stage' = "transformed" /\ run' = NoRun /\ UNCHANGED <<document, job, mentions>>
        /\ output'.level = 5 /\ output'.instructions = Rebound(Instructions(5))
        /\ \E privacy \in {50, 90} : output'.graph = Measured(_graph(5), privacy, 80)
        /\ document.type = "DATASET"
    BY <1>5 DEF Synthesize, Store, Transformable
  <2>2. Instructions(5)' = Instructions(5) /\ _graph(5)' = _graph(5)
    BY <2>1, SameFile
  <2>3. OutputHolds'
    BY <2>1, <2>2 DEF OutputHolds, Levels
  <2> QED BY <1>0, <2>1, <2>3 DEF FileInv, FileStages, NoRun
<1>6. CASE Verify
  <2>1. /\ stage = "transformed" /\ stage' \in {"released", "blocked"}
        /\ UNCHANGED <<document, job, mentions, output>>
    BY <1>6 DEF Verify
  <2>2. run'.results \subseteq Statuses
    BY <1>6, ResultsAreStatuses DEF Verify
  <2>3. \A level : Instructions(level)' = Instructions(level) /\ _graph(level)' = _graph(level)
    BY <2>1, SameFile
  <2>4. OutputHolds'
    BY <2>1, <2>3 DEF FileInv, OutputHolds, HasOutput
  <2> QED BY <1>0, <2>1, <2>2, <2>4 DEF FileInv, FileStages
<1>7. CASE UNCHANGED FileVars
  <2>1. UNCHANGED <<stage, document, job, mentions, output, run>>
    BY <1>7 DEF FileVars
  <2>2. \A level : Instructions(level)' = Instructions(level) /\ _graph(level)' = _graph(level)
    BY <2>1, SameFile
  <2>3. OutputHolds'
    BY <2>1, <2>2 DEF FileInv, OutputHolds, HasOutput
  <2> QED BY <2>1, <2>3 DEF FileInv
<1> QED BY <1>1, <1>2, <1>3, <1>4, <1>5, <1>6, <1>7 DEF FileNext

(* It has every variable of the file in its type.                            *)
LEMMA FileIsTyped == FileInv => FileTypeOK
<1> SUFFICES ASSUME FileInv
             PROVE  FileTypeOK
  OBVIOUS
<1>1. \A m \in ToSet(mentions) : m.type \in EntityTypes /\ m.review \in Reviews
  BY DEF FileInv, AreMentions, IsFinding, ToSet
<1>2. HasOutput => output.level \in Levels
  BY DEF FileInv, OutputHolds
<1> QED BY <1>1, <1>2 DEF FileInv, FileTypeOK, HasOutput

-----------------------------------------------------------------------------
(* Linkage *)

(* What takes part is what nobody dismissed.                                 *)
LEMMA ActiveAre ==
  ASSUME AreMentions(mentions)
  PROVE  /\ Active \in Seq(ToSet(mentions))
         /\ ToSet(Active) = {m \in ToSet(mentions) : m.review # "IGNORE"}
<1> DEFINE places == {k \in DOMAIN mentions : mentions[k].review # "IGNORE"}
<1>1. Len(mentions) \in Nat /\ DOMAIN mentions = 1 .. Len(mentions)
  BY DEF AreMentions
<1>2. places \in SUBSET (1 .. Len(mentions)) /\ places \in SUBSET Nat /\ IsFiniteSet(places)
  <2>1. IsFiniteSet(1 .. Len(mentions)) /\ 1 .. Len(mentions) \subseteq Nat
    BY <1>1, FS_Interval
  <2>2. places \in SUBSET (1 .. Len(mentions))
    BY <1>1
  <2> HIDE DEF places
  <2> QED BY <2>1, <2>2, FS_Subset
<1>3. Active = Where(mentions, places)
  BY DEF Active
<1>4. /\ Where(mentions, places) \in Seq({mentions[k] : k \in places})
      /\ ValuesOf(Where(mentions, places)) = {mentions[k] : k \in places}
  <2> HIDE DEF places
  <2> QED BY <1>2, WhereKeeps
<1>5. {mentions[k] : k \in places} = {m \in ToSet(mentions) : m.review # "IGNORE"}
  BY DEF ToSet
<1>6. {mentions[k] : k \in places} \subseteq ToSet(mentions)
  BY <1>5
<1> HIDE DEF places
<1>7. Active \in Seq(ToSet(mentions))
  BY <1>3, <1>4, <1>6, SeqWidens
<1>8. ToSet(Active) = ValuesOf(Active)
  BY DEF ToSet, ValuesOf
<1> QED BY <1>3, <1>4, <1>5, <1>7, <1>8

(* The number of an entity is the place of its first mention.                *)
LEMMA PlaceholderIs ==
  ASSUME AreMentions(mentions), NEW m \in ToSet(mentions)
  PROVE  /\ Placeholder(Entity(m)) \in DOMAIN mentions /\ Placeholder(Entity(m)) \in Nat
         /\ Entity(mentions[Placeholder(Entity(m))]) = Entity(m)
         /\ \A k \in DOMAIN mentions : Entity(mentions[k]) = Entity(m) =>
               Placeholder(Entity(m)) <= k
<1> DEFINE T == {k \in DOMAIN mentions : Entity(mentions[k]) = Entity(m)}
<1>1. DOMAIN mentions = 1 .. Len(mentions)
  BY DEF AreMentions
<1>2. T # {} /\ \A x \in T : x \in Nat
  BY <1>1 DEF ToSet
<1>3. Placeholder(Entity(m)) = Min(T)
  BY DEF Placeholder
<1>4. Min(T) \in T /\ Min(T) \in Nat /\ \A x \in T : Min(T) <= x
  <2> HIDE DEF T
  <2> QED BY <1>2, FirstOf
<1> QED BY <1>3, <1>4

Numbered(e) ==
  {Entity(m) : m \in {n \in ToSet(Active) :
                        n.type = e[1] /\ Placeholder(Entity(n)) < Placeholder(e)}}

(* Two entities of a type that take part never get the same number.          *)
LEMMA OrdinalsTell ==
  ASSUME AreMentions(mentions), NEW m \in ToSet(Active), NEW n \in ToSet(Active),
         m.type = n.type, Placeholder(Entity(m)) < Placeholder(Entity(n))
  PROVE  _ordinal_map(Entity(m)) # _ordinal_map(Entity(n))
<1> DEFINE em == Entity(m)
           en == Entity(n)
<1>1. em[1] = m.type /\ en[1] = n.type
  BY DEF Entity
<1>2. \A k \in ToSet(Active) : k \in ToSet(mentions) /\ Placeholder(Entity(k)) \in Nat
  BY ActiveAre, PlaceholderIs
<1>3. em \in Numbered(en)
  BY <1>1 DEF Numbered
<1>4. em \notin Numbered(em)
  <2> SUFFICES ASSUME NEW k \in ToSet(Active), Placeholder(Entity(k)) < Placeholder(em),
                      Entity(k) = em
               PROVE  FALSE
    BY DEF Numbered
  <2> QED BY <1>2
<1>5. Numbered(em) \subseteq Numbered(en)
  <2> SUFFICES ASSUME NEW k \in ToSet(Active), k.type = em[1],
                      Placeholder(Entity(k)) < Placeholder(em)
               PROVE  k.type = en[1] /\ Placeholder(Entity(k)) < Placeholder(en)
    BY DEF Numbered
  <2> QED BY <1>1, <1>2
<1>6. IsFiniteSet(Numbered(en))
  <2> DEFINE all == {Entity(k) : k \in ToSet(Active)}
             name == [k \in DOMAIN Active |-> Entity(Active[k])]
  <2>1. IsFiniteSet(DOMAIN Active)
    <3>1. DOMAIN Active = 1 .. Len(Active) /\ Len(Active) \in Nat
      BY ActiveAre
    <3> QED BY <3>1, FS_Interval
  <2>2. name \in Surjection(DOMAIN Active, all)
    BY DEF ToSet, Surjection
  <2>3. IsFiniteSet(all)
    <3> HIDE DEF name, all
    <3> QED BY <2>1, <2>2, FS_Surjection
  <2>4. Numbered(en) \subseteq all
    BY DEF Numbered
  <2> HIDE DEF all
  <2> QED BY <2>3, <2>4, FS_Subset
<1>7. Cardinality(Numbered(em)) # Cardinality(Numbered(en))
  <2>1. Numbered(em) # Numbered(en)
    BY <1>3, <1>4
  <2> HIDE DEF em, en
  <2> QED BY <1>5, <1>6, <2>1, FS_Subset
<1>8. \A e : _ordinal_map(e) = Cardinality(Numbered(e))
  BY DEF _ordinal_map, Numbered
<1> QED BY <1>7, <1>8

(* Of one type, the number of an entity is its own.                          *)
LEMMA OrdinalNamesEntity ==
  ASSUME AreMentions(mentions), NEW m \in ToSet(Active), NEW n \in ToSet(Active),
         m.type = n.type, _ordinal_map(Entity(m)) = _ordinal_map(Entity(n))
  PROVE  Entity(m) = Entity(n)
<1>1. m \in ToSet(mentions) /\ n \in ToSet(mentions)
  BY ActiveAre
<1>2. ~(Placeholder(Entity(m)) < Placeholder(Entity(n)))
  BY OrdinalsTell
<1>3. ~(Placeholder(Entity(n)) < Placeholder(Entity(m)))
  BY OrdinalsTell
<1>4. Placeholder(Entity(m)) \in Nat /\ Placeholder(Entity(n)) \in Nat
  BY <1>1, PlaceholderIs
<1>5. Placeholder(Entity(m)) = Placeholder(Entity(n))
  BY <1>2, <1>3, <1>4
<1>6. Entity(mentions[Placeholder(Entity(m))]) = Entity(m)
  BY <1>1, PlaceholderIs
<1>7. Entity(mentions[Placeholder(Entity(n))]) = Entity(n)
  BY <1>1, PlaceholderIs
<1> QED BY <1>5, <1>6, <1>7

(* There is an instruction for every mention that is not retained, and no    *)
(* other.                                                                    *)
LEMMA InstructionsAre ==
  ASSUME AreMentions(mentions), NEW level
  PROVE  ToSet(Instructions(level))
           = {Instruction(m, level) :
                m \in {n \in ToSet(Active) : action_for(n.type, level, job.audience) # "RETAIN"}}
<1> DEFINE places == {k \in DOMAIN Active : action_for(Active[k].type, level, job.audience) # "RETAIN"}
           kept == Where(Active, places)
           keys == [k \in DOMAIN kept |-> RowKey(kept[k])]
           ordered == SortedBy(kept, keys)
           acted == {n \in ToSet(Active) : action_for(n.type, level, job.audience) # "RETAIN"}
<1>1. Instructions(level) = [k \in DOMAIN ordered |-> Instruction(ordered[k], level)]
  BY DEF Instructions
<1>2. Len(Active) \in Nat /\ DOMAIN Active = 1 .. Len(Active)
  BY ActiveAre
<1>3. places \in SUBSET Nat /\ IsFiniteSet(places)
  <2>1. IsFiniteSet(1 .. Len(Active)) /\ 1 .. Len(Active) \subseteq Nat
    BY <1>2, FS_Interval
  <2>2. places \in SUBSET (1 .. Len(Active))
    BY <1>2
  <2> HIDE DEF places
  <2> QED BY <2>1, <2>2, FS_Subset
<1>4. {Active[k] : k \in places} = acted
  BY DEF ToSet
<1>5. kept \in Seq(acted) /\ ValuesOf(kept) = acted
  <2>1. /\ Where(Active, places) \in Seq({Active[k] : k \in places})
        /\ ValuesOf(Where(Active, places)) = {Active[k] : k \in places}
    <3> HIDE DEF places
    <3> QED BY <1>3, WhereKeeps
  <2> QED BY <1>4, <2>1
<1>6. acted \subseteq ToSet(mentions)
  BY ActiveAre
<1>7. \A m \in acted : RowKey(m) \in [1 .. 4 -> Int]
  <2> SUFFICES ASSUME NEW m \in acted
               PROVE  RowKey(m) \in [1 .. 4 -> Int]
    OBVIOUS
  <2>1. IsFinding(m)
    BY <1>6 DEF AreMentions, ToSet
  <2>2. m.page \in Int /\ Min(m.box) \in Int /\ TypeRank(m.type) \in Int
    BY <2>1, FirstOf, TypesAreRanked DEF IsFinding
  <2>3. Placeholder(Entity(m)) \in Int
    BY <1>6, PlaceholderIs
  <2> QED BY <2>2, <2>3 DEF RowKey
<1>8. ValuesOf(ordered) = acted
  <2> HIDE DEF kept, acted
  <2>1. DOMAIN kept = 1 .. Len(kept) /\ Len(kept) \in Nat /\ \A k \in 1 .. Len(kept) : kept[k] \in acted
    BY <1>5
  <2>2. keys \in [1 .. Len(kept) -> [1 .. 4 -> Int]]
    BY <1>7, <2>1
  <2> DEFINE n == Len(kept)
  <2> HIDE DEF keys, n
  <2>3. n \in Nat /\ DOMAIN kept = 1 .. n /\ keys \in [1 .. n -> [1 .. 4 -> Int]]
    BY <2>1, <2>2 DEF n
  <2>4. ValuesOf(SortedBy(kept, keys)) = ValuesOf(kept)
    <3> DEFINE four == 4
    <3> HIDE DEF four, kept
    <3>1. four \in Nat /\ keys \in [1 .. n -> [1 .. four -> Int]]
      BY <2>3 DEF four
    <3> QED BY <2>3, <3>1, SortedKeeps
  <2> QED BY <1>5, <2>4
<1> HIDE DEF ordered, acted
<1>9. ToSet(Instructions(level)) = {Instruction(m, level) : m \in ValuesOf(ordered)}
  BY <1>1 DEF ToSet, ValuesOf
<1> QED BY <1>8, <1>9 DEF acted

(* What level 2 does to an identifier or an employer, and level 4.           *)
LEMMA LinkedActions ==
  ASSUME NEW type \in DIRECT_TYPES \cup {"EMPLOYER"}, NEW audience
  PROVE  /\ action_for(type, 2, audience) = IF type = "EMPLOYER" THEN "RETAIN" ELSE "PROTECT"
         /\ action_for(type, 4, audience) = "PSEUDONYMIZE"
BY SMT DEF action_for, DIRECT_TYPES, CREDENTIAL_TYPES, QUASI_TYPES, VISUAL_TYPES,
           LEVEL2_PROTECT_TYPES

(* A token and an alias tell the type and the number, but for an alias of a  *)
(* PAN or a tax identifier.                                                  *)
LEMMA LinkedReplacements ==
  ASSUME NEW m, m.type \in DIRECT_TYPES \cup {"EMPLOYER"}, NEW level \in {2, 4},
         action_for(m.type, level, job.audience) # "RETAIN"
  PROVE  Instruction(m, level).repl
           = IF level = 2 THEN <<<<"token", m.type, _ordinal_map(Entity(m))>>>>
             ELSE <<Alias(m.type, _ordinal_map(Entity(m)))>>
<1>1. level = 2 => action_for(m.type, level, job.audience) = "PROTECT"
  BY LinkedActions
<1>2. level = 4 => action_for(m.type, level, job.audience) = "PSEUDONYMIZE"
  BY LinkedActions
<1>3. Instruction(m, level).repl
        = replacement_for_policy(m.type, m.value, level, job.audience, _ordinal_map(Entity(m)))
  BY DEF Instruction
<1> QED BY <1>1, <1>2, <1>3 DEF replacement_for_policy

(* So the replacements of an output link what was linked and nothing else.   *)
LEMMA Linked == FileInv => LinkageIsKept
<1> SUFFICES ASSUME FileInv, stage = "released", output.level \in {2, 4},
                    NEW i \in ToSet(output.instructions), NEW j \in ToSet(output.instructions),
                    {i.type, j.type} \subseteq DIRECT_TYPES \cup {"EMPLOYER"},
                    {i.type, j.type} # {"PAN_LIKE", "TAX_IDENTIFIER"}
             PROVE  i.entity = j.entity <=> i.repl = j.repl
  BY DEF LinkageIsKept
<1> DEFINE level == output.level
<1>1. AreMentions(mentions) /\ output.instructions = Instructions(level) /\ level \in {2, 4}
  BY DEF FileInv, OutputHolds, HasOutput
<1> HIDE DEF level
<1>2. PICK m \in ToSet(Active) : /\ i = Instruction(m, level)
                                 /\ action_for(m.type, level, job.audience) # "RETAIN"
  BY <1>1, InstructionsAre
<1>3. PICK n \in ToSet(Active) : /\ j = Instruction(n, level)
                                 /\ action_for(n.type, level, job.audience) # "RETAIN"
  BY <1>1, InstructionsAre
<1>4. /\ i.type = m.type /\ i.entity = Entity(m)
      /\ j.type = n.type /\ j.entity = Entity(n)
  BY <1>2, <1>3 DEF Instruction
<1>5. m.type \in DIRECT_TYPES \cup {"EMPLOYER"} /\ n.type \in DIRECT_TYPES \cup {"EMPLOYER"}
  BY <1>4
<1> DEFINE om == _ordinal_map(Entity(m))
           on == _ordinal_map(Entity(n))
<1>6. i.repl = IF level = 2 THEN <<<<"token", m.type, om>>>> ELSE <<Alias(m.type, om)>>
  BY <1>1, <1>2, <1>5, LinkedReplacements
<1>7. j.repl = IF level = 2 THEN <<<<"token", n.type, on>>>> ELSE <<Alias(n.type, on)>>
  BY <1>1, <1>3, <1>5, LinkedReplacements
<1>8. ASSUME i.entity = j.entity
      PROVE  i.repl = j.repl
  <2>1. Entity(m) = Entity(n)
    BY <1>4, <1>8
  <2>2. m.type = n.type
    BY <2>1 DEF Entity
  <2> QED BY <1>6, <1>7, <2>1, <2>2
<1>9. ASSUME i.repl = j.repl
      PROVE  i.entity = j.entity
  <2> HIDE DEF om, on
  <2>1. m.type = n.type /\ om = on
    <3>1. CASE level = 2
      <4>1. i.repl[1][2] = m.type /\ i.repl[1][3] = om
        BY <1>6, <3>1
      <4>2. j.repl[1][2] = n.type /\ j.repl[1][3] = on
        BY <1>7, <3>1
      <4> QED BY <1>9, <4>1, <4>2
    <3>2. CASE level = 4
      <4> DEFINE Named(type) == IF type = "PAN_LIKE" THEN "TAX_IDENTIFIER" ELSE type
      <4>1. i.repl[1][2] = Named(m.type) /\ i.repl[1][3] = om
        BY <1>6, <3>2 DEF Alias
      <4>2. j.repl[1][2] = Named(n.type) /\ j.repl[1][3] = on
        BY <1>7, <3>2 DEF Alias
      <4>3. Named(m.type) = Named(n.type) /\ om = on
        BY <1>9, <4>1, <4>2
      <4>4. {m.type, n.type} # {"PAN_LIKE", "TAX_IDENTIFIER"}
        BY <1>4
      <4> QED BY <4>3, <4>4
    <3> QED BY <1>1, <3>1, <3>2
  <2>2. Entity(m) = Entity(n)
    BY <1>1, <2>1, OrdinalNamesEntity DEF om, on
  <2> QED BY <1>4, <2>2
<1> QED BY <1>8, <1>9

-----------------------------------------------------------------------------
(* Sums *)

AnyOf(s) == CHOOSE x \in s : TRUE

Sums(sum, f, S) ==
  /\ sum \in [SUBSET S -> Nat] /\ sum[S] = SumOf(f)
  /\ \A s \in SUBSET S : sum[s] = IF s = {} THEN 0 ELSE f[AnyOf(s)] + sum[s \ {AnyOf(s)}]

(* There is a function that sums up subsets of places.                       *)
LEMMA SumUnfolds ==
  ASSUME NEW S, IsFiniteSet(S), NEW f \in [S -> Nat]
  PROVE  \E sum : Sums(sum, f, S)
<1> DEFINE Eqn(g) == g = [s \in SUBSET S |->
                            IF s = {} THEN 0 ELSE f[CHOOSE x \in s : TRUE] + g[s \ {CHOOSE x \in s : TRUE}]]
           sum == CHOOSE g : Eqn(g)
<1>1. SumOf(f) = sum[S]
  <2>1. DOMAIN f = S
    OBVIOUS
  <2>2. SumOf(f) = MapThenSumSet(LAMBDA k : f[k], S)
    BY <2>1 DEF SumOf
  <2> QED
    BY <2>2 DEF MapThenSumSet, MapThenFoldSet
<1>2. \A s \in (SUBSET S) \ {{}} : AnyOf(s) \in s
  BY DEF AnyOf
<1>3. \E g : Eqn(g)
  <2> DEFINE step == [x \in S |-> [n \in Nat |-> f[x] + n]]
             pick == [s \in (SUBSET S) \ {{}} |-> AnyOf(s)]
  <2>1. /\ step \in [S -> [Nat -> Nat]]
        /\ \A x \in S, n \in Nat : step[x][n] = f[x] + n
    OBVIOUS
  <2>2. /\ pick \in [(SUBSET S) \ {{}} -> S]
        /\ \A s \in (SUBSET S) \ {{}} : pick[s] \in s /\ pick[s] = AnyOf(s)
    BY <1>2
  <2> HIDE DEF step, pick
  <2>6. Picks(pick, S)
    BY <2>2 DEF Picks
  <2>7. PICK g \in [SUBSET S -> Nat] : Folding(g, S, 0, step, pick)
    BY <2>1, <2>6, FoldExists
  <2>3. \A s \in SUBSET S : g[s] = IF s = {} THEN 0 ELSE step[pick[s]][g[s \ {pick[s]}]]
    BY <2>7 DEF Folding
  <2>4. ASSUME NEW s \in SUBSET S
        PROVE  g[s] = IF s = {} THEN 0 ELSE f[AnyOf(s)] + g[s \ {AnyOf(s)}]
    <3>1. CASE s = {}
      BY <2>3, <3>1
    <3>2. CASE s # {}
      <4>1. s \in (SUBSET S) \ {{}}
        BY <3>2
      <4>2. pick[s] = AnyOf(s) /\ AnyOf(s) \in S
        BY <2>2, <4>1
      <4>3. s \ {AnyOf(s)} \in SUBSET S
        OBVIOUS
      <4>4. g[s \ {AnyOf(s)}] \in Nat
        BY <4>3
      <4> QED
        BY <2>1, <2>3, <3>2, <4>2, <4>4
    <3> QED
      BY <3>1, <3>2
  <2>5. Eqn(g)
    BY <2>4 DEF AnyOf
  <2> QED
    BY <2>5
<1>4. Eqn(sum)
  <2> HIDE DEF Eqn
  <2> QED
    BY <1>3
<1>5. \A s \in SUBSET S : sum[s] = IF s = {} THEN 0 ELSE f[AnyOf(s)] + sum[s \ {AnyOf(s)}]
  <2> HIDE DEF sum
  <2> QED
    BY <1>4 DEF AnyOf
<1>6. DOMAIN sum = SUBSET S /\ sum = [s \in SUBSET S |-> sum[s]]
  <2> HIDE DEF sum
  <2> QED
    BY <1>4
<1> HIDE DEF sum
<1>7. \A s \in SUBSET S : sum[s] \in Nat
  <2> DEFINE G == {s \in SUBSET S : sum[s] \in Nat}
  <2>1. ASSUME NEW T \in SUBSET S, \A U \in SUBSET T : U # T => U \in G
        PROVE  T \in G
    <3>1. CASE T = {}
      <4>1. sum[T] = 0
        BY <1>5, <3>1
      <4> QED
        BY <4>1
    <3>2. CASE T # {}
      <4>1. AnyOf(T) \in T
        BY <1>2, <3>2
      <4>2. T \ {AnyOf(T)} \in SUBSET T /\ T \ {AnyOf(T)} # T
        BY <4>1
      <4>3. sum[T \ {AnyOf(T)}] \in Nat
        BY <2>1, <4>2
      <4>4. f[AnyOf(T)] \in Nat
        BY <4>1
      <4>5. sum[T] = f[AnyOf(T)] + sum[T \ {AnyOf(T)}]
        BY <1>5, <3>2
      <4> QED
        BY <4>3, <4>4, <4>5
    <3> QED
      BY <3>1, <3>2
  <2> HIDE DEF G
  <2>2. SUBSET S \subseteq G
    BY <2>1, BySubsets
  <2> QED
    BY <2>2 DEF G
<1>8. sum \in [SUBSET S -> Nat]
  BY <1>6, <1>7
<1> QED
  BY <1>1, <1>5, <1>8 DEF Sums

(* A sum of numbers is a number.                                             *)
LEMMA SumIs ==
  ASSUME NEW S, IsFiniteSet(S), NEW f \in [S -> Nat]
  PROVE  SumOf(f) \in Nat
<1>1. PICK sum : Sums(sum, f, S)
  BY SumUnfolds
<1>2. S \in SUBSET S
  OBVIOUS
<1> QED BY <1>1, <1>2 DEF Sums

(* Any element of a set may be the one that is added last.                   *)
LEMMA SumTakes ==
  ASSUME NEW S, IsFiniteSet(S), NEW f \in [S -> Nat], NEW sum, Sums(sum, f, S),
         NEW V \in SUBSET S, NEW x \in V
  PROVE  sum[V] = f[x] + sum[V \ {x}]
<1> USE DEF Sums
<1> DEFINE G == {W \in SUBSET S : \A y \in W : sum[W] = f[y] + sum[W \ {y}]}
<1>1. ASSUME NEW T \in SUBSET S, \A U \in SUBSET T : U # T => U \in G
      PROVE  T \in G
  <2> SUFFICES ASSUME NEW y \in T
               PROVE  sum[T] = f[y] + sum[T \ {y}]
    OBVIOUS
  <2> DEFINE a == AnyOf(T)
  <2>1. a \in T /\ a \in S
    BY DEF AnyOf
  <2>2. sum[T] = f[a] + sum[T \ {a}]
    OBVIOUS
  <2> HIDE DEF a
  <2>3. CASE a = y
    BY <2>2, <2>3
  <2>4. CASE a # y
    <3> DEFINE r == (T \ {a}) \ {y}
    <3>1. T \ {a} \in SUBSET T /\ T \ {a} # T /\ y \in T \ {a}
      BY <2>1, <2>4
    <3>2. T \ {y} \in SUBSET T /\ T \ {y} # T /\ a \in T \ {y}
      BY <2>1, <2>4
    <3>3. (T \ {y}) \ {a} = r
      OBVIOUS
    <3>4. sum[T \ {a}] = f[y] + sum[r]
      BY <1>1, <3>1
    <3>5. sum[T \ {y}] = f[a] + sum[r]
      BY <1>1, <3>2, <3>3
    <3>6. sum[r] \in Nat /\ f[a] \in Nat /\ f[y] \in Nat
      <4>1. r \in SUBSET S /\ y \in S
        OBVIOUS
      <4> HIDE DEF r
      <4> QED BY <2>1, <4>1
    <3> HIDE DEF r
    <3> QED BY <2>2, <3>4, <3>5, <3>6
  <2> QED BY <2>3, <2>4
<1>2. SUBSET S \subseteq G
  <2> HIDE DEF G
  <2> QED BY <1>1, BySubsets
<1> QED BY <1>2

(* A sum of which each part is at most a part of another is no larger.       *)
LEMMA SumGrows ==
  ASSUME NEW S, IsFiniteSet(S), NEW f \in [S -> Nat],
         NEW T, IsFiniteSet(T), NEW g \in [T -> Nat],
         NEW h \in [S -> T], \A s, r \in S : h[s] = h[r] => s = r,
         \A s \in S : f[s] <= g[h[s]]
  PROVE  SumOf(f) <= SumOf(g)
<1>1. PICK sf : Sums(sf, f, S)
  BY SumUnfolds
<1>2. PICK sg : Sums(sg, g, T)
  BY SumUnfolds
<1> DEFINE pre(U) == {s \in S : h[s] \in U}
           G == {U \in SUBSET T : sf[pre(U)] <= sg[U]}
<1>0. /\ \A U \in SUBSET S : sf[U] \in Nat
      /\ \A U \in SUBSET T : sg[U] \in Nat
  BY <1>1, <1>2 DEF Sums
<1>3. ASSUME NEW U \in SUBSET T, \A V \in SUBSET U : V # U => V \in G
      PROVE  U \in G
  <2>1. CASE U = {}
    <3>1. pre(U) = {} /\ {} \in SUBSET S /\ {} \in SUBSET T
      BY <2>1
    <3>2. sf[{}] = 0 /\ sg[{}] = 0
      BY <1>1, <1>2, <3>1 DEF Sums
    <3> QED BY <2>1, <3>1, <3>2
  <2>2. CASE U # {}
    <3> DEFINE a == AnyOf(U)
               r == U \ {a}
    <3>1. a \in U /\ a \in T /\ r \in SUBSET U /\ r # U
      BY <2>2 DEF AnyOf
    <3>2. sg[U] = g[a] + sg[r]
      BY <1>2, <2>2 DEF Sums
    <3> HIDE DEF a
    <3>3. sf[pre(r)] <= sg[r]
      BY <1>3, <3>1
    <3>4. sf[pre(r)] \in Nat /\ sg[r] \in Nat /\ sg[U] \in Nat /\ g[a] \in Nat
      BY <1>0, <3>1
    <3>5. CASE \E s \in S : h[s] = a
      <4>1. PICK s \in S : h[s] = a
        BY <3>5
      <4>2. pre(U) \in SUBSET S /\ s \in pre(U) /\ pre(U) \ {s} = pre(r)
        BY <3>1, <4>1
      <4> DEFINE p == pre(U)
      <4> HIDE DEF p
      <4>3. sf[p] = f[s] + sf[p \ {s}]
        <5>1. p \in SUBSET S /\ s \in p
          BY <4>2 DEF p
        <5> QED BY <1>1, <5>1, SumTakes
      <4>4. sf[pre(U)] = f[s] + sf[pre(r)]
        BY <4>2, <4>3 DEF p
      <4>5. f[s] <= g[a] /\ f[s] \in Nat
        BY <4>1
      <4> HIDE DEF pre, r
      <4>6. sf[pre(U)] <= sg[U]
        BY <3>2, <3>3, <3>4, <4>4, <4>5
      <4> QED BY <4>6
    <3>6. CASE ~\E s \in S : h[s] = a
      <4>1. pre(U) = pre(r)
        BY <3>1, <3>6
      <4> HIDE DEF pre, r
      <4>2. sf[pre(U)] <= sg[U]
        BY <3>2, <3>3, <3>4, <4>1
      <4> QED BY <4>2
    <3> QED BY <3>5, <3>6
  <2> QED BY <2>1, <2>2
<1>4. SUBSET T \subseteq G
  <2> HIDE DEF G
  <2> QED BY <1>3, BySubsets
<1>5. pre(T) = S
  OBVIOUS
<1>6. sf[S] <= sg[T]
  BY <1>4, <1>5
<1> QED BY <1>1, <1>2, <1>6 DEF Sums

-----------------------------------------------------------------------------
(* Scores *)

(* The smaller of two numbers.                                               *)
LEMMA MinOfTwo ==
  ASSUME NEW a \in Nat, NEW b \in Nat
  PROVE  Min({a, b}) = IF a <= b THEN a ELSE b
<1> DEFINE T == {a, b}
<1>1. T # {} /\ \A x \in T : x \in Nat
  OBVIOUS
<1>2. Min(T) \in T /\ \A x \in T : Min(T) <= x
  <2> HIDE DEF T
  <2> QED BY <1>1, FirstOf
<1>3. Min(T) \in {a, b} /\ Min(T) <= a /\ Min(T) <= b
  BY <1>2
<1> HIDE DEF T
<1>4. Min(T) = IF a <= b THEN a ELSE b
  BY <1>3
<1> QED BY <1>4 DEF T

(* The greatest of numbers up to a bound.                                    *)
LEMMA GreatestOf ==
  ASSUME NEW n \in Nat, NEW T, T # {}, \A x \in T : x \in 0 .. n
  PROVE  Max(T) \in T /\ Max(T) \in 0 .. n /\ \A x \in T : x <= Max(T)
<1> DEFINE back == {n - x : x \in T}
<1>1. back # {} /\ \A b \in back : b \in Nat
  OBVIOUS
<1>2. Min(back) \in back /\ \A c \in back : Min(back) <= c
  <2> HIDE DEF back
  <2> QED BY <1>1, FirstOf
<1>3. PICK m \in T : Min(back) = n - m
  BY <1>2
<1>4. \A x \in T : m >= x
  <2> SUFFICES ASSUME NEW x \in T PROVE m >= x
    OBVIOUS
  <2>1. n - x \in back
    OBVIOUS
  <2>2. n - m <= n - x /\ m \in 0 .. n /\ x \in 0 .. n
    BY <1>2, <1>3, <2>1
  <2> QED BY <2>2
<1>5. \E x \in T : \A y \in T : x >= y
  BY <1>4
<1>6. Max(T) \in T /\ \A y \in T : Max(T) >= y
  BY <1>5 DEF Max
<1> QED BY <1>6

(* Rounding never turns an order around.                                     *)
LEMMA RoundedGrows ==
  ASSUME NEW n \in Nat, NEW m \in Nat, n <= m, NEW d \in {100, 10000}
  PROVE  Rounded(n, d) \in Nat /\ Rounded(m, d) \in Nat /\ Rounded(n, d) <= Rounded(m, d)
<1>1. CASE d = 100
  BY <1>1 DEF Rounded
<1>2. CASE d = 10000
  BY <1>2 DEF Rounded
<1> QED BY <1>1, <1>2

Actions == {"RETAIN", "REMOVE", "MASK", "PROTECT", "PSEUDONYMIZE", "SYNTHESIZE", "GENERALIZE"}

(* The compiler decides on one of its actions.                               *)
LEMMA ActionsAre ==
  ASSUME NEW type, NEW level, NEW audience
  PROVE  action_for(type, level, audience) \in Actions
BY DEF action_for, Actions

(* What an action leaves is a share of a hundred.                            *)
LEMMA FactorsAre ==
  ASSUME NEW action \in Actions
  PROVE  residual_factor(action) \in 0 .. 100 /\ relation_factor(action) \in 0 .. 100
BY DEF residual_factor, relation_factor, Actions

(* Every type has a weight.                                                  *)
LEMMA WeightsAre ==
  ASSUME NEW type \in EntityTypes
  PROVE  Weights[type] \in Nat
BY DEF Weights, EntityTypes, DIRECT_TYPES, QUASI_TYPES, VISUAL_TYPES, CREDENTIAL_TYPES

(* The combinations that are looked for: finitely many, of types that exist. *)
LEMMA CombosAre ==
  /\ IsFiniteSet(combos)
  /\ \A c \in combos : /\ c.weight \in Nat
                       /\ ToSet(c.types) # {} /\ ToSet(c.types) \subseteq EntityTypes
<1>1. combos = {Linkage(<<"DATE_OF_BIRTH", "POSTCODE", "EMPLOYER">>, 26),
                Linkage(<<"AGE", "LOCALITY", "JOB_TITLE">>, 18),
                Linkage(<<"STREET_ADDRESS", "EMPLOYER">>, 16),
                Linkage(<<"PERSON_NAME", "CASE_REFERENCE">>, 16)}
  <2>1. DOMAIN combination_specs = {1, 2, 3}
    BY DEF combination_specs
  <2>2. ToSet(combination_specs) = {combination_specs[1], combination_specs[2], combination_specs[3]}
    BY <2>1 DEF ToSet
  <2> QED BY <2>2 DEF combos, combination_specs
<1>2. IsFiniteSet(combos)
  <2> DEFINE a == Linkage(<<"DATE_OF_BIRTH", "POSTCODE", "EMPLOYER">>, 26)
             b == Linkage(<<"AGE", "LOCALITY", "JOB_TITLE">>, 18)
             c == Linkage(<<"STREET_ADDRESS", "EMPLOYER">>, 16)
             d == Linkage(<<"PERSON_NAME", "CASE_REFERENCE">>, 16)
  <2> HIDE DEF a, b, c, d
  <2>1. IsFiniteSet((({} \cup {a}) \cup {b}) \cup {c} \cup {d})
    BY FS_EmptySet, FS_AddElement
  <2>2. combos = (({} \cup {a}) \cup {b}) \cup {c} \cup {d}
    BY <1>1 DEF a, b, c, d
  <2> QED BY <2>1, <2>2
<1>3. /\ ToSet(<<"DATE_OF_BIRTH", "POSTCODE", "EMPLOYER">>) = {"DATE_OF_BIRTH", "POSTCODE", "EMPLOYER"}
      /\ ToSet(<<"AGE", "LOCALITY", "JOB_TITLE">>) = {"AGE", "LOCALITY", "JOB_TITLE"}
      /\ ToSet(<<"STREET_ADDRESS", "EMPLOYER">>) = {"STREET_ADDRESS", "EMPLOYER"}
      /\ ToSet(<<"PERSON_NAME", "CASE_REFERENCE">>) = {"PERSON_NAME", "CASE_REFERENCE"}
  BY DEF ToSet
<1>4. {"DATE_OF_BIRTH", "POSTCODE", "EMPLOYER", "AGE", "LOCALITY", "JOB_TITLE", "STREET_ADDRESS",
       "PERSON_NAME", "CASE_REFERENCE"} \subseteq EntityTypes
  BY DEF EntityTypes, DIRECT_TYPES, QUASI_TYPES
<1> QED BY <1>1, <1>2, <1>3, <1>4 DEF Linkage

-----------------------------------------------------------------------------
(* The score of rows.                                                        *)

AreRows(rows) == rows \in Seq(ToSet(rows)) /\ \A k \in DOMAIN rows : rows[k].type \in EntityTypes

Left(level, audience, after) ==
  [type \in EntityTypes |->
     IF after THEN residual_factor(action_for(type, level, audience)) ELSE 100]
Places(rows, types) == {j \in DOMAIN rows : rows[j].type \in types}
Weighed(rows, left, types) ==
  [k \in Places(rows, types) |-> Weights[rows[k].type] * left[rows[k].type]]
PresentCombos(rows) == {c \in combos : ToSet(c.types) \subseteq TypesOf(rows)}
Combined(rows, left) ==
  [c \in PresentCombos(rows) |-> c.weight * Max({left[type] : type \in ToSet(c.types)})]

(* What a level leaves of each type is a share of a hundred.                 *)
LEMMA LeftIs ==
  ASSUME NEW level, NEW audience, NEW after \in BOOLEAN
  PROVE  Left(level, audience, after) \in [EntityTypes -> 0 .. 100]
<1>1. \A type : residual_factor(action_for(type, level, audience)) \in 0 .. 100
  BY ActionsAre, FactorsAre
<1> QED BY <1>1 DEF Left

(* Rows are finitely many, each of a type that exists.                       *)
LEMMA RowsAre ==
  ASSUME NEW rows, AreRows(rows)
  PROVE  /\ Len(rows) \in Nat /\ DOMAIN rows = 1 .. Len(rows) /\ IsFiniteSet(DOMAIN rows)
         /\ TypesOf(rows) \subseteq EntityTypes
<1>1. Len(rows) \in Nat /\ DOMAIN rows = 1 .. Len(rows)
  BY DEF AreRows
<1>2. IsFiniteSet(DOMAIN rows)
  BY <1>1, FS_Interval
<1> QED BY <1>1, <1>2 DEF AreRows, TypesOf, ToSet

(* Each row weighs a number.                                                 *)
LEMMA WeighedIs ==
  ASSUME NEW rows, AreRows(rows), NEW left \in [EntityTypes -> 0 .. 100], NEW types
  PROVE  /\ IsFiniteSet(Places(rows, types))
         /\ Weighed(rows, left, types) \in [Places(rows, types) -> Nat]
<1> DEFINE S == Places(rows, types)
<1>1. IsFiniteSet(S)
  BY RowsAre, FS_Subset DEF Places
<1>2. \A k \in S : Weights[rows[k].type] * left[rows[k].type] \in Nat
  <2> SUFFICES ASSUME NEW k \in S
               PROVE  Weights[rows[k].type] * left[rows[k].type] \in Nat
    OBVIOUS
  <2>1. rows[k].type \in EntityTypes
    BY DEF AreRows, Places
  <2>2. Weights[rows[k].type] \in Nat /\ left[rows[k].type] \in Nat
    BY <2>1, WeightsAre
  <2> QED BY <2>2
<1> QED BY <1>1, <1>2 DEF Weighed

(* Each combination that is present weighs a number.                         *)
LEMMA CombinedIs ==
  ASSUME NEW rows, AreRows(rows), NEW left \in [EntityTypes -> 0 .. 100]
  PROVE  IsFiniteSet(PresentCombos(rows)) /\ Combined(rows, left) \in [PresentCombos(rows) -> Nat]
<1>1. IsFiniteSet(PresentCombos(rows))
  BY CombosAre, FS_Subset DEF PresentCombos
<1>2. ASSUME NEW c \in PresentCombos(rows)
      PROVE  c.weight * Max({left[type] : type \in ToSet(c.types)}) \in Nat
  <2> DEFINE T == {left[type] : type \in ToSet(c.types)}
  <2>1. c.weight \in Nat /\ ToSet(c.types) # {} /\ ToSet(c.types) \subseteq EntityTypes
    BY CombosAre DEF PresentCombos
  <2>2. T # {} /\ \A x \in T : x \in 0 .. 100
    BY <2>1
  <2>3. Max(T) \in 0 .. 100
    <3> HIDE DEF T
    <3> QED BY <2>2, GreatestOf
  <2> HIDE DEF T
  <2>4. c.weight * Max(T) \in Nat
    BY <2>1, <2>3
  <2> QED BY <2>4 DEF T
<1> QED BY <1>1, <1>2 DEF Combined

(* The four parts, with the sums as sums of these functions.                 *)
Relatives(rows) == {k \in DOMAIN rows : IsRelative(rows[k])}
Told(level, audience, after) ==
  IF after THEN relation_factor(action_for("PERSON_NAME", level, audience)) ELSE 100
DirectShare(raw) == Min({50, Rounded(raw * 60, 10000)})
QuasiShare(raw) == Min({34, Rounded(raw * 55, 10000)})
RelationShare(relatives, told) == Min({14, Rounded(relatives * 14 * told, 100)})
CombinationShare(bonus) == Min({28, Rounded(bonus * 70, 10000)})

(* _component_scores adds up just these and takes these shares.              *)
LEMMA ScoreParts ==
  ASSUME NEW rows, AreRows(rows), NEW level, NEW audience, NEW after \in BOOLEAN
  PROVE  /\ _component_scores(rows, level, audience, after).direct
              = DirectShare(SumOf(Weighed(rows, Left(level, audience, after),
                                          DIRECT_TYPES \cup VISUAL_TYPES)))
         /\ _component_scores(rows, level, audience, after).quasi
              = QuasiShare(SumOf(Weighed(rows, Left(level, audience, after), QUASI_TYPES)))
         /\ _component_scores(rows, level, audience, after).relationship
              = RelationShare(Cardinality(Relatives(rows)), Told(level, audience, after))
         /\ _component_scores(rows, level, audience, after).combination
              = CombinationShare(SumOf(Combined(rows, Left(level, audience, after))))
<1> DEFINE left == Left(level, audience, after)
           Lft(type) == IF after THEN residual_factor(action_for(type, level, audience)) ELSE 100
           Weigh(types) == [k \in {j \in DOMAIN rows : rows[j].type \in types} |->
                             Weights[rows[k].type] * Lft(rows[k].type)]
           Comb == [c \in PresentCombos(rows) |-> c.weight * Max({Lft(type) : type \in ToSet(c.types)})]
<1>1. \A type \in EntityTypes : left[type] = Lft(type)
  BY DEF Left
<1>2. \A types : Weigh(types) = Weighed(rows, left, types)
  <2> SUFFICES ASSUME NEW types
               PROVE  Weigh(types) = Weighed(rows, left, types)
    OBVIOUS
  <2> HIDE DEF left, Lft
  <2>1. \A k \in {j \in DOMAIN rows : rows[j].type \in types} :
           Weights[rows[k].type] * Lft(rows[k].type) = Weights[rows[k].type] * left[rows[k].type]
    BY <1>1 DEF AreRows
  <2> QED BY <2>1 DEF Weighed, Places
<1>3. Comb = Combined(rows, left)
  <2> HIDE DEF left, Lft
  <2>1. ASSUME NEW c \in PresentCombos(rows)
        PROVE  {Lft(type) : type \in ToSet(c.types)} = {left[type] : type \in ToSet(c.types)}
    <3>1. ToSet(c.types) \subseteq EntityTypes
      BY CombosAre DEF PresentCombos
    <3>2. \A type \in ToSet(c.types) : Lft(type) = left[type]
      BY <1>1, <3>1
    <3> QED BY <3>2
  <2> QED BY <2>1 DEF Combined
<1>4. _component_scores(rows, level, audience, after) =
        [direct |-> Min({50, Rounded(SumOf(Weigh(DIRECT_TYPES \cup VISUAL_TYPES)) * 60, 10000)}),
         quasi |-> Min({34, Rounded(SumOf(Weigh(QUASI_TYPES)) * 55, 10000)}),
         relationship |->
           Min({14, Rounded(Cardinality({k \in DOMAIN rows : IsRelative(rows[k])}) * 14
                              * (IF after THEN relation_factor(action_for("PERSON_NAME", level, audience))
                                 ELSE 100), 100)}),
         combination |-> Min({28, Rounded(SumOf(Comb) * 70, 10000)})]
  BY DEF _component_scores, PresentCombos
<1> DEFINE parts == _component_scores(rows, level, audience, after)
<1> HIDE DEF Weigh, Comb, left, parts
<1>5. parts.direct = Min({50, Rounded(SumOf(Weigh(DIRECT_TYPES \cup VISUAL_TYPES)) * 60, 10000)})
      /\ parts.quasi = Min({34, Rounded(SumOf(Weigh(QUASI_TYPES)) * 55, 10000)})
      /\ parts.combination = Min({28, Rounded(SumOf(Comb) * 70, 10000)})
  BY <1>4 DEF parts
<1>6. parts.relationship = RelationShare(Cardinality(Relatives(rows)), Told(level, audience, after))
  BY <1>4 DEF parts, RelationShare, Relatives, Told
<1>7. parts.direct = DirectShare(SumOf(Weighed(rows, left, DIRECT_TYPES \cup VISUAL_TYPES)))
  BY <1>2, <1>5 DEF DirectShare
<1>8. parts.quasi = QuasiShare(SumOf(Weighed(rows, left, QUASI_TYPES)))
  BY <1>2, <1>5 DEF QuasiShare
<1>9. parts.combination = CombinationShare(SumOf(Combined(rows, left)))
  BY <1>3, <1>5 DEF CombinationShare
<1> QED BY <1>6, <1>7, <1>8, <1>9 DEF left, parts

(* A rounded share grows with what it is a share of, up to where it stops.   *)
LEMMA ShareGrows ==
  ASSUME NEW p \in Nat, NEW q \in Nat, p <= q, NEW d \in {100, 10000}, NEW cap \in Nat
  PROVE  /\ Min({cap, Rounded(p, d)}) \in Nat /\ Min({cap, Rounded(q, d)}) \in Nat
         /\ Min({cap, Rounded(p, d)}) <= Min({cap, Rounded(q, d)})
<1>1. Rounded(p, d) \in Nat /\ Rounded(q, d) \in Nat /\ Rounded(p, d) <= Rounded(q, d)
  BY RoundedGrows
<1> DEFINE r == Rounded(p, d)
           t == Rounded(q, d)
<1> HIDE DEF r, t
<1>2. Min({cap, r}) = (IF cap <= r THEN cap ELSE r) /\ Min({cap, t}) = (IF cap <= t THEN cap ELSE t)
  BY <1>1, MinOfTwo DEF r, t
<1>3. Min({cap, r}) \in Nat /\ Min({cap, t}) \in Nat /\ Min({cap, r}) <= Min({cap, t})
  BY <1>1, <1>2 DEF r, t
<1> QED BY <1>3 DEF r, t

(* The four parts: the direct identifiers.                                   *)
LEMMA DirectGrows ==
  ASSUME NEW a \in Nat, NEW b \in Nat, a <= b
  PROVE  DirectShare(a) \in Nat /\ DirectShare(b) \in Nat /\ DirectShare(a) <= DirectShare(b)
<1> DEFINE p == a * 60
           q == b * 60
           d == 10000
           cap == 50
<1>1. p \in Nat /\ q \in Nat /\ p <= q /\ d \in {100, 10000} /\ cap \in Nat
  OBVIOUS
<1>2. DirectShare(a) = Min({cap, Rounded(p, d)}) /\ DirectShare(b) = Min({cap, Rounded(q, d)})
  BY DEF DirectShare
<1> HIDE DEF p, q, d, cap
<1> QED BY <1>1, <1>2, ShareGrows

(* The quasi-identifiers.                                                    *)
LEMMA QuasiGrows ==
  ASSUME NEW a \in Nat, NEW b \in Nat, a <= b
  PROVE  QuasiShare(a) \in Nat /\ QuasiShare(b) \in Nat /\ QuasiShare(a) <= QuasiShare(b)
<1> DEFINE p == a * 55
           q == b * 55
           d == 10000
           cap == 34
<1>1. p \in Nat /\ q \in Nat /\ p <= q /\ d \in {100, 10000} /\ cap \in Nat
  OBVIOUS
<1>2. QuasiShare(a) = Min({cap, Rounded(p, d)}) /\ QuasiShare(b) = Min({cap, Rounded(q, d)})
  BY DEF QuasiShare
<1> HIDE DEF p, q, d, cap
<1> QED BY <1>1, <1>2, ShareGrows

(* The combinations.                                                         *)
LEMMA CombinationGrows ==
  ASSUME NEW a \in Nat, NEW b \in Nat, a <= b
  PROVE  CombinationShare(a) \in Nat /\ CombinationShare(b) \in Nat /\ CombinationShare(a) <= CombinationShare(b)
<1> DEFINE p == a * 70
           q == b * 70
           d == 10000
           cap == 28
<1>1. p \in Nat /\ q \in Nat /\ p <= q /\ d \in {100, 10000} /\ cap \in Nat
  OBVIOUS
<1>2. CombinationShare(a) = Min({cap, Rounded(p, d)}) /\ CombinationShare(b) = Min({cap, Rounded(q, d)})
  BY DEF CombinationShare
<1> HIDE DEF p, q, d, cap
<1> QED BY <1>1, <1>2, ShareGrows

(* The relationships; without relatives they count for nothing.              *)
LEMMA RelationIs ==
  ASSUME NEW relatives \in Nat, NEW told \in Nat
  PROVE  RelationShare(relatives, told) \in Nat /\ RelationShare(0, told) = 0
<1> DEFINE p == relatives * 14 * told
           q == p + 1
           d == 100
           cap == 14
<1>1. relatives * 14 \in Nat
  OBVIOUS
<1>2. p \in Nat /\ q \in Nat /\ p <= q /\ d \in {100, 10000} /\ cap \in Nat
  BY <1>1
<1>3. RelationShare(relatives, told) = Min({cap, Rounded(p, d)})
  BY DEF RelationShare
<1>4. RelationShare(0, told) = 0
  <2>1. 0 * 14 * told = 0
    OBVIOUS
  <2>2. Rounded(0, 100) = 0
    BY DEF Rounded
  <2> DEFINE zero == 0
  <2>3. zero \in Nat /\ cap \in Nat /\ zero <= cap /\ (cap <= zero => cap = zero)
    OBVIOUS
  <2> HIDE DEF zero, cap
  <2>4. Min({cap, zero}) = zero
    BY <2>3, MinOfTwo
  <2> QED BY <2>1, <2>2, <2>4 DEF RelationShare, zero, cap
<1> HIDE DEF p, q, d, cap
<1>5. Min({cap, Rounded(p, d)}) \in Nat
  BY <1>2, ShareGrows
<1>6. RelationShare(relatives, told) \in Nat
  BY <1>3, <1>5
<1> QED BY <1>4, <1>6

-----------------------------------------------------------------------------
(* What is retained *)

(* Where what is kept stood before.                                          *)
IsFrom(h, t, s, places) ==
  /\ h \in [DOMAIN t -> places]
  /\ \A i, j \in DOMAIN t : h[i] = h[j] => i = j
  /\ \A i \in DOMAIN t : t[i] = s[h[i]]

(* An arrangement takes each value from a place of its own.                  *)
LEMMA ArrangedFrom ==
  ASSUME NEW s, NEW ahead, IsOrder(ahead)
  PROVE  \E h : IsFrom(h, Arranged(s, ahead), s, DOMAIN ahead)
<1> DEFINE t == Arranged(s, ahead)
           places == DOMAIN ahead
           h == [i \in DOMAIN t |-> CHOOSE k \in places : Cardinality(ahead[k]) + 1 = i /\ t[i] = s[k]]
<1>1. Takes(t, s, ahead)
  BY ArrangedTakes
<1> HIDE DEF t
<1>2. \A i \in DOMAIN t : \E k \in places : Cardinality(ahead[k]) + 1 = i /\ t[i] = s[k]
  BY <1>1 DEF Takes
<1>3. \A i \in DOMAIN t : h[i] \in places /\ Cardinality(ahead[h[i]]) + 1 = i /\ t[i] = s[h[i]]
  BY <1>2
<1>4. h \in [DOMAIN t -> places]
  BY <1>3
<1> HIDE DEF h
<1>5. IsFrom(h, t, s, places)
  BY <1>3, <1>4 DEF IsFrom
<1> QED BY <1>5 DEF t

(* So does what is kept of a sequence.                                       *)
LEMMA WhereFrom ==
  ASSUME NEW s, NEW places \in SUBSET Nat, IsFiniteSet(places)
  PROVE  \E h : IsFrom(h, Where(s, places), s, places)
<1> DEFINE ahead == [k \in places |-> {j \in places : j < k}]
<1>1. IsOrder(ahead)
  BY WhereIsOrder
<1>2. DOMAIN ahead = places /\ Where(s, places) = Arranged(s, ahead)
  BY DEF Where
<1> HIDE DEF ahead
<1> QED BY <1>1, <1>2, ArrangedFrom

-----------------------------------------------------------------------------
(* No name, number or address of a person is retained, and no picture.       *)
LEMMA WhatIsRetained ==
  ASSUME NEW type \in DIRECT_TYPES \cup VISUAL_TYPES, NEW level \in Levels, NEW audience
  PROVE  action_for(type, level, audience) # "RETAIN"
BY SMT DEF action_for, Generalized, DIRECT_TYPES, CREDENTIAL_TYPES, QUASI_TYPES,
           VISUAL_TYPES, LEVEL2_PROTECT_TYPES, Levels

(* A synthetic twin retains no type.                                         *)
LEMMA TwinRetainsNothing ==
  ASSUME NEW type, NEW audience
  PROVE  action_for(type, 5, audience) # "RETAIN"
BY DEF action_for

Retained(rows, level, audience) ==
  Where(rows, {k \in DOMAIN rows : action_for(rows[k].type, level, audience) = "RETAIN"})

(* The retained rows are rows, of types that are retained.                   *)
LEMMA RetainedAre ==
  ASSUME NEW rows, AreRows(rows), NEW level, NEW audience
  PROVE  /\ AreRows(Retained(rows, level, audience))
         /\ ToSet(Retained(rows, level, audience))
              = {row \in ToSet(rows) : action_for(row.type, level, audience) = "RETAIN"}
         /\ \E h : IsFrom(h, Retained(rows, level, audience), rows, DOMAIN rows)
<1> DEFINE places == {k \in DOMAIN rows : action_for(rows[k].type, level, audience) = "RETAIN"}
           kept == Retained(rows, level, audience)
<1>1. places \in SUBSET Nat /\ IsFiniteSet(places) /\ places \subseteq DOMAIN rows
  <2>1. DOMAIN rows \subseteq Nat /\ IsFiniteSet(DOMAIN rows)
    BY RowsAre
  <2> QED BY <2>1, FS_Subset
<1>2. kept = Where(rows, places)
  BY DEF Retained
<1>3. {rows[k] : k \in places} = {row \in ToSet(rows) : action_for(row.type, level, audience) = "RETAIN"}
  BY DEF ToSet
<1> HIDE DEF places, kept
<1>4. kept \in Seq({rows[k] : k \in places}) /\ ValuesOf(kept) = {rows[k] : k \in places}
  BY <1>1, <1>2, WhereKeeps
<1>5. ToSet(kept) = {rows[k] : k \in places}
  BY <1>4 DEF ToSet, ValuesOf
<1>6. AreRows(kept)
  <2>1. kept \in Seq(ToSet(kept))
    BY <1>4, <1>5
  <2>2. \A row \in ToSet(rows) : row.type \in EntityTypes
    BY DEF AreRows, ToSet
  <2>3. \A row \in ToSet(kept) : row.type \in EntityTypes
    BY <1>1, <1>3, <1>5, <2>2
  <2> QED BY <2>1, <2>3 DEF AreRows, ToSet
<1>7. PICK h : IsFrom(h, kept, rows, places)
  BY <1>1, <1>2, WhereFrom
<1>8. IsFrom(h, kept, rows, DOMAIN rows)
  BY <1>1, <1>7 DEF IsFrom
<1> QED BY <1>3, <1>5, <1>6, <1>8 DEF kept

-----------------------------------------------------------------------------
(* What is retained weighs in a residue what it weighs alone.                *)
LEMMA RetainedWeigh ==
  ASSUME NEW rows, AreRows(rows), NEW level, NEW audience, NEW types
  PROVE  LET kept == Retained(rows, level, audience)
         IN SumOf(Weighed(kept, Left(1, audience, FALSE), types))
              <= SumOf(Weighed(rows, Left(level, audience, TRUE), types))
<1> DEFINE kept == Retained(rows, level, audience)
           alone == Left(1, audience, FALSE)
           left == Left(level, audience, TRUE)
           S == Places(kept, types)
           T == Places(rows, types)
           f == Weighed(kept, alone, types)
           g == Weighed(rows, left, types)
<1>1. AreRows(kept)
  BY RetainedAre
<1>2. PICK h : IsFrom(h, kept, rows, DOMAIN rows)
  BY RetainedAre
<1>3. \A i \in DOMAIN kept : action_for(kept[i].type, level, audience) = "RETAIN"
  BY RetainedAre DEF ToSet
<1>4. alone \in [EntityTypes -> 0 .. 100] /\ left \in [EntityTypes -> 0 .. 100]
  BY LeftIs
<1>5. \A type \in EntityTypes : /\ alone[type] = 100
                                /\ action_for(type, level, audience) = "RETAIN" => left[type] = 100
  BY DEF Left, residual_factor
<1> HIDE DEF kept, alone, left
<1>6. IsFiniteSet(S) /\ f \in [S -> Nat] /\ IsFiniteSet(T) /\ g \in [T -> Nat]
  BY <1>1, <1>4, WeighedIs
<1> DEFINE at == [i \in S |-> h[i]]
<1>7. \A i \in S : h[i] \in T /\ kept[i] = rows[h[i]]
  BY <1>2 DEF IsFrom, Places
<1>8. /\ at \in [S -> T] /\ \A i \in S : at[i] = h[i]
      /\ \A i, j \in S : at[i] = at[j] => i = j
  <2>1. \A i, j \in S : h[i] = h[j] => i = j
    BY <1>2 DEF IsFrom, Places
  <2> QED BY <1>7, <2>1
<1>9. ASSUME NEW i \in S
      PROVE  f[i] <= g[at[i]]
  <2> DEFINE type == kept[i].type
  <2>1. type \in EntityTypes /\ action_for(type, level, audience) = "RETAIN"
    BY <1>1, <1>3 DEF AreRows, Places
  <2>2. alone[type] = 100 /\ left[type] = 100
    BY <1>5, <2>1
  <2>3. f[i] = Weights[type] * alone[type]
    BY DEF Weighed
  <2>4. rows[h[i]].type = type /\ h[i] \in T /\ at[i] = h[i]
    BY <1>7, <1>8
  <2> HIDE DEF type, at
  <2>5. g[h[i]] = Weights[rows[h[i]].type] * left[rows[h[i]].type]
    BY <2>4 DEF Weighed
  <2>6. g[at[i]] = f[i]
    BY <2>2, <2>3, <2>4, <2>5
  <2>7. f[i] \in Nat
    BY <1>6
  <2> HIDE DEF f, g
  <2> QED BY <2>6, <2>7
<1> HIDE DEF S, T, f, g, at
<1>10. SumOf(f) <= SumOf(g)
  BY <1>6, <1>8, <1>9, SumGrows
<1> QED BY <1>10 DEF f, g, kept, alone, left

(* The same for the combinations of what is retained.                        *)
LEMMA RetainedCombine ==
  ASSUME NEW rows, AreRows(rows), NEW level, NEW audience
  PROVE  LET kept == Retained(rows, level, audience)
         IN SumOf(Combined(kept, Left(1, audience, FALSE)))
              <= SumOf(Combined(rows, Left(level, audience, TRUE)))
<1> DEFINE kept == Retained(rows, level, audience)
           alone == Left(1, audience, FALSE)
           left == Left(level, audience, TRUE)
           S == PresentCombos(kept)
           T == PresentCombos(rows)
           f == Combined(kept, alone)
           g == Combined(rows, left)
           at == [c \in S |-> c]
<1>1. AreRows(kept)
  BY RetainedAre
<1>2. ToSet(kept) = {row \in ToSet(rows) : action_for(row.type, level, audience) = "RETAIN"}
  BY RetainedAre
<1>4. alone \in [EntityTypes -> 0 .. 100] /\ left \in [EntityTypes -> 0 .. 100]
  BY LeftIs
<1>5. \A type \in EntityTypes : /\ alone[type] = 100
                                /\ action_for(type, level, audience) = "RETAIN" => left[type] = 100
  BY DEF Left, residual_factor
<1> HIDE DEF kept, alone, left
<1>6. IsFiniteSet(S) /\ f \in [S -> Nat] /\ IsFiniteSet(T) /\ g \in [T -> Nat]
  BY <1>1, <1>4, CombinedIs
<1>7. /\ \A type \in TypesOf(kept) : type \in EntityTypes /\ action_for(type, level, audience) = "RETAIN"
      /\ TypesOf(kept) \subseteq TypesOf(rows)
  <2>1. TypesOf(kept) \subseteq EntityTypes
    BY <1>1, RowsAre
  <2> QED BY <1>2, <2>1 DEF TypesOf
<1>8. S \subseteq T
  BY <1>7 DEF PresentCombos
<1>9. ASSUME NEW c \in S
      PROVE  f[c] <= g[c]
  <2>1. {alone[type] : type \in ToSet(c.types)} = {left[type] : type \in ToSet(c.types)}
    <3>1. \A type \in ToSet(c.types) : alone[type] = left[type]
      BY <1>5, <1>7 DEF PresentCombos
    <3> QED BY <3>1
  <2>2. f[c] = c.weight * Max({alone[type] : type \in ToSet(c.types)})
    BY DEF Combined
  <2>3. g[c] = c.weight * Max({left[type] : type \in ToSet(c.types)})
    BY <1>8 DEF Combined
  <2>4. f[c] \in Nat
    BY <1>6
  <2> DEFINE most == Max({alone[type] : type \in ToSet(c.types)})
             left_most == Max({left[type] : type \in ToSet(c.types)})
  <2>5. most = left_most
    BY <2>1
  <2> HIDE DEF f, g, S, most, left_most
  <2>6. f[c] = c.weight * most /\ g[c] = c.weight * left_most
    BY <2>2, <2>3 DEF most, left_most
  <2> QED BY <2>4, <2>5, <2>6
<1>10. at \in [S -> T] /\ (\A c \in S : at[c] = c) /\ \A c, d \in S : at[c] = at[d] => c = d
  BY <1>8
<1> HIDE DEF S, T, f, g, at
<1>11. SumOf(f) <= SumOf(g)
  BY <1>6, <1>9, <1>10, SumGrows
<1> QED BY <1>11 DEF f, g, kept, alone, left

(* All sums of a score are numbers.                                          *)
LEMMA NumbersOf ==
  ASSUME NEW rows, AreRows(rows), NEW left \in [EntityTypes -> 0 .. 100]
  PROVE  /\ \A types : SumOf(Weighed(rows, left, types)) \in Nat
         /\ SumOf(Combined(rows, left)) \in Nat
         /\ Cardinality(Relatives(rows)) \in Nat
<1>1. ASSUME NEW types
      PROVE  SumOf(Weighed(rows, left, types)) \in Nat
  <2> DEFINE S == Places(rows, types)
             f == Weighed(rows, left, types)
  <2>1. IsFiniteSet(S) /\ f \in [S -> Nat]
    BY WeighedIs
  <2> HIDE DEF S, f
  <2>2. SumOf(f) \in Nat
    BY <2>1, SumIs
  <2> QED BY <2>2 DEF f
<1>2. SumOf(Combined(rows, left)) \in Nat
  <2> DEFINE S == PresentCombos(rows)
             f == Combined(rows, left)
  <2>1. IsFiniteSet(S) /\ f \in [S -> Nat]
    BY CombinedIs
  <2> HIDE DEF S, f
  <2>2. SumOf(f) \in Nat
    BY <2>1, SumIs
  <2> QED BY <2>2 DEF f
<1>3. Cardinality(Relatives(rows)) \in Nat
  <2>1. IsFiniteSet(Relatives(rows))
    BY RowsAre, FS_Subset DEF Relatives
  <2> QED BY <2>1, FS_CardinalityType
<1> QED BY <1>1, <1>2, <1>3

ArePart(parts) ==
  /\ parts.direct \in Nat /\ parts.quasi \in Nat
  /\ parts.relationship \in Nat /\ parts.combination \in Nat

(* All parts of a score are numbers.                                         *)
LEMMA PartsAre ==
  ASSUME NEW rows, AreRows(rows), NEW level, NEW audience, NEW after \in BOOLEAN
  PROVE  ArePart(_component_scores(rows, level, audience, after))
<1> DEFINE left == Left(level, audience, after)
           parts == _component_scores(rows, level, audience, after)
           told == Told(level, audience, after)
           direct == SumOf(Weighed(rows, left, DIRECT_TYPES \cup VISUAL_TYPES))
           quasi == SumOf(Weighed(rows, left, QUASI_TYPES))
           bonus == SumOf(Combined(rows, left))
           relatives == Cardinality(Relatives(rows))
<1>1. left \in [EntityTypes -> 0 .. 100]
  BY LeftIs
<1>2. told \in Nat
  BY ActionsAre, FactorsAre DEF Told
<1>3. /\ parts.direct = DirectShare(direct) /\ parts.quasi = QuasiShare(quasi)
      /\ parts.relationship = RelationShare(relatives, told)
      /\ parts.combination = CombinationShare(bonus)
  BY ScoreParts
<1> HIDE DEF left, parts, told
<1>4. direct \in Nat /\ quasi \in Nat /\ bonus \in Nat /\ relatives \in Nat
  BY <1>1, NumbersOf
<1> HIDE DEF direct, quasi, bonus, relatives
<1>5. direct <= direct /\ quasi <= quasi /\ bonus <= bonus
  BY <1>4
<1>6. DirectShare(direct) \in Nat
  BY <1>4, <1>5, DirectGrows
<1>7. QuasiShare(quasi) \in Nat
  BY <1>4, <1>5, QuasiGrows
<1>8. CombinationShare(bonus) \in Nat
  BY <1>4, <1>5, CombinationGrows
<1>9. RelationShare(relatives, told) \in Nat
  BY <1>2, <1>4, RelationIs
<1> QED BY <1>3, <1>6, <1>7, <1>8, <1>9 DEF ArePart, parts

(* A score whose parts are no larger is no larger.                           *)
LEMMA ScoreGrows ==
  ASSUME NEW parts, ArePart(parts), NEW whole, ArePart(whole),
         parts.direct <= whole.direct, parts.quasi <= whole.quasi,
         parts.relationship <= whole.relationship, parts.combination <= whole.combination
  PROVE  Score(parts) \in 0 .. 100 /\ Score(whole) \in 0 .. 100 /\ Score(parts) <= Score(whole)
<1> DEFINE a == parts.direct + parts.quasi + parts.relationship + parts.combination
           b == whole.direct + whole.quasi + whole.relationship + whole.combination
<1>1. a \in Nat /\ b \in Nat /\ a <= b
  BY DEF ArePart
<1>2. Score(parts) = Min({100, a}) /\ Score(whole) = Min({100, b})
  BY DEF Score
<1> HIDE DEF a, b
<1>3. Min({100, a}) = (IF 100 <= a THEN 100 ELSE a) /\ Min({100, b}) = (IF 100 <= b THEN 100 ELSE b)
  BY <1>1, MinOfTwo
<1> QED BY <1>1, <1>2, <1>3

(* A score is at most a hundred.                                             *)
LEMMA ScoresAre ==
  ASSUME NEW rows, AreRows(rows), NEW level, NEW audience, NEW after \in BOOLEAN
  PROVE  Score(_component_scores(rows, level, audience, after)) \in 0 .. 100
<1> DEFINE parts == _component_scores(rows, level, audience, after)
<1>1. ArePart(parts)
  BY PartsAre
<1> HIDE DEF parts
<1>2. Score(parts) \in 0 .. 100
  BY <1>1, ScoreGrows DEF ArePart
<1> QED BY <1>2 DEF parts

(* "Residual risk remains visible in the score": what is retained weighs as  *)
(* before.                                                                   *)
LEMMA RetainedIsVisible ==
  ASSUME NEW rows, AreRows(rows), NEW level \in Levels, NEW audience
  PROVE  Score(_component_scores(Retained(rows, level, audience), 1, audience, FALSE))
           <= Score(_component_scores(rows, level, audience, TRUE))
<1> DEFINE kept == Retained(rows, level, audience)
           parts == _component_scores(kept, 1, audience, FALSE)
           whole == _component_scores(rows, level, audience, TRUE)
           alone == Left(1, audience, FALSE)
           left == Left(level, audience, TRUE)
           named == DIRECT_TYPES \cup VISUAL_TYPES
<1>1. AreRows(kept)
  BY RetainedAre
<1>2. ArePart(parts) /\ ArePart(whole)
  BY <1>1, PartsAre
<1>3. alone \in [EntityTypes -> 0 .. 100] /\ left \in [EntityTypes -> 0 .. 100]
  BY LeftIs
<1>4. /\ parts.direct = DirectShare(SumOf(Weighed(kept, alone, named)))
      /\ parts.quasi = QuasiShare(SumOf(Weighed(kept, alone, QUASI_TYPES)))
      /\ parts.relationship = RelationShare(Cardinality(Relatives(kept)), Told(1, audience, FALSE))
      /\ parts.combination = CombinationShare(SumOf(Combined(kept, alone)))
  <2> DEFINE one == 1
             before == FALSE
  <2>1. before \in BOOLEAN
    OBVIOUS
  <2> HIDE DEF kept, one, before
  <2>2. /\ _component_scores(kept, one, audience, before).direct
             = DirectShare(SumOf(Weighed(kept, Left(one, audience, before), DIRECT_TYPES \cup VISUAL_TYPES)))
        /\ _component_scores(kept, one, audience, before).quasi
             = QuasiShare(SumOf(Weighed(kept, Left(one, audience, before), QUASI_TYPES)))
        /\ _component_scores(kept, one, audience, before).relationship
             = RelationShare(Cardinality(Relatives(kept)), Told(one, audience, before))
        /\ _component_scores(kept, one, audience, before).combination
             = CombinationShare(SumOf(Combined(kept, Left(one, audience, before))))
    BY <1>1, <2>1, ScoreParts
  <2> QED BY <2>2 DEF one, before
<1>5. /\ whole.direct = DirectShare(SumOf(Weighed(rows, left, named)))
      /\ whole.quasi = QuasiShare(SumOf(Weighed(rows, left, QUASI_TYPES)))
      /\ whole.combination = CombinationShare(SumOf(Combined(rows, left)))
  BY ScoreParts
<1>6. \A types : SumOf(Weighed(kept, alone, types)) <= SumOf(Weighed(rows, left, types))
  BY RetainedWeigh
<1>7. SumOf(Combined(kept, alone)) <= SumOf(Combined(rows, left))
  BY RetainedCombine
<1>8. Relatives(kept) = {}
  <2>1. \A k \in DOMAIN kept : action_for(kept[k].type, level, audience) = "RETAIN"
    BY RetainedAre DEF ToSet
  <2>2. "PERSON_NAME" \in DIRECT_TYPES
    BY DEF DIRECT_TYPES
  <2>3. action_for("PERSON_NAME", level, audience) # "RETAIN"
    BY <2>2, WhatIsRetained
  <2> HIDE DEF kept
  <2> QED BY <2>1, <2>3 DEF Relatives, IsRelative
<1>9. Told(1, audience, FALSE) \in Nat
  BY DEF Told
<1> HIDE DEF kept, parts, whole, alone, left, named
<1>10. /\ \A types : SumOf(Weighed(kept, alone, types)) \in Nat
       /\ SumOf(Combined(kept, alone)) \in Nat
  BY <1>1, <1>3, NumbersOf
<1>11. /\ \A types : SumOf(Weighed(rows, left, types)) \in Nat
       /\ SumOf(Combined(rows, left)) \in Nat
  BY <1>3, NumbersOf
<1>12. parts.direct <= whole.direct
  BY <1>4, <1>5, <1>6, <1>10, <1>11, DirectGrows
<1>13. parts.quasi <= whole.quasi
  BY <1>4, <1>5, <1>6, <1>10, <1>11, QuasiGrows
<1>14. parts.combination <= whole.combination
  BY <1>4, <1>5, <1>7, <1>10, <1>11, CombinationGrows
<1>15. parts.relationship <= whole.relationship
  <2>1. Cardinality(Relatives(kept)) = 0
    BY <1>8, FS_EmptySet
  <2> DEFINE told == Told(1, audience, FALSE)
             none == 0
  <2>2. told \in Nat /\ none \in Nat
    BY <1>9
  <2> HIDE DEF told, none
  <2>3. RelationShare(0, told) = 0
    BY <2>2, RelationIs
  <2>4. parts.relationship = 0
    BY <1>4, <2>1, <2>3 DEF told
  <2> QED BY <1>2, <2>4 DEF ArePart
<1>16. Score(parts) <= Score(whole)
  BY <1>2, <1>12, <1>13, <1>14, <1>15, ScoreGrows
<1> QED BY <1>16 DEF parts, whole, kept

(* Keys that are distinct put places in an order.                            *)
LEMMA KeysOrder ==
  ASSUME NEW S, IsFiniteSet(S), NEW m \in Nat, NEW key \in [S -> [1 .. m -> Int]],
         \A j, k \in S : j # k => key[j] # key[k],
         NEW ahead, DOMAIN ahead = S, \A k \in S : ahead[k] = {j \in S : Earlier(key[j], key[k])}
  PROVE  IsOrder(ahead)
<1>1. DOMAIN ahead = S /\ \A k \in S : ahead[k] = {j \in S : Earlier(key[j], key[k])}
  OBVIOUS
<1>2. \A k \in S : key[k] \in [1 .. m -> Int]
  OBVIOUS
<1>3. \A k \in S : ahead[k] \subseteq S \ {k}
  BY <1>1, <1>2, EarlierIsStrict
<1>4. \A j, k \in S : j # k => j \in ahead[k] \/ k \in ahead[j]
  BY <1>1, <1>2, EarlierIsTotal
<1>5. \A j, k \in S : j \in ahead[k] => ahead[j] \subseteq ahead[k]
  <2> SUFFICES ASSUME NEW j \in S, NEW k \in S, Earlier(key[j], key[k]),
                      NEW i \in S, Earlier(key[i], key[j])
               PROVE  Earlier(key[i], key[k])
    BY <1>1
  <2>1. key[i] \in [1 .. m -> Int] /\ key[j] \in [1 .. m -> Int] /\ key[k] \in [1 .. m -> Int]
    BY <1>2
  <2> QED BY <2>1, EarlierGoesOn
<1> QED BY <1>1, <1>3, <1>4, <1>5 DEF IsOrder

-----------------------------------------------------------------------------
(* The rows of a file: one for each entity, in a query's order.              *)

FirstPlaces == {k \in DOMAIN mentions : Placeholder(Entity(mentions[k])) = k}
EntityRow(k) ==
  [id |-> Entity(mentions[k]), type |-> mentions[k].type,
   mentions |-> _mentions_by_entity(Entity(mentions[k]))]

(* The query lists a row for each entity, at its first mention.              *)
LEMMA RowsListed ==
  ASSUME AreMentions(mentions)
  PROVE  /\ _entity_rows \in Seq(ToSet(_entity_rows))
         /\ ToSet(_entity_rows) = {EntityRow(k) : k \in FirstPlaces}
<1> DEFINE first == FirstPlaces
           key == [k \in first |-> <<TypeRank(mentions[k].type), k>>]
           ahead == [k \in first |-> {j \in first : Earlier(key[j], key[k])}]
           rows == [k \in first |-> EntityRow(k)]
<1>1. Len(mentions) \in Nat /\ DOMAIN mentions = 1 .. Len(mentions)
  BY DEF AreMentions
<1>2. IsFiniteSet(first) /\ first \subseteq DOMAIN mentions
  <2>1. IsFiniteSet(1 .. Len(mentions))
    BY <1>1, FS_Interval
  <2>2. first \subseteq 1 .. Len(mentions)
    BY <1>1 DEF FirstPlaces
  <2> HIDE DEF first
  <2> QED BY <1>1, <2>1, <2>2, FS_Subset
<1>3. key \in [first -> [1 .. 2 -> Int]]
  <2> SUFFICES ASSUME NEW k \in first
               PROVE  <<TypeRank(mentions[k].type), k>> \in [1 .. 2 -> Int]
    OBVIOUS
  <2>1. mentions[k].type \in EntityTypes /\ k \in Int
    BY <1>1, <1>2 DEF AreMentions, IsFinding
  <2>2. TypeRank(mentions[k].type) \in Int
    BY <2>1, TypesAreRanked
  <2> QED BY <2>1, <2>2
<1>4. \A j, k \in first : j # k => key[j] # key[k]
  OBVIOUS
<1>5. IsOrder(ahead)
  <2> DEFINE two == 2
  <2>1. two \in Nat /\ key \in [first -> [1 .. two -> Int]]
    BY <1>3
  <2>2. DOMAIN ahead = first /\ \A k \in first : ahead[k] = {j \in first : Earlier(key[j], key[k])}
    OBVIOUS
  <2> HIDE DEF first, key, two, ahead
  <2> QED BY <1>2, <1>4, <2>1, <2>2, KeysOrder
<1>6. _entity_rows = Arranged(rows, ahead)
  <2>1. ahead = [k \in first |-> {j \in first : Earlier(<<TypeRank(mentions[j].type), j>>,
                                                        <<TypeRank(mentions[k].type), k>>)}]
    OBVIOUS
  <2> QED BY <2>1 DEF _entity_rows, FirstPlaces, EntityRow
<1>7. DOMAIN ahead = first /\ {rows[k] : k \in first} = {EntityRow(k) : k \in first}
  OBVIOUS
<1> HIDE DEF ahead, rows, first
<1>8. ValuesOf(_entity_rows) = {EntityRow(k) : k \in first}
  BY <1>5, <1>6, <1>7, ArrangedValues
<1>9. _entity_rows \in Seq({EntityRow(k) : k \in first})
  BY <1>5, <1>6, <1>7, ArrangedTakes
<1>10. ToSet(_entity_rows) = ValuesOf(_entity_rows)
  BY DEF ToSet, ValuesOf
<1> QED BY <1>8, <1>9, <1>10 DEF first

ActivePart(row) == [row EXCEPT !.mentions = _active_mentions(row)]

(* What nobody dismissed of rows.                                            *)
LEMMA ActiveRowsAre ==
  ASSUME NEW rows, rows \in Seq(ToSet(rows))
  PROVE  /\ ActiveEntities(rows) \in Seq(ToSet(ActiveEntities(rows)))
         /\ ToSet(ActiveEntities(rows))
              = {ActivePart(row) : row \in {r \in ToSet(rows) : _active_mentions(r) # {}}}
<1> DEFINE places == {k \in DOMAIN rows : _active_mentions(rows[k]) # {}}
           parts == [k \in DOMAIN rows |-> ActivePart(rows[k])]
           active == ActiveEntities(rows)
<1>1. active = Where(parts, places)
  BY DEF ActiveEntities, ActivePart
<1>2. places \in SUBSET Nat /\ IsFiniteSet(places)
  <2>1. DOMAIN rows = 1 .. Len(rows) /\ Len(rows) \in Nat
    OBVIOUS
  <2>2. IsFiniteSet(DOMAIN rows) /\ DOMAIN rows \subseteq Nat
    BY <2>1, FS_Interval
  <2>3. places \subseteq DOMAIN rows
    OBVIOUS
  <2> HIDE DEF places
  <2> QED BY <2>2, <2>3, FS_Subset
<1>3. {parts[k] : k \in places} = {ActivePart(row) : row \in {r \in ToSet(rows) : _active_mentions(r) # {}}}
  BY DEF ToSet
<1> HIDE DEF places, parts, active
<1>4. active \in Seq({parts[k] : k \in places}) /\ ValuesOf(active) = {parts[k] : k \in places}
  BY <1>1, <1>2, WhereKeeps
<1>5. ToSet(active) = ValuesOf(active)
  BY DEF ToSet, ValuesOf
<1> QED BY <1>3, <1>4, <1>5 DEF active

FileRows == ActiveEntities(_entity_rows)

(* The rows of a file are those of the entities that take part.              *)
LEMMA FileRowsAre ==
  ASSUME AreMentions(mentions)
  PROVE  /\ AreRows(FileRows)
         /\ \A row \in ToSet(FileRows) : row.id[1] = row.type
         /\ {row.id : row \in ToSet(FileRows)} = {Entity(m) : m \in ToSet(Active)}
<1>1. /\ _entity_rows \in Seq(ToSet(_entity_rows))
      /\ ToSet(_entity_rows) = {EntityRow(k) : k \in FirstPlaces}
  BY RowsListed
<1>2. /\ FileRows \in Seq(ToSet(FileRows))
      /\ ToSet(FileRows)
           = {ActivePart(row) : row \in {r \in ToSet(_entity_rows) : _active_mentions(r) # {}}}
  BY <1>1, ActiveRowsAre DEF FileRows
<1>3. \A k : /\ ActivePart(EntityRow(k)).id = Entity(mentions[k])
             /\ ActivePart(EntityRow(k)).type = mentions[k].type
             /\ EntityRow(k).mentions = _mentions_by_entity(Entity(mentions[k]))
  BY DEF ActivePart, EntityRow
<1>4. \A k \in FirstPlaces : k \in DOMAIN mentions /\ mentions[k].type \in EntityTypes
  BY DEF FirstPlaces, AreMentions, IsFinding
<1>5. \A row \in ToSet(FileRows) : row.type \in EntityTypes /\ row.id[1] = row.type
  BY <1>1, <1>2, <1>3, <1>4 DEF Entity
<1>6. AreRows(FileRows)
  BY <1>2, <1>5 DEF AreRows, ToSet
<1>7. ToSet(Active) = {m \in ToSet(mentions) : m.review # "IGNORE"}
  BY ActiveAre
<1>8. ASSUME NEW row \in ToSet(FileRows)
      PROVE  \E m \in ToSet(Active) : Entity(m) = row.id
  <2>1. PICK k \in FirstPlaces : /\ row = ActivePart(EntityRow(k))
                                 /\ _active_mentions(EntityRow(k)) # {}
    BY <1>1, <1>2
  <2>2. PICK r \in _mentions_by_entity(Entity(mentions[k])) : r.review # "IGNORE"
    BY <1>3, <2>1 DEF _active_mentions
  <2>3. PICK m \in ToSet(mentions) : Entity(m) = Entity(mentions[k]) /\ r.review = m.review
    BY DEF _mentions_by_entity
  <2> QED BY <1>3, <1>7, <2>1, <2>2, <2>3
<1>9. ASSUME NEW m \in ToSet(Active)
      PROVE  \E row \in ToSet(FileRows) : row.id = Entity(m)
  <2> DEFINE k == Placeholder(Entity(m))
  <2>1. k \in DOMAIN mentions /\ Entity(mentions[k]) = Entity(m)
    BY <1>7, PlaceholderIs
  <2>2. k \in FirstPlaces
    BY <2>1 DEF FirstPlaces
  <2> HIDE DEF k
  <2>3. \E r \in _mentions_by_entity(Entity(mentions[k])) : r.review = m.review
    <3> DEFINE r == [page |-> IF document.type = "DATASET" THEN document.pages[m.page].row ELSE m.page,
                     review |-> m.review, related |-> m.related]
    <3>1. r \in _mentions_by_entity(Entity(mentions[k])) /\ r.review = m.review
      BY <1>7, <2>1 DEF _mentions_by_entity
    <3> QED BY <3>1
  <2>4. _active_mentions(EntityRow(k)) # {}
    BY <1>3, <1>7, <2>3 DEF _active_mentions
  <2>5. ActivePart(EntityRow(k)) \in ToSet(FileRows)
    BY <1>1, <1>2, <2>2, <2>4
  <2> QED BY <1>3, <2>1, <2>5
<1>10. {row.id : row \in ToSet(FileRows)} = {Entity(m) : m \in ToSet(Active)}
  BY <1>8, <1>9
<1> QED BY <1>5, <1>6, <1>10

-----------------------------------------------------------------------------
(* The nodes of a graph, and whose they are.                                 *)

(* The nodes of a graph, but for file and person, are its entities.          *)
LEMMA NodesAre ==
  ASSUME NEW rows, NEW dataset, NEW level, NEW audience,
         \A row \in ToSet(ActiveEntities(rows)) : row.id[1] \in EntityTypes
  PROVE  {n.id : n \in build_exposure_graph(rows, dataset, level, audience).nodes}
            \ {FileNode, PersonNode}
           = {row.id : row \in ToSet(ActiveEntities(rows))}
<1> DEFINE active == ActiveEntities(rows)
           subject == Subject(active, dataset)
           Nodes == {Inferred(FileNode, "document", "source")}
                      \cup (IF subject # PersonNode THEN {}
                            ELSE {Inferred(PersonNode, "subject", "inferred")})
                      \cup {EntityNode(row, _kind(row, subject, dataset)) : row \in ToSet(active)}
<1>1. build_exposure_graph(rows, dataset, level, audience).nodes = Nodes
  BY DEF build_exposure_graph
<1>2. FileNode[1] \notin EntityTypes /\ PersonNode[1] \notin EntityTypes
  BY DEF FileNode, PersonNode, EntityTypes, DIRECT_TYPES, QUASI_TYPES, VISUAL_TYPES, CREDENTIAL_TYPES
<1>3. /\ \A id, kind, review : Inferred(id, kind, review).id = id
      /\ \A row, kind : EntityNode(row, kind).id = row.id
  BY DEF Inferred, EntityNode
<1> HIDE DEF active, subject
<1>4. {n.id : n \in Nodes} \ {FileNode, PersonNode} = {row.id : row \in ToSet(active)}
  <2>1. \A row \in ToSet(active) : row.id # FileNode /\ row.id # PersonNode
    BY <1>2 DEF active
  <2> QED BY <1>3, <2>1
<1> QED BY <1>1, <1>4 DEF active

-----------------------------------------------------------------------------
(* Paths *)

(* What is read off a graph of rows without looking into it.                 *)
Others(active, subject) == Where(active, {k \in DOMAIN active : active[k].id # subject})
Ties(others, subject, dataset) ==
  [k \in DOMAIN others |-> SubjectTie(others[k], subject, _kind(others[k], subject, dataset))]
AloneTies(ties) == Where(ties, {k \in DOMAIN ties : PathAlone(ties[k])})
MetSpecs(active, dataset) ==
  Where(combination_specs, {k \in DOMAIN combination_specs :
                              Meet(active, ToSet(combination_specs[k].types), dataset)})
FirstOfType(active, type) == active[Min({k \in DOMAIN active : active[k].type = type})].id
Chain(active, c) == [k \in DOMAIN c.types |-> FirstOfType(active, c.types[k])]
TiePaths(alone) == [k \in DOMAIN alone |-> Path(<<alone[k].source, alone[k].target>>, alone[k].weight)]
SpecPaths(active, subject, met) ==
  [k \in DOMAIN met |-> Path(<<subject>> \o Chain(active, met[k]), met[k].weight)]
AllPaths(active, dataset) ==
  TiePaths(AloneTies(Ties(Others(active, Subject(active, dataset)), Subject(active, dataset), dataset)))
    \o SpecPaths(active, Subject(active, dataset), MetSpecs(active, dataset))

(* The paths and the score of a graph, read off the code.                    *)
LEMMA GraphIs ==
  ASSUME NEW rows, NEW dataset, NEW level, NEW audience
  PROVE  /\ build_exposure_graph(rows, dataset, level, audience).paths
              = Heaviest(AllPaths(ActiveEntities(rows), dataset))
         /\ build_exposure_graph(rows, dataset, level, audience).risk.after
              = Score(_component_scores(ActiveEntities(rows), level, audience, TRUE))
<1> DEFINE G == build_exposure_graph(rows, dataset, level, audience)
           active == ActiveEntities(rows)
<1>1. G.paths = Heaviest(AllPaths(active, dataset))
  BY DEF build_exposure_graph, AllPaths, TiePaths, SpecPaths, AloneTies, Ties, Others, MetSpecs,
         Chain, FirstOfType
<1>2. G.risk = Risk(Score(_component_scores(active, level, audience, FALSE)),
                    Score(_component_scores(active, level, audience, TRUE)),
                    Utility(active, level, audience))
  BY DEF build_exposure_graph
<1>3. \A before, after, utility : Risk(before, after, utility).after = after
  BY DEF Risk
<1> DEFINE before == Score(_component_scores(active, level, audience, FALSE))
           after == Score(_component_scores(active, level, audience, TRUE))
           utility == Utility(active, level, audience)
<1>4. G.risk.after = after
  <2> HIDE DEF G, before, after, utility
  <2>1. G.risk = Risk(before, after, utility)
    BY <1>2 DEF before, after, utility
  <2>2. Risk(before, after, utility).after = after
    BY <1>3
  <2> QED BY <2>1, <2>2
<1> HIDE DEF G, active
<1> QED BY <1>1, <1>4 DEF G, active

(* What is measured on a twin changes only the score, and only down.         *)
LEMMA MeasuredIs ==
  ASSUME NEW graph, NEW privacy, NEW utility, NEW rows, NEW dataset, NEW level, NEW audience,
         graph = build_exposure_graph(rows, dataset, level, audience)
  PROVE  /\ Measured(graph, privacy, utility).paths = graph.paths
         /\ Measured(graph, privacy, utility).nodes = graph.nodes
         /\ Measured(graph, privacy, utility).risk.after
              = Min({graph.risk.after, Max({1, 100 - privacy})})
<1>1. "risk" \in DOMAIN graph /\ "paths" \in DOMAIN graph /\ "nodes" \in DOMAIN graph
  BY DEF build_exposure_graph
<1> DEFINE before == graph.risk.before
           after == Min({graph.risk.after, Max({1, 100 - privacy})})
           new == Risk(before, after, utility)
<1>2. Measured(graph, privacy, utility) = [graph EXCEPT !.risk = new]
  BY DEF Measured
<1>3. new.after = after
  <2> HIDE DEF before, after
  <2> QED BY DEF Risk
<1> HIDE DEF new, after
<1>4. /\ [graph EXCEPT !.risk = new].risk = new /\ [graph EXCEPT !.risk = new].paths = graph.paths
      /\ [graph EXCEPT !.risk = new].nodes = graph.nodes
  BY <1>1
<1> QED BY <1>2, <1>3, <1>4 DEF after

-----------------------------------------------------------------------------
(* A path is told, or as many as are told weigh as much.                     *)
LEMMA HeaviestIs ==
  ASSUME NEW paths, paths \in Seq(ToSet(paths)), \A k \in DOMAIN paths : paths[k].score \in Nat,
         NEW p \in DOMAIN paths
  PROVE  \/ \E i \in DOMAIN Heaviest(paths) : Heaviest(paths)[i] = paths[p]
         \/ \A i \in 1 .. PathLimit : Heaviest(paths)[i].score >= paths[p].score
<1> DEFINE n == Len(paths)
           ahead == [k \in DOMAIN paths |->
                       {j \in DOMAIN paths : \/ paths[j].score > paths[k].score
                                             \/ paths[j].score = paths[k].score /\ j < k}]
           ranked == Arranged(paths, ahead)
           told == Heaviest(paths)
           r == Cardinality(ahead[p]) + 1
<1>1. n \in Nat /\ DOMAIN paths = 1 .. n
  OBVIOUS
<1>2. /\ DOMAIN ahead = 1 .. n
      /\ \A k \in 1 .. n : ahead[k] =
           {j \in 1 .. n : \/ paths[j].score > paths[k].score
                           \/ paths[j].score = paths[k].score /\ j < k}
  BY <1>1
<1>3. told = [k \in 1 .. Min({PathLimit, n}) |-> ranked[k]]
  BY DEF Heaviest
<1> HIDE DEF n, ahead
<1>4. IsFiniteSet(1 .. n) /\ Cardinality(1 .. n) = n
  BY <1>1, FS_Interval
<1> DEFINE score == [k \in 1 .. n |-> paths[k].score]
<1>5. \A k \in 1 .. n : score[k] = paths[k].score /\ score[k] \in Nat /\ k \in Nat
  BY <1>1
<1> HIDE DEF score
<1>6. \A k \in 1 .. n : ahead[k] = {j \in 1 .. n : \/ score[j] > score[k]
                                                   \/ score[j] = score[k] /\ j < k}
  BY <1>2, <1>5
<1>7. IsOrder(ahead)
  <2>1. \A k \in 1 .. n : ahead[k] \subseteq (1 .. n) \ {k}
    BY <1>5, <1>6
  <2>2. \A j, k \in 1 .. n : j # k => j \in ahead[k] \/ k \in ahead[j]
    BY <1>5, <1>6
  <2>3. \A j, k \in 1 .. n : j \in ahead[k] => ahead[j] \subseteq ahead[k]
    BY <1>5, <1>6
  <2> QED BY <1>2, <1>4, <2>1, <2>2, <2>3 DEF IsOrder
<1>8. Takes(ranked, paths, ahead) /\ DOMAIN ranked = 1 .. n
  BY <1>2, <1>4, <1>7, ArrangedTakes
<1> HIDE DEF ranked
<1>9. r \in 1 .. n /\ ranked[r] = paths[p]
  BY <1>1, <1>2, <1>8 DEF Takes
<1>10. \A q \in 1 .. n : Cardinality(ahead[q]) \in Nat /\ IsFiniteSet(ahead[q])
  <2> SUFFICES ASSUME NEW q \in 1 .. n
               PROVE  Cardinality(ahead[q]) \in Nat /\ IsFiniteSet(ahead[q])
    OBVIOUS
  <2>1. ahead[q] \subseteq 1 .. n
    BY <1>6
  <2> QED BY <1>4, <2>1, FS_Subset, FS_CardinalityType
<1>11. \A q \in 1 .. n : Cardinality(ahead[q]) < Cardinality(ahead[p]) => score[q] >= score[p]
  <2> SUFFICES ASSUME NEW q \in 1 .. n, Cardinality(ahead[q]) < Cardinality(ahead[p]),
                      ~(score[q] >= score[p])
               PROVE  FALSE
    OBVIOUS
  <2>1. q # p /\ q \notin ahead[p]
    <3>1. score[q] \in Nat /\ score[p] \in Nat /\ p \in 1 .. n
      BY <1>1, <1>5
    <3>2. q # p
      BY <3>1
    <3>3. ahead[p] = {j \in 1 .. n : score[j] > score[p] \/ (score[j] = score[p] /\ j < p)}
      BY <1>6, <3>1
    <3>4. q \notin ahead[p]
      BY <3>1, <3>3
    <3> QED BY <3>2, <3>4
  <2>2. p \in ahead[q]
    BY <1>1, <1>2, <1>7, <2>1 DEF IsOrder
  <2>3. ahead[p] \subseteq ahead[q]
    BY <1>1, <1>2, <1>7, <2>2 DEF IsOrder
  <2>4. Cardinality(ahead[p]) <= Cardinality(ahead[q])
    BY <1>10, <2>3, FS_Subset
  <2> QED BY <1>1, <1>10, <2>4
<1> DEFINE limit == PathLimit
           most == Min({limit, n})
<1>12. limit \in Nat
  BY DEF PathLimit
<1>13. most = IF limit <= n THEN limit ELSE n
  <2> HIDE DEF limit
  <2> QED BY <1>1, <1>12, MinOfTwo
<1>14. told = [k \in 1 .. most |-> ranked[k]]
  BY <1>3
<1> HIDE DEF told, most, r, limit
<1>15. CASE r <= limit
  <2>1. r \in 1 .. most
    BY <1>1, <1>9, <1>12, <1>13, <1>15
  <2>2. r \in DOMAIN told /\ told[r] = paths[p]
    BY <1>9, <1>14, <2>1
  <2> QED BY <2>2 DEF told
<1>16. CASE ~(r <= limit)
  <2> SUFFICES ASSUME NEW i \in 1 .. limit
               PROVE  told[i].score >= paths[p].score
    BY DEF told, limit
  <2>1. i \in 1 .. most /\ i \in 1 .. n /\ i < r
    BY <1>1, <1>9, <1>12, <1>13, <1>16
  <2>2. told[i] = ranked[i]
    BY <1>14, <2>1
  <2>3. PICK q \in 1 .. n : Cardinality(ahead[q]) + 1 = i /\ ranked[i] = paths[q]
    BY <1>2, <1>8, <2>1 DEF Takes
  <2>4. score[q] >= score[p]
    BY <1>1, <1>10, <1>11, <2>1, <2>3 DEF r
  <2> QED BY <1>1, <1>5, <2>2, <2>3, <2>4
<1> QED BY <1>15, <1>16

(* A function of places is a list of its values.                             *)
LEMMA ListOf ==
  ASSUME NEW n \in Nat, NEW s, s = [k \in 1 .. n |-> s[k]]
  PROVE  s \in Seq(ToSet(s)) /\ Len(s) = n /\ DOMAIN s = 1 .. n
<1>1. DOMAIN s = 1 .. n
  OBVIOUS
<1>2. s \in [1 .. n -> ToSet(s)]
  BY <1>1 DEF ToSet
<1>3. s \in Seq(ToSet(s))
  BY <1>2
<1> QED BY <1>1, <1>3

(* Two lists, one after the other.                                           *)
LEMMA JoinedLists ==
  ASSUME NEW s, s \in Seq(ToSet(s)), NEW t, t \in Seq(ToSet(t))
  PROVE  /\ s \o t \in Seq(ToSet(s \o t))
         /\ \A i \in DOMAIN (s \o t) : (s \o t)[i] \in ToSet(s) \cup ToSet(t)
         /\ \A i \in DOMAIN t : Len(s) + i \in DOMAIN (s \o t) /\ (s \o t)[Len(s) + i] = t[i]
<1> DEFINE S == ToSet(s)
           T == ToSet(t)
           u == s \o t
           m == Len(s)
           n == Len(t)
<1>1. m \in Nat /\ n \in Nat /\ DOMAIN s = 1 .. m /\ DOMAIN t = 1 .. n
  OBVIOUS
<1>2. /\ \A i \in 1 .. m : s[i] \in S
      /\ \A i \in 1 .. n : t[i] \in T
  BY <1>1 DEF ToSet
<1>0. s \in Seq(S \cup T) /\ t \in Seq(S \cup T)
  <2> DEFINE both == S \cup T
  <2>1. S \subseteq both /\ T \subseteq both
    OBVIOUS
  <2> HIDE DEF both, S, T
  <2>2. s \in Seq(S) /\ t \in Seq(T)
    BY DEF S, T
  <2>3. s \in Seq(both)
    BY <2>1, <2>2, SeqWidens
  <2>4. t \in Seq(both)
    BY <2>1, <2>2, SeqWidens
  <2> QED BY <2>3, <2>4 DEF both
<1> HIDE DEF S, T
<1>3. /\ u \in Seq(S \cup T) /\ Len(u) = m + n
      /\ \A i \in 1 .. m + n : u[i] = IF i <= m THEN s[i] ELSE t[i - m]
  <2> DEFINE both == S \cup T
  <2>1. s \in Seq(both) /\ t \in Seq(both)
    BY <1>0
  <2> HIDE DEF both
  <2>2. /\ s \o t \in Seq(both) /\ Len(s \o t) = Len(s) + Len(t)
        /\ \A i \in 1 .. Len(s) + Len(t) : (s \o t)[i] = IF i <= Len(s) THEN s[i] ELSE t[i - Len(s)]
    BY <2>1, ConcatProperties
  <2> QED BY <2>2 DEF both
<1> HIDE DEF u, m, n
<1>4. DOMAIN u = 1 .. m + n /\ \A i \in 1 .. m + n : u[i] = IF i <= m THEN s[i] ELSE t[i - m]
  BY <1>3
<1>5. \A i \in 1 .. m + n : u[i] \in S \cup T
  <2> SUFFICES ASSUME NEW i \in 1 .. m + n
               PROVE  u[i] \in S \cup T
    OBVIOUS
  <2>1. CASE i <= m
    BY <1>1, <1>2, <1>4, <2>1
  <2>2. CASE ~(i <= m)
    <3>1. i - m \in 1 .. n
      BY <1>1, <2>2
    <3> QED BY <1>2, <1>4, <2>2, <3>1
  <2> QED BY <2>1, <2>2
<1>6. \A i \in 1 .. n : m + i \in 1 .. m + n /\ u[m + i] = t[i]
  <2> SUFFICES ASSUME NEW i \in 1 .. n
               PROVE  m + i \in 1 .. m + n /\ u[m + i] = t[i]
    OBVIOUS
  <2> DEFINE at == m + i
  <2>1. at \in 1 .. m + n /\ ~(at <= m) /\ at - m = i
    BY <1>1
  <2> HIDE DEF at
  <2>2. u[at] = t[i]
    BY <1>4, <2>1
  <2> QED BY <2>1, <2>2 DEF at
<1>7. u \in Seq(ToSet(u))
  <2>1. m + n \in Nat /\ u = [k \in 1 .. m + n |-> u[k]]
    <3>1. u \in [1 .. m + n -> S \cup T]
      BY <1>3
    <3> QED BY <1>1, <3>1
  <2> DEFINE total == m + n
  <2> HIDE DEF total
  <2>2. total \in Nat /\ u = [k \in 1 .. total |-> u[k]]
    BY <2>1 DEF total
  <2> QED BY <2>2, ListOf
<1> QED BY <1>1, <1>4, <1>5, <1>6, <1>7 DEF S, T, u, m, n

(* The three combinations that make a path.                                  *)
LEMMA SpecsAre ==
  /\ DOMAIN combination_specs = 1 .. 3
  /\ \A c \in ToSet(combination_specs) :
        /\ c.weight \in Nat /\ Len(c.types) \in Nat /\ DOMAIN c.types = 1 .. Len(c.types)
<1>1. DOMAIN combination_specs = 1 .. 3
  BY DEF combination_specs
<1>2. ToSet(combination_specs) = {combination_specs[1], combination_specs[2], combination_specs[3]}
  BY <1>1 DEF ToSet
<1>3. /\ combination_specs[1] = Linkage(<<"DATE_OF_BIRTH", "POSTCODE", "EMPLOYER">>, 26)
      /\ combination_specs[2] = Linkage(<<"AGE", "LOCALITY", "JOB_TITLE">>, 18)
      /\ combination_specs[3] = Linkage(<<"STREET_ADDRESS", "EMPLOYER">>, 16)
  BY DEF combination_specs
<1> QED BY <1>1, <1>2, <1>3 DEF Linkage

(* The paths of single ties are weighed.                                     *)
LEMMA TiePathsAre ==
  ASSUME NEW active, AreRows(active), NEW subject, NEW dataset
  PROVE  LET paths == TiePaths(AloneTies(Ties(Others(active, subject), subject, dataset)))
         IN /\ paths \in Seq(ToSet(paths))
            /\ \A path \in ToSet(paths) : path.score \in Nat
<1> DEFINE places == {k \in DOMAIN active : active[k].id # subject}
           others == Others(active, subject)
           ties == Ties(others, subject, dataset)
           strong == {k \in DOMAIN ties : PathAlone(ties[k])}
           alone == AloneTies(ties)
           paths == TiePaths(alone)
<1>1. DOMAIN active \subseteq Nat /\ IsFiniteSet(DOMAIN active)
  BY RowsAre
<1>2. others \in Seq({active[k] : k \in places})
  <2>1. places \in SUBSET Nat /\ IsFiniteSet(places)
    BY <1>1, FS_Subset
  <2> HIDE DEF places
  <2>2. Where(active, places) \in Seq({active[k] : k \in places})
    BY <2>1, WhereKeeps
  <2> QED BY <2>2 DEF Others, places
<1>3. \A row \in {active[k] : k \in places} : row.type \in EntityTypes
  BY DEF AreRows
<1> HIDE DEF others
<1>4. Len(others) \in Nat /\ DOMAIN others = 1 .. Len(others)
      /\ \A k \in DOMAIN others : others[k].type \in EntityTypes
  <2> HIDE DEF places
  <2> QED BY <1>2, <1>3
<1>5. DOMAIN ties = 1 .. Len(others) /\ \A k \in DOMAIN ties : ties[k].weight \in Nat
  <2>1. DOMAIN ties = DOMAIN others
    BY DEF Ties
  <2>2. ASSUME NEW row, row.type \in EntityTypes, NEW kind
        PROVE  SubjectTie(row, subject, kind).weight \in Nat
    <3>1. Weights[row.type] \in Nat
      BY <2>2, WeightsAre
    <3> QED BY <3>1 DEF SubjectTie, Tie
  <2> QED BY <1>4, <2>1, <2>2 DEF Ties
<1> HIDE DEF ties
<1>6. alone \in Seq({ties[k] : k \in strong})
  <2>1. DOMAIN ties \subseteq Nat /\ IsFiniteSet(DOMAIN ties)
    BY <1>4, <1>5, FS_Interval
  <2>2. strong \in SUBSET Nat /\ IsFiniteSet(strong)
    BY <2>1, FS_Subset
  <2> HIDE DEF strong
  <2>3. Where(ties, strong) \in Seq({ties[k] : k \in strong})
    BY <2>2, WhereKeeps
  <2> QED BY <2>3 DEF AloneTies, strong
<1>7. \A tie \in {ties[k] : k \in strong} : tie.weight \in Nat
  BY <1>5
<1> HIDE DEF alone, strong
<1>8. Len(alone) \in Nat /\ DOMAIN alone = 1 .. Len(alone)
      /\ \A k \in DOMAIN alone : alone[k].weight \in Nat
  BY <1>6, <1>7
<1>9. /\ paths = [k \in 1 .. Len(alone) |-> paths[k]]
      /\ \A k \in 1 .. Len(alone) : paths[k].score \in Nat
  BY <1>8 DEF TiePaths, Path
<1> DEFINE n == Len(alone)
<1>10. n \in Nat /\ paths = [k \in 1 .. n |-> paths[k]]
  BY <1>8, <1>9
<1> HIDE DEF paths, n
<1>11. paths \in Seq(ToSet(paths)) /\ DOMAIN paths = 1 .. n
  BY <1>10, ListOf
<1>12. \A path \in ToSet(paths) : path.score \in Nat
  BY <1>9, <1>11 DEF ToSet, n
<1> QED BY <1>11, <1>12 DEF paths, alone, ties, others

(* A combination that meets is chained up from the subject.                  *)
LEMMA ChainTells ==
  ASSUME NEW active, AreRows(active), \A row \in ToSet(active) : row.id[1] = row.type,
         NEW c \in ToSet(combination_specs), ToSet(c.types) \subseteq TypesOf(active), NEW subject
  PROVE  ToldOf(Path(<<subject>> \o Chain(active, c), c.weight), ToSet(c.types))
<1> DEFINE n == Len(c.types)
           chain == Chain(active, c)
<1>1. n \in Nat /\ DOMAIN c.types = 1 .. n
  BY SpecsAre
<1>2. \A k \in 1 .. n : chain[k][1] = c.types[k]
  <2> SUFFICES ASSUME NEW k \in 1 .. n
               PROVE  chain[k][1] = c.types[k]
    OBVIOUS
  <2> DEFINE type == c.types[k]
             T == {i \in DOMAIN active : active[i].type = type}
  <2>1. type \in TypesOf(active)
    BY <1>1 DEF ToSet
  <2>2. T # {} /\ \A i \in T : i \in Nat
    <3>1. DOMAIN active \subseteq Nat
      BY RowsAre
    <3> QED BY <2>1, <3>1 DEF TypesOf, ToSet
  <2>3. Min(T) \in T
    <3> HIDE DEF T
    <3> QED BY <2>2, FirstOf
  <2>4. chain[k] = active[Min(T)].id
    BY <1>1 DEF Chain, FirstOfType
  <2>5. active[Min(T)] \in ToSet(active) /\ active[Min(T)].type = type
    BY <2>3 DEF ToSet
  <2> QED BY <2>4, <2>5
<1>3. DOMAIN chain = 1 .. n
  BY <1>1 DEF Chain
<1>4. chain \in Seq(ToSet(chain))
  <2>1. chain = [k \in 1 .. n |-> chain[k]]
    BY <1>1 DEF Chain
  <2> HIDE DEF chain, n
  <2> QED BY <1>1, <2>1, ListOf
<1> DEFINE path == Path(<<subject>> \o chain, c.weight)
<1>5. path.nodes = <<subject>> \o chain
  BY DEF Path
<1> HIDE DEF chain, path, n
<1>6. Tail(<<subject>> \o chain) = chain
  <2> DEFINE S == ToSet(chain) \cup {subject}
  <2>1. chain \in Seq(S) /\ subject \in S
    <3>1. ToSet(chain) \subseteq S
      OBVIOUS
    <3> HIDE DEF S
    <3>2. chain \in Seq(S)
      BY <1>4, <3>1, SeqWidens
    <3> QED BY <3>2 DEF S
  <2> HIDE DEF S
  <2> QED BY <2>1
<1>7. {id[1] : id \in ToSet(chain)} = ToSet(c.types)
  BY <1>1, <1>2, <1>3 DEF ToSet
<1> QED BY <1>5, <1>6, <1>7 DEF ToldOf, path, chain

(* Every combination that meets has its path among all paths.                *)
LEMMA AllPathsAre ==
  ASSUME NEW active, AreRows(active), \A row \in ToSet(active) : row.id[1] = row.type,
         NEW dataset, NEW c \in ToSet(combination_specs), Meet(active, ToSet(c.types), dataset)
  PROVE  /\ AllPaths(active, dataset) \in Seq(ToSet(AllPaths(active, dataset)))
         /\ \A k \in DOMAIN AllPaths(active, dataset) : AllPaths(active, dataset)[k].score \in Nat
         /\ \E p \in DOMAIN AllPaths(active, dataset) :
               /\ AllPaths(active, dataset)[p].score = c.weight
               /\ ToldOf(AllPaths(active, dataset)[p], ToSet(c.types))
<1> DEFINE subject == Subject(active, dataset)
           places == {k \in DOMAIN combination_specs :
                        Meet(active, ToSet(combination_specs[k].types), dataset)}
           met == MetSpecs(active, dataset)
           ties == TiePaths(AloneTies(Ties(Others(active, subject), subject, dataset)))
           specs == SpecPaths(active, subject, met)
<1>1. AllPaths(active, dataset) = ties \o specs
  BY DEF AllPaths
<1>2. ties \in Seq(ToSet(ties)) /\ \A path \in ToSet(ties) : path.score \in Nat
  <2> HIDE DEF subject
  <2> QED BY TiePathsAre
<1>3. met \in Seq({combination_specs[k] : k \in places})
      /\ ValuesOf(met) = {combination_specs[k] : k \in places}
  <2>1. DOMAIN combination_specs \subseteq Nat /\ IsFiniteSet(DOMAIN combination_specs)
    <3> DEFINE a == 1
               b == 3
    <3>1. a \in Int /\ b \in Int /\ DOMAIN combination_specs = a .. b /\ a .. b \subseteq Nat
      BY SpecsAre
    <3> HIDE DEF a, b
    <3> QED BY <3>1, FS_Interval
  <2>2. places \in SUBSET Nat /\ IsFiniteSet(places)
    BY <2>1, FS_Subset
  <2> HIDE DEF places
  <2>3. /\ Where(combination_specs, places) \in Seq({combination_specs[k] : k \in places})
        /\ ValuesOf(Where(combination_specs, places)) = {combination_specs[k] : k \in places}
    BY <2>2, WhereKeeps
  <2> QED BY <2>3 DEF MetSpecs, places
<1>4. {combination_specs[k] : k \in places} \subseteq ToSet(combination_specs)
  BY DEF ToSet
<1>5. c \in {combination_specs[k] : k \in places}
  BY DEF ToSet
<1> HIDE DEF places, met, subject, ties
<1>6. PICK j \in DOMAIN met : met[j] = c
  BY <1>3, <1>5 DEF ValuesOf
<1> DEFINE n == Len(met)
<1>7. n \in Nat /\ DOMAIN met = 1 .. n /\ \A k \in 1 .. n : met[k].weight \in Nat
  BY <1>3, <1>4, SpecsAre
<1>8. specs \in Seq(ToSet(specs)) /\ DOMAIN specs = 1 .. n
      /\ \A k \in 1 .. n : specs[k] = Path(<<subject>> \o Chain(active, met[k]), met[k].weight)
  <2>1. specs = [k \in 1 .. n |-> specs[k]]
        /\ \A k \in 1 .. n : specs[k] = Path(<<subject>> \o Chain(active, met[k]), met[k].weight)
    BY <1>7 DEF SpecPaths
  <2> HIDE DEF specs, n
  <2> QED BY <1>7, <2>1, ListOf
<1> HIDE DEF specs
<1>9. \A path \in ToSet(specs) : path.score \in Nat
  <2>1. \A k \in 1 .. n : specs[k].score = met[k].weight
    BY <1>8 DEF Path
  <2> HIDE DEF n
  <2> QED BY <1>7, <1>8, <2>1 DEF ToSet
<1>10. specs[j].score = c.weight /\ ToldOf(specs[j], ToSet(c.types)) /\ j \in DOMAIN specs
  <2>1. specs[j] = Path(<<subject>> \o Chain(active, c), c.weight)
    BY <1>6, <1>7, <1>8
  <2>2. ToSet(c.types) \subseteq TypesOf(active)
    BY DEF Meet
  <2>3. ToldOf(Path(<<subject>> \o Chain(active, c), c.weight), ToSet(c.types))
    BY <2>2, ChainTells
  <2>4. specs[j].score = c.weight
    BY <2>1 DEF Path
  <2> QED BY <1>6, <1>7, <1>8, <2>1, <2>3, <2>4
<1> DEFINE all == ties \o specs
<1>11. /\ all \in Seq(ToSet(all))
       /\ \A i \in DOMAIN all : all[i] \in ToSet(ties) \cup ToSet(specs)
       /\ \A i \in DOMAIN specs : Len(ties) + i \in DOMAIN all /\ all[Len(ties) + i] = specs[i]
  BY <1>2, <1>8, JoinedLists
<1> HIDE DEF all
<1>12. \A i \in DOMAIN all : all[i].score \in Nat
  BY <1>2, <1>9, <1>11
<1>13. \E p \in DOMAIN all : all[p].score = c.weight /\ ToldOf(all[p], ToSet(c.types))
  <2> DEFINE p == Len(ties) + j
  <2>1. p \in DOMAIN all /\ all[p] = specs[j]
    BY <1>10, <1>11
  <2> HIDE DEF p
  <2> QED BY <1>10, <2>1
<1> QED BY <1>1, <1>11, <1>12, <1>13 DEF all

(* So the graph tells it, unless as many others weigh as much.               *)
LEMMA PathIsTold ==
  ASSUME NEW active, AreRows(active), \A row \in ToSet(active) : row.id[1] = row.type,
         NEW dataset, NEW c \in ToSet(combination_specs), Meet(active, ToSet(c.types), dataset)
  PROVE  LET told == Heaviest(AllPaths(active, dataset))
         IN \/ \E path \in ToSet(told) : ToldOf(path, ToSet(c.types))
            \/ \A k \in 1 .. PathLimit : told[k].score >= c.weight
<1> DEFINE all == AllPaths(active, dataset)
           told == Heaviest(all)
<1>1. /\ all \in Seq(ToSet(all)) /\ \A k \in DOMAIN all : all[k].score \in Nat
      /\ \E p \in DOMAIN all : all[p].score = c.weight /\ ToldOf(all[p], ToSet(c.types))
  BY AllPathsAre
<1> HIDE DEF all
<1>2. PICK p \in DOMAIN all : all[p].score = c.weight /\ ToldOf(all[p], ToSet(c.types))
  BY <1>1
<1>3. \/ \E i \in DOMAIN told : told[i] = all[p]
      \/ \A i \in 1 .. PathLimit : told[i].score >= all[p].score
  BY <1>1, HeaviestIs
<1> HIDE DEF told
<1>4. ASSUME NEW i \in DOMAIN told, told[i] = all[p]
      PROVE  \E path \in ToSet(told) : ToldOf(path, ToSet(c.types))
  BY <1>2, <1>4 DEF ToSet
<1> QED BY <1>2, <1>3, <1>4 DEF told, all

(* What meets among some rows meets among all.                               *)
LEMMA MeetGrows ==
  ASSUME NEW rows, NEW more, ToSet(rows) \subseteq ToSet(more), NEW types, NEW dataset,
         Meet(rows, types, dataset)
  PROVE  Meet(more, types, dataset)
<1>1. TypesOf(rows) \subseteq TypesOf(more)
  BY DEF TypesOf
<1>2. types \subseteq TypesOf(more)
  BY <1>1 DEF Meet
<1>3. ASSUME dataset
      PROVE  \E r \in UNION {{m.page : m \in row.mentions} : row \in ToSet(more)} :
               types \subseteq {row.type : row \in {a \in ToSet(more) :
                                                      \E m \in a.mentions : m.page = r}}
  <2>1. PICK r \in UNION {{m.page : m \in row.mentions} : row \in ToSet(rows)} :
               types \subseteq {row.type : row \in {a \in ToSet(rows) :
                                                      \E m \in a.mentions : m.page = r}}
    BY <1>3 DEF Meet
  <2>2. r \in UNION {{m.page : m \in row.mentions} : row \in ToSet(more)}
    BY <2>1
  <2>3. {row.type : row \in {a \in ToSet(rows) : \E m \in a.mentions : m.page = r}}
          \subseteq {row.type : row \in {a \in ToSet(more) : \E m \in a.mentions : m.page = r}}
    OBVIOUS
  <2> QED BY <2>1, <2>2, <2>3
<1> QED BY <1>2, <1>3 DEF Meet

-----------------------------------------------------------------------------
(* The manifest of an output.                                                *)

(* What an output keeps are the rows that its level retains.                 *)
LEMMA KeptIs ==
  /\ Kept = Retained(FileRows, output.level, job.audience)
  /\ AreMentions(mentions) =>
       ToSet(Kept) = {row \in ToSet(FileRows) : action_for(row.type, output.level, job.audience) = "RETAIN"}
<1>1. Kept = Retained(FileRows, output.level, job.audience)
  BY DEF Kept, Retained, FileRows
<1>2. ASSUME AreMentions(mentions)
      PROVE  ToSet(Kept) = {row \in ToSet(FileRows) :
                              action_for(row.type, output.level, job.audience) = "RETAIN"}
  <2>1. AreRows(FileRows)
    BY <1>2, FileRowsAre
  <2> QED BY <1>1, <2>1, RetainedAre
<1> QED BY <1>1, <1>2

(* What an output transforms are the entities of the mentions that it does   *)
(* not retain.                                                               *)
LEMMA TransformedAre ==
  ASSUME FileInv, HasOutput
  PROVE  Transformed = {Entity(m) : m \in {n \in ToSet(Active) :
                          action_for(n.type, output.level, job.audience) # "RETAIN"}}
<1> DEFINE level == output.level
           told == {i.entity : i \in ToSet(Instructions(level))}
<1>1. Transformed = told
  <2>1. CASE output.instructions = Instructions(level)
    BY <2>1 DEF Transformed
  <2>2. CASE output.instructions = Rebound(Instructions(5)) /\ level = 5
    <3> DEFINE list == Instructions(level)
               back == Rebound(list)
    <3>1. output.instructions = back
      BY <2>2
    <3>2. DOMAIN back = DOMAIN list
      BY DEF Rebound
    <3>3. \A k \in DOMAIN list : "entity" \in DOMAIN list[k]
      BY DEF Instructions, Instruction
    <3>4. \A k \in DOMAIN list : back[k].entity = list[k].entity
      <4> HIDE DEF list
      <4> QED BY <3>3 DEF Rebound
    <3> HIDE DEF list, back
    <3>5. {i.entity : i \in ToSet(back)} = {i.entity : i \in ToSet(list)}
      BY <3>2, <3>4 DEF ToSet
    <3> QED BY <3>1, <3>5 DEF Transformed, list
  <2> QED BY <2>1, <2>2 DEF FileInv, OutputHolds
<1>2. AreMentions(mentions)
  BY DEF FileInv
<1> HIDE DEF level
<1>3. ToSet(Instructions(level))
        = {Instruction(m, level) :
             m \in {n \in ToSet(Active) : action_for(n.type, level, job.audience) # "RETAIN"}}
  BY <1>2, InstructionsAre
<1>4. \A m : Instruction(m, level).entity = Entity(m)
  BY DEF Instruction
<1>5. told = {Entity(m) : m \in {n \in ToSet(Active) : action_for(n.type, level, job.audience) # "RETAIN"}}
  BY <1>3, <1>4
<1> QED BY <1>1, <1>5 DEF level

(* Each entity of a file is transformed or kept.                             *)
LEMMA EntitiesAreTold ==
  ASSUME FileInv, HasOutput
  PROVE  {row.id : row \in ToSet(FileRows)} = Transformed \cup {row.id : row \in ToSet(Kept)}
<1> DEFINE Retains(type) == action_for(type, output.level, job.audience) = "RETAIN"
<1>1. /\ \A row \in ToSet(FileRows) : row.id[1] = row.type
      /\ {row.id : row \in ToSet(FileRows)} = {Entity(m) : m \in ToSet(Active)}
  BY FileRowsAre DEF FileInv
<1>2. Transformed = {Entity(m) : m \in {n \in ToSet(Active) : ~Retains(n.type)}}
  BY TransformedAre
<1>3. ToSet(Kept) = {row \in ToSet(FileRows) : Retains(row.type)}
  BY KeptIs DEF FileInv
<1>4. \A m : Entity(m)[1] = m.type
  BY DEF Entity
<1> HIDE DEF Retains
<1>5. \A row \in ToSet(FileRows) : \E m \in ToSet(Active) : Entity(m) = row.id
  BY <1>1
<1>6. \A m \in ToSet(Active) : \E row \in ToSet(FileRows) : Entity(m) = row.id
  BY <1>1
<1>7. \A row \in ToSet(FileRows) : row.id \in Transformed \cup {r.id : r \in ToSet(Kept)}
  <2> SUFFICES ASSUME NEW row \in ToSet(FileRows), ~Retains(row.type)
               PROVE  row.id \in Transformed
    BY <1>3
  <2>1. PICK m \in ToSet(Active) : Entity(m) = row.id
    BY <1>5
  <2>2. m.type = row.type
    BY <1>1, <1>4, <2>1
  <2> QED BY <1>2, <2>1, <2>2
<1>8. Transformed \subseteq {row.id : row \in ToSet(FileRows)}
  BY <1>1, <1>2
<1> QED BY <1>3, <1>7, <1>8

-----------------------------------------------------------------------------
(* What a graph tells *)

(* The sum of nothing.                                                       *)
LEMMA EmptySum ==
  ASSUME NEW f \in [{} -> Nat]
  PROVE  SumOf(f) = 0
<1> DEFINE S == {}
<1>1. IsFiniteSet(S) /\ f \in [S -> Nat] /\ S = {}
  BY FS_EmptySet
<1> HIDE DEF S
<1>2. PICK sum : Sums(sum, f, S)
  BY <1>1, SumUnfolds
<1> QED BY <1>1, <1>2 DEF Sums

(* Nothing exposes nothing.                                                  *)
LEMMA NothingScores ==
  ASSUME NEW rows, AreRows(rows), ToSet(rows) = {}, NEW level, NEW audience, NEW after \in BOOLEAN
  PROVE  Score(_component_scores(rows, level, audience, after)) = 0
<1> DEFINE left == Left(level, audience, after)
           parts == _component_scores(rows, level, audience, after)
           told == Told(level, audience, after)
<1>1. /\ parts.direct = DirectShare(SumOf(Weighed(rows, left, DIRECT_TYPES \cup VISUAL_TYPES)))
      /\ parts.quasi = QuasiShare(SumOf(Weighed(rows, left, QUASI_TYPES)))
      /\ parts.relationship = RelationShare(Cardinality(Relatives(rows)), told)
      /\ parts.combination = CombinationShare(SumOf(Combined(rows, left)))
  BY ScoreParts
<1>2. left \in [EntityTypes -> 0 .. 100]
  BY LeftIs
<1>3. told \in Nat
  BY ActionsAre, FactorsAre DEF Told
<1> HIDE DEF left, parts, told
<1>4. DOMAIN rows = {}
  BY DEF ToSet
<1>5. \A types : SumOf(Weighed(rows, left, types)) = 0
  <2> SUFFICES ASSUME NEW types
               PROVE  SumOf(Weighed(rows, left, types)) = 0
    OBVIOUS
  <2>1. Places(rows, types) = {}
    BY <1>4 DEF Places
  <2>2. Weighed(rows, left, types) \in [{} -> Nat]
    BY <1>2, <2>1, WeighedIs
  <2> QED BY <2>2, EmptySum
<1>6. SumOf(Combined(rows, left)) = 0
  <2>1. TypesOf(rows) = {}
    BY DEF TypesOf
  <2>2. PresentCombos(rows) = {}
    <3>1. \A c \in combos : ToSet(c.types) # {}
      BY CombosAre
    <3> QED BY <2>1, <3>1 DEF PresentCombos
  <2>3. Combined(rows, left) \in [{} -> Nat]
    BY <1>2, <2>2, CombinedIs
  <2> QED BY <2>3, EmptySum
<1>7. Cardinality(Relatives(rows)) = 0
  <2>1. Relatives(rows) = {}
    BY <1>4 DEF Relatives
  <2> QED BY <2>1, FS_EmptySet
<1> DEFINE none == 0
<1>8. none \in Nat
  OBVIOUS
<1>9. RelationShare(0, told) = 0
  <2> HIDE DEF none
  <2> QED BY <1>3, <1>8, RelationIs
<1>10. \A cap \in Nat : Min({cap, 0}) = 0
  <2> SUFFICES ASSUME NEW cap \in Nat
               PROVE  Min({cap, none}) = none
    OBVIOUS
  <2>1. none <= cap /\ (cap <= none => cap = none)
    OBVIOUS
  <2> HIDE DEF none
  <2> QED BY <1>8, <2>1, MinOfTwo
<1>11. Rounded(0, 10000) = 0
  BY DEF Rounded
<1>12. /\ Min({50, 0}) = 0 /\ Min({34, 0}) = 0 /\ Min({28, 0}) = 0 /\ Min({100, 0}) = 0
  BY <1>10
<1>13. DirectShare(0) = 0
  BY <1>11, <1>12 DEF DirectShare
<1>14. QuasiShare(0) = 0
  BY <1>11, <1>12 DEF QuasiShare
<1>15. CombinationShare(0) = 0
  BY <1>11, <1>12 DEF CombinationShare
<1>16. parts.direct = 0 /\ parts.quasi = 0 /\ parts.relationship = 0 /\ parts.combination = 0
  BY <1>1, <1>5, <1>6, <1>7, <1>9, <1>13, <1>14, <1>15
<1>17. Score(parts) = 0
  <2>1. parts.direct + parts.quasi + parts.relationship + parts.combination = 0
    BY <1>16
  <2> QED BY <1>12, <2>1 DEF Score
<1> QED BY <1>17 DEF parts

-----------------------------------------------------------------------------
(* What a manifest tells is told by the graph of the file.                   *)
GraphTells(graph, of, kept) ==
  /\ graph.nodes = of.nodes /\ graph.paths = of.paths
  /\ graph.risk.after <= of.risk.after /\ graph.risk.after >= kept

(* The graph of a file is that of its rows.                                  *)
LEMMA FileGraph ==
  ASSUME NEW level
  PROVE  /\ _graph(level) = build_exposure_graph(_entity_rows, document.type = "DATASET", level, job.audience)
         /\ _graph(level).paths = Heaviest(AllPaths(FileRows, document.type = "DATASET"))
         /\ _graph(level).risk.after = Score(_component_scores(FileRows, level, job.audience, TRUE))
<1> DEFINE dataset == document.type = "DATASET"
           audience == job.audience
<1>1. _graph(level) = build_exposure_graph(_entity_rows, dataset, level, audience)
  BY DEF _graph
<1> HIDE DEF dataset, audience
<1>2. /\ build_exposure_graph(_entity_rows, dataset, level, audience).paths
           = Heaviest(AllPaths(ActiveEntities(_entity_rows), dataset))
      /\ build_exposure_graph(_entity_rows, dataset, level, audience).risk.after
           = Score(_component_scores(ActiveEntities(_entity_rows), level, audience, TRUE))
  BY GraphIs
<1> QED BY <1>1, <1>2 DEF FileRows, dataset, audience

(* The graph in a manifest is that of the file, or measured on its twin.     *)
LEMMA ManifestTells ==
  ASSUME FileInv, HasOutput
  PROVE  GraphTells(output.graph, _graph(output.level),
                    Score(_component_scores(Kept, 1, job.audience, FALSE)))
<1> DEFINE level == output.level
           audience == job.audience
           G == _graph(level)
           visible == Score(_component_scores(Kept, 1, audience, FALSE))
<1>1. /\ level \in Levels /\ AreRows(FileRows)
      /\ Kept = Retained(FileRows, level, audience)
  BY FileRowsAre, KeptIs DEF FileInv, OutputHolds
<1>2. G.risk.after = Score(_component_scores(FileRows, level, audience, TRUE))
  BY FileGraph
<1>3. G.risk.after \in 0 .. 100
  <2> DEFINE yes == TRUE
  <2>1. yes \in BOOLEAN /\ G.risk.after = Score(_component_scores(FileRows, level, audience, yes))
    BY <1>2
  <2> HIDE DEF yes, G, level, audience
  <2>2. Score(_component_scores(FileRows, level, audience, yes)) \in 0 .. 100
    BY <1>1, <2>1, ScoresAre
  <2> QED BY <2>1, <2>2
<1>4. visible <= G.risk.after
  <2> HIDE DEF level, audience
  <2>1. Score(_component_scores(Retained(FileRows, level, audience), 1, audience, FALSE))
          <= Score(_component_scores(FileRows, level, audience, TRUE))
    BY <1>1, RetainedIsVisible
  <2> QED BY <1>1, <1>2, <2>1
<1>5. visible \in 0 .. 100
  <2> DEFINE no == FALSE
             one == 1
  <2>1. no \in BOOLEAN /\ visible = Score(_component_scores(Kept, one, audience, no))
    OBVIOUS
  <2>2. AreRows(Kept)
    <3> HIDE DEF level, audience
    <3>1. AreRows(Retained(FileRows, level, audience))
      BY <1>1, RetainedAre
    <3> QED BY <1>1, <3>1
  <2> HIDE DEF no, one, visible
  <2>3. Score(_component_scores(Kept, one, audience, no)) \in 0 .. 100
    BY <2>1, <2>2, ScoresAre
  <2> QED BY <2>1, <2>3
<1>6. CASE output.graph = G
  <2>1. G.risk.after <= G.risk.after
    BY <1>3
  <2> HIDE DEF G, visible
  <2>2. G.risk.after >= visible
    BY <1>3, <1>4, <1>5
  <2>3. GraphTells(output.graph, G, visible)
    BY <1>6, <2>1, <2>2 DEF GraphTells
  <2> QED BY <2>3 DEF G, visible
<1>7. ASSUME level = 5, NEW privacy \in {50, 90}, output.graph = Measured(G, privacy, 80)
      PROVE  GraphTells(output.graph, G, visible)
  <2>1. ToSet(Kept) = {}
    <3>1. \A row \in ToSet(FileRows) : action_for(row.type, level, audience) # "RETAIN"
      BY <1>7, TwinRetainsNothing
    <3> QED BY <3>1, KeptIs DEF FileInv
  <2>2. AreRows(Kept)
    <3> HIDE DEF level, audience
    <3>1. AreRows(Retained(FileRows, level, audience))
      BY <1>1, RetainedAre
    <3> QED BY <1>1, <3>1
  <2>3. visible = 0
    <3> DEFINE no == FALSE
               one == 1
    <3>1. no \in BOOLEAN /\ visible = Score(_component_scores(Kept, one, audience, no))
      OBVIOUS
    <3> HIDE DEF no, one, visible
    <3>2. Score(_component_scores(Kept, one, audience, no)) = 0
      BY <2>1, <2>2, <3>1, NothingScores
    <3> QED BY <3>1, <3>2
  <2> DEFINE measured == Max({1, 100 - privacy})
             utility == 80
  <2>4. measured \in Nat
    <3> DEFINE T == {1, 100 - privacy}
               hundred == 100
    <3>1. T # {} /\ (\A x \in T : x \in 0 .. hundred) /\ hundred \in Nat
      BY <1>7
    <3> HIDE DEF T, hundred
    <3>2. Max(T) \in 0 .. hundred
      BY <3>1, GreatestOf
    <3>3. Max(T) \in Nat
      BY <3>1, <3>2
    <3> QED BY <3>3 DEF T
  <2>5. /\ Measured(G, privacy, utility).paths = G.paths /\ Measured(G, privacy, utility).nodes = G.nodes
        /\ Measured(G, privacy, utility).risk.after = Min({G.risk.after, measured})
    <3> DEFINE dataset == document.type = "DATASET"
    <3>1. G = build_exposure_graph(_entity_rows, dataset, level, audience)
      BY FileGraph
    <3> HIDE DEF G, utility, dataset, level, audience
    <3> QED BY <3>1, MeasuredIs
  <2>6. output.graph = Measured(G, privacy, utility)
    BY <1>7
  <2> DEFINE after == G.risk.after
  <2>7. after \in Nat
    BY <1>3
  <2> HIDE DEF measured, utility, after, visible, G
  <2>8. Min({after, measured}) = IF after <= measured THEN after ELSE measured
    BY <2>4, <2>7, MinOfTwo
  <2>9. output.graph.risk.after = Min({after, measured})
    BY <2>5, <2>6 DEF after
  <2>10. output.graph.risk.after <= after /\ output.graph.risk.after >= visible
    BY <2>3, <2>4, <2>7, <2>8, <2>9
  <2> QED BY <2>5, <2>6, <2>10 DEF GraphTells, after
<1>8. \/ output.graph = G
      \/ level = 5 /\ \E privacy \in {50, 90} : output.graph = Measured(G, privacy, 80)
  BY DEF FileInv, OutputHolds
<1> QED BY <1>6, <1>7, <1>8

(* The preview of a level has the score of the graph of that level.          *)
LEMMA PreviewIs ==
  ASSUME NEW level \in Levels, level = 5 => document.type = "DATASET"
  PROVE  /\ Recommended.previews[level].supported = TRUE
         /\ Recommended.previews[level].residual = _graph(level).risk.after
<1> DEFINE dataset == document.type = "DATASET"
           p == Preview(_entity_rows, document.type, level, job.audience)
<1>1. Recommended.previews[level] = p
  BY DEF Recommended, privacy_recommendation
<1>2. p.supported = TRUE
      /\ p.residual = build_exposure_graph(_entity_rows, dataset, level, job.audience).risk.after
  BY DEF Preview
<1>3. _graph(level) = build_exposure_graph(_entity_rows, dataset, level, job.audience)
  BY DEF _graph
<1> HIDE DEF p
<1> QED BY <1>1, <1>2, <1>3

(* So a manifest tells of all that is in the output, and hides none of its   *)
(* risk.                                                                     *)
LEMMA Exposed == FileInv => ExposureIsTold
<1> SUFFICES ASSUME FileInv, HasOutput
             PROVE  /\ {n.id : n \in output.graph.nodes} \ {FileNode, PersonNode}
                         = Transformed \cup {row.id : row \in ToSet(Kept)}
                    /\ output.graph.risk.after >= Score(_component_scores(Kept, 1, job.audience, FALSE))
                    /\ \A c \in ToSet(combination_specs) :
                          Meet(Kept, ToSet(c.types), document.type = "DATASET") =>
                            \/ \E path \in ToSet(output.graph.paths) : ToldOf(path, ToSet(c.types))
                            \/ \A k \in 1 .. PathLimit : output.graph.paths[k].score >= c.weight
                    /\ Recommended.previews[output.level].supported
                    /\ output.graph.risk.after <= Recommended.previews[output.level].residual
  BY DEF ExposureIsTold, HasOutput
<1> DEFINE level == output.level
           dataset == document.type = "DATASET"
           G == _graph(level)
           visible == Score(_component_scores(Kept, 1, job.audience, FALSE))
<1>1. level \in Levels /\ (level = 5 => dataset) /\ AreMentions(mentions)
  BY DEF FileInv, OutputHolds
<1>2. GraphTells(output.graph, G, visible)
  BY ManifestTells
<1>3. AreRows(FileRows) /\ \A row \in ToSet(FileRows) : row.id[1] = row.type
  BY <1>1, FileRowsAre
<1>4. {n.id : n \in G.nodes} \ {FileNode, PersonNode} = {row.id : row \in ToSet(FileRows)}
  <2>1. \A row \in ToSet(FileRows) : row.id[1] \in EntityTypes
    BY <1>3 DEF AreRows, ToSet
  <2> DEFINE audience == job.audience
             rows == _entity_rows
  <2>2. G = build_exposure_graph(rows, dataset, level, audience)
    BY FileGraph
  <2>3. \A row \in ToSet(ActiveEntities(rows)) : row.id[1] \in EntityTypes
    BY <2>1 DEF FileRows
  <2> HIDE DEF G, dataset, level, audience, rows
  <2>4. {n.id : n \in build_exposure_graph(rows, dataset, level, audience).nodes} \ {FileNode, PersonNode}
          = {row.id : row \in ToSet(ActiveEntities(rows))}
    BY <2>3, NodesAre
  <2> QED BY <2>2, <2>4 DEF FileRows, rows
<1>5. {row.id : row \in ToSet(FileRows)} = Transformed \cup {row.id : row \in ToSet(Kept)}
  BY EntitiesAreTold
<1>6. G.paths = Heaviest(AllPaths(FileRows, dataset))
  BY FileGraph
<1>7. ASSUME NEW c \in ToSet(combination_specs), Meet(Kept, ToSet(c.types), dataset)
      PROVE  \/ \E path \in ToSet(G.paths) : ToldOf(path, ToSet(c.types))
             \/ \A k \in 1 .. PathLimit : G.paths[k].score >= c.weight
  <2>1. ToSet(Kept) \subseteq ToSet(FileRows)
    BY <1>1, KeptIs
  <2> HIDE DEF G, dataset
  <2>2. Meet(FileRows, ToSet(c.types), dataset)
    BY <1>7, <2>1, MeetGrows
  <2>3. LET told == Heaviest(AllPaths(FileRows, dataset))
        IN \/ \E path \in ToSet(told) : ToldOf(path, ToSet(c.types))
           \/ \A k \in 1 .. PathLimit : told[k].score >= c.weight
    BY <1>3, <2>2, PathIsTold
  <2> QED BY <1>6, <2>3
<1>8. /\ Recommended.previews[level].supported = TRUE
      /\ Recommended.previews[level].residual = G.risk.after
  <2> HIDE DEF level
  <2> QED BY <1>1, PreviewIs
<1> HIDE DEF G, visible
<1>9. /\ output.graph.nodes = G.nodes /\ output.graph.paths = G.paths
      /\ output.graph.risk.after <= G.risk.after /\ output.graph.risk.after >= visible
  BY <1>2 DEF GraphTells
<1> QED BY <1>4, <1>5, <1>7, <1>8, <1>9 DEF visible

-----------------------------------------------------------------------------
(* The compiler and the recommendation *)

(* Every type of entity has one kind; no direct identifier is ever retained *)
(* by the compiler, whatever the level and the audience.                     *)
THEOREM IdentifiersAreNeverRetained ==
  ASSUME NEW type \in DIRECT_TYPES, NEW level \in Levels, NEW audience \in Audiences
  PROVE  action_for(type, level, audience) # "RETAIN"
  BY SMT DEF action_for, Generalized, DIRECT_TYPES, CREDENTIAL_TYPES, QUASI_TYPES,
             VISUAL_TYPES, LEVEL2_PROTECT_TYPES, Levels

(* A higher level protects no less: what the compiler transforms at a level *)
(* it transforms at every level above it.                                   *)
THEOREM HigherLevelsProtectMore ==
  ASSUME NEW type \in EntityTypes, NEW audience \in Audiences,
         NEW low \in Levels, NEW high \in Levels, low < high,
         action_for(type, low, audience) # "RETAIN"
  PROVE  action_for(type, high, audience) # "RETAIN"
  BY SMT DEF action_for, Generalized, DIRECT_TYPES, CREDENTIAL_TYPES, QUASI_TYPES,
             VISUAL_TYPES, LEVEL2_PROTECT_TYPES, EntityTypes, Levels

(* The recommendation is a level the service can carry out for the format,  *)
(* never below the floor it enforces; so the floor can always be met.       *)
THEOREM RecommendationMeetsFloor ==
  ASSUME NEW terms \in SUBSET TermGroups, NEW audience \in Audiences,
         NEW fileType \in FileTypes, NEW exposed \in BOOLEAN, NEW types \in SUBSET EntityTypes
  PROVE  LET d == recommend_privacy_level(terms, audience, fileType, exposed, types)
         IN /\ d.recommended \in Levels
            /\ d.minimum \in Levels
            /\ d.minimum <= d.recommended
            /\ d.recommended = 5 => fileType = "DATASET"
<1> DEFINE structured == fileType = "DATASET"
           stated == PurposeLevel(terms, AudienceLevel(audience), structured)
           risky == HighRiskLevel(types, stated, audience)
           raised == IF exposed /\ audience # "INTERNAL_OPERATIONS" THEN AtLeast(risky, 4)
                     ELSE risky
<1>1. stated \in Levels /\ AudienceFloor(audience) <= stated
      /\ ("synthetic" \in terms /\ structured => stated = 5)
  <2> DEFINE base == AudienceLevel(audience)
  <2>1. base \in Levels /\ AudienceFloor(audience) \in Levels /\ AudienceFloor(audience) <= base
    BY DEF AudienceLevel, AudienceFloor, Levels, Audiences
  <2> HIDE DEF base
  <2>2. stated = PurposeLevel(terms, base, structured)
    BY DEF base
  <2>3. \/ "synthetic" \in terms /\ stated = (IF structured THEN 5 ELSE AtLeast(base, 4))
        \/ "synthetic" \notin terms
           /\ stated \in {AtLeast(base, 4), AtLeast(base, 3), AtLeast(base, 2), base}
    <3> HIDE DEF stated
    <3>1. CASE "synthetic" \in terms
      BY <2>2, <3>1 DEF PurposeLevel
    <3>2. CASE "synthetic" \notin terms /\ terms \cap {"public", "external"} # {}
      BY <2>2, <3>2 DEF PurposeLevel
    <3>3. CASE "synthetic" \notin terms /\ terms \cap {"public", "external"} = {}
      BY <2>2, <3>3 DEF PurposeLevel
    <3> QED BY <3>1, <3>2, <3>3
  <2> HIDE DEF stated
  <2> QED BY <2>1, <2>3, SMT DEF AtLeast, Levels
<1>2. risky \in Levels /\ stated <= risky
  <2> HIDE DEF stated
  <2> QED BY <1>1, SMT DEF HighRiskLevel, AtLeast, Levels
<1>3. raised \in Levels /\ risky <= raised
  <2> HIDE DEF risky
  <2> QED BY <1>2, SMT DEF AtLeast, Levels
<1>4. AudienceFloor(audience) \in 1 .. 4
  BY DEF AudienceFloor, Audiences
<1>5. recommend_privacy_level(terms, audience, fileType, exposed, types)
        = [recommended |-> IF raised = 5 /\ ~structured THEN 4 ELSE raised,
           minimum |-> IF "synthetic" \in terms /\ structured THEN 5
                       ELSE AudienceFloor(audience)]
  BY DEF recommend_privacy_level
<1> HIDE DEF raised, risky, stated
<1> QED
  BY <1>1, <1>2, <1>3, <1>4, <1>5, SMT DEF Levels
-----------------------------------------------------------------------------
(* What a release rests on *)

(* The rescans that a file other than a dataset passed when it is verified  *)
(* safe, and the tools they ran with.                                       *)
LEMMA SafeMeansRescanned ==
  ASSUME NEW file, file.type # "DATASET",
         NEW out, NEW known, NEW instructions, NEW expected, NEW level,
         NEW dismissed, NEW useful, NEW tools,
         VerifiedSafe(run_red_team(file, out, known, instructions, expected, level,
                                   dismissed, useful, tools))
  PROVE  /\ "reader" \in tools
         /\ file.type \in {"TEXT", "DOCX", "PDF"} =>
              ~_text_leaks(Content(out), known, instructions)
         /\ file.type \in {"PDF", "IMAGE"} =>
              /\ "tesseract" \in tools
              /\ ~_text_leaks(Pictures(out), known, instructions)
         /\ file.type = "PDF" => "pdftotext" \in tools
         /\ file.type = "VIDEO" =>
              /\ "tesseract" \in tools
              /\ ~_text_leaks(Processed(file, out),
                              _policy_required_absence_values(known, instructions), <<>>)
              /\ out.sound = <<>>
<1> DEFINE results == run_red_team(file, out, known, instructions, expected, level,
                                   dismissed, useful, tools)
<1>1. \A r \in results : r = "PASS"
  BY DEF VerifiedSafe
<1>2. metadata_inspection(out, tools) \in results
  BY DEF run_red_team, Transformation_tests
<1>3. /\ file.type # "VIDEO" =>
           independent_extraction(file, out, known, instructions, tools) \in results
      /\ file.type = "VIDEO" =>
           independent_extraction(file, out, _policy_required_absence_values(known, instructions),
                                  <<>>, tools) \in results
  BY DEF run_red_team, Content_tests
<1>4. file.type \in {"TEXT", "DOCX"} =>
        secondary_parser_rescan(out, known, instructions, tools) \in results
  BY DEF run_red_team
<1>5. file.type \in {"PDF", "IMAGE"} =>
        ocr_rescan(out, known, instructions, tools) \in results
  BY DEF run_red_team
<1> HIDE DEF results
<1>6. "reader" \in tools
  BY <1>1, <1>2 DEF metadata_inspection, Attempt
<1>7. CASE file.type \in {"TEXT", "DOCX"}
  BY <1>1, <1>4, <1>6, <1>7 DEF secondary_parser_rescan, Attempt
<1>8. CASE file.type \in {"PDF", "IMAGE"}
  <2>1. "tesseract" \in tools /\ ~_text_leaks(Pictures(out), known, instructions)
    BY <1>1, <1>5, <1>8 DEF ocr_rescan, Attempt
  <2>2. CASE file.type = "PDF"
    <3>1. independent_extraction(file, out, known, instructions, tools) = "PASS"
      BY <1>1, <1>3, <2>2
    <3>2. /\ "pdftotext" \in tools
          /\ ~_text_leaks(Content(out), known, instructions)
      BY <2>2, <3>1 DEF independent_extraction, Attempt
    <3> QED BY <1>6, <2>1, <2>2, <3>2
  <2> QED BY <1>6, <1>8, <2>1, <2>2
<1>9. CASE file.type = "VIDEO"
  <2>1. independent_extraction(file, out, _policy_required_absence_values(known, instructions),
                               <<>>, tools) = "PASS"
    BY <1>1, <1>3, <1>9
  <2>2. metadata_inspection(out, tools) = "PASS"
    BY <1>1, <1>2
  <2>3. "tesseract" \in tools
        /\ ~_text_leaks(Processed(file, out),
                        _policy_required_absence_values(known, instructions), <<>>)
    BY <1>9, <2>1 DEF independent_extraction, Attempt
  <2>4. out.sound = <<>>
    BY <2>2 DEF metadata_inspection, Attempt
  <2> QED BY <1>6, <1>9, <2>3, <2>4
<1> QED BY <1>6, <1>7, <1>8, <1>9

(* The verdict on the newest output is the one its verification gave.       *)
VerdictHolds ==
  stage = "released" =>
    VerifiedSafe(run_red_team(document, output.written, KnownValues, output.instructions,
                              Transformed, output.level, output.dismissed, output.useful,
                              run.tools))

(* At first there is no verdict.                                             *)
LEMMA VerdictInit == FileInit => VerdictHolds
  BY DEF FileInit, VerdictHolds

(* Only a verification releases a file, and it records what it saw.         *)
LEMMA VerdictStep ==
  ASSUME VerdictHolds, [FileNext]_FileVars
  PROVE  VerdictHolds'
<1>1. CASE Analyse
  BY <1>1 DEF Analyse, VerdictHolds
<1>2. ASSUME NEW k \in DOMAIN mentions, NEW action \in {"PROTECT", "IGNORE"}, Review(k, action)
      PROVE  VerdictHolds'
  BY <1>2 DEF Review, VerdictHolds
<1>3. ASSUME NEW level \in Levels, TransformFails(level) \/ Transform(level)
      PROVE  VerdictHolds'
  BY <1>3 DEF TransformFails, Transform, Store, VerdictHolds
<1>4. CASE Synthesize
  BY <1>4 DEF Synthesize, Store, VerdictHolds
<1>5. CASE Verify
  <2> DEFINE verdict(tools) ==
        run_red_team(document, output.written, KnownValues, output.instructions, Transformed,
                     output.level, output.dismissed, output.useful, tools)
  <2>1. PICK tools \in ToolSets :
           /\ run' = [tools |-> tools, results |-> verdict(tools)]
           /\ stage' = IF VerifiedSafe(verdict(tools)) THEN "released" ELSE "blocked"
    BY <1>5 DEF Verify
  <2>2. run'.tools = tools /\ UNCHANGED <<document, output>>
    BY <1>5, <2>1 DEF Verify
  <2>3. KnownValues' = KnownValues /\ Transformed' = Transformed
    BY <2>2 DEF KnownValues, Transformed
  <2>4. (VerifiedSafe(verdict(run.tools)))' <=> VerifiedSafe(verdict(tools))
    BY <2>2, <2>3
  <2> QED BY <2>1, <2>4 DEF VerdictHolds
<1>6. CASE UNCHANGED FileVars
  BY <1>6 DEF FileVars, VerdictHolds, KnownValues, Transformed
<1> QED BY <1>1, <1>2, <1>3, <1>4, <1>5, <1>6 DEF FileNext

(* For every document, every set of tools and every fault of the writers: a *)
(* file is released only if the rescans of its format could run and found   *)
(* nothing.                                                                 *)
THEOREM Release == FileSpec => []ReleaseFailsClosed
<1>1. VerdictHolds => ReleaseFailsClosed
  BY SafeMeansRescanned DEF VerdictHolds, ReleaseFailsClosed
<1> QED
  BY <1>1, VerdictInit, VerdictStep, PTL DEF FileSpec

(* Whose values may not be read in an output, and what is blanked out of it  *)
(* first: the replacements made to contain the value.                        *)
Sought ==
  CASE document.type = "DATASET" /\ output.level = 5 -> _synthetic_identity_absence_values(KnownValues)
    [] \/ document.type = "VIDEO"
       \/ document.type = "DATASET" /\ output.level # 5
         -> _policy_required_absence_values(KnownValues, output.instructions)
    [] OTHER -> KnownValues
MayShow(e) ==
  IF document.type \in {"DATASET", "VIDEO"} THEN {}
  ELSE _approved_replacements_for_value(e[1], e[2], output.instructions)

(* What a release says of the places that nobody looks at: there is no sound, *)
(* no value in the bytes of the file or in a channel of its own, no fragment *)
(* of an identifier on a page, be it read from its text or its pixels, and   *)
(* no code that decodes on a page or a frame.                                *)
NothingHides ==
  stage = "released" =>
    /\ output.written.sound = <<>>
    /\ \A e \in Sought : \A c \in {Content(output.written)} \cup output.written.hidden :
         IsShort(e[2]) \/ ~Occurs(e[2], Masked(c, MayShow(e)))
    /\ document.type # "VIDEO" =>
         \A e \in Sought : \A f \in FragmentsOf(e[1], e[2]) : \A p \in DOMAIN document.pages :
            ~Occurs(f, ProcessedPage(document, output.written, p))
    /\ document.type \notin {"TEXT", "DATASET"} =>
         \A c \in CodesLeft(document, output.written) : document.pages[c[1]].words[c[2]][3] = 0

(* Every format has a test of its own for each of them, and passed it.       *)
LEMMA SafeMeansSearched ==
  ASSUME VerdictHolds
  PROVE  NothingHides
<1> SUFFICES ASSUME stage = "released" PROVE NothingHides
  BY DEF NothingHides
<1> DEFINE loose == document.type \in {"DATASET", "VIDEO"}
           shown == IF loose THEN <<>> ELSE output.instructions
           results == run_red_team(document, output.written, KnownValues, output.instructions,
                                   Transformed, output.level, output.dismissed, output.useful,
                                   run.tools)
<1>1. \A r \in results : r = "PASS"
  BY DEF VerdictHolds, VerifiedSafe
<1>2. metadata_inspection(output.written, run.tools) \in results
  BY DEF run_red_team, Transformation_tests
<1>3. raw_object_stream_scan(output.written, Sought, shown, run.tools) \in results
  BY DEF run_red_team, Content_tests, Sought
<1>4. document.type # "VIDEO" =>
        direct_identifier_fragment_attack(document, output.written, Sought, run.tools) \in results
  BY DEF run_red_team, Content_tests, Sought
<1>5. document.type \notin {"TEXT", "DATASET", "VIDEO"} =>
        qr_rescan(document, output.written, output.dismissed, run.tools) \in results
  BY DEF run_red_team
<1>6. document.type = "VIDEO" =>
        video_visual_identifier_rescan(document, output.written, run.tools) \in results
  BY DEF run_red_team
<1> HIDE DEF results
<1>7. output.written.sound = <<>>
  BY <1>1, <1>2 DEF metadata_inspection, Attempt
<1>8. ASSUME NEW e \in Sought, NEW c \in {Content(output.written)} \cup output.written.hidden
      PROVE  IsShort(e[2]) \/ ~Occurs(e[2], Masked(c, MayShow(e)))
  <2>1. ~RawLeaks({Content(output.written)} \cup output.written.hidden, Sought, shown)
    BY <1>1, <1>3 DEF raw_object_stream_scan, Attempt
  <2>2. IsShort(e[2])
        \/ ~Occurs(e[2], Masked(c, _approved_replacements_for_value(e[1], e[2], shown)))
    BY <2>1 DEF RawLeaks
  <2>3. CASE loose
    <3>1. ToSet(<<>>) = {}
      BY DEF ToSet
    <3>2. _approved_replacements_for_value(e[1], e[2], <<>>) = {}
      BY <3>1 DEF _approved_replacements_for_value
    <3> QED BY <2>2, <2>3, <3>2 DEF MayShow
  <2>4. CASE ~loose
    BY <2>2, <2>4 DEF MayShow
  <2> QED BY <2>3, <2>4
<1>9. ASSUME document.type # "VIDEO", NEW e \in Sought, NEW f \in FragmentsOf(e[1], e[2]),
             NEW p \in DOMAIN document.pages
      PROVE  ~Occurs(f, ProcessedPage(document, output.written, p))
  BY <1>1, <1>4, <1>9 DEF direct_identifier_fragment_attack, Attempt
<1>10. ASSUME document.type \notin {"TEXT", "DATASET"},
              NEW c \in CodesLeft(document, output.written)
       PROVE  document.pages[c[1]].words[c[2]][3] = 0
  <2>1. CASE document.type = "VIDEO"
    BY <1>1, <1>6, <2>1 DEF video_visual_identifier_rescan, Attempt
  <2>2. CASE document.type # "VIDEO"
    BY <1>1, <1>5, <1>10, <2>2 DEF qr_rescan, Attempt
  <2> QED BY <2>1, <2>2
<1> QED BY <1>7, <1>8, <1>9, <1>10 DEF NothingHides

(* A released file of any format, a dataset and a synthetic twin included,   *)
(* hides nothing where a reader does not look (red_team.py): the part of     *)
(* ReleasedRevealsNothing that holds of every document, and more.            *)
THEOREM NothingIsHidden == FileSpec => []NothingHides
BY SafeMeansSearched, VerdictInit, VerdictStep, PTL DEF FileSpec

-----------------------------------------------------------------------------
(* The file *)

(* Every variable of a file keeps its type (routes.py, pipeline.py): what is *)
(* stored as a mention is a finding with a review, the output has a level    *)
(* that the service makes, and the results of a run are statuses.            *)
THEOREM FileKeepsTypes == FileSpec => []FileTypeOK
BY FileStart, FileStep, FileIsTyped, PTL DEF FileSpec

(* Replacements link what the file linked and nothing else: one entity has   *)
(* one token or alias through an output, and two entities of a type share    *)
(* none, at the levels that promise linkage (policy.py, routes.py).          *)
THEOREM LinkageLasts == FileSpec => []LinkageIsKept
BY FileStart, FileStep, Linked, PTL DEF FileSpec

(* The graph in a manifest tells of every entity that the output transforms  *)
(* or keeps; its residual score is no less than what the kept entities score *)
(* by themselves, and no more than the recommendation has shown; and what    *)
(* still combines is on a path of it, unless all paths that it shows weigh   *)
(* as much (exposure_graph.py, policy.py).                                   *)
THEOREM ExposureLasts == FileSpec => []ExposureIsTold
BY FileStart, FileStep, Exposed, PTL DEF FileSpec
=============================================================================
