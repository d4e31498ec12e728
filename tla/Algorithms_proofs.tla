------------------------- MODULE Algorithms_proofs -------------------------
(***************************************************************************)
(* The pure algorithms compute what their reference definitions say, for   *)
(* every input.                                                            *)
(*                                                                         *)
(* The loops are recursive functions.  Induction is by a least             *)
(* counterexample in a set of numbers (LeastNumber, UpTo), because a       *)
(* theorem about every predicate cannot be instantiated; LoopExists gives  *)
(* the function that a loop's recursion defines.                           *)
(***************************************************************************)
EXTENDS Algorithms, FiniteSetTheorems, SequenceTheorems, TLAPS

\* A non-empty set of natural numbers has a least element.
LEMMA LeastNumber ==
  ASSUME NEW T \in SUBSET Nat, T # {}
  PROVE  \E x \in T : \A y \in T : x <= y
<1>. DEFINE R == {ss \in Nat \X Nat : ss[1] < ss[2]}
<1>1. IsWellFoundedOn(R, Nat)
  BY NatLessThanWellFounded DEF OpToRel
<1>2. \A x, y \in T : <<y, x>> \in R <=> y < x
  OBVIOUS
<1>. HIDE DEF R
<1>3. PICK x \in T : \A y \in T : <<y, x>> \notin R
  BY <1>1, WFMin, Zenon
<1>4. \A y \in T : ~(y < x)
  BY <1>2, <1>3
<1>. QED BY <1>4

\* Induction up to n, for a set instead of a predicate.
LEMMA UpTo ==
  ASSUME NEW n \in Nat, NEW T, 0 \in T, \A i \in 1..n : i - 1 \in T => i \in T
  PROVE  \A i \in 0..n : i \in T
<1>. DEFINE Bad == {k \in 0..n : k \notin T}
<1>1. SUFFICES ASSUME Bad # {} PROVE FALSE
  OBVIOUS
<1>2. PICK k \in Bad : \A j \in Bad : k <= j
  <2>1. Bad \in SUBSET Nat  OBVIOUS
  <2>. HIDE DEF Bad
  <2>. QED BY <1>1, <2>1, LeastNumber
<1>3. k \in 1..n /\ k - 1 \notin Bad
  BY <1>2
<1>. QED BY <1>2, <1>3

\* A loop that starts with base and goes from one value to the next by step, for
\* n turns.
Runs(f, A, base, n, step) ==
  /\ f \in [0..n -> A]
  /\ f[0] = base
  /\ \A i \in 1..n : f[i] = step[<<f[i - 1], i>>]

\* Such a loop has a value after each of its turns.
LEMMA LoopExists ==
  ASSUME NEW A, NEW base \in A, NEW n \in Nat, NEW step \in [A \X (1..n) -> A]
  PROVE  \E f : Runs(f, A, base, n, step)
<1>. DEFINE T == {k \in 0..n : \E f : Runs(f, A, base, k, step)}
<1>1. 0 \in T
  <2>1. Runs([i \in 0..0 |-> base], A, base, 0, step)  BY DEF Runs
  <2>. QED BY <2>1
<1>2. ASSUME NEW k \in 1..n, k - 1 \in T PROVE k \in T
  <2>1. PICK f : Runs(f, A, base, k - 1, step)
    BY <1>2
  <2>. DEFINE g == [i \in 0..k |-> IF i = k THEN step[<<f[k - 1], k>>] ELSE f[i]]
  <2>2. step[<<f[k - 1], k>>] \in A
    BY <2>1 DEF Runs
  <2>3. g \in [0..k -> A]
    BY <2>1, <2>2 DEF Runs
  <2>4. g[0] = base
    BY <2>1 DEF Runs
  <2>5. ASSUME NEW i \in 1..k PROVE g[i] = step[<<g[i - 1], i>>]
    <3>1. g[i - 1] = f[i - 1] /\ (i = k => g[i] = step[<<f[k - 1], k>>]) /\ (i # k => g[i] = f[i])
      OBVIOUS
    <3>2. i # k => f[i] = step[<<f[i - 1], i>>]
      BY <2>1 DEF Runs
    <3>. QED
      <4>. HIDE DEF g
      <4>. QED BY <3>1, <3>2
  <2>6. Runs(g, A, base, k, step)
    <3>. HIDE DEF g
    <3>. QED BY <2>3, <2>4, <2>5 DEF Runs
  <2>. QED BY <2>6
<1>3. \A i \in 0..n : i \in T
  <2>. HIDE DEF T
  <2>. QED BY <1>1, <1>2, UpTo
<1>. QED BY <1>3

\* A finite set of natural numbers has a greatest element, which Max is.
LEMMA MaxProperties ==
  ASSUME NEW S \in SUBSET Nat, IsFiniteSet(S), S # {}
  PROVE  Max(S) \in S /\ \A y \in S : Max(S) >= y
<1>1. PICK n \in Nat : ExistsSurjection(1..n, S)
  BY FS_NatSurjection
<1>2. PICK f \in Surjection(1..n, S) : TRUE
  BY <1>1 DEF ExistsSurjection
<1>3. f \in [1..n -> S] /\ \A y \in S : \E i \in 1..n : f[i] = y
  BY <1>2 DEF Surjection
<1>. DEFINE T == {k \in 0..n : k # 0 => \E j \in 1..k : \A i \in 1..k : f[j] >= f[i]}
<1>4. 0 \in T
  OBVIOUS
<1>5. ASSUME NEW k \in 1..n, k - 1 \in T PROVE k \in T
  <2>1. \A i \in 1..n : f[i] \in Nat
    BY <1>3
  <2>2. CASE k = 1
    <3>1. \A i \in 1..1 : f[1] >= f[i]  BY <2>1
    <3>. QED BY <2>2, <3>1
  <2>3. CASE k # 1
    <3>1. PICK j \in 1..(k - 1) : \A i \in 1..(k - 1) : f[j] >= f[i]
      BY <1>5, <2>3
    <3>2. CASE f[j] >= f[k]
      <4>1. \A i \in 1..k : f[j] >= f[i]
        BY <3>1, <3>2
      <4>2. j \in 1..k  OBVIOUS
      <4>. QED BY <4>1, <4>2
    <3>3. CASE ~(f[j] >= f[k])
      <4>1. \A i \in 1..k : f[k] >= f[i]
        BY <2>1, <3>1, <3>3
      <4>. QED BY <4>1
    <3>. QED BY <3>2, <3>3
  <2>. QED BY <2>2, <2>3
<1>6. n \in T /\ n # 0
  <2>1. \A i \in 0..n : i \in T
    <3>. HIDE DEF T
    <3>. QED BY <1>4, <1>5, UpTo
  <2>2. n \in T
    <3>. HIDE DEF T
    <3>. QED BY <2>1
  <2>3. PICK y \in S : TRUE
    OBVIOUS
  <2>4. PICK i \in 1..n : f[i] = y
    BY <1>3
  <2>5. n # 0
    BY <2>4
  <2>. QED BY <2>2, <2>5
<1>7. PICK j \in 1..n : \A i \in 1..n : f[j] >= f[i]
  BY <1>6
<1>8. f[j] \in S /\ \A y \in S : f[j] >= y
  BY <1>3, <1>7
<1>. QED BY <1>8 DEF Max

\* The least element of a set of numbers.
LEMMA MinProperties ==
  ASSUME NEW S \in SUBSET Nat, S # {}
  PROVE  Min(S) \in S /\ \A y \in S : Min(S) <= y
BY LeastNumber DEF Min

(***************************************************************************)
(* The choice of the nearest node.                                         *)
(***************************************************************************)

\* The number of blocks of an address that was not asked is 0.
LEMMA CountType ==
  ASSUME IsProbed(probes), NEW a \in DOMAIN probes
  PROVE  /\ probes[a].timeout \in Nat /\ probes[a].blocks \in Nat
         /\ blocks_count(probes[a]) \in Nat
         /\ blocks_count(probes[a]) > 0 => probes[a].timeout < Slow
         /\ probes[a].timeout < Slow => blocks_count(probes[a]) = probes[a].blocks
BY ChoiceAssumption DEF IsProbed, blocks_count

\* The greatest count is that of an address, or 0.
LEMMA MaxBlocks ==
  ASSUME IsProbed(probes)
  PROVE  LET max_blocks == Max({blocks_count(probes[a]) : a \in DOMAIN probes} \cup {0})
         IN  /\ max_blocks \in Nat
             /\ \A a \in DOMAIN probes : blocks_count(probes[a]) <= max_blocks
             /\ max_blocks > 0 => \E a \in DOMAIN probes : blocks_count(probes[a]) = max_blocks
<1>. DEFINE C == {blocks_count(probes[a]) : a \in DOMAIN probes}
            count == [a \in DOMAIN probes |-> blocks_count(probes[a])]
<1>1. IsFiniteSet(C)
  <2>1. count \in Surjection(DOMAIN probes, C)
    BY DEF Surjection
  <2>2. IsFiniteSet(DOMAIN probes)
    BY DEF IsProbed
  <2>. HIDE DEF C, count
  <2>. QED BY <2>1, <2>2, FS_Surjection
<1>2. C \cup {0} \in SUBSET Nat
  BY CountType
<1>3. IsFiniteSet(C \cup {0})
  BY <1>1, FS_AddElement
<1>4. /\ Max(C \cup {0}) \in C \cup {0}
      /\ \A y \in C \cup {0} : Max(C \cup {0}) >= y
  <2>. HIDE DEF C
  <2>. QED BY <1>2, <1>3, MaxProperties
<1>5. \A a \in DOMAIN probes : blocks_count(probes[a]) \in C
  OBVIOUS
<1>6. \A c \in C : \E a \in DOMAIN probes : blocks_count(probes[a]) = c
  OBVIOUS
<1>. DEFINE m == Max(C \cup {0})
<1>7. /\ m \in Nat
      /\ \A a \in DOMAIN probes : blocks_count(probes[a]) <= m
      /\ m > 0 => \E a \in DOMAIN probes : blocks_count(probes[a]) = m
  <2>. HIDE DEF C
  <2>1. m \in Nat
    BY <1>2, <1>4
  <2>2. \A a \in DOMAIN probes : blocks_count(probes[a]) <= m
    BY <1>2, <1>4, <1>5, <2>1
  <2>3. m > 0 => m \in C
    BY <1>4
  <2>. HIDE DEF m
  <2>. QED BY <1>6, <2>1, <2>2, <2>3
<1>. QED BY <1>7

\* While some chain is long enough, the addresses above the threshold are those up
\* to date, and there are some; else there are none.
LEMMA AboveThreshold ==
  ASSUME IsProbed(probes)
  PROVE  /\ LongEnough => /\ UpToDate = {a \in DOMAIN probes : blocks_count(probes[a]) > Threshold(probes)}
                          /\ UpToDate # {}
         /\ ~LongEnough => \A a \in DOMAIN probes : ~(blocks_count(probes[a]) > Threshold(probes))
<1>. DEFINE m == Max({blocks_count(probes[a]) : a \in DOMAIN probes} \cup {0})
            c(a) == blocks_count(probes[a])
<1>1. /\ m \in Nat
      /\ \A a \in DOMAIN probes : c(a) <= m
      /\ m > 0 => \E a \in DOMAIN probes : c(a) = m
  BY MaxBlocks
<1>2. Threshold(probes) = IF m > Slack - 1 THEN m - Slack ELSE m
  BY DEF Threshold
<1>. HIDE DEF m
<1>3. \A a \in DOMAIN probes : /\ probes[a].timeout \in Nat /\ probes[a].blocks \in Nat /\ c(a) \in Nat
                               /\ c(a) > 0 => probes[a].timeout < Slow
                               /\ probes[a].timeout < Slow => c(a) = probes[a].blocks
  BY CountType
<1>. HIDE DEF c
<1>4. ASSUME LongEnough
      PROVE  /\ UpToDate = {a \in DOMAIN probes : c(a) > Threshold(probes)}
             /\ UpToDate # {}
  <2>1. m >= Slack /\ Threshold(probes) = m - Slack
    BY <1>1, <1>2, <1>3, <1>4, ChoiceAssumption DEF LongEnough
  <2>2. PICK b \in DOMAIN probes : c(b) = m /\ probes[b].timeout < Slow /\ probes[b].blocks = m
    BY <1>1, <1>3, <2>1, ChoiceAssumption
  <2>3. ASSUME NEW a \in DOMAIN probes
        PROVE  a \in UpToDate <=> c(a) > m - Slack
    <3>1. ASSUME a \in UpToDate PROVE c(a) > m - Slack
      BY <3>1, <1>3, <2>2 DEF UpToDate
    <3>2. ASSUME c(a) > m - Slack PROVE a \in UpToDate
      <4>1. probes[a].timeout < Slow /\ probes[a].blocks = c(a) /\ c(a) > 0
        BY <3>2, <1>1, <1>3, <2>1, ChoiceAssumption
      <4>2. \A d \in DOMAIN probes : probes[d].timeout < Slow => probes[a].blocks > probes[d].blocks - Slack
        BY <3>2, <4>1, <1>1, <1>3, ChoiceAssumption
      <4>. QED BY <4>1, <4>2 DEF UpToDate
    <3>. QED BY <3>1, <3>2
  <2>4. b \in UpToDate
    BY <1>1, <2>2, <2>3, ChoiceAssumption
  <2>5. UpToDate \subseteq DOMAIN probes
    BY DEF UpToDate
  <2>. QED BY <2>1, <2>3, <2>4, <2>5
<1>5. ASSUME ~LongEnough
      PROVE  \A a \in DOMAIN probes : ~(c(a) > Threshold(probes))
  <2>1. m < Slack
    <3>1. SUFFICES ASSUME m >= Slack PROVE FALSE
      BY <1>1, ChoiceAssumption
    <3>2. PICK b \in DOMAIN probes : c(b) = m
      BY <3>1, <1>1, ChoiceAssumption
    <3>. QED BY <3>1, <3>2, <1>1, <1>3, <1>5, ChoiceAssumption DEF LongEnough
  <2>2. Threshold(probes) = m
    BY <1>1, <1>2, <2>1, ChoiceAssumption
  <2>. QED BY <1>1, <1>3, <2>2
<1>. QED BY <1>4, <1>5 DEF c

\* Sorting loses no address.
LEMMA SortedIsOnto ==
  ASSUME IsProbed(probes), NEW sorted \in Sorted(probes)
  PROVE  /\ DOMAIN sorted \in SUBSET Nat
         /\ sorted \in [DOMAIN sorted -> DOMAIN probes]
         /\ \A a \in DOMAIN probes : \E i \in DOMAIN sorted : sorted[i] = a
         /\ DOMAIN probes # {} => 1 \in DOMAIN sorted
         /\ \A i \in DOMAIN sorted : 1 <= i
         /\ \A i, j \in DOMAIN sorted : i <= j => probes[sorted[i]].timeout <= probes[sorted[j]].timeout
<1>. DEFINE n == Cardinality(DOMAIN probes)
<1>1. IsFiniteSet(DOMAIN probes) /\ n \in Nat
  BY FS_CardinalityType DEF IsProbed
<1>2. /\ sorted \in [1..n -> DOMAIN probes]
      /\ \A i, j \in 1..n : i < j => sorted[i] # sorted[j] /\ probes[sorted[i]].timeout <= probes[sorted[j]].timeout
  BY DEF Sorted
<1>3. DOMAIN probes # {} => n # 0
  BY <1>1, FS_EmptySet
<1>4. Cardinality(1..n) = n
  BY <1>1, FS_Interval
<1>. HIDE DEF n
<1>5. sorted \in Injection(1..n, DOMAIN probes)
  <2>1. \A i, j \in 1..n : sorted[i] = sorted[j] => i = j
    BY <1>1, <1>2
  <2>. QED BY <1>2, <2>1 DEF Injection, IsInjective
<1>6. sorted \in Surjection(1..n, DOMAIN probes)
  BY <1>1, <1>4, <1>5, FS_Injection DEF n
<1>7. \A a \in DOMAIN probes : \E i \in 1..n : sorted[i] = a
  BY <1>6 DEF Surjection
<1>8. \A i, j \in 1..n : i <= j => probes[sorted[i]].timeout <= probes[sorted[j]].timeout
  <2>1. \A i \in 1..n : probes[sorted[i]].timeout \in Nat
    BY <1>2, CountType
  <2>. QED BY <1>1, <1>2, <2>1
<1>9. DOMAIN sorted = 1..n
  BY <1>2
<1>. QED BY <1>1, <1>2, <1>3, <1>7, <1>8, <1>9

\* For any number of addresses, any probes and any order std::sort may leave
\* equal timeouts in, lookup_best_ip chooses the fastest torrent that is up to
\* date, and a reachable proxy if there is one.
LEMMA ChoiceIsRight ==
  ASSUME IsProbed(probes)
  PROVE  NearestUpToDate
<1>. SUFFICES ASSUME NEW sorted \in Sorted(probes)
              PROVE  /\ IF LongEnough
                        THEN /\ BestTor(sorted, probes, old) \in UpToDate
                             /\ \A a \in UpToDate : probes[BestTor(sorted, probes, old)].timeout <= probes[a].timeout
                        ELSE BestTor(sorted, probes, old) = old
                     /\ (\E a \in DOMAIN probes : probes[a].timeout < Unreachable)
                          => probes[BestProxy(sorted, old)].timeout < Unreachable
  BY DEF NearestUpToDate
<1>. DEFINE enough == {i \in DOMAIN sorted : blocks_count(probes[sorted[i]]) > Threshold(probes)}
            tor == BestTor(sorted, probes, old)
<1>1. tor = IF enough = {} THEN old ELSE sorted[Min(enough)]
  BY DEF BestTor
<1>2. enough \in SUBSET Nat
  BY SortedIsOnto
<1>3. ASSUME LongEnough
      PROVE  tor \in UpToDate /\ \A a \in UpToDate : probes[tor].timeout <= probes[a].timeout
  <2>1. \A i \in DOMAIN sorted : i \in enough <=> sorted[i] \in UpToDate
    BY <1>3, AboveThreshold, SortedIsOnto
  <2>2. \A a \in UpToDate : \E i \in enough : sorted[i] = a
    BY <2>1, SortedIsOnto DEF UpToDate
  <2>3. enough # {}
    BY <2>2, <1>3, AboveThreshold
  <2>4. enough \subseteq DOMAIN sorted
    OBVIOUS
  <2>. HIDE DEF enough, tor
  <2>5. Min(enough) \in enough /\ \A i \in enough : Min(enough) <= i
    BY <1>2, <2>3, MinProperties
  <2>6. tor = sorted[Min(enough)]
    BY <1>1, <2>3
  <2>7. tor \in UpToDate
    BY <2>1, <2>4, <2>5, <2>6
  <2>8. ASSUME NEW a \in UpToDate PROVE probes[tor].timeout <= probes[a].timeout
    <3>1. PICK i \in enough : sorted[i] = a
      BY <2>2
    <3>. QED BY <3>1, <2>4, <2>5, <2>6, SortedIsOnto
  <2>. QED BY <2>7, <2>8
<1>4. ASSUME ~LongEnough PROVE tor = old
  <2>1. enough = {}
    BY <1>4, AboveThreshold, SortedIsOnto
  <2>. QED BY <1>1, <2>1
<1>5. ASSUME NEW a \in DOMAIN probes, probes[a].timeout < Unreachable
      PROVE  probes[BestProxy(sorted, old)].timeout < Unreachable
  <2>1. 1 \in DOMAIN sorted
    BY SortedIsOnto
  <2>2. BestProxy(sorted, old) = sorted[1]
    BY <2>1 DEF BestProxy
  <2>3. PICK i \in DOMAIN sorted : sorted[i] = a
    BY SortedIsOnto
  <2>4. probes[sorted[1]].timeout <= probes[a].timeout
    BY <2>1, <2>3, SortedIsOnto
  <2>5. sorted[1] \in DOMAIN probes
    BY <2>1, SortedIsOnto
  <2>. QED BY <1>5, <2>2, <2>4, <2>5, CountType, ChoiceAssumption
<1>. QED BY <1>3, <1>4, <1>5

(***************************************************************************)
(* The counting of core signatures.                                        *)
(***************************************************************************)

\* The cores listed are distinct, as far as the settings go.
DistinctCores == IsInjective(Cores)

\* cores is what is left of the list when the cores in F have been found.
Left(cores, F) ==
  /\ cores \in Seq(ToSet(Cores))
  /\ IsInjective(cores)
  /\ ToSet(cores) = ToSet(Cores) \ F
  /\ IsFiniteSet(F)
  /\ Len(cores) + Cardinality(F) = Len(Cores)

\* erase takes one core off the list.
LEMMA RemoveFirstProperties ==
  ASSUME NEW A, NEW s \in Seq(A), IsInjective(s), NEW e, Contains(s, e)
  PROVE  /\ RemoveFirst(s, e) \in Seq(A)
         /\ IsInjective(RemoveFirst(s, e))
         /\ ToSet(RemoveFirst(s, e)) = ToSet(s) \ {e}
         /\ Len(RemoveFirst(s, e)) = Len(s) - 1
<1>. DEFINE I == {i \in 1..Len(s) : s[i] = e}
            k == Min(I)
            t == SubSeq(s, 1, k - 1) \o SubSeq(s, k + 1, Len(s))
<1>1. I # {} /\ I \in SUBSET Nat
  BY DEF Contains
<1>2. k \in I
  <2>. HIDE DEF I
  <2>. QED BY <1>1, MinProperties
<1>3. RemoveFirst(s, e) = t
  BY <1>1 DEF RemoveFirst, RemoveAt, SelectInSeq, Contains
<1>4. k \in 1..Len(s) /\ s[k] = e
  BY <1>2
<1>. HIDE DEF k, I
<1>. DEFINE u == SubSeq(s, 1, k - 1)
            v == SubSeq(s, k + 1, Len(s))
<1>5. /\ u \in Seq(A) /\ Len(u) = k - 1 /\ \A i \in 1..(k - 1) : u[i] = s[i]
      /\ v \in Seq(A) /\ Len(v) = Len(s) - k /\ \A i \in 1..(Len(s) - k) : v[i] = s[k + i]
  BY <1>4
<1>. HIDE DEF u, v
<1>6. /\ t \in Seq(A) /\ Len(t) = Len(s) - 1
      /\ \A i \in 1..(Len(s) - 1) : t[i] = IF i < k THEN s[i] ELSE s[i + 1]
  <2>1. t = u \o v
    BY DEF u, v
  <2>. HIDE DEF t
  <2>2. /\ t \in Seq(A) /\ Len(t) = Len(u) + Len(v)
        /\ \A i \in 1..(Len(u) + Len(v)) : t[i] = IF i <= Len(u) THEN u[i] ELSE v[i - Len(u)]
    BY <1>5, <2>1, ConcatProperties
  <2>3. Len(u) + Len(v) = Len(s) - 1
    BY <1>4, <1>5
  <2>4. ASSUME NEW i \in 1..(Len(s) - 1) PROVE t[i] = IF i < k THEN s[i] ELSE s[i + 1]
    <3>1. CASE i < k
      <4>1. i \in 1..(k - 1) /\ i <= Len(u)
        BY <1>4, <1>5, <3>1
      <4>. QED BY <1>5, <2>2, <2>3, <3>1, <4>1
    <3>2. CASE ~(i < k)
      <4>1. i - (k - 1) \in 1..(Len(s) - k) /\ ~(i <= Len(u)) /\ k + (i - (k - 1)) = i + 1
        BY <1>4, <1>5, <3>2
      <4>2. v[i - (k - 1)] = s[i + 1]
        BY <1>5, <4>1
      <4>. QED BY <1>5, <2>2, <2>3, <3>2, <4>1, <4>2
    <3>. QED BY <3>1, <3>2
  <2>. QED BY <2>2, <2>3, <2>4
<1>. HIDE DEF t
<1>7. DOMAIN s = 1..Len(s) /\ DOMAIN t = 1..(Len(s) - 1)
  BY <1>6
<1>8. \A i, j \in 1..Len(s) : s[i] = s[j] => i = j
  BY <1>7 DEF IsInjective
<1>9. IsInjective(t)
  <2>1. ASSUME NEW i \in 1..(Len(s) - 1), NEW j \in 1..(Len(s) - 1), t[i] = t[j] PROVE i = j
    <3>. DEFINE old_i == IF i < k THEN i ELSE i + 1
                old_j == IF j < k THEN j ELSE j + 1
    <3>1. t[i] = s[old_i] /\ t[j] = s[old_j] /\ old_i \in 1..Len(s) /\ old_j \in 1..Len(s)
      BY <1>4, <1>6
    <3>2. old_i = old_j
      <4>. HIDE DEF old_i, old_j
      <4>. QED BY <1>8, <2>1, <3>1
    <3>. QED BY <3>2, <1>4
  <2>. QED BY <1>7, <2>1 DEF IsInjective
<1>10. ToSet(t) = ToSet(s) \ {e}
  <2>1. ASSUME NEW x \in ToSet(t) PROVE x \in ToSet(s) \ {e}
    <3>1. PICK i \in 1..(Len(s) - 1) : t[i] = x
      BY <1>7 DEF ToSet
    <3>2. PICK j \in 1..Len(s) : j # k /\ s[j] = x
      BY <1>4, <1>6, <3>1
    <3>. QED BY <1>4, <1>7, <1>8, <3>2 DEF ToSet
  <2>2. ASSUME NEW x \in ToSet(s) \ {e} PROVE x \in ToSet(t)
    <3>1. PICK j \in 1..Len(s) : s[j] = x
      BY <1>7 DEF ToSet
    <3>2. j # k
      BY <1>4, <3>1
    <3>. DEFINE i == IF j < k THEN j ELSE j - 1
    <3>3. i \in 1..(Len(s) - 1) /\ t[i] = s[j]
      BY <1>4, <1>6, <3>2
    <3>. HIDE DEF i
    <3>. QED BY <1>7, <3>1, <3>3 DEF ToSet
  <2>. QED BY <2>1, <2>2
<1>. QED BY <1>3, <1>6, <1>9, <1>10

\* An address is found exactly when it is of a core that was not found before,
\* and then it is taken off.
LEMMA TakeCore ==
  ASSUME NEW cores, NEW F, Left(cores, F), NEW c
  PROVE  /\ Contains(cores, c) <=> c \in ToSet(Cores) /\ c \notin F
         /\ Contains(cores, c) => Left(RemoveFirst(cores, c), F \cup {c})
<1>1. DOMAIN cores = 1..Len(cores) /\ Len(cores) \in Nat
  BY DEF Left
<1>2. Contains(cores, c) <=> c \in ToSet(cores)
  BY <1>1 DEF Contains, ToSet
<1>3. Contains(cores, c) <=> c \in ToSet(Cores) /\ c \notin F
  BY <1>2 DEF Left
<1>4. ASSUME Contains(cores, c) PROVE Left(RemoveFirst(cores, c), F \cup {c})
  <2>. DEFINE r == RemoveFirst(cores, c)
  <2>1. /\ r \in Seq(ToSet(Cores)) /\ IsInjective(r)
        /\ ToSet(r) = ToSet(cores) \ {c} /\ Len(r) = Len(cores) - 1
    BY <1>4, RemoveFirstProperties DEF Left
  <2>. HIDE DEF r
  <2>2. IsFiniteSet(F \cup {c}) /\ Cardinality(F \cup {c}) = Cardinality(F) + 1
    BY <1>3, <1>4, FS_AddElement DEF Left
  <2>3. Cardinality(F) \in Nat /\ Len(Cores) \in Nat
    BY FS_CardinalityType, CoresAssumption DEF Left
  <2>4. ToSet(r) = ToSet(Cores) \ (F \cup {c})
    BY <2>1 DEF Left
  <2>5. Len(r) + Cardinality(F \cup {c}) = Len(Cores)
    BY <1>1, <2>1, <2>2, <2>3 DEF Left
  <2>. QED BY <2>1, <2>2, <2>4, <2>5 DEF Left, r
<1>. QED BY <1>3, <1>4

\* Values of the loop variables.
Accs == {acc \in [succ: BOOLEAN, cores: Seq(ToSet(Cores)), left: BOOLEAN] : IsInjective(acc.cores)}

\* The loop after i transactions, when the addresses in F were found and all was
\* in order, or not.
Counted(acc, i, F, good) ==
  IF good THEN ~acc.left /\ (acc.succ <=> i > 0) /\ Left(acc.cores, F)
          ELSE acc.left /\ ~acc.succ

\* What the loop does with its variables.
LEMMA Updates ==
  ASSUME NEW acc \in Accs, NEW c
  PROVE  /\ acc.succ \in BOOLEAN /\ acc.left \in BOOLEAN
         /\ acc.cores \in Seq(ToSet(Cores)) /\ IsInjective(acc.cores)
         /\ ~Fail(acc).succ /\ Fail(acc).cores = acc.cores /\ Fail(acc).left
         /\ Take(acc, c).succ /\ Take(acc, c).cores = RemoveFirst(acc.cores, c) /\ Take(acc, c).left = acc.left
         /\ ~Fail(Take(acc, c)).succ /\ Fail(Take(acc, c)).cores = RemoveFirst(acc.cores, c)
         /\ Fail(Take(acc, c)).left
         /\ [acc EXCEPT !.succ = TRUE].succ /\ [acc EXCEPT !.succ = TRUE].cores = acc.cores
         /\ [acc EXCEPT !.succ = TRUE].left = acc.left
<1>. DEFINE R == [succ: BOOLEAN, cores: Seq(ToSet(Cores)), left: BOOLEAN]
<1>1. acc \in R /\ IsInjective(acc.cores)
  BY DEF Accs
<1>2. ~Fail(acc).succ /\ Fail(acc).cores = acc.cores /\ Fail(acc).left
  BY <1>1 DEF Fail
<1>3. Take(acc, c).succ /\ Take(acc, c).cores = RemoveFirst(acc.cores, c) /\ Take(acc, c).left = acc.left
  BY <1>1 DEF Take
<1>4. /\ ~Fail(Take(acc, c)).succ /\ Fail(Take(acc, c)).cores = RemoveFirst(acc.cores, c)
      /\ Fail(Take(acc, c)).left
  BY <1>1 DEF Fail, Take
<1>5. /\ [acc EXCEPT !.succ = TRUE].succ /\ [acc EXCEPT !.succ = TRUE].cores = acc.cores
      /\ [acc EXCEPT !.succ = TRUE].left = acc.left
  BY <1>1
<1>. QED BY <1>1, <1>2, <1>3, <1>4, <1>5

\* The loop keeps their types.
LEMMA UpdateTypes ==
  ASSUME NEW acc \in Accs, NEW c
  PROVE  /\ Fail(acc) \in Accs
         /\ Contains(acc.cores, c) => Take(acc, c) \in Accs /\ Fail(Take(acc, c)) \in Accs
         /\ [acc EXCEPT !.succ = TRUE] \in Accs
<1>. DEFINE R == [succ: BOOLEAN, cores: Seq(ToSet(Cores)), left: BOOLEAN]
<1>1. acc \in R /\ IsInjective(acc.cores)
  BY DEF Accs
<1>2. Fail(acc) \in R /\ [acc EXCEPT !.succ = TRUE] \in R
  BY <1>1 DEF Fail
<1>3. ASSUME Contains(acc.cores, c) PROVE Take(acc, c) \in R /\ Fail(Take(acc, c)) \in R
  <2>1. RemoveFirst(acc.cores, c) \in Seq(ToSet(Cores))
    BY <1>1, <1>3, RemoveFirstProperties
  <2>2. Take(acc, c) \in R
    BY <1>1, <2>1 DEF Take
  <2>3. Fail(Take(acc, c)) \in R
    BY <2>2 DEF Fail
  <2>. QED BY <2>2, <2>3
<1>4. \A x \in R : IsInjective(x.cores) => x \in Accs
  BY DEF Accs
<1>. HIDE DEF R
<1>5. Fail(acc) \in Accs /\ [acc EXCEPT !.succ = TRUE] \in Accs
  BY <1>1, <1>2, <1>4, Updates
<1>6. ASSUME Contains(acc.cores, c) PROVE Take(acc, c) \in Accs /\ Fail(Take(acc, c)) \in Accs
  <2>1. IsInjective(RemoveFirst(acc.cores, c))
    BY <1>1, <1>6, RemoveFirstProperties, Updates
  <2>. QED BY <1>3, <1>4, <1>6, <2>1, Updates
<1>. QED BY <1>5, <1>6

\* A turn of either loop leaves an accumulator.
LEMMA StepType ==
  ASSUME NEW acc \in Accs, NEW t, NEW prev
  PROVE  TxStep(acc, t, prev) \in Accs /\ SignTxStep(acc, t) \in Accs
BY UpdateTypes DEF TxStep, SignTxStep

\* A transaction of a block: the loop goes on exactly when it is no sign
\* transaction, or one in order from a core that has not signed yet.
LEMMA TxCounted ==
  ASSUME NEW acc \in Accs, NEW t, NEW prev, NEW i \in Nat \ {0}, NEW F, NEW good \in BOOLEAN,
         Counted(acc, i - 1, F, good)
  PROVE  Counted(TxStep(acc, t, prev), i,
                 IF t.isSignBlockTx THEN F \cup {t.fromAddress} ELSE F,
                 good /\ (t.isSignBlockTx => /\ t.fromAddress = t.toAddress
                                             /\ t.fromAddress \in ToSet(Cores)
                                             /\ t.data = prev
                                             /\ t.fromAddress \notin F))
<1>1. acc.succ \in BOOLEAN /\ acc.left \in BOOLEAN
  BY Updates
<1>2. CASE ~good
  BY <1>1, <1>2 DEF Counted, TxStep
<1>3. CASE good
  <2>1. ~acc.left /\ Left(acc.cores, F)
    BY <1>3 DEF Counted
  <2>2. /\ Contains(acc.cores, t.fromAddress) <=> t.fromAddress \in ToSet(Cores) /\ t.fromAddress \notin F
        /\ Contains(acc.cores, t.fromAddress) => Left(RemoveFirst(acc.cores, t.fromAddress), F \cup {t.fromAddress})
    BY <2>1, TakeCore
  <2>3. CASE ~t.isSignBlockTx
    BY <1>3, <2>1, <2>3, Updates DEF Counted, TxStep
  <2>4. CASE t.isSignBlockTx
    BY <1>3, <2>1, <2>2, <2>4, Updates DEF Counted, TxStep
  <2>. QED BY <2>3, <2>4
<1>. QED BY <1>2, <1>3

\* A transaction of a sign block: every one has to come from a new core.
LEMMA SignTxCounted ==
  ASSUME NEW acc \in Accs, NEW t, NEW i \in Nat \ {0}, NEW F, NEW good \in BOOLEAN,
         Counted(acc, i - 1, F, good)
  PROVE  Counted(SignTxStep(acc, t), i, F \cup {t.fromAddress},
                 good /\ t.fromAddress \in ToSet(Cores) /\ t.fromAddress \notin F)
<1>1. acc.succ \in BOOLEAN /\ acc.left \in BOOLEAN
  BY Updates
<1>2. CASE ~good
  BY <1>1, <1>2 DEF Counted, SignTxStep
<1>3. CASE good
  <2>1. ~acc.left /\ Left(acc.cores, F)
    BY <1>3 DEF Counted
  <2>2. /\ Contains(acc.cores, t.fromAddress) <=> t.fromAddress \in ToSet(Cores) /\ t.fromAddress \notin F
        /\ Contains(acc.cores, t.fromAddress) => Left(RemoveFirst(acc.cores, t.fromAddress), F \cup {t.fromAddress})
    BY <2>1, TakeCore
  <2>. QED BY <1>3, <2>1, <2>2, Updates DEF Counted, SignTxStep
<1>. QED BY <1>2, <1>3

\* At the start nothing was found.
LEMMA StartCounted ==
  ASSUME DistinctCores
  PROVE  Start \in Accs /\ Counted(Start, 0, {}, TRUE)
<1>1. Cores \in Seq(ToSet(Cores)) /\ Len(Cores) \in Nat
  BY CoresAssumption
<1>2. Start \in Accs
  BY <1>1 DEF Start, Accs, DistinctCores
<1>3. Left(Cores, {})
  BY <1>1, FS_EmptySet DEF Left, DistinctCores
<1>4. Counted(Start, 0, {}, TRUE)
  BY <1>3 DEF Start, Counted
<1>. QED BY <1>2, <1>4

\* The result of the loop is the number of addresses found.
LEMMA CountedResult ==
  ASSUME NEW acc, NEW i \in Nat, NEW F, NEW good \in BOOLEAN, Counted(acc, i, F, good)
  PROVE  Result(acc) = IF i # 0 /\ good THEN Cardinality(F) ELSE -1
<1>1. CASE i # 0 /\ good
  <2>1. acc.succ /\ Left(acc.cores, F)
    BY <1>1 DEF Counted
  <2>2. Cardinality(F) \in Nat /\ Len(acc.cores) \in Nat /\ Len(acc.cores) + Cardinality(F) = Len(Cores)
    BY <2>1, FS_CardinalityType DEF Left
  <2>. QED BY <1>1, <2>1, <2>2 DEF Result
<1>2. CASE ~(i # 0 /\ good)
  <2>1. ~acc.succ
    BY <1>2 DEF Counted
  <2>. QED BY <1>2, <2>1 DEF Result
<1>. QED BY <1>1, <1>2

\* The loop over the transactions of a block.
LEMMA BlockLoop ==
  ASSUME NEW prev, NEW n \in Nat, NEW A, Start \in A, n = LookedAt(txs),
         \A acc \in A, i \in 1..n : TxStep(acc, txs[i], prev) \in A
  PROVE  \E f : /\ BlockVerification(txs, prev) = Result(f[n])
                /\ f[0] = Start
                /\ \A i \in 0..n : f[i] \in A
                /\ \A i \in 1..n : f[i] = TxStep(f[i - 1], txs[i], prev)
<1>. DEFINE step == [p \in A \X (1..n) |-> TxStep(p[1], txs[p[2]], prev)]
            Turn(g, i) == TxStep(g[i - 1], txs[i], prev)
            loop == CHOOSE g : g = [i \in 0..n |-> IF i = 0 THEN Start ELSE Turn(g, i)]
<1>1. BlockVerification(txs, prev) = Result(loop[n])
  BY DEF BlockVerification
<1>2. step \in [A \X (1..n) -> A]
  OBVIOUS
<1>3. PICK f : Runs(f, A, Start, n, step)
  <2>. HIDE DEF step
  <2>. QED BY <1>2, LoopExists
<1>4. ASSUME NEW i \in 1..n PROVE f[i] = Turn(f, i)
  <2>1. f[i - 1] \in A  BY <1>3 DEF Runs
  <2>2. step[<<f[i - 1], i>>] = Turn(f, i)  BY <2>1
  <2>. QED BY <1>3, <2>2 DEF Runs
<1>5. \A g, i : (i \in 1..n /\ g[i - 1] \in A) => Turn(g, i) \in A
  OBVIOUS
<1>. HIDE DEF Turn
<1>6. f = [i \in 0..n |-> IF i = 0 THEN Start ELSE Turn(f, i)]
  BY <1>3, <1>4 DEF Runs
<1>7. loop = [i \in 0..n |-> IF i = 0 THEN Start ELSE Turn(loop, i)]
  BY <1>6
<1>. HIDE DEF loop
<1>8. loop[0] = Start /\ \A i \in 1..n : loop[i] = Turn(loop, i)
  BY <1>7
<1>9. \A i \in 0..n : loop[i] \in A
  <2>. DEFINE T == {i \in 0..n : loop[i] \in A}
  <2>1. 0 \in T  BY <1>8
  <2>2. ASSUME NEW i \in 1..n, i - 1 \in T PROVE i \in T
    BY <1>5, <1>8, <2>2
  <2>3. \A i \in 0..n : i \in T
    <3>. HIDE DEF T
    <3>. QED BY <2>1, <2>2, UpTo
  <2>. QED BY <2>3
<1>. QED BY <1>1, <1>8, <1>9 DEF Turn

\* The loop over the transactions of a sign block.
LEMMA SignBlockLoop ==
  ASSUME NEW n \in Nat, NEW A, Start \in A, n = LookedAt(txs),
         \A acc \in A, i \in 1..n : SignTxStep(acc, txs[i]) \in A
  PROVE  \E f : /\ SignBlockVerification(txs) = Result(f[n])
                /\ f[0] = Start
                /\ \A i \in 0..n : f[i] \in A
                /\ \A i \in 1..n : f[i] = SignTxStep(f[i - 1], txs[i])
<1>. DEFINE step == [p \in A \X (1..n) |-> SignTxStep(p[1], txs[p[2]])]
            Turn(g, i) == SignTxStep(g[i - 1], txs[i])
            loop == CHOOSE g : g = [i \in 0..n |-> IF i = 0 THEN Start ELSE Turn(g, i)]
<1>1. SignBlockVerification(txs) = Result(loop[n])
  BY DEF SignBlockVerification
<1>2. step \in [A \X (1..n) -> A]
  OBVIOUS
<1>3. PICK f : Runs(f, A, Start, n, step)
  <2>. HIDE DEF step
  <2>. QED BY <1>2, LoopExists
<1>4. ASSUME NEW i \in 1..n PROVE f[i] = Turn(f, i)
  <2>1. f[i - 1] \in A  BY <1>3 DEF Runs
  <2>2. step[<<f[i - 1], i>>] = Turn(f, i)  BY <2>1
  <2>. QED BY <1>3, <2>2 DEF Runs
<1>5. \A g, i : (i \in 1..n /\ g[i - 1] \in A) => Turn(g, i) \in A
  OBVIOUS
<1>. HIDE DEF Turn
<1>6. f = [i \in 0..n |-> IF i = 0 THEN Start ELSE Turn(f, i)]
  BY <1>3, <1>4 DEF Runs
<1>7. loop = [i \in 0..n |-> IF i = 0 THEN Start ELSE Turn(loop, i)]
  BY <1>6
<1>. HIDE DEF loop
<1>8. loop[0] = Start /\ \A i \in 1..n : loop[i] = Turn(loop, i)
  BY <1>7
<1>9. \A i \in 0..n : loop[i] \in A
  <2>. DEFINE T == {i \in 0..n : loop[i] \in A}
  <2>1. 0 \in T  BY <1>8
  <2>2. ASSUME NEW i \in 1..n, i - 1 \in T PROVE i \in T
    BY <1>5, <1>8, <2>2
  <2>3. \A i \in 0..n : i \in T
    <3>. HIDE DEF T
    <3>. QED BY <2>1, <2>2, UpTo
  <2>. QED BY <2>3
<1>. QED BY <1>1, <1>8, <1>9 DEF Turn

\* What is looked at.
LEMMA LookedAtType ==
  ASSUME NEW X, txs \in Seq(X)
  PROVE  /\ LookedAt(txs) \in Nat /\ Looked = 1..LookedAt(txs)
         /\ LookedAt(txs) # 0 <=> txs # <<>>
<1>1. Len(txs) \in Nat /\ (Len(txs) = 0 <=> txs = <<>>)
  OBVIOUS
<1>. QED BY <1>1, CoresAssumption DEF LookedAt, Looked

Senders(J) == {txs[j].fromAddress : j \in J}

\* core_addr_verification(BlockInfo) returns the number of distinct cores.
LEMMA BlockIsCounted ==
  ASSUME DistinctCores, NEW X, txs \in Seq(X)
  PROVE  BlockVerification(txs, prevHash) =
           IF txs # <<>> /\ AllSignsGood THEN Cardinality(Senders(Signs)) ELSE -1
<1>. DEFINE n == LookedAt(txs)
            S(i) == {j \in 1..i : txs[j].isSignBlockTx}
            InOrder(j) == /\ txs[j].fromAddress = txs[j].toAddress
                          /\ txs[j].fromAddress \in ToSet(Cores)
                          /\ txs[j].data = prevHash
            Good(i) == \A j \in S(i) : InOrder(j) /\ \A k \in S(i) : k < j => txs[k].fromAddress # txs[j].fromAddress
<1>1. n \in Nat /\ Looked = 1..n /\ (n # 0 <=> txs # <<>>)
  BY LookedAtType
<1>2. S(n) = Signs /\ (Good(n) <=> AllSignsGood)
  BY <1>1 DEF Signs, AllSignsGood
<1>3. PICK f : /\ BlockVerification(txs, prevHash) = Result(f[n])
               /\ f[0] = Start
               /\ \A i \in 0..n : f[i] \in Accs
               /\ \A i \in 1..n : f[i] = TxStep(f[i - 1], txs[i], prevHash)
  <2>. HIDE DEF n
  <2>1. \A acc \in Accs, i \in 1..n : TxStep(acc, txs[i], prevHash) \in Accs
    BY StepType
  <2>. QED BY <1>1, <2>1, StartCounted, BlockLoop DEF n
<1>. DEFINE T == {i \in 0..n : Counted(f[i], i, Senders(S(i)), Good(i))}
<1>4. 0 \in T
  <2>1. S(0) = {}  OBVIOUS
  <2>2. Senders(S(0)) = {} /\ Good(0) = TRUE
    BY <2>1 DEF Senders
  <2>. HIDE DEF S, Good, n
  <2>3. Counted(f[0], 0, Senders(S(0)), Good(0))
    BY <1>3, <2>2, StartCounted
  <2>. QED BY <1>1, <2>3
<1>5. ASSUME NEW i \in 1..n, i - 1 \in T PROVE i \in T
  <2>. DEFINE t == txs[i]
              F == Senders(S(i - 1))
  <2>1. /\ t.isSignBlockTx => S(i) = S(i - 1) \cup {i}
        /\ ~t.isSignBlockTx => S(i) = S(i - 1)
    BY <1>1
  <2>2. Senders(S(i)) = IF t.isSignBlockTx THEN F \cup {t.fromAddress} ELSE F
    <3>. HIDE DEF S
    <3>. QED BY <2>1 DEF Senders
  <2>3. \A j \in S(i - 1) : j \in 1..(i - 1)
    OBVIOUS
  <2>4. Good(i) <=> Good(i - 1) /\ (t.isSignBlockTx => InOrder(i) /\ t.fromAddress \notin F)
    <3>. HIDE DEF S, InOrder
    <3>1. CASE ~t.isSignBlockTx
      BY <2>1, <3>1
    <3>2. CASE t.isSignBlockTx
      <4>1. S(i) = S(i - 1) \cup {i} /\ \A j \in S(i - 1) : j < i /\ ~(i < j)
        BY <1>1, <2>1, <2>3, <3>2
      <4>2. t.fromAddress \notin F <=> \A k \in S(i - 1) : txs[k].fromAddress # t.fromAddress
        BY DEF Senders
      <4>. QED BY <3>2, <4>1, <4>2
    <3>. QED BY <3>1, <3>2
  <2>5. Counted(f[i - 1], i - 1, F, Good(i - 1)) /\ f[i - 1] \in Accs /\ Good(i - 1) \in BOOLEAN
    BY <1>1, <1>3, <1>5
  <2>6. f[i] = TxStep(f[i - 1], t, prevHash) /\ i \in Nat \ {0}
    BY <1>1, <1>3
  <2>7. Counted(f[i], i, IF t.isSignBlockTx THEN F \cup {t.fromAddress} ELSE F,
                Good(i - 1) /\ (t.isSignBlockTx => InOrder(i) /\ t.fromAddress \notin F))
    <3>1. Counted(TxStep(f[i - 1], t, prevHash), i, IF t.isSignBlockTx THEN F \cup {t.fromAddress} ELSE F,
                  Good(i - 1) /\ (t.isSignBlockTx => /\ t.fromAddress = t.toAddress
                                                     /\ t.fromAddress \in ToSet(Cores)
                                                     /\ t.data = prevHash
                                                     /\ t.fromAddress \notin F))
      <4>. HIDE DEF Good, F, t
      <4>. QED BY <2>5, <2>6, TxCounted
    <3>. HIDE DEF Good, F
    <3>. QED BY <2>6, <3>1 DEF Counted
  <2>8. Counted(f[i], i, Senders(S(i)), Good(i))
    <3>. HIDE DEF Good, F, t, S, InOrder
    <3>. QED BY <2>2, <2>4, <2>7 DEF Counted
  <2>. HIDE DEF S, Good, n
  <2>. QED BY <1>1, <2>8
<1>6. n \in T
  <2>. HIDE DEF T, n
  <2>1. \A i \in 0..n : i \in T
    BY <1>1, <1>4, <1>5, UpTo
  <2>. QED BY <1>1, <2>1
<1>7. Counted(f[n], n, Senders(S(n)), Good(n)) /\ Good(n) \in BOOLEAN
  BY <1>6
<1>8. Result(f[n]) = IF n # 0 /\ Good(n) THEN Cardinality(Senders(S(n))) ELSE -1
  <2>. HIDE DEF n, S, Good
  <2>. QED BY <1>1, <1>7, CountedResult
<1>. HIDE DEF S, Good, n
<1>. QED BY <1>1, <1>2, <1>3, <1>8

\* core_addr_verification(SignBlockInfo) does, too, looking at addresses only.
LEMMA SignBlockIsCounted ==
  ASSUME DistinctCores, NEW X, txs \in Seq(X)
  PROVE  SignBlockVerification(txs) =
           IF txs # <<>> /\ AllCoresDistinct THEN Cardinality(Senders(Looked)) ELSE -1
<1>. DEFINE n == LookedAt(txs)
            S(i) == 1..i
            Good(i) == \A j \in S(i) : /\ txs[j].fromAddress \in ToSet(Cores)
                                       /\ \A k \in S(i) : k < j => txs[k].fromAddress # txs[j].fromAddress
<1>1. n \in Nat /\ Looked = 1..n /\ (n # 0 <=> txs # <<>>)
  BY LookedAtType
<1>2. S(n) = Looked /\ (Good(n) <=> AllCoresDistinct)
  BY <1>1 DEF AllCoresDistinct
<1>3. PICK f : /\ SignBlockVerification(txs) = Result(f[n])
               /\ f[0] = Start
               /\ \A i \in 0..n : f[i] \in Accs
               /\ \A i \in 1..n : f[i] = SignTxStep(f[i - 1], txs[i])
  <2>. HIDE DEF n
  <2>1. \A acc \in Accs, i \in 1..n : SignTxStep(acc, txs[i]) \in Accs
    BY StepType
  <2>. QED BY <1>1, <2>1, StartCounted, SignBlockLoop DEF n
<1>. DEFINE T == {i \in 0..n : Counted(f[i], i, Senders(S(i)), Good(i))}
<1>4. 0 \in T
  <2>1. S(0) = {}  OBVIOUS
  <2>2. Senders(S(0)) = {} /\ Good(0) = TRUE
    BY <2>1 DEF Senders
  <2>. HIDE DEF S, Good, n
  <2>3. Counted(f[0], 0, Senders(S(0)), Good(0))
    BY <1>3, <2>2, StartCounted
  <2>. QED BY <1>1, <2>3
<1>5. ASSUME NEW i \in 1..n, i - 1 \in T PROVE i \in T
  <2>. DEFINE t == txs[i]
              F == Senders(S(i - 1))
  <2>1. S(i) = S(i - 1) \cup {i} /\ \A j \in S(i - 1) : j < i /\ ~(i < j)
    BY <1>1
  <2>2. Senders(S(i)) = F \cup {t.fromAddress}
    <3>. HIDE DEF S
    <3>. QED BY <2>1 DEF Senders
  <2>3. Good(i) <=> Good(i - 1) /\ t.fromAddress \in ToSet(Cores) /\ t.fromAddress \notin F
    <3>. HIDE DEF S
    <3>1. t.fromAddress \notin F <=> \A k \in S(i - 1) : txs[k].fromAddress # t.fromAddress
      BY DEF Senders
    <3>. QED BY <2>1, <3>1
  <2>4. Counted(f[i - 1], i - 1, F, Good(i - 1)) /\ f[i - 1] \in Accs /\ Good(i - 1) \in BOOLEAN
    BY <1>1, <1>3, <1>5
  <2>5. f[i] = SignTxStep(f[i - 1], t) /\ i \in Nat \ {0}
    BY <1>1, <1>3
  <2>6. Counted(SignTxStep(f[i - 1], t), i, F \cup {t.fromAddress},
                Good(i - 1) /\ t.fromAddress \in ToSet(Cores) /\ t.fromAddress \notin F)
    <3>. HIDE DEF Good, F, t
    <3>. QED BY <2>4, <2>5, SignTxCounted
  <2>7. Counted(f[i], i, Senders(S(i)), Good(i))
    <3>. HIDE DEF Good, F, t, S
    <3>. QED BY <2>2, <2>3, <2>5, <2>6 DEF Counted
  <2>. HIDE DEF S, Good, n
  <2>. QED BY <1>1, <2>7
<1>6. n \in T
  <2>. HIDE DEF T, n
  <2>1. \A i \in 0..n : i \in T
    BY <1>1, <1>4, <1>5, UpTo
  <2>. QED BY <1>1, <2>1
<1>7. Counted(f[n], n, Senders(S(n)), Good(n)) /\ Good(n) \in BOOLEAN
  BY <1>6
<1>8. Result(f[n]) = IF n # 0 /\ Good(n) THEN Cardinality(Senders(S(n))) ELSE -1
  <2>. HIDE DEF n, S, Good
  <2>. QED BY <1>1, <1>7, CountedResult
<1>. HIDE DEF S, Good, n
<1>. QED BY <1>1, <1>2, <1>3, <1>8

\* auto_signed_block takes each pair for a closed range.
LEMMA RangesAreClosed ==
  ASSUME ranges \in Seq(Nat \X Nat), NEW n \in Nat
  PROVE  AutoSignedBlock(ranges, n) <=>
           \E i \in 1..Len(ranges) : n \in {ranges[i][1]} \cup (ranges[i][1]..ranges[i][2])
<1>1. ASSUME NEW i \in 1..Len(ranges)
      PROVE  (LET v == ranges[i] IN v[1] = n \/ (v[1] < v[2] /\ v[1] < n /\ n <= v[2]))
               <=> n \in {ranges[i][1]} \cup (ranges[i][1]..ranges[i][2])
  <2>1. ranges[i] \in Nat \X Nat
    OBVIOUS
  <2>2. ranges[i][1] \in Nat /\ ranges[i][2] \in Nat
    BY <2>1
  <2>. QED BY <2>2
<1>. QED BY <1>1 DEF AutoSignedBlock

(***************************************************************************)
(* Transactions as bytes.                                                  *)
(***************************************************************************)

\* A number is its quotient and its remainder.
LEMMA DivMod ==
  ASSUME NEW q \in Nat
  PROVE  /\ q \div Base \in Nat /\ q % Base \in Byte
         /\ q = (q \div Base) * Base + (q % Base)
BY BytesAssumption DEF Byte

\* Dividing by the size of a byte takes one byte off the bound.
LEMMA DivSmaller ==
  ASSUME NEW q \in Nat, NEW v \in Nat, q < Base * v
  PROVE  q \div Base < v
<1>. DEFINE d == q \div Base
            r == q % Base
<1>1. d \in Nat /\ r \in Nat /\ q = d * Base + r /\ Base \in Nat
  BY DivMod, BytesAssumption DEF Byte
<1>. HIDE DEF d, r
<1>2. d < v
  <2>1. SUFFICES ASSUME d >= v PROVE FALSE
    BY <1>1
  <2>2. d * Base >= v * Base
    BY <1>1, <2>1
  <2>. QED BY <1>1, <2>2
<1>. QED BY <1>2 DEF d

\* Values is defined by its recursion.
LEMMA ValuesProperties ==
  /\ \A k \in 0..Bytes64 : Values[k] \in Nat
  /\ Values[0] = 1
  /\ \A k \in 1..Bytes64 : Values[k] = Base * Values[k - 1]
<1>. DEFINE n == Bytes64
            step == [p \in Nat \X (1..n) |-> Base * p[1]]
            Turn(g, i) == Base * g[i - 1]
            loop == CHOOSE g : g = [i \in 0..n |-> IF i = 0 THEN 1 ELSE Turn(g, i)]
<1>1. Values = loop
  BY DEF Values
<1>2. step \in [Nat \X (1..n) -> Nat] /\ n \in Nat
  BY BytesAssumption
<1>3. PICK f : Runs(f, Nat, 1, n, step)
  <2>. HIDE DEF step
  <2>. QED BY <1>2, LoopExists
<1>4. ASSUME NEW i \in 1..n PROVE f[i] = Turn(f, i)
  <2>1. f[i - 1] \in Nat  BY <1>2, <1>3 DEF Runs
  <2>2. step[<<f[i - 1], i>>] = Turn(f, i)  BY <2>1
  <2>. QED BY <1>3, <2>2 DEF Runs
<1>5. \A g, i : (i \in 1..n /\ g[i - 1] \in Nat) => Turn(g, i) \in Nat
  BY BytesAssumption
<1>. HIDE DEF Turn
<1>6. f = [i \in 0..n |-> IF i = 0 THEN 1 ELSE Turn(f, i)]
  BY <1>2, <1>3, <1>4 DEF Runs
<1>7. loop = [i \in 0..n |-> IF i = 0 THEN 1 ELSE Turn(loop, i)]
  BY <1>6
<1>. HIDE DEF loop
<1>8. loop[0] = 1 /\ \A i \in 1..n : loop[i] = Turn(loop, i)
  BY <1>2, <1>7
<1>9. \A i \in 0..n : loop[i] \in Nat
  <2>. DEFINE T == {i \in 0..n : loop[i] \in Nat}
  <2>1. 0 \in T  BY <1>2, <1>8
  <2>2. ASSUME NEW i \in 1..n, i - 1 \in T PROVE i \in T
    BY <1>2, <1>5, <1>8, <2>2
  <2>3. \A i \in 0..n : i \in T
    <3>. HIDE DEF T
    <3>. QED BY <1>2, <2>1, <2>2, UpTo
  <2>. QED BY <2>3
<1>. QED BY <1>1, <1>8, <1>9 DEF Turn

\* toLittleEndian writes the remainders of repeated division.
LEMMA Digits ==
  ASSUME NEW value \in Nat, NEW n \in Nat
  PROVE  \E q : /\ toLittleEndian(value, n) = [i \in 1..n |-> q[i - 1] % Base]
                /\ q[0] = value
                /\ \A i \in 0..n : q[i] \in Nat
                /\ \A i \in 1..n : q[i] = q[i - 1] \div Base
<1>. DEFINE step == [p \in Nat \X (1..n) |-> p[1] \div Base]
            Turn(g, i) == g[i - 1] \div Base
            loop == CHOOSE g : g = [i \in 0..n |-> IF i = 0 THEN value ELSE Turn(g, i)]
<1>1. toLittleEndian(value, n) = [i \in 1..n |-> loop[i - 1] % Base]
  BY DEF toLittleEndian
<1>2. step \in [Nat \X (1..n) -> Nat]
  BY DivMod
<1>3. PICK f : Runs(f, Nat, value, n, step)
  <2>. HIDE DEF step
  <2>. QED BY <1>2, LoopExists
<1>4. ASSUME NEW i \in 1..n PROVE f[i] = Turn(f, i)
  <2>1. f[i - 1] \in Nat  BY <1>3 DEF Runs
  <2>2. step[<<f[i - 1], i>>] = Turn(f, i)  BY <2>1
  <2>. QED BY <1>3, <2>2 DEF Runs
<1>5. \A g, i : (i \in 1..n /\ g[i - 1] \in Nat) => Turn(g, i) \in Nat
  BY DivMod
<1>. HIDE DEF Turn
<1>6. f = [i \in 0..n |-> IF i = 0 THEN value ELSE Turn(f, i)]
  BY <1>3, <1>4 DEF Runs
<1>7. loop = [i \in 0..n |-> IF i = 0 THEN value ELSE Turn(loop, i)]
  BY <1>6
<1>. HIDE DEF loop
<1>8. loop[0] = value /\ \A i \in 1..n : loop[i] = Turn(loop, i)
  BY <1>7
<1>9. \A i \in 0..n : loop[i] \in Nat
  <2>. DEFINE T == {i \in 0..n : loop[i] \in Nat}
  <2>1. 0 \in T  BY <1>8
  <2>2. ASSUME NEW i \in 1..n, i - 1 \in T PROVE i \in T
    BY <1>5, <1>8, <2>2
  <2>3. \A i \in 0..n : i \in T
    <3>. HIDE DEF T
    <3>. QED BY <2>1, <2>2, UpTo
  <2>. QED BY <2>3
<1>. QED BY <1>1, <1>8, <1>9 DEF Turn

\* FromLittleEndian multiplies and adds, from the last byte to the first.
LEMMA Horner ==
  ASSUME NEW bytes \in Seq(Byte), NEW n \in Nat, n = Len(bytes)
  PROVE  \E r : /\ FromLittleEndian(bytes) = r[n]
                /\ r[0] = 0
                /\ \A i \in 1..n : r[i] = r[i - 1] * Base + bytes[n + 1 - i]
<1>. DEFINE step == [p \in Nat \X (1..n) |-> p[1] * Base + bytes[n + 1 - p[2]]]
            Turn(g, i) == g[i - 1] * Base + bytes[n + 1 - i]
            loop == CHOOSE g : g = [i \in 0..n |-> IF i = 0 THEN 0 ELSE Turn(g, i)]
<1>1. FromLittleEndian(bytes) = loop[n]
  BY DEF FromLittleEndian
<1>2. step \in [Nat \X (1..n) -> Nat]
  <2>1. \A a \in Nat, i \in 1..n : a * Base + bytes[n + 1 - i] \in Nat
    <3>. SUFFICES ASSUME NEW a \in Nat, NEW i \in 1..n PROVE a * Base + bytes[n + 1 - i] \in Nat
      OBVIOUS
    <3>1. n + 1 - i \in 1..Len(bytes)  OBVIOUS
    <3>2. bytes[n + 1 - i] \in Byte  BY <3>1
    <3>3. bytes[n + 1 - i] \in Nat /\ a * Base \in Nat  BY <3>2, BytesAssumption DEF Byte
    <3>. QED BY <3>3
  <2>. QED BY <2>1
<1>3. PICK f : Runs(f, Nat, 0, n, step)
  <2>. HIDE DEF step
  <2>. QED BY <1>2, LoopExists
<1>4. ASSUME NEW i \in 1..n PROVE f[i] = Turn(f, i)
  <2>1. f[i - 1] \in Nat  BY <1>3 DEF Runs
  <2>2. step[<<f[i - 1], i>>] = Turn(f, i)  BY <2>1
  <2>. QED BY <1>3, <2>2 DEF Runs
<1>. HIDE DEF Turn
<1>5. f = [i \in 0..n |-> IF i = 0 THEN 0 ELSE Turn(f, i)]
  BY <1>3, <1>4 DEF Runs
<1>6. loop = [i \in 0..n |-> IF i = 0 THEN 0 ELSE Turn(loop, i)]
  BY <1>5
<1>. HIDE DEF loop
<1>7. loop[0] = 0 /\ \A i \in 1..n : loop[i] = Turn(loop, i)
  BY <1>6
<1>. QED BY <1>1, <1>7 DEF Turn

\* An integer that fits its bytes is read back from them.
LEMMA LittleEndian ==
  ASSUME NEW n \in 0..Bytes64, NEW value \in Nat, value < Values[n]
  PROVE  /\ toLittleEndian(value, n) \in Seq(Byte)
         /\ Len(toLittleEndian(value, n)) = n
         /\ FromLittleEndian(toLittleEndian(value, n)) = value
<1>. DEFINE bytes == toLittleEndian(value, n)
<1>. Bytes64 \in Nat /\ n \in Nat
  BY BytesAssumption
<1>1. PICK q : /\ bytes = [i \in 1..n |-> q[i - 1] % Base]
               /\ q[0] = value
               /\ \A i \in 0..n : q[i] \in Nat
               /\ \A i \in 1..n : q[i] = q[i - 1] \div Base
  BY Digits
<1>. HIDE DEF bytes
<1>2. ASSUME NEW i \in 1..n PROVE q[i - 1] % Base \in Byte
  <2>1. i - 1 \in 0..n  OBVIOUS
  <2>2. q[i - 1] \in Nat  BY <1>1, <2>1
  <2>. QED BY <2>2, DivMod
<1>3. bytes \in Seq(Byte) /\ Len(bytes) = n /\ \A i \in 1..n : bytes[i] = q[i - 1] % Base
  BY <1>1, <1>2
<1>4. q[n] = 0
  <2>. DEFINE T == {k \in 0..n : q[k] < Values[n - k]}
  <2>1. 0 \in T
    BY <1>1
  <2>2. ASSUME NEW k \in 1..n, k - 1 \in T PROVE k \in T
    <3>1. n - (k - 1) \in 1..Bytes64 /\ n - (k - 1) - 1 = n - k /\ n - k \in 0..Bytes64
      OBVIOUS
    <3>2. Values[n - (k - 1)] = Base * Values[n - k] /\ Values[n - k] \in Nat
      BY <3>1, ValuesProperties
    <3>3. q[k - 1] < Base * Values[n - k] /\ q[k - 1] \in Nat /\ q[k] = q[k - 1] \div Base
      BY <1>1, <2>2, <3>2
    <3>4. q[k] < Values[n - k]
      BY <3>2, <3>3, DivSmaller
    <3>. QED BY <3>4
  <2>3. \A k \in 0..n : k \in T
    <3>. HIDE DEF T
    <3>. QED BY <2>1, <2>2, UpTo
  <2>4. q[n] < Values[n - n] /\ q[n] \in Nat /\ n - n = 0
    BY <1>1, <2>3
  <2>. QED BY <2>4, ValuesProperties
<1>5. PICK r : /\ FromLittleEndian(bytes) = r[n]
               /\ r[0] = 0
               /\ \A i \in 1..n : r[i] = r[i - 1] * Base + bytes[n + 1 - i]
  BY <1>3, Horner
<1>6. r[n] = q[0]
  <2>. DEFINE T == {k \in 0..n : r[k] = q[n - k]}
  <2>1. 0 \in T
    BY <1>4, <1>5
  <2>2. ASSUME NEW k \in 1..n, k - 1 \in T PROVE k \in T
    <3>1. n + 1 - k \in 1..n /\ n - (k - 1) = n + 1 - k /\ n + 1 - k - 1 = n - k /\ n - k \in 0..n
      OBVIOUS
    <3>2. q[n + 1 - k] = q[n - k] \div Base /\ bytes[n + 1 - k] = q[n - k] % Base /\ q[n - k] \in Nat
      BY <1>1, <1>3, <3>1
    <3>3. r[k] = q[n + 1 - k] * Base + bytes[n + 1 - k]
      BY <1>5, <2>2, <3>1
    <3>4. r[k] = q[n - k]
      BY <3>2, <3>3, DivMod
    <3>. QED BY <3>4
  <2>3. \A k \in 0..n : k \in T
    <3>. HIDE DEF T
    <3>. QED BY <2>1, <2>2, UpTo
  <2>4. n \in T
    <3>. HIDE DEF T
    <3>. QED BY <2>3
  <2>5. r[n] = q[n - n] /\ n - n = 0
    BY <2>4
  <2>. QED BY <2>5
<1>. QED BY <1>1, <1>3, <1>5, <1>6 DEF bytes

\* What is in front of a text, and what is left behind it.
LEMMA SplitConcat ==
  ASSUME NEW S, NEW s \in Seq(S), NEW t \in Seq(S)
  PROVE  /\ s \o t \in Seq(S) /\ Len(s \o t) = Len(s) + Len(t)
         /\ SubSeq(s \o t, 1, Len(s)) = s
         /\ From(s \o t, Len(s) + 1) = t
         /\ \A i \in 1..Len(s) : (s \o t)[i] = s[i]
         /\ \A i \in 1..Len(t) : (s \o t)[Len(s) + i] = t[i]
<1>. DEFINE c == s \o t
            n == Len(s)
            m == Len(t)
<1>1. /\ c \in Seq(S) /\ Len(c) = n + m /\ n \in Nat /\ m \in Nat
      /\ \A i \in 1..n : c[i] = s[i]
      /\ \A i \in 1..m : c[n + i] = t[i]
  BY ConcatProperties
<1>. HIDE DEF c
<1>2. SubSeq(c, 1, n) = s
  <2>1. SubSeq(c, 1, n) \in Seq(S) /\ Len(SubSeq(c, 1, n)) = n
    BY <1>1
  <2>2. \A i \in 1..n : SubSeq(c, 1, n)[i] = s[i]
    BY <1>1
  <2>. QED BY <2>1, <2>2, SeqEqual
<1>3. SubSeq(c, n + 1, n + m) = t
  <2>1. SubSeq(c, n + 1, n + m) \in Seq(S) /\ Len(SubSeq(c, n + 1, n + m)) = m
    BY <1>1
  <2>2. \A i \in 1..m : SubSeq(c, n + 1, n + m)[i] = t[i]
    BY <1>1
  <2>. QED BY <2>1, <2>2, SeqEqual
<1>. QED BY <1>1, <1>2, <1>3 DEF c, From

\* One byte is the integer it holds.
LEMMA OneByte ==
  ASSUME NEW value \in Nat, value <= Limit
  PROVE  /\ toLittleEndian(value, 1) = <<value>>
         /\ FromLittleEndian(<<value>>) = value
         /\ value \in Byte /\ Behind(value) = 0
<1>1. 1 \in 0..Bytes64 /\ Values[1] = Base
  BY BytesAssumption, ValuesProperties
<1>2. value < Base /\ value \in Byte /\ Behind(value) = 0
  BY BytesAssumption DEF Limit, Byte, Behind, Mark16, Mark32, Mark64
<1>3. PICK q : /\ toLittleEndian(value, 1) = [i \in 1..1 |-> q[i - 1] % Base]
               /\ q[0] = value
  BY Digits
<1>4. value % Base = value
  BY <1>2, BytesAssumption
<1>5. [i \in 1..1 |-> q[i - 1] % Base] = <<value>>
  BY <1>3, <1>4
<1>. QED BY <1>1, <1>2, <1>3, <1>5, LittleEndian

Marked(mark, value, n) == <<mark>> \o toLittleEndian(value, n)

\* An integer with a mark: its bytes follow the mark.
LEMMA ReadMarked ==
  ASSUME NEW mark \in Byte, NEW n \in 1..Bytes64, Behind(mark) = n,
         NEW value \in Nat, value < Values[n], NEW rest \in Seq(Byte)
  PROVE  /\ Marked(mark, value, n) \in Seq(Byte)
         /\ read_compact_int(Marked(mark, value, n) \o rest).ok
         /\ read_compact_int(Marked(mark, value, n) \o rest).value = value
         /\ read_compact_int(Marked(mark, value, n) \o rest).rest = rest
<1>. DEFINE bytes == toLittleEndian(value, n)
            written == <<mark>> \o bytes
            first == <<mark>>
            buf == written \o rest
<1>. Bytes64 \in Nat /\ n \in Nat /\ n \in 0..Bytes64
  BY BytesAssumption
<1>1. bytes \in Seq(Byte) /\ Len(bytes) = n /\ FromLittleEndian(bytes) = value
  BY LittleEndian
<1>. HIDE DEF bytes
<1>2. first \in Seq(Byte) /\ Len(first) = 1 /\ first[1] = mark
  OBVIOUS
<1>3. written = first \o bytes
  OBVIOUS
<1>. HIDE DEF first, written
<1>4. written \in Seq(Byte) /\ Len(written) = n + 1
  <2>1. first \o bytes \in Seq(Byte) /\ Len(first \o bytes) = Len(first) + Len(bytes)
    BY <1>1, <1>2, SplitConcat, Zenon
  <2>2. written \in Seq(Byte) /\ Len(written) = Len(first) + Len(bytes)
    BY <1>3, <2>1, Zenon
  <2>. QED BY <1>1, <1>2, <2>2
<1>5. buf \in Seq(Byte) /\ Len(buf) = n + 1 + Len(rest) /\ From(buf, n + 1 + 1) = rest
  <2>1. /\ buf \in Seq(Byte) /\ Len(buf) = Len(written) + Len(rest)
        /\ From(buf, Len(written) + 1) = rest
    BY <1>4, SplitConcat, Zenon
  <2>. QED BY <1>4, <2>1
<1>6. buf = first \o (bytes \o rest) /\ bytes \o rest \in Seq(Byte)
  <2>1. bytes \o rest \in Seq(Byte)
    BY <1>1, SplitConcat, Zenon
  <2>2. (first \o bytes) \o rest = first \o (bytes \o rest)
    BY <1>1, <1>2, ConcatAssociative
  <2>. QED BY <1>3, <2>1, <2>2
<1>7. buf[1] = mark
  <2>1. \A i \in 1..Len(first) : (first \o (bytes \o rest))[i] = first[i]
    BY <1>2, <1>6, SplitConcat, Zenon
  <2>2. 1 \in 1..Len(first)
    BY <1>2
  <2>3. (first \o (bytes \o rest))[1] = mark
    BY <1>2, <2>1, <2>2, Zenon
  <2>. HIDE DEF buf
  <2>. QED BY <1>6, <2>3, Zenon
<1>8. SubSeq(buf, 2, n + 1) = bytes
  <2>1. \A i \in 1..n : written[1 + i] = bytes[i]
    <3>1. \A i \in 1..Len(bytes) : (first \o bytes)[Len(first) + i] = bytes[i]
      BY <1>1, <1>2, SplitConcat, Zenon
    <3>. QED BY <1>1, <1>2, <1>3, <3>1
  <2>2. \A i \in 1..(n + 1) : buf[i] = written[i]
    BY <1>4, ConcatProperties
  <2>3. ASSUME NEW i \in 1..n PROVE buf[1 + i] = bytes[i]
    <3>1. 1 + i \in 1..(n + 1)  OBVIOUS
    <3>. QED BY <2>1, <2>2, <3>1
  <2>4. Len(buf) \in Nat /\ n + 1 <= Len(buf) /\ Len(rest) \in Nat
    BY <1>5
  <2>. HIDE DEF buf
  <2>5. SubSeq(buf, 2, n + 1) \in Seq(Byte) /\ Len(SubSeq(buf, 2, n + 1)) = n
    BY <1>5, <2>4
  <2>6. \A i \in 1..n : SubSeq(buf, 2, n + 1)[i] = bytes[i]
    BY <1>5, <2>3, <2>4
  <2>. QED BY <1>1, <2>5, <2>6, SeqEqual
<1>. HIDE DEF buf
<1>9. buf # <<>> /\ Len(buf) >= n + 1 /\ n # 0
  BY <1>5
<1>10. read_compact_int(buf) =
         [ok |-> TRUE, value |-> FromLittleEndian(SubSeq(buf, 2, n + 1)), rest |-> From(buf, n + 2)]
  BY <1>5, <1>7, <1>9 DEF read_compact_int
<1>11. n + 1 + 1 = n + 2
  OBVIOUS
<1>12. From(buf, n + 2) = rest
  BY <1>5, <1>11
<1>13. read_compact_int(buf) = [ok |-> TRUE, value |-> value, rest |-> rest]
  BY <1>1, <1>8, <1>10, <1>12
<1>14. read_compact_int(buf).ok /\ read_compact_int(buf).value = value /\ read_compact_int(buf).rest = rest
  BY <1>13
<1>. QED BY <1>4, <1>14, Zenon DEF buf, written, bytes, Marked

\* An integer of one byte: it is read when another byte follows.
LEMMA ReadByte ==
  ASSUME NEW value \in Nat, value <= Limit, NEW rest \in Seq(Byte)
  PROVE  /\ <<value>> \in Seq(Byte)
         /\ read_compact_int(<<value>> \o rest).ok <=> rest # <<>>
         /\ rest # <<>> => /\ read_compact_int(<<value>> \o rest).value = value
                           /\ read_compact_int(<<value>> \o rest).rest = rest
<1>. DEFINE first == <<value>>
            buf == first \o rest
<1>1. value \in Byte /\ Behind(value) = 0 /\ FromLittleEndian(first) = value
  BY OneByte
<1>2. first \in Seq(Byte) /\ Len(first) = 1 /\ first[1] = value
  BY <1>1
<1>. HIDE DEF first
<1>3. /\ buf \in Seq(Byte) /\ Len(buf) = Len(first) + Len(rest)
      /\ SubSeq(buf, 1, Len(first)) = first /\ From(buf, Len(first) + 1) = rest
  BY <1>2, SplitConcat, Zenon
<1>4. buf[1] = value
  <2>1. \A i \in 1..Len(first) : buf[i] = first[i]
    BY <1>2, SplitConcat, Zenon
  <2>. HIDE DEF buf
  <2>. QED BY <1>2, <2>1
<1>. HIDE DEF buf
<1>5. Len(buf) = 1 + Len(rest) /\ SubSeq(buf, 1, 1) = first /\ From(buf, 2) = rest /\ Len(rest) \in Nat
  BY <1>2, <1>3
<1>6. buf # <<>>
  BY <1>3, <1>5
<1>7. read_compact_int(buf) =
        IF Len(buf) < 2 THEN [ok |-> FALSE, value |-> 0, rest |-> buf]
        ELSE [ok |-> TRUE, value |-> FromLittleEndian(SubSeq(buf, 1, 1)), rest |-> From(buf, 2)]
  BY <1>1, <1>4, <1>6 DEF read_compact_int
<1>8. Len(buf) < 2 <=> rest = <<>>
  BY <1>5
<1>9. CASE rest = <<>>
  <2>1. read_compact_int(buf) = [ok |-> FALSE, value |-> 0, rest |-> buf]
    BY <1>7, <1>8, <1>9
  <2>2. ~read_compact_int(buf).ok
    BY <2>1
  <2>. QED BY <1>2, <1>9, <2>2, Zenon DEF buf, first
<1>10. CASE rest # <<>>
  <2>1. read_compact_int(buf) = [ok |-> TRUE, value |-> value, rest |-> rest]
    BY <1>1, <1>5, <1>7, <1>8, <1>10
  <2>2. read_compact_int(buf).ok /\ read_compact_int(buf).value = value /\ read_compact_int(buf).rest = rest
    BY <2>1
  <2>. QED BY <1>2, <1>10, <2>2, Zenon DEF buf, first
<1>. QED BY <1>9, <1>10

\* An integer of type uint64_t, and the length of the data.
InRange(value) == value \in Nat /\ (value < Values[Bytes64] \/ value < Values[Bytes32])

\* Whatever its length, an integer is read back when a byte follows it.
LEMMA ReadBack ==
  ASSUME NEW value, InRange(value), NEW rest \in Seq(Byte), rest # <<>>
  PROVE  /\ write_compact_int(value) \in Seq(Byte)
         /\ read_compact_int(write_compact_int(value) \o rest).ok
         /\ read_compact_int(write_compact_int(value) \o rest).value = value
         /\ read_compact_int(write_compact_int(value) \o rest).rest = rest
<1>0. value \in Nat /\ (value < Values[Bytes64] \/ value < Values[Bytes32])
  BY DEF InRange
<1>1. /\ Mark16 \in Byte /\ Mark32 \in Byte /\ Mark64 \in Byte
      /\ Behind(Mark16) = Bytes16 /\ Behind(Mark32) = Bytes32 /\ Behind(Mark64) = Bytes64
      /\ Bytes16 \in 1..Bytes64 /\ Bytes32 \in 1..Bytes64 /\ Bytes64 \in 1..Bytes64
  BY BytesAssumption DEF Byte, Behind, Mark16, Mark32, Mark64
<1>2. CASE value <= Limit
  <2>1. write_compact_int(value) = <<value>>
    BY <1>0, <1>2, OneByte DEF write_compact_int
  <2>2. /\ <<value>> \in Seq(Byte)
        /\ read_compact_int(<<value>> \o rest).ok
        /\ read_compact_int(<<value>> \o rest).value = value
        /\ read_compact_int(<<value>> \o rest).rest = rest
    BY <1>2, <1>0, ReadByte, Zenon
  <2>. QED BY <2>1, <2>2, Zenon
<1>3. CASE ~(value <= Limit) /\ value < Values[Bytes16]
  <2>1. write_compact_int(value) = Marked(Mark16, value, Bytes16)
    BY <1>3 DEF write_compact_int, Marked
  <2>. DEFINE w == Marked(Mark16, value, Bytes16)
  <2>2. /\ w \in Seq(Byte) /\ read_compact_int(w \o rest).ok
        /\ read_compact_int(w \o rest).value = value /\ read_compact_int(w \o rest).rest = rest
    BY <1>0, <1>1, <1>3, ReadMarked
  <2>. QED BY <2>1, <2>2, Zenon
<1>4. CASE ~(value <= Limit) /\ ~(value < Values[Bytes16]) /\ value < Values[Bytes32]
  <2>1. write_compact_int(value) = Marked(Mark32, value, Bytes32)
    BY <1>4 DEF write_compact_int, Marked
  <2>. DEFINE w == Marked(Mark32, value, Bytes32)
  <2>2. /\ w \in Seq(Byte) /\ read_compact_int(w \o rest).ok
        /\ read_compact_int(w \o rest).value = value /\ read_compact_int(w \o rest).rest = rest
    BY <1>0, <1>1, <1>4, ReadMarked
  <2>. QED BY <2>1, <2>2, Zenon
<1>5. CASE ~(value <= Limit) /\ ~(value < Values[Bytes16]) /\ ~(value < Values[Bytes32])
  <2>1. write_compact_int(value) = Marked(Mark64, value, Bytes64)
    BY <1>5 DEF write_compact_int, Marked
  <2>2. value < Values[Bytes64]
    BY <1>0, <1>5
  <2>. DEFINE w == Marked(Mark64, value, Bytes64)
  <2>3. /\ w \in Seq(Byte) /\ read_compact_int(w \o rest).ok
        /\ read_compact_int(w \o rest).value = value /\ read_compact_int(w \o rest).rest = rest
    BY <1>0, <1>1, <2>2, ReadMarked
  <2>. QED BY <2>1, <2>3, Zenon
<1>. QED BY <1>2, <1>3, <1>4, <1>5, Zenon

\* write_compact_int writes at least one byte.
LEMMA Written ==
  ASSUME NEW value, InRange(value)
  PROVE  write_compact_int(value) \in Seq(Byte) /\ write_compact_int(value) # <<>>
<1>. DEFINE w == write_compact_int(value)
            rest == <<0>>
<1>1. rest \in Seq(Byte) /\ rest # <<>> /\ Len(rest) = 1
  BY BytesAssumption DEF Byte
<1>. HIDE DEF rest
<1>2. w \in Seq(Byte) /\ read_compact_int(w \o rest).rest = rest
  BY <1>1, ReadBack
<1>3. ASSUME w = <<>> PROVE FALSE
  <2>1. CASE value <= Limit
    <3>1. w = <<value>>
      BY <2>1, OneByte DEF write_compact_int, InRange
    <3>. QED BY <1>3, <3>1
  <2>2. CASE ~(value <= Limit)
    <3>1. PICK mark \in Byte, t \in Seq(Byte) : w = <<mark>> \o t
      <4>. DEFINE Size == {Bytes16, Bytes32, Bytes64}
      <4>1. \E mark \in {Mark16, Mark32, Mark64}, n \in Size :
              w = <<mark>> \o toLittleEndian(value, n) /\ value < Values[n]
        BY <2>2 DEF write_compact_int, InRange
      <4>2. {Mark16, Mark32, Mark64} \subseteq Byte /\ Size \subseteq 0..Bytes64
        BY BytesAssumption DEF Byte, Mark16, Mark32, Mark64
      <4>3. \A n \in Size : value < Values[n] => toLittleEndian(value, n) \in Seq(Byte)
        BY <4>2, LittleEndian DEF InRange
      <4>. QED BY <4>1, <4>2, <4>3, Zenon
    <3>. DEFINE m == <<mark>>
    <3>2. m \in Seq(Byte) /\ Len(m) = 1
      OBVIOUS
    <3>3. w = m \o t
      BY <3>1
    <3>. HIDE DEF m, w
    <3>4. Len(m \o t) = Len(m) + Len(t)
      BY <3>1, <3>2, SplitConcat, Zenon
    <3>5. Len(w) = Len(m) + Len(t)
      BY <3>3, <3>4, Zenon
    <3>. QED BY <1>3, <3>1, <3>2, <3>5
  <2>. QED BY <2>1, <2>2
<1>. QED BY <1>2, <1>3

\* Concatenation as an operator the provers leave alone.
Cat(s, t) == s \o t

\* A concatenation consists of bytes.
LEMMA CatType ==
  ASSUME NEW s \in Seq(Byte), NEW t \in Seq(Byte)
  PROVE  Cat(s, t) \in Seq(Byte)
BY DEF Cat

\* Concatenations may be grouped anew.
LEMMA CatAssociative ==
  ASSUME NEW s \in Seq(Byte), NEW t \in Seq(Byte), NEW u \in Seq(Byte)
  PROVE  Cat(Cat(s, t), u) = Cat(s, Cat(t, u))
BY ConcatAssociative DEF Cat

\* The six parts of gen_sign, grouped the way parse_tansaction reads them.
LEMMA Regroup ==
  ASSUME NEW a \in Seq(Byte), NEW b \in Seq(Byte), NEW c \in Seq(Byte),
         NEW d \in Seq(Byte), NEW e \in Seq(Byte), NEW f \in Seq(Byte)
  PROVE  Cat(Cat(Cat(Cat(Cat(a, b), c), d), e), f) = Cat(a, Cat(b, Cat(c, Cat(d, Cat(e, f)))))
<1>1. /\ Cat(a, b) \in Seq(Byte) /\ Cat(Cat(a, b), c) \in Seq(Byte)
      /\ Cat(Cat(Cat(a, b), c), d) \in Seq(Byte)
      /\ Cat(e, f) \in Seq(Byte) /\ Cat(d, Cat(e, f)) \in Seq(Byte)
      /\ Cat(c, Cat(d, Cat(e, f))) \in Seq(Byte)
  BY CatType
<1>2. Cat(Cat(Cat(Cat(Cat(a, b), c), d), e), f) = Cat(Cat(Cat(Cat(a, b), c), d), Cat(e, f))
  BY <1>1, CatAssociative
<1>3. Cat(Cat(Cat(Cat(a, b), c), d), Cat(e, f)) = Cat(Cat(Cat(a, b), c), Cat(d, Cat(e, f)))
  BY <1>1, CatAssociative
<1>4. Cat(Cat(Cat(a, b), c), Cat(d, Cat(e, f))) = Cat(Cat(a, b), Cat(c, Cat(d, Cat(e, f))))
  BY <1>1, CatAssociative
<1>5. Cat(Cat(a, b), Cat(c, Cat(d, Cat(e, f)))) = Cat(a, Cat(b, Cat(c, Cat(d, Cat(e, f)))))
  BY <1>1, CatAssociative
<1>. QED BY <1>2, <1>3, <1>4, <1>5, Zenon

\* The parts of a transaction one after the other.
LEMMA TransactionParsed ==
  ASSUME NEW t, IsTransaction(t)
  PROVE  LET parsed == parse_tansaction(gen_sign(t), Len(t.to))
         IN  /\ parsed.ok <=> t.data # <<>>
             /\ t.data # <<>> =>
                  parsed = [ok |-> TRUE, to |-> t.to, value |-> t.value, fee |-> t.fee,
                            nonce |-> t.nonce, data_size |-> Len(t.data), data |-> t.data]
<1>. DEFINE v == write_compact_int(t.value)
            f == write_compact_int(t.fee)
            n == write_compact_int(t.nonce)
            d == write_compact_int(Len(t.data))
            afterNonce == d \o t.data
            afterFee == n \o afterNonce
            afterValue == f \o afterFee
            afterTo == v \o afterValue
            Parsed == parse_tansaction(gen_sign(t), Len(t.to))
<1>1. t.to \in Seq(Byte) /\ t.data \in Seq(Byte)
  BY DEF IsTransaction
<1>2. InRange(t.value) /\ InRange(t.fee) /\ InRange(t.nonce) /\ InRange(Len(t.data))
  BY <1>1 DEF IsTransaction, InRange
<1>3. /\ v \in Seq(Byte) /\ f \in Seq(Byte) /\ n \in Seq(Byte) /\ d \in Seq(Byte)
      /\ f # <<>> /\ n # <<>> /\ d # <<>>
  BY <1>2, Written, Zenon
<1>. HIDE DEF v, f, n, d
<1>4. \A s, u \in Seq(Byte) : s # <<>> => s \o u \in Seq(Byte) /\ s \o u # <<>>
  <2>1. \A s, u \in Seq(Byte) : s \o u \in Seq(Byte) /\ Len(s \o u) = Len(s) + Len(u)
    BY SplitConcat
  <2>2. SUFFICES ASSUME NEW s \in Seq(Byte), NEW u \in Seq(Byte), s # <<>>
                 PROVE  s \o u # <<>>
    BY <2>1
  <2>. DEFINE w == s \o u
  <2>3. w \in Seq(Byte) /\ Len(w) = Len(s) + Len(u)
    BY <2>1
  <2>. HIDE DEF w
  <2>4. Len(s) > 0 /\ Len(u) \in Nat
    BY <2>2
  <2>5. w # <<>>
    BY <2>3, <2>4
  <2>. QED BY <2>5 DEF w
<1>5. /\ afterNonce \in Seq(Byte) /\ afterNonce # <<>>
      /\ afterFee \in Seq(Byte) /\ afterFee # <<>>
      /\ afterValue \in Seq(Byte) /\ afterValue # <<>>
  <2>1. afterNonce \in Seq(Byte) /\ afterNonce # <<>>
    BY <1>1, <1>3, <1>4, Zenon
  <2>. HIDE DEF afterNonce
  <2>2. afterFee \in Seq(Byte) /\ afterFee # <<>>
    BY <1>3, <1>4, <2>1, Zenon
  <2>. HIDE DEF afterFee
  <2>3. afterValue \in Seq(Byte) /\ afterValue # <<>>
    BY <1>3, <1>4, <2>2, Zenon
  <2>. QED BY <2>1, <2>2, <2>3, Zenon
<1>6. gen_sign(t) = t.to \o afterTo
  <2>1. gen_sign(t) = Cat(Cat(Cat(Cat(Cat(t.to, v), f), n), d), t.data)
    BY Zenon DEF gen_sign, Cat, v, f, n, d
  <2>2. @ = Cat(t.to, Cat(v, Cat(f, Cat(n, Cat(d, t.data)))))
    <3>. DEFINE to == t.to
                data == t.data
    <3>1. to \in Seq(Byte) /\ data \in Seq(Byte)
      BY <1>1
    <3>. HIDE DEF to, data
    <3>2. Cat(Cat(Cat(Cat(Cat(to, v), f), n), d), data) = Cat(to, Cat(v, Cat(f, Cat(n, Cat(d, data)))))
      BY <1>3, <3>1, Regroup
    <3>. QED BY <3>2, Zenon DEF to, data
  <2>3. @ = t.to \o afterTo
    BY Zenon DEF Cat
  <2>. QED BY <2>1, <2>2, <2>3, Zenon
<1>. HIDE DEF afterNonce, afterFee, afterValue
<1>7. afterTo \in Seq(Byte)
  BY <1>3, <1>5, SplitConcat, Zenon
<1>8. /\ read_compact_int(afterTo).ok /\ read_compact_int(afterTo).value = t.value
      /\ read_compact_int(afterTo).rest = afterValue
  BY <1>2, <1>5, ReadBack, Zenon DEF v
<1>9. /\ read_compact_int(afterValue).ok /\ read_compact_int(afterValue).value = t.fee
      /\ read_compact_int(afterValue).rest = afterFee
  BY <1>2, <1>5, ReadBack, Zenon DEF f, afterValue
<1>10. /\ read_compact_int(afterFee).ok /\ read_compact_int(afterFee).value = t.nonce
       /\ read_compact_int(afterFee).rest = afterNonce
  BY <1>2, <1>5, ReadBack, Zenon DEF n, afterFee
<1>. HIDE DEF afterTo
<1>11. SubSeq(gen_sign(t), 1, Len(t.to)) = t.to /\ From(gen_sign(t), Len(t.to) + 1) = afterTo
  <2>1. SubSeq(t.to \o afterTo, 1, Len(t.to)) = t.to /\ From(t.to \o afterTo, Len(t.to) + 1) = afterTo
    BY <1>1, <1>7, SplitConcat, Zenon
  <2>. QED BY <1>6, <2>1, Zenon
<1>12. Parsed = [ok |-> TRUE /\ TRUE /\ TRUE /\ read_compact_int(afterNonce).ok,
                 to |-> t.to, value |-> t.value, fee |-> t.fee, nonce |-> t.nonce,
                 data_size |-> read_compact_int(afterNonce).value, data |-> read_compact_int(afterNonce).rest]
  BY <1>8, <1>9, <1>10, <1>11, Zenon DEF parse_tansaction
<1>. HIDE DEF Parsed
<1>13. CASE t.data # <<>>
  <2>1. /\ read_compact_int(afterNonce).ok /\ read_compact_int(afterNonce).value = Len(t.data)
        /\ read_compact_int(afterNonce).rest = t.data
    BY <1>1, <1>2, <1>13, ReadBack, Zenon DEF d, afterNonce
  <2>2. (TRUE /\ TRUE /\ TRUE /\ read_compact_int(afterNonce).ok) = TRUE
    BY <2>1
  <2>3. Parsed = [ok |-> TRUE, to |-> t.to, value |-> t.value, fee |-> t.fee,
                  nonce |-> t.nonce, data_size |-> Len(t.data), data |-> t.data]
    BY <1>12, <2>1, <2>2, Zenon
  <2>4. Parsed.ok = TRUE
    BY <2>3, Zenon
  <2>. QED BY <1>13, <2>3, <2>4, Zenon DEF Parsed
<1>14. CASE t.data = <<>>
  <2>1. Len(t.data) = 0 /\ 0 \in Nat /\ 0 <= Limit
    BY <1>14, BytesAssumption DEF Limit
  <2>2. d = <<0>>
    BY <2>1, OneByte DEF d, write_compact_int
  <2>3. afterNonce = <<0>> \o t.data
    BY <2>2, Zenon DEF afterNonce
  <2>4. ~read_compact_int(<<0>> \o t.data).ok
    BY <1>1, <1>14, <2>1, ReadByte, Zenon
  <2>5. ~read_compact_int(afterNonce).ok
    BY <2>3, <2>4, Zenon
  <2>6. Parsed.ok = (TRUE /\ TRUE /\ TRUE /\ read_compact_int(afterNonce).ok)
    BY <1>12, Zenon
  <2>. QED BY <1>14, <2>5, <2>6, Zenon DEF Parsed
<1>. QED BY <1>13, <1>14, Zenon

(***************************************************************************)
(* The theorems: the inputs are what the assumptions say of them, and the  *)
(* lemmas hold for every input.                                            *)
(***************************************************************************)

InputsInv ==
  /\ txs \in Seq(Txs)
  /\ ranges \in Seq(Nat \X Nat)
  /\ tx = NoTx \/ IsTransaction(tx)
  /\ IsProbed(probes)

\* Next has a disjunct for each of the four kinds of input.
LEMMA InputsAreTyped == Spec => []InputsInv
<1>1. Init => InputsInv
  <2>1. IsProbed(<<>>)
    <3>1. DOMAIN <<>> = {}
      OBVIOUS
    <3>2. IsFiniteSet(DOMAIN <<>>)
      BY <3>1, FS_EmptySet
    <3>3. <<>> \in [DOMAIN <<>> -> [timeout: Nat, blocks: Nat]]
      BY <3>1
    <3>. QED BY <3>2, <3>3 DEF IsProbed
  <2>. QED BY <2>1 DEF Init, NoInput, InputsInv
<1>2. InputsInv /\ [Next]_vars => InputsInv'
  <2>. SUFFICES ASSUME InputsInv, [Next]_vars PROVE InputsInv'
    OBVIOUS
  <2>1. CASE UNCHANGED vars
    BY <2>1 DEF vars, InputsInv
  <2>2. CASE /\ UNCHANGED <<ranges, tx, probes>>
             /\ \E t \in Txs : txs' = Append(txs, t)
    BY <2>2 DEF InputsInv
  <2>3. CASE /\ UNCHANGED <<txs, tx, probes>>
             /\ \E v \in (0..MaxNumber) \X (0..MaxNumber) : ranges' = Append(ranges, v)
    <3>1. PICK v \in (0..MaxNumber) \X (0..MaxNumber) : ranges' = Append(ranges, v)
      BY <2>3
    <3>2. v \in Nat \X Nat
      BY <3>1, InputsAssumption
    <3>3. ranges' \in Seq(Nat \X Nat)
      BY <3>1, <3>2 DEF InputsInv
    <3>. QED BY <2>3, <3>3 DEF InputsInv
  <2>4. CASE UNCHANGED <<txs, ranges, probes>> /\ tx' \in Transactions
    BY <2>4, InputsAssumption, Zenon DEF InputsInv
  <2>5. CASE UNCHANGED <<txs, ranges, tx>> /\ probes' \in Probed
    BY <2>5, InputsAssumption, Zenon DEF InputsInv
  <2>. QED BY <2>1, <2>2, <2>3, <2>4, <2>5, Zenon DEF Next
<1>. QED BY <1>1, <1>2, PTL DEF Spec

\* core_addr_verification counts the distinct cores that signed the previous
\* block, and nothing when one signature looked at is not in order; the same for
\* sign blocks; auto_signed_block accepts exactly the listed ranges.  For blocks
\* of any length, any list of ranges and any limit on the transactions looked
\* at, when no core is listed twice in the settings.
THEOREM CountsDistinctCoresHolds ==
  ASSUME DistinctCores
  PROVE  Spec => []CountsDistinctCores
<1>1. InputsInv => CountsDistinctCores
  <2>. SUFFICES ASSUME InputsInv PROVE CountsDistinctCores
    OBVIOUS
  <2>1. BlockVerification(txs, prevHash) =
          IF txs # <<>> /\ AllSignsGood THEN Cardinality({txs[i].fromAddress : i \in Signs}) ELSE -1
    BY BlockIsCounted, Zenon DEF InputsInv, Senders
  <2>2. SignBlockVerification(txs) =
          IF txs # <<>> /\ AllCoresDistinct THEN Cardinality({txs[i].fromAddress : i \in Looked}) ELSE -1
    BY SignBlockIsCounted, Zenon DEF InputsInv, Senders
  <2>3. ASSUME NEW n \in 0..MaxNumber
        PROVE  AutoSignedBlock(ranges, n) <=>
                 \E i \in 1..Len(ranges) : n \in {ranges[i][1]} \cup (ranges[i][1]..ranges[i][2])
    <3>1. n \in Nat
      BY InputsAssumption
    <3>. QED BY <3>1, RangesAreClosed, Zenon DEF InputsInv
  <2>. QED BY <2>1, <2>2, <2>3, Zenon DEF CountsDistinctCores
<1>. QED BY <1>1, InputsAreTyped, PTL

\* A transaction that gen_sign wrote is read back by parse_tansaction with the
\* same fields, exactly when it carries data: for every size of a byte, every
\* length of the integers and every transaction whose amounts and data fit.
THEOREM TransactionIsReadBackHolds == Spec => []TransactionIsReadBack
<1>1. InputsInv => TransactionIsReadBack
  <2>. SUFFICES ASSUME InputsInv, tx # NoTx PROVE TransactionIsReadBack
    BY Zenon DEF TransactionIsReadBack
  <2>1. IsTransaction(tx)
    BY DEF InputsInv
  <2>. QED BY <2>1, TransactionParsed, Zenon DEF TransactionIsReadBack
<1>. QED BY <1>1, InputsAreTyped, PTL

\* The torrent that is chosen is the fastest of those up to date, and none while
\* no chain is long enough; the proxy is reachable when one is: for any number of
\* addresses, whatever order sort leaves those with equal timeouts in.
THEOREM NearestUpToDateHolds == Spec => []NearestUpToDate
<1>1. InputsInv => NearestUpToDate
  BY ChoiceIsRight DEF InputsInv
<1>. QED BY <1>1, InputsAreTyped, PTL

=============================================================================
