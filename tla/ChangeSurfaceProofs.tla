------------------------ MODULE ChangeSurfaceProofs ------------------------
(***************************************************************************)
(* What ChangeSurface guarantees for any services and relations, any       *)
(* searches and answers, and any overlap of index runs, finds and          *)
(* verifications.                                                          *)
(***************************************************************************)
EXTENDS ChangeSurface, FiniteSetTheorems, SequenceTheorems, WellFoundedInduction, TLAPS

(***************************************************************************)
(* Lists                                                                   *)
(***************************************************************************)

LEMMA LeastNumber ==
    ASSUME NEW S \in SUBSET Nat, S # {}
    PROVE  \E m \in S : \A n \in S : m <= n
  <1> DEFINE R == OpToRel(<, Nat)
  <1>1. IsWellFoundedOn(R, Nat)
    BY NatLessThanWellFounded
  <1>2. \A d, e \in Nat : d < e => <<d, e>> \in R
    BY DEF OpToRel
  <1> HIDE DEF R
  <1>3. PICK m \in S : \A n \in S : ~ (<<n, m>> \in R)
    BY <1>1, WFMin
  <1>4. ASSUME NEW n \in S PROVE m <= n
    <2>1. n \in Nat /\ m \in Nat /\ ~ (n < m)
      BY <1>2, <1>3
    <2> QED
      BY <2>1
  <1> QED
    BY <1>4

Below(S, n) == {m \in S : m <= n}

Rank(S, n) == Cardinality(Below(S, n))

LEMMA RankType ==
    ASSUME NEW S \in SUBSET Nat, IsFiniteSet(S), NEW n \in S
    PROVE  Cardinality(S) \in Nat /\ Rank(S, n) \in 1..Cardinality(S)
  <1>1. Below(S, n) \in SUBSET S /\ n \in Below(S, n)
    BY DEF Below
  <1>2. /\ IsFiniteSet(Below(S, n))
        /\ Rank(S, n) <= Cardinality(S)
    BY <1>1, FS_Subset DEF Rank
  <1>3. Rank(S, n) \in Nat /\ Cardinality(S) \in Nat
    BY <1>2, FS_CardinalityType DEF Rank
  <1>4. Rank(S, n) # 0
    BY <1>1, <1>2, FS_EmptySet DEF Rank
  <1> QED
    BY <1>2, <1>3, <1>4

LEMMA RankGrows ==
    ASSUME NEW S \in SUBSET Nat, IsFiniteSet(S), NEW n \in S, NEW m \in S, n < m
    PROVE  Rank(S, n) < Rank(S, m)
  <1>1. Below(S, m) \in SUBSET S /\ m \in Below(S, m)
    BY DEF Below
  <1>5. Below(S, n) \in SUBSET (Below(S, m) \ {m})
    <2>1. \A i \in S : i <= n => i <= m /\ i # m
      OBVIOUS
    <2> QED
      BY <2>1 DEF Below
  <1>2. IsFiniteSet(Below(S, m))
    BY <1>1, FS_Subset
  <1>3. /\ IsFiniteSet(Below(S, m) \ {m})
        /\ Cardinality(Below(S, m) \ {m}) = Rank(S, m) - 1
    BY <1>1, <1>2, FS_RemoveElement DEF Rank
  <1>4. Rank(S, n) <= Rank(S, m) - 1
    BY <1>3, <1>5, FS_Subset DEF Rank
  <1> QED
    BY <1>4, RankType

\* A number stands in the sorted list at the place of its rank, and nowhere else.
LEMMA SortedPlaces ==
    ASSUME NEW S \in SUBSET Nat, IsFiniteSet(S)
    PROVE  /\ Cardinality(S) \in Nat
           /\ Sorted(S) \in [1..Cardinality(S) -> S]
           /\ \A k \in 1..Cardinality(S) : Rank(S, Sorted(S)[k]) = k
           /\ \A n \in S : Sorted(S)[Rank(S, n)] = n
  <1> DEFINE c == Cardinality(S)
             f == [n \in S |-> Rank(S, n)]
  <1>1. c \in Nat
    BY FS_CardinalityType
  <1>2. f \in [S -> 1..c]
    BY RankType
  <1>3. \A n, m \in S : Rank(S, n) = Rank(S, m) => n = m
    <2> SUFFICES ASSUME NEW n \in S, NEW m \in S, n # m PROVE Rank(S, n) # Rank(S, m)
      OBVIOUS
    <2>1. CASE n < m
      BY <2>1, RankGrows, RankType
    <2>2. CASE m < n
      BY <2>2, RankGrows, RankType
    <2> QED
      BY <2>1, <2>2
  <1>4. f \in Injection(S, 1..c)
    BY <1>2, <1>3 DEF Injection, IsInjective
  <1>5. IsFiniteSet(1..c) /\ Cardinality(1..c) = c
    BY <1>1, FS_Interval
  <1>6. f \in Surjection(S, 1..c)
    BY <1>4, <1>5, FS_Injection
  <1>7. \A k \in 1..c : \E n \in S : Rank(S, n) = k
    BY <1>6 DEF Surjection
  <1>8. \A k \in 1..c : Sorted(S)[k] = CHOOSE n \in S : Rank(S, n) = k
    BY DEF Sorted, Rank, Below
  <1>9. \A k \in 1..c : Sorted(S)[k] \in S /\ Rank(S, Sorted(S)[k]) = k
    BY <1>7, <1>8
  <1>10. Sorted(S) \in [1..c -> S]
    BY <1>9 DEF Sorted
  <1>11. \A n \in S : Sorted(S)[Rank(S, n)] = n
    BY <1>2, <1>3, <1>9, RankType
  <1> QED
    BY <1>1, <1>9, <1>10, <1>11

\* A function on the first numbers is a list, and its set is what it takes.
LEMMA ListOf ==
    ASSUME NEW n \in Nat, NEW T, NEW q \in [1..n -> T]
    PROVE  q \in Seq(T) /\ Len(q) = n /\ ToSet(q) = {q[i] : i \in 1..n}
  <1>1. q \in Seq(T)
    BY SeqDef
  <1>2. DOMAIN q = 1..n /\ DOMAIN q = 1..Len(q) /\ Len(q) \in Nat
    BY <1>1, LenProperties
  <1> QED
    BY <1>1, <1>2 DEF ToSet

\* A list without repetitions has as many elements as places.
LEMMA AsManyAsPlaces ==
    ASSUME NEW n \in Nat, NEW T, NEW q \in [1..n -> T],
           \A i, j \in 1..n : q[i] = q[j] => i = j
    PROVE  Cardinality(ToSet(q)) = n
  <1>1. ToSet(q) = {q[i] : i \in 1..n}
    BY DEF ToSet
  <1>2. q \in Bijection(1..n, ToSet(q))
    BY <1>1 DEF Bijection, Injection, Surjection, IsInjective
  <1>3. ExistsBijection(1..n, ToSet(q))
    BY <1>2 DEF ExistsBijection
  <1> QED
    BY <1>3, FS_CountingElements

\* Cutting a list at the cap keeps what stands before.
LEMMA CutList ==
    ASSUME NEW n \in Nat, NEW T, NEW q \in [1..n -> T]
    PROVE  /\ UpToCap(q) \in Seq(T)
           /\ Len(UpToCap(q)) = IF n < Cap THEN n ELSE Cap
           /\ UpToCap(q) \in [1..Len(UpToCap(q)) -> T]
           /\ \A i \in 1..Len(UpToCap(q)) : UpToCap(q)[i] = q[i]
           /\ ToSet(UpToCap(q)) = {q[i] : i \in 1..Len(UpToCap(q))}
  <1> DEFINE m == IF n < Cap THEN n ELSE Cap
             u == SubSeq(q, 1, m)
  <1>1. m \in 0..n /\ Len(q) = n
    BY ListOf, RetrievalAssumption
  <1>2. UpToCap(q) = u
    BY <1>1 DEF UpToCap
  <1>3. u \in Seq(T) /\ Len(u) = m /\ \A i \in 1..m : u[i] = q[i]
    BY <1>1, SubSeqProperties
  <1>4. u \in [1..m -> T]
    BY <1>3, LenProperties
  <1>5. ToSet(u) = {u[i] : i \in 1..m}
    <2> HIDE DEF m, u
    <2>1. m \in Nat
      BY <1>1
    <2>2. u \in Seq(T) /\ Len(u) = m /\ ToSet(u) = {u[i] : i \in 1..m}
      BY <1>4, <2>1, ListOf
    <2> QED
      BY <2>2
  <1> QED
    BY <1>2, <1>3, <1>4, <1>5
\* What is selected of a list, and where it stands.
LEMMA SelectedPlaces ==
    ASSUME NEW list, NEW places \in SUBSET Nat, IsFiniteSet(places)
    PROVE  /\ Cardinality(places) \in Nat
           /\ \A k \in 1..Cardinality(places) :
                  /\ Sorted(places)[k] \in places
                  /\ Rank(places, Sorted(places)[k]) = k
                  /\ Selection(list, places)[k] = list[Sorted(places)[k]]
           /\ \A p \in places : /\ Rank(places, p) \in 1..Cardinality(places)
                                /\ Selection(list, places)[Rank(places, p)] = list[p]
  <1> DEFINE c == Cardinality(places)
  <1>1. /\ c \in Nat
        /\ Sorted(places) \in [1..c -> places]
        /\ \A k \in 1..c : Rank(places, Sorted(places)[k]) = k
        /\ \A p \in places : Sorted(places)[Rank(places, p)] = p
    BY SortedPlaces
  <1>2. \A k \in 1..c : Sorted(places)[k] \in places
    BY <1>1
  <1>3. \A k \in 1..c : Selection(list, places)[k] = list[Sorted(places)[k]]
    BY DEF Selection
  <1>4. \A p \in places : Rank(places, p) \in 1..c
    BY RankType
  <1> QED
    BY <1>1, <1>2, <1>3, <1>4

LEMMA SelectionType ==
    ASSUME NEW T, NEW list, NEW places \in SUBSET Nat, IsFiniteSet(places),
           \A p \in places : list[p] \in T
    PROVE  /\ Cardinality(places) \in Nat
           /\ Selection(list, places) \in [1..Cardinality(places) -> T]
  <1>1. /\ Cardinality(places) \in Nat
        /\ \A k \in 1..Cardinality(places) : Sorted(places)[k] \in places
    BY SelectedPlaces
  <1> QED
    BY <1>1 DEF Selection

\* A list's elements among some names are those that it has of them.
LEMMA AmongNames ==
    ASSUME NEW T, NEW s \in Seq(T), NEW names
    PROVE  Among(s, names) \in Seq(T \cap names)
  <1> DEFINE places == {i \in DOMAIN s : s[i] \in names}
  <1>1. DOMAIN s = 1..Len(s) /\ Len(s) \in Nat /\ \A i \in 1..Len(s) : s[i] \in T
    BY LenProperties
  <1>2. places \in SUBSET Nat /\ \A i \in places : i <= Len(s) /\ s[i] \in T \cap names
    BY <1>1
  <1> HIDE DEF places
  <1>3. IsFiniteSet(places)
    BY <1>1, <1>2, FS_BoundedSetOfNaturals
  <1>4. /\ Cardinality(places) \in Nat
        /\ Selection(s, places) \in [1..Cardinality(places) -> T \cap names]
    BY <1>2, <1>3, SelectionType
  <1>5. Selection(s, places) \in Seq(T \cap names)
    BY <1>4, SeqDef
  <1> QED
    BY <1>5 DEF Among, places

(***************************************************************************)
(* Candidates                                                              *)
(***************************************************************************)

\* The names of a list at odd places, those of another at even ones.
LEMMA InterleavedPlaces ==
    ASSUME NEW T, NEW lexical \in Seq(T), NEW semantic \in Seq(T)
    PROVE  LET list == Interleaved(lexical, semantic)
               D == DOMAIN list
           IN  /\ D \in SUBSET (Nat \ {0}) /\ IsFiniteSet(D)
               /\ \A p \in D : list[p] \in ToSet(lexical) \cup ToSet(semantic)
               /\ \A k \in DOMAIN lexical : 2 * k - 1 \in D /\ list[2 * k - 1] = lexical[k]
               /\ \A k \in DOMAIN semantic : 2 * k \in D /\ list[2 * k] = semantic[k]
  <1> DEFINE list == Interleaved(lexical, semantic)
             D == {2 * k - 1 : k \in DOMAIN lexical} \cup {2 * k : k \in DOMAIN semantic}
             n == 2 * (Len(lexical) + Len(semantic))
  <1>1. /\ DOMAIN lexical = 1..Len(lexical) /\ Len(lexical) \in Nat
        /\ DOMAIN semantic = 1..Len(semantic) /\ Len(semantic) \in Nat
    BY LenProperties
  <1>2. list = [p \in D |-> IF p % 2 = 1 THEN lexical[(p + 1) \div 2] ELSE semantic[p \div 2]]
    BY DEF Interleaved
  <1>3. ASSUME NEW k \in DOMAIN lexical
        PROVE  2 * k - 1 \in Nat \ {0} /\ 2 * k - 1 <= n /\ list[2 * k - 1] = lexical[k]
    <2>1. k \in Nat /\ k >= 1 /\ k <= Len(lexical) /\ 2 * k - 1 \in D
      BY <1>1
    <2>2. (2 * k - 1) % 2 = 1 /\ ((2 * k - 1) + 1) \div 2 = k
      BY <2>1
    <2> QED
      BY <1>1, <1>2, <2>1, <2>2
  <1>4. ASSUME NEW k \in DOMAIN semantic
        PROVE  2 * k \in Nat \ {0} /\ 2 * k <= n /\ list[2 * k] = semantic[k]
    <2>1. k \in Nat /\ k >= 1 /\ k <= Len(semantic) /\ 2 * k \in D
      BY <1>1
    <2>2. (2 * k) % 2 = 0 /\ (2 * k) \div 2 = k
      BY <2>1
    <2> QED
      BY <1>1, <1>2, <2>1, <2>2
  <1>5. D \in SUBSET (Nat \ {0}) /\ \A p \in D : p <= n
    BY <1>3, <1>4
  <1>6. n \in Nat
    BY <1>1
  <1>7. IsFiniteSet(D)
    <2> HIDE DEF D, n
    <2> QED
      BY <1>5, <1>6, FS_BoundedSetOfNaturals
  <1>8. \A p \in D : list[p] \in ToSet(lexical) \cup ToSet(semantic)
    BY <1>3, <1>4 DEF ToSet
  <1>9. DOMAIN list = D
    BY <1>2
  <1> QED
    BY <1>3, <1>4, <1>5, <1>7, <1>8, <1>9

\* A name is kept first where it stands first.
LEMMA FirstPlaceOf ==
    ASSUME NEW list, DOMAIN list \in SUBSET Nat, NEW p \in DOMAIN list
    PROVE  \E q \in FirstPlaces(list) : q <= p /\ list[q] = list[p]
  <1> DEFINE same == {q \in DOMAIN list : list[q] = list[p]}
  <1>1. PICK q \in same : \A r \in same : q <= r
    <2>1. same \in SUBSET Nat /\ same # {}
      OBVIOUS
    <2> HIDE DEF same
    <2> QED
      BY <2>1, LeastNumber
  <1>2. q \in DOMAIN list /\ list[q] = list[p] /\ q <= p
    BY <1>1
  <1>3. ASSUME NEW r \in DOMAIN list, r < q PROVE list[r] # list[q]
    <2>1. r \notin same
      <3>1. r \in Nat /\ q \in Nat
        BY <1>2
      <3> QED
        BY <1>1, <1>3, <3>1
    <2> QED
      BY <1>2, <2>1
  <1> QED
    BY <1>2, <1>3 DEF FirstPlaces

\* What the interleaving of two lists keeps of them.
LEMMA HybridKeeps ==
    ASSUME NEW T, NEW lexical \in Seq(T), NEW semantic \in Seq(T)
    PROVE  LET c == HybridCandidates(lexical, semantic)
           IN  /\ Len(c) <= Cap /\ Cardinality(ToSet(c)) = Len(c) /\ ToSet(c) \subseteq T
               /\ \A k \in DOMAIN lexical : 2 * k - 1 <= Cap => lexical[k] \in ToSet(c)
               /\ \A k \in DOMAIN semantic : 2 * k <= Cap => semantic[k] \in ToSet(c)
  <1> DEFINE list == Interleaved(lexical, semantic)
             D == DOMAIN list
             F == FirstPlaces(list)
             whole == Selection(list, F)
             n == Cardinality(F)
             c == HybridCandidates(lexical, semantic)
  <1>1. /\ D \in SUBSET (Nat \ {0}) /\ IsFiniteSet(D)
        /\ \A p \in D : list[p] \in ToSet(lexical) \cup ToSet(semantic)
        /\ \A k \in DOMAIN lexical : 2 * k - 1 \in D /\ list[2 * k - 1] = lexical[k]
        /\ \A k \in DOMAIN semantic : 2 * k \in D /\ list[2 * k] = semantic[k]
    BY InterleavedPlaces
  <1>2. ToSet(lexical) \subseteq T /\ ToSet(semantic) \subseteq T
    BY LenProperties DEF ToSet
  <1>3. c = UpToCap(whole)
    BY DEF HybridCandidates
  <1> HIDE DEF list, c
  <1>4. F \in SUBSET D /\ \A p, q \in F : list[p] = list[q] => p = q
    <2>1. F \in SUBSET D /\ \A p, q \in F : q < p => list[q] # list[p]
      BY DEF FirstPlaces
    <2>2. \A p, q \in F : p # q => p < q \/ q < p
      BY <1>1, <2>1
    <2> QED
      BY <2>1, <2>2
  <1>5. F \in SUBSET Nat /\ IsFiniteSet(F) /\ \A p \in F : list[p] \in T
    BY <1>1, <1>2, <1>4, FS_Subset
  <1> HIDE DEF F
  <1>6. /\ n \in Nat
        /\ whole \in [1..n -> T]
        /\ \A k \in 1..n : /\ Sorted(F)[k] \in F
                           /\ Rank(F, Sorted(F)[k]) = k
                           /\ whole[k] = list[Sorted(F)[k]]
        /\ \A p \in F : Rank(F, p) \in 1..n /\ whole[Rank(F, p)] = list[p]
    <2>1. n \in Nat /\ whole \in [1..n -> T]
      BY <1>5, SelectionType
    <2>2. ASSUME NEW k \in 1..n
          PROVE  /\ Sorted(F)[k] \in F
                 /\ Rank(F, Sorted(F)[k]) = k
                 /\ whole[k] = list[Sorted(F)[k]]
      BY <1>5, SelectedPlaces
    <2>3. ASSUME NEW p \in F PROVE Rank(F, p) \in 1..n /\ whole[Rank(F, p)] = list[p]
      BY <1>5, SelectedPlaces
    <2> QED
      BY <2>1, <2>2, <2>3
  <1>7. \A k, l \in 1..n : whole[k] = whole[l] => k = l
    BY <1>4, <1>6
  <1> HIDE DEF whole, n
  <1>8. /\ c \in Seq(T) /\ Len(c) = (IF n < Cap THEN n ELSE Cap)
        /\ c \in [1..Len(c) -> T]
        /\ \A i \in 1..Len(c) : c[i] = whole[i]
        /\ ToSet(c) = {whole[i] : i \in 1..Len(c)}
    BY <1>3, <1>6, CutList
  <1>9. Len(c) \in Nat /\ Len(c) <= n /\ Len(c) <= Cap
    BY <1>6, <1>8, RetrievalAssumption
  <1>10. Cardinality(ToSet(c)) = Len(c)
    <2>2. \A i \in 1..Len(c) : i \in 1..n
      BY <1>6, <1>9
    <2>3. \A i \in 1..Len(c) : c[i] = whole[i]
      BY <1>8
    <2>1. \A i, j \in 1..Len(c) : c[i] = c[j] => i = j
      BY <1>7, <2>2, <2>3
    <2> QED
      BY <1>8, <1>9, <2>1, AsManyAsPlaces
  <1>11. ToSet(c) \subseteq T
    BY <1>8 DEF ToSet
  <1>12. ASSUME NEW p \in D, p <= Cap PROVE list[p] \in ToSet(c)
    <2>1. PICK q \in F : q <= p /\ list[q] = list[p]
      BY <1>1, FirstPlaceOf DEF F
    <2>2. Rank(F, q) <= q
      <3>1. q \in Nat /\ \A m \in F : m \in Nat \ {0}
        BY <1>1, <1>4
      <3>4. \A m \in F : m <= q => m \in 1..q
        BY <3>1
      <3>2. Below(F, q) \in SUBSET (1..q)
        BY <3>4 DEF Below
      <3>3. IsFiniteSet(1..q) /\ Cardinality(1..q) = q
        <4>1. Cardinality(1..q) = IF 1 > q THEN 0 ELSE q - 1 + 1
          BY <3>1, FS_Interval
        <4> QED
          BY <3>1, <4>1, FS_Interval
      <3> QED
        BY <3>2, <3>3, FS_Subset DEF Rank
    <2>3. q \in Nat /\ p \in Nat /\ Cap \in Nat /\ Rank(F, q) \in 1..n
      BY <1>1, <1>5, <1>6, RetrievalAssumption
    <2>4. Rank(F, q) \in 1..Len(c)
      BY <1>8, <1>12, <2>1, <2>2, <2>3
    <2> QED
      BY <1>6, <1>8, <2>1, <2>4
  <1>13. \A k \in DOMAIN lexical : 2 * k - 1 <= Cap => lexical[k] \in ToSet(c)
    BY <1>1, <1>12
  <1>14. \A k \in DOMAIN semantic : 2 * k <= Cap => semantic[k] \in ToSet(c)
    BY <1>1, <1>12
  <1> QED
    BY <1>9, <1>10, <1>11, <1>13, <1>14 DEF c

\* The list of a set: cut at the cap, and all of it if it fits.
LEMMA SortedUpToCap ==
    ASSUME NEW S \in SUBSET Nat, IsFiniteSet(S)
    PROVE  LET c == UpToCap(Sorted(S))
           IN  /\ c \in Seq(S)
               /\ Len(c) <= Cap /\ Cardinality(ToSet(c)) = Len(c) /\ ToSet(c) \subseteq S
               /\ Cardinality(S) <= Cap => ToSet(c) = S
  <1> DEFINE n == Cardinality(S)
             whole == Sorted(S)
             c == UpToCap(whole)
  <1>1. /\ n \in Nat
        /\ whole \in [1..n -> S]
        /\ \A k \in 1..n : Rank(S, whole[k]) = k
        /\ \A m \in S : whole[Rank(S, m)] = m /\ Rank(S, m) \in 1..n
    BY SortedPlaces, RankType
  <1> HIDE DEF n, whole
  <1>2. /\ c \in Seq(S) /\ Len(c) = (IF n < Cap THEN n ELSE Cap)
        /\ c \in [1..Len(c) -> S]
        /\ \A i \in 1..Len(c) : c[i] = whole[i]
        /\ ToSet(c) = {whole[i] : i \in 1..Len(c)}
    <2>1. n \in Nat /\ whole \in [1..n -> S]
      BY <1>1
    <2> QED
      BY <2>1, CutList
  <1> HIDE DEF c
  <1>3. Len(c) \in Nat /\ Len(c) <= n /\ Len(c) <= Cap
    BY <1>1, <1>2, RetrievalAssumption
  <1>4. Cardinality(ToSet(c)) = Len(c)
    <2>1. \A i, j \in 1..Len(c) : c[i] = c[j] => i = j
      BY <1>1, <1>2, <1>3
    <2> QED
      BY <1>2, <1>3, <2>1, AsManyAsPlaces
  <1>5. ToSet(c) \subseteq S
    BY <1>2 DEF ToSet
  <1>6. n <= Cap => ToSet(c) = S
    <2>1. n <= Cap => Len(c) = n
      BY <1>1, <1>2, RetrievalAssumption
    <2>2. \A m \in S : \E k \in 1..n : whole[k] = m
      BY <1>1
    <2> QED
      BY <1>2, <1>5, <2>1, <2>2
  <1> QED
    BY <1>2, <1>3, <1>4, <1>5, <1>6 DEF n, whole, c

(***************************************************************************)
(* The walk                                                                *)
(***************************************************************************)

\* Following the relations of two sets of names is following those of both.
LEMMA RelatedToBoth ==
    ASSUME NEW tbl, NEW scope, NEW A, NEW B
    PROVE  RelatedToAny(tbl, A \cup B, scope) =
               RelatedToAny(tbl, A, scope) \cup RelatedToAny(tbl, B, scope)
  BY DEF RelatedToAny

LEMMA RelatedNames ==
    ASSUME NEW tbl \in Tables, NEW scope, NEW A \in SUBSET Names
    PROVE  RelatedToAny(tbl, A, scope) \in SUBSET Names
  <1>1. ASSUME NEW n \in A, NEW i \in Meant(tbl, n, scope)
        PROVE  CallsOf[n] \cup Callers(tbl, i) \cup MessageLinks(tbl, i) \in SUBSET Names
    <2>1. \A j \in RowIds(tbl) : tbl[j].name \in Names
      BY TableAssumption DEF RowIds, Tables, Row
    <2>2. Callers(tbl, i) \in SUBSET Names /\ MessageLinks(tbl, i) \in SUBSET Names
      BY <2>1 DEF Callers, MessageLinks
    <2>3. CallsOf[n] \in SUBSET Names
      BY RetrievalAssumption
    <2> QED
      BY <2>2, <2>3
  <1>2. \A n \in A : Related(tbl, n, scope) \in SUBSET Names
    BY <1>1 DEF Related
  <1> QED
    BY <1>2 DEF RelatedToAny

\* The walk of two hops, round by round.
LEMMA TwoRounds ==
    ASSUME NEW tbl, NEW seeds, NEW scope, Hops = 2
    PROVE  LET start == [visited |-> {}, frontier |-> seeds]
               last == WalkRound(tbl, scope, WalkRound(tbl, scope, start))
           IN  Walk(tbl, seeds, scope) = last.visited \cup last.frontier
  <1> DEFINE start == [visited |-> {}, frontier |-> seeds]
             Round(walk) == WalkRound(tbl, scope, walk)
             Is(walk) == walk = [h \in 0..2 |-> IF h = 0 THEN start ELSE Round(walk[h - 1])]
             rounds == [h \in 0..2 |-> IF h = 0 THEN start
                                       ELSE IF h = 1 THEN Round(start) ELSE Round(Round(start))]
             walked == CHOOSE walk : Is(walk)
  <1>1. Walk(tbl, seeds, scope) = walked[2].visited \cup walked[2].frontier
    BY Hops = 2 DEF Walk
  <1> HIDE DEF start, Round
  <1>2. Is(rounds)
    <2>1. \A h \in 0..2 : h = 0 \/ h = 1 \/ h = 2
      OBVIOUS
    <2>2. rounds[0] = start /\ rounds[1] = Round(start) /\ rounds[2] = Round(Round(start))
      OBVIOUS
    <2>3. \A h \in 0..2 : rounds[h] = IF h = 0 THEN start ELSE Round(rounds[h - 1])
      BY <2>1, <2>2
    <2> QED
      BY <2>3
  <1> HIDE DEF rounds
  <1>3. Is(walked)
    <2> HIDE DEF Is
    <2> QED
      BY <1>2
  <1> HIDE DEF walked
  <1>4. \A h \in 0..2 : walked[h] = IF h = 0 THEN start ELSE Round(walked[h - 1])
    BY <1>3
  <1>5. walked[0] = start /\ walked[1] = Round(walked[0]) /\ walked[2] = Round(walked[1])
    BY <1>4
  <1> QED
    BY <1>1, <1>5 DEF start, Round

LEMMA RoundOf ==
    ASSUME NEW tbl, NEW scope, NEW V, NEW F
    PROVE  WalkRound(tbl, scope, [visited |-> V, frontier |-> F]) =
               IF F = {} \/ Cardinality(V) >= Cap THEN [visited |-> V, frontier |-> F]
               ELSE [visited |-> V \cup F,
                     frontier |-> RelatedToAny(tbl, F, scope) \ (V \cup F)]
  BY DEF WalkRound

\* As long as what two relations lead to fits under the cap, the walk meets all of it.
LEMMA WalkMeetsNear ==
    ASSUME NEW tbl \in Tables, NEW seeds \in SUBSET Names, NEW scope, Hops = 2,
           Cardinality(WithinTwoHops(tbl, seeds, scope)) <= Cap
    PROVE  Walk(tbl, seeds, scope) = WithinTwoHops(tbl, seeds, scope)
  <1> DEFINE R(names) == RelatedToAny(tbl, names, scope)
             start == [visited |-> {}, frontier |-> seeds]
             next == [visited |-> seeds, frontier |-> R(seeds) \ seeds]
             once == seeds \cup R(seeds)
             near == once \cup R(once)
             last == WalkRound(tbl, scope, WalkRound(tbl, scope, start))
  <1>1. Walk(tbl, seeds, scope) = last.visited \cup last.frontier
    BY TwoRounds
  <1>2. WithinTwoHops(tbl, seeds, scope) = near
    BY DEF WithinTwoHops
  <1>3. Cap \in Nat \ {0} /\ IsFiniteSet(Names)
    BY RetrievalAssumption
  <1>4. R(seeds) \in SUBSET Names /\ R(once) \in SUBSET Names
    BY RelatedNames
  <1>5. /\ IsFiniteSet(near) /\ IsFiniteSet(seeds)
        /\ Cardinality(near) \in Nat /\ Cardinality(seeds) \in Nat
    BY <1>3, <1>4, FS_Subset, FS_CardinalityType
  <1>6. \A A, B : R(A \cup B) = R(A) \cup R(B)
    BY RelatedToBoth
  <1>7. R({}) = {}
    BY DEF RelatedToAny
  <1>8. \A V, F : WalkRound(tbl, scope, [visited |-> V, frontier |-> F]) =
            IF F = {} \/ Cardinality(V) >= Cap THEN [visited |-> V, frontier |-> F]
            ELSE [visited |-> V \cup F, frontier |-> R(F) \ (V \cup F)]
    <2> TAKE V, F
    <2> QED
      BY RoundOf
  <1> HIDE DEF R
  <1>9. CASE seeds = {}
    <2>1. WalkRound(tbl, scope, start) = start
      BY <1>8, <1>9
    <2>2. near = {}
      BY <1>7, <1>9
    <2> QED
      BY <1>1, <1>2, <1>9, <2>1, <2>2
  <1>10. CASE seeds # {}
    <2>1. WalkRound(tbl, scope, start) = next
      <3>1. Cardinality({}) = 0 /\ ~ (0 >= Cap)
        BY <1>3, FS_EmptySet
      <3>2. WalkRound(tbl, scope, start) =
                [visited |-> {} \cup seeds, frontier |-> R(seeds) \ ({} \cup seeds)]
        BY <1>8, <1>10, <3>1, Zenon
      <3> QED
        BY <3>2
    <2>2. once = seeds \cup (R(seeds) \ seeds)
      OBVIOUS
    <2>3. R(once) = R(seeds) \cup R(R(seeds) \ seeds)
      BY <1>6, <2>2
    <2>4. CASE R(seeds) \ seeds = {}
      <3>1. last = next
        BY <1>8, <2>1, <2>4
      <3> QED
        BY <1>1, <1>2, <1>7, <2>3, <2>4, <3>1
    <2>5. CASE Cardinality(seeds) >= Cap
      <3>1. last = next
        BY <1>8, <2>1, <2>5
      <3>2. seeds \in SUBSET near
        OBVIOUS
      <3>3. Cardinality(seeds) <= Cardinality(near) /\ Cardinality(near) <= Cap
        BY <1>2, <1>5, <3>2, FS_Subset
      <3>4. Cardinality(near) = Cardinality(seeds)
        BY <1>3, <1>5, <2>5, <3>3
      <3>5. near = seeds
        BY <1>5, <3>2, <3>4, FS_Subset
      <3>6. Walk(tbl, seeds, scope) = once
        BY <1>1, <2>2, <3>1
      <3>7. seeds \subseteq once /\ once \subseteq near
        OBVIOUS
      <3> QED
        BY <1>2, <3>5, <3>6, <3>7
    <2>6. CASE R(seeds) \ seeds # {} /\ ~ (Cardinality(seeds) >= Cap)
      <3>1. last = [visited |-> once, frontier |-> R(R(seeds) \ seeds) \ once]
        <4>1. last = WalkRound(tbl, scope, next)
          BY <2>1
        <4>2. WalkRound(tbl, scope, next) =
                  [visited |-> seeds \cup (R(seeds) \ seeds),
                   frontier |-> R(R(seeds) \ seeds) \ (seeds \cup (R(seeds) \ seeds))]
          BY <1>8, <2>6, Zenon
        <4> QED
          BY <2>2, <4>1, <4>2, Zenon
      <3>2. Walk(tbl, seeds, scope) = once \cup (R(R(seeds) \ seeds) \ once)
        <4> HIDE DEF last
        <4> QED
          BY <1>1, <3>1
      <3>3. near = once \cup R(R(seeds) \ seeds)
        BY <2>3
      <3> QED
        BY <1>2, <3>2, <3>3
    <2> QED
      BY <2>4, <2>5, <2>6
  <1> QED
    BY <1>9, <1>10

(***************************************************************************)
(* The invariant                                                           *)
(***************************************************************************)

IsSequence(q) == \E S : q \in Seq(S)

Outcome == [service : Names, outcome : {"confirmed", "rejected"}]

Verification ==
    [stage : {"verifying"}, run : Nat, rows : SUBSET Row, diff : Diffs \cup {Unreadable},
     true_positives : SUBSET Names, false_positives : SUBSET Names,
     false_negatives : SUBSET Names, recording : BOOLEAN, owed : Seq(Outcome)]

\* The parts of VerdictsFollowFiles, by their names there.
Owns(rows, r, f) ==
    /\ IsPrefix(r.root, f)
    /\ \A q \in rows : IsPrefix(q.root, f) =>
           /\ Len(q.root) <= Len(r.root)
           /\ Len(q.root) = Len(r.root) => r.name <= q.name

Touched(d, n) == \E r \in d.rows, f \in ChangedFiles(d.diff) : r.name = n /\ Owns(d.rows, r, f)

Judged(d) == {n \in Predicted(runs[d.run]) : \E r \in d.rows : r.name = n}

Follows(d, given) ==
    d.stage # "context" =>
        /\ \A g \in given : /\ g.run = d.run /\ g.service \in Judged(d)
                            /\ g.outcome = "confirmed" <=> Touched(d, g.service)
        /\ d.stage = "verifying" =>
               /\ d.true_positives \cup d.false_positives = Judged(d)
               /\ d.true_positives = {n \in Judged(d) : Touched(d, n)}
               /\ d.recording => {g.service : g \in given} = Judged(d)
               /\ ~ d.recording => given = {}

\* What a verification in progress has said and what it still owes are together what
\* it found, and all of it is true of the rows and files it has read.
JobInv ==
    job # Idle =>
        LET given == GivenBy(Len(verdicts) + 1)
            owed == ToSet(job.owed)
        IN  /\ job \in Verification
            /\ job.run \in DOMAIN runs
            /\ job.true_positives \cup job.false_positives = Judged(job)
            /\ job.true_positives = {n \in Judged(job) : Touched(job, n)}
            /\ \A g \in given : g.run = job.run
            /\ \A o \in given \cup owed : /\ o.service \in Judged(job)
                                          /\ o.outcome = "confirmed" <=> Touched(job, o.service)
            /\ job.recording => {o.service : o \in given \cup owed} = Judged(job)
            /\ ~ job.recording => given = {} /\ owed = {}

\* Feedback is of a verification that was completed, or of the one in progress.
FeedbackInv ==
    \A k \in DOMAIN feedback :
        /\ feedback[k].by \in 0..(Len(verdicts) + 1)
        /\ job = Idle => feedback[k].by # Len(verdicts) + 1

RunsKnown ==
    \A v \in DOMAIN verdicts : verdicts[v].stage # "context" => verdicts[v].run \in DOMAIN runs

VerdictInv ==
    /\ services \in Tables
    /\ IsSequence(runs) /\ IsSequence(verdicts) /\ IsSequence(feedback)
    /\ JobInv
    /\ FeedbackInv
    /\ RunsKnown
    /\ VerdictsFollowFiles

(***************************************************************************)
(* Growing and shrinking lists                                             *)
(***************************************************************************)

LEMMA Appended ==
    ASSUME NEW q, IsSequence(q), NEW e
    PROVE  /\ Len(q) \in Nat /\ DOMAIN q = 1..Len(q)
           /\ IsSequence(Append(q, e))
           /\ Len(Append(q, e)) = Len(q) + 1
           /\ DOMAIN Append(q, e) = 1..(Len(q) + 1)
           /\ \A i \in DOMAIN q : Append(q, e)[i] = q[i]
           /\ Append(q, e)[Len(q) + 1] = e
  <1>1. PICK S : q \in Seq(S)
    BY DEF IsSequence
  <1> DEFINE T == S \cup {e}
  <1>2. q \in Seq(T) /\ e \in T
    BY <1>1, SeqDef
  <1> HIDE DEF T
  <1>3. /\ Append(q, e) \in Seq(T)
        /\ Len(Append(q, e)) = Len(q) + 1
        /\ \A i \in 1..Len(q) : Append(q, e)[i] = q[i]
        /\ Append(q, e)[Len(q) + 1] = e
    BY <1>2, AppendProperties
  <1>4. /\ Len(q) \in Nat /\ DOMAIN q = 1..Len(q)
        /\ DOMAIN Append(q, e) = 1..Len(Append(q, e))
    BY <1>2, <1>3, LenProperties
  <1> QED
    BY <1>3, <1>4 DEF IsSequence

LEMMA NoSequence == IsSequence(<<>>) /\ Len(<<>>) = 0 /\ DOMAIN <<>> = {}
  <1>1. <<>> \in Seq({})
    BY EmptySeq
  <1> QED
    BY <1>1 DEF IsSequence

LEMMA TakenApart ==
    ASSUME NEW T, NEW q \in Seq(T), q # <<>>
    PROVE  Head(q) \in T /\ Tail(q) \in Seq(T) /\ ToSet(q) = {Head(q)} \cup ToSet(Tail(q))
  <1>1. /\ Head(q) \in T /\ Tail(q) \in Seq(T) /\ Len(Tail(q)) = Len(q) - 1
        /\ \A i \in 1..Len(Tail(q)) : Tail(q)[i] = q[i + 1]
    BY HeadTailProperties
  <1>2. /\ DOMAIN q = 1..Len(q) /\ Len(q) \in Nat /\ Len(q) > 0
        /\ DOMAIN Tail(q) = 1..Len(Tail(q)) /\ Head(q) = q[1]
    BY <1>1, LenProperties, EmptySeq
  <1>3. ToSet(q) = {q[i] : i \in 1..Len(q)} /\ ToSet(Tail(q)) = {q[i + 1] : i \in 1..(Len(q) - 1)}
    BY <1>1, <1>2 DEF ToSet
  <1>4. \A i \in 1..Len(q) : i = 1 \/ \E j \in 1..(Len(q) - 1) : i = j + 1
    <2> SUFFICES ASSUME NEW i \in 1..Len(q), i # 1 PROVE \E j \in 1..(Len(q) - 1) : i = j + 1
      OBVIOUS
    <2>1. i - 1 \in 1..(Len(q) - 1) /\ i = (i - 1) + 1
      BY <1>2
    <2> QED
      BY <2>1
  <1>5. \A j \in 1..(Len(q) - 1) : j + 1 \in 1..Len(q)
    BY <1>2
  <1>6. 1 \in 1..Len(q)
    BY <1>2
  <1> QED
    BY <1>1, <1>2, <1>3, <1>4, <1>5, <1>6

(***************************************************************************)
(* The table, the services that files belong to, and the outcomes          *)
(***************************************************************************)

LEMMA EnsureKeepsTables ==
    ASSUME NEW tbl \in Tables, NEW x \in Row, NEW i \in Ids, NEW new,
           EnsuresRow(tbl, x.name, x.root, x.repo, i, new)
    PROVE  new \in Tables
  <1> DEFINE inserted == [name |-> x.name, root |-> x.root, repo |-> x.repo]
             updated  == Refreshed(tbl[i], x.name, x.root, x.repo)
  <1>1. inserted \in Row
    BY DEF Row
  <1>2. CASE /\ i \in EnsureCandidates(tbl, x.name, x.root, x.repo)
             /\ new = [tbl EXCEPT ![i] = updated]
    <2>1. tbl[i] \in Row
      BY <1>2 DEF EnsureCandidates, NamedRows, RootedRows, RowIds, Tables
    <2>2. updated \in Row
      BY <2>1 DEF Row, Refreshed
    <2> QED
      BY <1>2, <2>2 DEF Tables
  <1>3. CASE new = [tbl EXCEPT ![i] = inserted]
    BY <1>1, <1>3 DEF Tables
  <1> QED
    BY <1>2, <1>3 DEF EnsuresRow

LEMMA ServicesAreRows ==
    ASSUME services \in Tables, NEW repo
    PROVE  ServicesIn(repo) \in SUBSET Row
  BY DEF ServicesIn, RowIds, Tables

\* A file belongs to the names of the services that own it.
LEMMA AttributedOwns ==
    ASSUME NEW rows \in SUBSET Row, NEW f
    PROVE  Attributed(rows, f) = {n \in Names : \E r \in rows : r.name = n /\ Owns(rows, r, f)}
  <1> DEFINE held == Holders(rows, f)
             deepest == {r \in held : \A q \in held : Len(q.root) <= Len(r.root)}
  <1>1. held = {r \in rows : IsPrefix(r.root, f)}
    BY DEF Holders
  <1>2. \A r \in rows : Len(r.root) \in Nat /\ r.name \in Nat
    BY ChangeAssumption, RetrievalAssumption DEF Row
  <1>3. Attributed(rows, f) =
            {n \in Names : (\E r \in deepest : r.name = n) /\ \A q \in deepest : n <= q.name}
    BY DEF Attributed
  <1>4. \A r \in rows : Owns(rows, r, f) <=>
            /\ r \in held
            /\ \A q \in held : /\ Len(q.root) <= Len(r.root)
                               /\ Len(q.root) = Len(r.root) => r.name <= q.name
    BY <1>1 DEF Owns
  <1> HIDE DEF held
  <1>5. ASSUME NEW r \in rows
        PROVE  Owns(rows, r, f) <=> r \in deepest /\ \A q \in deepest : r.name <= q.name
    <2>1. ASSUME r \in deepest, \A q \in deepest : r.name <= q.name, NEW q \in held
          PROVE  /\ Len(q.root) <= Len(r.root)
                 /\ Len(q.root) = Len(r.root) => r.name <= q.name
      BY <2>1
    <2>2. ASSUME Owns(rows, r, f) PROVE r \in deepest /\ \A q \in deepest : r.name <= q.name
      <3>1. r \in deepest
        BY <1>4, <2>2
      <3>2. \A q \in deepest : q \in held /\ Len(r.root) <= Len(q.root) /\ Len(q.root) <= Len(r.root)
        BY <3>1
      <3>3. \A q \in deepest : q \in rows
        BY <1>1
      <3>4. \A q \in deepest : Len(q.root) = Len(r.root)
        BY <1>2, <3>2, <3>3
      <3> QED
        BY <1>4, <2>2, <3>1, <3>4
    <2>3. r \in deepest => r \in held
      OBVIOUS
    <2> QED
      BY <1>4, <2>1, <2>2, <2>3
  <1>6. \A r \in deepest : r \in rows
    BY <1>1
  <1> HIDE DEF deepest
  <1>7. \A n \in Names : ((\E r \in deepest : r.name = n) /\ \A q \in deepest : n <= q.name)
                             <=> \E r \in rows : r.name = n /\ Owns(rows, r, f)
    BY <1>5, <1>6
  <1> QED
    BY <1>3, <1>7

\* The changed services are those that own a changed file.
LEMMA ChangedAreTouched ==
    ASSUME NEW d, d.rows \in SUBSET Row
    PROVE  ActuallyChanged(d.rows, d.diff) = {n \in Names : Touched(d, n)}
  <1>1. \A f : Attributed(d.rows, f) =
                 {n \in Names : \E r \in d.rows : r.name = n /\ Owns(d.rows, r, f)}
    <2> TAKE f
    <2> QED
      BY AttributedOwns
  <1> QED
    BY <1>1 DEF ActuallyChanged, Touched

LEMMA SaidOf ==
    ASSUME NEW names \in SUBSET Names, NEW outcome \in {"confirmed", "rejected"}
    PROVE  LET said == [k \in 1..Cardinality(names) |->
                           [service |-> Sorted(names)[k], outcome |-> outcome]]
           IN  /\ said \in Seq(Outcome)
               /\ ToSet(said) = {[service |-> n, outcome |-> outcome] : n \in names}
  <1> DEFINE c == Cardinality(names)
             said == [k \in 1..c |-> [service |-> Sorted(names)[k], outcome |-> outcome]]
  <1>1. names \in SUBSET Nat /\ IsFiniteSet(names)
    BY RetrievalAssumption, FS_Subset
  <1>2. /\ c \in Nat /\ Sorted(names) \in [1..c -> names]
        /\ \A n \in names : Rank(names, n) \in 1..c /\ Sorted(names)[Rank(names, n)] = n
    BY <1>1, SortedPlaces, RankType
  <1> HIDE DEF c
  <1>3. \A k \in 1..c : Sorted(names)[k] \in names
    BY <1>2
  <1>4. said \in [1..c -> Outcome]
    BY <1>3 DEF Outcome
  <1>5. said \in Seq(Outcome) /\ ToSet(said) = {said[k] : k \in 1..c}
    <2> HIDE DEF said
    <2>1. c \in Nat /\ said \in [1..c -> Outcome]
      BY <1>2, <1>4
    <2>2. said \in Seq(Outcome) /\ Len(said) = c /\ ToSet(said) = {said[i] : i \in 1..c}
      BY <2>1, ListOf
    <2> QED
      BY <2>2
  <1>6. \A k \in 1..c : said[k] = [service |-> Sorted(names)[k], outcome |-> outcome]
    OBVIOUS
  <1>7. ToSet(said) \subseteq {[service |-> n, outcome |-> outcome] : n \in names}
    BY <1>3, <1>5
  <1>8. \A n \in names : [service |-> n, outcome |-> outcome] \in ToSet(said)
    <2> TAKE n \in names
    <2>1. /\ Rank(names, n) \in 1..c
          /\ said[Rank(names, n)] = [service |-> n, outcome |-> outcome]
      BY <1>2
    <2> QED
      BY <1>5, <2>1
  <1> QED
    BY <1>5, <1>7, <1>8 DEF c

\* Of what was predicted, what changed is confirmed and the rest is rejected.
LEMMA OutcomesOf ==
    ASSUME NEW predicted \in SUBSET Names, NEW actual
    PROVE  LET o == Outcomes(predicted, actual)
           IN  /\ o \in Seq(Outcome)
               /\ \A e \in ToSet(o) : /\ e.service \in predicted
                                      /\ e.outcome = "confirmed" <=> e.service \in actual
               /\ {e.service : e \in ToSet(o)} = predicted
  <1> DEFINE said(names, outcome) == [k \in 1..Cardinality(names) |->
                 [service |-> Sorted(names)[k], outcome |-> outcome]]
             s == said(predicted \cap actual, "confirmed")
             t == said(predicted \ actual, "rejected")
             o == Outcomes(predicted, actual)
             C == {[service |-> n, outcome |-> "confirmed"] : n \in predicted \cap actual}
             R == {[service |-> n, outcome |-> "rejected"] : n \in predicted \ actual}
  <1>1. o = s \o t
    BY DEF Outcomes
  <1>2. /\ s \in Seq(Outcome) /\ ToSet(s) = C
        /\ t \in Seq(Outcome) /\ ToSet(t) = R
    BY SaidOf
  <1> HIDE DEF s, t, o
  <1>3. /\ o \in Seq(Outcome) /\ Len(o) = Len(s) + Len(t)
        /\ \A i \in 1..(Len(s) + Len(t)) : o[i] = IF i <= Len(s) THEN s[i] ELSE t[i - Len(s)]
    BY <1>1, <1>2, ConcatProperties
  <1>4. /\ DOMAIN s = 1..Len(s) /\ Len(s) \in Nat
        /\ DOMAIN t = 1..Len(t) /\ Len(t) \in Nat
        /\ DOMAIN o = 1..(Len(s) + Len(t))
    BY <1>2, <1>3, LenProperties
  <1>5. ToSet(o) = ToSet(s) \cup ToSet(t)
    <2>1. ASSUME NEW i \in DOMAIN o PROVE o[i] \in ToSet(s) \cup ToSet(t)
      <3>1. CASE i <= Len(s)
        <4>1. i \in DOMAIN s /\ o[i] = s[i]
          BY <1>3, <1>4, <3>1
        <4> QED
          BY <4>1 DEF ToSet
      <3>2. CASE ~ (i <= Len(s))
        <4>1. i - Len(s) \in DOMAIN t /\ o[i] = t[i - Len(s)]
          BY <1>3, <1>4, <3>2
        <4> QED
          BY <4>1 DEF ToSet
      <3> QED
        BY <3>1, <3>2
    <2>2. ASSUME NEW i \in DOMAIN s PROVE i \in DOMAIN o /\ o[i] = s[i]
      BY <1>3, <1>4
    <2>3. ASSUME NEW i \in DOMAIN t PROVE i + Len(s) \in DOMAIN o /\ o[i + Len(s)] = t[i]
      <3>1. i + Len(s) \in 1..(Len(s) + Len(t)) /\ ~ (i + Len(s) <= Len(s)) /\ (i + Len(s)) - Len(s) = i
        BY <1>4
      <3> QED
        BY <1>3, <1>4, <3>1
    <2> QED
      BY <2>1, <2>2, <2>3 DEF ToSet
  <1>6. ToSet(o) = C \cup R
    BY <1>2, <1>5
  <1>7. \A e \in C \cup R : /\ e.service \in predicted
                           /\ e.outcome = "confirmed" <=> e.service \in actual
    OBVIOUS
  <1>8. \A n \in predicted : \E e \in C \cup R : e.service = n
    <2> TAKE n \in predicted
    <2>1. CASE n \in actual
      <3> DEFINE e == [service |-> n, outcome |-> "confirmed"]
      <3>1. e \in C /\ e.service = n
        BY <2>1
      <3> HIDE DEF e, C, R
      <3> QED
        BY <3>1
    <2>2. CASE n \notin actual
      <3> DEFINE e == [service |-> n, outcome |-> "rejected"]
      <3>1. e \in R /\ e.service = n
        BY <2>2
      <3> HIDE DEF e, C, R
      <3> QED
        BY <3>1
    <2> QED
      BY <2>1, <2>2
  <1>9. {e.service : e \in C \cup R} = predicted
    <2> DEFINE D == C \cup R
    <2>1. \A e \in D : e.service \in predicted
      BY <1>7
    <2>2. \A n \in predicted : \E e \in D : e.service = n
      BY <1>8
    <2> HIDE DEF D
    <2>3. {e.service : e \in D} = predicted
      BY <2>1, <2>2
    <2> QED
      BY <2>3 DEF D
  <1> QED
    BY <1>3, <1>6, <1>7, <1>9 DEF o

(***************************************************************************)
(* Verdicts                                                                *)
(***************************************************************************)

LEMMA VerdictsFollow ==
    /\ VerdictsFollowFiles <=> \A v \in DOMAIN verdicts : Follows(verdicts[v], GivenBy(v))
    /\ VerdictsFollowFiles' <=> \A v \in DOMAIN verdicts' : Follows(verdicts[v], GivenBy(v))'
  BY DEF VerdictsFollowFiles, Follows, Judged, Touched, Owns

LEMMA GivenMore ==
    ASSUME IsSequence(feedback), NEW g, feedback' = Append(feedback, g), NEW v
    PROVE  GivenBy(v)' = IF g.by = v THEN GivenBy(v) \cup {g} ELSE GivenBy(v)
  <1> DEFINE n == Len(feedback) + 1
             of(q) == {j \in DOMAIN q : q[j].by = v}
  <1>1. /\ DOMAIN feedback = 1..Len(feedback) /\ Len(feedback) \in Nat
        /\ DOMAIN feedback' = 1..n
        /\ \A i \in DOMAIN feedback : feedback'[i] = feedback[i]
        /\ feedback'[n] = g
    BY Appended
  <1>2. GivenBy(v) = {feedback[k] : k \in of(feedback)} /\ GivenBy(v)' = {feedback'[k] : k \in of(feedback')}
    BY DEF GivenBy
  <1>3. DOMAIN feedback' = DOMAIN feedback \cup {n} /\ n \notin DOMAIN feedback
    BY <1>1
  <1>4. of(feedback') = of(feedback) \cup (IF g.by = v THEN {n} ELSE {})
    BY <1>1, <1>3
  <1>5. \A k \in of(feedback) : feedback'[k] = feedback[k]
    BY <1>1
  <1>6. feedback'[n] = g
    BY <1>1
  <1> HIDE DEF of, n
  <1>7. CASE g.by = v
    <2>1. of(feedback') = of(feedback) \cup {n}
      BY <1>4, <1>7
    <2> DEFINE O == of(feedback)
    <2>2. {feedback'[k] : k \in O \cup {n}} = {feedback'[k] : k \in O} \cup {feedback'[n]}
      OBVIOUS
    <2>3. {feedback'[k] : k \in O} = {feedback[k] : k \in O}
      BY <1>5
    <2> QED
      BY <1>2, <1>6, <1>7, <2>1, <2>2, <2>3
  <1>8. CASE g.by # v
    <2>1. of(feedback') = of(feedback)
      BY <1>4, <1>8
    <2> QED
      BY <1>2, <1>5, <1>8, <2>1
  <1> QED
    BY <1>7, <1>8

LEMMA InitVerdicts ==
    ASSUME Init PROVE VerdictInv
  <1>1. services \in Tables
    BY ChangeAssumption DEF Init
  <1>2. IsSequence(runs) /\ IsSequence(verdicts) /\ IsSequence(feedback)
    BY NoSequence DEF Init
  <1>3. DOMAIN verdicts = {} /\ DOMAIN feedback = {}
    BY NoSequence DEF Init
  <1>4. JobInv
    BY DEF Init, JobInv
  <1>5. FeedbackInv /\ RunsKnown /\ VerdictsFollowFiles
    BY <1>3 DEF FeedbackInv, RunsKnown, VerdictsFollowFiles
  <1> QED
    BY <1>1, <1>2, <1>4, <1>5 DEF VerdictInv

LEMMA FollowStays ==
    ASSUME VerdictsFollowFiles, UNCHANGED <<runs, verdicts, feedback>>
    PROVE  VerdictsFollowFiles'
  <1> SUFFICES ASSUME NEW v \in DOMAIN verdicts PROVE Follows(verdicts[v], GivenBy(v))'
    BY VerdictsFollow
  <1>1. Follows(verdicts[v], GivenBy(v))
    BY VerdictsFollow
  <1>2. GivenBy(v)' = GivenBy(v)
    BY DEF GivenBy
  <1>3. Judged(verdicts[v])' = Judged(verdicts[v])
    BY DEF Judged
  <1>4. \A n : Touched(verdicts[v], n)' = Touched(verdicts[v], n)
    BY DEF Touched, Owns
  <1> QED
    BY <1>1, <1>2, <1>3, <1>4 DEF Follows

\* Most steps are of no verification, nor of what one rests on.
LEMMA VerdictsKept ==
    ASSUME VerdictInv, services' \in Tables, UNCHANGED <<runs, job, verdicts, feedback>>
    PROVE  VerdictInv'
  <1>1. IsSequence(runs') /\ IsSequence(verdicts') /\ IsSequence(feedback')
    BY DEF VerdictInv
  <1>2. JobInv'
    BY DEF VerdictInv, JobInv, GivenBy, Judged, Touched, Owns
  <1>3. FeedbackInv'
    BY DEF VerdictInv, FeedbackInv
  <1>5. RunsKnown'
    BY DEF VerdictInv, RunsKnown
  <1>4. VerdictsFollowFiles'
    BY FollowStays DEF VerdictInv
  <1> QED
    BY <1>1, <1>2, <1>3, <1>4, <1>5 DEF VerdictInv

LEMMA RecordRunVerdicts ==
    ASSUME VerdictInv, RecordRun PROVE VerdictInv'
  <1>1. PICK e : runs' = Append(runs, e)
    BY DEF RecordRun
  <1>2. UNCHANGED <<services, job, verdicts, feedback>>
    BY DEF RecordRun
  <1>3. services' \in Tables /\ IsSequence(runs') /\ IsSequence(verdicts') /\ IsSequence(feedback')
    BY <1>1, <1>2, Appended DEF VerdictInv
  <1>4. JobInv'
    <2> SUFFICES ASSUME job # Idle PROVE JobInv'
      BY <1>2 DEF JobInv
    <2>1. job.run \in DOMAIN runs
      BY DEF VerdictInv, JobInv
    <2>3. job.run \in DOMAIN runs' /\ Judged(job)' = Judged(job)
      <3>1. runs'[job.run] = runs[job.run] /\ job.run \in DOMAIN runs'
        BY <1>1, <2>1, Appended DEF VerdictInv
      <3> QED
        BY <1>2, <3>1 DEF Judged
    <2>4. \A n : Touched(job, n)' = Touched(job, n)
      BY <1>2 DEF Touched, Owns
    <2>5. GivenBy(Len(verdicts) + 1)' = GivenBy(Len(verdicts) + 1)
      BY <1>2 DEF GivenBy
    <2>6. JobInv
      BY DEF VerdictInv
    <2> QED
      BY <1>2, <2>3, <2>4, <2>5, <2>6 DEF JobInv
  <1>5. FeedbackInv'
    BY <1>2 DEF VerdictInv, FeedbackInv
  <1>6. RunsKnown'
    BY <1>1, <1>2, Appended DEF VerdictInv, RunsKnown
  <1>7. VerdictsFollowFiles'
    <2> SUFFICES ASSUME NEW v \in DOMAIN verdicts PROVE Follows(verdicts[v], GivenBy(v))'
      BY <1>2, VerdictsFollow
    <2>1. Follows(verdicts[v], GivenBy(v))
      BY VerdictsFollow DEF VerdictInv
    <2>2. verdicts'[v] = verdicts[v] /\ GivenBy(v)' = GivenBy(v)
      BY <1>2 DEF GivenBy
    <2>3. CASE verdicts[v].stage = "context"
      BY <2>2, <2>3 DEF Follows
    <2>4. CASE verdicts[v].stage # "context"
      <3>1. verdicts[v].run \in DOMAIN runs
        BY <2>4 DEF VerdictInv, RunsKnown
      <3>2. runs'[verdicts[v].run] = runs[verdicts[v].run]
        BY <1>1, <3>1, Appended DEF VerdictInv
      <3>3. Judged(verdicts[v])' = Judged(verdicts[v])
        BY <2>2, <3>2 DEF Judged
      <3>4. \A n : Touched(verdicts[v], n)' = Touched(verdicts[v], n)
        BY <2>2 DEF Touched, Owns
      <3> QED
        BY <2>1, <2>2, <3>3, <3>4 DEF Follows
    <2> QED
      BY <2>3, <2>4
  <1> QED
    BY <1>3, <1>4, <1>5, <1>6, <1>7 DEF VerdictInv

LEMMA StartVerifyVerdicts ==
    ASSUME VerdictInv, NEW r \in DOMAIN runs, NEW repo, NEW diff \in Diffs \cup {Unreadable},
           NEW recording \in BOOLEAN, StartVerify(r, repo, diff, recording)
    PROVE  VerdictInv'
  <1> DEFINE rows == ServicesIn(repo)
             predicted == PredictedIn(runs[r], rows)
             actual == ActuallyChanged(rows, diff)
             owed == IF recording THEN Outcomes(predicted, actual) ELSE <<>>
             next == [stage |-> "verifying", run |-> r, rows |-> rows, diff |-> diff,
                      true_positives |-> predicted \cap actual,
                      false_positives |-> predicted \ actual,
                      false_negatives |-> actual \ predicted,
                      recording |-> recording, owed |-> owed]
  <1>1. job = Idle /\ job' = next /\ UNCHANGED <<services, runs, verdicts, feedback>>
    BY DEF StartVerify
  <1>2. /\ services \in Tables /\ FeedbackInv /\ RunsKnown /\ VerdictsFollowFiles
        /\ IsSequence(runs) /\ IsSequence(verdicts) /\ IsSequence(feedback)
    BY DEF VerdictInv
  <1>3. rows \in SUBSET Row
    BY <1>2, ServicesAreRows
  <1> HIDE DEF rows
  <1>4. actual = {n \in Names : Touched(next, n)}
    <2>1. next.rows = rows /\ next.diff = diff
      OBVIOUS
    <2> HIDE DEF next
    <2> QED
      BY <1>3, <2>1, ChangedAreTouched
  <1>5. predicted = Judged(next) /\ predicted \in SUBSET Names
    <2>1. next.run = r /\ next.rows = rows
      OBVIOUS
    <2> HIDE DEF next
    <2>2. \A q \in rows : q.name \in Names
      BY <1>3 DEF Row
    <2> QED
      BY <2>1, <2>2 DEF Judged, PredictedIn
  <1>6. /\ owed \in Seq(Outcome)
        /\ \A e \in ToSet(owed) : /\ e.service \in predicted
                                  /\ e.outcome = "confirmed" <=> e.service \in actual
        /\ recording => {e.service : e \in ToSet(owed)} = predicted
        /\ ~ recording => ToSet(owed) = {}
    <2>1. CASE recording
      BY <1>5, <2>1, OutcomesOf
    <2>2. CASE ~ recording
      <3>1. owed = <<>> /\ ToSet(owed) = {} /\ owed \in Seq(Outcome)
        BY <2>2, EmptySeq DEF ToSet
      <3> QED
        BY <2>2, <3>1
    <2> QED
      BY <2>1, <2>2
  <1> HIDE DEF predicted, actual, owed
  <1>7. r \in Nat
    BY <1>2, Appended
  <1>8. next \in Verification
    BY <1>3, <1>4, <1>5, <1>6, <1>7 DEF Verification
  <1>9. /\ next.run = r /\ next.recording = recording /\ next.owed = owed
        /\ next.true_positives = predicted \cap actual
        /\ next.false_positives = predicted \ actual
    OBVIOUS
  <1> HIDE DEF next
  <1>10. GivenBy(Len(verdicts) + 1)' = {}
    BY <1>1, <1>2 DEF FeedbackInv, GivenBy
  <1>11. Judged(job)' = predicted /\ \A n : Touched(job, n)' = Touched(next, n)
    BY <1>1, <1>5 DEF Judged, Touched, Owns
  <1>12. /\ predicted \cap actual = {n \in predicted : Touched(next, n)}
         /\ \A e \in ToSet(owed) : e.outcome = "confirmed" <=> Touched(next, e.service)
    BY <1>4, <1>5, <1>6
  <1>13. JobInv'
    <2>1. job' \in Verification' /\ job'.run \in DOMAIN runs'
      BY <1>1, <1>8, <1>9 DEF Verification, Row, Outcome
    <2>2. /\ job'.true_positives \cup job'.false_positives = Judged(job)'
          /\ job'.true_positives = {n \in Judged(job)' : Touched(job, n)'}
      BY <1>1, <1>9, <1>11, <1>12
    <2>3. ToSet(job'.owed) = ToSet(owed) /\ job'.recording = recording
      BY <1>1, <1>9
    <2> QED
      BY <1>6, <1>10, <1>11, <1>12, <2>1, <2>2, <2>3 DEF JobInv
  <1>14. FeedbackInv'
    BY <1>1, <1>2 DEF FeedbackInv
  <1>15. RunsKnown'
    BY <1>1, <1>2 DEF RunsKnown
  <1>16. VerdictsFollowFiles'
    BY <1>1, <1>2, FollowStays
  <1> QED
    BY <1>1, <1>2, <1>13, <1>14, <1>15, <1>16 DEF VerdictInv

\* A verdict that follows the files is added.
LEMMA OneMoreVerdict ==
    ASSUME VerdictInv, NEW d, verdicts' = Append(verdicts, d), job' = Idle,
           UNCHANGED <<services, runs, feedback>>,
           d.stage # "context" => d.run \in DOMAIN runs,
           Follows(d, GivenBy(Len(verdicts) + 1))
    PROVE  VerdictInv'
  <1> DEFINE n == Len(verdicts) + 1
  <1>1. /\ services \in Tables /\ FeedbackInv /\ RunsKnown /\ VerdictsFollowFiles
        /\ IsSequence(runs) /\ IsSequence(verdicts) /\ IsSequence(feedback)
    BY DEF VerdictInv
  <1>2. /\ IsSequence(verdicts') /\ Len(verdicts) \in Nat /\ Len(verdicts') = n
        /\ DOMAIN verdicts = 1..Len(verdicts) /\ DOMAIN verdicts' = 1..n
        /\ \A v \in DOMAIN verdicts : verdicts'[v] = verdicts[v]
        /\ verdicts'[n] = d
    BY <1>1, Appended
  <1>3. \A v \in DOMAIN verdicts' : v \in DOMAIN verdicts \/ v = n
    BY <1>2
  <1>4. FeedbackInv'
    BY <1>1, <1>2 DEF FeedbackInv
  <1>5. RunsKnown'
    BY <1>1, <1>2, <1>3 DEF RunsKnown
  <1>6. VerdictsFollowFiles'
    <2> SUFFICES ASSUME NEW v \in DOMAIN verdicts' PROVE Follows(verdicts[v], GivenBy(v))'
      BY VerdictsFollow
    <2>1. GivenBy(v)' = GivenBy(v)
      BY DEF GivenBy
    <2>2. Follows(verdicts'[v], GivenBy(v))
      BY <1>1, <1>2, <1>3, VerdictsFollow
    <2>3. Judged(verdicts[v])' = Judged(verdicts'[v])
      BY DEF Judged
    <2>4. \A m : Touched(verdicts[v], m)' = Touched(verdicts'[v], m)
      BY DEF Touched, Owns
    <2> QED
      BY <2>1, <2>2, <2>3, <2>4 DEF Follows
  <1>7. JobInv'
    BY DEF JobInv
  <1> QED
    BY <1>1, <1>2, <1>4, <1>5, <1>6, <1>7 DEF VerdictInv

LEMMA RecordVerificationVerdicts ==
    ASSUME VerdictInv, RecordVerification PROVE VerdictInv'
  <1>1. /\ job.stage = "verifying" /\ job.owed = <<>>
        /\ verdicts' = Append(verdicts, job) /\ job' = Idle
        /\ UNCHANGED <<services, runs, feedback>>
    BY DEF RecordVerification
  <1>2. job # Idle
    BY <1>1 DEF Idle
  <1>3. ToSet(job.owed) = {}
    BY <1>1 DEF ToSet
  <1>4. Follows(job, GivenBy(Len(verdicts) + 1))
    BY <1>1, <1>2, <1>3 DEF VerdictInv, JobInv, Follows
  <1>5. job.run \in DOMAIN runs
    BY <1>2 DEF VerdictInv, JobInv
  <1> QED
    BY <1>1, <1>4, <1>5, OneMoreVerdict

LEMMA InterruptVerifyVerdicts ==
    ASSUME VerdictInv, InterruptVerify PROVE VerdictInv'
  <1> DEFINE d == [job EXCEPT !.stage = "interrupted"]
  <1>1. /\ job.stage = "verifying" /\ verdicts' = Append(verdicts, d) /\ job' = Idle
        /\ UNCHANGED <<services, runs, feedback>>
    BY DEF InterruptVerify
  <1>2. job # Idle
    BY <1>1 DEF Idle
  <1>3. job \in Verification /\ job.run \in DOMAIN runs
    BY <1>2 DEF VerdictInv, JobInv
  <1>4. d.stage = "interrupted" /\ d.run = job.run /\ d.rows = job.rows /\ d.diff = job.diff
    BY <1>3 DEF Verification
  <1> HIDE DEF d
  <1>5. Judged(d) = Judged(job) /\ \A n : Touched(d, n) = Touched(job, n)
    BY <1>4 DEF Judged, Touched
  <1>6. Follows(d, GivenBy(Len(verdicts) + 1))
    BY <1>2, <1>4, <1>5 DEF VerdictInv, JobInv, Follows
  <1> QED
    BY <1>1, <1>3, <1>4, <1>6, OneMoreVerdict

LEMMA VerifyContextVerdicts ==
    ASSUME VerdictInv, NEW c, NEW repo, NEW diff, VerifyContext(c, repo, diff) PROVE VerdictInv'
  <1>1. PICK d : d.stage = "context" /\ verdicts' = Append(verdicts, d)
    BY DEF VerifyContext
  <1>2. job' = Idle /\ UNCHANGED <<services, runs, feedback>>
    BY DEF VerifyContext
  <1>3. Follows(d, GivenBy(Len(verdicts) + 1))
    BY <1>1 DEF Follows
  <1> QED
    BY <1>1, <1>2, <1>3, OneMoreVerdict

\* Feedback on no completed verification disturbs none.
LEMMA OneMoreFeedback ==
    ASSUME VerdictInv, NEW g, feedback' = Append(feedback, g), UNCHANGED <<services, runs, verdicts>>,
           \/ g.by = 0
           \/ g.by = Len(verdicts) + 1 /\ job' # Idle,
           job' = Idle => job = Idle
    PROVE  /\ services' \in Tables
           /\ IsSequence(runs') /\ IsSequence(verdicts') /\ IsSequence(feedback')
           /\ FeedbackInv' /\ RunsKnown' /\ VerdictsFollowFiles'
  <1> DEFINE n == Len(feedback) + 1
  <1>1. /\ services \in Tables /\ FeedbackInv /\ RunsKnown /\ VerdictsFollowFiles
        /\ IsSequence(runs) /\ IsSequence(verdicts) /\ IsSequence(feedback)
    BY DEF VerdictInv
  <1>2. /\ IsSequence(feedback')
        /\ DOMAIN feedback = 1..Len(feedback) /\ Len(feedback) \in Nat
        /\ DOMAIN feedback' = 1..n
        /\ \A k \in DOMAIN feedback : feedback'[k] = feedback[k]
        /\ feedback'[n] = g
    BY <1>1, Appended
  <1>3. \A k \in DOMAIN feedback' : k \in DOMAIN feedback \/ k = n
    BY <1>2
  <1>4. Len(verdicts) \in Nat /\ DOMAIN verdicts = 1..Len(verdicts)
    BY <1>1, Appended
  <1>5. FeedbackInv'
    BY <1>1, <1>2, <1>3, <1>4 DEF FeedbackInv
  <1>6. RunsKnown'
    BY <1>1 DEF RunsKnown
  <1>7. VerdictsFollowFiles'
    <2> SUFFICES ASSUME NEW v \in DOMAIN verdicts PROVE Follows(verdicts[v], GivenBy(v))'
      BY VerdictsFollow
    <2>1. Follows(verdicts[v], GivenBy(v))
      BY <1>1, VerdictsFollow
    <2>2. g.by # v
      BY <1>4
    <2>3. GivenBy(v)' = GivenBy(v)
      BY <1>1, <2>2, GivenMore
    <2>4. Judged(verdicts[v])' = Judged(verdicts[v])
      BY DEF Judged
    <2>5. \A m : Touched(verdicts[v], m)' = Touched(verdicts[v], m)
      BY DEF Touched, Owns
    <2> QED
      BY <2>1, <2>3, <2>4, <2>5 DEF Follows
  <1> QED
    BY <1>1, <1>2, <1>5, <1>6, <1>7

LEMMA RecordFeedbackVerdicts ==
    ASSUME VerdictInv, RecordFeedback PROVE VerdictInv'
  <1> DEFINE o == Head(job.owed)
             n == Len(verdicts) + 1
             g == [run |-> job.run, service |-> o.service, outcome |-> o.outcome, by |-> n]
             given == GivenBy(n)
  <1>1. /\ job.stage = "verifying" /\ job.owed # <<>>
        /\ feedback' = Append(feedback, g)
        /\ job' = [job EXCEPT !.owed = Tail(@)]
        /\ UNCHANGED <<services, runs, verdicts>>
    BY DEF RecordFeedback
  <1>2. job # Idle
    BY <1>1 DEF Idle
  <1>3. /\ job \in Verification
        /\ job.run \in DOMAIN runs
        /\ job.true_positives \cup job.false_positives = Judged(job)
        /\ job.true_positives = {m \in Judged(job) : Touched(job, m)}
        /\ \A e \in given : e.run = job.run
        /\ \A e \in given \cup ToSet(job.owed) :
               /\ e.service \in Judged(job)
               /\ e.outcome = "confirmed" <=> Touched(job, e.service)
        /\ job.recording => {e.service : e \in given \cup ToSet(job.owed)} = Judged(job)
        /\ ~ job.recording => given = {} /\ ToSet(job.owed) = {}
    BY <1>2 DEF VerdictInv, JobInv
  <1>4. /\ o \in Outcome /\ Tail(job.owed) \in Seq(Outcome)
        /\ ToSet(job.owed) = {o} \cup ToSet(Tail(job.owed))
    <2>1. job.owed \in Seq(Outcome)
      BY <1>3 DEF Verification
    <2> QED
      BY <1>1, <2>1, TakenApart
  <1>5. /\ job' \in Verification /\ job'.stage = "verifying" /\ job'.owed = Tail(job.owed)
        /\ job'.run = job.run /\ job'.rows = job.rows /\ job'.diff = job.diff
        /\ job'.true_positives = job.true_positives
        /\ job'.false_positives = job.false_positives
        /\ job'.recording = job.recording
    BY <1>1, <1>3, <1>4 DEF Verification
  <1>6. job' # Idle
    BY <1>5 DEF Idle
  <1>7. g.by = n /\ g.run = job.run /\ g.service = o.service /\ g.outcome = o.outcome
    OBVIOUS
  <1> HIDE DEF g, o
  <1>8. /\ services' \in Tables
        /\ IsSequence(runs') /\ IsSequence(verdicts') /\ IsSequence(feedback')
        /\ FeedbackInv' /\ RunsKnown' /\ VerdictsFollowFiles'
    BY <1>1, <1>6, <1>7, OneMoreFeedback
  <1>9. GivenBy(Len(verdicts) + 1)' = given \cup {g}
    <2>1. IsSequence(feedback)
      BY DEF VerdictInv
    <2>2. GivenBy(n)' = IF g.by = n THEN GivenBy(n) \cup {g} ELSE GivenBy(n)
      <3>1. \A v : (GivenBy(v)' = IF g.by = v THEN GivenBy(v) \cup {g} ELSE GivenBy(v))
        <4> TAKE v
        <4> QED
          BY <1>1, <2>1, GivenMore
      <3>2. n' = n
        BY <1>1
      <3> QED
        BY <3>1, <3>2 DEF GivenBy
    <2> QED
      BY <1>1, <1>7, <2>2
  <1>10. Judged(job)' = Judged(job) /\ \A m : Touched(job, m)' = Touched(job, m)
    BY <1>1, <1>5 DEF Judged, Touched, Owns
  <1> HIDE DEF given
  <1>11. given \cup ToSet(job.owed) = (given \cup ToSet(Tail(job.owed))) \cup {o}
    BY <1>4
  <1>12. /\ \A e \in (given \cup {g}) \cup ToSet(Tail(job.owed)) :
               /\ e.service \in Judged(job)
               /\ e.outcome = "confirmed" <=> Touched(job, e.service)
         /\ {e.service : e \in (given \cup {g}) \cup ToSet(Tail(job.owed))} =
                {e.service : e \in given \cup ToSet(job.owed)}
    BY <1>3, <1>7, <1>11
  <1>13. job.recording
    BY <1>3, <1>4
  <1>14. JobInv'
    <2>1. job' \in Verification' /\ job'.run \in DOMAIN runs'
      BY <1>1, <1>3, <1>5 DEF Verification, Row, Outcome
    <2>2. /\ job'.true_positives \cup job'.false_positives = Judged(job)'
          /\ job'.true_positives = {m \in Judged(job)' : Touched(job, m)'}
      BY <1>3, <1>5, <1>10
    <2>3. \A e \in given \cup {g} : e.run = job'.run
      BY <1>3, <1>5, <1>7
    <2> QED
      BY <1>3, <1>5, <1>9, <1>10, <1>12, <1>13, <2>1, <2>2, <2>3 DEF JobInv
  <1> QED
    BY <1>8, <1>14 DEF VerdictInv

LEMMA ReportFeedbackVerdicts ==
    ASSUME VerdictInv, NEW r, NEW name, NEW outcome, ReportFeedback(r, name, outcome)
    PROVE  VerdictInv'
  <1>1. PICK g : g.by = 0 /\ feedback' = Append(feedback, g)
    BY DEF ReportFeedback
  <1>2. UNCHANGED <<services, runs, job, verdicts>>
    BY DEF ReportFeedback
  <1>3. /\ services' \in Tables
        /\ IsSequence(runs') /\ IsSequence(verdicts') /\ IsSequence(feedback')
        /\ FeedbackInv' /\ RunsKnown' /\ VerdictsFollowFiles'
    BY <1>1, <1>2, OneMoreFeedback
  <1>4. JobInv'
    <2> SUFFICES ASSUME job # Idle PROVE JobInv'
      BY <1>2 DEF JobInv
    <2>1. GivenBy(Len(verdicts) + 1)' = GivenBy(Len(verdicts) + 1)
      <3> DEFINE n == Len(verdicts) + 1
      <3>1. IsSequence(feedback) /\ n # 0
        BY Appended DEF VerdictInv
      <3>2. \A v : GivenBy(v)' = IF g.by = v THEN GivenBy(v) \cup {g} ELSE GivenBy(v)
        <4> TAKE v
        <4> QED
          BY <1>1, <3>1, GivenMore
      <3> QED
        BY <1>1, <1>2, <3>1, <3>2 DEF GivenBy
    <2>2. Judged(job)' = Judged(job) /\ \A m : Touched(job, m)' = Touched(job, m)
      BY <1>2 DEF Judged, Touched, Owns
    <2>3. JobInv
      BY DEF VerdictInv
    <2> QED
      BY <1>2, <2>1, <2>2, <2>3 DEF JobInv
  <1> QED
    BY <1>3, <1>4 DEF VerdictInv

LEMMA NextVerdicts ==
    ASSUME VerdictInv, [Next]_vars PROVE VerdictInv'
  <1>1. services \in Tables
    BY DEF VerdictInv
  <1>2. CASE UNCHANGED vars
    BY <1>1, <1>2, VerdictsKept DEF vars
  <1>3. ASSUME NEW x \in Indexings, Ensure(x) PROVE VerdictInv'
    <2>1. UNCHANGED <<runs, job, verdicts, feedback>>
      BY <1>3 DEF Ensure
    <2>2. services' \in Tables
      BY <1>1, <1>3, ChangeAssumption, EnsureKeepsTables DEF Ensure
    <2> QED
      BY <2>1, <2>2, VerdictsKept
  <1>4. ASSUME NEW i \in Ids, DeleteRow(i) PROVE VerdictInv'
    <2>1. services' \in Tables /\ UNCHANGED <<runs, job, verdicts, feedback>>
      BY <1>1, <1>4 DEF DeleteRow, Tables
    <2> QED
      BY <2>1, VerdictsKept
  <1>5. ASSUME NEW wanted, NEW scope, NEW found, NEW hints, NEW ranked, NEW hybrid,
               Retrieve(wanted, scope, found, hints, ranked, hybrid)
        PROVE  VerdictInv'
    <2>1. services' = services /\ UNCHANGED <<runs, job, verdicts, feedback>>
      BY <1>5 DEF Retrieve
    <2> QED
      BY <1>1, <2>1, VerdictsKept
  <1>6. ASSUME BuildContext \/ (\E a \in Answers : Answer(a)) \/ FailFind \/ ShowCards \/ RecordTelemetry
        PROVE  VerdictInv'
    <2>1. services' = services /\ UNCHANGED <<runs, job, verdicts, feedback>>
      BY <1>6 DEF BuildContext, Answer, FailFind, ShowCards, RecordTelemetry
    <2> QED
      BY <1>1, <2>1, VerdictsKept
  <1> QED
    BY <1>2, <1>3, <1>4, <1>5, <1>6, RecordRunVerdicts, StartVerifyVerdicts,
       RecordFeedbackVerdicts, RecordVerificationVerdicts, InterruptVerifyVerdicts,
       VerifyContextVerdicts, ReportFeedbackVerdicts DEF Next

(* Whatever index runs, finds and verifications overlap, what a verification *)
(* says of a service rests on the files that it has read: a service that its *)
(* run predicted is confirmed if a changed file is its own, and rejected     *)
(* only if none is (verify_change_surface, git_changed_files and             *)
(* attribute_files_to_services).                                             *)
THEOREM VerdictsAlwaysFollowFiles == Spec => []VerdictsFollowFiles
  <1>1. Init => VerdictInv
    BY InitVerdicts
  <1>2. VerdictInv /\ [Next]_vars => VerdictInv'
    BY NextVerdicts
  <1>3. VerdictInv => VerdictsFollowFiles
    BY DEF VerdictInv
  <1> QED
    BY <1>1, <1>2, <1>3, PTL DEF Spec

(***************************************************************************)
(* The candidates of a task                                                *)
(***************************************************************************)

LEMMA LexicalOf ==
    ASSUME NEW tbl \in Tables, NEW found, NEW hints, NEW scope, Hops = 2,
           found \cup ToSet(hints) \in SUBSET Names
    PROVE  LET known == IndexedNames(tbl, scope)
               near == WithinTwoHops(tbl, found \cup ToSet(hints), scope)
               c == LexicalCandidates(tbl, found, hints, scope)
           IN  /\ c \in Seq(known)
               /\ Len(c) <= Cap /\ Cardinality(ToSet(c)) = Len(c) /\ ToSet(c) \subseteq known
               /\ Cardinality(near) <= Cap => ToSet(c) = near \cap known
  <1> DEFINE seeds == found \cup ToSet(hints)
             known == IndexedNames(tbl, scope)
             near == WithinTwoHops(tbl, seeds, scope)
             met == Walk(tbl, seeds, scope) \cap known
             c == LexicalCandidates(tbl, found, hints, scope)
  <1>1. c = UpToCap(Sorted(met))
    BY DEF LexicalCandidates, ExpandCandidates
  <1>2. known \in SUBSET Names /\ Names \in SUBSET Nat /\ IsFiniteSet(Names)
    BY RetrievalAssumption DEF IndexedNames
  <1>3. met \in SUBSET Nat /\ IsFiniteSet(met) /\ met \subseteq known
    BY <1>2, FS_Subset
  <1>4. near \in SUBSET Names
    BY RelatedNames DEF WithinTwoHops
  <1>5. Cardinality(near) <= Cap => met = near \cap known
    BY WalkMeetsNear
  <1>6. Cardinality(near) <= Cap => Cardinality(near \cap known) <= Cap
    <2>1. IsFiniteSet(near) /\ near \cap known \in SUBSET near
      BY <1>2, <1>4, FS_Subset
    <2>2. /\ IsFiniteSet(near \cap known)
          /\ Cardinality(near \cap known) <= Cardinality(near)
      BY <2>1, FS_Subset
    <2>3. Cardinality(near) \in Nat /\ Cardinality(near \cap known) \in Nat /\ Cap \in Nat
      BY <2>1, <2>2, FS_CardinalityType, RetrievalAssumption
    <2> QED
      BY <2>2, <2>3
  <1> HIDE DEF met, known, near, c
  <1>7. /\ c \in Seq(met)
        /\ Len(c) <= Cap /\ Cardinality(ToSet(c)) = Len(c) /\ ToSet(c) \subseteq met
        /\ Cardinality(met) <= Cap => ToSet(c) = met
    BY <1>1, <1>3, SortedUpToCap
  <1>8. c \in Seq(known)
    <2>1. \A S, T : T \subseteq S => Seq(T) \subseteq Seq(S)
      BY SeqDef
    <2> QED
      BY <1>3, <1>7, <2>1
  <1> QED
    BY <1>3, <1>5, <1>6, <1>7, <1>8 DEF known, near, c

LEMMA SemanticOf ==
    ASSUME NEW tbl \in Tables, NEW scope, NEW ranked \in Seq(Names), NEW hints \in Seq(Names)
    PROVE  LET known == IndexedNames(tbl, scope)
           IN  SemanticCandidates(tbl, Among(ranked, known), hints, scope) \in Seq(known)
  <1> DEFINE known == IndexedNames(tbl, scope)
             asked == Among(ranked, known)
             first == Among(hints, known)
             rest == Among(asked, ToSet(asked) \ ToSet(first))
             whole == first \o rest
  <1>1. SemanticCandidates(tbl, asked, hints, scope) = UpToCap(whole)
    BY DEF SemanticCandidates
  <1>2. \A S, T : T \subseteq S => Seq(T) \subseteq Seq(S)
    BY SeqDef
  <1> HIDE DEF known
  <1>3. asked \in Seq(known) /\ first \in Seq(known)
    <2>1. asked \in Seq(Names \cap known) /\ first \in Seq(Names \cap known)
      BY AmongNames
    <2>2. Seq(Names \cap known) \subseteq Seq(known)
      BY <1>2
    <2> QED
      BY <2>1, <2>2
  <1> HIDE DEF asked, first
  <1>4. rest \in Seq(known)
    <2> DEFINE some == ToSet(asked) \ ToSet(first)
    <2>1. Seq(known \cap some) \subseteq Seq(known)
      BY <1>2
    <2> HIDE DEF some
    <2>2. Among(asked, some) \in Seq(known \cap some)
      BY <1>3, AmongNames
    <2> QED
      BY <2>1, <2>2 DEF some
  <1> HIDE DEF rest
  <1>5. whole \in Seq(known)
    BY <1>3, <1>4, ConcatProperties
  <1> HIDE DEF whole
  <1>6. Len(whole) \in Nat /\ whole \in [1..Len(whole) -> known]
    BY <1>5, LenProperties
  <1>7. UpToCap(whole) \in Seq(known)
    <2> DEFINE n == Len(whole)
    <2>1. n \in Nat /\ whole \in [1..n -> known]
      BY <1>6
    <2> HIDE DEF n
    <2> QED
      BY <2>1, CutList
  <1> QED
    BY <1>1, <1>7 DEF asked, known

LEMMA RetrieveKeepsBoth ==
    ASSUME services \in Tables, Hops = 2,
           NEW wanted, NEW scope, NEW found \in Found, NEW hints \in HintLists,
           NEW ranked \in Rankings, NEW hybrid \in BOOLEAN,
           Retrieve(wanted, scope, found, hints, ranked, hybrid)
    PROVE  CandidatesKeepBoth'
  <1> DEFINE known == IndexedNames(services, scope)
             seeds == (found \cap known) \cup ToSet(hints)
             near == WithinTwoHops(services, seeds, scope)
             lexical == LexicalCandidates(services, found \cap known, hints, scope)
             semantic == SemanticCandidates(services, Among(ranked, known), hints, scope)
             c == IF hybrid THEN HybridCandidates(lexical, semantic) ELSE lexical
             other == IF hybrid THEN semantic ELSE <<>>
  <1>1. find' = [stage |-> "retrieved", wanted |-> wanted, scope |-> scope, candidates |-> c,
                 lexical |-> lexical, semantic |-> other, known |-> known, near |-> near]
    BY DEF Retrieve
  <1>2. /\ found \in SUBSET Names /\ hints \in Seq(Names) /\ ranked \in Seq(Names)
    BY ChangeAssumption
  <1>3. ToSet(hints) \in SUBSET Names
    BY <1>2, LenProperties DEF ToSet
  <1>4. /\ lexical \in Seq(known)
        /\ Len(lexical) <= Cap /\ Cardinality(ToSet(lexical)) = Len(lexical)
        /\ ToSet(lexical) \subseteq known
        /\ Cardinality(near) <= Cap => ToSet(lexical) = near \cap known
    BY <1>2, <1>3, LexicalOf
  <1>5. semantic \in Seq(known)
    BY <1>2, SemanticOf
  <1> HIDE DEF known, near, lexical, semantic
  <1>6. /\ Len(c) <= Cap /\ Cardinality(ToSet(c)) = Len(c) /\ ToSet(c) \subseteq known
        /\ \A k \in DOMAIN lexical : 2 * k - 1 <= Cap => lexical[k] \in ToSet(c)
        /\ \A k \in DOMAIN other : 2 * k <= Cap => other[k] \in ToSet(c)
    <2>1. CASE hybrid
      BY <1>4, <1>5, <2>1, HybridKeeps
    <2>2. CASE ~ hybrid
      <3>1. c = lexical /\ other = <<>> /\ DOMAIN other = {}
        BY <2>2, NoSequence
      <3>2. \A k \in DOMAIN lexical : lexical[k] \in ToSet(lexical)
        BY DEF ToSet
      <3> QED
        BY <1>4, <3>1, <3>2
    <2> QED
      BY <2>1, <2>2
  <1> HIDE DEF c, other
  <1> QED
    BY <1>1, <1>4, <1>6 DEF CandidatesKeepBoth

CandidateInv == services \in Tables /\ CandidatesKeepBoth

LEMMA NextCandidates ==
    ASSUME CandidateInv, [Next]_vars, Hops = 2 PROVE CandidateInv'
  <1>1. services \in Tables /\ CandidatesKeepBoth
    BY DEF CandidateInv
  <1>2. CASE UNCHANGED vars
    BY <1>1, <1>2 DEF vars, CandidateInv, CandidatesKeepBoth
  <1>3. ASSUME NEW x \in Indexings, Ensure(x) PROVE CandidateInv'
    <2>1. find' = find
      BY <1>3 DEF Ensure
    <2>2. services' \in Tables
      BY <1>1, <1>3, ChangeAssumption, EnsureKeepsTables DEF Ensure
    <2> QED
      BY <1>1, <2>1, <2>2 DEF CandidateInv, CandidatesKeepBoth
  <1>4. ASSUME NEW i \in Ids, DeleteRow(i) PROVE CandidateInv'
    <2>1. services' \in Tables /\ find' = find
      BY <1>1, <1>4 DEF DeleteRow, Tables
    <2> QED
      BY <1>1, <2>1 DEF CandidateInv, CandidatesKeepBoth
  <1>5. ASSUME NEW wanted, NEW scope, NEW found \in Found, NEW hints \in HintLists,
               NEW ranked \in Rankings, NEW hybrid \in BOOLEAN,
               Retrieve(wanted, scope, found, hints, ranked, hybrid)
        PROVE  CandidateInv'
    <2>1. services' = services
      BY <1>5 DEF Retrieve
    <2>2. CandidatesKeepBoth'
      BY <1>1, <1>5, RetrieveKeepsBoth
    <2> QED
      BY <1>1, <2>1, <2>2 DEF CandidateInv
  <1>6. ASSUME services' = services, find'.stage # "retrieved" PROVE CandidateInv'
    BY <1>1, <1>6 DEF CandidateInv, CandidatesKeepBoth
  <1>7. ASSUME services' = services, find' = find PROVE CandidateInv'
    BY <1>1, <1>7 DEF CandidateInv, CandidatesKeepBoth
  <1>8. CASE BuildContext
    BY <1>6, <1>8 DEF BuildContext, Idle
  <1>9. ASSUME NEW a \in Answers, Answer(a) PROVE CandidateInv'
    <2>1. services' = services /\ find'.stage = "answered"
      BY <1>9 DEF Answer
    <2> QED
      BY <1>6, <2>1
  <1>10. CASE FailFind
    BY <1>6, <1>10 DEF FailFind, Idle
  <1>11. CASE RecordRun
    BY <1>6, <1>11 DEF RecordRun, Idle
  <1>12. CASE ShowCards
    BY <1>6, <1>12 DEF ShowCards
  <1>13. CASE RecordTelemetry
    BY <1>6, <1>13 DEF RecordTelemetry, Idle
  <1>14. ASSUME NEW r, NEW repo, NEW diff, NEW recording, StartVerify(r, repo, diff, recording)
         PROVE  CandidateInv'
    BY <1>7, <1>14 DEF StartVerify
  <1>15. CASE RecordFeedback \/ RecordVerification \/ InterruptVerify
    BY <1>7, <1>15 DEF RecordFeedback, RecordVerification, InterruptVerify
  <1>16. ASSUME NEW c, NEW repo, NEW diff, VerifyContext(c, repo, diff) PROVE CandidateInv'
    BY <1>7, <1>16 DEF VerifyContext
  <1>17. ASSUME NEW r, NEW name, NEW outcome, ReportFeedback(r, name, outcome) PROVE CandidateInv'
    BY <1>7, <1>17 DEF ReportFeedback
  <1> QED
    BY <1>2, <1>3, <1>4, <1>5, <1>8, <1>9, <1>10, <1>11, <1>12, <1>13, <1>14, <1>15, <1>16, <1>17
       DEF Next

(* Of every table, search and ranking, the candidates of a task are indexed  *)
(* services, each once and never more than the cap; what stands in the       *)
(* better half of either list is among them, and what two relations lead to  *)
(* is all there if it fits (KeywordGraphRetrieval with its two hops,         *)
(* SemanticRetrieval and HybridRetrieval of retrieval.py).                   *)
THEOREM CandidatesAlwaysKeepBoth ==
    ASSUME Hops = 2 PROVE Spec => []CandidatesKeepBoth
  <1>1. Init => CandidateInv
    BY ChangeAssumption DEF Init, CandidateInv, CandidatesKeepBoth, Idle
  <1>2. CandidateInv /\ [Next]_vars => CandidateInv'
    BY NextCandidates, Hops = 2
  <1>3. CandidateInv => CandidatesKeepBoth
    BY DEF CandidateInv
  <1> QED
    BY <1>1, <1>2, <1>3, PTL DEF Spec

=============================================================================
