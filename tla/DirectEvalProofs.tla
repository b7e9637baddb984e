-------------------------- MODULE DirectEvalProofs --------------------------
(***************************************************************************)
(* What is proved of DirectEval, for any instances, repositories, faults   *)
(* and numbers of workers.                                                 *)
(***************************************************************************)
EXTENDS DirectEval, FiniteSetTheorems, WellFoundedInduction, TLAPS

-----------------------------------------------------------------------------
(* Numbers, recursion and sequences.                                       *)

\* Every nonempty set of numbers has a least one.
LEMMA Smallest ==
    ASSUME NEW T \in SUBSET Nat, T # {}
    PROVE  \E m \in T : \A k \in T : m <= k
<1> DEFINE R == OpToRel(<, Nat)
<1>1. IsWellFoundedOn(R, Nat)
  BY NatLessThanWellFounded
<1>2. ASSUME NEW x \in Nat, NEW y \in Nat, ~ (<<y, x>> \in R) PROVE x <= y
  BY <1>2 DEF OpToRel
<1> HIDE DEF R
<1>3. PICK x \in T : \A y \in T : ~ (<<y, x>> \in R)
  BY <1>1, WFMin
<1>4. \A y \in T : x <= y
  BY <1>2, <1>3
<1> QED
  BY <1>4

\* Induction up to K, over a set instead of a predicate.
LEMMA InductionUpTo ==
    ASSUME NEW K \in Nat, NEW G, 0 \in G, \A n \in 0..(K - 1) : n \in G => n + 1 \in G
    PROVE  \A n \in 0..K : n \in G
<1> DEFINE T == {n \in 0..K : n \notin G}
<1>1. SUFFICES ASSUME T # {} PROVE FALSE
  OBVIOUS
<1>2. T \in SUBSET Nat
  OBVIOUS
<1>3. \A n \in T : n \in 0..K /\ n \notin G /\ n # 0
  OBVIOUS
<1>4. \A n \in 0..K : n \notin T => n \in G
  OBVIOUS
<1> HIDE DEF T
<1>5. PICK m \in T : \A k \in T : m <= k
  BY <1>1, <1>2, Smallest
<1>6. m - 1 \in 0..(K - 1) /\ m - 1 \notin T
  BY <1>3, <1>5
<1> QED
  BY <1>3, <1>4, <1>6

\* The functions that a recursive definition over 0..K may define.
Recursions(S, base, step, K) ==
    {f \in [0..K -> S] : f[0] = base /\ \A n \in 1..K : f[n] = step[<<n, f[n - 1]>>]}

\* There is one.
LEMMA RecursionExists ==
    ASSUME NEW S, NEW base \in S, NEW step \in [Nat \X S -> S], NEW K \in Nat
    PROVE  Recursions(S, base, step, K) # {}
<1> DEFINE G == {k \in Nat : \E f \in [0..k -> S] :
                     f[0] = base /\ \A n \in 1..k : f[n] = step[<<n, f[n - 1]>>]}
<1>1. 0 \in G
  <2> DEFINE f == [n \in 0..0 |-> base]
  <2>1. f \in [0..0 -> S] /\ f[0] = base /\ \A n \in 1..0 : FALSE
    OBVIOUS
  <2> HIDE DEF f
  <2> QED
    BY <2>1
<1>2. ASSUME NEW k \in Nat, k \in G PROVE k + 1 \in G
  <2>1. PICK f \in [0..k -> S] :
            f[0] = base /\ \A n \in 1..k : f[n] = step[<<n, f[n - 1]>>]
    BY <1>2
  <2> DEFINE g == [n \in 0..(k + 1) |-> IF n <= k THEN f[n] ELSE step[<<k + 1, f[k]>>]]
  <2>2. step[<<k + 1, f[k]>>] \in S
    BY <2>1
  <2>3. g \in [0..(k + 1) -> S] /\ \A n \in 0..k : g[n] = f[n]
    BY <2>1, <2>2
  <2>4. g[k + 1] = step[<<k + 1, f[k]>>]
    OBVIOUS
  <2> HIDE DEF g
  <2>5. g[0] = base /\ \A n \in 1..(k + 1) : g[n] = step[<<n, g[n - 1]>>]
    <3>1. \A n \in 1..k : n \in 0..k /\ n - 1 \in 0..k
      OBVIOUS
    <3>2. \A n \in 1..(k + 1) : n \in 1..k \/ n = k + 1
      OBVIOUS
    <3>3. 0 \in 0..k /\ k \in 0..k /\ (k + 1) - 1 = k
      OBVIOUS
    <3> QED
      BY <2>1, <2>3, <2>4, <3>1, <3>2, <3>3
  <2> QED
    BY <2>3, <2>5
<1> HIDE DEF G
<1>3. K \in G
  BY <1>1, <1>2, InductionUpTo
<1> QED
  BY <1>3 DEF G, Recursions

LEMMA AppendRange ==
    ASSUME NEW S, NEW s \in Seq(S), NEW x \in S
    PROVE  Append(s, x) \in Seq(S) /\ Range(Append(s, x)) = Range(s) \cup {x}
<1>1. /\ Append(s, x) \in Seq(S) /\ Len(s) \in Nat
      /\ DOMAIN s = 1..Len(s) /\ DOMAIN Append(s, x) = 1..(Len(s) + 1)
      /\ \A k \in 1..Len(s) : Append(s, x)[k] = s[k]
      /\ Append(s, x)[Len(s) + 1] = x
  OBVIOUS
<1>2. \A k \in 1..(Len(s) + 1) : k \in 1..Len(s) \/ k = Len(s) + 1
  BY <1>1
<1> QED
  BY <1>1, <1>2 DEF Range

LEMMA ConcatRange ==
    ASSUME NEW S, NEW s \in Seq(S), NEW t \in Seq(S)
    PROVE  s \o t \in Seq(S) /\ Range(s \o t) = Range(s) \cup Range(t)
<1>1. /\ s \o t \in Seq(S) /\ Len(s) \in Nat /\ Len(t) \in Nat
      /\ DOMAIN s = 1..Len(s) /\ DOMAIN t = 1..Len(t)
      /\ DOMAIN (s \o t) = 1..(Len(s) + Len(t))
      /\ \A k \in 1..(Len(s) + Len(t)) :
            (s \o t)[k] = IF k <= Len(s) THEN s[k] ELSE t[k - Len(s)]
  OBVIOUS
<1>2. ASSUME NEW x \in Range(s \o t) PROVE x \in Range(s) \cup Range(t)
  <2>1. PICK k \in 1..(Len(s) + Len(t)) : x = (s \o t)[k]
    BY <1>1, <1>2 DEF Range
  <2>2. CASE k <= Len(s)
    BY <1>1, <2>1, <2>2 DEF Range
  <2>3. CASE ~ (k <= Len(s))
    <3>1. k - Len(s) \in 1..Len(t) /\ x = t[k - Len(s)]
      BY <1>1, <2>1, <2>3
    <3> QED
      BY <1>1, <3>1 DEF Range
  <2> QED
    BY <2>2, <2>3
<1>3. ASSUME NEW k \in 1..Len(s) PROVE s[k] \in Range(s \o t)
  <2>1. k \in 1..(Len(s) + Len(t)) /\ (s \o t)[k] = s[k]
    BY <1>1
  <2> QED
    BY <1>1, <2>1 DEF Range
<1>4. ASSUME NEW k \in 1..Len(t) PROVE t[k] \in Range(s \o t)
  <2>1. Len(s) + k \in 1..(Len(s) + Len(t)) /\ ~ (Len(s) + k <= Len(s)) /\ (Len(s) + k) - Len(s) = k
    BY <1>1
  <2>2. (s \o t)[Len(s) + k] = t[k]
    BY <1>1, <2>1
  <2> QED
    BY <1>1, <2>1, <2>2 DEF Range
<1> QED
  BY <1>1, <1>2, <1>3, <1>4 DEF Range

-----------------------------------------------------------------------------
(* group_ids_by_repo.                                                      *)

Count == Len(Ids)

LEMMA IdsAreInstances ==
    /\ Count \in Nat /\ DOMAIN Ids = 1..Count
    /\ \A n \in 1..Count : Ids[n] \in Instances /\ Repo[Ids[n]] \in Repos
    /\ \A i \in Instances : Repo[i] \in Repos /\ \E n \in 1..Count : Ids[n] = i
    /\ \A r \in Repos : \E i \in Instances : Repo[i] = r
<1>1. Ids \in Seq(Instances) /\ Instances = {Ids[n] : n \in DOMAIN Ids}
  BY IdsAssumption DEF Instances, Range
<1>2. DOMAIN Repo = Instances /\ Repos = {Repo[i] : i \in DOMAIN Repo}
  BY RepoAssumption DEF Repos, Range
<1> QED
  <2>1. Len(Ids) \in Nat /\ DOMAIN Ids = 1..Len(Ids)
    BY <1>1
  <2>2. \A n \in DOMAIN Ids : Ids[n] \in Instances
    BY <1>1
  <2>3. \A i \in Instances : Repo[i] \in Repos /\ \E n \in DOMAIN Ids : Ids[n] = i
    BY <1>1, <1>2
  <2>4. \A r \in Repos : \E i \in Instances : Repo[i] = r
    BY <1>2
  <2> QED
    BY <2>1, <2>2, <2>3, <2>4 DEF Count

\* Groups is what its definition says.
LEMMA GroupsEquation ==
    Groups = [n \in 0..Count |->
                 IF n = 0 THEN [r \in Repos |-> << >>]
                 ELSE [Groups[n - 1] EXCEPT ![Repo[Ids[n]]] = Append(@, Ids[n])]]
<1> DEFINE S    == [Repos -> Seq(Instances)]
           base == [r \in Repos |-> << >>]
           step == [x \in Nat \X S |->
                       IF x[1] \in 1..Count
                       THEN [x[2] EXCEPT ![Repo[Ids[x[1]]]] = Append(@, Ids[x[1]])]
                       ELSE x[2]]
<1>1. base \in S
  OBVIOUS
<1>2. step \in [Nat \X S -> S]
  <2> SUFFICES ASSUME NEW n \in 1..Count, NEW g \in S
               PROVE  [g EXCEPT ![Repo[Ids[n]]] = Append(@, Ids[n])] \in S
    BY DEF Count
  <2> QED
    BY IdsAreInstances
<1>3. PICK f \in Recursions(S, base, step, Count) : TRUE
  <2> HIDE DEF S, base, step
  <2> QED
    <3>1. Count \in Nat
      BY IdsAreInstances
    <3>2. Recursions(S, base, step, Count) # {}
      BY <1>1, <1>2, <3>1, RecursionExists
    <3> QED
      BY <3>2
<1>4. f \in [0..Count -> S] /\ f[0] = base /\ \A n \in 1..Count : f[n] = step[<<n, f[n - 1]>>]
  <2> HIDE DEF S, base, step
  <2> QED
    BY <1>3 DEF Recursions
<1>5. \A n \in 1..Count : f[n] = [f[n - 1] EXCEPT ![Repo[Ids[n]]] = Append(@, Ids[n])]
  <2> SUFFICES ASSUME NEW n \in 1..Count
               PROVE  f[n] = [f[n - 1] EXCEPT ![Repo[Ids[n]]] = Append(@, Ids[n])]
    OBVIOUS
  <2>1. n \in Nat /\ f[n - 1] \in S
    <3> HIDE DEF S, base, step
    <3>1. n \in Nat /\ n - 1 \in 0..Count
      BY IdsAreInstances
    <3> QED
      BY <1>4, <3>1
  <2>2. step[<<n, f[n - 1]>>] = [f[n - 1] EXCEPT ![Repo[Ids[n]]] = Append(@, Ids[n])]
    <3> HIDE DEF S
    <3>1. <<n, f[n - 1]>> \in Nat \X S
      BY <2>1
    <3> QED
      BY <3>1
  <2> QED
    BY <1>4, <2>2
<1>6. f = [n \in 0..Count |->
              IF n = 0 THEN base
              ELSE [f[n - 1] EXCEPT ![Repo[Ids[n]]] = Append(@, Ids[n])]]
  <2> HIDE DEF S, base, step
  <2>1. \A n \in 0..Count : n # 0 => n \in 1..Count
    BY IdsAreInstances
  <2> QED
    BY <1>4, <1>5, <2>1
<1> HIDE DEF step
<1> QED
  BY <1>6, Zenon DEF Groups, Count

LEMMA GroupRange ==
    ASSUME NEW r \in Repos
    PROVE  Group(r) \in Seq(Instances) /\ Range(Group(r)) = {i \in Instances : Repo[i] = r}
<1> DEFINE G == {n \in Nat : /\ Groups[n] \in [Repos -> Seq(Instances)]
                             /\ Range(Groups[n][r]) = {Ids[m] : m \in {k \in 1..n : Repo[Ids[k]] = r}}}
<1>1. 0 \in G
  <2>1. Groups[0] = [q \in Repos |-> << >>]
    <3>1. 0 \in 0..Count
      BY IdsAreInstances
    <3> QED
      BY <3>1, GroupsEquation
  <2>2. Range(<< >>) = {}
    BY DEF Range
  <2>3. Groups[0] \in [Repos -> Seq(Instances)] /\ Groups[0][r] = << >>
    BY <2>1
  <2> QED
    BY <2>2, <2>3
<1>2. ASSUME NEW n \in 0..(Count - 1), n \in G PROVE n + 1 \in G
  <2> DEFINE g  == Groups[n]
             id == Ids[n + 1]
  <2>1. /\ n + 1 \in 1..Count /\ n + 1 \in 0..Count /\ n + 1 # 0 /\ (n + 1) - 1 = n /\ n \in Nat
        /\ id \in Instances /\ Repo[id] \in Repos
    <3>1. Count \in Nat
      BY IdsAreInstances
    <3>2. n + 1 \in 1..Count /\ n \in Nat
      BY <3>1
    <3> QED
      BY <3>1, <3>2, IdsAreInstances
  <2>2. Groups[n + 1] = [g EXCEPT ![Repo[id]] = Append(g[Repo[id]], id)]
    BY <2>1, GroupsEquation
  <2>3. g \in [Repos -> Seq(Instances)]
        /\ Range(g[r]) = {Ids[m] : m \in {k \in 1..n : Repo[Ids[k]] = r}}
    BY <1>2
  <2>4. \A k \in 1..(n + 1) : k \in 1..n \/ k = n + 1
    BY <2>1
  <2>5. 1..n \subseteq 1..(n + 1) /\ n + 1 \in 1..(n + 1)
    BY <2>1
  <2>6. g[Repo[id]] \in Seq(Instances)
    BY <2>1, <2>3
  <2>7. /\ Append(g[Repo[id]], id) \in Seq(Instances)
        /\ Range(Append(g[Repo[id]], id)) = Range(g[Repo[id]]) \cup {id}
    BY <2>1, <2>6, AppendRange
  <2> DEFINE Of(k) == {Ids[m] : m \in {j \in 1..k : Repo[Ids[j]] = r}}
  <2>8. Of(n + 1) = IF Repo[id] = r THEN Of(n) \cup {id} ELSE Of(n)
    <3> DEFINE M(k) == {j \in 1..k : Repo[Ids[j]] = r}
    <3>1. M(n + 1) = IF Repo[id] = r THEN M(n) \cup {n + 1} ELSE M(n)
      BY <2>4, <2>5
    <3> HIDE DEF M
    <3>2. {Ids[m] : m \in M(n) \cup {n + 1}} = {Ids[m] : m \in M(n)} \cup {id}
      OBVIOUS
    <3>3. {Ids[m] : m \in M(n + 1)} =
            IF Repo[id] = r THEN {Ids[m] : m \in M(n)} \cup {id} ELSE {Ids[m] : m \in M(n)}
      BY <3>1, <3>2
    <3> QED
      BY <3>3 DEF M
  <2> HIDE DEF g, id
  <2>9. Groups[n + 1] \in [Repos -> Seq(Instances)]
    BY <2>1, <2>2, <2>3, <2>7
  <2>10. Range(Groups[n + 1][r]) = Of(n + 1)
    <3> HIDE DEF Of
    <3>1. CASE Repo[id] = r
      <4>1. Groups[n + 1][r] = Append(g[Repo[id]], id)
        BY <2>2, <2>3, <3>1
      <4> QED
        BY <2>3, <2>7, <2>8, <3>1, <4>1 DEF Of
    <3>2. CASE Repo[id] # r
      <4>1. Groups[n + 1][r] = g[r]
        BY <2>1, <2>2, <2>3, <3>2
      <4> QED
        BY <2>3, <2>8, <3>2, <4>1 DEF Of
    <3> QED
      BY <3>1, <3>2
  <2> QED
    BY <2>1, <2>9, <2>10
<1> HIDE DEF G
<1>3. Count \in G
  <2>1. Count \in Nat /\ Count \in 0..Count
    BY IdsAreInstances
  <2>2. \A n \in 0..Count : n \in G
    BY <1>1, <1>2, <2>1, InductionUpTo
  <2> QED
    BY <2>1, <2>2
<1>4. /\ Groups[Count] \in [Repos -> Seq(Instances)]
      /\ Range(Groups[Count][r]) = {Ids[m] : m \in {k \in 1..Count : Repo[Ids[k]] = r}}
  BY <1>3 DEF G
<1>5. {Ids[m] : m \in {k \in 1..Count : Repo[Ids[k]] = r}} = {i \in Instances : Repo[i] = r}
  BY IdsAreInstances
<1> QED
  BY <1>4, <1>5 DEF Group, Count

\* The first instance of a repository tells it from the others.
LEMMA FirstIsOfRepo ==
    ASSUME NEW r \in Repos
    PROVE  FirstOf(r) \in Nat /\ Repo[Ids[FirstOf(r)]] = r
<1> DEFINE T == {n \in 1..Count : Repo[Ids[n]] = r}
<1>1. T \in SUBSET Nat /\ T # {}
  BY IdsAreInstances
<1>2. PICK m \in T : \A k \in T : m <= k
  <2> HIDE DEF T
  <2> QED
    BY <1>1, Smallest
<1>3. \E n \in DOMAIN Ids : Repo[Ids[n]] = r /\ \A m_1 \in DOMAIN Ids : Repo[Ids[m_1]] = r => n <= m_1
  BY <1>2, IdsAreInstances
<1>4. FirstOf(r) \in DOMAIN Ids /\ Repo[Ids[FirstOf(r)]] = r
  BY <1>3 DEF FirstOf
<1> QED
  BY <1>4, IdsAreInstances

\* The order of the groups is total.
LEMMA OrderIsTotal ==
    /\ \A r \in Repos : ~ComesBefore(r, r)
    /\ \A r, s \in Repos : r # s => ComesBefore(r, s) \/ ComesBefore(s, r)
    /\ \A r, s, t \in Repos : ComesBefore(r, s) /\ ComesBefore(s, t) => ComesBefore(r, t)
<1>1. \A r \in Repos : Len(Group(r)) \in Nat /\ FirstOf(r) \in Nat
  <2> SUFFICES ASSUME NEW r \in Repos PROVE Len(Group(r)) \in Nat /\ FirstOf(r) \in Nat
    OBVIOUS
  <2>1. Group(r) \in Seq(Instances)
    BY GroupRange
  <2> QED
    BY <2>1, FirstIsOfRepo
<1>2. \A r, s \in Repos : FirstOf(r) = FirstOf(s) => r = s
  BY FirstIsOfRepo
<1> QED
  BY <1>1, <1>2 DEF ComesBefore

-----------------------------------------------------------------------------
\* How many groups come before r, and r itself.
Place(r) == 1 + Cardinality({s \in Repos : ComesBefore(s, r)})

LEMMA ReposAreFinite == IsFiniteSet(Repos) /\ Cardinality(Repos) \in Nat
<1>1. IsFiniteSet(1..Count)
  BY IdsAreInstances, FS_Interval
<1> DEFINE f == [n \in 1..Count |-> Repo[Ids[n]]]
<1>2. f \in [1..Count -> Repos] /\ \A r \in Repos : \E n \in 1..Count : f[n] = r
  BY IdsAreInstances
<1>3. f \in Surjection(1..Count, Repos)
  <2> HIDE DEF f
  <2> QED
    BY <1>2 DEF Surjection
<1>4. IsFiniteSet(Repos)
  <2> HIDE DEF f
  <2> QED
    BY <1>1, <1>3, FS_Surjection
<1> QED
  BY <1>4, FS_CardinalityType

\* A later group has a later place.
LEMMA PlaceIsMonotonic ==
    ASSUME NEW r \in Repos, NEW s \in Repos, ComesBefore(r, s)
    PROVE  Place(r) < Place(s)
<1> DEFINE A == {t \in Repos : ComesBefore(t, r)}
           B == {t \in Repos : ComesBefore(t, s)}
<1>1. A \cup {r} \subseteq B /\ r \notin A /\ A \subseteq Repos /\ B \subseteq Repos
  BY OrderIsTotal
<1>2. Place(r) = 1 + Cardinality(A) /\ Place(s) = 1 + Cardinality(B)
  BY DEF Place
<1> HIDE DEF A, B
<1>3. IsFiniteSet(A) /\ IsFiniteSet(B) /\ Cardinality(A) \in Nat /\ Cardinality(B) \in Nat
  BY <1>1, ReposAreFinite, FS_Subset, FS_CardinalityType
<1>4. Cardinality(A \cup {r}) = Cardinality(A) + 1
  BY <1>1, <1>3, FS_AddElement
<1>5. Cardinality(A \cup {r}) <= Cardinality(B)
  BY <1>1, <1>3, FS_Subset
<1> QED
  BY <1>2, <1>3, <1>4, <1>5

LEMMA PlaceIsInRange ==
    ASSUME NEW r \in Repos
    PROVE  Place(r) \in 1..Cardinality(Repos)
<1> DEFINE A == {t \in Repos : ComesBefore(t, r)}
<1>1. A \subseteq Repos /\ r \notin A /\ Place(r) = 1 + Cardinality(A)
  BY OrderIsTotal DEF Place
<1> HIDE DEF A
<1>2. IsFiniteSet(A) /\ Cardinality(A) \in Nat
  BY <1>1, ReposAreFinite, FS_Subset, FS_CardinalityType
<1>3. Cardinality(A \cup {r}) = Cardinality(A) + 1 /\ A \cup {r} \subseteq Repos
  BY <1>1, <1>2, FS_AddElement
<1>4. Cardinality(A \cup {r}) <= Cardinality(Repos)
  BY <1>3, ReposAreFinite, FS_Subset
<1> QED
  BY <1>1, <1>2, <1>3, <1>4, ReposAreFinite

LEMMA PlaceIsInjective == \A r, s \in Repos : Place(r) = Place(s) => r = s
<1> SUFFICES ASSUME NEW r \in Repos, NEW s \in Repos, Place(r) = Place(s), r # s
             PROVE  FALSE
  OBVIOUS
<1>1. Place(r) < Place(s) \/ Place(s) < Place(r)
  BY PlaceIsMonotonic, OrderIsTotal
<1>2. Place(r) \in Nat /\ Place(s) \in Nat
  BY PlaceIsInRange, ReposAreFinite
<1> QED
  BY <1>1, <1>2

\* Every place is taken, so Sorted is the group at it.
LEMMA SortedIsAtPlace ==
    ASSUME NEW n \in 1..Cardinality(Repos)
    PROVE  Sorted(n) \in Repos /\ n = Place(Sorted(n))
<1> DEFINE K == Cardinality(Repos)
           f == [r \in Repos |-> Place(r)]
<1>1. K \in Nat
  BY ReposAreFinite
<1>2. \A r \in Repos : Place(r) \in 1..K
  BY PlaceIsInRange
<1>3. \A r, s \in Repos : Place(r) = Place(s) => r = s
  BY PlaceIsInjective
<1>4. f \in [Repos -> 1..K] /\ \A r, s \in Repos : f[r] = f[s] => r = s
  BY <1>2, <1>3
<1>5. \A r \in Repos : f[r] = Place(r)
  OBVIOUS
<1> HIDE DEF f
<1>6. f \in Injection(Repos, 1..K)
  BY <1>4 DEF Injection, IsInjective
<1>7. IsFiniteSet(1..K) /\ Cardinality(1..K) = K
  <2>1. /\ 1 \in Int /\ K \in Int /\ (IF 1 > K THEN 0 ELSE K - 1 + 1) = K
    BY <1>1
  <2> HIDE DEF K
  <2>2. \A m \in Int : IsFiniteSet(1..m) /\ Cardinality(1..m) = IF 1 > m THEN 0 ELSE m - 1 + 1
    BY <2>1, FS_Interval
  <2> QED
    BY <2>1, <2>2
<1>8. f \in Surjection(Repos, 1..K)
  BY <1>6, <1>7, FS_Injection
<1>9. \E r \in Repos : n = Place(r)
  BY <1>4, <1>5, <1>8 DEF Surjection
<1> QED
  BY <1>9 DEF Sorted, Place

-----------------------------------------------------------------------------
(* The buckets.                                                            *)

Groupings == Cardinality(Repos)

LEMMA ShortestIsWorker ==
    ASSUME NEW count \in Nat \ {0}, NEW dealt \in [0..(count - 1) -> Seq(Instances)]
    PROVE  Shortest(dealt) \in 0..(count - 1)
<1> DEFINE W == 0..(count - 1)
           T == {Len(dealt[w]) : w \in W}
<1>1. DOMAIN dealt = W /\ W \subseteq Nat /\ 0 \in W /\ \A w \in W : Len(dealt[w]) \in Nat
  OBVIOUS
<1>2. T \in SUBSET Nat /\ T # {}
  <2> HIDE DEF W
  <2> QED
    BY <1>1
<1> HIDE DEF W
<1>3. PICK l \in T : \A k \in T : l <= k
  <2> HIDE DEF T
  <2> QED
    BY <1>2, Smallest
<1> DEFINE U == {w \in W : Len(dealt[w]) = l}
<1>4. U \in SUBSET Nat /\ U # {}
  BY <1>1, <1>3
<1>5. PICK w \in U : \A v \in U : w <= v
  <2> HIDE DEF U
  <2> QED
    BY <1>4, Smallest
<1>6. \A v \in W : Len(dealt[w]) < Len(dealt[v]) \/ (Len(dealt[w]) = Len(dealt[v]) /\ w <= v)
  <2> SUFFICES ASSUME NEW v \in W
               PROVE  Len(dealt[w]) < Len(dealt[v]) \/ (Len(dealt[w]) = Len(dealt[v]) /\ w <= v)
    OBVIOUS
  <2>1. /\ Len(dealt[w]) = l /\ l <= Len(dealt[v]) /\ Len(dealt[v]) \in Nat /\ l \in Nat
        /\ Len(dealt[v]) = l => w <= v
    BY <1>1, <1>2, <1>3, <1>5
  <2> QED
    BY <2>1
<1>7. w \in W
  BY <1>5
<1> QED
  BY <1>1, <1>6, <1>7 DEF Shortest, W

\* The loop over the sorted groups.
LEMMA DealEquation ==
    ASSUME NEW count \in Nat \ {0}
    PROVE  \E f :
              /\ f[0] = [w \in 0..(count - 1) |-> << >>]
              /\ \A n \in 1..Groupings :
                    f[n] = [f[n - 1] EXCEPT ![Shortest(f[n - 1])] = @ \o Group(Sorted(n))]
              /\ GroupIdsByRepo(count) = f[Groupings]
<1> DEFINE S    == [0..(count - 1) -> Seq(Instances)]
           base == [w \in 0..(count - 1) |-> << >>]
           step == [x \in Nat \X S |->
                       IF x[1] \in 1..Groupings
                       THEN [x[2] EXCEPT ![Shortest(x[2])] = @ \o Group(Sorted(x[1]))]
                       ELSE x[2]]
           P(g) == g = [n \in 0..Groupings |->
                          IF n = 0 THEN [w \in 0..(count - 1) |-> << >>]
                          ELSE [g[n - 1] EXCEPT ![Shortest(g[n - 1])] = @ \o Group(Sorted(n))]]
<1>1. base \in S
  OBVIOUS
<1>2. ASSUME NEW n \in 1..Groupings, NEW g \in S
      PROVE  [g EXCEPT ![Shortest(g)] = @ \o Group(Sorted(n))] \in S
  <2>1. Group(Sorted(n)) \in Seq(Instances)
    BY SortedIsAtPlace, GroupRange DEF Groupings
  <2>2. Shortest(g) \in 0..(count - 1)
    BY ShortestIsWorker
  <2>3. g[Shortest(g)] \o Group(Sorted(n)) \in Seq(Instances)
    BY <2>1, <2>2, ConcatRange
  <2> QED
    BY <2>2, <2>3
<1>3. step \in [Nat \X S -> S]
  <2> HIDE DEF S
  <2> QED
    BY <1>2
<1>4. PICK f \in Recursions(S, base, step, Groupings) : TRUE
  <2> HIDE DEF S, base, step
  <2>1. Groupings \in Nat
    BY ReposAreFinite DEF Groupings
  <2>2. Recursions(S, base, step, Groupings) # {}
    BY <1>1, <1>3, <2>1, RecursionExists
  <2> QED
    BY <2>2
<1>5. /\ f \in [0..Groupings -> S] /\ f[0] = base
      /\ \A n \in 1..Groupings : f[n] = step[<<n, f[n - 1]>>]
  <2> HIDE DEF S, base, step
  <2> QED
    BY <1>4 DEF Recursions
<1>6. \A n \in 1..Groupings :
         f[n] = [f[n - 1] EXCEPT ![Shortest(f[n - 1])] = @ \o Group(Sorted(n))]
  <2> SUFFICES ASSUME NEW n \in 1..Groupings
               PROVE  f[n] = [f[n - 1] EXCEPT ![Shortest(f[n - 1])] = @ \o Group(Sorted(n))]
    OBVIOUS
  <2> HIDE DEF S, base
  <2>1. n \in Nat /\ n - 1 \in 0..Groupings
    BY ReposAreFinite DEF Groupings
  <2>2. <<n, f[n - 1]>> \in Nat \X S
    BY <1>5, <2>1
  <2>3. step[<<n, f[n - 1]>>] =
            [f[n - 1] EXCEPT ![Shortest(f[n - 1])] = @ \o Group(Sorted(n))]
    BY <2>2
  <2> HIDE DEF step
  <2> QED
    BY <1>5, <2>3
<1>7. P(f)
  <2> HIDE DEF S, step
  <2>1. \A n \in 0..Groupings : n # 0 => n \in 1..Groupings
    BY ReposAreFinite DEF Groupings
  <2> QED
    BY <1>5, <1>6, <2>1
<1> DEFINE g == CHOOSE h : P(h)
<1>8. P(g) /\ GroupIdsByRepo(count) = g[Groupings]
  <2> HIDE DEF S, base, step
  <2>1. P(g)
    BY <1>7, Zenon
  <2>2. GroupIdsByRepo(count) = g[Groupings]
    BY Zenon DEF GroupIdsByRepo, Groupings
  <2> QED
    BY <2>1, <2>2
<1> HIDE DEF S, base, step, g
<1>9. g[0] = [w \in 0..(count - 1) |-> << >>]
  <2>1. 0 \in 0..Groupings
    BY ReposAreFinite DEF Groupings
  <2> QED
    BY <1>8, <2>1
<1>10. ASSUME NEW n \in 1..Groupings
       PROVE  g[n] = [g[n - 1] EXCEPT ![Shortest(g[n - 1])] = @ \o Group(Sorted(n))]
  <2>1. n \in 0..Groupings /\ n # 0
    OBVIOUS
  <2> QED
    BY <1>8, <2>1
<1> QED
  BY <1>8, <1>9, <1>10

\* What group_ids_by_repo promises of the buckets of count workers: every instance is in
\* one, and instances of one repository are never in two.
Partition(count, dealt) ==
    /\ dealt \in [0..(count - 1) -> Seq(Instances)]
    /\ \A i \in Instances : \E w \in DOMAIN dealt : i \in Range(dealt[w])
    /\ \A w, v \in DOMAIN dealt : \A i \in Range(dealt[w]), j \in Range(dealt[v]) :
          Repo[i] = Repo[j] => w = v

THEOREM BucketsAreRepoDisjoint ==
    ASSUME NEW count \in Nat \ {0}
    PROVE  Partition(count, GroupIdsByRepo(count))
<1> DEFINE W == 0..(count - 1)
           K == Groupings
<1>1. PICK f :
         /\ f[0] = [w \in W |-> << >>]
         /\ \A n \in 1..K : f[n] = [f[n - 1] EXCEPT ![Shortest(f[n - 1])] = @ \o Group(Sorted(n))]
         /\ GroupIdsByRepo(count) = f[K]
  BY DealEquation
<1>2. K \in Nat
  BY ReposAreFinite DEF Groupings
<1>3. \A n \in 1..K : Sorted(n) \in Repos
  BY SortedIsAtPlace DEF Groupings
<1>4. \A m, n \in 1..K : Sorted(m) = Sorted(n) => m = n
  BY SortedIsAtPlace DEF Groupings
<1>5. \A r \in Repos : \E n \in 1..K : Sorted(n) = r
  <2> SUFFICES ASSUME NEW r \in Repos PROVE \E n \in 1..K : Sorted(n) = r
    OBVIOUS
  <2>1. Place(r) \in 1..K
    BY PlaceIsInRange DEF Groupings
  <2>2. Place(Sorted(Place(r))) = Place(r) /\ Sorted(Place(r)) \in Repos
    BY <2>1, SortedIsAtPlace DEF Groupings
  <2> QED
    BY <2>1, <2>2, PlaceIsInjective
<1> DEFINE Typed(n)    == f[n] \in [W -> Seq(Instances)]
           Earlier(n)  == \A w \in W : \A i \in Range(f[n][w]) : \E m \in 1..n : Repo[i] = Sorted(m)
           Complete(n) == \A m \in 1..n : \A i \in Instances :
                              Repo[i] = Sorted(m) => \E w \in W : i \in Range(f[n][w])
           Apart(n)    == \A w, v \in W : \A i \in Range(f[n][w]), j \in Range(f[n][v]) :
                              Repo[i] = Repo[j] => w = v
           G == {n \in Nat : Typed(n) /\ Earlier(n) /\ Complete(n) /\ Apart(n)}
<1>6. 0 \in G
  <2>1. \A w \in W : f[0][w] = << >>
    BY <1>1
  <2>2. Typed(0) /\ Range(<< >>) = {}
    BY <1>1 DEF Range
  <2> QED
    BY <2>1, <2>2
<1>7. ASSUME NEW n \in 0..(K - 1), n \in G PROVE n + 1 \in G
  <2> DEFINE d == f[n]
             s == Shortest(d)
             r == Sorted(n + 1)
  <2>1. n \in Nat /\ n + 1 \in 1..K /\ (n + 1) - 1 = n
    BY <1>2
  <2>2. f[n + 1] = [d EXCEPT ![s] = d[s] \o Group(r)]
    BY <1>1, <2>1
  <2>3. d \in [W -> Seq(Instances)] /\ Earlier(n) /\ Complete(n) /\ Apart(n)
    BY <1>7
  <2>4. s \in W
    BY <2>3, ShortestIsWorker
  <2>5. r \in Repos /\ \A m \in 1..n : Sorted(m) # r
    <3>1. \A m \in 1..n : m \in 1..K /\ m # n + 1
      BY <1>2, <2>1
    <3> QED
      BY <1>3, <1>4, <2>1, <3>1
  <2>6. Group(r) \in Seq(Instances) /\ Range(Group(r)) = {i \in Instances : Repo[i] = r}
    BY <2>5, GroupRange
  <2> HIDE DEF d, s, r, W
  <2>7. /\ d[s] \o Group(r) \in Seq(Instances)
        /\ Range(d[s] \o Group(r)) = Range(d[s]) \cup Range(Group(r))
    BY <2>3, <2>4, <2>6, ConcatRange
  <2>8. /\ f[n + 1] \in [W -> Seq(Instances)]
        /\ f[n + 1][s] = d[s] \o Group(r)
        /\ \A w \in W \ {s} : f[n + 1][w] = d[w]
    BY <2>2, <2>3, <2>4, <2>7
  <2>9. \A w \in W : Range(f[n + 1][w]) =
                        IF w = s THEN Range(d[w]) \cup {i \in Instances : Repo[i] = r}
                        ELSE Range(d[w])
    BY <2>6, <2>7, <2>8
  <2>10. \A m \in 1..(n + 1) : m \in 1..n \/ m = n + 1
    BY <2>1
  <2>11. 1..n \subseteq 1..(n + 1) /\ n + 1 \in 1..(n + 1)
    BY <2>1
  <2>12. \A w \in W : \A i \in Range(d[w]) : Repo[i] # r
    BY <2>3, <2>5 DEF d
  <2>13. Earlier(n + 1)
    <3> SUFFICES ASSUME NEW w \in W, NEW i \in Range(f[n + 1][w])
                 PROVE  \E m \in 1..(n + 1) : Repo[i] = Sorted(m)
      OBVIOUS
    <3>1. CASE i \in Range(d[w])
      BY <2>3, <2>11, <3>1 DEF d
    <3>2. CASE Repo[i] = r
      BY <2>11, <3>2 DEF r
    <3> QED
      BY <2>9, <3>1, <3>2
  <2>14. Complete(n + 1)
    <3> SUFFICES ASSUME NEW m \in 1..(n + 1), NEW i \in Instances, Repo[i] = Sorted(m)
                 PROVE  \E w \in W : i \in Range(f[n + 1][w])
      OBVIOUS
    <3>1. CASE m \in 1..n
      <4>1. PICK w \in W : i \in Range(d[w])
        BY <2>3, <3>1 DEF d
      <4> QED
        BY <2>9, <4>1
    <3>2. CASE m = n + 1
      BY <2>4, <2>9, <3>2 DEF r
    <3> QED
      BY <2>10, <3>1, <3>2
  <2>15. Apart(n + 1)
    <3> SUFFICES ASSUME NEW w \in W, NEW v \in W, NEW i \in Range(f[n + 1][w]),
                        NEW j \in Range(f[n + 1][v]), Repo[i] = Repo[j]
                 PROVE  w = v
      OBVIOUS
    <3>1. CASE i \in Range(d[w]) /\ j \in Range(d[v])
      BY <2>3, <3>1 DEF d
    <3>2. CASE i \notin Range(d[w]) \/ j \notin Range(d[v])
      BY <2>9, <2>12, <3>2
    <3> QED
      BY <3>1, <3>2
  <2>16. n + 1 \in Nat /\ Typed(n + 1)
    BY <2>1, <2>8
  <2> QED
    BY <2>13, <2>14, <2>15, <2>16
<1>8. K \in G
  <2> HIDE DEF G
  <2>1. \A n \in 0..K : n \in G
    BY <1>2, <1>6, <1>7, InductionUpTo
  <2> QED
    BY <1>2, <2>1
<1>9. Typed(K) /\ Complete(K) /\ Apart(K)
  BY <1>8
<1>10. \A i \in Instances : \E n \in 1..K : Sorted(n) = Repo[i]
  BY <1>5, IdsAreInstances
<1>11. DOMAIN f[K] = W
  BY <1>9
<1>12. \A i \in Instances : \E w \in W : i \in Range(f[K][w])
  BY <1>9, <1>10
<1> QED
  <2> HIDE DEF K
  <2>1. f[K] \in [W -> Seq(Instances)]
    BY <1>9
  <2>2. \A w, v \in W : \A i \in Range(f[K][w]), j \in Range(f[K][v]) : Repo[i] = Repo[j] => w = v
    BY <1>9
  <2> QED
    BY <1>1, <1>11, <1>12, <2>1, <2>2 DEF Partition

-----------------------------------------------------------------------------
(* Types.                                                                  *)

Trees == [commit : Instances \cup {NoId}, patch : Instances \cup {NoId},
          tests : SUBSET Instances, created : SUBSET Instances]

\* Where a worker has an instance.
Evaluating == Trying \cup {"finally", "record", "dump"}

\* The buckets are those of some number of workers, and a worker is at an instance of its
\* own bucket.
DealInv ==
    /\ \E count \in WorkerCounts : Partition(count, buckets)
    /\ \A w \in WorkerIds : pc[w] # "idle" => w \in Workers
    /\ \A w \in WorkerIds : pc[w] \in Evaluating => at[w] \in Range(buckets[w])

LEMMA DealIsInstances ==
    ASSUME NEW count \in WorkerCounts, NEW dealt, Partition(count, dealt)
    PROVE  /\ DOMAIN dealt \subseteq WorkerIds
           /\ \A w \in DOMAIN dealt : dealt[w] \in Seq(Instances) /\ Range(dealt[w]) \subseteq Instances
<1>1. dealt \in [0..(count - 1) -> Seq(Instances)]
  BY DEF Partition
<1>2. 0..(count - 1) \subseteq WorkerIds
  BY DEF WorkerIds
<1>3. \A s \in Seq(Instances) : Range(s) \subseteq Instances
  BY DEF Range
<1> QED
  BY <1>1, <1>2, <1>3

LEMMA AtIsInstance ==
    ASSUME DealInv, NEW w \in WorkerIds, pc[w] \in Evaluating
    PROVE  at[w] \in Instances /\ w \in DOMAIN buckets
<1>1. w \in DOMAIN buckets /\ at[w] \in Range(buckets[w])
  BY DEF DealInv, Workers, Evaluating, Trying, Resetting
<1> QED
  BY <1>1, DealIsInstances DEF DealInv

LEMMA DirIsDir ==
    ASSUME TypeOK, NEW i \in Instances
    PROVE  Dir(i) \in Dirs /\ Env[i] \in Range(Env)
BY IdsAreInstances, RepoAssumption DEF Dir, Dirs, Range

LEMMA TreeTypes ==
    ASSUME TypeOK, NEW t \in Trees, NEW i \in Instances
    PROVE  /\ HardReset(t, i) \in Trees /\ ResetTo(t, i) \in Trees /\ Patched(t, i) \in Trees
           /\ [t EXCEPT !.tests = @ \cup {i}] \in Trees
BY DEF Trees, HardReset, ResetTo, Patched

LEMMA OutcomeTypes ==
    ASSUME NEW b \in RunStatuses \cup {"NONE"}, NEW f \in RunStatuses \cup {"NONE"},
           NEW s \in {"MISSING_GENERATED_TEST", "BUGGY_SETUP_ERROR", "PATCH_APPLY_ERROR",
                      "FIXED_SETUP_ERROR", "ERROR", Judged(b, f)}
    PROVE  Outcome(s, b, f) \in Results /\ NoResult \in Results
BY DEF Outcome, NoResult, Results, Judged

LEMMA NothingType == Nothing \in [Instances -> Results]
BY DEF Nothing, NoResult, Outcome, Results

\* What a step of evaluate_one does to the state.
EvaluationShape(w) ==
    /\ UNCHANGED <<process, at, results, file, merged>>
    /\ main = "running" /\ pc[w] \in Trying \cup {"finally"}
    /\ \E to \in Trying \cup {"finally", "record"} : pc' = [pc EXCEPT ![w] = to]
    /\ buggy' = buggy \/ \E s \in RunStatuses : buggy' = [buggy EXCEPT ![w] = s]
    /\ result' = result \/ \E r \in Results : result' = [result EXCEPT ![w] = r]
    /\ tree' = tree \/ \E t \in Trees : tree' = [tree EXCEPT ![Here(w)] = t]
    /\ installed' = installed \/ installed' = [installed EXCEPT ![Env[at[w]]] = Here(w)]

LEMMA EvaluationHasShape ==
    ASSUME TypeOK, DealInv, NEW w \in WorkerIds, Evaluation(w)
    PROVE  EvaluationShape(w)
<1> USE DEF Goes, Trying, Resetting, disk
<1>1. pc[w] \in Evaluating
  BY DEF Evaluation, Evaluating, Reset, WriteTest, SetupBuggy, SetupBuggyFails, RunBuggy,
         PrePatchReset, ApplyPatch, ApplyFailsOnce, RetryReset, ApplyFails, WriteFixedTest,
         SetupFixed, SetupFixedFails, RunFixed, EvaluationRaises, Finally
<1>2. /\ at[w] \in Instances /\ Here(w) \in Dirs /\ tree[Here(w)] \in Trees
      /\ buggy[w] \in RunStatuses \cup {"NONE"}
  BY <1>1, AtIsInstance, DirIsDir DEF Here, TypeOK, Trees
<1> DEFINE t == tree[Here(w)]
<1>3. /\ HardReset(t, at[w]) \in Trees /\ ResetTo(t, at[w]) \in Trees
      /\ Patched(t, at[w]) \in Trees /\ [t EXCEPT !.tests = @ \cup {at[w]}] \in Trees
  BY <1>2, TreeTypes
<1>4. CASE Reset(w) \/ PrePatchReset(w) \/ RetryReset(w)
  BY <1>3, <1>4 DEF Reset, PrePatchReset, RetryReset, SetTree, EvaluationShape
<1>5. CASE WriteTest(w) \/ WriteFixedTest(w)
  BY <1>3, <1>5 DEF WriteTest, WriteFixedTest, SetTree, EvaluationShape
<1>6. CASE SetupBuggy(w) \/ SetupFixed(w)
  BY <1>6 DEF SetupBuggy, SetupFixed, Install, EvaluationShape
<1>7. CASE SetupBuggyFails(w)
  <2>1. Outcome("BUGGY_SETUP_ERROR", "NONE", "NONE") \in Results
    BY OutcomeTypes
  <2> QED
    BY <1>7, <2>1 DEF SetupBuggyFails, Install, EvaluationShape
<1>8. CASE SetupFixedFails(w)
  <2>1. Outcome("FIXED_SETUP_ERROR", buggy[w], "NONE") \in Results
    BY <1>2, OutcomeTypes
  <2> QED
    BY <1>8, <2>1 DEF SetupFixedFails, Install, EvaluationShape
<1>9. CASE RunBuggy(w)
  BY <1>9 DEF RunBuggy, EvaluationShape
<1>10. CASE ApplyPatch(w)
  BY <1>3, <1>10 DEF ApplyPatch, SetTree, EvaluationShape
<1>11. CASE ApplyFailsOnce(w)
  BY <1>11 DEF ApplyFailsOnce, EvaluationShape
<1>12. CASE ApplyFails(w)
  <2>1. Outcome("PATCH_APPLY_ERROR", buggy[w], "NONE") \in Results
    BY <1>2, OutcomeTypes
  <2> QED
    BY <1>12, <2>1 DEF ApplyFails, EvaluationShape
<1>13. CASE RunFixed(w)
  <2>1. \A s \in RunStatuses : Outcome(Judged(buggy[w], s), buggy[w], s) \in Results
    BY <1>2, OutcomeTypes
  <2> QED
    BY <1>13, <2>1 DEF RunFixed, EvaluationShape
<1>14. CASE EvaluationRaises(w)
  <2>1. Outcome("ERROR", buggy[w], "NONE") \in Results
    BY <1>2, OutcomeTypes
  <2> QED
    BY <1>3, <1>14, <2>1 DEF EvaluationRaises, SetTree, EvaluationShape
<1>15. CASE Finally(w)
  BY <1>3, <1>15 DEF Finally, SetTree, EvaluationShape
<1> QED
  BY <1>4, <1>5, <1>6, <1>7, <1>8, <1>9, <1>10, <1>11, <1>12, <1>13, <1>14, <1>15 DEF Evaluation

LEMMA InitTypes == Init => TypeOK /\ DealInv
<1> SUFFICES ASSUME Init PROVE TypeOK /\ DealInv
  OBVIOUS
<1>1. PICK count \in WorkerCounts : Partition(count, buckets)
  BY BucketsAreRepoDisjoint, CountsAssumption DEF Init
<1>2. DOMAIN buckets \subseteq WorkerIds /\ \A w \in DOMAIN buckets : buckets[w] \in Seq(Instances)
  BY <1>1, DealIsInstances
<1>3. /\ pc \in [WorkerIds -> {"load", "idle"}]
      /\ \A w \in WorkerIds : pc[w] # "idle" => w \in Workers
  BY DEF Init, Start, Workers
<1>4. /\ at \in [WorkerIds -> Instances \cup {NoId}]
      /\ buggy \in [WorkerIds -> RunStatuses \cup {"NONE"}]
      /\ result \in [WorkerIds -> Results] /\ results \in [WorkerIds -> [Instances -> Results]]
  BY OutcomeTypes, NothingType DEF Init, Each
<1>5. /\ file \in [WorkerIds -> [state : {"absent", "truncated", "saved"},
                                 results : [Instances -> Results]]]
      /\ merged \in [Instances -> Results]
  BY NothingType DEF Init, Each, NoFile
<1>6. /\ tree \in [Dirs -> Trees] /\ installed \in [Range(Env) -> Dirs \cup {NoId}]
  BY DEF Init, NoTree, Trees
<1>7. /\ main = "running" /\ resume \in BOOLEAN /\ worktrees \in BOOLEAN /\ runs \in Nat
  BY SetsAssumption DEF Init
<1>8. pc \in [WorkerIds -> Places] /\ \A w \in WorkerIds : pc[w] \notin Evaluating
  BY <1>3 DEF Places, Evaluating, Trying, Resetting
<1>9. TypeOK
  BY <1>2, <1>4, <1>5, <1>6, <1>7, <1>8 DEF TypeOK, Trees
<1> QED
  BY <1>1, <1>3, <1>8, <1>9 DEF DealInv

LEMMA EvaluationTypes ==
    ASSUME TypeOK, DealInv, NEW w \in WorkerIds, Evaluation(w)
    PROVE  TypeOK' /\ DealInv'
<1>1. EvaluationShape(w)
  BY EvaluationHasShape
<1>2. UNCHANGED <<main, resume, worktrees, buckets, runs, at, results, file, merged>>
  BY <1>1 DEF EvaluationShape, process
<1>3. PICK to \in Trying \cup {"finally", "record"} : pc' = [pc EXCEPT ![w] = to]
  BY <1>1 DEF EvaluationShape
<1>4. pc[w] \in Evaluating /\ to \in Evaluating /\ pc[w] # "idle" /\ to \in Places
  BY <1>1 DEF EvaluationShape, Evaluating, Trying, Resetting, Places
<1>5. at[w] \in Instances /\ Here(w) \in Dirs /\ Env[at[w]] \in Range(Env)
  BY <1>4, AtIsInstance, DirIsDir DEF Here
<1>6. pc' \in [WorkerIds -> Places]
  BY <1>3, <1>4 DEF TypeOK
<1>7. buggy' \in [WorkerIds -> RunStatuses \cup {"NONE"}] /\ result' \in [WorkerIds -> Results]
  <2>1. /\ buggy' = buggy \/ \E s \in RunStatuses : buggy' = [buggy EXCEPT ![w] = s]
        /\ result' = result \/ \E r \in Results : result' = [result EXCEPT ![w] = r]
    BY <1>1 DEF EvaluationShape
  <2>2. buggy \in [WorkerIds -> RunStatuses \cup {"NONE"}] /\ result \in [WorkerIds -> Results]
    BY DEF TypeOK
  <2> QED
    BY <2>1, <2>2
<1>8. tree' \in [Dirs -> Trees]
  BY <1>1, <1>5 DEF EvaluationShape, TypeOK, Trees
<1>9. installed' \in [Range(Env) -> Dirs \cup {NoId}]
  BY <1>1, <1>5 DEF EvaluationShape, TypeOK
<1>10. TypeOK'
  BY <1>2, <1>6, <1>7, <1>8, <1>9 DEF TypeOK, Trees
<1>11. DealInv'
  <2>1. pc \in [WorkerIds -> Places]
    BY DEF TypeOK
  <2>2. \A v \in WorkerIds : pc'[v] # "idle" => v \in Workers
    BY <1>3, <1>4, <2>1 DEF DealInv
  <2>3. \A v \in WorkerIds : pc'[v] \in Evaluating => at[v] \in Range(buckets[v])
    BY <1>3, <1>4, <2>1 DEF DealInv
  <2> QED
    BY <1>2, <2>2, <2>3 DEF DealInv, Partition, Workers
<1> QED
  BY <1>10, <1>11

\* What a step of run_bucket does to the state.
BucketShape(w) ==
    /\ UNCHANGED <<process, tree, installed, merged>>
    /\ main = "running" /\ pc[w] \in {"load", "next", "record", "dump"}
    /\ \E to \in {"next", "raised", "reset", "record", "ended", "dump"} :
          /\ pc' = [pc EXCEPT ![w] = to]
          /\ to \in Evaluating => at'[w] \in Range(buckets[w])
    /\ at' = at \/ \E i \in Instances \cup {NoId} : at' = [at EXCEPT ![w] = i]
    /\ buggy' = buggy \/ buggy' = [buggy EXCEPT ![w] = "NONE"]
    /\ result' = result \/ \E r \in Results : result' = [result EXCEPT ![w] = r]
    /\ results' = results \/ \E f \in [Instances -> Results] : results' = [results EXCEPT ![w] = f]
    /\ \/ file' = file
       \/ \E s \in {"truncated", "saved"}, f \in [Instances -> Results] :
             file' = [file EXCEPT ![w] = [state |-> s, results |-> f]]

LEMMA BucketHasShape ==
    ASSUME TypeOK, DealInv, NEW w \in WorkerIds, Bucket(w)
    PROVE  BucketShape(w)
<1> USE DEF Goes, disk, Evaluating
<1>1. /\ at[w] \in Instances \cup {NoId} /\ result[w] \in Results
      /\ results[w] \in [Instances -> Results] /\ file[w].results \in [Instances -> Results]
      /\ Nothing \in [Instances -> Results] /\ NoResult \in Results
  BY OutcomeTypes, NothingType DEF TypeOK
<1>2. /\ "next" \notin Evaluating /\ "raised" \notin Evaluating /\ "ended" \notin Evaluating
  BY DEF Trying, Resetting
<1>3. ASSUME NEW i \in Instances, IsNext(w, i) PROVE i \in Range(buckets[w])
  BY <1>3 DEF IsNext, Range
<1>4. CASE Load(w)
  BY <1>1, <1>2, <1>4 DEF Load, BucketShape
<1>5. CASE LoadRaises(w)
  BY <1>2, <1>5 DEF LoadRaises, BucketShape
<1>6. CASE Begin(w)
  <2>1. PICK i \in Instances \cap Generated :
           /\ IsNext(w, i) /\ Goes(w, "next", "reset") /\ at' = [at EXCEPT ![w] = i]
           /\ UNCHANGED <<process, buggy, result, results, disk>>
    BY <1>6 DEF Begin
  <2>2. at'[w] = i
    BY <2>1 DEF TypeOK
  <2> QED
    BY <1>3, <2>1, <2>2 DEF BucketShape
<1>7. CASE BeginMissing(w)
  <2>1. PICK i \in Instances \ Generated :
           /\ IsNext(w, i) /\ Goes(w, "next", "record") /\ at' = [at EXCEPT ![w] = i]
           /\ result' = [result EXCEPT ![w] = Outcome("MISSING_GENERATED_TEST", "NONE", "NONE")]
           /\ UNCHANGED <<process, buggy, results, disk>>
    BY <1>7 DEF BeginMissing
  <2>2. at'[w] = i
    BY <2>1 DEF TypeOK
  <2>3. Outcome("MISSING_GENERATED_TEST", "NONE", "NONE") \in Results
    BY OutcomeTypes
  <2> QED
    BY <1>3, <2>1, <2>2, <2>3 DEF BucketShape
<1>8. CASE BeginRaises(w)
  BY <1>2, <1>8 DEF BeginRaises, BucketShape
<1>9. CASE EndBucket(w)
  BY <1>2, <1>9 DEF EndBucket, BucketShape
<1>10. CASE OpenResults(w)
  <2>1. at[w] \in Range(buckets[w]) /\ at[w] \in Instances
    BY <1>10, AtIsInstance DEF OpenResults, DealInv
  <2>2. [results[w] EXCEPT ![at[w]] = result[w]] \in [Instances -> Results]
    BY <1>1
  <2>3. results' = [results EXCEPT ![w] = [results[w] EXCEPT ![at[w]] = result[w]]]
    BY <1>10 DEF OpenResults
  <2>4. /\ UNCHANGED <<process, at, buggy, result, tree, installed, merged>>
        /\ Goes(w, "record", "dump")
        /\ file' = [file EXCEPT ![w] = [state |-> "truncated", results |-> Nothing]]
    BY <1>10 DEF OpenResults
  <2> QED
    BY <1>1, <2>1, <2>2, <2>3, <2>4 DEF BucketShape
<1>11. CASE SaveResults(w)
  BY <1>1, <1>2, <1>11 DEF SaveResults, BucketShape
<1> QED
  BY <1>4, <1>5, <1>6, <1>7, <1>8, <1>9, <1>10, <1>11 DEF Bucket

LEMMA BucketTypes ==
    ASSUME TypeOK, DealInv, NEW w \in WorkerIds, Bucket(w)
    PROVE  TypeOK' /\ DealInv'
<1>1. BucketShape(w)
  BY BucketHasShape
<1>2. UNCHANGED <<main, resume, worktrees, buckets, runs, tree, installed, merged>>
  BY <1>1 DEF BucketShape, process
<1>3. PICK to \in {"next", "raised", "reset", "record", "ended", "dump"} :
         /\ pc' = [pc EXCEPT ![w] = to]
         /\ to \in Evaluating => at'[w] \in Range(buckets[w])
  BY <1>1 DEF BucketShape
<1>4. pc[w] # "idle" /\ to \in Places
  BY <1>1 DEF BucketShape, Places, Trying, Resetting
<1>5. pc' \in [WorkerIds -> Places]
  BY <1>3, <1>4 DEF TypeOK
<1>6. /\ at' \in [WorkerIds -> Instances \cup {NoId}]
      /\ \A v \in WorkerIds \ {w} : at'[v] = at[v] /\ pc'[v] = pc[v]
  <2>1. at' = at \/ \E i \in Instances \cup {NoId} : at' = [at EXCEPT ![w] = i]
    BY <1>1 DEF BucketShape
  <2>2. at \in [WorkerIds -> Instances \cup {NoId}] /\ pc \in [WorkerIds -> Places]
    BY DEF TypeOK
  <2> QED
    BY <1>3, <2>1, <2>2
<1>7. buggy' \in [WorkerIds -> RunStatuses \cup {"NONE"}] /\ result' \in [WorkerIds -> Results]
  <2>1. /\ buggy' = buggy \/ buggy' = [buggy EXCEPT ![w] = "NONE"]
        /\ result' = result \/ \E r \in Results : result' = [result EXCEPT ![w] = r]
    BY <1>1 DEF BucketShape
  <2>2. buggy \in [WorkerIds -> RunStatuses \cup {"NONE"}] /\ result \in [WorkerIds -> Results]
    BY DEF TypeOK
  <2> QED
    BY <2>1, <2>2
<1>8. results' \in [WorkerIds -> [Instances -> Results]]
  BY <1>1 DEF BucketShape, TypeOK
<1>9. file' \in [WorkerIds -> [state : {"absent", "truncated", "saved"},
                               results : [Instances -> Results]]]
  <2> DEFINE Files == [state : {"absent", "truncated", "saved"}, results : [Instances -> Results]]
  <2>1. file' = file \/ \E f \in Files : file' = [file EXCEPT ![w] = f]
    BY <1>1 DEF BucketShape
  <2>2. file \in [WorkerIds -> Files]
    BY DEF TypeOK
  <2> HIDE DEF Files
  <2>3. file' \in [WorkerIds -> Files]
    BY <2>1, <2>2
  <2> QED
    BY <2>3 DEF Files
<1>10. TypeOK'
  BY <1>2, <1>5, <1>6, <1>7, <1>8, <1>9 DEF TypeOK
<1>11. DealInv'
  <2>1. \A v \in WorkerIds : pc'[v] # "idle" => v \in Workers
    BY <1>3, <1>4, <1>6 DEF DealInv
  <2>2. \A v \in WorkerIds : pc'[v] \in Evaluating => at'[v] \in Range(buckets[v])
    <3>1. pc'[w] = to
      BY <1>3 DEF TypeOK
    <3> QED
      BY <1>3, <1>6, <3>1 DEF DealInv
  <2> QED
    BY <1>2, <2>1, <2>2 DEF DealInv, Partition, Workers
<1> QED
  BY <1>10, <1>11

LEMMA Largest ==
    ASSUME NEW n \in Nat, NEW T \in SUBSET (1..n), T # {}
    PROVE  \E m \in T : \A k \in T : k <= m
<1> DEFINE U == {n - k : k \in T}
<1>1. U \in SUBSET Nat /\ U # {}
  <2>1. \A k \in T : n - k \in Nat
    OBVIOUS
  <2> QED
    BY <2>1
<1>2. PICK u \in U : \A v \in U : u <= v
  <2> HIDE DEF U
  <2> QED
    BY <1>1, Smallest
<1>3. PICK m \in T : u = n - m
  BY <1>2
<1>4. ASSUME NEW k \in T PROVE k <= m
  <2>1. n - k \in U /\ m \in 1..n /\ k \in 1..n
    BY <1>3
  <2>2. n - m <= n - k
    <3> HIDE DEF U
    <3> QED
      BY <1>2, <1>3, <2>1
  <2> QED
    BY <2>1, <2>2
<1> QED
  BY <1>4

\* The worker whose file decides about an instance in the order in which workers ended.
LEMMA MergedIsFromWorker ==
    ASSUME TypeOK, DealInv, NEW order \in Bijection(1..Cardinality(Workers), Workers),
           NEW i \in Instances
    PROVE  \/ MergedBy(order)[i] = NoResult /\ \A w \in Workers : file[w].results[i] = NoResult
           \/ \E w \in Workers : /\ file[w].results[i] # NoResult
                                 /\ MergedBy(order)[i] = file[w].results[i]
<1> DEFINE n == Cardinality(Workers)
           having == {k \in DOMAIN order : file[order[k]].results[i] # NoResult}
<1>1. n \in Nat
  <2>1. PICK count \in WorkerCounts : Partition(count, buckets)
    BY DEF DealInv
  <2>2. Workers \subseteq 0..(count - 1) /\ count \in Int /\ count - 1 \in Int
    BY <2>1, CountsAssumption DEF Partition, Workers
  <2>3. IsFiniteSet(0..(count - 1))
    BY <2>2, FS_Interval
  <2> QED
    BY <2>2, <2>3, FS_Subset, FS_CardinalityType
<1>2. /\ order \in [1..n -> Workers] /\ DOMAIN order = 1..n
      /\ \A w \in Workers : \E k \in 1..n : order[k] = w
  BY DEF Bijection, Injection, Surjection
<1>3. MergedBy(order)[i] =
         IF having = {} THEN NoResult
         ELSE file[order[CHOOSE k \in having : \A l \in having : l <= k]].results[i]
  BY DEF MergedBy
<1>4. having \in SUBSET (1..n) /\ \A k \in having : file[order[k]].results[i] # NoResult
  BY <1>2
<1>5. CASE having = {}
  BY <1>2, <1>3, <1>5
<1>6. CASE having # {}
  <2> HIDE DEF having
  <2>1. \E k \in having : \A l \in having : l <= k
    BY <1>1, <1>4, <1>6, Largest
  <2> DEFINE k == CHOOSE k \in having : \A l \in having : l <= k
  <2>2. k \in having
    BY <2>1
  <2>3. MergedBy(order)[i] = file[order[k]].results[i]
    BY <1>3, <1>6
  <2> HIDE DEF k
  <2> QED
    BY <1>2, <1>4, <2>2, <2>3
<1> QED
  BY <1>5, <1>6

LEMMA MergeTypes ==
    ASSUME TypeOK, DealInv, Merge
    PROVE  TypeOK' /\ DealInv'
<1>1. PICK order \in Bijection(1..Cardinality(Workers), Workers) : merged' = MergedBy(order)
  BY DEF Merge
<1>2. Workers \subseteq WorkerIds
  BY DEF Workers, TypeOK
<1>3. \A w \in WorkerIds, i \in Instances : file[w].results[i] \in Results
  BY DEF TypeOK
<1>4. \A i \in Instances : merged'[i] \in Results
  BY <1>1, <1>2, <1>3, MergedIsFromWorker, OutcomeTypes
<1>5. merged' \in [Instances -> Results]
  <2> DEFINE from(i) ==
                LET having == {k \in DOMAIN order : file[order[k]].results[i] # NoResult} IN
                IF having = {} THEN NoResult
                ELSE file[order[CHOOSE k \in having : \A l \in having : l <= k]].results[i]
  <2>1. merged' = [i \in Instances |-> from(i)]
    BY <1>1 DEF MergedBy
  <2> HIDE DEF from
  <2>2. \A i \in Instances : from(i) = merged'[i]
    BY <2>1
  <2> QED
    BY <1>4, <2>1, <2>2
<1>6. /\ main' = "done"
      /\ UNCHANGED <<resume, worktrees, buckets, pc, at, buggy, result, results, file, tree,
                     installed, runs>>
  BY DEF Merge, workers
<1> QED
  BY <1>5, <1>6 DEF TypeOK, DealInv, Partition, Workers

LEMMA RestartTypes ==
    ASSUME TypeOK, DealInv, Kill \/ Rerun
    PROVE  TypeOK' /\ DealInv'
<1>1. /\ at' \in [WorkerIds -> Instances \cup {NoId}]
      /\ buggy' \in [WorkerIds -> RunStatuses \cup {"NONE"}]
      /\ result' \in [WorkerIds -> Results] /\ results' \in [WorkerIds -> [Instances -> Results]]
  BY OutcomeTypes, NothingType DEF Kill, Rerun, Each
<1>2. UNCHANGED <<worktrees, file, tree, installed, merged>>
  BY DEF Kill, Rerun, disk
<1>3. main' \in {"running", "killed"} /\ resume' \in BOOLEAN /\ runs' \in Nat
  BY SetsAssumption DEF Kill, Rerun, TypeOK
<1>4. \E count \in WorkerCounts : Partition(count, buckets')
  BY BucketsAreRepoDisjoint, CountsAssumption DEF Kill, Rerun, DealInv
<1>5. DOMAIN buckets' \subseteq WorkerIds /\ \A w \in DOMAIN buckets' : buckets'[w] \in Seq(Instances)
  BY <1>4, DealIsInstances
<1>6. /\ pc' \in [WorkerIds -> {"load", "idle"}]
      /\ \A w \in WorkerIds : pc'[w] # "idle" => w \in Workers'
  BY DEF Kill, Rerun, Start, Each, Workers
<1>7. pc' \in [WorkerIds -> Places] /\ \A w \in WorkerIds : pc'[w] \notin Evaluating
  BY <1>6 DEF Places, Evaluating, Trying, Resetting
<1>8. TypeOK'
  BY <1>1, <1>2, <1>3, <1>5, <1>7 DEF TypeOK
<1> QED
  BY <1>4, <1>6, <1>7, <1>8 DEF DealInv, Partition

LEMMA StepTypes == TypeOK /\ DealInv /\ [Next]_vars => TypeOK' /\ DealInv'
<1> SUFFICES ASSUME TypeOK, DealInv, [Next]_vars PROVE TypeOK' /\ DealInv'
  OBVIOUS
<1>1. CASE \E w \in WorkerIds : Bucket(w) \/ Evaluation(w)
  BY <1>1, BucketTypes, EvaluationTypes
<1>2. CASE Merge
  BY <1>2, MergeTypes
<1>3. CASE Fail
  BY <1>3 DEF Fail, workers, disk, TypeOK, DealInv, Partition, Workers
<1>4. CASE Kill \/ Rerun
  BY <1>4, RestartTypes
<1>5. CASE UNCHANGED vars
  BY <1>5 DEF vars, workers, disk, TypeOK, DealInv, Partition, Workers
<1> QED
  BY <1>1, <1>2, <1>3, <1>4, <1>5 DEF Next, Work

\* Every variable holds a value of its kind, whatever was killed and run again.
THEOREM TypeCorrect == Spec => []TypeOK
<1>1. Spec => [](TypeOK /\ DealInv)
  BY InitTypes, StepTypes, PTL DEF Spec
<1> QED
  BY <1>1, PTL

-----------------------------------------------------------------------------
(* Executions.                                                             *)

\* At the places where the true patch is not applied, and the test is not yet written.
BareInv(w) ==
    pc[w] \in {"write", "apply", "retry_apply"} =>
        LET t == tree[Here(w)] IN
        /\ t.commit = at[w] /\ t.patch = NoId
        /\ ~worktrees => t.tests = {} /\ t.created = {}

\* The buggy side.
BuggyInv(w) ==
    pc[w] \in {"setup", "run"} =>
        LET t == tree[Here(w)] IN
        /\ t.commit = at[w] /\ t.patch = NoId /\ at[w] \in t.tests
        /\ ~worktrees => t.tests = {at[w]} /\ t.created = {}

\* The side with the true patch, before and after the test is written again.
PatchedInv(w) ==
    pc[w] \in {"write_fixed", "setup_fixed", "run_fixed"} =>
        LET t == tree[Here(w)] IN
        /\ t.commit = at[w] /\ t.patch = at[w]
        /\ pc[w] # "write_fixed" => at[w] \in t.tests
        /\ ~worktrees => t.tests \subseteq {at[w]} /\ t.created \subseteq {at[w]}

\* Once the buggy side is set up, the environment points to the worker's directory.
InstallInv(w) ==
    Setup /\ pc[w] \in {"run", "pre_patch", "apply", "retry_reset", "retry_apply",
                        "write_fixed", "setup_fixed", "run_fixed"}
        => installed[Env[at[w]]] = Here(w)

SideInv(w) == BareInv(w) /\ BuggyInv(w) /\ PatchedInv(w) /\ InstallInv(w)

ExecutionInv == \A w \in WorkerIds : SideInv(w)

\* Workers are in different directories and in different environments, because they have
\* different repositories.
LEMMA WorkersAreApart ==
    ASSUME TypeOK, DealInv, NEW w \in WorkerIds, NEW v \in WorkerIds, w # v,
           pc[w] \in Evaluating, pc[v] \in Evaluating
    PROVE  Here(w) # Here(v) /\ Env[at[w]] # Env[at[v]]
<1>1. /\ at[w] \in Instances /\ at[v] \in Instances
      /\ w \in DOMAIN buckets /\ v \in DOMAIN buckets
  BY AtIsInstance
<1>2. at[w] \in Range(buckets[w]) /\ at[v] \in Range(buckets[v])
  BY DEF DealInv
<1>3. Repo[at[w]] # Repo[at[v]]
  BY <1>1, <1>2 DEF DealInv, Partition
<1> QED
  BY <1>1, <1>3, RepoAssumption DEF Here, Dir

\* Nothing of a worker's side is disturbed by a step that leaves the worker, its directory
\* and its environment alone.
LEMMA SideIsUndisturbed ==
    ASSUME NEW w, SideInv(w), pc'[w] = pc[w], at'[w] = at[w], worktrees' = worktrees,
           pc[w] \in Evaluating => tree'[Here(w)] = tree[Here(w)]
                                   /\ installed'[Env[at[w]]] = installed[Env[at[w]]]
    PROVE  SideInv(w)'
<1>1. Here(w)' = Here(w)
  BY DEF Here, Dir
<1> QED
  BY <1>1 DEF SideInv, BareInv, BuggyInv, PatchedInv, InstallInv, Evaluating, Trying, Resetting

\* A worker that evaluates does not disturb the others.
LEMMA EvaluationSparesOthers ==
    ASSUME TypeOK, DealInv, ExecutionInv, NEW w \in WorkerIds, Evaluation(w),
           NEW v \in WorkerIds, v # w
    PROVE  SideInv(v)'
<1>1. EvaluationShape(w) /\ SideInv(v)
  BY EvaluationHasShape DEF ExecutionInv
<1>2. pc'[v] = pc[v] /\ at' = at /\ worktrees' = worktrees /\ pc[w] \in Evaluating
  BY <1>1 DEF EvaluationShape, process, TypeOK, Evaluating
<1>3. ASSUME pc[v] \in Evaluating
      PROVE  tree'[Here(v)] = tree[Here(v)] /\ installed'[Env[at[v]]] = installed[Env[at[v]]]
  <2>1. Here(v) # Here(w) /\ Env[at[v]] # Env[at[w]]
    BY <1>2, <1>3, WorkersAreApart
  <2>2. Here(v) \in Dirs /\ Env[at[v]] \in Range(Env)
    BY <1>3, AtIsInstance, DirIsDir DEF Here
  <2>3. tree' = tree \/ \E t \in Trees : tree' = [tree EXCEPT ![Here(w)] = t]
    BY <1>1 DEF EvaluationShape
  <2>4. installed' = installed \/ installed' = [installed EXCEPT ![Env[at[w]]] = Here(w)]
    BY <1>1 DEF EvaluationShape
  <2>5. DOMAIN tree = Dirs /\ DOMAIN installed = Range(Env)
    BY DEF TypeOK
  <2> QED
    BY <2>1, <2>2, <2>3, <2>4, <2>5
<1> QED
  BY <1>1, <1>2, <1>3, SideIsUndisturbed

\* A worker comes to a side only with what the side needs.
LEMMA EvaluationKeepsSide ==
    ASSUME TypeOK, DealInv, NEW w \in WorkerIds, SideInv(w), Evaluation(w)
    PROVE  SideInv(w)'
<1> DEFINE t == tree[Here(w)]
           d == Here(w)
           e == Env[at[w]]
<1>1. EvaluationShape(w)
  BY EvaluationHasShape
<1>2. /\ at' = at /\ worktrees' = worktrees /\ Here(w)' = Here(w)
      /\ pc[w] \in Evaluating
  BY <1>1 DEF EvaluationShape, process, Here, Dir, Evaluating
<1>3. at[w] \in Instances /\ d \in Dirs /\ e \in Range(Env)
  BY <1>2, AtIsInstance, DirIsDir DEF Here
<1>4. /\ DOMAIN tree = Dirs /\ DOMAIN installed = Range(Env) /\ DOMAIN pc = WorkerIds
      /\ t \in Trees /\ at[w] # NoId
  BY <1>3, IdsAssumption DEF TypeOK, Trees, Dirs
<1>5. \A x : SetTree(w, x) => tree'[d] = x
  BY <1>3, <1>4 DEF SetTree
<1>6. Install(w) => installed'[e] = d
  BY <1>3, <1>4 DEF Install
<1>7. \A place, to : Goes(w, place, to) => pc[w] = place /\ pc'[w] = to
  BY <1>4 DEF Goes
<1>8. /\ ResetTo(t, at[w]).commit = at[w] /\ ResetTo(t, at[w]).patch = NoId
      /\ ~worktrees => ResetTo(t, at[w]).tests = {} /\ ResetTo(t, at[w]).created = {}
  BY <1>4 DEF ResetTo, HardReset, Trees
<1> HIDE DEF t, d, e
<1> USE DEF SideInv, BareInv, BuggyInv, PatchedInv, InstallInv
<1>9. CASE Reset(w) \/ PrePatchReset(w) \/ RetryReset(w)
  BY <1>2, <1>5, <1>7, <1>8, <1>9 DEF Reset, PrePatchReset, RetryReset, t, d, e
<1>10. CASE WriteTest(w) \/ WriteFixedTest(w)
  BY <1>2, <1>4, <1>5, <1>7, <1>10 DEF WriteTest, WriteFixedTest, t, d, e, Trees
<1>11. CASE SetupBuggy(w) \/ SetupFixed(w)
  BY <1>2, <1>6, <1>7, <1>11 DEF SetupBuggy, SetupFixed, t, d, e
<1>12. CASE RunBuggy(w) \/ ApplyFailsOnce(w)
  BY <1>2, <1>7, <1>12 DEF RunBuggy, ApplyFailsOnce, disk, d, e
<1>13. CASE ApplyPatch(w)
  <2>1. /\ pc[w] \in {"apply", "retry_apply"} /\ pc'[w] = "write_fixed"
        /\ UNCHANGED installed
    BY <1>7, <1>13 DEF ApplyPatch
  <2>2. tree'[d] = Patched(t, at[w])
    BY <1>5, <1>13 DEF ApplyPatch, t, d
  <2>3. /\ Patched(t, at[w]).commit = t.commit /\ Patched(t, at[w]).patch = at[w]
        /\ Patched(t, at[w]).tests = t.tests
        /\ Patched(t, at[w]).created \subseteq t.created \cup {at[w]}
    BY <1>4 DEF Patched, Trees
  <2>4. /\ t.commit = at[w]
        /\ ~worktrees => t.tests = {} /\ t.created = {}
        /\ Setup => installed[e] = d
    BY <2>1 DEF t, d, e
  <2> QED
    BY <1>2, <2>1, <2>2, <2>3, <2>4 DEF d, e
<1>14. CASE \/ SetupBuggyFails(w) \/ SetupFixedFails(w) \/ ApplyFails(w) \/ RunFixed(w)
            \/ EvaluationRaises(w) \/ Finally(w)
  <2>1. pc'[w] \in {"finally", "record"}
    BY <1>7, <1>14 DEF SetupBuggyFails, SetupFixedFails, ApplyFails, RunFixed,
                       EvaluationRaises, Finally
  <2> QED
    BY <2>1
<1> QED
  BY <1>9, <1>10, <1>11, <1>12, <1>13, <1>14 DEF Evaluation

LEMMA StepExecution ==
    TypeOK /\ DealInv /\ ExecutionInv /\ [Next]_vars => ExecutionInv'
<1> SUFFICES ASSUME TypeOK, DealInv, ExecutionInv, [Next]_vars PROVE ExecutionInv'
  OBVIOUS
<1>1. ASSUME NEW w \in WorkerIds, Evaluation(w) PROVE ExecutionInv'
  BY <1>1, EvaluationSparesOthers, EvaluationKeepsSide DEF ExecutionInv
<1>2. ASSUME NEW w \in WorkerIds, Bucket(w) PROVE ExecutionInv'
  <2>1. BucketShape(w)
    BY <1>2, BucketHasShape
  <2>2. worktrees' = worktrees /\ tree' = tree /\ installed' = installed
    BY <2>1 DEF BucketShape, process
  <2>3. pc \in [WorkerIds -> Places] /\ at \in [WorkerIds -> Instances \cup {NoId}]
    BY DEF TypeOK
  <2>4. /\ pc'[w] \in {"next", "raised", "reset", "record", "ended", "dump"}
        /\ \A v \in WorkerIds \ {w} : pc'[v] = pc[v] /\ at'[v] = at[v]
    <3>1. /\ \E to \in {"next", "raised", "reset", "record", "ended", "dump"} :
                pc' = [pc EXCEPT ![w] = to]
          /\ at' = at \/ \E i \in Instances \cup {NoId} : at' = [at EXCEPT ![w] = i]
      BY <2>1 DEF BucketShape
    <3> QED
      BY <2>3, <3>1
  <2>5. ASSUME NEW v \in WorkerIds, v # w PROVE SideInv(v)'
    BY <2>2, <2>4, <2>5, SideIsUndisturbed DEF ExecutionInv
  <2>6. SideInv(w)'
    BY <2>4 DEF SideInv, BareInv, BuggyInv, PatchedInv, InstallInv
  <2> QED
    BY <2>5, <2>6 DEF ExecutionInv
<1>3. CASE Merge \/ Fail \/ UNCHANGED vars
  <2>1. UNCHANGED <<worktrees, pc, at, tree, installed>>
    BY <1>3 DEF Merge, Fail, vars, workers, disk
  <2> QED
    BY <2>1, SideIsUndisturbed DEF ExecutionInv
<1>4. CASE Kill \/ Rerun
  <2>1. \A w \in WorkerIds : pc'[w] \in {"load", "idle"}
    BY <1>4 DEF Kill, Rerun, Start, Each
  <2> QED
    BY <2>1 DEF ExecutionInv, SideInv, BareInv, BuggyInv, PatchedInv, InstallInv
<1> QED
  BY <1>1, <1>2, <1>3, <1>4 DEF Next, Work

LEMMA InvariantsHold == Spec => [](TypeOK /\ DealInv /\ ExecutionInv)
<1>1. Init => ExecutionInv
  BY DEF Init, Start, ExecutionInv, SideInv, BareInv, BuggyInv, PatchedInv, InstallInv
<1> QED
  BY <1>1, InitTypes, StepTypes, StepExecution, PTL DEF Spec

\* However the workers are interleaved, and whatever a killed run left in directories and
\* environments, evaluate_one executes the test of its instance, at the instance's commit,
\* without and then with its patch, in an environment installed from that directory.
THEOREM ExecutionsAreOfTheirInstance == Spec => []ExecutionIsOfInstance
<1>1. ExecutionInv => ExecutionIsOfInstance
  BY DEF ExecutionInv, SideInv, BuggyInv, PatchedInv, InstallInv, ExecutionIsOfInstance
<1> QED
  BY <1>1, InvariantsHold, PTL

-----------------------------------------------------------------------------
(* Results, with any number of workers in any run.                         *)

\* Between its records a worker's file is its memory, unless it began afresh and has
\* recorded nothing yet.
Loaded == Trying \cup {"finally", "record", "next", "ended"}

SavedInv(w) ==
    pc[w] \in Loaded /\ (resume \/ results[w] # Nothing) => file[w].results = results[w]

\* Memory is empty at first.  The instance at work has no result yet; what is about to
\* be recorded is one.
FreshInv(w) ==
    /\ pc[w] = "load" => results[w] = Nothing
    /\ pc[w] \in Trying \cup {"finally", "record"} => results[w][at[w]] = NoResult
    /\ pc[w] \in {"finally", "record"} => result[w] # NoResult

\* A worker ends when its bucket is done.
EndedInv(w) ==
    pc[w] = "ended" => \A i \in Range(buckets[w]) : results[w][i] # NoResult

HonestInv(w) ==
    /\ Honest(result[w])
    /\ \A i \in Instances : Honest(results[w][i]) /\ Honest(file[w].results[i])

RecordOf(w) == SavedInv(w) /\ FreshInv(w) /\ EndedInv(w) /\ HonestInv(w)

RecordInv == \A w \in WorkerIds : RecordOf(w)

LEMMA OutcomeIsHonest ==
    ASSUME NEW b \in RunStatuses \cup {"NONE"}
    PROVE  /\ \A s \in {"MISSING_GENERATED_TEST", "BUGGY_SETUP_ERROR", "PATCH_APPLY_ERROR",
                        "FIXED_SETUP_ERROR", "ERROR"} :
                 Honest(Outcome(s, b, "NONE")) /\ Outcome(s, b, "NONE") # NoResult
           /\ \A f \in RunStatuses : /\ Honest(Outcome(Judged(b, f), b, f))
                                     /\ Outcome(Judged(b, f), b, f) # NoResult
           /\ Honest(NoResult)
<1>1. \A s, f : /\ Outcome(s, b, f).status = s /\ Outcome(s, b, f).buggy = b
                /\ Outcome(s, b, f).fixed = f
  BY DEF Outcome
<1>2. NoResult.status = "NONE" /\ NoResult.fixed = "NONE"
  BY DEF NoResult, Outcome
<1> QED
  BY <1>1, <1>2 DEF Honest, Judged

\* evaluate_one leaves with a result.
LEMMA EvaluationOutcome ==
    ASSUME TypeOK, DealInv, NEW w \in WorkerIds, Evaluation(w)
    PROVE  /\ \/ result' = result /\ pc'[w] # "finally"
              \/ \E r : Honest(r) /\ r # NoResult /\ result' = [result EXCEPT ![w] = r]
           /\ pc'[w] = "record" => pc[w] = "finally" /\ result' = result
<1>1. DOMAIN pc = WorkerIds /\ buggy[w] \in RunStatuses \cup {"NONE"}
  BY DEF TypeOK
<1>2. \A place, to : Goes(w, place, to) => pc[w] = place /\ pc'[w] = to
  BY <1>1 DEF Goes
<1>3. CASE SetupBuggyFails(w)
  <2>1. Honest(Outcome("BUGGY_SETUP_ERROR", "NONE", "NONE"))
        /\ Outcome("BUGGY_SETUP_ERROR", "NONE", "NONE") # NoResult
    BY OutcomeIsHonest
  <2>2. result' = [result EXCEPT ![w] = Outcome("BUGGY_SETUP_ERROR", "NONE", "NONE")]
        /\ pc'[w] = "finally"
    BY <1>2, <1>3 DEF SetupBuggyFails
  <2> QED
    BY <2>1, <2>2
<1>4. CASE SetupFixedFails(w) \/ ApplyFails(w)
  <2>1. PICK s \in {"FIXED_SETUP_ERROR", "PATCH_APPLY_ERROR"} :
           result' = [result EXCEPT ![w] = Outcome(s, buggy[w], "NONE")]
    BY <1>4 DEF SetupFixedFails, ApplyFails
  <2>2. pc'[w] = "finally"
    BY <1>2, <1>4 DEF SetupFixedFails, ApplyFails
  <2>3. Honest(Outcome(s, buggy[w], "NONE")) /\ Outcome(s, buggy[w], "NONE") # NoResult
    BY <1>1, OutcomeIsHonest
  <2> QED
    BY <2>1, <2>2, <2>3
<1>5. CASE EvaluationRaises(w)
  <2>1. /\ pc'[w] = "finally"
        /\ result' = [result EXCEPT ![w] = Outcome("ERROR", buggy[w], "NONE")]
    BY <1>2, <1>5 DEF EvaluationRaises
  <2>2. Honest(Outcome("ERROR", buggy[w], "NONE")) /\ Outcome("ERROR", buggy[w], "NONE") # NoResult
    BY <1>1, OutcomeIsHonest
  <2> QED
    BY <2>1, <2>2
<1>6. CASE RunFixed(w)
  <2>1. PICK f \in RunStatuses : result' = [result EXCEPT ![w] = Outcome(Judged(buggy[w], f), buggy[w], f)]
    BY <1>6 DEF RunFixed
  <2>2. pc'[w] = "finally"
    BY <1>2, <1>6 DEF RunFixed
  <2> QED
    BY <1>1, <2>1, <2>2, OutcomeIsHonest
<1>7. CASE \/ Reset(w) \/ WriteTest(w) \/ SetupBuggy(w) \/ RunBuggy(w) \/ PrePatchReset(w)
           \/ ApplyPatch(w) \/ ApplyFailsOnce(w) \/ RetryReset(w) \/ WriteFixedTest(w)
           \/ SetupFixed(w)
  BY <1>2, <1>7 DEF Reset, WriteTest, SetupBuggy, RunBuggy, PrePatchReset, ApplyPatch,
                    ApplyFailsOnce, RetryReset, WriteFixedTest, SetupFixed
<1>8. CASE Finally(w)
  BY <1>2, <1>8 DEF Finally
<1> QED
  BY <1>3, <1>4, <1>5, <1>6, <1>7, <1>8 DEF Evaluation

\* The records of a worker that a step leaves alone.
LEMMA RecordIsUndisturbed ==
    ASSUME NEW w, RecordOf(w), resume' = resume, buckets' = buckets, pc'[w] = pc[w],
           at'[w] = at[w], result'[w] = result[w], results'[w] = results[w], file'[w] = file[w]
    PROVE  RecordOf(w)'
BY DEF RecordOf, SavedInv, FreshInv, EndedInv, HonestInv

LEMMA EvaluationKeepsRecords ==
    ASSUME TypeOK, DealInv, RecordInv, NEW w \in WorkerIds, Evaluation(w)
    PROVE  RecordInv'
<1>1. UNCHANGED <<resume, buckets, at, results, file>>
  BY EvaluationHasShape DEF EvaluationShape, process
<1>2. /\ pc[w] \in Trying \cup {"finally"} /\ pc'[w] \in Trying \cup {"finally", "record"}
      /\ \A v \in WorkerIds \ {w} : pc'[v] = pc[v]
  <2>1. pc[w] \in Trying \cup {"finally"}
        /\ \E to \in Trying \cup {"finally", "record"} : pc' = [pc EXCEPT ![w] = to]
    BY EvaluationHasShape DEF EvaluationShape
  <2>2. DOMAIN pc = WorkerIds
    BY DEF TypeOK
  <2> QED
    BY <2>1, <2>2
<1>3. DOMAIN result = WorkerIds
  BY DEF TypeOK
<1>4. \A v \in WorkerIds \ {w} : result'[v] = result[v]
  BY <1>3, EvaluationOutcome
<1>5. ASSUME NEW v \in WorkerIds, v # w PROVE RecordOf(v)'
  BY <1>1, <1>2, <1>4, <1>5, RecordIsUndisturbed DEF RecordInv
<1>6. RecordOf(w)
  BY DEF RecordInv
<1>8. SavedInv(w)'
  BY <1>1, <1>2, <1>6 DEF RecordOf, SavedInv, Loaded
<1>9. FreshInv(w)'
  <2>1. results'[w][at'[w]] = NoResult
    BY <1>1, <1>2, <1>6 DEF RecordOf, FreshInv
  <2>2. pc'[w] \in {"finally", "record"} => result'[w] # NoResult
    BY <1>3, <1>6, EvaluationOutcome DEF RecordOf, FreshInv
  <2>3. pc'[w] # "load"
    BY <1>2 DEF Trying, Resetting
  <2> QED
    BY <2>1, <2>2, <2>3 DEF FreshInv
<1>10. EndedInv(w)'
  BY <1>2 DEF EndedInv, Trying, Resetting
<1>11. HonestInv(w)'
  <2>1. Honest(result'[w])
    BY <1>3, <1>6, EvaluationOutcome DEF RecordOf, HonestInv
  <2> QED
    BY <1>1, <1>6, <2>1 DEF RecordOf, HonestInv
<1>12. RecordOf(w)'
  BY <1>8, <1>9, <1>10, <1>11 DEF RecordOf
<1> QED
  BY <1>5, <1>12 DEF RecordInv

LEMMA BucketKeepsRecords ==
    ASSUME TypeOK, DealInv, RecordInv, NEW w \in WorkerIds, Bucket(w)
    PROVE  RecordInv'
<1>1. resume' = resume /\ buckets' = buckets
  BY BucketHasShape DEF BucketShape, process
<1>2. /\ pc \in [WorkerIds -> Places] /\ at \in [WorkerIds -> Instances \cup {NoId}]
      /\ result \in [WorkerIds -> Results] /\ results \in [WorkerIds -> [Instances -> Results]]
      /\ DOMAIN file = WorkerIds
  BY DEF TypeOK
<1>3. ASSUME NEW v \in WorkerIds, v # w PROVE RecordOf(v)'
  <2>1. BucketShape(w) /\ RecordOf(v)
    BY BucketHasShape DEF RecordInv
  <2>2. pc'[v] = pc[v] /\ at'[v] = at[v] /\ result'[v] = result[v]
    BY <1>2, <1>3, <2>1 DEF BucketShape
  <2>3. results'[v] = results[v] /\ file'[v] = file[v]
    BY <1>2, <1>3, <2>1 DEF BucketShape
  <2> QED
    BY <1>1, <2>1, <2>2, <2>3, RecordIsUndisturbed
<1>4. SUFFICES RecordOf(w)'
  BY <1>3 DEF RecordInv
<1>5. RecordOf(w)
  BY DEF RecordInv
<1>6. \A place, to : Goes(w, place, to) => pc[w] = place /\ pc'[w] = to
  BY <1>2 DEF Goes
<1>7. \A i \in Instances : Nothing[i] = NoResult
  BY DEF Nothing
<1>8. Honest(NoResult)
  BY OutcomeIsHonest
<1> USE DEF RecordOf, SavedInv, FreshInv, EndedInv, HonestInv, Loaded, Trying, Resetting
<1>9. CASE Load(w)
  <2>1. /\ pc'[w] = "next" /\ UNCHANGED <<result, file>>
        /\ results'[w] = IF resume THEN file[w].results ELSE Nothing
    BY <1>2, <1>6, <1>9 DEF Load, disk
  <2> QED
    BY <1>1, <1>5, <1>7, <1>8, <2>1
<1>10. CASE LoadRaises(w) \/ BeginRaises(w)
  <2>1. pc'[w] = "raised" /\ UNCHANGED <<result, results, file>>
    BY <1>6, <1>10 DEF LoadRaises, BeginRaises, disk
  <2> QED
    BY <1>1, <1>5, <2>1
<1>11. CASE Begin(w)
  <2>1. PICK i \in Instances : IsNext(w, i) /\ at' = [at EXCEPT ![w] = i]
    BY <1>11 DEF Begin
  <2>2. pc[w] = "next" /\ pc'[w] = "reset" /\ UNCHANGED <<result, results, file>>
    BY <1>6, <1>11 DEF Begin, disk
  <2>3. at'[w] = i /\ results[w][i] = NoResult
    BY <1>2, <2>1 DEF IsNext
  <2> QED
    BY <1>1, <1>5, <2>2, <2>3
<1>12. CASE BeginMissing(w)
  <2>1. /\ pc[w] = "next" /\ pc'[w] = "record" /\ UNCHANGED <<results, file>>
        /\ result' = [result EXCEPT ![w] = Outcome("MISSING_GENERATED_TEST", "NONE", "NONE")]
    BY <1>6, <1>12 DEF BeginMissing, disk
  <2>2. /\ result'[w] = Outcome("MISSING_GENERATED_TEST", "NONE", "NONE")
        /\ Honest(result'[w]) /\ result'[w] # NoResult
    BY <1>2, <2>1, OutcomeIsHonest
  <2>3. results'[w][at'[w]] = NoResult
    BY <1>2, <1>12, <2>1 DEF BeginMissing, IsNext
  <2> QED
    BY <1>1, <1>5, <2>1, <2>2, <2>3
<1>13. CASE EndBucket(w)
  <2>1. /\ pc[w] = "next" /\ pc'[w] = "ended" /\ UNCHANGED <<result, results, file>>
        /\ \A i \in Instances : ~IsNext(w, i)
    BY <1>6, <1>13 DEF EndBucket, disk
  <2>2. buckets[w] \in Seq(Instances)
    BY <2>1, DealIsInstances DEF DealInv, Workers
  <2>3. \A i \in Range(buckets[w]) : results[w][i] # NoResult
    <3> DEFINE N == {n \in DOMAIN buckets[w] : results[w][buckets[w][n]] = NoResult}
    <3>1. SUFFICES ASSUME N # {} PROVE FALSE
      BY DEF Range
    <3>2. N \in SUBSET Nat
      BY <2>2
    <3>3. PICK n \in N : \A k \in N : n <= k
      <4> HIDE DEF N
      <4> QED
        BY <3>1, <3>2, Smallest
    <3>4. n \in DOMAIN buckets[w] /\ buckets[w][n] \in Instances /\ n \in Nat
          /\ results[w][buckets[w][n]] = NoResult
      BY <2>2
    <3>5. \A m \in 1..(n - 1) : m \in DOMAIN buckets[w] /\ m \notin N
      BY <2>2, <3>3, <3>4
    <3>6. IsNext(w, buckets[w][n])
      BY <2>1, <3>4, <3>5 DEF IsNext
    <3> QED
      BY <2>1, <3>4, <3>6
  <2> QED
    BY <1>1, <1>5, <2>1, <2>3
<1>14. CASE OpenResults(w)
  <2>1. /\ pc[w] = "record" /\ pc'[w] = "dump" /\ UNCHANGED <<at, result>>
        /\ results' = [results EXCEPT ![w] = [results[w] EXCEPT ![at[w]] = result[w]]]
        /\ file' = [file EXCEPT ![w] = [state |-> "truncated", results |-> Nothing]]
    BY <1>6, <1>14 DEF OpenResults
  <2>2. at[w] \in Range(buckets[w]) /\ w \in DOMAIN buckets
    BY <2>1, AtIsInstance DEF DealInv, Evaluating
  <2>3. /\ file'[w].results = Nothing
        /\ \A i \in Instances : results'[w][i] = IF i = at[w] THEN result[w] ELSE results[w][i]
    BY <1>2, <2>1
  <2> QED
    BY <1>1, <1>5, <1>7, <1>8, <2>1, <2>2, <2>3
<1>15. CASE SaveResults(w)
  <2>1. /\ pc'[w] = "next" /\ UNCHANGED results
        /\ file'[w].results = results[w] /\ result'[w] = NoResult
    BY <1>2, <1>6, <1>15 DEF SaveResults
  <2> QED
    BY <1>1, <1>5, <1>8, <2>1
<1> QED
  BY <1>9, <1>10, <1>11, <1>12, <1>13, <1>14, <1>15 DEF Bucket

\* Between runs only the files are left.
LEMMA RestartKeepsRecords ==
    ASSUME TypeOK, RecordInv, Kill \/ Rerun
    PROVE  RecordInv'
<1>1. UNCHANGED file /\ \A w \in WorkerIds : result'[w] = NoResult /\ results'[w] = Nothing
  BY DEF Kill, Rerun, Each, disk
<1>2. \A w \in WorkerIds : pc'[w] \in {"load", "idle"}
  BY DEF Kill, Rerun, Start, Each
<1>3. Honest(NoResult) /\ \A i \in Instances : Nothing[i] = NoResult
  BY OutcomeIsHonest DEF Nothing
<1>4. ASSUME NEW w \in WorkerIds PROVE RecordOf(w)'
  <2>1. HonestInv(w)'
    BY <1>1, <1>3 DEF RecordInv, RecordOf, HonestInv
  <2>2. SavedInv(w)' /\ FreshInv(w)' /\ EndedInv(w)'
    BY <1>1, <1>2 DEF SavedInv, FreshInv, EndedInv, Loaded, Trying, Resetting
  <2> QED
    BY <2>1, <2>2 DEF RecordOf
<1> QED
  BY <1>4 DEF RecordInv

LEMMA StepRecords == TypeOK /\ DealInv /\ RecordInv /\ [Next]_vars => RecordInv'
<1> SUFFICES ASSUME TypeOK, DealInv, RecordInv, [Next]_vars PROVE RecordInv'
  OBVIOUS
<1>1. CASE \E w \in WorkerIds : Bucket(w) \/ Evaluation(w)
  BY <1>1, BucketKeepsRecords, EvaluationKeepsRecords
<1>2. CASE Kill \/ Rerun
  BY <1>2, RestartKeepsRecords
<1>3. CASE Merge \/ Fail \/ UNCHANGED vars
  <2>1. UNCHANGED <<resume, buckets, pc, at, result, results, file>>
    BY <1>3 DEF Merge, Fail, vars, workers, disk
  <2> QED
    BY <2>1, RecordIsUndisturbed DEF RecordInv
<1> QED
  BY <1>1, <1>2, <1>3 DEF Next, Work

LEMMA InitRecords == Init => RecordInv
<1> SUFFICES ASSUME Init PROVE RecordInv
  OBVIOUS
<1>1. \A w \in WorkerIds : /\ pc[w] \in {"load", "idle"} /\ result[w] = NoResult
                           /\ results[w] = Nothing /\ file[w].results = Nothing
  BY DEF Init, Start, Each, NoFile
<1>2. Honest(NoResult) /\ \A i \in Instances : Nothing[i] = NoResult
  BY OutcomeIsHonest DEF Nothing
<1> QED
  BY <1>1, <1>2 DEF RecordInv, RecordOf, SavedInv, FreshInv, EndedInv, HonestInv, Loaded,
                    Trying, Resetting

LEMMA RecordsHold == Spec => [](TypeOK /\ DealInv /\ RecordInv)
<1>1. Init => TypeOK /\ DealInv /\ RecordInv
  BY InitTypes, InitRecords
<1>2. TypeOK /\ DealInv /\ RecordInv /\ [Next]_vars => TypeOK' /\ DealInv' /\ RecordInv'
  BY StepTypes, StepRecords
<1> QED
  BY <1>1, <1>2, PTL DEF Spec

\* Whatever the numbers of workers of this run and of those before, and in whatever order
\* the workers end: merged_results.json has for every instance an honest result that some
\* worker recorded of it, and after an evaluation that was begun afresh the one that was
\* recorded now, although the files of the earlier ones are still there at the start.
MergedIsHonest ==
    main = "done" =>
        \A i \in Instances :
            /\ merged[i] # NoResult /\ Honest(merged[i])
            /\ \E w \in Workers : merged[i] = file[w].results[i]
            /\ ~resume => \A w \in Workers : i \in Range(buckets[w]) => merged[i] = results[w][i]

\* In an evaluation begun afresh a worker remembers results of its own bucket only.
AfreshInv ==
    ~resume =>
        \A w \in WorkerIds, i \in Instances :
            results[w][i] # NoResult => w \in DOMAIN buckets /\ i \in Range(buckets[w])

LEMMA BucketKeepsAfresh ==
    ASSUME TypeOK, DealInv, AfreshInv, NEW w \in WorkerIds, Bucket(w)
    PROVE  AfreshInv'
<1>1. buckets' = buckets /\ resume' = resume
  BY BucketHasShape DEF BucketShape, process
<1>2. results \in [WorkerIds -> [Instances -> Results]] /\ DOMAIN pc = WorkerIds
  BY DEF TypeOK
<1>3. CASE Load(w)
  <2>1. ~resume => \A v \in WorkerIds : results'[v] = results[v] \/ results'[v] = Nothing
    BY <1>2, <1>3 DEF Load
  <2>2. \A i \in Instances : Nothing[i] = NoResult
    BY DEF Nothing
  <2> QED
    BY <1>1, <2>1, <2>2 DEF AfreshInv
<1>4. CASE OpenResults(w)
  <2>1. at[w] \in Range(buckets[w]) /\ w \in DOMAIN buckets
    BY <1>2, <1>4, AtIsInstance DEF OpenResults, Goes, DealInv, Evaluating
  <2>2. results' = [results EXCEPT ![w] = [results[w] EXCEPT ![at[w]] = result[w]]]
    BY <1>4 DEF OpenResults
  <2>3. ASSUME NEW v \in WorkerIds, NEW i \in Instances, results'[v][i] # results[v][i]
        PROVE  v = w /\ i = at[w]
    BY <1>2, <2>2, <2>3
  <2> QED
    BY <1>1, <2>1, <2>3 DEF AfreshInv
<1>5. CASE LoadRaises(w) \/ Begin(w) \/ BeginMissing(w) \/ BeginRaises(w) \/ EndBucket(w)
           \/ SaveResults(w)
  <2>1. results' = results
    BY <1>5 DEF LoadRaises, Begin, BeginMissing, BeginRaises, EndBucket, SaveResults
  <2> QED
    BY <1>1, <2>1 DEF AfreshInv
<1> QED
  BY <1>3, <1>4, <1>5 DEF Bucket

LEMMA StepAfresh == TypeOK /\ DealInv /\ AfreshInv /\ [Next]_vars => AfreshInv'
<1> SUFFICES ASSUME TypeOK, DealInv, AfreshInv, [Next]_vars PROVE AfreshInv'
  OBVIOUS
<1>1. ASSUME NEW w \in WorkerIds, Bucket(w) PROVE AfreshInv'
  BY <1>1, BucketKeepsAfresh
<1>2. ASSUME NEW w \in WorkerIds, Evaluation(w) PROVE AfreshInv'
  BY <1>2, EvaluationHasShape DEF EvaluationShape, process, AfreshInv
<1>3. CASE Merge \/ Fail \/ UNCHANGED vars
  BY <1>3 DEF Merge, Fail, vars, workers, AfreshInv
<1>4. CASE Kill \/ Rerun
  <2>1. \A w \in WorkerIds : results'[w] = Nothing
    BY <1>4 DEF Kill, Rerun, Each
  <2> QED
    BY <2>1 DEF AfreshInv, Nothing
<1> QED
  BY <1>1, <1>2, <1>3, <1>4 DEF Next, Work

LEMMA AfreshHolds == Spec => [](TypeOK /\ DealInv /\ RecordInv /\ AfreshInv)
<1>1. Init => AfreshInv
  BY DEF Init, AfreshInv, Each, Nothing
<1> QED
  BY <1>1, StepAfresh, RecordsHold, PTL DEF Spec

\* At the merge the file of every worker has what it found out.
LEMMA FilesAreComplete ==
    ASSUME TypeOK, DealInv, RecordInv, Merge, NEW i \in Instances
    PROVE  /\ \E w \in Workers : i \in Range(buckets[w])
           /\ \A w \in Workers : i \in Range(buckets[w]) =>
                 file[w].results[i] = results[w][i] /\ results[w][i] # NoResult
<1>1. PICK w \in DOMAIN buckets : i \in Range(buckets[w])
  BY DEF DealInv, Partition
<1>2. w \in Workers
  BY <1>1 DEF Workers, Range
<1>3. ASSUME NEW v \in Workers, i \in Range(buckets[v])
      PROVE  file[v].results[i] = results[v][i] /\ results[v][i] # NoResult
  <2>1. RecordOf(v) /\ pc[v] = "ended"
    BY DEF RecordInv, Merge, Workers, TypeOK
  <2>2. results[v][i] # NoResult
    BY <1>3, <2>1 DEF RecordOf, EndedInv
  <2>3. results[v] # Nothing
    BY <2>2 DEF Nothing
  <2>4. file[v].results = results[v]
    BY <2>1, <2>3 DEF RecordOf, SavedInv, Loaded
  <2> QED
    BY <2>2, <2>4
<1> QED
  BY <1>1, <1>2, <1>3

\* What is merged of an instance is the result that the file of a worker has.
LEMMA MergeIsOfWorker ==
    ASSUME TypeOK, DealInv, RecordInv, Merge, NEW i \in Instances
    PROVE  /\ merged'[i] # NoResult /\ Honest(merged'[i])
           /\ \E w \in Workers : merged'[i] = file[w].results[i]
<1>1. PICK order \in Bijection(1..Cardinality(Workers), Workers) : merged' = MergedBy(order)
  BY DEF Merge
<1>2. Workers \subseteq WorkerIds
  BY DEF Workers, TypeOK
<1>3. \E w \in Workers : file[w].results[i] # NoResult
  BY FilesAreComplete
<1>4. PICK w \in Workers : file[w].results[i] # NoResult /\ MergedBy(order)[i] = file[w].results[i]
  BY <1>3, MergedIsFromWorker
<1>5. Honest(file[w].results[i])
  BY <1>2 DEF RecordInv, RecordOf, HonestInv
<1> QED
  BY <1>1, <1>4, <1>5

\* In an evaluation begun afresh that worker is the one the instance was dealt to: it has
\* ended, so what an earlier evaluation left in its file has been replaced.
LEMMA MergeIsHonest ==
    ASSUME TypeOK, DealInv, RecordInv, AfreshInv, Merge
    PROVE  MergedIsHonest'
<1>1. UNCHANGED <<resume, buckets, results, file>> /\ Workers' = Workers
  BY DEF Merge, Workers, workers
<1>2. ASSUME ~resume, NEW i \in Instances, NEW w \in Workers, i \in Range(buckets[w])
      PROVE  merged'[i] = results[w][i]
  <2>1. PICK v \in Workers : merged'[i] = file[v].results[i] /\ merged'[i] # NoResult
    BY MergeIsOfWorker
  <2>2. v \in WorkerIds /\ buckets[v] # << >> /\ buckets[v] \in Seq(Instances)
    BY DealIsInstances DEF Workers, TypeOK, DealInv
  <2>3. PICK j \in Range(buckets[v]) : j \in Instances
    <3>1. 1 \in DOMAIN buckets[v] /\ buckets[v][1] \in Instances
      BY <2>2
    <3> QED
      BY <3>1 DEF Range
  <2>4. file[v].results[j] = results[v][j] /\ results[v][j] # NoResult
    BY <2>3, FilesAreComplete
  <2>5. results[v] # Nothing
    BY <2>3, <2>4 DEF Nothing
  <2>6. RecordOf(v) /\ pc[v] = "ended"
    BY <2>2 DEF RecordInv, Merge
  <2>7. file[v].results = results[v]
    BY <2>5, <2>6 DEF RecordOf, SavedInv, Loaded
  <2>8. v \in DOMAIN buckets /\ i \in Range(buckets[v])
    BY <1>2, <2>1, <2>2, <2>7 DEF AfreshInv
  <2>9. w = v
    BY <1>2, <2>8 DEF DealInv, Partition, Workers
  <2> QED
    BY <2>1, <2>7, <2>9
<1>3. \A i \in Instances : /\ merged'[i] # NoResult /\ Honest(merged'[i])
                           /\ \E w \in Workers : merged'[i] = file[w].results[i]
  BY MergeIsOfWorker
<1> QED
  BY <1>1, <1>2, <1>3 DEF MergedIsHonest, Honest

\* However often the evaluation was killed and resumed or begun afresh, with whatever
\* numbers of workers and in whatever order they end: merged_results.json has a result of
\* every instance that a worker recorded for it, says success exactly of a test that passed
\* with the patch and did not without, and after an evaluation begun afresh has what the
\* instance's own worker found out now.
THEOREM MergedResultsAreHonest == Spec => []MergedIsHonest
<1>1. Init => MergedIsHonest
  BY DEF Init, MergedIsHonest
<1>2. TypeOK /\ DealInv /\ RecordInv /\ AfreshInv /\ MergedIsHonest /\ [Next]_vars
          => MergedIsHonest'
  <2> SUFFICES ASSUME TypeOK, DealInv, RecordInv, AfreshInv, MergedIsHonest, [Next]_vars
               PROVE  MergedIsHonest'
    OBVIOUS
  <2>1. ASSUME NEW w \in WorkerIds, Bucket(w) \/ Evaluation(w) PROVE main' = "running"
    BY <2>1, BucketHasShape, EvaluationHasShape DEF BucketShape, EvaluationShape, process
  <2>2. CASE Merge
    BY <2>2, MergeIsHonest
  <2>3. CASE Fail \/ Kill \/ Rerun
    BY <2>3 DEF Fail, Kill, Rerun, MergedIsHonest
  <2>4. CASE UNCHANGED vars
    BY <2>4 DEF vars, workers, disk, MergedIsHonest, Workers, Honest
  <2> QED
    BY <2>1, <2>2, <2>3, <2>4 DEF Next, Work, MergedIsHonest
<1> QED
  BY <1>1, <1>2, AfreshHolds, PTL DEF Spec

-----------------------------------------------------------------------------
(* The files are those of worker numbers, so what is said of whose result  *)
(* is merged or found again is said of runs with one number of workers.    *)

SameBuckets(count) == WorkerCounts = {count} /\ buckets = GroupIdsByRepo(count)

\* A worker's memory and file have results of its own bucket only.
OwnInv ==
    \A w \in WorkerIds, i \in Instances :
        results[w][i] # NoResult \/ file[w].results[i] # NoResult
            => w \in DOMAIN buckets /\ i \in Range(buckets[w])

LEMMA BucketKeepsOwn ==
    ASSUME TypeOK, DealInv, OwnInv, NEW w \in WorkerIds, Bucket(w)
    PROVE  OwnInv'
<1>1. buckets' = buckets
  BY BucketHasShape DEF BucketShape, process
<1>2. /\ results \in [WorkerIds -> [Instances -> Results]] /\ DOMAIN file = WorkerIds
      /\ DOMAIN pc = WorkerIds
  BY DEF TypeOK
<1>3. \A i \in Instances : Nothing[i] = NoResult
  BY DEF Nothing
<1>4. CASE Load(w)
  <2>1. file' = file /\ \A v \in WorkerIds : results'[v] = results[v] \/ results'[v] = Nothing
                                              \/ results'[v] = file[v].results
    BY <1>2, <1>4 DEF Load, disk
  <2> QED
    BY <1>1, <1>3, <2>1 DEF OwnInv
<1>5. CASE LoadRaises(w) \/ Begin(w) \/ BeginMissing(w) \/ BeginRaises(w) \/ EndBucket(w)
  <2>1. UNCHANGED <<results, file>>
    BY <1>5 DEF LoadRaises, Begin, BeginMissing, BeginRaises, EndBucket, disk
  <2> QED
    BY <1>1, <2>1 DEF OwnInv
<1>6. CASE OpenResults(w)
  <2>1. pc[w] = "record"
    BY <1>2, <1>6 DEF OpenResults, Goes
  <2>2. at[w] \in Range(buckets[w]) /\ w \in DOMAIN buckets
    BY <2>1, AtIsInstance DEF DealInv, Evaluating
  <2>3. /\ results' = [results EXCEPT ![w] = [results[w] EXCEPT ![at[w]] = result[w]]]
        /\ file' = [file EXCEPT ![w] = [state |-> "truncated", results |-> Nothing]]
    BY <1>6 DEF OpenResults
  <2>4. ASSUME NEW v \in WorkerIds, NEW i \in Instances, results'[v][i] # results[v][i]
        PROVE  v = w /\ i = at[w]
    BY <1>2, <2>3, <2>4
  <2>5. \A v \in WorkerIds : file'[v] = file[v] \/ file'[v].results = Nothing
    BY <1>2, <2>3
  <2> QED
    BY <1>1, <1>3, <2>2, <2>4, <2>5 DEF OwnInv
<1>7. CASE SaveResults(w)
  <2>1. results' = results /\ \A v \in WorkerIds : file'[v] = file[v] \/ file'[v].results = results[v]
    BY <1>2, <1>7 DEF SaveResults
  <2> QED
    BY <1>1, <2>1 DEF OwnInv
<1> QED
  BY <1>4, <1>5, <1>6, <1>7 DEF Bucket

LEMMA StepOwn ==
    ASSUME NEW count
    PROVE  TypeOK /\ DealInv /\ OwnInv /\ SameBuckets(count) /\ [Next]_vars
               => OwnInv' /\ SameBuckets(count)'
<1> SUFFICES ASSUME TypeOK, DealInv, OwnInv, SameBuckets(count), [Next]_vars
             PROVE  OwnInv' /\ SameBuckets(count)'
  OBVIOUS
<1>1. ASSUME NEW w \in WorkerIds, Bucket(w) PROVE OwnInv' /\ buckets' = buckets
  BY <1>1, BucketKeepsOwn, BucketHasShape DEF BucketShape, process
<1>2. ASSUME NEW w \in WorkerIds, Evaluation(w) PROVE OwnInv' /\ buckets' = buckets
  BY <1>2, EvaluationHasShape DEF EvaluationShape, process, OwnInv
<1>3. CASE Merge \/ Fail \/ UNCHANGED vars
  BY <1>3 DEF Merge, Fail, vars, workers, disk, OwnInv, SameBuckets
<1>4. CASE Kill \/ Rerun
  <2>1. UNCHANGED <<buckets, file>> /\ \A w \in WorkerIds : results'[w] = Nothing
    BY <1>4 DEF Kill, Rerun, Each, disk, SameBuckets
  <2>2. \A i \in Instances : Nothing[i] = NoResult
    BY DEF Nothing
  <2> QED
    BY <2>1, <2>2 DEF OwnInv, SameBuckets
<1> QED
  BY <1>1, <1>2, <1>3, <1>4 DEF Next, Work, SameBuckets

\* Every worker ended with a file of its whole bucket, and no other file has a result of it.
LEMMA MergeIsComplete ==
    ASSUME TypeOK, DealInv, RecordInv, OwnInv, Merge
    PROVE  MergedIsComplete'
<1>1. UNCHANGED <<buckets, results>> /\ Workers' = Workers
  BY DEF Merge, Workers, workers
<1>2. ASSUME NEW i \in Instances, NEW w \in Workers, i \in Range(buckets[w])
      PROVE  merged'[i] = results[w][i]
  <2>1. PICK v \in Workers : merged'[i] = file[v].results[i] /\ merged'[i] # NoResult
    BY MergeIsOfWorker
  <2>2. v \in DOMAIN buckets /\ i \in Range(buckets[v])
    BY <2>1 DEF OwnInv, Workers, TypeOK
  <2>3. w = v
    BY <1>2, <2>2 DEF DealInv, Partition, Workers
  <2> QED
    BY <1>2, <2>1, <2>3, FilesAreComplete
<1>3. \A i \in Instances : merged'[i] # NoResult /\ Honest(merged'[i])
  BY MergeIsOfWorker
<1> QED
  BY <1>1, <1>2, <1>3 DEF MergedIsComplete, Honest

LEMMA OwnHolds ==
    ASSUME NEW count, WorkerCounts = {count}
    PROVE  Spec => [](TypeOK /\ DealInv /\ RecordInv /\ OwnInv)
<1>1. Init => OwnInv /\ SameBuckets(count)
  BY DEF Init, OwnInv, SameBuckets, Each, Nothing, NoFile
<1>2. TypeOK /\ DealInv /\ OwnInv /\ SameBuckets(count) /\ [Next]_vars
          => OwnInv' /\ SameBuckets(count)'
  BY StepOwn
<1> QED
  BY <1>1, <1>2, RecordsHold, PTL DEF Spec

\* main's merged_results.json is complete and takes every instance from the worker it was
\* dealt to, however often the evaluation was killed and resumed or begun afresh, if
\* --max_workers stays the same.
THEOREM MergedResultsAreComplete ==
    ASSUME NEW count, WorkerCounts = {count}
    PROVE  Spec => []MergedIsComplete
<1>1. Init => MergedIsComplete
  BY DEF Init, MergedIsComplete
<1>2. TypeOK /\ DealInv /\ RecordInv /\ OwnInv /\ MergedIsComplete /\ [Next]_vars
          => MergedIsComplete'
  <2> SUFFICES ASSUME TypeOK, DealInv, RecordInv, OwnInv, MergedIsComplete, [Next]_vars
               PROVE  MergedIsComplete'
    OBVIOUS
  <2>1. ASSUME NEW w \in WorkerIds, Bucket(w) \/ Evaluation(w) PROVE main' = "running"
    BY <2>1, BucketHasShape, EvaluationHasShape DEF BucketShape, EvaluationShape, process
  <2>2. CASE Merge
    BY <2>2, MergeIsComplete
  <2>3. CASE Fail \/ Kill \/ Rerun
    BY <2>3 DEF Fail, Kill, Rerun, MergedIsComplete
  <2>4. CASE UNCHANGED vars
    BY <2>4 DEF vars, workers, disk, MergedIsComplete, Workers, Honest
  <2> QED
    BY <2>1, <2>2, <2>3, <2>4 DEF Next, Work, MergedIsComplete
<1> QED
  BY <1>1, <1>2, OwnHolds, PTL DEF Spec

\* With the same --max_workers a resumed run_bucket evaluates nothing that has a result in
\* the results.json of any worker.
THEOREM FinishedIsNotRepeated ==
    ASSUME NEW count, WorkerCounts = {count}
    PROVE  Spec => []FinishedAreSkipped
<1>1. TypeOK /\ DealInv /\ RecordInv /\ OwnInv => FinishedAreSkipped
  <2> SUFFICES ASSUME TypeOK, DealInv, RecordInv, OwnInv, NEW w \in WorkerIds,
                      NEW v \in WorkerIds, resume, pc[w] \in Trying
               PROVE  file[v].results[at[w]] = NoResult
    BY DEF FinishedAreSkipped
  <2>1. RecordOf(w)
    BY DEF RecordInv
  <2>2. at[w] \in Instances /\ w \in DOMAIN buckets /\ at[w] \in Range(buckets[w])
    BY AtIsInstance DEF DealInv, Evaluating
  <2>3. CASE v = w
    BY <2>1, <2>3 DEF RecordOf, SavedInv, FreshInv, Loaded
  <2>4. CASE v # w
    BY <2>2, <2>4 DEF OwnInv, DealInv, Partition
  <2> QED
    BY <2>3, <2>4
<1> QED
  BY <1>1, OwnHolds, PTL

-----------------------------------------------------------------------------
(* DirectEval implements ResultLedger: recording a result is an answer,    *)
(* writing results.json keeps a page, the merge publishes, the end of a    *)
(* process closes the ledger and running it again opens it.  Every other   *)
(* step is a stutter.                                                      *)

\* The mapping, as in the definition of Ledger.
Given == [i \in Instances |-> Known(WorkerOf[i])[i]]

Kept == [i \in Instances |-> file[WorkerOf[i]].results[i]]

\* What evaluate_one is about to return may be recorded of its instance, which has a test.
AnswerInv(w) ==
    /\ pc[w] \in Trying \cup {"finally"} => at[w] \in Generated
    /\ pc[w] \in {"finally", "record"} => result[w] \in AnswersTo(at[w])

\* A results.json that is not whole has nothing.
WholeInv(w) == file[w].state # "saved" => file[w].results = Nothing

LedgerInv == \A w \in WorkerIds : AnswerInv(w) /\ WholeInv(w)

\* What evaluate_one leaves with may be recorded.
LEMMA OutcomeIsAnswer ==
    ASSUME NEW b \in RunStatuses \cup {"NONE"}, NEW i \in Generated
    PROVE  /\ \A s \in {"BUGGY_SETUP_ERROR", "PATCH_APPLY_ERROR", "FIXED_SETUP_ERROR", "ERROR"} :
                 Outcome(s, b, "NONE") \in AnswersTo(i)
           /\ \A f \in RunStatuses : Outcome(Judged(b, f), b, f) \in AnswersTo(i)
<1>1. \A s, f : /\ Outcome(s, b, f).status = s /\ Outcome(s, b, f).buggy = b
                /\ Outcome(s, b, f).fixed = f
  BY DEF Outcome
<1>2. "NONE" # "PASS" /\ "NONE" \notin ClassifyStatuses
  BY DEF ClassifyStatuses
<1>3. ASSUME NEW s \in {"BUGGY_SETUP_ERROR", "PATCH_APPLY_ERROR", "FIXED_SETUP_ERROR", "ERROR"}
      PROVE  Outcome(s, b, "NONE") \in AnswersTo(i)
  <2>1. Outcome(s, b, "NONE") \in Results
    BY OutcomeTypes
  <2> QED
    BY <1>1, <2>1 DEF AnswersTo, Honest
<1>4. ASSUME NEW f \in RunStatuses PROVE Outcome(Judged(b, f), b, f) \in AnswersTo(i)
  <2>1. Outcome(Judged(b, f), b, f) \in Results
    BY OutcomeTypes
  <2>2. Judged(b, f) \in {"F2P_SUCCESS", "BUGGY_PASS", "FIXED_FAIL"}
        /\ (Judged(b, f) = "F2P_SUCCESS" <=> f = "PASS" /\ b # "PASS")
    BY DEF Judged
  <2> QED
    BY <1>1, <2>1, <2>2 DEF AnswersTo, Honest
<1> QED
  BY <1>3, <1>4

LEMMA MissingIsAnswer ==
    ASSUME NEW i \in Instances \ Generated
    PROVE  Outcome("MISSING_GENERATED_TEST", "NONE", "NONE") \in AnswersTo(i)
<1>1. Outcome("MISSING_GENERATED_TEST", "NONE", "NONE") \in Results
  BY OutcomeTypes
<1> QED
  BY <1>1 DEF AnswersTo, Honest, Outcome

LEMMA EvaluationAnswers ==
    ASSUME TypeOK, DealInv, LedgerInv, NEW w \in WorkerIds, Evaluation(w)
    PROVE  LedgerInv'
<1>1. UNCHANGED <<at, file>>
  BY EvaluationHasShape DEF EvaluationShape
<1>2. /\ pc[w] \in Trying \cup {"finally"} /\ pc'[w] \in Trying \cup {"finally", "record"}
      /\ \A v \in WorkerIds \ {w} : pc'[v] = pc[v]
  <2>1. pc[w] \in Trying \cup {"finally"}
        /\ \E to \in Trying \cup {"finally", "record"} : pc' = [pc EXCEPT ![w] = to]
    BY EvaluationHasShape DEF EvaluationShape
  <2>2. DOMAIN pc = WorkerIds
    BY DEF TypeOK
  <2> QED
    BY <2>1, <2>2
<1>3. DOMAIN result = WorkerIds /\ DOMAIN pc = WorkerIds /\ buggy[w] \in RunStatuses \cup {"NONE"}
  BY DEF TypeOK
<1>4. at[w] \in Generated
  BY <1>2 DEF LedgerInv, AnswerInv
<1>5. \A place, to : Goes(w, place, to) => pc[w] = place /\ pc'[w] = to
  BY <1>3 DEF Goes
<1>6. \A v \in WorkerIds \ {w} : result'[v] = result[v]
  BY <1>3, EvaluationOutcome
<1>7. pc'[w] \in {"finally", "record"} => result'[w] \in AnswersTo(at[w])
  <2>1. CASE SetupBuggyFails(w)
    <3>1. result'[w] = Outcome("BUGGY_SETUP_ERROR", "NONE", "NONE")
      BY <1>3, <2>1 DEF SetupBuggyFails
    <3> QED
      BY <1>4, <3>1, OutcomeIsAnswer
  <2>2. CASE ApplyFails(w)
    <3>1. result'[w] = Outcome("PATCH_APPLY_ERROR", buggy[w], "NONE")
      BY <1>3, <2>2 DEF ApplyFails
    <3> QED
      BY <1>3, <1>4, <3>1, OutcomeIsAnswer
  <2>3. CASE SetupFixedFails(w)
    <3>1. result'[w] = Outcome("FIXED_SETUP_ERROR", buggy[w], "NONE")
      BY <1>3, <2>3 DEF SetupFixedFails
    <3> QED
      BY <1>3, <1>4, <3>1, OutcomeIsAnswer
  <2>4. CASE EvaluationRaises(w)
    <3>1. result'[w] = Outcome("ERROR", buggy[w], "NONE")
      BY <1>3, <2>4 DEF EvaluationRaises
    <3> QED
      BY <1>3, <1>4, <3>1, OutcomeIsAnswer
  <2>5. CASE RunFixed(w)
    <3>1. \E f \in RunStatuses : result'[w] = Outcome(Judged(buggy[w], f), buggy[w], f)
      BY <1>3, <2>5 DEF RunFixed
    <3> QED
      BY <1>3, <1>4, <3>1, OutcomeIsAnswer
  <2>6. CASE Finally(w)
    <3>1. pc[w] = "finally" /\ result' = result
      BY <1>5, <2>6 DEF Finally
    <3> QED
      BY <3>1 DEF LedgerInv, AnswerInv
  <2>7. CASE \/ Reset(w) \/ WriteTest(w) \/ SetupBuggy(w) \/ RunBuggy(w) \/ PrePatchReset(w)
             \/ ApplyPatch(w) \/ ApplyFailsOnce(w) \/ RetryReset(w) \/ WriteFixedTest(w)
             \/ SetupFixed(w)
    BY <1>5, <2>7 DEF Reset, WriteTest, SetupBuggy, RunBuggy, PrePatchReset, ApplyPatch,
                      ApplyFailsOnce, RetryReset, WriteFixedTest, SetupFixed
  <2> QED
    BY <2>1, <2>2, <2>3, <2>4, <2>5, <2>6, <2>7 DEF Evaluation
<1>8. AnswerInv(w)'
  BY <1>1, <1>4, <1>7 DEF AnswerInv, AnswersTo
<1>9. \A v \in WorkerIds \ {w} : AnswerInv(v)'
  BY <1>1, <1>2, <1>6 DEF LedgerInv, AnswerInv, AnswersTo
<1>10. \A v \in WorkerIds : WholeInv(v)'
  BY <1>1 DEF LedgerInv, WholeInv
<1> QED
  BY <1>8, <1>9, <1>10 DEF LedgerInv

LEMMA BucketAnswers ==
    ASSUME TypeOK, DealInv, LedgerInv, NEW w \in WorkerIds, Bucket(w)
    PROVE  LedgerInv'
<1>1. /\ DOMAIN pc = WorkerIds /\ DOMAIN at = WorkerIds /\ DOMAIN result = WorkerIds
      /\ DOMAIN file = WorkerIds
  BY DEF TypeOK
<1>2. ASSUME NEW v \in WorkerIds, v # w PROVE AnswerInv(v)' /\ WholeInv(v)'
  <2>1. BucketShape(w)
    BY BucketHasShape
  <2>2. pc'[v] = pc[v] /\ at'[v] = at[v] /\ result'[v] = result[v]
    BY <1>1, <1>2, <2>1 DEF BucketShape
  <2>3. file'[v] = file[v]
    BY <1>1, <1>2, <2>1 DEF BucketShape
  <2> QED
    BY <2>2, <2>3 DEF LedgerInv, AnswerInv, AnswersTo, WholeInv
<1>3. \A place, to : Goes(w, place, to) => pc[w] = place /\ pc'[w] = to
  BY <1>1 DEF Goes
<1>4. AnswerInv(w)'
  <2>1. CASE Begin(w)
    <3>1. PICK i \in Instances \cap Generated : at' = [at EXCEPT ![w] = i]
      BY <2>1 DEF Begin
    <3>2. pc'[w] = "reset" /\ at'[w] \in Generated
      BY <1>1, <1>3, <2>1, <3>1 DEF Begin
    <3> QED
      BY <3>2 DEF AnswerInv
  <2>2. CASE BeginMissing(w)
    <3>1. PICK i \in Instances \ Generated :
             /\ at' = [at EXCEPT ![w] = i]
             /\ result' = [result EXCEPT ![w] = Outcome("MISSING_GENERATED_TEST", "NONE", "NONE")]
      BY <2>2 DEF BeginMissing
    <3>2. pc'[w] = "record"
      BY <1>3, <2>2 DEF BeginMissing
    <3>3. result'[w] \in AnswersTo(at'[w])
      BY <1>1, <3>1, MissingIsAnswer
    <3> QED
      BY <3>2, <3>3 DEF AnswerInv, AnswersTo, Trying, Resetting
  <2>3. CASE \/ Load(w) \/ LoadRaises(w) \/ BeginRaises(w) \/ EndBucket(w) \/ OpenResults(w)
             \/ SaveResults(w)
    <3>1. pc'[w] \in {"next", "raised", "ended", "dump"}
      BY <1>3, <2>3 DEF Load, LoadRaises, BeginRaises, EndBucket, OpenResults, SaveResults
    <3> QED
      BY <3>1 DEF AnswerInv, Trying, Resetting
  <2> QED
    BY <2>1, <2>2, <2>3 DEF Bucket
<1>5. WholeInv(w)'
  <2>1. CASE OpenResults(w)
    BY <1>1, <2>1 DEF OpenResults, WholeInv
  <2>2. CASE SaveResults(w)
    BY <1>1, <2>2 DEF SaveResults, WholeInv
  <2>3. CASE Load(w) \/ LoadRaises(w) \/ Begin(w) \/ BeginMissing(w) \/ BeginRaises(w)
             \/ EndBucket(w)
    BY <2>3 DEF Load, LoadRaises, Begin, BeginMissing, BeginRaises, EndBucket, disk, WholeInv,
                LedgerInv
  <2> QED
    BY <2>1, <2>2, <2>3 DEF Bucket
<1> QED
  BY <1>2, <1>4, <1>5 DEF LedgerInv

LEMMA StepAnswers == TypeOK /\ DealInv /\ LedgerInv /\ [Next]_vars => LedgerInv'
<1> SUFFICES ASSUME TypeOK, DealInv, LedgerInv, [Next]_vars PROVE LedgerInv'
  OBVIOUS
<1>1. CASE \E w \in WorkerIds : Bucket(w) \/ Evaluation(w)
  BY <1>1, BucketAnswers, EvaluationAnswers
<1>2. CASE Merge \/ Fail \/ UNCHANGED vars
  <2>1. UNCHANGED <<pc, at, result, file>>
    BY <1>2 DEF Merge, Fail, vars, workers, disk
  <2> QED
    BY <2>1 DEF LedgerInv, AnswerInv, AnswersTo, WholeInv
<1>3. CASE Kill \/ Rerun
  <2>1. file' = file /\ \A w \in WorkerIds : pc'[w] \in {"load", "idle"}
    BY <1>3 DEF Kill, Rerun, Start, Each, disk
  <2> QED
    BY <2>1 DEF LedgerInv, AnswerInv, WholeInv, Trying, Resetting
<1> QED
  BY <1>1, <1>2, <1>3 DEF Next, Work

\* WorkerOf is the worker an instance was dealt to.
LEMMA WorkerOfIsDealt ==
    ASSUME NEW count, SameBuckets(count), TypeOK, DealInv, NEW i \in Instances
    PROVE  /\ WorkerOf[i] \in Workers /\ WorkerOf[i] \in WorkerIds
           /\ i \in Range(buckets[WorkerOf[i]])
           /\ \A w \in DOMAIN buckets : i \in Range(buckets[w]) => w = WorkerOf[i]
<1>1. (CHOOSE c \in WorkerCounts : TRUE) = count
  BY DEF SameBuckets
<1>2. WorkerOf[i] = CHOOSE w \in DOMAIN buckets : i \in Range(buckets[w])
  BY <1>1 DEF WorkerOf, SameBuckets
<1>3. \E w \in DOMAIN buckets : i \in Range(buckets[w])
  BY DEF DealInv, Partition
<1>4. WorkerOf[i] \in DOMAIN buckets /\ i \in Range(buckets[WorkerOf[i]])
  BY <1>2, <1>3
<1>5. \A w \in DOMAIN buckets : i \in Range(buckets[w]) => w = WorkerOf[i]
  BY <1>4 DEF DealInv, Partition
<1>6. buckets[WorkerOf[i]] # << >>
  BY <1>4 DEF Range
<1> QED
  BY <1>4, <1>5, <1>6 DEF Workers, TypeOK

MapInv(count) == TypeOK /\ DealInv /\ RecordInv /\ OwnInv /\ LedgerInv /\ SameBuckets(count)

LEMMA EvaluationStutters ==
    ASSUME NEW count, MapInv(count), NEW w \in WorkerIds, Evaluation(w)
    PROVE  UNCHANGED <<main, Given, Kept, merged>>
<1>1. UNCHANGED <<main, resume, results, file, merged>>
  BY EvaluationHasShape DEF MapInv, EvaluationShape, process
<1>2. \A v \in WorkerIds : pc'[v] = "load" <=> pc[v] = "load"
  <2>1. pc[w] \in Trying \cup {"finally"}
        /\ \E to \in Trying \cup {"finally", "record"} : pc' = [pc EXCEPT ![w] = to]
    BY EvaluationHasShape DEF MapInv, EvaluationShape
  <2>2. DOMAIN pc = WorkerIds
    BY DEF MapInv, TypeOK
  <2> QED
    BY <2>1, <2>2 DEF Trying, Resetting
<1>3. ASSUME NEW v \in WorkerIds PROVE Known(v)' = Known(v)
  BY <1>1, <1>2 DEF Known
<1>4. \A i \in Instances : WorkerOf[i] \in WorkerIds
  BY WorkerOfIsDealt DEF MapInv
<1> QED
  BY <1>1, <1>3, <1>4 DEF Given, Kept

LEMMA BucketMaps ==
    ASSUME NEW count, MapInv(count), NEW w \in WorkerIds, Bucket(w)
    PROVE  \/ UNCHANGED <<main, Given, Kept, merged>>
           \/ Ledger!Answer \/ Ledger!Keep
<1>1. /\ TypeOK /\ DealInv /\ RecordOf(w) /\ AnswerInv(w) /\ WholeInv(w)
      /\ \A i \in Instances : WorkerOf[i] \in WorkerIds
  BY WorkerOfIsDealt DEF MapInv, RecordInv, LedgerInv
<1>2. /\ pc \in [WorkerIds -> Places] /\ results \in [WorkerIds -> [Instances -> Results]]
      /\ DOMAIN file = WorkerIds
  BY <1>1 DEF TypeOK
<1>3. UNCHANGED <<main, resume, buckets, merged>> /\ main = "running"
  BY <1>1, BucketHasShape DEF BucketShape, process
<1>4. \A place, to : Goes(w, place, to) => pc[w] = place /\ pc' = [pc EXCEPT ![w] = to]
  BY DEF Goes
<1>5. CASE Load(w) \/ LoadRaises(w) \/ Begin(w) \/ BeginMissing(w) \/ BeginRaises(w)
           \/ EndBucket(w)
  <2>1. file' = file
    BY <1>5 DEF Load, LoadRaises, Begin, BeginMissing, BeginRaises, EndBucket, disk
  <2>2. ASSUME NEW v \in WorkerIds, v # w PROVE Known(v)' = Known(v)
    <3>1. pc'[v] = pc[v]
      BY <1>2, <1>4, <1>5, <2>2 DEF Load, LoadRaises, Begin, BeginMissing, BeginRaises, EndBucket
    <3>2. results'[v] = results[v]
      BY <1>2, <1>5, <2>2 DEF Load, LoadRaises, Begin, BeginMissing, BeginRaises, EndBucket
    <3> QED
      BY <1>3, <2>1, <3>1, <3>2 DEF Known
  <2>3. Known(w)' = Known(w)
    <3>1. CASE Load(w)
      <4>1. /\ pc[w] = "load" /\ pc'[w] = "next"
            /\ results'[w] = IF resume THEN file[w].results ELSE Nothing
        BY <1>2, <1>4, <3>1 DEF Load
      <4>2. results[w] = Nothing
        BY <1>1, <4>1 DEF RecordOf, FreshInv
      <4> QED
        BY <1>3, <4>1, <4>2 DEF Known
    <3>2. CASE LoadRaises(w)
      <4>1. /\ pc[w] = "load" /\ pc'[w] = "raised" /\ results' = results
            /\ file[w].state = "truncated"
        BY <1>2, <1>4, <3>2 DEF LoadRaises
      <4>2. results[w] = Nothing /\ file[w].results = Nothing
        BY <1>1, <4>1 DEF RecordOf, FreshInv, WholeInv
      <4> QED
        BY <1>3, <4>1, <4>2 DEF Known
    <3>3. CASE Begin(w) \/ BeginMissing(w) \/ BeginRaises(w) \/ EndBucket(w)
      <4>1. /\ pc[w] = "next" /\ pc'[w] \in {"reset", "record", "raised", "ended"}
            /\ results' = results
        BY <1>2, <1>4, <3>3 DEF Begin, BeginMissing, BeginRaises, EndBucket
      <4> QED
        BY <1>3, <4>1 DEF Known
    <3> QED
      BY <1>5, <3>1, <3>2, <3>3
  <2>4. \A v \in WorkerIds : Known(v)' = Known(v)
    BY <2>2, <2>3
  <2> QED
    BY <1>1, <1>3, <2>1, <2>4 DEF Given, Kept
<1>6. CASE OpenResults(w)
  <2>1. /\ pc[w] = "record" /\ pc' = [pc EXCEPT ![w] = "dump"]
        /\ results' = [results EXCEPT ![w] = [results[w] EXCEPT ![at[w]] = result[w]]]
        /\ file' = [file EXCEPT ![w] = [state |-> "truncated", results |-> Nothing]]
    BY <1>4, <1>6 DEF OpenResults
  <2>2. /\ at[w] \in Instances /\ w \in DOMAIN buckets /\ at[w] \in Range(buckets[w])
        /\ WorkerOf[at[w]] = w
    <3>1. at[w] \in Instances /\ w \in DOMAIN buckets
      BY <1>1, <2>1, AtIsInstance DEF Evaluating
    <3>2. at[w] \in Range(buckets[w])
      BY <1>1, <2>1 DEF DealInv, Evaluating
    <3> QED
      BY <3>1, <3>2, WorkerOfIsDealt DEF MapInv
  <2>3. Given[at[w]] = NoResult
    <3>1. Known(w) = results[w]
      BY <1>3, <2>1 DEF Known
    <3> QED
      BY <1>1, <2>1, <2>2, <3>1 DEF Given, RecordOf, FreshInv
  <2>4. result[w] \in AnswersTo(at[w])
    BY <1>1, <2>1 DEF AnswerInv
  <2>5. Given' = [Given EXCEPT ![at[w]] = result[w]]
    <3>1. ASSUME NEW i \in Instances, i # at[w] PROVE Known(WorkerOf[i])'[i] = Known(WorkerOf[i])[i]
      <4>1. CASE WorkerOf[i] = w
        <5>1. Known(w)' = results'[w] /\ Known(w) = results[w]
          BY <1>2, <1>3, <2>1 DEF Known
        <5>2. results'[w][i] = results[w][i]
          BY <1>2, <2>1, <3>1
        <5> QED
          BY <4>1, <5>1, <5>2
      <4>2. CASE WorkerOf[i] # w
        <5>1. WorkerOf[i] \in WorkerIds
          BY <1>1
        <5>2. /\ pc'[WorkerOf[i]] = pc[WorkerOf[i]] /\ results'[WorkerOf[i]] = results[WorkerOf[i]]
              /\ file'[WorkerOf[i]] = file[WorkerOf[i]]
          BY <1>2, <2>1, <4>2, <5>1
        <5> QED
          BY <1>3, <5>2 DEF Known
      <4> QED
        BY <4>1, <4>2
    <3>2. Known(w)'[at[w]] = result[w]
      <4>1. Known(w)' = results'[w]
        BY <1>2, <1>3, <2>1 DEF Known
      <4>2. results'[w][at[w]] = result[w]
        BY <1>2, <2>1, <2>2
      <4> QED
        BY <4>1, <4>2
    <3> QED
      BY <2>2, <3>1, <3>2 DEF Given
  <2>6. Kept' = [i \in Instances |-> IF WorkerOf[i] = WorkerOf[at[w]] THEN NoResult ELSE Kept[i]]
    <3>1. file'[w].results = Nothing /\ \A v \in WorkerIds \ {w} : file'[v] = file[v]
      BY <1>2, <2>1
    <3> QED
      BY <1>1, <2>2, <3>1 DEF Kept, Nothing
  <2> QED
    BY <1>3, <2>2, <2>3, <2>4, <2>5, <2>6 DEF Ledger!Answer, Given, Kept
<1>7. CASE SaveResults(w)
  <2>1. /\ pc[w] = "dump" /\ pc' = [pc EXCEPT ![w] = "next"] /\ results' = results
        /\ file' = [file EXCEPT ![w] = [state |-> "saved", results |-> results[w]]]
    BY <1>4, <1>7 DEF SaveResults
  <2>2. at[w] \in Instances /\ WorkerOf[at[w]] = w
    <3>1. at[w] \in Instances /\ w \in DOMAIN buckets
      BY <1>1, <2>1, AtIsInstance DEF Evaluating
    <3>2. at[w] \in Range(buckets[w])
      BY <1>1, <2>1 DEF DealInv, Evaluating
    <3> QED
      BY <3>1, <3>2, WorkerOfIsDealt DEF MapInv
  <2>3. Known(w)' = Known(w) /\ Known(w) = results[w]
    BY <1>2, <1>3, <2>1 DEF Known
  <2>4. ASSUME NEW v \in WorkerIds, v # w PROVE Known(v)' = Known(v) /\ file'[v] = file[v]
    BY <1>2, <1>3, <2>1, <2>4 DEF Known
  <2>5. Given' = Given
    BY <1>1, <2>3, <2>4 DEF Given
  <2>6. Kept' = [i \in Instances |-> IF WorkerOf[i] = w THEN Given[i] ELSE Kept[i]]
    <3>1. file'[w].results = results[w]
      BY <1>2, <2>1
    <3> QED
      BY <1>1, <2>3, <2>4, <3>1 DEF Kept, Given
  <2>7. w \in {WorkerOf[i] : i \in Instances}
    BY <2>2
  <2> QED
    BY <1>3, <2>5, <2>6, <2>7 DEF Ledger!Keep, Given, Kept
<1> QED
  BY <1>5, <1>6, <1>7 DEF Bucket

\* The end of a process and its next start.
LEMMA MainMaps ==
    ASSUME NEW count, MapInv(count), MapInv(count)', Merge \/ Fail \/ Kill \/ Rerun
    PROVE  Ledger!Publish \/ Ledger!Close \/ Ledger!Reopen
<1>1. \A i \in Instances : /\ WorkerOf[i] \in WorkerIds /\ WorkerOf[i] \in Workers
                           /\ i \in Range(buckets[WorkerOf[i]])
  BY WorkerOfIsDealt DEF MapInv
<1>3. main' # "running" => Given' = Ledger!Blank
  BY DEF Given, Known, Nothing, Ledger!Blank
<1>4. CASE Merge
  <2>1. /\ main = "running" /\ main' = "done" /\ UNCHANGED <<results, file, buckets>>
        /\ \A w \in Workers : pc[w] = "ended"
    BY <1>4 DEF Merge, workers
  <2>2. ASSUME NEW i \in Instances
        PROVE  Given[i] = results[WorkerOf[i]][i] /\ Kept[i] = Given[i] /\ Given[i] # NoResult
    <3>1. Known(WorkerOf[i]) = results[WorkerOf[i]]
      BY <1>1, <2>1 DEF Known
    <3> QED
      BY <1>1, <1>4, <3>1, FilesAreComplete DEF Given, Kept, MapInv
  <2>3. Kept = Given
    BY <2>2 DEF Given, Kept
  <2>4. merged' = Given
    <3>1. MergedIsComplete'
      BY <1>4, MergeIsComplete DEF MapInv
    <3>2. \A i \in Instances : merged'[i] = results[WorkerOf[i]][i]
      BY <1>1, <2>1, <3>1 DEF MergedIsComplete, Workers
    <3>3. merged' \in [Instances -> Results]
      BY DEF MapInv, TypeOK
    <3> QED
      BY <2>2, <3>2, <3>3 DEF Given
  <2>5. Kept' = Kept
    BY <2>1 DEF Kept
  <2> QED
    BY <1>3, <2>1, <2>2, <2>3, <2>4, <2>5 DEF Ledger!Publish, Given, Kept
<1>5. CASE Fail \/ Kill
  <2>1. main = "running" /\ main' # "running" /\ UNCHANGED <<file, merged>>
    BY <1>5 DEF Fail, Kill, disk
  <2>2. Kept' = Kept
    BY <2>1 DEF Kept
  <2> QED
    BY <1>3, <2>1, <2>2 DEF Ledger!Close, Given, Kept
<1>6. CASE Rerun
  <2>1. /\ main # "running" /\ main' = "running" /\ UNCHANGED <<file, merged>>
        /\ pc' = Start(buckets') /\ results' = Each(Nothing)
    BY <1>6 DEF Rerun, disk
  <2>2. Kept' = Kept
    BY <2>1 DEF Kept
  <2>3. \A i \in Instances : WorkerOf[i] \in Workers' /\ WorkerOf[i] \in WorkerIds
    BY <1>1, <1>6 DEF MapInv, SameBuckets, Workers
  <2>4. ASSUME NEW i \in Instances
        PROVE  pc'[WorkerOf[i]] = "load" /\ results'[WorkerOf[i]] = Nothing
    BY <2>1, <2>3 DEF Start, Each, Workers
  <2>5. Given' = IF resume' THEN Kept ELSE Ledger!Blank
    <3>1. CASE resume'
      <4>1. \A i \in Instances : Known(WorkerOf[i])' = file[WorkerOf[i]].results
        BY <2>1, <2>4, <3>1 DEF Known
      <4> QED
        BY <3>1, <4>1 DEF Given, Kept
    <3>2. CASE ~resume'
      <4>1. \A i \in Instances : Known(WorkerOf[i])' = Nothing
        BY <2>1, <2>4, <3>2 DEF Known
      <4> QED
        BY <3>2, <4>1 DEF Given, Nothing, Ledger!Blank
    <3> QED
      BY <3>1, <3>2
  <2> QED
    BY <2>1, <2>2, <2>5 DEF Ledger!Reopen, Given, Kept
<1> QED
  BY <1>4, <1>5, <1>6

LEMMA StepMaps ==
    ASSUME NEW count, MapInv(count), MapInv(count)', [Next]_vars
    PROVE  [Ledger!LedgerNext]_(Ledger!ledgerVars)
<1>1. CASE \E w \in WorkerIds : Evaluation(w)
  <2>1. UNCHANGED <<main, Given, Kept, merged>>
    BY <1>1, EvaluationStutters
  <2> QED
    BY <2>1 DEF Ledger!ledgerVars, Given, Kept
<1>2. CASE \E w \in WorkerIds : Bucket(w)
  <2>1. UNCHANGED <<main, Given, Kept, merged>> \/ Ledger!Answer \/ Ledger!Keep
    BY <1>2, BucketMaps
  <2> QED
    BY <2>1 DEF Ledger!LedgerNext, Ledger!ledgerVars, Given, Kept
<1>3. CASE Merge \/ Fail \/ Kill \/ Rerun
  <2>1. Ledger!Publish \/ Ledger!Close \/ Ledger!Reopen
    BY <1>3, MainMaps
  <2> QED
    BY <2>1 DEF Ledger!LedgerNext
<1>4. CASE UNCHANGED vars
  <2>1. UNCHANGED <<main, resume, pc, results, file, merged>>
    BY <1>4 DEF vars, workers, disk
  <2>2. \A v : Known(v)' = Known(v)
    BY <2>1 DEF Known
  <2> QED
    BY <2>1, <2>2 DEF Ledger!ledgerVars
<1> QED
  BY <1>1, <1>2, <1>3, <1>4 DEF Next, Work

LEMMA InitMaps ==
    ASSUME NEW count, Init, MapInv(count)
    PROVE  Ledger!LedgerInit
<1>1. /\ main = "running" /\ merged = Nothing
      /\ \A w \in WorkerIds : results[w] = Nothing /\ file[w].results = Nothing
  BY DEF Init, Each, NoFile
<1>2. \A i \in Instances : WorkerOf[i] \in WorkerIds
  BY WorkerOfIsDealt DEF MapInv
<1>3. Given = Nothing /\ Kept = Nothing
  BY <1>1, <1>2 DEF Given, Kept, Known, Nothing
<1> QED
  BY <1>1, <1>3 DEF Ledger!LedgerInit, Ledger!Blank, Given, Kept, Nothing

LEMMA MapHolds ==
    ASSUME NEW count, WorkerCounts = {count}
    PROVE  Spec => []MapInv(count)
<1>1. Init => LedgerInv /\ SameBuckets(count)
  <2>1. Init => LedgerInv
    BY DEF Init, Start, Each, NoFile, LedgerInv, AnswerInv, WholeInv, Trying, Resetting
  <2> QED
    BY <2>1 DEF Init, SameBuckets
<1>2. TypeOK /\ DealInv /\ RecordInv /\ OwnInv /\ LedgerInv /\ SameBuckets(count) /\ [Next]_vars
          => LedgerInv' /\ SameBuckets(count)'
  BY StepAnswers, StepOwn
<1>3. TypeOK /\ DealInv /\ RecordInv /\ OwnInv /\ LedgerInv /\ SameBuckets(count)
          => MapInv(count)
  BY DEF MapInv
<1> QED
  BY <1>1, <1>2, <1>3, OwnHolds, PTL DEF Spec

\* The evaluation implements the ledger if --max_workers stays the same: however workers are
\* interleaved, killed, failing, resumed or begun afresh, run_bucket gives every instance one
\* result, of its kind, takes up what its results.json kept, loses at a kill only the file it
\* was writing, and main publishes the recorded results of all instances.
THEOREM EvaluationImplementsLedger ==
    ASSUME NEW count, WorkerCounts = {count}
    PROVE  Spec => ImplementsLedger
<1>1. Init /\ MapInv(count) => Ledger!LedgerInit
  BY InitMaps
<1>2. MapInv(count) /\ MapInv(count)' /\ [Next]_vars => [Ledger!LedgerNext]_(Ledger!ledgerVars)
  BY StepMaps
<1> QED
  BY <1>1, <1>2, MapHolds, PTL DEF Spec, ImplementsLedger, Ledger!LedgerSpec

-----------------------------------------------------------------------------
(* The end of an evaluation.                                               *)

\* The instances of its bucket that a worker has no result of.
Todo(w) == {i \in Range(buckets[w]) : results[w][i] = NoResult}

\* Steps a worker has ahead until it records the instance at work.
Ahead(w) ==
    IF pc[w] = "load" THEN 16
    ELSE IF pc[w] = "dump" THEN 15
    ELSE IF pc[w] = "next" THEN 14
    ELSE IF pc[w] = "reset" THEN 13
    ELSE IF pc[w] = "write" THEN 12
    ELSE IF pc[w] = "setup" THEN 11
    ELSE IF pc[w] = "run" THEN 10
    ELSE IF pc[w] = "pre_patch" THEN 9
    ELSE IF pc[w] = "apply" THEN 8
    ELSE IF pc[w] = "retry_reset" THEN 7
    ELSE IF pc[w] = "retry_apply" THEN 6
    ELSE IF pc[w] = "write_fixed" THEN 5
    ELSE IF pc[w] = "setup_fixed" THEN 4
    ELSE IF pc[w] = "run_fixed" THEN 3
    ELSE IF pc[w] = "finally" THEN 2
    ELSE IF pc[w] = "record" THEN 1
    ELSE 0

\* A worker comes closer to its end: to the record of an instance, or with it.
WorkerAdvances(w) ==
    \/ Todo(w)' \subseteq Todo(w) /\ Todo(w)' # Todo(w)
    \/ Todo(w)' = Todo(w) /\ Ahead(w)' < Ahead(w)

\* One worker advances and leaves the others alone, or the evaluation is over.
EvaluationAdvances ==
    \/ main = "running" /\ main' # "running"
    \/ \E w \in WorkerIds :
          /\ WorkerAdvances(w)
          /\ \A v \in WorkerIds \ {w} : Todo(v)' = Todo(v) /\ Ahead(v)' = Ahead(v)

LEMMA TryingAdvances ==
    ASSUME TypeOK, DealInv, NEW w \in WorkerIds, Evaluation(w)
    PROVE  WorkerAdvances(w) /\ \A v \in WorkerIds \ {w} : pc'[v] = pc[v]
<1>1. UNCHANGED <<resume, buckets, at, results, file>>
  BY EvaluationHasShape DEF EvaluationShape, process
<1>2. DOMAIN pc = WorkerIds
  BY DEF TypeOK
<1>3. \E to : pc' = [pc EXCEPT ![w] = to]
  BY EvaluationHasShape DEF EvaluationShape
<1>4. \A from, to : Goes(w, from, to) => pc[w] = from /\ pc'[w] = to
  BY <1>2 DEF Goes
<1>5. Ahead(w)' < Ahead(w)
  <2> USE <1>4 DEF Ahead
  <2>1. CASE Reset(w) \/ WriteTest(w) \/ SetupBuggy(w) \/ SetupBuggyFails(w)
    BY <2>1 DEF Reset, WriteTest, SetupBuggy, SetupBuggyFails
  <2>2. CASE RunBuggy(w) \/ PrePatchReset(w) \/ ApplyPatch(w) \/ ApplyFailsOnce(w)
    BY <2>2 DEF RunBuggy, PrePatchReset, ApplyPatch, ApplyFailsOnce
  <2>3. CASE RetryReset(w) \/ ApplyFails(w) \/ WriteFixedTest(w) \/ SetupFixed(w)
    BY <2>3 DEF RetryReset, ApplyFails, WriteFixedTest, SetupFixed
  <2>4. CASE SetupFixedFails(w) \/ RunFixed(w) \/ Finally(w)
    BY <2>4 DEF SetupFixedFails, RunFixed, Finally
  <2>5. CASE EvaluationRaises(w)
    BY <2>5 DEF EvaluationRaises, Trying, Resetting
  <2> QED
    BY <2>1, <2>2, <2>3, <2>4, <2>5 DEF Evaluation
<1> QED
  BY <1>1, <1>2, <1>3, <1>5 DEF WorkerAdvances, Todo

LEMMA BucketAdvances ==
    ASSUME TypeOK, DealInv, RecordInv, NEW w \in WorkerIds, Bucket(w)
    PROVE  WorkerAdvances(w)
<1>1. buckets' = buckets
  BY BucketHasShape DEF BucketShape, process
<1>2. DOMAIN pc = WorkerIds /\ results \in [WorkerIds -> [Instances -> Results]]
  BY DEF TypeOK
<1>3. \A from, to : Goes(w, from, to) => pc[w] = from /\ pc'[w] = to
  BY <1>2 DEF Goes
<1>4. RecordOf(w)
  BY DEF RecordInv
<1>5. CASE Load(w)
  <2>1. pc[w] = "load" /\ pc'[w] = "next"
    BY <1>3, <1>5 DEF Load
  <2>2. w \in DOMAIN buckets /\ Range(buckets[w]) \subseteq Instances
    BY <2>1, DealIsInstances DEF DealInv, Workers
  <2>3. Todo(w) = Range(buckets[w])
    BY <1>4, <2>1, <2>2 DEF RecordOf, FreshInv, Todo, Nothing
  <2>4. Todo(w)' \subseteq Todo(w)
    BY <1>1, <2>3 DEF Todo
  <2>5. Ahead(w)' < Ahead(w)
    BY <2>1 DEF Ahead
  <2> QED
    BY <2>4, <2>5 DEF WorkerAdvances
<1>6. CASE LoadRaises(w) \/ Begin(w) \/ BeginMissing(w) \/ BeginRaises(w) \/ EndBucket(w)
  <2>1. results' = results
    BY <1>6 DEF LoadRaises, Begin, BeginMissing, BeginRaises, EndBucket
  <2>2. Ahead(w)' < Ahead(w)
    <3>1. CASE LoadRaises(w) \/ BeginRaises(w) \/ EndBucket(w)
      BY <1>3, <3>1 DEF LoadRaises, BeginRaises, EndBucket, Ahead
    <3>2. CASE Begin(w) \/ BeginMissing(w)
      BY <1>3, <3>2 DEF Begin, BeginMissing, Ahead
    <3> QED
      BY <1>6, <3>1, <3>2
  <2> QED
    BY <1>1, <2>1, <2>2 DEF WorkerAdvances, Todo
<1>7. CASE OpenResults(w)
  <2>1. pc[w] = "record" /\ results' = [results EXCEPT ![w] = [results[w] EXCEPT ![at[w]] = result[w]]]
    BY <1>3, <1>7 DEF OpenResults
  <2>2. result[w] # NoResult /\ results[w][at[w]] = NoResult
    BY <1>4, <2>1 DEF RecordOf, FreshInv
  <2>3. at[w] \in Instances /\ at[w] \in Range(buckets[w])
    BY <2>1, AtIsInstance DEF DealInv, Evaluating
  <2>4. /\ results'[w][at[w]] = result[w]
        /\ \A i : i # at[w] => results'[w][i] = results[w][i]
    BY <1>2, <2>1, <2>3
  <2>5. Todo(w)' = Todo(w) \ {at[w]} /\ at[w] \in Todo(w)
    BY <1>1, <2>2, <2>3, <2>4 DEF Todo
  <2> QED
    BY <2>5 DEF WorkerAdvances
<1>8. CASE SaveResults(w)
  <2>1. results' = results /\ Ahead(w)' < Ahead(w)
    BY <1>3, <1>8 DEF SaveResults, Ahead
  <2> QED
    BY <1>1, <2>1 DEF WorkerAdvances, Todo
<1> QED
  BY <1>5, <1>6, <1>7, <1>8 DEF Bucket

\* Until the evaluation is run again its steps advance it.
EvaluationGoesOn == [][runs' = runs => EvaluationAdvances]_vars

\* Every step of a worker, failing ones included, brings it closer to the end of its
\* bucket and takes none of the others back: no evaluation of finitely many instances
\* goes on forever.
THEOREM EvaluationsAreBounded == Spec => EvaluationGoesOn
<1>1. TypeOK /\ DealInv /\ RecordInv /\ [Next]_vars => [runs' = runs => EvaluationAdvances]_vars
  <2> SUFFICES ASSUME TypeOK, DealInv, RecordInv, Next, runs' = runs PROVE EvaluationAdvances
    OBVIOUS
  <2>1. ASSUME NEW w \in WorkerIds, Bucket(w) \/ Evaluation(w) PROVE EvaluationAdvances
    <3>1. WorkerAdvances(w)
      BY <2>1, TryingAdvances, BucketAdvances
    <3>2. \A v \in WorkerIds \ {w} : pc'[v] = pc[v] /\ results'[v] = results[v]
      <4>1. CASE Bucket(w)
        <5>1. DOMAIN pc = WorkerIds /\ DOMAIN results = WorkerIds
          BY DEF TypeOK
        <5>2. BucketShape(w)
          BY <4>1, BucketHasShape
        <5>3. \A v \in WorkerIds \ {w} : pc'[v] = pc[v]
          BY <5>1, <5>2 DEF BucketShape
        <5>4. \A v \in WorkerIds \ {w} : results'[v] = results[v]
          BY <5>1, <5>2 DEF BucketShape
        <5> QED
          BY <5>3, <5>4
      <4>2. CASE Evaluation(w)
        BY <4>2, TryingAdvances, EvaluationHasShape DEF EvaluationShape
      <4> QED
        BY <2>1, <4>1, <4>2
    <3>3. buckets' = buckets
      BY <2>1, BucketHasShape, EvaluationHasShape DEF BucketShape, EvaluationShape, process
    <3>4. \A v \in WorkerIds \ {w} : Todo(v)' = Todo(v) /\ Ahead(v)' = Ahead(v)
      BY <3>2, <3>3 DEF Todo, Ahead
    <3> QED
      BY <3>1, <3>4 DEF EvaluationAdvances
  <2>2. CASE Merge \/ Fail \/ Kill
    BY <2>2 DEF Merge, Fail, Kill, EvaluationAdvances
  <2>3. ~Rerun
    BY DEF Rerun, TypeOK
  <2> QED
    BY <2>1, <2>2, <2>3 DEF Next, Work
<1> QED
  BY <1>1, RecordsHold, PTL DEF Spec, EvaluationGoesOn

\* Every worker with a bucket was started.
StartedInv == main = "running" => \A w \in Workers : pc[w] # "idle"

LEMMA StepStarted == TypeOK /\ DealInv /\ StartedInv /\ [Next]_vars => StartedInv'
<1> SUFFICES ASSUME TypeOK, DealInv, StartedInv, [Next]_vars PROVE StartedInv'
  OBVIOUS
<1>1. Workers \subseteq WorkerIds /\ DOMAIN pc = WorkerIds
  BY DEF Workers, TypeOK
<1>2. ASSUME NEW w \in WorkerIds, Bucket(w) PROVE StartedInv'
  <2>1. BucketShape(w)
    BY <1>2, BucketHasShape
  <2>2. buckets' = buckets /\ main' = main
    BY <2>1 DEF BucketShape, process
  <2>3. \A v \in WorkerIds : pc'[v] = "idle" => pc[v] = "idle"
    BY <1>1, <2>1 DEF BucketShape
  <2> QED
    BY <1>1, <2>2, <2>3 DEF StartedInv, Workers
<1>3. ASSUME NEW w \in WorkerIds, Evaluation(w) PROVE StartedInv'
  <2>1. EvaluationShape(w)
    BY <1>3, EvaluationHasShape
  <2>2. buckets' = buckets /\ main' = main
    BY <2>1 DEF EvaluationShape, process
  <2>3. \A v \in WorkerIds : pc'[v] = "idle" => pc[v] = "idle"
    BY <1>1, <2>1 DEF EvaluationShape, Trying, Resetting
  <2> QED
    BY <1>1, <2>2, <2>3 DEF StartedInv, Workers
<1>4. CASE Merge \/ Fail \/ Kill
  BY <1>4 DEF Merge, Fail, Kill, StartedInv
<1>5. CASE Rerun
  <2>1. pc' = Start(buckets') /\ Workers' \subseteq WorkerIds
    <3>1. DOMAIN buckets' \subseteq WorkerIds
      BY <1>5, RestartTypes DEF TypeOK
    <3> QED
      BY <1>5, <3>1 DEF Rerun, Workers
  <2> QED
    BY <2>1 DEF Start, StartedInv, Workers
<1>6. CASE UNCHANGED vars
  BY <1>6 DEF vars, workers, StartedInv, Workers
<1> QED
  BY <1>2, <1>3, <1>4, <1>5, <1>6 DEF Next, Work

\* The main thread waits for nobody who was not started, and once all workers have ended
\* there is an order to merge their files in, or an exception to raise.
NoEvaluationWaitsInVain ==
    main = "running" =>
        \/ \E w \in Workers : pc[w] \in Evaluating \cup {"load", "next"}
        \/ /\ \A w \in Workers : pc[w] = "ended"
           /\ Bijection(1..Cardinality(Workers), Workers) # {}
        \/ /\ \A w \in Workers : pc[w] \in {"ended", "raised"}
           /\ \E w \in Workers : pc[w] = "raised"

\* An evaluation never waits for what does not come, with any number of workers and
\* buckets, empty ones and an empty input included.
THEOREM NoEvaluationGetsStuck == Spec => []NoEvaluationWaitsInVain
<1>1. Init => StartedInv
  <2> SUFFICES ASSUME Init PROVE StartedInv
    OBVIOUS
  <2>1. Workers \subseteq WorkerIds
    BY InitTypes DEF TypeOK, Workers
  <2> QED
    BY <2>1 DEF Init, Start, StartedInv, Workers
<1>2. TypeOK /\ DealInv /\ StartedInv /\ [Next]_vars => StartedInv'
  BY StepStarted
<1>3. TypeOK /\ DealInv /\ StartedInv => NoEvaluationWaitsInVain
  <2> SUFFICES ASSUME TypeOK, DealInv, StartedInv, main = "running"
               PROVE  NoEvaluationWaitsInVain
    BY DEF NoEvaluationWaitsInVain
  <2>1. IsFiniteSet(Workers)
    <3>1. PICK count \in WorkerCounts : Partition(count, buckets)
      BY DEF DealInv
    <3>2. Workers \subseteq 0..(count - 1) /\ count \in Int /\ count - 1 \in Int
      BY <3>1, CountsAssumption DEF Partition, Workers
    <3>3. IsFiniteSet(0..(count - 1))
      BY <3>2, FS_Interval
    <3> QED
      BY <3>2, <3>3, FS_Subset
  <2>2. Bijection(1..Cardinality(Workers), Workers) # {}
    BY <2>1, FS_NatBijection, FS_CardinalityType DEF ExistsBijection
  <2>3. \A w \in Workers : pc[w] \in Evaluating \cup {"load", "next", "ended", "raised"}
    <3>1. \A w \in Workers : pc[w] \in Places /\ pc[w] # "idle"
      BY DEF StartedInv, TypeOK, Workers
    <3> QED
      BY <3>1 DEF Places, Evaluating
  <2> QED
    BY <2>2, <2>3 DEF NoEvaluationWaitsInVain
<1> QED
  BY <1>1, <1>2, <1>3, RecordsHold, PTL DEF Spec
=============================================================================
