------------------------- MODULE InterleavingProofs -------------------------
(***************************************************************************)
(* What is proved of Interleaving, for any instances and any default       *)
(* environments.                                                           *)
(***************************************************************************)
EXTENDS Interleaving, FiniteSetTheorems, TLAPS

Keys == EnvNames \cup Instances

\* Every variable holds a value of its kind, and the buckets are only emptied once all
\* the instances are in them.
TypeInv ==
    /\ pc \in {"fill", "take", "done"}
    /\ default_env \in [Instances -> EnvNames \cup {NoEnv}]
    /\ filled \in 0..Len(Ids)
    /\ buckets \in [Keys -> Seq(Instances)]
    /\ env_order \in Seq(Keys)
    /\ scheduled \in Seq(Instances)
    /\ turn \in Nat \ {0}
    /\ pc = "fill" => scheduled = << >>
    /\ pc # "fill" => filled = Len(Ids)
    /\ pc = "done" => Len(scheduled) >= Len(Ids)

LEMMA BucketIsKey ==
    ASSUME TypeInv, NEW id \in Instances PROVE Bucket(id) \in Keys
BY DEF TypeInv, Bucket, Keys

\* What happens to the lists of the program.
LEMMA AppendIsLonger ==
    ASSUME NEW S, NEW s \in Seq(S), NEW x \in S
    PROVE  /\ Append(s, x) \in Seq(S)
           /\ Len(Append(s, x)) = Len(s) + 1
           /\ DOMAIN s = 1..Len(s) /\ DOMAIN Append(s, x) = 1..(Len(s) + 1)
           /\ \A k \in 1..Len(s) : Append(s, x)[k] = s[k]
           /\ Append(s, x)[Len(s) + 1] = x
OBVIOUS

LEMMA TailIsShorter ==
    ASSUME NEW S, NEW s \in Seq(S), s # << >>
    PROVE  /\ Head(s) = s[1] /\ s[1] \in S /\ 1 \in DOMAIN s
           /\ Tail(s) \in Seq(S)
           /\ \A k \in DOMAIN Tail(s) : k + 1 \in DOMAIN s /\ Tail(s)[k] = s[k + 1]
           /\ DOMAIN s = 1..Len(s) /\ DOMAIN Tail(s) = 1..(Len(s) - 1)
OBVIOUS

LEMMA InitTypeInv == Init => TypeInv
BY IdsAssumption DEF Init, TypeInv, Keys

LEMMA StepTypeInv == TypeInv /\ [Next]_vars => TypeInv'
<1> SUFFICES ASSUME TypeInv, [Next]_vars PROVE TypeInv'
  OBVIOUS
<1>0. Len(Ids) \in Nat /\ \A n \in 1..Len(Ids) : Ids[n] \in Instances
  BY IdsAssumption
<1>1. CASE Fill
  <2> DEFINE id == Ids[filled + 1]
  <2>1. id \in Instances /\ Bucket(id) \in Keys
    BY <1>0, <1>1, BucketIsKey DEF Fill, TypeInv
  <2>2. buckets' = [buckets EXCEPT ![Bucket(id)] = Append(@, id)]
    BY <1>1 DEF Fill
  <2>3. env_order' \in {env_order, Append(env_order, Bucket(id))}
    BY <1>1 DEF Fill
  <2>4. buckets' \in [Keys -> Seq(Instances)]
    BY <2>1, <2>2 DEF TypeInv
  <2>5. env_order' \in Seq(Keys)
    <3>1. env_order \in Seq(Keys)
      BY DEF TypeInv
    <3>2. Append(env_order, Bucket(id)) \in Seq(Keys)
      BY <2>1, <3>1, AppendIsLonger
    <3> QED
      BY <2>3, <3>1, <3>2
  <2>6. /\ filled' \in 0..Len(Ids) /\ pc = "fill"
        /\ UNCHANGED <<pc, default_env, scheduled, turn>>
    BY <1>0, <1>1 DEF Fill, TypeInv
  <2> HIDE DEF id
  <2> QED
    BY <2>4, <2>5, <2>6 DEF TypeInv
<1>2. CASE NewPass
  BY <1>0, <1>2 DEF NewPass, TypeInv
<1>3. CASE Take
  <2> DEFINE e == env_order[turn]
  <2>1. e \in Keys /\ buckets[e] \in Seq(Instances) /\ buckets[e] # << >>
    BY <1>3 DEF Take, TypeInv
  <2>2. Head(buckets[e]) \in Instances /\ Tail(buckets[e]) \in Seq(Instances)
    BY <2>1, TailIsShorter
  <2>3. buckets' \in [Keys -> Seq(Instances)] /\ scheduled' \in Seq(Instances)
    BY <1>3, <2>1, <2>2 DEF Take, TypeInv
  <2> QED
    BY <1>3, <2>3 DEF Take, TypeInv
<1>4. CASE PassOver
  BY <1>4 DEF PassOver, TypeInv
<1>5. CASE UNCHANGED vars
  BY <1>5 DEF vars, TypeInv
<1> QED
  BY <1>1, <1>2, <1>3, <1>4, <1>5 DEF Next

-----------------------------------------------------------------------------
(* Order.                                                                  *)

\* id comes before other in the input.
Before(id, other) == \A m, n \in DOMAIN Ids : Ids[m] = id /\ Ids[n] = other => m < n

\* What is in a bucket belongs there and has been filled in, in the order of the input;
\* what has been taken from it comes before what is left.
OrderInv ==
    /\ \A e \in Keys : \A k \in DOMAIN buckets[e] :
          Bucket(buckets[e][k]) = e /\ \E n \in 1..filled : Ids[n] = buckets[e][k]
    /\ \A e \in Keys : \A k, l \in DOMAIN buckets[e] :
          k < l => Before(buckets[e][k], buckets[e][l])
    /\ \A k \in DOMAIN scheduled, e \in Keys : \A l \in DOMAIN buckets[e] :
          Bucket(scheduled[k]) = e => Before(scheduled[k], buckets[e][l])
    /\ \A k, l \in DOMAIN scheduled :
          k < l /\ Bucket(scheduled[k]) = Bucket(scheduled[l]) => Before(scheduled[k], scheduled[l])

LEMMA InitOrder == Init => OrderInv
BY DEF Init, OrderInv, Keys

\* An instance that is filled in comes after those that are in the buckets.
LEMMA FillKeepsOrder == TypeInv /\ OrderInv /\ Fill => OrderInv'
<1> SUFFICES ASSUME TypeInv, OrderInv, Fill PROVE OrderInv'
  OBVIOUS
<1> DEFINE id == Ids[filled + 1]
           b  == Bucket(id)
<1>1. /\ id \in Instances /\ b \in Keys /\ filled \in Nat /\ filled + 1 \in DOMAIN Ids
      /\ DOMAIN Ids = 1..Len(Ids) /\ Len(Ids) \in Nat
  BY IdsAssumption, BucketIsKey DEF Fill, TypeInv
<1>2. /\ buckets' = [buckets EXCEPT ![b] = Append(buckets[b], id)]
      /\ filled' = filled + 1 /\ default_env' = default_env /\ scheduled' = << >>
  BY DEF Fill, TypeInv
<1>3. buckets \in [Keys -> Seq(Instances)]
  BY DEF TypeInv
<1>4. \A e \in Keys \ {b} : buckets'[e] = buckets[e]
  BY <1>1, <1>2, <1>3
<1>5. /\ DOMAIN buckets[b] = 1..Len(buckets[b]) /\ Len(buckets[b]) \in Nat
      /\ DOMAIN buckets'[b] = 1..(Len(buckets[b]) + 1)
      /\ \A k \in 1..Len(buckets[b]) : buckets'[b][k] = buckets[b][k]
      /\ buckets'[b][Len(buckets[b]) + 1] = id
  BY <1>1, <1>2, <1>3, AppendIsLonger
<1> HIDE DEF id, b
<1>6. ASSUME NEW x, \E n \in 1..filled : Ids[n] = x PROVE Before(x, id)
  BY <1>1, <1>6, IdsAssumption DEF Before, id
<1>7. ASSUME NEW e \in Keys, NEW k \in DOMAIN buckets'[e]
      PROVE  Bucket(buckets'[e][k]) = e /\ \E n \in 1..(filled + 1) : Ids[n] = buckets'[e][k]
  <2>1. CASE e # b
    BY <1>1, <1>4, <1>7, <2>1 DEF OrderInv
  <2>2. CASE e = b /\ k \in 1..Len(buckets[b])
    BY <1>1, <1>5, <2>2 DEF OrderInv
  <2>3. CASE e = b /\ k = Len(buckets[b]) + 1
    <3>1. buckets'[e][k] = id /\ Bucket(id) = b /\ id = Ids[filled + 1]
      BY <1>5, <2>3 DEF b, id
    <3> QED
      BY <1>1, <2>3, <3>1
  <2> QED
    BY <1>5, <1>7, <2>1, <2>2, <2>3
<1>8. ASSUME NEW e \in Keys, NEW k \in DOMAIN buckets'[e], NEW l \in DOMAIN buckets'[e], k < l
      PROVE  Before(buckets'[e][k], buckets'[e][l])
  <2>1. CASE e # b
    BY <1>4, <1>8, <2>1 DEF OrderInv
  <2>2. CASE e = b /\ l \in 1..Len(buckets[b])
    <3>1. k \in DOMAIN buckets[b] /\ l \in DOMAIN buckets[b]
      BY <1>5, <1>8, <2>2
    <3>2. Before(buckets[b][k], buckets[b][l])
      BY <1>1, <1>8, <3>1 DEF OrderInv
    <3> QED
      BY <1>5, <2>2, <3>1, <3>2
  <2>3. CASE e = b /\ l = Len(buckets[b]) + 1
    <3>1. k \in DOMAIN buckets[b]
      BY <1>5, <1>8, <2>3
    <3>2. \E n \in 1..filled : Ids[n] = buckets[b][k]
      BY <1>1, <3>1 DEF OrderInv
    <3> QED
      BY <1>5, <1>6, <2>3, <3>1, <3>2
  <2> QED
    BY <1>5, <1>8, <2>1, <2>2, <2>3
<1>9. \A i : Bucket(i)' = Bucket(i)
  BY <1>2 DEF Bucket
<1> QED
  BY <1>2, <1>7, <1>8, <1>9 DEF OrderInv, Before

\* The first of a bucket comes before the rest of it.
LEMMA TakeKeepsOrder == TypeInv /\ OrderInv /\ Take => OrderInv'
<1> SUFFICES ASSUME TypeInv, OrderInv, Take PROVE OrderInv'
  OBVIOUS
<1> DEFINE b  == env_order[turn]
           id == Head(buckets[b])
<1>1. b \in Keys /\ buckets[b] \in Seq(Instances) /\ buckets[b] # << >>
  BY DEF Take, TypeInv
<1>2. /\ buckets' = [buckets EXCEPT ![b] = Tail(buckets[b])]
      /\ scheduled' = Append(scheduled, id)
      /\ filled' = filled /\ default_env' = default_env
  BY DEF Take
<1>3. buckets \in [Keys -> Seq(Instances)] /\ scheduled \in Seq(Instances)
  BY DEF TypeInv
<1>4. \A e \in Keys \ {b} : buckets'[e] = buckets[e]
  BY <1>1, <1>2, <1>3
<1>5. /\ 1 \in DOMAIN buckets[b] /\ id = buckets[b][1] /\ id \in Instances
      /\ DOMAIN buckets[b] = 1..Len(buckets[b]) /\ Len(buckets[b]) \in Nat
      /\ \A k \in DOMAIN buckets'[b] :
            k \in Nat /\ k + 1 \in DOMAIN buckets[b] /\ buckets'[b][k] = buckets[b][k + 1]
      /\ DOMAIN buckets'[b] = 1..(Len(buckets[b]) - 1)
  BY <1>1, <1>2, <1>3, TailIsShorter
<1>6. /\ DOMAIN scheduled = 1..Len(scheduled) /\ Len(scheduled) \in Nat
      /\ DOMAIN scheduled' = 1..(Len(scheduled) + 1)
      /\ \A k \in 1..Len(scheduled) : scheduled'[k] = scheduled[k]
      /\ scheduled'[Len(scheduled) + 1] = id
  BY <1>2, <1>3, <1>5, AppendIsLonger
<1> HIDE DEF id, b
<1>7. Bucket(id) = b
  BY <1>1, <1>5 DEF OrderInv
<1>8. \A k \in DOMAIN buckets'[b] : Before(id, buckets'[b][k])
  <2> SUFFICES ASSUME NEW k \in DOMAIN buckets'[b] PROVE Before(id, buckets'[b][k])
    OBVIOUS
  <2>1. 1 < k + 1 /\ k + 1 \in DOMAIN buckets[b] /\ buckets'[b][k] = buckets[b][k + 1]
    BY <1>5
  <2> QED
    BY <1>1, <1>5, <2>1 DEF OrderInv
<1>9. ASSUME NEW e \in Keys, NEW k \in DOMAIN buckets'[e]
      PROVE  /\ Bucket(buckets'[e][k]) = e
             /\ \E n \in 1..filled : Ids[n] = buckets'[e][k]
             /\ \A l \in DOMAIN buckets'[e] : k < l => Before(buckets'[e][k], buckets'[e][l])
             /\ \A l \in DOMAIN scheduled :
                   Bucket(scheduled[l]) = e => Before(scheduled[l], buckets'[e][k])
  <2>1. CASE e # b
    BY <1>4, <1>9, <2>1 DEF OrderInv
  <2>2. CASE e = b
    <3>1. k + 1 \in DOMAIN buckets[e] /\ buckets'[e][k] = buckets[e][k + 1] /\ k \in Nat
      BY <1>5, <1>9, <2>2
    <3>2. \A l \in DOMAIN buckets'[e] :
             l \in Nat /\ l + 1 \in DOMAIN buckets[e] /\ buckets'[e][l] = buckets[e][l + 1]
      BY <1>5, <2>2
    <3>3. /\ Bucket(buckets[e][k + 1]) = e
          /\ \E n \in 1..filled : Ids[n] = buckets[e][k + 1]
          /\ \A l \in DOMAIN scheduled :
                Bucket(scheduled[l]) = e => Before(scheduled[l], buckets[e][k + 1])
      BY <3>1 DEF OrderInv
    <3>4. ASSUME NEW l \in DOMAIN buckets'[e], k < l
          PROVE  Before(buckets'[e][k], buckets'[e][l])
      <4>1. Before(buckets[e][k + 1], buckets[e][l + 1])
        <5>1. k + 1 < l + 1 /\ l + 1 \in DOMAIN buckets[e]
          BY <3>1, <3>2, <3>4
        <5> QED
          BY <3>1, <5>1 DEF OrderInv
      <4> QED
        BY <3>1, <3>2, <3>4, <4>1
    <3> QED
      BY <3>1, <3>3, <3>4
  <2> QED
    BY <2>1, <2>2
<1>10. ASSUME NEW k \in DOMAIN scheduled', NEW e \in Keys, NEW l \in DOMAIN buckets'[e],
              Bucket(scheduled'[k]) = e
       PROVE  Before(scheduled'[k], buckets'[e][l])
  <2>1. CASE k \in 1..Len(scheduled)
    BY <1>6, <1>9, <1>10, <2>1
  <2>2. CASE k = Len(scheduled) + 1
    BY <1>6, <1>7, <1>8, <1>10, <2>2
  <2> QED
    BY <1>6, <1>10, <2>1, <2>2
<1>11. ASSUME NEW k \in DOMAIN scheduled', NEW l \in DOMAIN scheduled', k < l,
              Bucket(scheduled'[k]) = Bucket(scheduled'[l])
       PROVE  Before(scheduled'[k], scheduled'[l])
  <2>1. CASE l \in 1..Len(scheduled)
    BY <1>6, <1>11, <2>1 DEF OrderInv
  <2>2. CASE l = Len(scheduled) + 1
    <3>1. k \in DOMAIN scheduled /\ scheduled'[k] = scheduled[k] /\ scheduled'[l] = id
      BY <1>6, <1>11, <2>2
    <3>2. Bucket(scheduled[k]) = b
      BY <1>7, <1>11, <3>1
    <3> QED
      BY <1>1, <1>5, <3>1, <3>2 DEF OrderInv
  <2> QED
    BY <1>6, <1>11, <2>1, <2>2
<1>12. \A i : Bucket(i)' = Bucket(i)
  BY <1>2 DEF Bucket
<1> QED
  BY <1>2, <1>9, <1>10, <1>11, <1>12 DEF OrderInv, Before

LEMMA StepOrder == TypeInv /\ OrderInv /\ [Next]_vars => OrderInv'
<1> SUFFICES ASSUME TypeInv, OrderInv, NewPass \/ PassOver \/ UNCHANGED vars PROVE OrderInv'
  BY FillKeepsOrder, TakeKeepsOrder DEF Next
<1>1. UNCHANGED <<default_env, filled, buckets, scheduled>>
  BY DEF NewPass, PassOver, vars
<1> QED
  BY <1>1 DEF OrderInv, Before, Bucket

LEMMA TypesHold == Spec => []TypeInv
BY InitTypeInv, StepTypeInv, PTL DEF Spec

LEMMA OrderHolds == Spec => []OrderInv
BY InitOrder, StepOrder, TypesHold, PTL DEF Spec

\* Whatever the environments, taking from the buckets in turn keeps the instances of one
\* environment in the order of the input: a bucket is filled and emptied in that order.
THEOREM OrderIsKept == Spec => []OrderWithinEnvironment
<1>1. OrderInv => OrderWithinEnvironment
  BY DEF OrderInv, OrderWithinEnvironment, Before
<1> QED
  BY <1>1, OrderHolds, PTL

\* The instances, and the sets of their positions, have the sizes one expects.
LEMMA Sizes ==
    /\ Len(Ids) \in Nat /\ Ids \in [1..Len(Ids) -> Instances] /\ DOMAIN Ids = 1..Len(Ids)
    /\ IsFiniteSet(Instances) /\ Cardinality(Instances) = Len(Ids)
    /\ \A n \in Nat : IsFiniteSet(1..n) /\ Cardinality(1..n) = n
<1> DEFINE N == Len(Ids)
<1>1. N \in Nat /\ Ids \in [1..N -> Instances] /\ DOMAIN Ids = 1..N
  BY IdsAssumption
<1> HIDE DEF N
<1>2. Ids \in Bijection(1..N, Instances)
  BY <1>1, IdsAssumption DEF Bijection, Injection, IsInjective, Surjection, Instances
<1>3. ASSUME NEW n \in Nat PROVE IsFiniteSet(1..n) /\ Cardinality(1..n) = n
  <2>1. 1 \in Int /\ n \in Int /\ (IF 1 > n THEN 0 ELSE n - 1 + 1) = n
    OBVIOUS
  <2>2. \A m \in Int : IsFiniteSet(1..m) /\ Cardinality(1..m) = IF 1 > m THEN 0 ELSE m - 1 + 1
    BY <2>1, FS_Interval
  <2> QED
    BY <2>1, <2>2
<1>4. IsFiniteSet(Instances) /\ Cardinality(Instances) = N
  <2>1. IsFiniteSet(1..N) /\ Cardinality(1..N) = N
    BY <1>1, <1>3
  <2> QED
    BY <1>2, <2>1, FS_Bijection DEF ExistsBijection
<1> QED
  BY <1>1, <1>3, <1>4 DEF N

\* No instance is scheduled twice, so the schedule has at most all of them, and all of
\* them if it is as long as the input.
LEMMA ScheduleIsShort ==
    ASSUME TypeInv, OrderInv
    PROVE  /\ Len(scheduled) <= Len(Ids)
           /\ Len(scheduled) = Len(Ids)
                => \A id \in Instances : \E k \in DOMAIN scheduled : scheduled[k] = id
<1> DEFINE L == Len(scheduled)
<1>1. L \in Nat /\ scheduled \in [1..L -> Instances] /\ DOMAIN scheduled = 1..L
  BY DEF TypeInv
<1> HIDE DEF L
<1>2. \A k, l \in 1..L : k < l => scheduled[k] # scheduled[l]
  <2> SUFFICES ASSUME NEW k \in 1..L, NEW l \in 1..L, k < l, scheduled[k] = scheduled[l]
               PROVE  FALSE
    OBVIOUS
  <2>1. Before(scheduled[k], scheduled[l])
    BY <1>1 DEF OrderInv
  <2>2. PICK n \in DOMAIN Ids : Ids[n] = scheduled[k]
    BY <1>1 DEF Instances
  <2> QED
    BY <2>1, <2>2, Sizes DEF Before
<1>3. scheduled \in Injection(1..L, Instances)
  BY <1>1, <1>2 DEF Injection, IsInjective
<1>4. L <= Len(Ids) /\ (L = Len(Ids) <=> scheduled \in Surjection(1..L, Instances))
  <2>1. Cardinality(1..L) = L
    BY <1>1, Sizes
  <2> QED
    BY <1>3, <2>1, Sizes, FS_Injection
<1> QED
  BY <1>1, <1>4 DEF Surjection, L

\* When the loop over the buckets ends, the schedule is the given instances, each exactly
\* once: none is dropped by a pass that ends the loop early, and none is taken twice.
THEOREM ScheduleIsComplete == Spec => []ScheduleIsPermutation
<1>1. TypeInv /\ OrderInv => ScheduleIsPermutation
  <2> SUFFICES ASSUME TypeInv, OrderInv, pc = "done"
               PROVE  /\ Len(scheduled) = Len(Ids)
                      /\ \A id \in Instances : \E k \in DOMAIN scheduled : scheduled[k] = id
    BY DEF ScheduleIsPermutation
  <2>1. Len(scheduled) \in Nat /\ Len(scheduled) >= Len(Ids)
    BY DEF TypeInv
  <2> QED
    BY <2>1, Sizes, ScheduleIsShort
<1> QED
  BY <1>1, TypesHold, OrderHolds, PTL

-----------------------------------------------------------------------------
(* Neighbours.                                                             *)

\* The bucket a schedule entry was taken from.
From(k) == Bucket(scheduled[k])

\* Every environment has its turn once in a pass, and nothing is outside their turns.
RoundInv ==
    /\ \A p, q \in DOMAIN env_order : env_order[p] = env_order[q] => p = q
    /\ \A e \in Keys : buckets[e] # << >> => \E p \in DOMAIN env_order : env_order[p] = e

\* The turns between that of the last entry and the next one were passed over.
TurnInv ==
    pc = "take" /\ scheduled # << >> =>
        \A p, q \in DOMAIN env_order :
            /\ env_order[p] = From(Len(scheduled))
            /\ \/ p < q /\ q < turn
               \/ turn <= p /\ (p < q \/ q < turn)
            => buckets[env_order[q]] = << >>

\* After two neighbours of one environment only its bucket is left.
NeighbourInv ==
    \A k \in 1..(Len(scheduled) - 1) :
        From(k) = From(k + 1) =>
            /\ \A l \in DOMAIN scheduled : l > k => From(l) = From(k)
            /\ \A e \in Keys : e # From(k) => buckets[e] = << >>

LEMMA InitNeighbours == Init => RoundInv /\ TurnInv /\ NeighbourInv
BY DEF Init, RoundInv, TurnInv, NeighbourInv, Keys

\* A bucket that gets its first instance gets its turn with it.
LEMMA FillKeepsNeighbours ==
    TypeInv /\ RoundInv /\ Fill => RoundInv' /\ TurnInv' /\ NeighbourInv'
<1> SUFFICES ASSUME TypeInv, RoundInv, Fill PROVE RoundInv' /\ TurnInv' /\ NeighbourInv'
  OBVIOUS
<1> DEFINE id == Ids[filled + 1]
           b  == Bucket(id)
<1>1. id \in Instances /\ b \in Keys
  BY IdsAssumption, BucketIsKey DEF Fill, TypeInv
<1>2. /\ buckets' = [buckets EXCEPT ![b] = Append(buckets[b], id)]
      /\ env_order' = IF \E k \in DOMAIN env_order : env_order[k] = b
                      THEN env_order ELSE Append(env_order, b)
      /\ scheduled' = << >>
  BY DEF Fill, TypeInv
<1>3. buckets \in [Keys -> Seq(Instances)] /\ env_order \in Seq(Keys)
  BY DEF TypeInv
<1>4. \A e \in Keys \ {b} : buckets'[e] = buckets[e]
  BY <1>1, <1>2, <1>3
<1> HIDE DEF id, b
<1>5. /\ DOMAIN env_order = 1..Len(env_order) /\ Len(env_order) \in Nat
      /\ DOMAIN Append(env_order, b) = 1..(Len(env_order) + 1)
      /\ \A k \in 1..Len(env_order) : Append(env_order, b)[k] = env_order[k]
      /\ Append(env_order, b)[Len(env_order) + 1] = b
  BY <1>1, <1>3, AppendIsLonger
<1>6. RoundInv'
  <2>1. CASE \E k \in DOMAIN env_order : env_order[k] = b
    <3>1. env_order' = env_order
      BY <1>2, <2>1
    <3> QED
      BY <1>4, <2>1, <3>1 DEF RoundInv
  <2>2. CASE ~ \E k \in DOMAIN env_order : env_order[k] = b
    <3>1. env_order' = Append(env_order, b)
      BY <1>2, <2>2
    <3>2. \A p, q \in DOMAIN env_order' : env_order'[p] = env_order'[q] => p = q
      BY <1>5, <2>2, <3>1 DEF RoundInv
    <3>3. ASSUME NEW e \in Keys, buckets'[e] # << >>
          PROVE  \E p \in DOMAIN env_order' : env_order'[p] = e
      <4>1. CASE e = b
        BY <1>5, <3>1, <4>1
      <4>2. CASE e # b
        BY <1>4, <1>5, <3>1, <3>3, <4>2 DEF RoundInv
      <4> QED
        BY <4>1, <4>2
    <3> QED
      BY <3>2, <3>3 DEF RoundInv
  <2> QED
    BY <2>1, <2>2
<1> QED
  BY <1>2, <1>6 DEF TurnInv, NeighbourInv

\* Two entries in a row from one bucket mean that a whole pass found nothing else.
LEMMA TakeKeepsNeighbours ==
    TypeInv /\ OrderInv /\ RoundInv /\ TurnInv /\ NeighbourInv /\ Take
        => RoundInv' /\ TurnInv' /\ NeighbourInv'
<1> SUFFICES ASSUME TypeInv, OrderInv, RoundInv, TurnInv, NeighbourInv, Take
             PROVE  RoundInv' /\ TurnInv' /\ NeighbourInv'
  OBVIOUS
<1> DEFINE b  == env_order[turn]
           id == Head(buckets[b])
           L  == Len(scheduled)
<1>1. /\ b \in Keys /\ buckets[b] \in Seq(Instances) /\ buckets[b] # << >>
      /\ turn \in DOMAIN env_order /\ DOMAIN env_order \subseteq Nat
      /\ pc = "take" /\ turn' = turn + 1 /\ env_order' = env_order
  BY DEF Take, TypeInv
<1>2. /\ buckets' = [buckets EXCEPT ![b] = Tail(buckets[b])]
      /\ scheduled' = Append(scheduled, id) /\ default_env' = default_env
  BY DEF Take
<1>3. buckets \in [Keys -> Seq(Instances)] /\ scheduled \in Seq(Instances)
  BY DEF TypeInv
<1>4. \A e \in Keys \ {b} : buckets'[e] = buckets[e]
  BY <1>1, <1>2, <1>3
<1>5. 1 \in DOMAIN buckets[b] /\ id = buckets[b][1] /\ id \in Instances
  BY <1>1, TailIsShorter
<1>6. /\ L \in Nat /\ DOMAIN scheduled = 1..L
      /\ Len(scheduled') = L + 1 /\ DOMAIN scheduled' = 1..(L + 1)
      /\ \A k \in 1..L : scheduled'[k] = scheduled[k]
      /\ scheduled'[L + 1] = id
  BY <1>2, <1>3, <1>5, AppendIsLonger
<1> HIDE DEF id, b, L
<1>7. Bucket(id) = b
  BY <1>1, <1>5 DEF OrderInv
<1>8. (\A k \in 1..L : Bucket(scheduled'[k]) = From(k)) /\ Bucket(scheduled'[L + 1]) = b
  BY <1>6, <1>7 DEF From
<1>9. RoundInv'
  BY <1>1, <1>4 DEF RoundInv
<1>10. TurnInv'
  <2> SUFFICES ASSUME NEW p \in DOMAIN env_order, NEW q \in DOMAIN env_order,
                      env_order[p] = b,
                      \/ p < q /\ q < turn + 1
                      \/ turn + 1 <= p /\ (p < q \/ q < turn + 1)
               PROVE  FALSE
    <3>1. From(Len(scheduled))' = Bucket(scheduled'[L + 1])
      BY <1>2, <1>6 DEF From, Bucket
    <3> QED
      BY <1>1, <1>8, <3>1 DEF TurnInv
  <2>1. p = turn
    BY <1>1 DEF RoundInv, b
  <2> QED
    BY <1>1, <2>1
<1>11. NeighbourInv'
  <2>0. \A i : Bucket(i)' = Bucket(i)
    BY <1>2 DEF Bucket
  <2> SUFFICES ASSUME NEW k \in 1..L, Bucket(scheduled'[k]) = Bucket(scheduled'[k + 1])
               PROVE  /\ \A l \in 1..(L + 1) :
                            l > k => Bucket(scheduled'[l]) = Bucket(scheduled'[k])
                      /\ \A e \in Keys : e # Bucket(scheduled'[k]) => buckets'[e] = << >>
    <3>1. 1..(Len(scheduled') - 1) = 1..L
      BY <1>6
    <3> QED
      BY <1>2, <1>6, <3>1 DEF NeighbourInv, From, Bucket
  <2>1. CASE k = L
    <3>1. From(L) = b /\ scheduled # << >>
      BY <1>6, <1>8, <2>1
    <3>2. ASSUME NEW e \in Keys, e # b, buckets[e] # << >> PROVE FALSE
      <4>1. PICK q \in DOMAIN env_order : env_order[q] = e
        BY <3>2 DEF RoundInv
      <4>2. q # turn /\ (turn < q \/ q < turn)
        BY <1>1, <3>2, <4>1 DEF b
      <4>3. turn <= turn /\ env_order[turn] = From(L)
        BY <1>1, <3>1 DEF b
      <4> QED
        BY <1>1, <3>1, <3>2, <4>1, <4>2, <4>3 DEF TurnInv, L
    <3> QED
      BY <1>4, <1>6, <1>8, <2>1, <3>1, <3>2
  <2>2. CASE k \in 1..(L - 1)
    <3>1. k \in 1..L /\ k + 1 \in 1..L /\ From(k) = From(k + 1)
      BY <1>6, <1>8, <2>2
    <3>2. /\ \A l \in 1..L : l > k => From(l) = From(k)
          /\ \A e \in Keys : e # From(k) => buckets[e] = << >>
      BY <1>6, <2>2, <3>1 DEF NeighbourInv, L
    <3>3. From(k) = b
      BY <1>1, <3>2
    <3> QED
      <4>1. ASSUME NEW l \in 1..(L + 1), l > k
            PROVE  Bucket(scheduled'[l]) = Bucket(scheduled'[k])
        <5>1. CASE l \in 1..L
          BY <1>8, <3>1, <3>2, <4>1, <5>1
        <5>2. CASE l = L + 1
          BY <1>8, <3>1, <3>3, <5>2
        <5> QED
          BY <1>6, <5>1, <5>2
      <4> QED
        BY <1>4, <1>8, <3>1, <3>2, <3>3, <4>1
  <2> QED
    BY <1>6, <2>1, <2>2
<1> QED
  BY <1>9, <1>10, <1>11

LEMMA StepNeighbours ==
    TypeInv /\ OrderInv /\ RoundInv /\ TurnInv /\ NeighbourInv /\ [Next]_vars
        => RoundInv' /\ TurnInv' /\ NeighbourInv'
<1> SUFFICES ASSUME TypeInv, RoundInv, TurnInv, NeighbourInv,
                    NewPass \/ PassOver \/ UNCHANGED vars
             PROVE  RoundInv' /\ TurnInv' /\ NeighbourInv'
  BY FillKeepsNeighbours, TakeKeepsNeighbours DEF Next
<1>1. UNCHANGED <<default_env, buckets, env_order, scheduled>>
  BY DEF NewPass, PassOver, vars
<1>2. RoundInv' /\ NeighbourInv'
  BY <1>1 DEF RoundInv, NeighbourInv, From, Bucket
<1>3. TurnInv' <=>
        (pc' = "take" /\ scheduled # << >> =>
            \A p, q \in DOMAIN env_order :
                /\ env_order[p] = From(Len(scheduled))
                /\ \/ p < q /\ q < turn'
                   \/ turn' <= p /\ (p < q \/ q < turn')
                => buckets[env_order[q]] = << >>)
  BY <1>1 DEF TurnInv, From, Bucket
<1>4. /\ DOMAIN env_order = 1..Len(env_order) /\ Len(env_order) \in Nat
      /\ turn \in Nat \ {0}
  BY DEF TypeInv
<1>5. CASE NewPass
  <2>1. turn' = 1 /\ (pc = "fill" \/ (pc = "take" /\ turn > Len(env_order)))
    BY <1>5 DEF NewPass
  <2>2. CASE pc = "fill"
    <3>1. scheduled = << >>
      BY <2>2 DEF TypeInv
    <3> QED
      BY <1>2, <1>3, <3>1
  <2>3. CASE pc = "take" /\ turn > Len(env_order)
    <3> SUFFICES ASSUME NEW p \in DOMAIN env_order, NEW q \in DOMAIN env_order,
                        scheduled # << >>, env_order[p] = From(Len(scheduled)), p < q
                 PROVE  buckets[env_order[q]] = << >>
      BY <1>2, <1>3, <1>4, <2>1
    <3>1. p < q /\ q < turn
      BY <1>4, <2>3
    <3> QED
      BY <2>3, <3>1 DEF TurnInv
  <2> QED
    BY <2>1, <2>2, <2>3
<1>6. CASE PassOver
  <2>1. /\ pc = "take" /\ pc' = "take" /\ turn' = turn + 1
        /\ buckets[env_order[turn]] = << >>
    BY <1>6 DEF PassOver
  <2> SUFFICES ASSUME NEW p \in DOMAIN env_order, NEW q \in DOMAIN env_order,
                      scheduled # << >>, env_order[p] = From(Len(scheduled)),
                      \/ p < q /\ q < turn + 1
                      \/ turn + 1 <= p /\ (p < q \/ q < turn + 1)
               PROVE  buckets[env_order[q]] = << >>
    BY <1>2, <1>3, <2>1
  <2>2. CASE q = turn
    BY <2>1, <2>2
  <2>3. CASE q # turn
    <3>1. \/ p < q /\ q < turn
          \/ turn <= p /\ (p < q \/ q < turn)
      BY <1>4, <2>3
    <3> QED
      BY <2>1, <3>1 DEF TurnInv
  <2> QED
    BY <2>2, <2>3
<1>7. CASE UNCHANGED vars
  <2>1. pc' = pc /\ turn' = turn
    BY <1>7 DEF vars
  <2> QED
    BY <1>2, <1>3, <2>1 DEF TurnInv
<1> QED
  BY <1>2, <1>5, <1>6, <1>7

\* The round robin over the environments schedules two instances of one environment in a
\* row only when no instance of another environment is left to be put between them.
THEOREM NeighboursDiffer == Spec => []NeighboursShareOnlyAtTheEnd
<1>1. NeighbourInv => NeighboursShareOnlyAtTheEnd
  BY DEF NeighbourInv, NeighboursShareOnlyAtTheEnd, From
<1>2. Spec => [](RoundInv /\ TurnInv /\ NeighbourInv)
  BY InitNeighbours, StepNeighbours, TypesHold, OrderHolds, PTL DEF Spec
<1> QED
  BY <1>1, <1>2, PTL

-----------------------------------------------------------------------------
(* The end of the loops.                                                   *)

IsScheduled(id) == \E k \in DOMAIN scheduled : scheduled[k] = id
IsInBucket(id)  == \E e \in Keys : \E k \in DOMAIN buckets[e] : buckets[e][k] = id

\* What has been filled in is in the schedule or still in a bucket.
LeftInv == \A n \in 1..filled : IsScheduled(Ids[n]) \/ IsInBucket(Ids[n])

LEMMA FillKeepsLeft == TypeInv /\ LeftInv /\ Fill => LeftInv'
<1> SUFFICES ASSUME TypeInv, LeftInv, Fill, NEW n \in 1..(filled + 1)
             PROVE  (IsScheduled(Ids[n]) \/ IsInBucket(Ids[n]))'
  BY DEF LeftInv, Fill
<1> DEFINE id == Ids[filled + 1]
           b  == Bucket(id)
<1>1. id \in Instances /\ b \in Keys
  BY IdsAssumption, BucketIsKey DEF Fill, TypeInv
<1>2. buckets' = [buckets EXCEPT ![b] = Append(buckets[b], id)] /\ scheduled' = scheduled
  BY DEF Fill, TypeInv
<1>3. buckets \in [Keys -> Seq(Instances)] /\ filled \in Nat
  BY DEF TypeInv
<1>4. (\A e \in Keys \ {b} : buckets'[e] = buckets[e]) /\ buckets'[b] = Append(buckets[b], id)
  BY <1>1, <1>2, <1>3
<1> HIDE DEF b
<1>5. /\ \A k \in DOMAIN buckets[b] : k \in DOMAIN buckets'[b] /\ buckets'[b][k] = buckets[b][k]
      /\ \E k \in DOMAIN buckets'[b] : buckets'[b][k] = id
  <2>1. buckets[b] \in Seq(Instances) /\ Len(buckets[b]) \in Nat
    BY <1>1, <1>3
  <2>2. /\ DOMAIN buckets[b] = 1..Len(buckets[b]) /\ DOMAIN buckets'[b] = 1..(Len(buckets[b]) + 1)
        /\ \A k \in 1..Len(buckets[b]) : buckets'[b][k] = buckets[b][k]
        /\ buckets'[b][Len(buckets[b]) + 1] = id
    BY <1>1, <1>4, <2>1, AppendIsLonger
  <2> QED
    BY <2>1, <2>2
<1>6. CASE n = filled + 1
  BY <1>1, <1>5, <1>6 DEF IsInBucket
<1>7. CASE n \in 1..filled
  <2>1. IsScheduled(Ids[n]) => IsScheduled(Ids[n])'
    BY <1>2 DEF IsScheduled
  <2>2. IsInBucket(Ids[n]) => IsInBucket(Ids[n])'
    BY <1>1, <1>4, <1>5 DEF IsInBucket
  <2> QED
    BY <1>7, <2>1, <2>2 DEF LeftInv
<1> QED
  BY <1>3, <1>6, <1>7

\* The head of a bucket goes into the schedule, and the rest of it stays.
LEMMA TakeKeepsLeft == TypeInv /\ LeftInv /\ Take => LeftInv'
<1> SUFFICES ASSUME TypeInv, LeftInv, Take, NEW n \in 1..filled
             PROVE  (IsScheduled(Ids[n]) \/ IsInBucket(Ids[n]))'
  BY DEF LeftInv, Take
<1> DEFINE b  == env_order[turn]
           id == Head(buckets[b])
<1>1. b \in Keys /\ buckets[b] \in Seq(Instances) /\ buckets[b] # << >>
  BY DEF Take, TypeInv
<1>2. buckets' = [buckets EXCEPT ![b] = Tail(buckets[b])] /\ scheduled' = Append(scheduled, id)
  BY DEF Take
<1>3. buckets \in [Keys -> Seq(Instances)] /\ scheduled \in Seq(Instances)
  BY DEF TypeInv
<1>4. (\A e \in Keys \ {b} : buckets'[e] = buckets[e]) /\ buckets'[b] = Tail(buckets[b])
  BY <1>1, <1>2, <1>3
<1>5. id = buckets[b][1] /\ id \in Instances
  BY <1>1, TailIsShorter
<1>6. /\ Len(buckets[b]) \in Nat
      /\ DOMAIN buckets[b] = 1..Len(buckets[b]) /\ DOMAIN Tail(buckets[b]) = 1..(Len(buckets[b]) - 1)
      /\ \A k \in DOMAIN Tail(buckets[b]) : Tail(buckets[b])[k] = buckets[b][k + 1]
  BY <1>1, TailIsShorter
<1> HIDE DEF b, id
<1>7. /\ Len(scheduled) \in Nat /\ DOMAIN scheduled = 1..Len(scheduled)
      /\ DOMAIN scheduled' = 1..(Len(scheduled) + 1)
      /\ \A k \in 1..Len(scheduled) : scheduled'[k] = scheduled[k]
      /\ scheduled'[Len(scheduled) + 1] = id
  BY <1>2, <1>3, <1>5, AppendIsLonger
<1>8. IsScheduled(Ids[n]) => IsScheduled(Ids[n])'
  BY <1>7 DEF IsScheduled
<1>9. ASSUME NEW e \in Keys, NEW k \in DOMAIN buckets[e], buckets[e][k] = Ids[n]
      PROVE  (IsScheduled(Ids[n]) \/ IsInBucket(Ids[n]))'
  <2>1. CASE e # b
    BY <1>4, <1>9, <2>1 DEF IsInBucket
  <2>2. CASE e = b /\ k = 1
    <3>1. Len(scheduled) + 1 \in DOMAIN scheduled'
      BY <1>7
    <3> QED
      BY <1>5, <1>7, <1>9, <2>2, <3>1 DEF IsScheduled
  <2>3. CASE e = b /\ k # 1
    <3>1. k - 1 \in DOMAIN Tail(buckets[b]) /\ (k - 1) + 1 = k
      BY <1>6, <1>9, <2>3
    <3>2. Tail(buckets[b])[k - 1] = Ids[n]
      BY <1>6, <1>9, <2>3, <3>1
    <3> QED
      BY <1>1, <1>4, <3>1, <3>2 DEF IsInBucket
  <2> QED
    BY <2>1, <2>2, <2>3
<1> QED
  BY <1>8, <1>9 DEF LeftInv, IsInBucket

LEMMA LeftHolds == Spec => []LeftInv
<1>1. Init => LeftInv
  BY DEF Init, LeftInv
<1>2. LeftInv /\ (NewPass \/ PassOver \/ UNCHANGED vars) => LeftInv'
  BY DEF LeftInv, IsScheduled, IsInBucket, NewPass, PassOver, vars
<1>3. TypeInv /\ LeftInv /\ [Next]_vars => LeftInv'
  BY <1>2, FillKeepsLeft, TakeKeepsLeft DEF Next
<1> QED
  BY <1>1, <1>3, TypesHold, PTL DEF Spec

\* While the schedule is short some environment's bucket is not empty.
LEMMA SomethingIsLeft ==
    ASSUME TypeInv, LeftInv, RoundInv, filled = Len(Ids), Len(scheduled) < Len(Ids)
    PROVE  \E k \in DOMAIN env_order : buckets[env_order[k]] # << >>
<1> DEFINE L == Len(scheduled)
<1>1. /\ L \in Nat /\ L < Len(Ids)
      /\ scheduled \in [1..L -> Instances] /\ DOMAIN scheduled = 1..L
  BY DEF TypeInv
<1> HIDE DEF L
<1>2. scheduled \notin Surjection(1..L, Instances)
  <2> SUFFICES ASSUME scheduled \in Surjection(1..L, Instances) PROVE FALSE
    OBVIOUS
  <2>1. Cardinality(Instances) <= Cardinality(1..L)
    BY <1>1, Sizes, FS_Surjection
  <2> QED
    BY <1>1, <2>1, Sizes
<1>3. PICK id \in Instances : ~IsScheduled(id)
  BY <1>1, <1>2 DEF Surjection, IsScheduled
<1>4. PICK n \in 1..Len(Ids) : Ids[n] = id
  BY Sizes DEF Instances
<1>5. IsInBucket(id)
  BY <1>3, <1>4 DEF LeftInv
<1>6. PICK e \in Keys : buckets[e] # << >>
  <2>1. PICK e \in Keys : \E k \in DOMAIN buckets[e] : buckets[e][k] = id
    BY <1>5 DEF IsInBucket
  <2>2. buckets[e] # << >>
    BY <2>1
  <2> QED
    BY <2>2
<1> QED
  BY <1>6 DEF RoundInv

\* In this pass there is still something to take.
PassTakes == \E k \in DOMAIN env_order : k >= turn /\ buckets[env_order[k]] # << >>

TurnsLeft == Len(env_order) - turn

\* A step fills in an instance, ends a loop, takes an instance, begins a pass that will
\* take one after a pass that has no more to take, or goes on to the next turn and
\* leaves what the pass has to take.
Advances ==
    \/ pc' = "fill" /\ filled' = filled + 1
    \/ pc = "fill" /\ pc' # "fill"
    \/ pc = "take" /\ pc' = "done"
    \/ Len(scheduled') = Len(scheduled) + 1
    \/ scheduled' = scheduled /\ ~PassTakes /\ PassTakes'
    \/ scheduled' = scheduled /\ (PassTakes => PassTakes') /\ TurnsLeft' = TurnsLeft - 1 /\ TurnsLeft >= 0

ScheduleGoesOn == [][pc # "done" /\ Advances]_vars

LEMMA StepAdvances == TypeInv /\ LeftInv /\ RoundInv /\ Next => pc # "done" /\ Advances
<1> SUFFICES ASSUME TypeInv, LeftInv, RoundInv, Next PROVE pc # "done" /\ Advances
  OBVIOUS
<1>0. /\ env_order \in Seq(Keys) /\ scheduled \in Seq(Instances)
      /\ DOMAIN env_order = 1..Len(env_order) /\ Len(env_order) \in Nat /\ turn \in Nat \ {0}
  BY DEF TypeInv
<1>1. CASE Fill
  BY <1>1 DEF Fill, Advances
<1>2. CASE NewPass
  <2>1. CASE pc = "fill"
    BY <1>2, <2>1 DEF NewPass, Advances
  <2>2. CASE pc = "take" /\ pc' = "done"
    BY <2>2 DEF Advances
  <2>3. CASE pc = "take" /\ pc' # "done"
    <3>1. /\ turn > Len(env_order) /\ turn' = 1 /\ Len(scheduled) < Len(Ids)
          /\ buckets' = buckets /\ env_order' = env_order /\ scheduled' = scheduled
      BY <1>2, <2>3 DEF NewPass
    <3>2. ~PassTakes
      BY <1>0, <3>1 DEF PassTakes
    <3>3. PICK k \in DOMAIN env_order : buckets[env_order[k]] # << >>
      BY <2>3, <3>1, SomethingIsLeft DEF TypeInv
    <3>4. k >= 1
      BY <1>0
    <3>5. PassTakes'
      BY <3>1, <3>3, <3>4 DEF PassTakes
    <3> QED
      BY <2>3, <3>1, <3>2, <3>5 DEF Advances
  <2> QED
    BY <1>2, <2>1, <2>2, <2>3 DEF NewPass
<1>3. CASE Take
  <2>1. Len(scheduled') = Len(scheduled) + 1
    <3>1. buckets[env_order[turn]] \in Seq(Instances) /\ buckets[env_order[turn]] # << >>
      BY <1>0, <1>3 DEF Take, TypeInv
    <3>2. Head(buckets[env_order[turn]]) \in Instances
      BY <3>1
    <3> QED
      BY <1>0, <1>3, <3>2 DEF Take
  <2> QED
    BY <1>3, <2>1 DEF Take, Advances
<1>4. CASE PassOver
  <2>1. /\ pc = "take" /\ turn <= Len(env_order) /\ buckets[env_order[turn]] = << >>
        /\ turn' = turn + 1 /\ scheduled' = scheduled
        /\ buckets' = buckets /\ env_order' = env_order
    BY <1>4 DEF PassOver
  <2>2. TurnsLeft' = TurnsLeft - 1 /\ TurnsLeft >= 0
    BY <1>0, <2>1 DEF TurnsLeft
  <2>3. ASSUME NEW k \in DOMAIN env_order, k >= turn, buckets[env_order[k]] # << >>
        PROVE  PassTakes'
    <3>1. k # turn
      BY <2>1, <2>3
    <3>2. k >= turn'
      BY <1>0, <2>1, <2>3, <3>1
    <3> QED
      BY <2>1, <2>3, <3>2 DEF PassTakes
  <2>4. PassTakes => PassTakes'
    BY <2>3 DEF PassTakes
  <2> QED
    BY <2>1, <2>2, <2>4 DEF Advances
<1> QED
  BY <1>1, <1>2, <1>3, <1>4 DEF Next

\* `while len(scheduled) < len(instances)` ends: no pass over the environments goes by
\* without an instance while one is missing, since every instance is in the schedule or
\* in a bucket that has its turn.  Steps go on in lexicographic order of loops, of
\* instances scheduled, of passes that still take one before those that do not, and of
\* turns; and the schedule never grows longer than the input.
THEOREM SchedulingIsBounded ==
    Spec => ScheduleGoesOn /\ [](filled <= Len(Ids) /\ Len(scheduled) <= Len(Ids))
<1>1. TypeInv /\ LeftInv /\ RoundInv /\ [Next]_vars => [pc # "done" /\ Advances]_vars
  BY StepAdvances
<1>2. Spec => [](RoundInv /\ TurnInv /\ NeighbourInv)
  BY InitNeighbours, StepNeighbours, TypesHold, OrderHolds, PTL DEF Spec
<1>3. TypeInv /\ OrderInv => filled <= Len(Ids) /\ Len(scheduled) <= Len(Ids)
  <2>1. Len(Ids) \in Nat
    BY Sizes
  <2>2. TypeInv => filled <= Len(Ids)
    BY <2>1 DEF TypeInv
  <2> QED
    BY <2>2, ScheduleIsShort
<1> QED
  BY <1>1, <1>2, <1>3, TypesHold, OrderHolds, LeftHolds, PTL DEF Spec, ScheduleGoesOn
=============================================================================
