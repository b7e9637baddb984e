---------------------------- MODULE Interleaving ----------------------------
(***************************************************************************)
(* _interleave_by_conda_env of pipeline/run.py: the instances of a batch   *)
(* are put into buckets, one per default conda environment, and then taken *)
(* from the buckets in turn, so that workers seldom wait for one another's *)
(* environment.                                                            *)
(***************************************************************************)
EXTENDS Integers, Sequences

CONSTANTS
    Ids,        \* the instances in the order of the input, each once
    EnvNames,   \* default environment names
    NoEnv       \* an instance without repository or version

Instances == {Ids[n] : n \in DOMAIN Ids}

ASSUME IdsAssumption == Ids \in Seq(Instances) /\ \A m, n \in DOMAIN Ids : Ids[m] = Ids[n] => m = n
ASSUME EnvAssumption == NoEnv \notin EnvNames /\ EnvNames \cap Instances = {}

VARIABLES
    pc,
    default_env,    \* what _default_env_name returns for each instance
    filled,         \* how many instances are in buckets or were
    buckets,
    env_order,      \* the environments in the order of their first instance
    scheduled,
    turn            \* position in env_order

vars == <<pc, default_env, filled, buckets, env_order, scheduled, turn>>

\* An instance without an environment has a bucket of its own.
Bucket(id) == IF default_env[id] = NoEnv THEN id ELSE default_env[id]

Init ==
    /\ pc = "fill"
    /\ default_env \in [Instances -> EnvNames \cup {NoEnv}]
    /\ filled = 0
    /\ buckets = [env \in EnvNames \cup Instances |-> << >>]
    /\ env_order = << >>
    /\ scheduled = << >>
    /\ turn = 1

Fill ==
    /\ pc = "fill"
    /\ filled < Len(Ids)
    /\ LET id == Ids[filled + 1] IN
          /\ buckets' = [buckets EXCEPT ![Bucket(id)] = Append(@, id)]
          /\ env_order' = IF \E k \in DOMAIN env_order : env_order[k] = Bucket(id)
                          THEN env_order ELSE Append(env_order, Bucket(id))
    /\ filled' = filled + 1
    /\ UNCHANGED <<pc, default_env, scheduled, turn>>

\* Mutant: the loop stops when every environment had its turn.
NewPass_OneEach ==
    /\ \/ pc = "fill" /\ filled = Len(Ids)
       \/ pc = "take" /\ turn > Len(env_order)
    /\ pc' = IF Len(scheduled) < Len(env_order) THEN "take" ELSE "done"
    /\ turn' = 1
    /\ UNCHANGED <<default_env, filled, buckets, env_order, scheduled>>

\* The head of the while loop.
NewPass ==
    /\ \/ pc = "fill" /\ filled = Len(Ids)
       \/ pc = "take" /\ turn > Len(env_order)
    /\ pc' = IF Len(scheduled) < Len(Ids) THEN "take" ELSE "done"
    /\ turn' = 1
    /\ UNCHANGED <<default_env, filled, buckets, env_order, scheduled>>

\* Mutant: a bucket is emptied before the next one has its turn.
Take_Drain ==
    /\ pc = "take"
    /\ turn <= Len(env_order)
    /\ buckets[env_order[turn]] # << >>
    /\ scheduled' = Append(scheduled, Head(buckets[env_order[turn]]))
    /\ buckets' = [buckets EXCEPT ![env_order[turn]] = Tail(@)]
    /\ UNCHANGED <<pc, default_env, filled, env_order, turn>>

\* Mutant: the bucket is popped at the wrong end.
Take_Last ==
    /\ pc = "take"
    /\ turn <= Len(env_order)
    /\ buckets[env_order[turn]] # << >>
    /\ LET bucket == buckets[env_order[turn]] IN
          /\ scheduled' = Append(scheduled, bucket[Len(bucket)])
          /\ buckets' = [buckets EXCEPT ![env_order[turn]] = SubSeq(@, 1, Len(@) - 1)]
    /\ turn' = turn + 1
    /\ UNCHANGED <<pc, default_env, filled, env_order>>

Take ==
    /\ pc = "take"
    /\ turn <= Len(env_order)
    /\ buckets[env_order[turn]] # << >>
    /\ scheduled' = Append(scheduled, Head(buckets[env_order[turn]]))
    /\ buckets' = [buckets EXCEPT ![env_order[turn]] = Tail(@)]
    /\ turn' = turn + 1
    /\ UNCHANGED <<pc, default_env, filled, env_order>>

PassOver ==
    /\ pc = "take"
    /\ turn <= Len(env_order)
    /\ buckets[env_order[turn]] = << >>
    /\ turn' = turn + 1
    /\ UNCHANGED <<pc, default_env, filled, buckets, env_order, scheduled>>

Next == Fill \/ NewPass \/ Take \/ PassOver

Spec == Init /\ [][Next]_vars

-----------------------------------------------------------------------------
(* Properties.                                                             *)

\* The schedule is the given instances, each exactly once: none is dropped and
\* none runs twice.
ScheduleIsPermutation ==
    pc = "done" =>
        /\ Len(scheduled) = Len(Ids)
        /\ \A id \in Instances : \E k \in DOMAIN scheduled : scheduled[k] = id

\* Instances of one environment keep the order of the input.
OrderWithinEnvironment ==
    \A k, l \in DOMAIN scheduled : \A m, n \in DOMAIN Ids :
        k < l /\ Bucket(scheduled[k]) = Bucket(scheduled[l])
          /\ Ids[m] = scheduled[k] /\ Ids[n] = scheduled[l] => m < n

\* The docstring: "avoiding adjacent tasks that share one env lock".  Neighbours
\* share an environment only if no instance of another one is left.
NeighboursShareOnlyAtTheEnd ==
    pc = "done" =>
        \A k \in 1..(Len(scheduled) - 1) :
            Bucket(scheduled[k]) = Bucket(scheduled[k + 1]) =>
                \A l \in DOMAIN scheduled : l > k => Bucket(scheduled[l]) = Bucket(scheduled[k])
=============================================================================
