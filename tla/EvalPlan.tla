------------------------------ MODULE EvalPlan ------------------------------
(***************************************************************************)
(* validate_dag of wyrd-spec's evaluation: the tasks of a spec become the  *)
(* layers of an execution plan, each task in the first layer behind all it *)
(* depends on, or an error: a task that names itself or no task, or the    *)
(* witness of a cycle.  Each turn of the layer loop is a step.             *)
(*                                                                         *)
(* A task is its place in the order of TaskIds; its depends_on list is as  *)
(* it was written, duplicates included.                                    *)
(***************************************************************************)
EXTENDS Integers, FiniteSets, SequencesExt

CONSTANTS
  MaxTask,   \* the last id a list may name
  Depends    \* the task maps considered: the depends_on list of each task

Ids == 1 .. MaxTask

ASSUME PlanAssumption ==
  /\ MaxTask \in Nat
  /\ \A d \in Depends : DOMAIN d \subseteq Ids /\ d \in [DOMAIN d -> Seq(Ids)]

VARIABLES
  depends,   \* the task map
  degree,    \* in_degree: list entries whose tasks are not emitted yet
  wave,      \* ready: the tasks of the next stage
  stages,    \* plan
  witness,   \* the tasks an error names
  verdict

planVars == <<depends, degree, wave, stages, witness, verdict>>

Tasks == DOMAIN depends

PlanTypeOK ==
  /\ Tasks \subseteq Ids /\ depends \in [Tasks -> Seq(Ids)]
  /\ degree \in [Tasks -> Nat]
  /\ wave \subseteq Tasks /\ stages \in Seq(SUBSET Tasks)
  /\ witness \in Seq(Ids)
  /\ verdict \in {"new", "layers", "plan", "self_loop", "missing", "cycle"}

PlanInit ==
  /\ depends \in Depends
  /\ degree = [t \in Tasks |-> 0] /\ wave = {}
  /\ stages = << >> /\ witness = << >> /\ verdict = "new"

-----------------------------------------------------------------------------
Entries == UNION {{t} \X DOMAIN depends[t] : t \in Tasks}

\* The entries that name their own task or none at all.
Offending == {e \in Entries : depends[e[1]][e[2]] \in {e[1]} \cup (Ids \ Tasks)}

\* Tasks are scanned in their order, each list from its start.
FirstOffence(e) == \A o \in Offending : e[1] < o[1] \/ (e[1] = o[1] /\ e[2] <= o[2])

Scan ==
  /\ verdict = "new"
  /\ \/ \E e \in Offending :
          /\ FirstOffence(e)
          /\ \/ /\ depends[e[1]][e[2]] = e[1]
                /\ verdict' = "self_loop" /\ witness' = <<e[1]>>
             \/ /\ depends[e[1]][e[2]] # e[1]
                /\ verdict' = "missing" /\ witness' = <<e[1], depends[e[1]][e[2]]>>
          /\ UNCHANGED <<degree, wave>>
     \/ /\ Offending = {}
        /\ degree' = [t \in Tasks |-> Len(depends[t])]
        /\ wave' = {t \in Tasks : depends[t] = << >>}
        /\ verdict' = "layers"
        /\ UNCHANGED witness
  /\ UNCHANGED <<depends, stages>>

\* Every entry of a list was pushed once, so a duplicate counts twice.
Uses(t) == Cardinality({i \in DOMAIN depends[t] : depends[t][i] \in wave})

NextWaveMutant == {t \in Tasks : Uses(t) > 0}   \* with the first dependency out

\* The tasks whose last entries the stage holds.
NextWave == {t \in Tasks : Uses(t) > 0 /\ degree[t] = Uses(t)}

\* A stage is emitted; its dependents lose a degree for each entry.
EmitStage ==
  /\ verdict = "layers" /\ wave # {}
  /\ stages' = Append(stages, wave)
  /\ degree' = [t \in Tasks |-> degree[t] - Uses(t)]
  /\ wave' = NextWave
  /\ UNCHANGED <<depends, witness, verdict>>

InStages == UNION {stages[i] : i \in DOMAIN stages}

-----------------------------------------------------------------------------
(* smallest_cycle                                                          *)

Remaining == {t \in Tasks : degree[t] > 0}

\* adj: the tasks that depend on t, in their order.
Downstream(t) == {u \in Tasks : \E i \in DOMAIN depends[u] : depends[u][i] = t}

\* The tasks of W and the remaining ones a step behind them.
Further(W) == W \cup ((UNION {Downstream(u) : u \in W}) \cap Remaining)

\* The remaining tasks a walk of one step or more from t may reach.
Reached(t) ==
  LET within[k \in 0 .. Cardinality(Remaining)] ==
        IF k = 0 THEN Downstream(t) \cap Remaining ELSE Further(within[k - 1])
  IN  within[Cardinality(Remaining)]

\* tarjan_scc, without the components that hold no cycle.
Components ==
  LET reached == [t \in Remaining |-> Reached(t)]
  IN  {{u \in reached[t] : t \in reached[u]} : t \in Remaining} \ {{}}

Least(c) == CHOOSE t \in c : \A u \in c : t <= u

SmallestMutant(c, components) ==  \* the first by its least task, of any size
  \A d \in components : Least(c) <= Least(d)

Smallest(c, components) ==
  \A d \in components : \/ Cardinality(c) < Cardinality(d)
                        \/ Cardinality(c) = Cardinality(d) /\ Least(c) <= Least(d)

Ascending(c) == CHOOSE s \in [1 .. Cardinality(c) -> c] :
                  \A i, j \in DOMAIN s : i < j => s[i] < s[j]

\* Task k of the queue, with the parents' links that lead to it as a walk,
\* appends the tasks of component c that it sees first.
Visit(c, q, k) ==
  LET unseen == (Downstream(Last(q[k])) \cap c) \ {Last(q[i]) : i \in DOMAIN q}
  IN  q \o [i \in 1 .. Cardinality(unseen) |-> Append(q[k], Ascending(unseen)[i])]

\* The breadth-first search from the least task, until the queue is empty.
Walks(c) ==
  LET after[k \in 0 .. Cardinality(c)] ==
        IF k = 0 THEN << <<Least(c)>> >>
        ELSE IF k > Len(after[k - 1]) THEN after[k - 1]
        ELSE Visit(c, after[k - 1], k)
  IN  after[Cardinality(c)]

\* Walk w has an edge back to where the search began.
Closing(c, w) == Least(c) \in Downstream(Last(w))

\* The first walk of the queue that closes.
ClosedWalk(c) ==
  LET q  == Walks(c)
      at == CHOOSE k \in DOMAIN q : Closing(c, q[k]) /\ \A i \in 1 .. k - 1 : ~Closing(c, q[i])
  IN  Append(q[at], Least(c))

\* Without a component the search returns no task.
SmallestCycle ==
  LET components == Components
  IN  IF components = {} THEN << >>
      ELSE ClosedWalk(CHOOSE c \in components : Smallest(c, components))

EndPlan ==
  /\ verdict = "layers" /\ wave = {}
  /\ \/ /\ Cardinality(InStages) = Cardinality(Tasks)
        /\ verdict' = "plan"
        /\ UNCHANGED witness
     \/ /\ Cardinality(InStages) # Cardinality(Tasks)
        /\ verdict' = "cycle"
        /\ witness' = SmallestCycle
  /\ UNCHANGED <<depends, degree, wave, stages>>

PlanNext == Scan \/ EmitStage \/ EndPlan

PlanSpec == PlanInit /\ [][PlanNext]_planVars

-----------------------------------------------------------------------------
\* "Each later stage contains tasks whose dependencies were all emitted by
\* earlier stages": at every moment of the loop a task stands right behind the
\* last of its dependencies, in one stage only, and a plan has every task.
PlanLayered ==
  /\ \A i \in DOMAIN stages : \A t \in stages[i] :
       /\ \A k \in DOMAIN depends[t] : \E j \in 1 .. i - 1 : depends[t][k] \in stages[j]
       /\ i > 1 => \E k \in DOMAIN depends[t] : depends[t][k] \in stages[i - 1]
       /\ \A j \in DOMAIN stages : t \in stages[j] => i = j
  /\ verdict = "plan" => InStages = Tasks
=============================================================================
