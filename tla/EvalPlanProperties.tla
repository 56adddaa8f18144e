------------------------- MODULE EvalPlanProperties -------------------------
(***************************************************************************)
(* The witness of a cycle error, against closed walks of the dependency    *)
(* graph as a whole.                                                       *)
(***************************************************************************)
EXTENDS EvalPlan

Feeds(t, u) == \E i \in DOMAIN depends[u] : depends[u][i] = t

\* What a walk from t may reach: in every set that no step leaves.
Behind(t) ==
  {u \in Tasks : \A S \in SUBSET Tasks :
     (\A x \in S \cup {t} : \A y \in Tasks : Feeds(x, y) => y \in S) => u \in S}

ClosedWalks(t, n) ==
  {w \in [1 .. n + 1 -> Tasks] :
     w[1] = t /\ w[n + 1] = t /\ \A i \in 1 .. n : Feeds(w[i], w[i + 1])}

Earlier(v, w) == \E i \in DOMAIN v : v[i] < w[i] /\ \A j \in 1 .. i - 1 : v[j] = w[j]

\* An error names a cycle if and only if there is one, so it never blames tasks
\* that only a wrong count has left behind, and always the same: of the smallest
\* knot of tasks, the first by its least task, a shortest closed walk from that
\* task, the first of them in the order of the ids.
CycleLeast ==
  verdict \in {"plan", "cycle"} =>
    LET behind == [u \in Tasks |-> Behind(u)]
        knot(u) == {v \in behind[u] : u \in behind[v]}
        t == witness[1]
        n == Len(witness) - 1
        shortest == ClosedWalks(t, n)
    IN  /\ verdict = "plan" => \A u \in Tasks : knot(u) = {}
        /\ verdict = "cycle" =>
             /\ witness # << >> /\ witness \in shortest
             /\ \A w \in shortest : ~Earlier(w, witness)
             /\ \A m \in 1 .. n - 1 : ClosedWalks(t, m) = {}
             /\ \A u \in Tasks : knot(u) # {} =>
                  \/ Cardinality(knot(t)) < Cardinality(knot(u))
                  \/ Cardinality(knot(t)) = Cardinality(knot(u)) /\ t <= u
=============================================================================
