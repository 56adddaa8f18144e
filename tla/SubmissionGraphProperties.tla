--------------------- MODULE SubmissionGraphProperties ----------------------
(***************************************************************************)
(* What the ordering of a composite submission guarantees, against         *)
(* definitions of reachability and of the least order that do not follow   *)
(* the algorithm.                                                          *)
(***************************************************************************)
EXTENDS SubmissionGraph

SelfContained(S) == \A n \in S : Children(n) \subseteq S

\* What n refers to, by itself or through others: what is in every set that has
\* the cards n refers to and those its own members refer to.
Below(n) ==
  {c \in nodes : \A S \in SUBSET nodes :
     Children(n) \subseteq S /\ SelfContained(S) => c \in S}

CycleAbove(n) == n \in Below(n) \/ \E m \in Below(n) : m \in Below(m)

\* topo.rs: a cycle error names the "unresolved nodes that participate in or
\* depend on the cycle": exactly these, and no sort succeeds on a cycle.
CycleNamed ==
  /\ status = "cycle" => unresolved # {} /\ unresolved = {n \in nodes : CycleAbove(n)}
  /\ status \in {"sorted", "done"} => \A n \in nodes : n \notin Below(n)

Orders == {s \in [1 .. Cardinality(nodes) -> nodes] :
             /\ \A i, j \in DOMAIN s : s[i] = s[j] => i = j
             /\ \A i, j \in DOMAIN s : <<s[i], s[j]>> \in edges => j < i}

Precedes(s, t) == \E i \in DOMAIN s : s[i] < t[i] /\ \A j \in 1 .. i - 1 : s[j] = t[j]

\* The sort depends on the set of cards and references only, not on the order
\* they were submitted in: of all orders with leaves first it returns the
\* least by (kind, space, name, version).
LeastOrder ==
  status = "sorted" =>
    ordered \in Orders /\ \A s \in Orders : s # ordered => Precedes(ordered, s)

\* The root is a card no other refers to and comes last.  When it is the only
\* such card, Service or not, everything submitted hangs from it; when there
\* are more, it is the only Service among them.
RootCovers ==
  status = "done" =>
    /\ ordered[Len(ordered)] = root
    /\ Parents(root) = {}
    /\ IF Candidates = {root} THEN nodes \ {root} \subseteq Below(root)
                              ELSE Candidates \cap Services = {root}
=============================================================================
