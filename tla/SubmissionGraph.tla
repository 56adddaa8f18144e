-------------------------- MODULE SubmissionGraph ---------------------------
(***************************************************************************)
(* The ordering of a composite submission in wyrd-spec's graph module:     *)
(* build makes the graph of the sibling references, topo_sort puts every   *)
(* card after the cards it refers to, root_last picks the root and moves   *)
(* it to the end.  Each loop turn of the sort is a step.                   *)
(*                                                                         *)
(* A card stands for its identity (kind, space, name, version); cards are  *)
(* numbered in the order of that key.                                      *)
(***************************************************************************)
EXTENDS Integers, Sequences, FiniteSets

CONSTANTS
  N,            \* cards that may be submitted or referred to
  Services,     \* those of kind Service
  Submissions,  \* the requests considered: sequences of cards
  Unpinned,     \* those with a card whose version or space is not resolved
  Malformed,    \* those with a card whose spec does not parse
  References    \* what the specs may refer to: relations between cards

Cards == 1 .. N

ASSUME GraphAssumption ==
  /\ N \in Nat
  /\ Services \subseteq Cards
  /\ Submissions \subseteq Seq(Cards)
  /\ Unpinned \subseteq Submissions /\ Malformed \subseteq Submissions
  /\ References \subseteq SUBSET (Cards \X Cards)

VARIABLES
  submissions, refs,  \* the request
  nodes, edges,       \* its graph: <<parent, referenced card>>
  remaining,          \* remaining_children
  ready, ordered,     \* topo_sort
  unresolved,         \* the cards a cycle error names
  root, status

vars == <<submissions, refs, nodes, edges, remaining, ready, ordered,
          unresolved, root, status>>

NoCard == 0

TypeOK ==
  /\ submissions \in Seq(Cards) /\ refs \subseteq Cards \X Cards
  /\ nodes \subseteq Cards /\ edges \subseteq nodes \X nodes
  /\ remaining \in [Cards -> Nat]
  /\ ready \subseteq nodes /\ ordered \in Seq(nodes)
  /\ unresolved \subseteq nodes
  /\ root \in nodes \cup {NoCard}
  /\ status \in {"build", "sort", "sorted", "done",
                 "empty", "duplicate", "invalid", "cycle", "roots"}

Emitted == {ordered[i] : i \in DOMAIN ordered}

Children(n) == {c \in nodes : <<n, c>> \in edges}
Parents(n)  == {p \in nodes : <<p, n>> \in edges}

Init ==
  /\ submissions \in Submissions /\ refs \in References
  /\ nodes = {} /\ edges = {}
  /\ remaining = [c \in Cards |-> 0] /\ ready = {} /\ ordered = << >>
  /\ unresolved = {} /\ root = NoCard /\ status = "build"

-----------------------------------------------------------------------------
Submitted == {submissions[i] : i \in DOMAIN submissions}

\* References to cards outside the request make no edge.
Siblings == {r \in refs : r[1] \in Submitted /\ r[2] \in Submitted}

Refuse(error) ==
  /\ status' = error
  /\ UNCHANGED <<submissions, refs, nodes, edges, remaining, ready, ordered, root>>

Repeated == \E i, j \in DOMAIN submissions : i < j /\ submissions[i] = submissions[j]

\* A card without its identity is reported like an empty request.
Build ==
  /\ status = "build"
  /\ \/ /\ submissions = << >> \/ submissions \in Unpinned
        /\ Refuse("empty") /\ UNCHANGED unresolved
     \/ /\ submissions # << >> /\ submissions \notin Unpinned
        /\ Repeated
        /\ Refuse("duplicate") /\ UNCHANGED unresolved
     \/ /\ submissions # << >> /\ submissions \notin Unpinned
        /\ ~Repeated /\ submissions \in Malformed
        /\ Refuse("invalid") /\ UNCHANGED unresolved
     \/ /\ submissions # << >> /\ submissions \notin Unpinned \cup Malformed
        /\ ~Repeated
        /\ nodes' = Submitted
        /\ edges' = Siblings
        /\ remaining' = [c \in Cards |-> Cardinality({d \in Cards : <<c, d>> \in edges'})]
        /\ ready' = {c \in nodes' : remaining'[c] = 0}
        /\ status' = "sort"
        /\ UNCHANGED <<submissions, refs, ordered, unresolved, root>>

-----------------------------------------------------------------------------
(* topo_sort                                                               *)

FirstMutant(n) == \A m \in ready : n >= m

\* pop_canonical takes the least ready card.
First(n) == \A m \in ready : n <= m

FreedMutant(n) == Parents(n)   \* a parent is ready with its first child out

\* The parents whose last child was n.
Freed(n) == {p \in Parents(n) : remaining[p] = 1}

Pop(n) ==
  /\ status = "sort"
  /\ n \in ready /\ First(n)
  /\ ordered' = Append(ordered, n)
  /\ remaining' = [c \in Cards |-> IF c \in Parents(n) THEN remaining[c] - 1
                                                       ELSE remaining[c]]
  /\ ready' = (ready \ {n}) \cup Freed(n)
  /\ UNCHANGED <<submissions, refs, nodes, edges, unresolved, root, status>>

UnresolvedMutant == {n \in nodes : n \notin Emitted /\ Parents(n) # {}}

\* What a cycle error names.
Unresolved == {n \in nodes : remaining[n] # 0}

Sorted ==
  /\ status = "sort" /\ ready = {}
  /\ \/ /\ Len(ordered) = Cardinality(nodes)
        /\ status' = "sorted"
        /\ UNCHANGED <<submissions, refs, nodes, edges, remaining, ready, ordered,
                       unresolved, root>>
     \/ /\ Len(ordered) # Cardinality(nodes)
        /\ unresolved' = Unresolved
        /\ Refuse("cycle")

-----------------------------------------------------------------------------
(* pick_root and root_last                                                 *)

Candidates == {n \in nodes : Parents(n) = {}}

RootsMutant ==                 \* any Service will do
  {n \in nodes : n \in Services \/ Candidates = {n}}

\* The one card nobody refers to, or the one Service among several such.
Roots == IF \E n \in nodes : Candidates = {n} THEN Candidates
         ELSE Candidates \cap Services

MoveToEnd(seq, p) ==
  [i \in 1 .. Len(seq) |-> IF i < p THEN seq[i]
                           ELSE IF i < Len(seq) THEN seq[i + 1] ELSE seq[p]]

RootLast ==
  /\ status = "sorted"
  /\ \/ \E p \in DOMAIN ordered :
          /\ Roots = {ordered[p]}
          /\ root' = ordered[p]
          /\ ordered' = MoveToEnd(ordered, p)
          /\ status' = "done"
          /\ UNCHANGED <<submissions, refs, nodes, edges, remaining, ready, unresolved>>
     \/ /\ \A n \in nodes : Roots # {n}
        /\ Refuse("roots") /\ UNCHANGED unresolved

Next == Build \/ (\E n \in Cards : Pop(n)) \/ Sorted \/ RootLast

Spec == Init /\ [][Next]_vars

-----------------------------------------------------------------------------
\* "Leaves before their parents", at every moment of the sort and still when
\* root_last has moved the root: a card comes after every card it refers to.
LeavesFirst ==
  \A e \in edges : \A i \in DOMAIN ordered : ordered[i] = e[1] =>
    \E j \in 1 .. i - 1 : ordered[j] = e[2]
=============================================================================
