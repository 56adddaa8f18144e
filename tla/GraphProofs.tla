---------------------------- MODULE GraphProofs ----------------------------
(***************************************************************************)
(* The two orderings of wyrd-spec, for any number of cards and tasks: what *)
(* a card or a task waits for is counted rightly, so what is ready may go  *)
(* and the order is right at every moment.                                 *)
(***************************************************************************)
EXTENDS SubmissionGraphProperties, EvalPlanProperties, FiniteSetTheorems, Inductions, TLAPS

-----------------------------------------------------------------------------
(* The sort of a submission.  A card waits for exactly as many children as *)
(* are not emitted, so a ready card has none missing, no count falls below *)
(* zero, and leaves stay before parents even after root_last has moved the *)
(* root.                                                                   *)

RightlyCounted == \A n \in nodes \ Emitted :
             remaining[n] = Cardinality(Children(n) \ Emitted)

ReadyFree == \A n \in ready : n \notin Emitted /\ Children(n) \subseteq Emitted

SortInv ==
  /\ status = "build" => ordered = << >> /\ unresolved = {} /\ root = NoCard
  /\ status = "sort" => RightlyCounted /\ ReadyFree
  /\ LeavesFirst

GraphInv == TypeOK /\ SortInv

-----------------------------------------------------------------------------
\* Cards and every set of cards are finite and have a natural size.
LEMMA CardsFinite ==
  \A S \in SUBSET Cards : IsFiniteSet(S) /\ Cardinality(S) \in Nat
<1>1. IsFiniteSet(Cards)
  BY GraphAssumption, FS_Interval DEF Cards
<1> QED BY <1>1, FS_Subset, FS_CardinalityType

\* A card already emitted has all its children emitted.
LEMMA EmittedClosed ==
  ASSUME TypeOK, LeavesFirst
  PROVE  \A n \in Emitted : Children(n) \subseteq Emitted
<1> SUFFICES ASSUME NEW i \in DOMAIN ordered, NEW c \in Children(ordered[i])
             PROVE  c \in Emitted
  BY DEF Emitted
<1>1. PICK j \in 1 .. i - 1 : ordered[j] = c
  BY DEF LeavesFirst, Children
<1>2. j \in DOMAIN ordered
  BY DEF TypeOK
<1> QED BY <1>1, <1>2 DEF Emitted

\* What Pop does to the emitted cards.
LEMMA EmittedGrows ==
  ASSUME TypeOK, NEW n \in nodes, ordered' = Append(ordered, n)
  PROVE  Emitted' = Emitted \cup {n}
<1>1. ordered \in Seq(nodes)
  BY DEF TypeOK
<1>2. Len(ordered') = Len(ordered) + 1 /\ Len(ordered) \in Nat
      /\ DOMAIN ordered = 1 .. Len(ordered) /\ DOMAIN ordered' = 1 .. Len(ordered')
  BY <1>1
<1>3. \A i \in DOMAIN ordered : ordered'[i] = ordered[i]
  BY <1>1
<1>4. ordered'[Len(ordered) + 1] = n
  BY <1>1
<1>5. ASSUME NEW i \in DOMAIN ordered' PROVE ordered'[i] \in Emitted \cup {n}
  <2>1. i \in DOMAIN ordered \/ i = Len(ordered) + 1
    BY <1>2
  <2> QED BY <2>1, <1>3, <1>4 DEF Emitted
<1>6. ASSUME NEW i \in DOMAIN ordered PROVE ordered[i] \in Emitted'
  BY <1>2, <1>3 DEF Emitted
<1>7. n \in Emitted'
  BY <1>2, <1>4 DEF Emitted
<1> QED BY <1>5, <1>6, <1>7 DEF Emitted

-----------------------------------------------------------------------------
LEMMA InitGraph == Init => GraphInv
<1> SUFFICES ASSUME Init PROVE GraphInv
  OBVIOUS
<1>1. TypeOK
  BY GraphAssumption DEF Init, TypeOK
<1>2. SortInv
  BY DEF Init, SortInv, LeavesFirst
<1> QED BY <1>1, <1>2 DEF GraphInv

LEMMA BuildGraph ==
  ASSUME GraphInv, Build PROVE GraphInv'
<1> USE DEF GraphInv
<1>1. CASE UNCHANGED <<nodes, edges, remaining, ready, ordered>>
           /\ UNCHANGED <<submissions, refs, unresolved, root>>
           /\ status' \in {"empty", "duplicate", "invalid"}
  BY <1>1 DEF TypeOK, SortInv, LeavesFirst
<1>2. CASE /\ nodes' = Submitted
           /\ edges' = Siblings
           /\ remaining' = [c \in Cards |-> Cardinality({d \in Cards : <<c, d>> \in edges'})]
           /\ ready' = {c \in nodes' : remaining'[c] = 0}
           /\ status' = "sort"
           /\ UNCHANGED <<submissions, refs, ordered, unresolved, root>>
           /\ status = "build"
  <2>1. ordered' = << >> /\ ordered = << >>
    BY <1>2 DEF SortInv
  <2>2. nodes' \subseteq Cards /\ edges' \subseteq nodes' \X nodes'
    BY <1>2 DEF TypeOK, Submitted, Siblings
  <2>3. \A c \in Cards : Children(c)' = {d \in Cards : <<c, d>> \in edges'}
    BY <2>2 DEF Children
  <2>4. \A c \in Cards : Children(c)' \in SUBSET Cards
    BY <2>3
  <2>5. \A c \in Cards : remaining'[c] = Cardinality(Children(c)')
    BY <1>2, <2>3
  <2>6. remaining' \in [Cards -> Nat]
    BY <1>2, <2>3, <2>4, CardsFinite
  <2>7. Emitted' = {}
    BY <2>1 DEF Emitted
  <2>8. ASSUME NEW c \in ready' PROVE Children(c)' = {}
    <3>1. c \in Cards /\ Cardinality(Children(c)') = 0
      BY <1>2, <2>2, <2>5
    <3>2. IsFiniteSet(Children(c)')
      BY <3>1, <2>4, CardsFinite
    <3> QED BY <3>1, <3>2, FS_EmptySet
  <2>9. RightlyCounted'
    BY <2>2, <2>5, <2>7 DEF RightlyCounted
  <2>10. ReadyFree'
    BY <2>7, <2>8 DEF ReadyFree
  <2>11. LeavesFirst'
    BY <2>1 DEF LeavesFirst
  <2>12. SortInv'
    BY <1>2, <2>9, <2>10, <2>11 DEF SortInv
  <2>13. unresolved' \subseteq nodes' /\ root' \in nodes' \cup {NoCard}
    BY <1>2 DEF SortInv
  <2> QED
    BY <1>2, <2>1, <2>2, <2>6, <2>12, <2>13 DEF TypeOK
<1> QED BY <1>1, <1>2 DEF Build, Refuse

LEMMA PopGraph ==
  ASSUME GraphInv, NEW n \in Cards, Pop(n) PROVE GraphInv'
<1> USE DEF GraphInv
<1>1. n \in nodes /\ n \in ready /\ status = "sort" /\ status' = "sort"
  BY DEF Pop, TypeOK
<1>2. UNCHANGED <<submissions, refs, nodes, edges, unresolved, root>>
  BY DEF Pop
<1>3. RightlyCounted /\ ReadyFree /\ LeavesFirst
  BY <1>1 DEF SortInv
<1>4. n \notin Emitted /\ Children(n) \subseteq Emitted
  BY <1>1, <1>3 DEF ReadyFree
<1>5. ordered' = Append(ordered, n)
  BY DEF Pop
<1>6. Emitted' = Emitted \cup {n}
  BY <1>1, <1>5, EmittedGrows
<1>7. \A m : Children(m)' = Children(m)
  BY <1>2 DEF Children
<1>8. \A m \in nodes : Children(m) \in SUBSET Cards
  BY DEF Children, TypeOK
<1>9. ASSUME NEW m \in Parents(n)
      PROVE  /\ m \in nodes \ Emitted /\ m # n
             /\ n \in Children(m) \ Emitted
             /\ remaining[m] = Cardinality(Children(m) \ Emitted)
             /\ Cardinality((Children(m) \ Emitted) \ {n}) = remaining[m] - 1
             /\ remaining[m] - 1 \in Nat
  <2>1. m \in nodes /\ n \in Children(m)
    BY <1>1 DEF Parents, Children
  <2>2. m \notin Emitted
    BY <2>1, <1>3, <1>4, EmittedClosed
  <2>3. m # n
    BY <2>1, <1>4
  <2>4. remaining[m] = Cardinality(Children(m) \ Emitted)
    BY <2>1, <2>2, <1>3 DEF RightlyCounted
  <2>5. Children(m) \ Emitted \in SUBSET Cards /\ n \in Children(m) \ Emitted
    BY <2>1, <1>4, <1>8
  <2>6. Cardinality((Children(m) \ Emitted) \ {n}) = Cardinality(Children(m) \ Emitted) - 1
    BY <2>5, CardsFinite, FS_RemoveElement
  <2>7. Cardinality((Children(m) \ Emitted) \ {n}) \in Nat
    BY <2>5, CardsFinite
  <2> QED BY <2>1, <2>2, <2>3, <2>4, <2>5, <2>6, <2>7
<1>10. Parents(n) \subseteq Cards
  BY DEF Parents, TypeOK
<1>11. remaining' = [c \in Cards |-> IF c \in Parents(n) THEN remaining[c] - 1
                                                         ELSE remaining[c]]
  BY DEF Pop
<1>12. remaining' \in [Cards -> Nat]
  BY <1>9, <1>11 DEF TypeOK
<1>13. ready' \subseteq nodes /\ ordered' \in Seq(nodes)
  BY <1>1, <1>5 DEF Pop, Freed, Parents, TypeOK
<1>14. TypeOK'
  BY <1>1, <1>2, <1>12, <1>13 DEF TypeOK
<1>15. RightlyCounted'
  <2> SUFFICES ASSUME NEW m \in nodes \ (Emitted \cup {n})
               PROVE  remaining'[m] = Cardinality(Children(m) \ (Emitted \cup {n}))
    BY <1>2, <1>6, <1>7 DEF RightlyCounted
  <2>1. CASE m \in Parents(n)
    <3>1. Children(m) \ (Emitted \cup {n}) = (Children(m) \ Emitted) \ {n}
      OBVIOUS
    <3> QED BY <2>1, <3>1, <1>9, <1>10, <1>11
  <2>2. CASE m \notin Parents(n)
    <3>1. n \notin Children(m)
      BY <2>2 DEF Children, Parents
    <3>2. Children(m) \ (Emitted \cup {n}) = Children(m) \ Emitted
      BY <3>1
    <3>3. remaining'[m] = remaining[m]
      BY <2>2, <1>11 DEF TypeOK
    <3> QED BY <3>2, <3>3, <1>3 DEF RightlyCounted
  <2> QED BY <2>1, <2>2
<1>16. ReadyFree'
  <2> SUFFICES ASSUME NEW m \in ready'
               PROVE  m \notin Emitted \cup {n} /\ Children(m) \subseteq Emitted \cup {n}
    BY <1>6, <1>7 DEF ReadyFree
  <2>1. CASE m \in ready \ {n}
    BY <2>1, <1>3 DEF ReadyFree
  <2>2. CASE m \in Freed(n)
    <3> DEFINE Rest == (Children(m) \ Emitted) \ {n}
    <3>1. m \in Parents(n) /\ remaining[m] = 1
      BY <2>2 DEF Freed
    <3>2. Cardinality(Rest) = 0 /\ m \notin Emitted /\ m # n /\ m \in nodes
      <4>1. Cardinality(Rest) = remaining[m] - 1 /\ m \in nodes \ Emitted /\ m # n
        BY <3>1, <1>9
      <4> HIDE DEF Rest
      <4> QED BY <3>1, <4>1
    <3>3. IsFiniteSet(Rest)
      <4>1. Rest \in SUBSET Cards
        BY <3>2, <1>8
      <4> QED BY <4>1, CardsFinite
    <3>4. Rest = {}
      <4> HIDE DEF Rest
      <4> QED BY <3>2, <3>3, FS_EmptySet
    <3> QED BY <3>2, <3>4
  <2> QED BY <2>1, <2>2 DEF Pop
<1>17. LeavesFirst'
  <2> SUFFICES ASSUME NEW e \in edges, NEW i \in DOMAIN ordered', ordered'[i] = e[1]
               PROVE  \E j \in 1 .. i - 1 : ordered'[j] = e[2]
    BY <1>2 DEF LeavesFirst
  <2>1. /\ ordered \in Seq(nodes) /\ DOMAIN ordered = 1 .. Len(ordered)
        /\ Len(ordered) \in Nat /\ DOMAIN ordered' = 1 .. Len(ordered) + 1
        /\ ordered'[Len(ordered) + 1] = n
    BY <1>5 DEF TypeOK
  <2>2. \A j \in DOMAIN ordered : ordered'[j] = ordered[j]
    BY <2>1, <1>5
  <2>3. CASE i \in DOMAIN ordered
    <3>1. PICK j \in 1 .. i - 1 : ordered[j] = e[2]
      BY <2>3, <2>2, <1>3 DEF LeavesFirst
    <3> QED BY <3>1, <2>1, <2>2, <2>3
  <2>4. CASE i = Len(ordered) + 1
    <3>1. e[2] \in Children(n)
      <4>1. e = <<e[1], e[2]>> /\ e[1] \in nodes /\ e[2] \in nodes
        BY DEF TypeOK
      <4>2. e[1] = n
        BY <2>1, <2>4
      <4> QED BY <4>1, <4>2 DEF Children
    <3>2. PICK j \in DOMAIN ordered : ordered[j] = e[2]
      BY <3>1, <1>4 DEF Emitted
    <3> QED BY <3>2, <2>1, <2>2, <2>4
  <2> QED BY <2>1, <2>3, <2>4
<1>18. SortInv'
  BY <1>1, <1>15, <1>16, <1>17 DEF SortInv
<1> QED BY <1>14, <1>18

LEMMA SortedGraph ==
  ASSUME GraphInv, Sorted PROVE GraphInv'
<1>1. UNCHANGED <<submissions, refs, nodes, edges, remaining, ready, ordered, root>>
      /\ status' \in {"sorted", "cycle"} /\ unresolved' \subseteq nodes
  BY DEF Sorted, Refuse, Unresolved, GraphInv, TypeOK
<1>2. LeavesFirst'
  BY <1>1 DEF GraphInv, SortInv, LeavesFirst
<1> QED BY <1>1, <1>2 DEF GraphInv, SortInv, TypeOK

\* Where a place of an order of n cards lies when the card at p moves to the end.
LEMMA Places ==
  ASSUME NEW n \in Nat, NEW p PROVE \A i \in 1 .. n : p \in 1 .. n => i < p \/ (p <= i /\ i < n) \/ i = n
OBVIOUS

\* The root has no parent, so it may go behind the cards that follow it.
LEMMA RootGraph ==
  ASSUME GraphInv, RootLast PROVE GraphInv'
<1> USE DEF GraphInv
<1>1. CASE UNCHANGED <<submissions, refs, nodes, edges, remaining, ready, ordered,
                       unresolved, root>> /\ status' = "roots"
  BY <1>1 DEF TypeOK, SortInv, LeavesFirst
<1>2. ASSUME NEW p \in DOMAIN ordered, Roots = {ordered[p]},
             root' = ordered[p], ordered' = MoveToEnd(ordered, p), status' = "done",
             UNCHANGED <<submissions, refs, nodes, edges, remaining, ready, unresolved>>
      PROVE  GraphInv'
  <2>1. Parents(ordered[p]) = {}
    BY <1>2 DEF Roots, Candidates
  <2>2. /\ ordered \in Seq(nodes) /\ DOMAIN ordered = 1 .. Len(ordered)
        /\ Len(ordered) \in Nat /\ p \in 1 .. Len(ordered)
    BY DEF TypeOK
  <2>3. /\ DOMAIN ordered' = 1 .. Len(ordered)
        /\ \A i \in 1 .. Len(ordered) : i < p => ordered'[i] = ordered[i]
        /\ \A i \in 1 .. Len(ordered) :
             p <= i /\ i < Len(ordered) => ordered'[i] = ordered[i + 1]
        /\ ordered'[Len(ordered)] = ordered[p]
    BY <1>2, <2>2 DEF MoveToEnd
  <2>8. \A i \in 1 .. Len(ordered) : i < p \/ (p <= i /\ i < Len(ordered)) \/ i = Len(ordered)
    <3>1. Len(ordered) \in Nat /\ p \in 1 .. Len(ordered)
      BY <2>2
    <3> QED BY <3>1, Places, Zenon
  <2>4. ordered' \in Seq(nodes)
    <3>1. \A i \in 1 .. Len(ordered) : ordered'[i] \in nodes
      BY <2>2, <2>3
    <3>2. ordered' = [i \in 1 .. Len(ordered) |-> ordered'[i]]
      BY <1>2 DEF MoveToEnd
    <3> QED BY <3>1, <3>2, <2>2
  <2>5. LeavesFirst'
    <3> SUFFICES ASSUME NEW e \in edges, NEW i \in 1 .. Len(ordered), ordered'[i] = e[1]
                 PROVE  \E j \in 1 .. i - 1 : ordered'[j] = e[2]
      BY <1>2, <2>3 DEF LeavesFirst
    <3>1. e[2] # ordered[p]
      BY <2>1 DEF Parents, TypeOK
    <3>2. \A k \in 1 .. Len(ordered) : ordered[k] = e[1] =>
            \E j \in 1 .. k - 1 : ordered[j] = e[2]
      BY <2>2 DEF SortInv, LeavesFirst
    <3>3. CASE i < p
      BY <3>2, <3>3, <2>2, <2>3
    <3>4. CASE p <= i /\ i < Len(ordered)
      <4>1. PICK j \in 1 .. i : ordered[j] = e[2]
        BY <3>2, <3>4, <2>2, <2>3
      <4>2. CASE j < p
        BY <4>1, <4>2, <3>4, <2>2, <2>3
      <4>3. CASE p < j
        <5>1. j - 1 \in 1 .. i - 1 /\ p <= j - 1 /\ j - 1 < Len(ordered)
          BY <4>1, <4>3, <3>4, <2>2
        <5>2. ordered'[j - 1] = ordered[j]
          BY <5>1, <4>1, <2>2, <2>3
        <5> QED BY <5>1, <5>2, <4>1
      <4> QED BY <4>1, <4>2, <4>3, <3>1, <2>2
    <3>5. CASE i = Len(ordered)
      <4>1. PICK j \in 1 .. p - 1 : ordered[j] = e[2]
        BY <3>2, <3>5, <2>2, <2>3
      <4> QED BY <4>1, <3>5, <2>2, <2>3
    <3>6. i < p \/ (p <= i /\ i < Len(ordered)) \/ i = Len(ordered)
      BY <2>8
    <3> QED BY <3>3, <3>4, <3>5, <3>6
  <2>6. root' \in nodes' \cup {NoCard}
    BY <1>2, <2>2
  <2>7. TypeOK'
    BY <1>2, <2>4, <2>6 DEF TypeOK
  <2> QED BY <1>2, <2>5, <2>7 DEF SortInv
<1> QED BY <1>1, <1>2 DEF RootLast, Refuse

LEMMA NextGraph ==
  ASSUME GraphInv, [Next]_vars PROVE GraphInv'
<1>1. CASE UNCHANGED vars
  BY <1>1 DEF vars, GraphInv, TypeOK, SortInv, RightlyCounted, ReadyFree, LeavesFirst,
              Emitted, Children
<1> QED BY <1>1, BuildGraph, PopGraph, SortedGraph, RootGraph DEF Next

-----------------------------------------------------------------------------
\* remaining_children never falls below zero, and every name the sort holds,
\* orders or reports is a submitted card, for any request.
THEOREM GraphTypeCorrect == Spec => []TypeOK
<1>1. GraphInv => TypeOK
  BY DEF GraphInv
<1> QED BY <1>1, InitGraph, NextGraph, PTL DEF Spec

\* Whatever is submitted, a card follows every card it refers to: at each
\* moment of topo_sort and after root_last.
THEOREM SortsLeavesFirst == Spec => []LeavesFirst
<1>1. GraphInv => LeavesFirst
  BY DEF GraphInv, SortInv
<1> QED BY <1>1, InitGraph, NextGraph, PTL DEF Spec

-----------------------------------------------------------------------------
(* What the sort makes of all the cards.  All that could come next is ready *)
(* (ReadyAll), so the least of it is the least of all (Greedy), and what is *)
(* left when nothing is ready refers to itself (Outcome).  The first place *)
(* where another order differs, the card with the fewest below it and the  *)
(* last card that hangs from nothing are each the least of a set.          *)

\* A sequence over S without repetition has all of S exactly when it is as
\* long as S is large.
LEMMA AllOnce ==
  ASSUME NEW S, IsFiniteSet(S), NEW n \in Nat, NEW s \in [1 .. n -> S],
         \A i, j \in 1 .. n : s[i] = s[j] => i = j
  PROVE  n = Cardinality(S) <=> \A x \in S : \E i \in 1 .. n : s[i] = x
<1>1. s \in Injection(1 .. n, S)
  BY DEF Injection, IsInjective
<1>2. Cardinality(1 .. n) = n
  BY FS_Interval
<1>3. Cardinality(1 .. n) = Cardinality(S) <=> s \in Surjection(1 .. n, S)
  BY <1>1, FS_Injection, Zenon
<1>4. s \in Surjection(1 .. n, S) <=> \A x \in S : \E i \in 1 .. n : s[i] = x
  BY Zenon DEF Surjection
<1> QED BY <1>2, <1>3, <1>4, Zenon

\* The cards emitted before place i.
EmittedBefore(i) == {ordered[j] : j \in 1 .. i - 1}

\* No card is emitted twice.
Once == \A i, j \in 1 .. Len(ordered) : ordered[i] = ordered[j] => i = j

\* What is ready is all that could be, and what is emitted waits for nothing.
ReadyAll == /\ \A n \in nodes \ Emitted : remaining[n] = 0 => n \in ready
            /\ \A n \in Emitted : remaining[n] = 0

\* Each card was the least that could come at its place.
Greedy == \A i \in 1 .. Len(ordered) : \A m \in nodes :
            m \notin EmittedBefore(i) /\ Children(m) \subseteq EmittedBefore(i) => ordered[i] <= m

\* What a finished or a failed sort leaves.
Outcome ==
  /\ status = "sorted" => Greedy /\ Emitted = nodes
  /\ status = "done" =>
       /\ Emitted = nodes
       /\ ordered[Len(ordered)] = root
       /\ Parents(root) = {}
       /\ Candidates # {root} => Candidates \cap Services = {root}
  /\ status = "cycle" =>
       /\ unresolved = nodes \ Emitted /\ unresolved # {}
       /\ \A n \in nodes \ Emitted : \E c \in nodes \ Emitted : c \in Children(n)

\* What holds of every reachable state of the sort, besides GraphInv.
OrderInv ==
  /\ GraphInv /\ Once
  /\ status = "sort" => ReadyAll /\ Greedy
  /\ Outcome

\* The order as a function.
LEMMA OrderedIs ==
  ASSUME TypeOK
  PROVE  /\ Len(ordered) \in Nat /\ DOMAIN ordered = 1 .. Len(ordered)
         /\ ordered \in [1 .. Len(ordered) -> nodes]
         /\ Emitted = {ordered[i] : i \in 1 .. Len(ordered)} /\ Emitted \subseteq nodes
<1>1. ordered \in Seq(nodes)
  BY DEF TypeOK
<1>2. Len(ordered) \in Nat /\ DOMAIN ordered = 1 .. Len(ordered) /\ ordered \in [1 .. Len(ordered) -> nodes]
  BY <1>1
<1> QED BY <1>2 DEF Emitted

\* The sort is over when it has every card.
LEMMA OrderFull ==
  ASSUME TypeOK, Once
  PROVE  Len(ordered) = Cardinality(nodes) <=> Emitted = nodes
<1>1. IsFiniteSet(nodes)
  BY CardsFinite DEF TypeOK
<1>2. /\ Len(ordered) \in Nat /\ ordered \in [1 .. Len(ordered) -> nodes]
      /\ Emitted = {ordered[i] : i \in 1 .. Len(ordered)} /\ Emitted \subseteq nodes
  BY OrderedIs
<1>3. \A i, j \in 1 .. Len(ordered) : ordered[i] = ordered[j] => i = j
  BY DEF Once
<1>4. Len(ordered) = Cardinality(nodes) <=> \A x \in nodes : \E i \in 1 .. Len(ordered) : ordered[i] = x
  BY <1>1, <1>2, <1>3, AllOnce
<1>5. (\A x \in nodes : \E i \in 1 .. Len(ordered) : ordered[i] = x) <=> Emitted = nodes
  BY <1>2
<1> QED BY <1>4, <1>5

\* Nothing is emitted before the graph is built.
LEMMA OrderStarts == Init => OrderInv
<1> SUFFICES ASSUME Init PROVE OrderInv
  OBVIOUS
<1>1. GraphInv
  BY InitGraph
<1>2. Once
  BY DEF Init, Once
<1> QED BY <1>1, <1>2 DEF Init, OrderInv, Outcome

\* A built graph has everything ready that waits for nothing.
LEMMA BuildOrder == ASSUME OrderInv, Build PROVE OrderInv'
<1>1. GraphInv'
  BY BuildGraph DEF OrderInv
<1>2. ordered = << >> /\ ordered' = << >>
  BY DEF Build, Refuse, OrderInv, GraphInv, SortInv
<1>3. Once' /\ Greedy'
  BY <1>2 DEF Once, Greedy
<1>4. status' = "sort" => ReadyAll'
  <2>1. Emitted' = {}
    BY <1>2 DEF Emitted
  <2> QED BY <2>1 DEF Build, Refuse, ReadyAll
<1>5. status' \in {"sort", "empty", "duplicate", "invalid"}
  BY DEF Build, Refuse
<1> QED BY <1>1, <1>3, <1>4, <1>5 DEF OrderInv, Outcome

\* What Pop leaves of the order so far.
LEMMA Grown ==
  ASSUME TypeOK, NEW n \in nodes, ordered' = Append(ordered, n), UNCHANGED nodes,
         NEW l \in Nat, l = Len(ordered)
  PROVE  /\ Len(ordered') = l + 1 /\ ordered'[l + 1] = n
         /\ \A i \in 1 .. l : ordered'[i] = ordered[i]
         /\ \A i \in 1 .. l : EmittedBefore(i)' = EmittedBefore(i)
         /\ EmittedBefore(l + 1)' = Emitted
<1>1. ordered \in Seq(nodes)
  BY DEF TypeOK
<1>2. /\ Len(ordered') = l + 1 /\ ordered'[l + 1] = n
      /\ \A i \in 1 .. l : ordered'[i] = ordered[i]
      /\ DOMAIN ordered = 1 .. l
  BY <1>1
<1>3. ASSUME NEW i \in 1 .. l PROVE EmittedBefore(i)' = EmittedBefore(i)
  <2>1. \A j \in 1 .. i - 1 : j \in 1 .. l
    OBVIOUS
  <2>2. \A j \in 1 .. i - 1 : ordered'[j] = ordered[j]
    BY <1>2, <2>1
  <2> QED BY <2>2 DEF EmittedBefore
<1>4. EmittedBefore(l + 1)' = Emitted
  <2>1. l + 1 - 1 = l
    OBVIOUS
  <2>2. EmittedBefore(l + 1)' = {ordered'[j] : j \in 1 .. l}
    BY <2>1 DEF EmittedBefore
  <2> QED BY <1>2, <2>2 DEF Emitted
<1> QED BY <1>2, <1>3, <1>4

\* What Pop emits is the least of all that could come next.
LEMMA PopOrder == ASSUME OrderInv, NEW n \in Cards, Pop(n) PROVE OrderInv'
<1>1. GraphInv' /\ GraphInv /\ TypeOK
  BY PopGraph DEF OrderInv, GraphInv
<1>2. n \in nodes /\ n \in ready /\ status = "sort" /\ status' = "sort"
      /\ UNCHANGED <<nodes, edges>> /\ ordered' = Append(ordered, n)
      /\ remaining' = [c \in Cards |-> IF c \in Parents(n) THEN remaining[c] - 1 ELSE remaining[c]]
      /\ ready' = (ready \ {n}) \cup Freed(n)
  BY <1>1 DEF Pop, TypeOK
<1>3. RightlyCounted /\ ReadyFree /\ LeavesFirst /\ ReadyAll /\ Greedy /\ Once
  BY <1>1, <1>2 DEF OrderInv, GraphInv, SortInv
<1>4. n \notin Emitted /\ Children(n) \subseteq Emitted
  BY <1>2, <1>3 DEF ReadyFree
<1>0. PICK l \in Nat : l = Len(ordered)
  BY <1>1, OrderedIs
<1>5. /\ Len(ordered') = l + 1 /\ ordered'[l + 1] = n
      /\ \A i \in 1 .. l : ordered'[i] = ordered[i] /\ EmittedBefore(i)' = EmittedBefore(i)
      /\ EmittedBefore(l + 1)' = Emitted
  BY <1>0, <1>1, <1>2, Grown
<1>6. Emitted' = Emitted \cup {n}
  BY <1>1, <1>2, EmittedGrows
<1>7. \A m : Children(m)' = Children(m)
  BY <1>2 DEF Children
<1>8. /\ Emitted = {ordered[i] : i \in 1 .. l} /\ Emitted \subseteq nodes /\ nodes \subseteq Cards
  BY <1>0, <1>1, OrderedIs DEF TypeOK
<1>9. \A i \in 1 .. l + 1 : i \in 1 .. l \/ i = l + 1
  OBVIOUS
<1>10. Once'
  <2> SUFFICES ASSUME NEW i \in 1 .. l + 1, NEW j \in 1 .. l + 1, ordered'[i] = ordered'[j]
               PROVE  i = j
    BY <1>5 DEF Once
  <2>1. \A k \in 1 .. l : ordered'[k] # n
    BY <1>4, <1>5, <1>8
  <2>2. CASE i \in 1 .. l /\ j \in 1 .. l
    BY <2>2, <1>0, <1>3, <1>5 DEF Once
  <2> QED BY <2>1, <2>2, <1>5, <1>9
<1>11. ASSUME NEW m \in nodes, m \notin Emitted, Children(m) \subseteq Emitted PROVE n <= m
  <2>1. Children(m) \ Emitted = {}
    BY <1>11
  <2>2. remaining[m] = Cardinality({})
    BY <1>3, <1>11, <2>1 DEF RightlyCounted
  <2>3. remaining[m] = 0
    BY <2>2, FS_EmptySet
  <2>4. m \in ready
    BY <1>3, <1>11, <2>3 DEF ReadyAll
  <2> QED BY <2>4 DEF Pop, First
<1>12. Greedy'
  <2> SUFFICES ASSUME NEW i \in 1 .. l + 1, NEW m \in nodes, m \notin EmittedBefore(i)', Children(m) \subseteq EmittedBefore(i)'
               PROVE  ordered'[i] <= m
    BY <1>2, <1>5, <1>7 DEF Greedy
  <2>1. CASE i \in 1 .. l
    BY <2>1, <1>0, <1>3, <1>5 DEF Greedy
  <2>2. CASE i = l + 1
    BY <2>2, <1>5, <1>11
  <2> QED BY <2>1, <2>2, <1>9
<1>13. ReadyAll'
  <2>1. ASSUME NEW m \in nodes \ Emitted', remaining'[m] = 0 PROVE m \in ready'
    <3>1. m \in nodes /\ m \notin Emitted /\ m # n /\ m \in Cards
      BY <1>6, <1>8, <2>1
    <3>2. CASE m \in Parents(n)
      <4>1. remaining[m] - 1 = 0 /\ remaining[m] \in Nat
        BY <1>1, <1>2, <2>1, <3>1, <3>2 DEF TypeOK
      <4>2. remaining[m] = 1
        BY <4>1
      <4> QED BY <1>2, <3>2, <4>2 DEF Freed
    <3>3. CASE m \notin Parents(n)
      <4>1. remaining[m] = 0
        BY <1>2, <2>1, <3>1, <3>3
      <4> QED BY <1>2, <1>3, <3>1, <4>1 DEF ReadyAll
    <3> QED BY <3>2, <3>3
  <2>2. ASSUME NEW m \in Emitted' PROVE remaining'[m] = 0
    <3>1. m \in Emitted \/ m = n
      BY <1>6
    <3>2. m \in Cards /\ n \notin Children(m)
      <4>1. CASE m \in Emitted
        BY <4>1, <1>1, <1>3, <1>4, <1>8, EmittedClosed
      <4>2. CASE m = n
        BY <4>2, <1>4
      <4> QED BY <3>1, <4>1, <4>2
    <3>3. m \notin Parents(n)
      BY <1>2, <3>2 DEF Parents, Children
    <3>4. remaining'[m] = remaining[m]
      BY <1>2, <3>2, <3>3
    <3>5. CASE m \in Emitted
      BY <1>3, <3>4, <3>5 DEF ReadyAll
    <3>6. CASE m = n
      <4>1. Children(n) \ Emitted = {} /\ n \in nodes \ Emitted
        BY <1>2, <1>4
      <4>2. remaining[n] = Cardinality({})
        BY <1>3, <4>1 DEF RightlyCounted
      <4> QED BY <3>4, <3>6, <4>2, FS_EmptySet
    <3> QED BY <3>1, <3>5, <3>6
  <2> QED BY <1>2, <2>1, <2>2 DEF ReadyAll
<1> QED BY <1>1, <1>2, <1>10, <1>12, <1>13 DEF OrderInv, Outcome

\* With nothing ready all is emitted, or each card left refers to one left.
LEMMA SortedOrder == ASSUME OrderInv, Sorted PROVE OrderInv'
<1>1. GraphInv' /\ GraphInv /\ TypeOK /\ Once
  BY SortedGraph DEF OrderInv, GraphInv
<1>2. /\ status = "sort" /\ ready = {}
      /\ UNCHANGED <<nodes, edges, remaining, ready, ordered, root>>
  BY DEF Sorted, Refuse
<1>3. RightlyCounted /\ LeavesFirst /\ ReadyAll /\ Greedy
  BY <1>1, <1>2 DEF OrderInv, GraphInv, SortInv
<1>4. Once' /\ Emitted' = Emitted
  BY <1>1, <1>2 DEF Once, Emitted
<1>5. CASE Len(ordered) = Cardinality(nodes) /\ status' = "sorted"
  <2>1. Emitted = nodes
    BY <1>1, <1>5, OrderFull
  <2>2. Greedy'
    BY <1>2, <1>3 DEF Greedy, EmittedBefore, Children
  <2> QED BY <1>1, <1>2, <1>4, <1>5, <2>1, <2>2 DEF OrderInv, Outcome
<1>6. CASE Len(ordered) # Cardinality(nodes) /\ status' = "cycle" /\ unresolved' = Unresolved
  <2>1. Emitted # nodes /\ Emitted \subseteq nodes
    BY <1>1, <1>6, OrderFull, OrderedIs
  <2>2. Unresolved = nodes \ Emitted
    BY <1>2, <1>3, <2>1 DEF Unresolved, ReadyAll
  <2>3. ASSUME NEW n \in nodes \ Emitted PROVE \E c \in nodes \ Emitted : c \in Children(n)
    <3>1. remaining[n] # 0
      BY <1>2, <1>3, <2>3 DEF ReadyAll
    <3>2. Children(n) \ Emitted # {}
      <4>1. remaining[n] = Cardinality(Children(n) \ Emitted)
        BY <1>3, <2>3 DEF RightlyCounted
      <4>2. Cardinality({}) = 0
        BY FS_EmptySet
      <4> QED BY <3>1, <4>1, <4>2
    <3> QED BY <3>2 DEF Children
  <2>4. \A m : Children(m)' = Children(m)
    BY <1>2 DEF Children
  <2> QED BY <1>1, <1>2, <1>4, <1>6, <2>1, <2>2, <2>3, <2>4 DEF OrderInv, Outcome
<1> QED BY <1>5, <1>6 DEF Sorted, Refuse

\* t has the members of s, each as often as s has it, if s has none twice.
Rearranged(s, t) ==
  /\ \A i \in 1 .. Len(s) : /\ \E j \in 1 .. Len(s) : t[j] = s[i]
                            /\ \E j \in 1 .. Len(s) : t[i] = s[j]
  /\ (\A i, j \in 1 .. Len(s) : s[i] = s[j] => i = j) =>
       \A i, j \in 1 .. Len(s) : t[i] = t[j] => i = j

\* Moving the card at p to the end loses none and doubles none.
LEMMA Moved ==
  ASSUME NEW s, Len(s) \in Nat, NEW p \in 1 .. Len(s)
  PROVE  Rearranged(s, MoveToEnd(s, p)) /\ MoveToEnd(s, p)[Len(s)] = s[p]
<1> DEFINE n == Len(s)
           t == MoveToEnd(s, p)
<1>0. n \in Nat /\ p \in 1 .. n /\ t = [i \in 1 .. n |-> IF i < p THEN s[i] ELSE IF i < n THEN s[i + 1] ELSE s[p]]
  BY DEF MoveToEnd
<1> HIDE DEF n, t
<1> DEFINE from(i) == IF i < p THEN i ELSE IF i < n THEN i + 1 ELSE p
<1>1. \A i \in 1 .. n : from(i) \in 1 .. n /\ t[i] = s[from(i)]
  BY <1>0
<1>2. n \in 1 .. n /\ from(n) = p
  BY <1>0
<1>3. \A i, j \in 1 .. n : from(i) = from(j) => i = j
  BY <1>0
<1>4. \A k \in 1 .. n : \E i \in 1 .. n : from(i) = k
  <2> SUFFICES ASSUME NEW k \in 1 .. n PROVE \E i \in 1 .. n : from(i) = k
    OBVIOUS
  <2>1. CASE k < p
    <3>1. from(k) = k
      BY <1>0, <2>1
    <3> QED BY <3>1
  <2>2. CASE k = p
    BY <1>2, <2>2
  <2>3. CASE k > p
    <3>1. k - 1 \in 1 .. n /\ from(k - 1) = k
      BY <1>0, <2>3
    <3> QED BY <3>1
  <2> QED BY <1>0, <2>1, <2>2, <2>3
<1> HIDE DEF from
<1>5. \A i \in 1 .. n : (\E j \in 1 .. n : t[j] = s[i]) /\ (\E j \in 1 .. n : t[i] = s[j])
  <2> SUFFICES ASSUME NEW i \in 1 .. n
               PROVE  (\E j \in 1 .. n : t[j] = s[i]) /\ (\E j \in 1 .. n : t[i] = s[j])
    OBVIOUS
  <2>1. PICK j \in 1 .. n : from(j) = i
    BY <1>4
  <2>2. t[j] = s[i]
    BY <1>1, <2>1
  <2>3. from(i) \in 1 .. n /\ t[i] = s[from(i)]
    BY <1>1
  <2> QED BY <2>2, <2>3
<1>6. t[n] = s[p]
  BY <1>1, <1>2
<1>7. ASSUME \A i, j \in 1 .. n : s[i] = s[j] => i = j, NEW i \in 1 .. n, NEW j \in 1 .. n, t[i] = t[j]
      PROVE  i = j
  <2>1. from(i) = from(j)
    BY <1>1, <1>7
  <2> QED BY <1>3, <2>1
<1> QED BY <1>5, <1>6, <1>7 DEF Rearranged, n, t

\* Moving the root changes where it stands and nothing else.
LEMMA RootOrder == ASSUME OrderInv, RootLast PROVE OrderInv'
<1>1. GraphInv' /\ GraphInv /\ TypeOK /\ Once /\ status = "sorted" /\ Emitted = nodes
  BY RootGraph DEF OrderInv, GraphInv, Outcome, RootLast
<1>2. CASE UNCHANGED <<nodes, ordered>> /\ status' = "roots"
  BY <1>1, <1>2 DEF OrderInv, Outcome, Once
<1>3. ASSUME NEW p \in DOMAIN ordered, Roots = {ordered[p]},
             root' = ordered[p], ordered' = MoveToEnd(ordered, p), status' = "done",
             UNCHANGED <<nodes, edges>>
      PROVE  OrderInv'
  <2>1. PICK l \in Nat : l = Len(ordered)
    BY <1>1, OrderedIs
  <2>2. /\ DOMAIN ordered = 1 .. l /\ ordered \in [1 .. l -> nodes]
        /\ Emitted = {ordered[i] : i \in 1 .. l}
        /\ \A i, j \in 1 .. l : ordered[i] = ordered[j] => i = j
    BY <1>1, <2>1, OrderedIs DEF Once
  <2>3. ordered' = [i \in 1 .. l |-> IF i < p THEN ordered[i]
                                     ELSE IF i < l THEN ordered[i + 1] ELSE ordered[p]]
    BY <1>3, <2>1 DEF MoveToEnd
  <2>4. ordered'[l] = ordered[p] /\ Rearranged(ordered, ordered')
    <3>1. Len(ordered) \in Nat /\ p \in 1 .. Len(ordered)
      BY <1>3, <2>1, <2>2
    <3>2. Rearranged(ordered, MoveToEnd(ordered, p)) /\ MoveToEnd(ordered, p)[Len(ordered)] = ordered[p]
      BY <3>1, Moved
    <3> QED BY <1>3, <2>1, <3>2
  <2>5. DOMAIN ordered' = 1 .. l /\ TypeOK'
    BY <1>1, <2>3 DEF GraphInv
  <2>6. Len(ordered') = l
    <3>1. ordered' \in Seq(nodes')
      BY <2>5 DEF TypeOK
    <3> QED BY <2>5, <3>1
  <2>7. Once'
    BY <2>1, <2>2, <2>4, <2>6 DEF Once, Rearranged
  <2>8. Emitted' = nodes'
    <3>1. \A i \in 1 .. l : /\ \E j \in 1 .. l : ordered'[j] = ordered[i]
                           /\ \E j \in 1 .. l : ordered'[i] = ordered[j]
      BY <2>1, <2>4 DEF Rearranged
    <3>2. Emitted' = {ordered'[i] : i \in 1 .. l}
      BY <2>5 DEF Emitted
    <3>3. Emitted = {ordered[i] : i \in 1 .. l}
      BY <2>2
    <3>4. ASSUME NEW c PROVE c \in Emitted' <=> c \in Emitted
      BY <3>1, <3>2, <3>3
    <3>5. Emitted' = Emitted
      BY <3>4
    <3> QED BY <1>1, <1>3, <3>5
  <2>9. ordered'[Len(ordered')] = root'
    BY <1>3, <2>4, <2>6
  <2>10. Parents(root)' = {} /\ (Candidates' # {root'} => Candidates' \cap Services = {root'})
    <3>1. /\ \A m : Parents(m)' = Parents(m)
          /\ Candidates' = Candidates
      BY <1>3 DEF Parents, Candidates
    <3>2. root' \in Candidates /\ (Candidates # {root'} => Candidates \cap Services = {root'})
      BY <1>3 DEF Roots
    <3>3. Parents(root') = {}
      BY <3>2 DEF Candidates
    <3> QED BY <3>1, <3>2, <3>3
  <2> QED BY <1>1, <1>3, <2>7, <2>8, <2>9, <2>10 DEF OrderInv, Outcome
<1> QED BY <1>2, <1>3 DEF RootLast, Refuse

\* Every step of the sort keeps what holds of it.
LEMMA NextOrder == ASSUME OrderInv, [Next]_vars PROVE OrderInv'
<1>1. CASE UNCHANGED vars
  <2>1. GraphInv'
    BY <1>1, NextGraph DEF OrderInv
  <2>2. /\ nodes' = nodes /\ edges' = edges /\ remaining' = remaining /\ ready' = ready
        /\ ordered' = ordered /\ unresolved' = unresolved /\ root' = root /\ status' = status
    BY <1>1 DEF vars
  <2>3. Once'
    BY <2>2 DEF OrderInv, Once
  <2>4. Emitted' = Emitted
    BY <2>2 DEF Emitted
  <2>5. \A n : Children(n)' = Children(n) /\ Parents(n)' = Parents(n)
    BY <2>2 DEF Children, Parents
  <2>6. ReadyAll' <=> ReadyAll
    BY <2>2, <2>4 DEF ReadyAll
  <2>7. Greedy' <=> Greedy
    BY <2>2, <2>5 DEF Greedy, EmittedBefore
  <2>8. Candidates' = Candidates
    BY <2>2, <2>5 DEF Candidates
  <2>9. Parents(root)' = Parents(root)
    BY <2>2 DEF Parents
  <2>10. Outcome'
    BY <2>2, <2>4, <2>5, <2>7, <2>8, <2>9 DEF OrderInv, Outcome
  <2> QED BY <2>1, <2>2, <2>3, <2>6, <2>7, <2>10 DEF OrderInv
<1> QED BY <1>1, BuildOrder, PopOrder, SortedOrder, RootOrder DEF Next

\* Below is the least set with the children that has its members' children.
LEMMA BelowIs ==
  ASSUME NEW n
  PROVE  /\ Below(n) \subseteq nodes /\ Children(n) \subseteq Below(n) /\ SelfContained(Below(n))
         /\ \A S \in SUBSET nodes : Children(n) \subseteq S /\ SelfContained(S) => Below(n) \subseteq S
<1>1. \A m : Children(m) \subseteq nodes
  BY DEF Children
<1>2. \A c : c \in Below(n) <=>
        c \in nodes /\ \A S \in SUBSET nodes : Children(n) \subseteq S /\ SelfContained(S) => c \in S
  BY DEF Below
<1>3. SelfContained(Below(n))
  <2> SUFFICES ASSUME NEW x \in Below(n), NEW c \in Children(x) PROVE c \in Below(n)
    BY DEF SelfContained
  <2>1. ASSUME NEW S \in SUBSET nodes, Children(n) \subseteq S, SelfContained(S) PROVE c \in S
    <3>1. x \in S
      BY <1>2, <2>1
    <3> QED BY <2>1, <3>1 DEF SelfContained
  <2> QED BY <1>1, <1>2, <2>1
<1>4. Children(n) \subseteq Below(n)
  BY <1>1, <1>2
<1> QED BY <1>2, <1>3, <1>4

\* What a card stands above was emitted before it.
LEMMA BelowBefore ==
  ASSUME TypeOK, LeavesFirst, Once, NEW i \in 1 .. Len(ordered)
  PROVE  /\ Below(ordered[i]) \subseteq EmittedBefore(i) /\ EmittedBefore(i) \subseteq Emitted
         /\ ordered[i] \notin EmittedBefore(i)
<1>1. /\ Len(ordered) \in Nat /\ ordered \in [1 .. Len(ordered) -> nodes]
      /\ Emitted = {ordered[j] : j \in 1 .. Len(ordered)} /\ Emitted \subseteq nodes
      /\ DOMAIN ordered = 1 .. Len(ordered)
  BY OrderedIs
<1>2. \A j \in 1 .. i - 1 : j \in 1 .. Len(ordered) /\ j # i
  BY <1>1
<1>3. EmittedBefore(i) \subseteq Emitted
  BY <1>1, <1>2 DEF EmittedBefore
<1>4. ASSUME NEW k \in 1 .. Len(ordered), NEW c \in Children(ordered[k])
      PROVE  \E j \in 1 .. k - 1 : ordered[j] = c
  <2>1. <<ordered[k], c>> \in edges
    BY DEF Children
  <2> QED BY <1>1, <2>1 DEF LeavesFirst
<1>5. Children(ordered[i]) \subseteq EmittedBefore(i)
  BY <1>4 DEF EmittedBefore
<1>6. SelfContained(EmittedBefore(i))
  <2> SUFFICES ASSUME NEW k \in 1 .. i - 1, NEW c \in Children(ordered[k]) PROVE c \in EmittedBefore(i)
    BY DEF SelfContained, EmittedBefore
  <2>1. PICK j \in 1 .. k - 1 : ordered[j] = c
    BY <1>2, <1>4
  <2>2. j \in 1 .. i - 1
    BY <1>1
  <2> QED BY <2>1, <2>2 DEF EmittedBefore
<1>7. Below(ordered[i]) \subseteq EmittedBefore(i)
  BY <1>1, <1>3, <1>5, <1>6, BelowIs
<1>8. ordered[i] \notin EmittedBefore(i)
  BY <1>2 DEF EmittedBefore, Once
<1> QED BY <1>3, <1>7, <1>8

\* An emitted card is on no cycle and above none.
LEMMA EmittedAcyclic ==
  ASSUME TypeOK, LeavesFirst, Once, NEW n \in Emitted PROVE n \notin Below(n) /\ Below(n) \subseteq Emitted
<1>1. PICK i \in 1 .. Len(ordered) : ordered[i] = n
  BY OrderedIs
<1> QED BY <1>1, BelowBefore

\* Of cards that each refer to another of them, each is on a cycle or above one.
LEMMA CycleFound ==
  ASSUME TypeOK, NEW U \in SUBSET nodes, \A n \in U : \E c \in U : c \in Children(n), NEW n \in U
  PROVE  CycleAbove(n)
<1> DEFINE A == Below(n) \cup {n}
           T == {Cardinality(Below(m)) : m \in U \cap A}
<1> SUFFICES ASSUME \A m \in A : m \notin Below(m) PROVE FALSE
  BY DEF CycleAbove
<1>1. \A m : IsFiniteSet(Below(m)) /\ Cardinality(Below(m)) \in Nat
  <2>1. \A m : Below(m) \in SUBSET Cards
    BY BelowIs DEF TypeOK
  <2> QED BY <2>1, CardsFinite
<1>2. T \subseteq Nat /\ T # {}
  BY <1>1
<1>3. PICK x \in T : \A y \in T : x <= y
  <2> HIDE DEF T
  <2> QED BY <1>2, LeastNumber
<1>4. PICK m \in U \cap A : x = Cardinality(Below(m))
  BY <1>3
<1>5. PICK c \in U : c \in Children(m)
  BY <1>4
<1>6. c \in Below(m)
  BY <1>5, BelowIs
<1>7. c \in A
  <2>1. CASE m = n
    BY <1>6, <2>1
  <2>2. CASE m \in Below(n)
    BY <1>5, <2>2, BelowIs DEF SelfContained
  <2> QED BY <1>4, <2>1, <2>2
<1>8. Below(c) \subseteq Below(m)
  <2>1. SelfContained(Below(m)) /\ Below(m) \in SUBSET nodes
    BY BelowIs
  <2>2. Children(c) \subseteq Below(m)
    BY <1>6, <2>1 DEF SelfContained
  <2> QED BY <2>1, <2>2, BelowIs
<1>9. c \notin Below(c)
  BY <1>7
<1>10. Cardinality(Below(c)) <= Cardinality(Below(m)) /\ Cardinality(Below(c)) # Cardinality(Below(m))
  BY <1>1, <1>6, <1>8, <1>9, FS_Subset
<1>11. Cardinality(Below(c)) \in T
  BY <1>7
<1> HIDE DEF T
<1>12. Cardinality(Below(m)) <= Cardinality(Below(c))
  BY <1>3, <1>4, <1>11
<1> QED BY <1>1, <1>10, <1>12

\* What a failed sort reports, against the cycles there are.
LEMMA OrderCycleNamed == OrderInv => CycleNamed
<1> SUFFICES ASSUME OrderInv PROVE CycleNamed
  OBVIOUS
<1>1. TypeOK /\ LeavesFirst /\ Once /\ Outcome
  BY DEF OrderInv, GraphInv, SortInv
<1>2. Emitted \subseteq nodes
  BY <1>1, OrderedIs
<1>3. ASSUME status = "cycle" PROVE unresolved # {} /\ unresolved = {n \in nodes : CycleAbove(n)}
  <2>1. /\ unresolved = nodes \ Emitted /\ unresolved # {}
        /\ \A n \in unresolved : \E c \in unresolved : c \in Children(n)
    BY <1>1, <1>3 DEF Outcome
  <2>2. ASSUME NEW n \in unresolved PROVE CycleAbove(n)
    BY <1>1, <2>1, CycleFound
  <2>3. ASSUME NEW n \in Emitted PROVE ~ CycleAbove(n)
    BY <1>1, EmittedAcyclic DEF CycleAbove
  <2> QED BY <2>1, <2>2, <2>3
<1>4. ASSUME status \in {"sorted", "done"} PROVE \A n \in nodes : n \notin Below(n)
  <2>1. Emitted = nodes
    BY <1>1, <1>4 DEF Outcome
  <2> QED BY <1>1, <2>1, EmittedAcyclic
<1> QED BY <1>3, <1>4 DEF CycleNamed

\* topo_sort reports a cycle exactly when there is one, for any number of cards
\* and any references, and names the cards on a cycle or above one, no others.
THEOREM CycleNamedAlways == Spec => []CycleNamed
BY OrderCycleNamed, OrderStarts, NextOrder, PTL DEF Spec

\* When nobody refers to the root alone, everything hangs from it.
LEMMA Hangs ==
  ASSUME TypeOK, LeavesFirst, Once, Emitted = nodes,
         \A n \in nodes : Parents(n) = {} => n = root
  PROVE  nodes \ {root} \subseteq Below(root)
<1> DEFINE l == Len(ordered)
           B == Below(root) \cup {root}
           T == {l - i : i \in {k \in 1 .. l : ordered[k] \notin B}}
<1>1. /\ l \in Nat /\ ordered \in [1 .. l -> nodes] /\ DOMAIN ordered = 1 .. l
      /\ nodes = {ordered[i] : i \in 1 .. l}
  BY OrderedIs
<1> SUFFICES ASSUME NEW n \in nodes, n \notin B PROVE FALSE
  OBVIOUS
<1> HIDE DEF l, B
<1>2. T \subseteq Nat /\ T # {}
  <2>0. l \in Nat
    BY <1>1
  <2>1. \A i \in 1 .. l : l - i \in Nat
    BY <2>0
  <2>2. PICK i \in 1 .. l : ordered[i] = n
    BY <1>1
  <2>3. l - i \in T
    BY <2>2
  <2>4. \A x \in T : x \in Nat
    BY <2>1
  <2> HIDE DEF T
  <2> QED BY <2>3, <2>4
<1>3. PICK x \in T : \A y \in T : x <= y
  <2> HIDE DEF T
  <2> QED BY <1>2, LeastNumber
<1>4. PICK i \in 1 .. l : ordered[i] \notin B /\ x = l - i
  BY <1>3
<1>5. PICK p \in nodes : <<p, ordered[i]>> \in edges
  <2>1. ordered[i] \in nodes /\ ordered[i] # root
    BY <1>1, <1>4 DEF B
  <2> QED BY <2>1 DEF Parents
<1>6. p \notin B
  <2>1. ordered[i] \in Children(p)
    BY <1>1, <1>5 DEF Children
  <2> QED BY <1>4, <2>1, BelowIs DEF B, SelfContained
<1>7. PICK k \in 1 .. l : ordered[k] = p
  BY <1>1
<1>8. \E j \in 1 .. k - 1 : ordered[j] = ordered[i]
  BY <1>1, <1>5, <1>7 DEF LeavesFirst
<1>9. i < k
  <2>1. PICK j \in 1 .. k - 1 : ordered[j] = ordered[i]
    BY <1>8
  <2>2. j \in 1 .. l
    BY <1>1
  <2>3. j = i
    BY <2>1, <2>2 DEF Once, l
  <2> QED BY <2>3
<1>10. l - k \in T
  BY <1>6, <1>7
<1> HIDE DEF T
<1>11. l - i <= l - k
  BY <1>3, <1>4, <1>10
<1> QED BY <1>1, <1>9, <1>11

\* What stands at the end, against all that was submitted.
LEMMA OrderRootCovers == OrderInv => RootCovers
<1> SUFFICES ASSUME OrderInv, status = "done" PROVE RootCovers
  BY DEF RootCovers
<1>1. TypeOK /\ LeavesFirst /\ Once /\ Outcome
  BY DEF OrderInv, GraphInv, SortInv
<1>2. /\ Emitted = nodes /\ ordered[Len(ordered)] = root /\ Parents(root) = {}
      /\ Candidates # {root} => Candidates \cap Services = {root}
  BY <1>1 DEF Outcome
<1>3. ASSUME Candidates = {root} PROVE nodes \ {root} \subseteq Below(root)
  <2>1. \A n \in nodes : Parents(n) = {} => n = root
    BY <1>3 DEF Candidates
  <2> QED BY <1>1, <1>2, <2>1, Hangs
<1> QED BY <1>2, <1>3 DEF RootCovers

\* The root no card refers to comes last, for any number of cards; everything
\* else hangs from it, Service or not, when it is the only such card, and it is
\* the only Service among them when there are more.
THEOREM RootCoversAlways == Spec => []RootCovers
BY OrderRootCovers, OrderStarts, NextOrder, PTL DEF Spec

-----------------------------------------------------------------------------
\* An order of all cards with leaves first cannot have a lesser card where it
\* leaves the order of a greedy sort.
LEMMA GreedyLeast ==
  ASSUME TypeOK, Once, LeavesFirst, Greedy, Emitted = nodes, NEW s \in Orders, s # ordered
  PROVE  Precedes(ordered, s)
<1> DEFINE l == Len(ordered)
           T == {i \in 1 .. l : ordered[i] # s[i]}
<1>1. /\ l \in Nat /\ ordered \in [1 .. l -> nodes] /\ DOMAIN ordered = 1 .. l
      /\ l = Cardinality(nodes) /\ IsFiniteSet(nodes) /\ nodes \subseteq Nat
  <2>1. nodes \subseteq Nat /\ IsFiniteSet(nodes)
    BY CardsFinite DEF TypeOK, Cards
  <2> QED BY <2>1, OrderedIs, OrderFull
<1> HIDE DEF l
<1>2. /\ s \in [1 .. l -> nodes]
      /\ \A i, j \in 1 .. l : s[i] = s[j] => i = j
      /\ \A i, j \in 1 .. l : <<s[i], s[j]>> \in edges => j < i
  BY <1>1 DEF Orders
<1>3. \A c \in nodes : \E i \in 1 .. l : s[i] = c
  <2>1. l \in Nat /\ IsFiniteSet(nodes) /\ s \in [1 .. l -> nodes]
    BY <1>1, <1>2
  <2>2. \A i, j \in 1 .. l : s[i] = s[j] => i = j
    BY <1>2
  <2>3. l = Cardinality(nodes) <=> \A c \in nodes : \E i \in 1 .. l : s[i] = c
    BY <2>1, <2>2, AllOnce
  <2> QED BY <1>1, <2>3
<1>4. T # {} /\ T \subseteq Nat
  BY <1>1, <1>2
<1>5. PICK i \in T : \A j \in T : i <= j
  <2> HIDE DEF T
  <2> QED BY <1>4, LeastNumber
<1>6. i \in 1 .. l /\ ordered[i] # s[i]
  OBVIOUS
<1>7. \A j \in 1 .. i - 1 : j \in 1 .. l /\ ordered[j] = s[j] /\ j < i
  BY <1>1, <1>5
<1> HIDE DEF T
<1>8. s[i] \notin EmittedBefore(i)
  BY <1>2, <1>6, <1>7 DEF EmittedBefore
<1>9. ASSUME NEW c \in Children(s[i]) PROVE c \in EmittedBefore(i)
  <2>1. c \in nodes /\ <<s[i], c>> \in edges
    BY DEF Children
  <2>2. PICK j \in 1 .. l : s[j] = c
    BY <1>3, <2>1
  <2>3. j < i
    BY <1>2, <1>6, <2>1, <2>2
  <2>4. j \in 1 .. i - 1
    BY <1>6, <2>3
  <2> QED BY <1>7, <2>2, <2>4 DEF EmittedBefore
<1>10. ordered[i] <= s[i]
  BY <1>2, <1>6, <1>8, <1>9 DEF Greedy, l
<1>11. ordered[i] < s[i]
  <2>1. ordered[i] \in Nat /\ s[i] \in Nat
    BY <1>1, <1>2, <1>6
  <2> QED BY <1>6, <1>10, <2>1
<1> QED BY <1>1, <1>6, <1>7, <1>11 DEF Precedes

\* What a finished sort returns, against every order there is.
LEMMA OrderLeast == OrderInv => LeastOrder
<1> SUFFICES ASSUME OrderInv, status = "sorted" PROVE LeastOrder
  BY DEF LeastOrder
<1>1. TypeOK /\ LeavesFirst /\ Once /\ Greedy /\ Emitted = nodes
  BY DEF OrderInv, GraphInv, SortInv, Outcome
<1>2. ordered \in Orders
  <2>1. /\ Len(ordered) = Cardinality(nodes) /\ Len(ordered) \in Nat
        /\ ordered \in [1 .. Len(ordered) -> nodes] /\ DOMAIN ordered = 1 .. Len(ordered)
    BY <1>1, OrderFull, OrderedIs
  <2>2. ASSUME NEW i \in DOMAIN ordered, NEW j \in DOMAIN ordered, <<ordered[i], ordered[j]>> \in edges
        PROVE  j < i
    <3>1. PICK k \in 1 .. i - 1 : ordered[k] = ordered[j]
      BY <1>1, <2>2 DEF LeavesFirst
    <3>2. k = j
      BY <1>1, <2>1, <3>1 DEF Once
    <3> QED BY <2>1, <3>1, <3>2
  <2> QED BY <1>1, <2>1, <2>2 DEF Orders, Once
<1>3. ASSUME NEW s \in Orders, s # ordered PROVE Precedes(ordered, s)
  BY <1>1, <1>3, GreedyLeast
<1> QED BY <1>2, <1>3 DEF LeastOrder

\* Of all orders with leaves first, topo_sort returns the least, for any number
\* of cards and any references: the order of submission has no say.
THEOREM LeastOrderAlways == Spec => []LeastOrder
BY OrderLeast, OrderStarts, NextOrder, PTL DEF Spec

-----------------------------------------------------------------------------
(* The layers of an execution plan, repeated entries included: a degree is *)
(* the number of the entries whose tasks are not in a stage yet, so a task *)
(* is ready exactly when it waits for none, and has waited for one of the  *)
(* stage just emitted.                                                     *)

PlanShape ==
  /\ Tasks \subseteq Ids /\ depends \in [Tasks -> Seq(Ids)]
  /\ degree \in [Tasks -> Nat]
  /\ wave \subseteq Tasks /\ stages \in Seq(SUBSET Tasks)

\* The places of t's list whose tasks are not in a stage, and those that the
\* coming stage fills.
Left(t)  == {k \in DOMAIN depends[t] : depends[t][k] \notin InStages}
Filled(t) == {k \in DOMAIN depends[t] : depends[t][k] \in wave}

Counted == \A t \in Tasks : degree[t] = Cardinality(Left(t))

Ready == wave = {t \in Tasks \ InStages : Left(t) = {}}

RightBehind == \A t \in wave : stages # << >> =>
                 \E k \in DOMAIN depends[t] : depends[t][k] \in stages[Len(stages)]

Laid == \A i \in DOMAIN stages : \A t \in stages[i] :
          /\ \A k \in DOMAIN depends[t] : \E j \in 1 .. i - 1 : depends[t][k] \in stages[j]
          /\ i > 1 => \E k \in DOMAIN depends[t] : depends[t][k] \in stages[i - 1]
          /\ \A j \in DOMAIN stages : t \in stages[j] => i = j

PlanInv ==
  /\ PlanShape
  /\ verdict = "new" => stages = << >>
  /\ verdict = "layers" => Counted /\ Ready /\ RightBehind
  /\ PlanLayered

-----------------------------------------------------------------------------
\* Lists and sets of tasks are finite.
LEMMA PlacesFinite ==
  ASSUME PlanShape, NEW t \in Tasks
  PROVE  /\ DOMAIN depends[t] = 1 .. Len(depends[t]) /\ Len(depends[t]) \in Nat
         /\ IsFiniteSet(DOMAIN depends[t])
         /\ Cardinality(DOMAIN depends[t]) = Len(depends[t])
<1>1. depends[t] \in Seq(Ids)
  BY DEF PlanShape
<1>2. DOMAIN depends[t] = 1 .. Len(depends[t]) /\ Len(depends[t]) \in Nat
  BY <1>1
<1> QED BY <1>2, FS_Interval

LEMMA PlacesCounted ==
  ASSUME PlanShape, NEW t \in Tasks
  PROVE  /\ IsFiniteSet(Left(t)) /\ Cardinality(Left(t)) \in Nat
         /\ IsFiniteSet(Filled(t)) /\ Cardinality(Filled(t)) \in Nat
<1>1. IsFiniteSet(DOMAIN depends[t])
  BY PlacesFinite
<1>2. Left(t) \subseteq DOMAIN depends[t] /\ Filled(t) \subseteq DOMAIN depends[t]
  BY DEF Left, Filled
<1> QED BY <1>1, <1>2, FS_Subset, FS_CardinalityType

\* At first every entry waits for its task.
LEMMA ScanStep ==
  ASSUME PlanInv, Scan
  PROVE  PlanInv'
<1>1. /\ PlanShape /\ stages = << >> /\ stages' = stages /\ depends' = depends
      /\ Tasks' = Tasks
  BY DEF PlanInv, Scan, Tasks
<1>2. InStages' = {}
  BY <1>1 DEF InStages
<1>3. PlanLayered'
  <2>1. verdict' # "plan"
    BY DEF Scan
  <2> QED BY <1>1, <2>1 DEF PlanLayered
<1>4. CASE verdict' # "layers"
  <2>1. UNCHANGED <<degree, wave>> /\ verdict' # "new"
    BY <1>4 DEF Scan
  <2>2. PlanShape'
    BY <1>1, <2>1 DEF PlanShape
  <2> QED BY <1>3, <1>4, <2>1, <2>2 DEF PlanInv
<1>5. CASE verdict' = "layers"
  <2>1. /\ degree' = [t \in Tasks |-> Len(depends[t])]
        /\ wave' = {t \in Tasks : depends[t] = << >>}
    BY <1>5 DEF Scan
  <2>2. \A t \in Tasks : Left(t)' = DOMAIN depends[t]
    BY <1>1, <1>2 DEF Left
  <2>3. \A t \in Tasks : Cardinality(Left(t)') = Len(depends[t]) /\ Len(depends[t]) \in Nat
    BY <1>1, <2>2, PlacesFinite
  <2>4. PlanShape' /\ Counted'
    BY <1>1, <2>1, <2>3 DEF PlanShape, Counted
  <2>5. \A t \in Tasks : depends[t] = << >> <=> Left(t)' = {}
    <3> SUFFICES ASSUME NEW t \in Tasks PROVE depends[t] = << >> <=> DOMAIN depends[t] = {}
      BY <2>2
    <3>1. depends[t] \in Seq(Ids)
      BY <1>1 DEF PlanShape
    <3>2. Len(depends[t]) = 0 <=> depends[t] = << >>
      BY <3>1
    <3>3. DOMAIN depends[t] = 1 .. Len(depends[t]) /\ Len(depends[t]) \in Nat
      BY <1>1, PlacesFinite
    <3>4. ASSUME NEW n \in Nat PROVE 1 .. n = {} <=> n = 0
      <4>1. n # 0 => 1 \in 1 .. n
        OBVIOUS
      <4> QED BY <4>1
    <3> QED BY <3>2, <3>3, <3>4, Zenon
  <2>6. Ready' /\ RightBehind'
    BY <1>1, <1>2, <2>1, <2>5 DEF Ready, RightBehind
  <2> QED BY <1>3, <1>5, <2>4, <2>6 DEF PlanInv
<1> QED BY <1>4, <1>5

LEMMA StageAdded ==
  ASSUME PlanInv, EmitStage
  PROVE  /\ Tasks' = Tasks /\ depends' = depends
         /\ Len(stages) \in Nat /\ Len(stages') = Len(stages) + 1
         /\ DOMAIN stages = 1 .. Len(stages) /\ DOMAIN stages' = 1 .. Len(stages) + 1
         /\ stages' \in Seq(SUBSET Tasks)
         /\ \A i \in 1 .. Len(stages) : stages'[i] = stages[i]
         /\ stages'[Len(stages) + 1] = wave
         /\ InStages' = InStages \cup wave
<1>1. /\ Tasks' = Tasks /\ depends' = depends /\ stages' = Append(stages, wave)
      /\ stages \in Seq(SUBSET Tasks) /\ wave \in SUBSET Tasks
  BY DEF PlanInv, PlanShape, EmitStage, Tasks
<1>2. /\ Len(stages) \in Nat /\ Len(stages') = Len(stages) + 1
      /\ DOMAIN stages = 1 .. Len(stages) /\ DOMAIN stages' = 1 .. Len(stages) + 1
      /\ stages' \in Seq(SUBSET Tasks)
  BY <1>1
<1>3. /\ \A i \in 1 .. Len(stages) : stages'[i] = stages[i]
      /\ stages'[Len(stages) + 1] = wave
  BY <1>1
<1>4. InStages' = InStages \cup wave
  <2>1. \A i \in DOMAIN stages' : stages'[i] \subseteq InStages \cup wave
    <3> SUFFICES ASSUME NEW i \in DOMAIN stages' PROVE stages'[i] \subseteq InStages \cup wave
      OBVIOUS
    <3>1. i \in DOMAIN stages \/ i = Len(stages) + 1
      BY <1>2
    <3> QED BY <1>2, <1>3, <3>1 DEF InStages
  <2>2. \A i \in DOMAIN stages : stages[i] \subseteq InStages'
    <3> SUFFICES ASSUME NEW i \in DOMAIN stages PROVE stages[i] \subseteq InStages'
      OBVIOUS
    <3>1. i \in DOMAIN stages' /\ stages'[i] = stages[i]
      BY <1>2, <1>3
    <3> QED BY <3>1 DEF InStages
  <2>3. wave \subseteq InStages'
    <3>1. Len(stages) + 1 \in DOMAIN stages'
      BY <1>2
    <3> QED BY <1>3, <3>1 DEF InStages
  <2> QED BY <2>1, <2>2, <2>3 DEF InStages
<1> QED BY <1>1, <1>2, <1>3, <1>4

\* The loop: what an emitted stage frees is taken from the counts once.
LEMMA EmitCounts ==
  ASSUME PlanInv, EmitStage, NEW t \in Tasks
  PROVE  /\ Left(t)' = Left(t) \ Filled(t) /\ Filled(t) \subseteq Left(t)
         /\ degree'[t] = Cardinality(Left(t)') /\ degree'[t] \in Nat
         /\ Uses(t) = Cardinality(Filled(t))
<1>0. PlanShape /\ Counted /\ Ready
  BY DEF PlanInv, EmitStage
<1>1. depends' = depends /\ InStages' = InStages \cup wave
  BY StageAdded
<1>2. wave \cap InStages = {}
  BY <1>0 DEF Ready
<1>3. Left(t)' = Left(t) \ Filled(t) /\ Filled(t) \subseteq Left(t)
  BY <1>1, <1>2 DEF Left, Filled
<1>4. Uses(t) = Cardinality(Filled(t))
  BY DEF Uses, Filled
<1>5. IsFiniteSet(Left(t)) /\ Left(t) \cap Filled(t) = Filled(t)
  BY <1>0, <1>3, PlacesCounted
<1>6. /\ Cardinality(Left(t) \ Filled(t)) = Cardinality(Left(t)) - Cardinality(Filled(t))
      /\ Cardinality(Left(t) \ Filled(t)) \in Nat
  BY <1>5, FS_Difference, FS_CardinalityType
<1>7. degree'[t] = degree[t] - Uses(t)
  BY DEF EmitStage
<1> QED BY <1>0, <1>3, <1>4, <1>6, <1>7 DEF Counted

LEMMA EmitReady ==
  ASSUME PlanInv, EmitStage
  PROVE  Ready' /\ RightBehind'
<1>0. /\ PlanShape /\ Counted /\ Ready /\ Tasks' = Tasks /\ depends' = depends
      /\ InStages' = InStages \cup wave /\ Laid
  BY StageAdded DEF PlanInv, EmitStage, PlanLayered, Laid
<1>1. \A t \in InStages : Left(t) = {}
  <2> SUFFICES ASSUME NEW i \in DOMAIN stages, NEW t \in stages[i] PROVE Left(t) = {}
    BY DEF InStages
  <2>1. \A k \in DOMAIN depends[t] : \E j \in 1 .. i - 1 : depends[t][k] \in stages[j]
    BY <1>0 DEF Laid
  <2>2. \A j \in 1 .. i - 1 : j \in DOMAIN stages
    BY <1>0 DEF PlanShape
  <2> QED BY <2>1, <2>2 DEF Left, InStages
<1>2. wave' = {t \in Tasks : Cardinality(Filled(t)) > 0 /\ Cardinality(Left(t)) = Cardinality(Filled(t))}
  <2>1. wave' = {t \in Tasks : Uses(t) > 0 /\ degree[t] = Uses(t)}
    BY DEF EmitStage, NextWave
  <2>2. \A t \in Tasks : Uses(t) = Cardinality(Filled(t)) /\ degree[t] = Cardinality(Left(t))
    BY <1>0, EmitCounts DEF Counted
  <2> QED BY <2>1, <2>2
<1>3. ASSUME NEW t \in Tasks
      PROVE  (Cardinality(Filled(t)) > 0 /\ Cardinality(Left(t)) = Cardinality(Filled(t)))
               <=> (Filled(t) # {} /\ Left(t) = Filled(t))
  <2>1. /\ IsFiniteSet(Left(t)) /\ IsFiniteSet(Filled(t)) /\ Cardinality(Filled(t)) \in Nat
        /\ Filled(t) \subseteq Left(t)
    BY <1>0, PlacesCounted, EmitCounts
  <2>2. Cardinality(Filled(t)) = 0 <=> Filled(t) = {}
    BY <2>1, FS_EmptySet
  <2>3. Cardinality(Left(t)) = Cardinality(Filled(t)) => Left(t) = Filled(t)
    BY <2>1, FS_Subset
  <2> QED BY <2>1, <2>2, <2>3
<1>4. ASSUME NEW t \in Tasks
      PROVE  (Filled(t) # {} /\ Left(t) = Filled(t)) <=> (t \notin InStages' /\ Left(t)' = {})
  <2>1. Left(t)' = Left(t) \ Filled(t) /\ Filled(t) \subseteq Left(t)
    BY EmitCounts
  <2>2. t \in InStages \cup wave => Left(t) = {}
    BY <1>0, <1>1 DEF Ready
  <2>3. Left(t) = {} => t \in InStages \cup wave
    BY <1>0 DEF Ready
  <2> QED BY <1>0, <2>1, <2>2, <2>3
<1>5. Ready'
  <2>1. wave' = {t \in Tasks : t \notin InStages' /\ Left(t)' = {}}
    BY <1>2, <1>3, <1>4
  <2> QED BY <1>0, <2>1 DEF Ready
<1>6. RightBehind'
  <2> SUFFICES ASSUME NEW t \in wave'
               PROVE  \E k \in DOMAIN depends[t] : depends[t][k] \in stages'[Len(stages')]
    BY <1>0 DEF RightBehind
  <2>1. t \in Tasks /\ Filled(t) # {}
    BY <1>2, <1>3
  <2> QED BY <2>1, StageAdded DEF Filled
<1> QED BY <1>5, <1>6

LEMMA EmitLaid ==
  ASSUME PlanInv, EmitStage
  PROVE  Laid'
<1> DEFINE n == Len(stages)
<1>0. /\ PlanShape /\ Ready /\ RightBehind /\ Laid /\ depends' = depends
  BY StageAdded DEF PlanInv, EmitStage, PlanLayered, Laid
<1>1. /\ n \in Nat /\ DOMAIN stages = 1 .. n /\ DOMAIN stages' = 1 .. n + 1
      /\ \A i \in 1 .. n : stages'[i] = stages[i]
      /\ stages'[n + 1] = wave
  BY StageAdded
<1>2. \A i \in 1 .. n : stages[i] \subseteq InStages
  BY <1>1 DEF InStages
<1>3. wave \cap InStages = {} /\ \A t \in wave : Left(t) = {}
  BY <1>0 DEF Ready
<1> HIDE DEF n
<1> SUFFICES ASSUME NEW i \in 1 .. n + 1, NEW t \in stages'[i]
             PROVE  /\ \A k \in DOMAIN depends[t] : \E j \in 1 .. i - 1 : depends[t][k] \in stages'[j]
                    /\ i > 1 => \E k \in DOMAIN depends[t] : depends[t][k] \in stages'[i - 1]
                    /\ \A j \in 1 .. n + 1 : t \in stages'[j] => i = j
  BY <1>0, <1>1 DEF Laid
<1>4. CASE i \in 1 .. n
  <2>1. /\ t \in stages[i] /\ t \notin wave
        /\ \A k \in DOMAIN depends[t] : \E j \in 1 .. i - 1 : depends[t][k] \in stages[j]
        /\ i > 1 => \E k \in DOMAIN depends[t] : depends[t][k] \in stages[i - 1]
        /\ \A j \in 1 .. n : t \in stages[j] => i = j
    BY <1>0, <1>1, <1>2, <1>3, <1>4 DEF Laid
  <2>2. \A j \in 1 .. i - 1 : j \in 1 .. n /\ stages'[j] = stages[j]
    BY <1>1, <1>4
  <2>3. i > 1 => i - 1 \in 1 .. n /\ stages'[i - 1] = stages[i - 1]
    BY <1>1, <1>4
  <2>4. \A j \in 1 .. n + 1 : j \in 1 .. n \/ j = n + 1
    BY <1>1
  <2> QED BY <1>1, <2>1, <2>2, <2>3, <2>4
<1>5. CASE i = n + 1
  <2>1. t \in wave /\ t \notin InStages /\ Left(t) = {}
    BY <1>1, <1>3, <1>5
  <2>2. \A k \in DOMAIN depends[t] : \E j \in 1 .. i - 1 : depends[t][k] \in stages'[j]
    <3> SUFFICES ASSUME NEW k \in DOMAIN depends[t]
                 PROVE  \E j \in 1 .. i - 1 : depends[t][k] \in stages'[j]
      OBVIOUS
    <3>1. depends[t][k] \in InStages
      BY <2>1 DEF Left
    <3>2. PICK j \in 1 .. n : depends[t][k] \in stages[j]
      BY <1>1, <3>1 DEF InStages
    <3>3. j \in 1 .. i - 1 /\ depends[t][k] \in stages'[j]
      BY <1>1, <1>5, <3>2
    <3> QED BY <3>3
  <2>3. i > 1 => \E k \in DOMAIN depends[t] : depends[t][k] \in stages'[i - 1]
    <3> SUFFICES ASSUME i > 1 PROVE \E k \in DOMAIN depends[t] : depends[t][k] \in stages'[i - 1]
      OBVIOUS
    <3>1. i - 1 = n /\ n \in 1 .. n
      BY <1>1, <1>5
    <3>2. stages # << >>
      BY <3>1 DEF n
    <3>3. \E k \in DOMAIN depends[t] : depends[t][k] \in stages[n]
      BY <1>0, <2>1, <3>2 DEF RightBehind, n
    <3> QED BY <1>1, <3>1, <3>3
  <2>4. \A j \in 1 .. n + 1 : t \in stages'[j] => i = j
    <3>1. \A j \in 1 .. n + 1 : j \in 1 .. n \/ j = n + 1
      BY <1>1
    <3> QED BY <1>1, <1>2, <1>5, <2>1, <3>1
  <2> QED BY <2>2, <2>3, <2>4
<1>6. i \in 1 .. n \/ i = n + 1
  BY <1>1
<1> QED BY <1>4, <1>5, <1>6

LEMMA EmitStep ==
  ASSUME PlanInv, EmitStage
  PROVE  PlanInv'
<1>1. /\ Tasks' = Tasks /\ depends' = depends /\ stages' \in Seq(SUBSET Tasks)
      /\ verdict = "layers" /\ verdict' = verdict /\ PlanShape
  BY StageAdded DEF PlanInv, EmitStage
<1>2. degree' \in [Tasks -> Nat]
  <2>1. degree' = [t \in Tasks |-> degree[t] - Uses(t)]
    BY DEF EmitStage
  <2>2. \A t \in Tasks : degree'[t] \in Nat
    BY EmitCounts
  <2> QED BY <2>1, <2>2
<1>3. wave' \subseteq Tasks
  BY DEF EmitStage, NextWave
<1>4. PlanShape'
  BY <1>1, <1>2, <1>3 DEF PlanShape
<1>5. Counted'
  BY <1>1, EmitCounts DEF Counted
<1>6. Ready' /\ RightBehind' /\ Laid'
  BY EmitReady, EmitLaid
<1>7. PlanLayered'
  BY <1>1, <1>6 DEF PlanLayered, Laid
<1> QED BY <1>1, <1>4, <1>5, <1>6, <1>7 DEF PlanInv

\* A plan has as many tasks as there are, hence all of them.
LEMMA EndStep ==
  ASSUME PlanInv, EndPlan
  PROVE  PlanInv'
<1>1. /\ UNCHANGED <<depends, degree, wave, stages>> /\ verdict' \in {"plan", "cycle"}
      /\ verdict' = "plan" => Cardinality(InStages) = Cardinality(Tasks)
  BY DEF EndPlan
<1>2. PlanShape' /\ Tasks' = Tasks /\ InStages' = InStages
  BY <1>1 DEF PlanInv, PlanShape, Tasks, InStages
<1>3. verdict' = "plan" => InStages = Tasks
  <2>1. IsFiniteSet(Ids)
    BY PlanAssumption, FS_Interval DEF Ids
  <2>2. IsFiniteSet(Tasks)
    BY <2>1, FS_Subset DEF PlanInv, PlanShape
  <2>3. InStages \in SUBSET Tasks
    <3>1. \A i \in DOMAIN stages : stages[i] \subseteq Tasks
      BY DEF PlanInv, PlanShape
    <3> QED BY <3>1 DEF InStages
  <2> QED BY <1>1, <2>2, <2>3, FS_Subset
<1>4. PlanLayered'
  BY <1>1, <1>2, <1>3 DEF PlanInv, PlanLayered
<1> QED BY <1>1, <1>2, <1>4 DEF PlanInv

LEMMA PlanInvInit == PlanInit => PlanInv
<1> SUFFICES ASSUME PlanInit PROVE PlanInv
  OBVIOUS
<1>1. Tasks \subseteq Ids /\ depends \in [Tasks -> Seq(Ids)]
  BY PlanAssumption DEF PlanInit, Tasks
<1>2. stages = << >> /\ << >> \in Seq(SUBSET Tasks) /\ wave = {} /\ verdict = "new"
  BY DEF PlanInit
<1>3. degree \in [Tasks -> Nat]
  BY DEF PlanInit
<1>4. PlanLayered
  BY <1>2 DEF PlanLayered
<1> QED BY <1>1, <1>2, <1>3, <1>4 DEF PlanInv, PlanShape

\* The rules of PlanInv are kept by every step.
LEMMA PlanInvNext == PlanInv /\ [PlanNext]_planVars => PlanInv'
<1> SUFFICES ASSUME PlanInv, [PlanNext]_planVars PROVE PlanInv'
  OBVIOUS
<1>1. CASE UNCHANGED planVars
  BY <1>1 DEF planVars, PlanInv, PlanShape, Counted, Ready, RightBehind, PlanLayered,
              Left, InStages, Tasks
<1> QED BY <1>1, ScanStep, EmitStep, EndStep DEF PlanNext

\* validate_dag: a task stands right behind the last of its dependencies, in
\* one stage, and a plan leaves no task out.
THEOREM LayersInOrder == PlanSpec => []PlanLayered
<1>1. PlanInv => PlanLayered
  BY DEF PlanInv
<1> QED BY <1>1, PlanInvInit, PlanInvNext, PTL DEF PlanSpec

-----------------------------------------------------------------------------
(* The witness of a cycle.  Behind and Knot say over all walks of the      *)
(* graph what the search finds step by step: what Reached finds of a task  *)
(* that is left is all that is behind it, so the components are the knots. *)
(* The queue of the breadth-first search holds one walk to a task, the     *)
(* shortest and the first of these; so its first walk with an edge back is *)
(* the best round there is.                                                *)

\* No step leaves S from t or from S.
Shut(S, t) == \A x \in S \cup {t} : \A y \in Tasks : Feeds(x, y) => y \in S

\* The tasks that u reaches and that reach u.
Knot(u) == {v \in Behind(u) : u \in Behind(v)}

\* What is behind t is what every set that no step leaves holds.
LEMMA BehindHas ==
  ASSUME NEW t, NEW u
  PROVE  u \in Behind(t) <=> u \in Tasks /\ \A S \in SUBSET Tasks : Shut(S, t) => u \in S
BY Zenon DEF Behind, Shut

\* No step leaves what is behind t.
LEMMA BehindShut ==
  ASSUME NEW t
  PROVE  Behind(t) \in SUBSET Tasks /\ Shut(Behind(t), t)
<1>1. ASSUME NEW x \in Behind(t) \cup {t}, NEW y \in Tasks, Feeds(x, y) PROVE y \in Behind(t)
  <2> SUFFICES ASSUME NEW S \in SUBSET Tasks, Shut(S, t) PROVE y \in S
    BY BehindHas
  <2>1. x \in S \cup {t}
    BY <1>1, BehindHas
  <2> QED BY <1>1, <2>1 DEF Shut
<1>2. Behind(t) \subseteq Tasks
  BY BehindHas
<1> QED BY <1>1, <1>2 DEF Shut

\* What no step leaves holds all that is behind t.
LEMMA BehindLeast ==
  ASSUME NEW t, NEW S \in SUBSET Tasks, Shut(S, t), NEW u \in Behind(t)
  PROVE  u \in S
BY BehindHas

\* What is behind a task that is behind t is behind t.
LEMMA BehindMore ==
  ASSUME NEW t, NEW u \in Behind(t), NEW v \in Behind(u)
  PROVE  v \in Behind(t)
<1>1. Behind(t) \in SUBSET Tasks /\ Shut(Behind(t), t)
  BY BehindShut
<1>2. Shut(Behind(t), u)
  BY <1>1 DEF Shut
<1> QED BY <1>1, <1>2, BehindLeast

\* The tasks of a knot have the same knot.
LEMMA KnotAlike ==
  ASSUME NEW t, NEW u \in Knot(t)
  PROVE  Knot(u) = Knot(t) /\ u \in Knot(u)
<1>1. u \in Behind(t) /\ t \in Behind(u)
  BY DEF Knot
<1>2. ASSUME NEW v PROVE v \in Knot(u) <=> v \in Knot(t)
  <2>1. v \in Behind(t) <=> v \in Behind(u)
    BY <1>1, BehindMore
  <2>2. v \in Behind(t) => (t \in Behind(v) <=> u \in Behind(v))
    BY <1>1, BehindMore
  <2> QED BY <2>1, <2>2 DEF Knot
<1>3. u \in Behind(u)
  BY <1>1, BehindMore
<1> QED BY <1>2, <1>3 DEF Knot

-----------------------------------------------------------------------------
\* The stages as a function, each behind what its tasks wait for.
LEMMA StagesLaid ==
  ASSUME PlanInv
  PROVE  Laid /\ DOMAIN stages = 1 .. Len(stages) /\ Len(stages) \in Nat
<1>1. stages \in Seq(SUBSET Tasks)
  BY DEF PlanInv, PlanShape
<1> QED BY <1>1 DEF PlanInv, PlanLayered, Laid

\* What is behind an emitted task is in a later stage, or in none.
LEMMA StagesAhead ==
  ASSUME PlanInv, NEW i \in DOMAIN stages, NEW u \in stages[i], NEW j \in DOMAIN stages,
         NEW v \in stages[j], v \in Behind(u)
  PROVE  i < j
<1>1. Laid /\ DOMAIN stages = 1 .. Len(stages) /\ Len(stages) \in Nat
  BY StagesLaid
<1> DEFINE S == {y \in Tasks : \A k \in DOMAIN stages : y \in stages[k] => i < k}
<1>2. ASSUME NEW x \in S \cup {u}, NEW y \in Tasks, Feeds(x, y), NEW k \in DOMAIN stages, y \in stages[k]
      PROVE  i < k
  <2>1. PICK p \in DOMAIN depends[y] : depends[y][p] = x
    BY <1>2 DEF Feeds
  <2>2. PICK l \in 1 .. k - 1 : x \in stages[l]
    BY <1>1, <1>2, <2>1 DEF Laid
  <2>3. l \in DOMAIN stages /\ l < k /\ i \in Nat /\ k \in Nat /\ l \in Nat
    BY <1>1, <2>2
  <2>4. i <= l
    <3>1. \A m \in DOMAIN stages : u \in stages[m] => i = m
      BY <1>1 DEF Laid
    <3>2. x = u => i = l
      BY <2>2, <2>3, <3>1
    <3>3. x \in S => i < l
      BY <2>2, <2>3
    <3> QED BY <1>2, <2>3, <3>2, <3>3
  <2> QED BY <2>3, <2>4
<1>3. S \in SUBSET Tasks /\ Shut(S, u)
  BY <1>2 DEF Shut
<1> HIDE DEF S
<1>4. v \in S
  BY <1>3, BehindLeast
<1> QED BY <1>4 DEF S

\* What an emitted task waits for is emitted.
LEMMA StagesShut ==
  ASSUME PlanInv, NEW y \in InStages, NEW x, Feeds(x, y)
  PROVE  x \in InStages
<1>1. Laid /\ DOMAIN stages = 1 .. Len(stages) /\ Len(stages) \in Nat
  BY StagesLaid
<1>2. PICK p \in DOMAIN depends[y] : depends[y][p] = x
  BY DEF Feeds
<1>3. PICK k \in DOMAIN stages : y \in stages[k]
  BY DEF InStages
<1>4. PICK l \in 1 .. k - 1 : x \in stages[l]
  BY <1>1, <1>2, <1>3 DEF Laid
<1>5. l \in DOMAIN stages
  BY <1>1, <1>3, <1>4
<1> QED BY <1>4, <1>5 DEF InStages

\* No emitted task is in a knot.
LEMMA EmittedLoose ==
  ASSUME PlanInv, NEW u \in InStages
  PROVE  Knot(u) = {}
<1> SUFFICES ASSUME NEW v \in Knot(u) PROVE FALSE
  OBVIOUS
<1>1. v \in Behind(u) /\ u \in Behind(v) /\ v \in Tasks
  BY BehindShut DEF Knot
<1>2. Laid /\ DOMAIN stages = 1 .. Len(stages) /\ Len(stages) \in Nat
  BY StagesLaid
<1>3. v \in InStages
  <2> SUFFICES ASSUME v \notin InStages PROVE FALSE
    OBVIOUS
  <2> DEFINE S == Tasks \ InStages
  <2>1. S \in SUBSET Tasks /\ Shut(S, v)
    BY StagesShut DEF Shut
  <2>2. u \in S
    <3> HIDE DEF S
    <3> QED BY <1>1, <2>1, BehindLeast
  <2> QED BY <2>2
<1>4. PICK i \in DOMAIN stages : u \in stages[i]
  BY DEF InStages
<1>5. PICK j \in DOMAIN stages : v \in stages[j]
  BY <1>3 DEF InStages
<1>6. i < j /\ j < i
  BY <1>1, <1>4, <1>5, StagesAhead
<1> QED BY <1>2, <1>4, <1>5, <1>6

\* What the layers leave is what is in no stage.
LEMMA RemainingIs ==
  ASSUME PlanInv, verdict = "layers", wave = {}
  PROVE  Remaining = Tasks \ InStages
<1>1. PlanShape /\ Counted /\ Ready /\ Laid
  BY DEF PlanInv, PlanLayered, Laid
<1>2. ASSUME NEW t \in Tasks PROVE degree[t] > 0 <=> Left(t) # {}
  <2>1. IsFiniteSet(Left(t)) /\ Cardinality(Left(t)) \in Nat /\ degree[t] = Cardinality(Left(t))
    BY <1>1, PlacesCounted DEF Counted
  <2>2. Cardinality(Left(t)) = 0 <=> Left(t) = {}
    BY <2>1, FS_EmptySet
  <2> QED BY <2>1, <2>2
<1>3. \A t \in Tasks \ InStages : Left(t) # {}
  BY <1>1 DEF Ready
<1>4. ASSUME NEW t \in InStages PROVE Left(t) = {}
  <2>1. PICK i \in DOMAIN stages : t \in stages[i]
    BY DEF InStages
  <2>2. \A k \in DOMAIN depends[t] : \E j \in 1 .. i - 1 : depends[t][k] \in stages[j]
    BY <1>1, <2>1 DEF Laid
  <2>3. \A j \in 1 .. i - 1 : j \in DOMAIN stages
    BY <1>1, <2>1 DEF PlanShape
  <2> QED BY <2>2, <2>3 DEF Left, InStages
<1> QED BY <1>2, <1>3, <1>4 DEF Remaining

-----------------------------------------------------------------------------
\* What t reaches in k steps, for k up to n.
Grows(f, t, n) ==
  /\ f \in [0 .. n -> SUBSET Remaining] /\ f[0] = Downstream(t) \cap Remaining
  /\ \A k \in 1 .. n : f[k] = Further(f[k - 1])

\* The tasks that Further adds.
LEMMA FurtherHas ==
  ASSUME NEW W, NEW y
  PROVE  y \in Further(W) <=> y \in W \/ (y \in Remaining /\ \E x \in W : Feeds(x, y))
<1>1. \A x : y \in Downstream(x) <=> y \in Tasks /\ Feeds(x, y)
  BY Zenon DEF Downstream, Feeds
<1>2. Remaining \subseteq Tasks
  BY DEF Remaining
<1>3. y \in Further(W) <=> y \in W \/ (y \in Remaining /\ \E x \in W : y \in Downstream(x))
  <2> DEFINE D == {Downstream(x) : x \in W}
  <2>1. y \in UNION D <=> \E x \in W : y \in Downstream(x)
    BY Zenon
  <2>2. Further(W) = W \cup ((UNION D) \cap Remaining)
    BY Zenon DEF Further
  <2> HIDE DEF D
  <2> QED BY <2>1, <2>2, Zenon
<1> QED BY <1>1, <1>2, <1>3, Zenon

\* Reached is the last of the sets of tasks reached in so many steps.
LEMMA GrowsExist ==
  ASSUME NEW t, NEW n \in Nat, n = Cardinality(Remaining)
  PROVE  \E f : Grows(f, t, n) /\ Reached(t) = f[n]
<1> DEFINE b == Downstream(t) \cap Remaining
           V == SUBSET Remaining
           turn == [i \in 1 .. n |-> [W \in V |-> Further(W)]]
<1>1. b \in V /\ 0 \in Nat /\ 0 <= n
  OBVIOUS
<1>2. turn \in [0 + 1 .. n -> [V -> V]]
  <2>1. \A W \in V : Further(W) \in V
    BY FurtherHas
  <2>2. 0 + 1 = 1
    OBVIOUS
  <2> HIDE DEF V
  <2> QED BY <2>1, <2>2
<1> HIDE DEF turn, V, b
<1>3. PICK f : Steps(f, V, 0, n, b, turn)
  BY <1>1, <1>2, StepsExist, Zenon
<1>4. /\ f \in [0 .. n -> V] /\ f[0] = b
      /\ \A i \in 1 .. n : f[i] = turn[i][f[i - 1]]
  BY <1>3 DEF Steps
<1>5. ASSUME NEW i \in 1 .. n PROVE f[i] = Further(f[i - 1])
  <2>1. i - 1 \in 0 .. n
    OBVIOUS
  <2>2. f[i - 1] \in V
    BY <1>4, <2>1
  <2> QED BY <1>4, <2>2 DEF turn
<1>6. \A i \in 0 .. n : i = 0 \/ i \in 1 .. n
  OBVIOUS
<1>7. f = [k \in 0 .. n |-> IF k = 0 THEN b ELSE Further(f[k - 1])]
  <2>1. \A k \in 0 .. n : f[k] = IF k = 0 THEN b ELSE Further(f[k - 1])
    BY <1>4, <1>5, <1>6
  <2> QED BY <1>4, <2>1
<1> DEFINE g == CHOOSE g : g = [k \in 0 .. n |-> IF k = 0 THEN b ELSE Further(g[k - 1])]
<1>8. g = [k \in 0 .. n |-> IF k = 0 THEN b ELSE Further(g[k - 1])]
  BY <1>7, Zenon
<1>9. Reached(t) = g[n]
  BY Zenon DEF Reached, b
<1> HIDE DEF g
<1>10. GoOnAlike(g, f, 0, n)
  <2>1. 0 \in 0 .. n
    BY <1>1
  <2>2. g[0] = b
    BY <1>8, <2>1
  <2>3. ASSUME NEW i \in 0 + 1 .. n, g[i - 1] = f[i - 1] PROVE g[i] = f[i]
    <3>1. i \in 0 .. n /\ i # 0 /\ i \in 1 .. n
      BY <1>1
    <3>2. g[i] = Further(g[i - 1])
      BY <1>8, <3>1
    <3> QED BY <1>5, <2>3, <3>1, <3>2
  <2> QED BY <1>4, <2>2, <2>3 DEF GoOnAlike
<1>11. g[n] = f[n]
  <2>1. Alike(g, f, 0, n)
    BY <1>1, <1>10, StayAlike, Zenon
  <2>2. n \in 0 .. n
    BY <1>1
  <2> QED BY <2>1, <2>2, Zenon DEF Alike
<1> QED BY <1>4, <1>5, <1>9, <1>11 DEF Grows, b, V

\* After as many steps as there are tasks, no step leads further.
LEMMA GrowsShut ==
  ASSUME IsFiniteSet(Remaining), NEW n \in Nat, n = Cardinality(Remaining),
         NEW t, NEW f, Grows(f, t, n)
  PROVE  Further(f[n]) = f[n]
<1> DEFINE T == {k \in Nat : k <= n => \/ Further(f[k]) = f[k]
                                      \/ Cardinality(Further(f[k])) > k}
<1>1. ASSUME NEW k \in 0 .. n
      PROVE  /\ f[k] \in SUBSET Remaining /\ Further(f[k]) \in SUBSET Remaining
             /\ Cardinality(f[k]) \in Nat /\ Cardinality(Further(f[k])) \in Nat
             /\ Further(f[k]) # f[k] => Cardinality(f[k]) < Cardinality(Further(f[k]))
  <2>1. f[k] \in SUBSET Remaining
    BY DEF Grows
  <2>2. f[k] \in SUBSET Further(f[k]) /\ Further(f[k]) \in SUBSET Remaining
    BY <2>1, FurtherHas
  <2>3. IsFiniteSet(f[k]) /\ IsFiniteSet(Further(f[k]))
    BY <2>1, <2>2, FS_Subset
  <2>4. Cardinality(f[k]) \in Nat /\ Cardinality(Further(f[k])) \in Nat
    BY <2>3, FS_CardinalityType
  <2>5. /\ Cardinality(f[k]) <= Cardinality(Further(f[k]))
        /\ Cardinality(Further(f[k])) = Cardinality(f[k]) => Further(f[k]) = f[k]
    BY <2>2, <2>3, FS_Subset
  <2> QED BY <2>1, <2>2, <2>4, <2>5
<1>2. 0 \in T
  <2>1. 0 \in 0 .. n
    OBVIOUS
  <2> QED BY <1>1, <2>1
<1>3. ASSUME NEW k \in Nat, k \in T PROVE k + 1 \in T
  <2> SUFFICES ASSUME k + 1 <= n
               PROVE  Further(f[k + 1]) = f[k + 1] \/ Cardinality(Further(f[k + 1])) > k + 1
    OBVIOUS
  <2>1. k \in 0 .. n /\ k + 1 \in 0 .. n /\ k + 1 \in 1 .. n /\ (k + 1) - 1 = k
    OBVIOUS
  <2>2. f[k + 1] = Further(f[k])
    BY <2>1 DEF Grows
  <2>3. CASE Further(f[k]) = f[k]
    BY <2>2, <2>3
  <2>4. CASE Further(f[k]) # f[k]
    <3>1. Cardinality(f[k + 1]) > k
      BY <1>3, <2>1, <2>2, <2>4
    <3>2. \/ Further(f[k + 1]) = f[k + 1]
          \/ Cardinality(f[k + 1]) < Cardinality(Further(f[k + 1]))
      BY <1>1, <2>1
    <3>3. Cardinality(f[k + 1]) \in Nat /\ Cardinality(Further(f[k + 1])) \in Nat
      BY <1>1, <2>1
    <3> QED BY <3>1, <3>2, <3>3
  <2> QED BY <2>3, <2>4
<1>4. Nat \subseteq T
  <2> HIDE DEF T
  <2> QED BY <1>2, <1>3, NumbersInduction
<1>5. Further(f[n]) = f[n] \/ Cardinality(Further(f[n])) > n
  BY <1>4
<1>6. n \in 0 .. n
  OBVIOUS
<1>7. Cardinality(Further(f[n])) <= n /\ Cardinality(Further(f[n])) \in Nat
  BY <1>1, <1>6, FS_Subset
<1> QED BY <1>5, <1>7

\* Tasks are finitely many numbers.
LEMMA TasksFinite ==
  ASSUME PlanInv
  PROVE  Tasks \subseteq Nat /\ \A S \in SUBSET Tasks : IsFiniteSet(S) /\ Cardinality(S) \in Nat
<1>1. IsFiniteSet(Ids) /\ Ids \subseteq Nat
  BY PlanAssumption, FS_Interval DEF Ids
<1>2. Tasks \subseteq Ids
  BY DEF PlanInv, PlanShape
<1>3. ASSUME NEW S \in SUBSET Tasks PROVE IsFiniteSet(S) /\ Cardinality(S) \in Nat
  <2>1. S \in SUBSET Ids
    BY <1>2
  <2> QED BY <1>1, <2>1, FS_Subset, FS_CardinalityType
<1> QED BY <1>1, <1>2, <1>3

\* The search from a task that is left finds all that is behind it.
LEMMA ReachedIs ==
  ASSUME PlanInv, verdict = "layers", wave = {}, NEW t \in Remaining
  PROVE  Reached(t) = Behind(t) /\ Behind(t) \subseteq Remaining
<1>1. Remaining = Tasks \ InStages /\ Remaining \in SUBSET Tasks
  BY RemainingIs
<1>2. PICK n \in Nat : n = Cardinality(Remaining)
  BY <1>1, TasksFinite
<1>3. IsFiniteSet(Remaining)
  BY <1>1, TasksFinite
<1>4. PICK f : Grows(f, t, n) /\ Reached(t) = f[n]
  BY <1>2, GrowsExist
<1>5. Further(f[n]) = f[n]
  BY <1>2, <1>3, <1>4, GrowsShut
<1> DEFINE T == {k \in Nat : k <= n => f[0] \subseteq f[k] /\ f[k] \subseteq Behind(t)}
<1>6. Behind(t) \in SUBSET Tasks /\ Shut(Behind(t), t)
  BY BehindShut
<1>7. 0 \in T
  <2>1. f[0] = Downstream(t) \cap Remaining
    BY <1>4 DEF Grows
  <2>2. ASSUME NEW y \in f[0] PROVE y \in Behind(t)
    <3>1. y \in Tasks /\ Feeds(t, y)
      BY <2>1, <2>2 DEF Downstream, Feeds
    <3> QED BY <1>6, <3>1 DEF Shut
  <2> QED BY <2>2
<1>8. ASSUME NEW k \in Nat, k \in T PROVE k + 1 \in T
  <2> SUFFICES ASSUME k + 1 <= n PROVE f[0] \subseteq f[k + 1] /\ f[k + 1] \subseteq Behind(t)
    OBVIOUS
  <2>1. k + 1 \in 1 .. n /\ (k + 1) - 1 = k
    OBVIOUS
  <2>2. f[k + 1] = Further(f[k]) /\ f[0] \subseteq f[k] /\ f[k] \subseteq Behind(t)
    BY <1>4, <1>8, <2>1 DEF Grows
  <2>3. ASSUME NEW y \in f[k + 1] PROVE y \in Behind(t)
    <3>1. y \in f[k] \/ (y \in Remaining /\ \E x \in f[k] : Feeds(x, y))
      BY <2>2, <2>3, FurtherHas
    <3> QED BY <1>1, <1>6, <2>2, <3>1 DEF Shut
  <2>4. f[k] \subseteq f[k + 1]
    BY <2>2, FurtherHas
  <2> QED BY <2>2, <2>3, <2>4
<1>9. f[0] \subseteq f[n] /\ f[n] \subseteq Behind(t)
  <2>1. Nat \subseteq T
    <3> HIDE DEF T
    <3> QED BY <1>7, <1>8, NumbersInduction
  <2> QED BY <2>1
<1>10. f[n] \in SUBSET Remaining
  BY <1>4 DEF Grows
<1>11. ASSUME NEW x \in f[n] \cup {t}, NEW y \in Tasks, Feeds(x, y) PROVE y \in f[n]
  <2>1. x \in Remaining
    BY <1>10
  <2>2. y \in Remaining
    BY <1>1, <1>11, <2>1, StagesShut
  <2>3. CASE x = t
    <3>1. y \in f[0]
      BY <1>4, <1>11, <2>2, <2>3 DEF Grows, Downstream, Feeds
    <3> QED BY <1>9, <3>1
  <2>4. CASE x \in f[n]
    BY <1>5, <1>11, <2>2, <2>4, FurtherHas
  <2> QED BY <2>3, <2>4
<1>12. f[n] \in SUBSET Tasks /\ Shut(f[n], t)
  BY <1>1, <1>10, <1>11 DEF Shut
<1>13. Behind(t) \subseteq f[n]
  BY <1>12, BehindLeast
<1> QED BY <1>4, <1>9, <1>10, <1>13

\* The components are the knots.
LEMMA ComponentsAre ==
  ASSUME PlanInv, verdict = "layers", wave = {}, NEW c
  PROVE  c \in Components <=> c # {} /\ \E t \in Remaining : c = Knot(t)
<1> DEFINE reached == [t \in Remaining |-> Reached(t)]
           knot(t) == {u \in reached[t] : t \in reached[u]}
<1>1. ASSUME NEW t \in Remaining PROVE knot(t) = Knot(t)
  <2>1. reached[t] = Behind(t) /\ Behind(t) \subseteq Remaining
    BY ReachedIs
  <2>2. \A u \in Behind(t) : reached[u] = Behind(u)
    BY <2>1, ReachedIs
  <2> HIDE DEF reached
  <2> QED BY <2>1, <2>2 DEF Knot
<1>2. Components = {knot(t) : t \in Remaining} \ {{}}
  BY DEF Components
<1> HIDE DEF knot
<1> QED BY <1>1, <1>2

\* The numbers of a set in their order.
LEMMA AscendingExists ==
  ASSUME NEW n \in Nat, NEW S \in SUBSET Nat, IsFiniteSet(S), Cardinality(S) = n
  PROVE  \E s \in [1 .. n -> S] : \A i, j \in 1 .. n : i < j => s[i] < s[j]
<1> DEFINE Rising(s, m) == \A i, j \in 1 .. m : i < j => s[i] < s[j]
           T == {m \in Nat : \A X \in SUBSET Nat : IsFiniteSet(X) /\ Cardinality(X) = m =>
                                \E s \in [1 .. m -> X] : Rising(s, m)}
<1>1. 0 \in T
  <2> SUFFICES ASSUME NEW X PROVE \E s \in [1 .. 0 -> X] : Rising(s, 0)
    OBVIOUS
  <2>1. [i \in 1 .. 0 |-> 0] \in [1 .. 0 -> X] /\ Rising([i \in 1 .. 0 |-> 0], 0)
    OBVIOUS
  <2> HIDE DEF Rising
  <2> QED BY <2>1
<1>2. ASSUME NEW m \in Nat, m \in T PROVE m + 1 \in T
  <2> SUFFICES ASSUME NEW X \in SUBSET Nat, IsFiniteSet(X), Cardinality(X) = m + 1
               PROVE  \E s \in [1 .. m + 1 -> X] : Rising(s, m + 1)
    OBVIOUS
  <2>1. X # {}
    BY FS_EmptySet
  <2>2. PICK x \in X : \A y \in X : x <= y
    BY <2>1, LeastNumber
  <2>3. IsFiniteSet(X \ {x}) /\ Cardinality(X \ {x}) = m
    BY FS_RemoveElement
  <2>4. PICK s \in [1 .. m -> X \ {x}] : Rising(s, m)
    BY <1>2, <2>3
  <2> DEFINE z == [i \in 1 .. m + 1 |-> IF i = 1 THEN x ELSE s[i - 1]]
  <2>5. \A i \in 1 .. m + 1 : i # 1 => /\ i - 1 \in 1 .. m /\ s[i - 1] \in X
                                       /\ s[i - 1] \in Nat /\ x < s[i - 1]
    <3> SUFFICES ASSUME NEW i \in 1 .. m + 1, i # 1
                 PROVE  i - 1 \in 1 .. m /\ s[i - 1] \in X /\ s[i - 1] \in Nat /\ x < s[i - 1]
      OBVIOUS
    <3>1. i - 1 \in 1 .. m
      OBVIOUS
    <3>2. s[i - 1] \in X /\ s[i - 1] # x
      BY <3>1
    <3>3. s[i - 1] \in Nat /\ x \in Nat /\ x <= s[i - 1]
      BY <2>2, <3>2
    <3> QED BY <3>1, <3>2, <3>3
  <2>6. z \in [1 .. m + 1 -> X]
    BY <2>5
  <2>7. ASSUME NEW i \in 1 .. m + 1, NEW j \in 1 .. m + 1, i < j PROVE z[i] < z[j]
    <3>1. j # 1 /\ z[j] = s[j - 1]
      BY <2>7
    <3>2. CASE i = 1
      BY <2>5, <3>1, <3>2
    <3>3. CASE i # 1
      <4>1. i - 1 \in 1 .. m /\ j - 1 \in 1 .. m /\ i - 1 < j - 1 /\ z[i] = s[i - 1]
        BY <2>5, <2>7, <3>1, <3>3
      <4> QED BY <2>4, <3>1, <4>1
    <3> QED BY <3>2, <3>3
  <2>8. Rising(z, m + 1)
    BY <2>7
  <2> HIDE DEF Rising, z
  <2> QED BY <2>6, <2>8
<1>3. n \in T
  <2>1. Nat \subseteq T
    <3> HIDE DEF T
    <3> QED BY <1>1, <1>2, NumbersInduction
  <2> QED BY <2>1
<1> QED BY <1>3

\* Ascending lists every number of the set once, in their order.
LEMMA AscendingIs ==
  ASSUME NEW S \in SUBSET Nat, IsFiniteSet(S), NEW n \in Nat, n = Cardinality(S)
  PROVE  /\ Ascending(S) \in [1 .. n -> S]
         /\ \A i, j \in 1 .. n : i < j => Ascending(S)[i] < Ascending(S)[j]
         /\ \A x \in S : \E i \in 1 .. n : Ascending(S)[i] = x
<1> DEFINE Rising(s) == \A i, j \in DOMAIN s : i < j => s[i] < s[j]
           a == CHOOSE s \in [1 .. n -> S] : Rising(s)
<1>1. \E s \in [1 .. n -> S] : Rising(s)
  BY AscendingExists
<1>2. a \in [1 .. n -> S] /\ Rising(a)
  <2> HIDE DEF Rising
  <2> QED BY <1>1, Zenon
<1>3. Ascending(S) = a
  BY Zenon DEF Ascending
<1> HIDE DEF a
<1>4. \A i, j \in 1 .. n : i < j => a[i] < a[j]
  BY <1>2
<1>5. \A i, j \in 1 .. n : a[i] = a[j] => i = j
  <2> SUFFICES ASSUME NEW i \in 1 .. n, NEW j \in 1 .. n, a[i] = a[j], i # j PROVE FALSE
    OBVIOUS
  <2>1. a[i] \in Nat /\ a[j] \in Nat
    BY <1>2
  <2>2. i < j \/ j < i
    OBVIOUS
  <2> QED BY <1>4, <2>1, <2>2
<1>6. \A x \in S : \E i \in 1 .. n : a[i] = x
  BY <1>2, <1>5, AllOnce
<1> QED BY <1>2, <1>3, <1>4, <1>6

-----------------------------------------------------------------------------
\* Walk u is shorter than v, or as long and earlier in the order of the ids.
Sooner(u, v) == Len(u) < Len(v) \/ (Len(u) = Len(v) /\ Earlier(u, v))

NoLater(u, v) == u = v \/ Sooner(u, v)

\* Earlier, by the places of a sequence.
LEMMA EarlierIs ==
  ASSUME NEW u \in Seq(Nat), NEW v
  PROVE  Earlier(u, v) <=> \E i \in 1 .. Len(u) : u[i] < v[i] /\ \A j \in 1 .. i - 1 : u[j] = v[j]
<1>1. DOMAIN u = 1 .. Len(u)
  OBVIOUS
<1> QED BY <1>1 DEF Earlier

\* A sooner walk stays sooner, whatever the next tasks are.
LEMMA SoonerOn ==
  ASSUME NEW u \in Seq(Nat), NEW v \in Seq(Nat), NEW x \in Nat, NEW y \in Nat, Sooner(u, v)
  PROVE  Sooner(Append(u, x), Append(v, y))
<1> DEFINE p == Append(u, x)
           q == Append(v, y)
<1>1. /\ p \in Seq(Nat) /\ Len(p) = Len(u) + 1 /\ Len(q) = Len(v) + 1
      /\ Len(u) \in Nat /\ Len(v) \in Nat
      /\ \A i \in 1 .. Len(u) : p[i] = u[i]
      /\ \A i \in 1 .. Len(v) : q[i] = v[i]
  OBVIOUS
<1> HIDE DEF p, q
<1>2. CASE Len(u) < Len(v)
  BY <1>1, <1>2 DEF Sooner, p, q
<1>3. CASE Len(u) = Len(v) /\ Earlier(u, v)
  <2>1. PICK i \in 1 .. Len(u) : u[i] < v[i] /\ \A j \in 1 .. i - 1 : u[j] = v[j]
    BY <1>3, EarlierIs
  <2>2. i \in 1 .. Len(p) /\ p[i] = u[i] /\ q[i] = v[i]
    BY <1>1, <1>3
  <2>3. \A j \in 1 .. i - 1 : p[j] = q[j]
    <3> SUFFICES ASSUME NEW j \in 1 .. i - 1 PROVE p[j] = q[j]
      OBVIOUS
    <3>1. j \in 1 .. Len(u) /\ j \in 1 .. Len(v)
      BY <1>1, <1>3
    <3> QED BY <1>1, <2>1, <3>1
  <2>4. Earlier(p, q)
    BY <1>1, <2>1, <2>2, <2>3, EarlierIs
  <2> QED BY <1>1, <1>3, <2>4 DEF Sooner, p, q
<1> QED BY <1>2, <1>3 DEF Sooner

\* A walk goes on sooner to a lesser task.
LEMMA SoonerLast ==
  ASSUME NEW u \in Seq(Nat), NEW x \in Nat, NEW y \in Nat, x < y
  PROVE  Sooner(Append(u, x), Append(u, y))
<1> DEFINE p == Append(u, x)
           q == Append(u, y)
           i == Len(u) + 1
<1>1. /\ p \in Seq(Nat) /\ Len(p) = i /\ Len(q) = i /\ i \in 1 .. i
      /\ p[i] = x /\ q[i] = y
      /\ \A j \in 1 .. i - 1 : p[j] = q[j]
  OBVIOUS
<1> HIDE DEF p, q, i
<1>2. Earlier(p, q)
  BY <1>1, EarlierIs
<1> QED BY <1>1, <1>2 DEF Sooner, p, q

\* Sooner is transitive.
LEMMA SoonerChain ==
  ASSUME NEW u \in Seq(Nat), NEW v \in Seq(Nat), NEW w \in Seq(Nat), Sooner(u, v), Sooner(v, w)
  PROVE  Sooner(u, w)
<1>1. Len(u) \in Nat /\ Len(v) \in Nat /\ Len(w) \in Nat
  OBVIOUS
<1>2. CASE Len(u) < Len(v) \/ Len(v) < Len(w)
  BY <1>1, <1>2 DEF Sooner
<1>3. CASE Len(u) = Len(v) /\ Len(v) = Len(w) /\ Earlier(u, v) /\ Earlier(v, w)
  <2>1. PICK i \in 1 .. Len(u) : u[i] < v[i] /\ \A j \in 1 .. i - 1 : u[j] = v[j]
    BY <1>3, EarlierIs
  <2>2. PICK k \in 1 .. Len(v) : v[k] < w[k] /\ \A j \in 1 .. k - 1 : v[j] = w[j]
    BY <1>3, EarlierIs
  <2>3. /\ u[i] \in Nat /\ v[i] \in Nat /\ w[i] \in Nat
        /\ u[k] \in Nat /\ v[k] \in Nat /\ w[k] \in Nat
    <3>1. \A j \in 1 .. Len(u) : u[j] \in Nat /\ v[j] \in Nat /\ w[j] \in Nat
      <4>1. \A j \in 1 .. Len(w) : w[j] \in Nat
        OBVIOUS
      <4>2. \A j \in 1 .. Len(v) : v[j] \in Nat
        OBVIOUS
      <4>3. \A j \in 1 .. Len(u) : u[j] \in Nat
        OBVIOUS
      <4>4. 1 .. Len(u) = 1 .. Len(v) /\ 1 .. Len(v) = 1 .. Len(w)
        BY <1>3
      <4> QED BY <4>1, <4>2, <4>3, <4>4, Zenon
    <3>2. i \in 1 .. Len(u) /\ k \in 1 .. Len(u)
      BY <1>3, <2>1, <2>2
    <3> QED BY <3>1, <3>2
  <2>4. CASE i <= k
    <3>1. u[i] < w[i]
      <4>0. i < k => i \in 1 .. k - 1
        OBVIOUS
      <4>1. i < k => v[i] = w[i]
        BY <2>2, <4>0
      <4>2. i = k => v[i] < w[i]
        BY <2>2
      <4> QED BY <2>1, <2>3, <2>4, <4>1, <4>2
    <3>2. \A j \in 1 .. i - 1 : u[j] = w[j]
      BY <2>1, <2>2, <2>4
    <3> QED BY <1>3, <3>1, <3>2, EarlierIs DEF Sooner
  <2>5. CASE k < i
    <3>1. k \in 1 .. i - 1 /\ u[k] < w[k] /\ k \in 1 .. Len(u)
      BY <1>3, <2>1, <2>2, <2>3, <2>5
    <3>2. \A j \in 1 .. k - 1 : u[j] = w[j]
      BY <2>1, <2>2, <2>5
    <3> QED BY <1>3, <3>1, <3>2, EarlierIs DEF Sooner
  <2> QED BY <2>4, <2>5
<1> QED BY <1>1, <1>2, <1>3 DEF Sooner

\* No walk is sooner than one that is no later than itself.
LEMMA SoonerOnce ==
  ASSUME NEW u \in Seq(Nat), NEW v \in Seq(Nat), NoLater(u, v)
  PROVE  Len(u) <= Len(v) /\ (Len(u) = Len(v) => ~ Earlier(v, u))
<1>1. Len(u) \in Nat /\ Len(v) \in Nat
  OBVIOUS
<1>2. Len(u) <= Len(v)
  BY <1>1 DEF NoLater, Sooner
<1>3. ASSUME Len(u) = Len(v), Earlier(v, u) PROVE FALSE
  <2>1. PICK i \in 1 .. Len(v) : v[i] < u[i] /\ \A j \in 1 .. i - 1 : v[j] = u[j]
    BY <1>3, EarlierIs
  <2>2. u[i] \in Nat /\ v[i] \in Nat
    BY <1>3
  <2>3. u # v /\ Earlier(u, v)
    BY <1>1, <1>3, <2>1, <2>2 DEF NoLater, Sooner
  <2>4. PICK k \in 1 .. Len(u) : u[k] < v[k] /\ \A j \in 1 .. k - 1 : u[j] = v[j]
    BY <2>3, EarlierIs
  <2>5. u[k] \in Nat /\ v[k] \in Nat
    BY <1>3
  <2>6. i < k \/ i = k \/ k < i
    OBVIOUS
  <2> QED BY <1>3, <2>1, <2>2, <2>4, <2>5, <2>6
<1> QED BY <1>2, <1>3

\* NoLater is transitive.
LEMMA NoLaterChain ==
  ASSUME NEW u \in Seq(Nat), NEW v \in Seq(Nat), NEW w \in Seq(Nat), NoLater(u, v), NoLater(v, w)
  PROVE  NoLater(u, w)
BY SoonerChain DEF NoLater

\* The least of a set of numbers.
LEMMA LeastIs ==
  ASSUME NEW c \in SUBSET Nat, c # {}
  PROVE  Least(c) \in c /\ \A u \in c : Least(c) <= u
<1>1. \E t \in c : \A u \in c : t <= u
  BY LeastNumber
<1> QED BY <1>1, Zenon DEF Least

\* A walk inside c from the least task.
Leads(c, w) ==
  /\ w \in Seq(c) /\ Len(w) >= 1 /\ w[1] = Least(c)
  /\ \A i \in 1 .. Len(w) - 1 : Feeds(w[i], w[i + 1])

\* A walk inside c may go on to any task of c behind its last.
LEMMA LeadsOn ==
  ASSUME NEW c, NEW w, Leads(c, w), NEW y \in c, Feeds(Last(w), y)
  PROVE  Leads(c, Append(w, y)) /\ Last(Append(w, y)) = y
<1> DEFINE p == Append(w, y)
           l == Len(w)
<1>1. w \in Seq(c) /\ l >= 1 /\ l \in Nat /\ w[1] = Least(c) /\ Feeds(w[l], y)
  BY DEF Leads, Last
<1>2. /\ p \in Seq(c) /\ Len(p) = l + 1 /\ p[l + 1] = y
      /\ \A i \in 1 .. l : p[i] = w[i]
  BY <1>1
<1>3. ASSUME NEW i \in 1 .. l PROVE Feeds(p[i], p[i + 1])
  <2>1. CASE i = l
    BY <1>1, <1>2, <2>1
  <2>2. CASE i # l
    <3>1. i \in 1 .. Len(w) - 1 /\ i + 1 \in 1 .. l
      BY <1>1, <2>2
    <3> QED BY <1>2, <3>1 DEF Leads
  <2> QED BY <2>1, <2>2
<1> HIDE DEF p, l
<1>4. 1 \in 1 .. l /\ Len(p) - 1 = l /\ Len(p) >= 1
  BY <1>1, <1>2
<1>5. Leads(c, p)
  BY <1>1, <1>2, <1>3, <1>4 DEF Leads
<1>6. Last(p) = y
  BY <1>2 DEF Last
<1> QED BY <1>5, <1>6 DEF p

\* What a walk was before its last step.
LEMMA LeadsBack ==
  ASSUME NEW c, NEW w, Leads(c, w), NEW n \in Nat, n >= 1, Len(w) = n + 1
  PROVE  \E v : Leads(c, v) /\ Len(v) = n /\ w = Append(v, Last(w)) /\ Feeds(Last(v), Last(w))
<1> DEFINE v == SubSeq(w, 1, n)
<1>1. w \in Seq(c)
  BY DEF Leads
<1>2. /\ v \in Seq(c) /\ Len(v) = n /\ w = Append(v, w[n + 1])
      /\ \A i \in 1 .. n : v[i] = w[i]
  BY <1>1
<1>3. Last(w) = w[n + 1] /\ Last(v) = w[n]
  BY <1>2 DEF Last
<1>4. \A i \in 1 .. n : Feeds(w[i], w[i + 1])
  BY DEF Leads
<1>5. Feeds(Last(v), Last(w))
  BY <1>3, <1>4
<1>6. \A i \in 1 .. n - 1 : Feeds(v[i], v[i + 1])
  BY <1>2, <1>4
<1>7. v[1] = Least(c)
  BY <1>2 DEF Leads
<1> HIDE DEF v
<1>8. Leads(c, v)
  BY <1>2, <1>6, <1>7 DEF Leads
<1> QED BY <1>2, <1>3, <1>5, <1>8

\* The queue when the first k of its walks have been extended: all walks of it
\* begin at the least task, in order, one to a task; all but the first extend
\* one of these k, and whatever is behind one of them is reached no later.
Searched(c, q, k) ==
  /\ q \in Seq(Seq(c)) /\ Len(q) >= 1 /\ q[1] = <<Least(c)>>
  /\ \A i \in 1 .. Len(q) : Leads(c, q[i])
  /\ \A i, j \in 1 .. Len(q) : i < j => Sooner(q[i], q[j])
  /\ \A i, j \in 1 .. Len(q) : Last(q[i]) = Last(q[j]) => i = j
  /\ \A j \in 2 .. Len(q) : \E p \in 1 .. k : p <= Len(q) /\ \E y \in c : q[j] = Append(q[p], y)
  /\ \A i \in 1 .. k : i <= Len(q) => \A y \in c : Feeds(Last(q[i]), y) =>
       \E j \in 1 .. Len(q) : Last(q[j]) = y /\ NoLater(q[j], Append(q[i], y))

\* The queue holds the walk of the least task alone.
LEMMA SearchStarts ==
  ASSUME NEW c \in SUBSET Nat, c # {}
  PROVE  Searched(c, << <<Least(c)>> >>, 0)
<1> DEFINE t == Least(c)
           w == <<t>>
           q == <<w>>
<1>1. t \in c
  BY LeastIs
<1> HIDE DEF t
<1>2. w \in Seq(c) /\ Len(w) = 1 /\ w[1] = t
  BY <1>1
<1>3. Leads(c, w)
  BY <1>2 DEF Leads, t
<1> HIDE DEF w
<1>4. q \in Seq(Seq(c)) /\ Len(q) = 1 /\ q[1] = w
  BY <1>2
<1> HIDE DEF q
<1>5. q[1] = <<Least(c)>>
  BY <1>4 DEF w, t
<1>6. Searched(c, q, 0)
  BY <1>3, <1>4, <1>5 DEF Searched
<1> QED BY <1>6 DEF q, w, t

\* z is the queue q and the m walks to the tasks of a, those first seen from q[k].
Visited(c, q, k, z, m, a) ==
  /\ z \in Seq(Seq(c)) /\ Len(z) = Len(q) + m /\ a \in [1 .. m -> c]
  /\ \A i \in 1 .. Len(q) : z[i] = q[i]
  /\ \A i \in 1 .. m : z[Len(q) + i] = Append(q[k], a[i])
  /\ \A i, j \in 1 .. m : i < j => a[i] < a[j]
  /\ \A i \in 1 .. m : Feeds(Last(q[k]), a[i])
  /\ \A i \in 1 .. m : \A j \in 1 .. Len(q) : Last(q[j]) # a[i]
  /\ \A y \in c : Feeds(Last(q[k]), y) => \/ \E j \in 1 .. Len(q) : Last(q[j]) = y
                                         \/ \E i \in 1 .. m : a[i] = y

\* What a visit appends.
LEMMA VisitIs ==
  ASSUME NEW c \in SUBSET Nat, c \subseteq Tasks, IsFiniteSet(c),
         NEW q \in Seq(Seq(c)), NEW k \in 1 .. Len(q)
  PROVE  \E m \in Nat : \E a : Visited(c, q, k, Visit(c, q, k), m, a)
<1> DEFINE seen == {Last(q[i]) : i \in DOMAIN q}
           unseen == (Downstream(Last(q[k])) \cap c) \ seen
           m == Cardinality(unseen)
           a == Ascending(unseen)
           new == [i \in 1 .. m |-> Append(q[k], a[i])]
<1>1. \A y : y \in seen <=> \E j \in 1 .. Len(q) : Last(q[j]) = y
  <2>1. DOMAIN q = 1 .. Len(q)
    OBVIOUS
  <2> QED BY <2>1
<1>2. \A y : y \in unseen <=> /\ y \in Tasks /\ Feeds(Last(q[k]), y) /\ y \in c
                             /\ ~ \E j \in 1 .. Len(q) : Last(q[j]) = y
  <2> HIDE DEF seen
  <2>1. \A y : y \in Downstream(Last(q[k])) <=> y \in Tasks /\ Feeds(Last(q[k]), y)
    BY Zenon DEF Downstream, Feeds
  <2> QED BY <1>1, <2>1, Zenon
<1>3. unseen \in SUBSET c /\ unseen \in SUBSET Nat
  OBVIOUS
<1> HIDE DEF unseen, seen
<1>4. IsFiniteSet(unseen) /\ m \in Nat
  BY <1>3, FS_Subset, FS_CardinalityType
<1>5. /\ a \in [1 .. m -> unseen]
      /\ \A i, j \in 1 .. m : i < j => a[i] < a[j]
      /\ \A x \in unseen : \E i \in 1 .. m : a[i] = x
  <2>1. PICK n \in Nat : n = m
    BY <1>4
  <2> HIDE DEF a
  <2> QED BY <1>3, <1>4, <2>1, AscendingIs DEF a, m
<1>6. q[k] \in Seq(c)
  OBVIOUS
<1> HIDE DEF a, m
<1>7. new \in Seq(Seq(c)) /\ Len(new) = m
  <2>1. \A i \in 1 .. m : Append(q[k], a[i]) \in Seq(c)
    <3> SUFFICES ASSUME NEW i \in 1 .. m PROVE Append(q[k], a[i]) \in Seq(c)
      OBVIOUS
    <3>1. a[i] \in c
      BY <1>3, <1>5
    <3> QED BY <1>6, <3>1
  <2>2. new \in [1 .. m -> Seq(c)]
    BY <2>1
  <2> QED BY <1>4, <2>2
<1>8. Visit(c, q, k) = q \o new
  BY Zenon DEF Visit, new, m, a, unseen, seen
<1>9. \A i \in 1 .. m : new[i] = Append(q[k], a[i])
  OBVIOUS
<1> HIDE DEF new
<1>10. /\ q \o new \in Seq(Seq(c)) /\ Len(q \o new) = Len(q) + m
       /\ \A i \in 1 .. Len(q) : (q \o new)[i] = q[i]
       /\ \A i \in 1 .. m : (q \o new)[Len(q) + i] = new[i]
  <2>1. q \o new \in Seq(Seq(c)) /\ Len(q \o new) = Len(q) + m /\ Len(q) \in Nat
    <3> DEFINE V == Seq(c)
    <3>1. q \in Seq(V) /\ new \in Seq(V)
      BY <1>7
    <3> HIDE DEF V
    <3>2. q \o new \in Seq(V) /\ Len(q \o new) = Len(q) + Len(new) /\ Len(q) \in Nat
      BY <3>1
    <3> QED BY <1>7, <3>2 DEF V
  <2>2. ASSUME NEW i \in 1 .. Len(q) PROVE (q \o new)[i] = q[i]
    BY <1>4, <1>7
  <2>3. ASSUME NEW i \in 1 .. m PROVE (q \o new)[Len(q) + i] = new[i]
    <3>1. Len(q) + i \in 1 .. Len(q) + Len(new) /\ Len(q) + i > Len(q) /\ (Len(q) + i) - Len(q) = i
      BY <1>4, <1>7, <2>1
    <3> QED BY <1>7, <3>1
  <2> QED BY <2>1, <2>2, <2>3
<1>11. a \in [1 .. m -> c]
  BY <1>3, <1>5
<1>12. /\ \A i \in 1 .. m : Feeds(Last(q[k]), a[i])
       /\ \A i \in 1 .. m : \A j \in 1 .. Len(q) : Last(q[j]) # a[i]
  BY <1>2, <1>5
<1>13. \A y \in c : Feeds(Last(q[k]), y) =>
                \/ \E j \in 1 .. Len(q) : Last(q[j]) = y
                \/ \E i \in 1 .. m : a[i] = y
  <2>1. \A y \in c : y \in Tasks
    OBVIOUS
  <2> QED BY <1>2, <1>5, <2>1, Zenon
<1>14. \A i \in 1 .. m : (q \o new)[Len(q) + i] = Append(q[k], a[i])
  BY <1>9, <1>10
<1>15. Visited(c, q, k, q \o new, m, a)
  BY <1>5, <1>10, <1>11, <1>12, <1>13, <1>14 DEF Visited
<1> QED BY <1>4, <1>8, <1>15

\* A sequence of numbers of c is a sequence of numbers.
LEMMA SeqWider ==
  ASSUME NEW c \in SUBSET Nat, NEW w \in Seq(c)
  PROVE  w \in Seq(Nat)
<1>1. w \in [1 .. Len(w) -> c] /\ Len(w) \in Nat
  OBVIOUS
<1>2. w \in [1 .. Len(w) -> Nat]
  BY <1>1
<1> QED BY <1>1, <1>2

\* A walk of the queue comes before those that extend a later one.
LEMMA QueuedBefore ==
  ASSUME NEW c \in SUBSET Nat, NEW k \in Nat, k >= 1, NEW q, Searched(c, q, k - 1), k <= Len(q),
         NEW i \in 1 .. Len(q), NEW y \in c
  PROVE  Sooner(q[i], Append(q[k], y))
<1>1. /\ q \in Seq(Seq(c)) /\ q[1] = <<Least(c)>> /\ Len(q) \in Nat
      /\ \A j \in 1 .. Len(q) : q[j] \in Seq(Nat) /\ Len(q[j]) >= 1
  <2>1. q \in Seq(Seq(c)) /\ q[1] = <<Least(c)>>
    BY DEF Searched
  <2>2. Len(q) \in Nat
    BY <2>1
  <2>3. ASSUME NEW j \in 1 .. Len(q) PROVE q[j] \in Seq(Nat) /\ Len(q[j]) >= 1
    <3>1. Leads(c, q[j])
      BY DEF Searched
    <3>2. q[j] \in Seq(c) /\ Len(q[j]) >= 1
      BY <3>1 DEF Leads
    <3> QED BY <3>2, SeqWider
  <2> QED BY <2>1, <2>2, <2>3
<1>2. k \in 1 .. Len(q) /\ q[k] \in Seq(Nat) /\ Len(q[k]) >= 1 /\ y \in Nat
  BY <1>1
<1>3. Len(Append(q[k], y)) = Len(q[k]) + 1 /\ Len(q[k]) \in Nat
  BY <1>2
<1>4. CASE i = 1
  <2>1. Len(q[i]) = 1
    BY <1>1, <1>4
  <2> QED BY <1>2, <1>3, <2>1 DEF Sooner
<1>5. CASE i # 1
  <2>1. i \in 2 .. Len(q)
    BY <1>1, <1>5
  <2>2. PICK p \in 1 .. k - 1 : p <= Len(q) /\ \E x \in c : q[i] = Append(q[p], x)
    BY <2>1 DEF Searched
  <2>3. PICK x \in c : q[i] = Append(q[p], x)
    BY <2>2
  <2>4. p \in 1 .. Len(q) /\ p < k
    BY <1>1, <2>2
  <2>5. Sooner(q[p], q[k])
    BY <1>2, <2>4 DEF Searched
  <2>6. q[p] \in Seq(Nat) /\ x \in Nat
    BY <1>1, <2>3, <2>4
  <2> QED BY <1>2, <2>3, <2>5, <2>6, SoonerOn
<1> QED BY <1>4, <1>5

\* A visit extends the next walk of the queue and keeps what Searched says.
LEMMA VisitKeeps ==
  ASSUME NEW c \in SUBSET Nat, c \subseteq Tasks, IsFiniteSet(c), NEW k \in Nat, k >= 1,
         NEW q, Searched(c, q, k - 1), k <= Len(q)
  PROVE  Searched(c, Visit(c, q, k), k)
<1> DEFINE z == Visit(c, q, k)
           w == q[k]
<1>1. q \in Seq(Seq(c)) /\ Len(q) >= 1
  BY DEF Searched
<1>2. PICK l \in Nat : l = Len(q)
  BY <1>1
<1>3. k \in 1 .. l
  BY <1>2
<1>4. PICK m \in Nat : \E a : Visited(c, q, k, z, m, a)
  BY <1>1, <1>2, <1>3, VisitIs
<1>5. PICK a : Visited(c, q, k, z, m, a)
  BY <1>4
<1>6. /\ z \in Seq(Seq(c)) /\ Len(z) = l + m /\ a \in [1 .. m -> c]
      /\ \A i \in 1 .. l : z[i] = q[i]
      /\ \A i \in 1 .. m : z[l + i] = Append(w, a[i])
  BY <1>2, <1>5 DEF Visited
<1>7. /\ \A i, j \in 1 .. m : i < j => a[i] < a[j]
      /\ \A i \in 1 .. m : Feeds(Last(w), a[i])
      /\ \A i \in 1 .. m : \A j \in 1 .. l : Last(q[j]) # a[i]
      /\ \A y \in c : Feeds(Last(w), y) => \/ \E j \in 1 .. l : Last(q[j]) = y
                                           \/ \E i \in 1 .. m : a[i] = y
  BY <1>2, <1>5 DEF Visited
<1>8. \A i \in 1 .. l + m : i \in 1 .. l \/ \E r \in 1 .. m : i = l + r
  <2> SUFFICES ASSUME NEW i \in 1 .. l + m, i \notin 1 .. l PROVE \E r \in 1 .. m : i = l + r
    OBVIOUS
  <2>1. i - l \in 1 .. m /\ i = l + (i - l)
    OBVIOUS
  <2> QED BY <2>1
<1>9. /\ \A i \in 1 .. l : i \in 1 .. l + m
      /\ \A r \in 1 .. m : l + r \in 1 .. l + m
  OBVIOUS
<1>10. /\ q[1] = <<Least(c)>>
       /\ \A i \in 1 .. l : Leads(c, q[i])
       /\ \A i, j \in 1 .. l : i < j => Sooner(q[i], q[j])
       /\ \A i, j \in 1 .. l : Last(q[i]) = Last(q[j]) => i = j
  BY <1>2 DEF Searched
<1>11. /\ \A j \in 2 .. l : \E p \in 1 .. k - 1 : p <= l /\ \E y \in c : q[j] = Append(q[p], y)
       /\ \A i \in 1 .. k - 1 : i <= l => \A y \in c : Feeds(Last(q[i]), y) =>
            \E j \in 1 .. l : Last(q[j]) = y /\ NoLater(q[j], Append(q[i], y))
  BY <1>2 DEF Searched
<1>12. Leads(c, w) /\ w \in Seq(Nat)
  <2>1. Leads(c, w)
    BY <1>3, <1>10
  <2>2. w \in Seq(c)
    BY <2>1 DEF Leads
  <2> QED BY <2>1, <2>2, SeqWider
<1>13. ASSUME NEW i \in 1 .. l, NEW y \in c PROVE Sooner(q[i], Append(w, y))
  BY <1>2, QueuedBefore
<1>14. ASSUME NEW r \in 1 .. m
       PROVE  a[r] \in c /\ a[r] \in Nat /\ Leads(c, z[l + r]) /\ Last(z[l + r]) = a[r]
  <2>1. a[r] \in c /\ Feeds(Last(w), a[r])
    BY <1>6, <1>7
  <2>2. Leads(c, Append(w, a[r])) /\ Last(Append(w, a[r])) = a[r]
    BY <1>12, <2>1, LeadsOn
  <2> QED BY <1>6, <2>1, <2>2
<1> HIDE DEF z, w
<1>15. ASSUME NEW i \in 1 .. l + m PROVE Leads(c, z[i])
  <2>1. CASE i \in 1 .. l
    BY <1>6, <1>10, <2>1
  <2>2. CASE \E r \in 1 .. m : i = l + r
    BY <1>14, <2>2
  <2> QED BY <1>8, <2>1, <2>2
<1>16. ASSUME NEW i \in 1 .. l + m, NEW j \in 1 .. l + m, i < j PROVE Sooner(z[i], z[j])
  <2>1. CASE j \in 1 .. l
    <3>1. i \in 1 .. l
      BY <1>16, <2>1
    <3> QED BY <1>6, <1>10, <1>16, <2>1, <3>1
  <2>2. CASE i \in 1 .. l /\ \E r \in 1 .. m : j = l + r
    <3>1. PICK r \in 1 .. m : j = l + r
      BY <2>2
    <3>2. Sooner(q[i], Append(w, a[r]))
      BY <1>13, <1>14, <2>2
    <3> QED BY <1>6, <2>2, <3>1, <3>2
  <2>3. CASE \E r \in 1 .. m : i = l + r /\ \E s \in 1 .. m : j = l + s
    <3>1. PICK r \in 1 .. m : i = l + r /\ \E s \in 1 .. m : j = l + s
      BY <2>3
    <3>2. PICK s \in 1 .. m : j = l + s
      BY <3>1
    <3>3. r < s
      BY <1>16, <3>1, <3>2
    <3>4. a[r] < a[s] /\ a[r] \in Nat /\ a[s] \in Nat
      BY <1>7, <1>14, <3>3
    <3>5. Sooner(Append(w, a[r]), Append(w, a[s]))
      BY <1>12, <3>4, SoonerLast
    <3> QED BY <1>6, <3>1, <3>2, <3>5
  <2>4. /\ i \in 1 .. l \/ \E r \in 1 .. m : i = l + r
        /\ j \in 1 .. l \/ \E r \in 1 .. m : j = l + r
    BY <1>8
  <2> QED BY <2>1, <2>2, <2>3, <2>4
<1>17. ASSUME NEW i \in 1 .. l + m, NEW j \in 1 .. l + m, Last(z[i]) = Last(z[j]) PROVE i = j
  <2>1. CASE i \in 1 .. l /\ j \in 1 .. l
    BY <1>6, <1>10, <1>17, <2>1
  <2>2. ASSUME NEW g \in 1 .. l, NEW r \in 1 .. m, Last(z[g]) = Last(z[l + r]) PROVE FALSE
    <3>1. Last(z[g]) = Last(q[g])
      BY <1>6
    <3>2. Last(z[l + r]) = a[r]
      BY <1>14
    <3>3. Last(q[g]) # a[r]
      BY <1>7
    <3> QED BY <2>2, <3>1, <3>2, <3>3
  <2>3. ASSUME NEW r \in 1 .. m, NEW s \in 1 .. m, Last(z[l + r]) = Last(z[l + s]) PROVE r = s
    <3>1. a[r] = a[s] /\ a[r] \in Nat /\ a[s] \in Nat
      BY <1>14, <2>3
    <3>2. ~ (r < s) /\ ~ (s < r)
      BY <1>7, <3>1
    <3> QED BY <3>2
  <2>4. /\ i \in 1 .. l \/ \E r \in 1 .. m : i = l + r
        /\ j \in 1 .. l \/ \E r \in 1 .. m : j = l + r
    BY <1>8
  <2> QED BY <1>17, <2>1, <2>2, <2>3, <2>4
<1>18. ASSUME NEW j \in 2 .. l + m
       PROVE  \E p \in 1 .. k : p <= l + m /\ \E y \in c : z[j] = Append(z[p], y)
  <2>1. j \in 1 .. l + m
    OBVIOUS
  <2>2. CASE j \in 1 .. l
    <3>1. j \in 2 .. l
      BY <2>2
    <3>2. PICK p \in 1 .. k - 1 : p <= l /\ \E y \in c : q[j] = Append(q[p], y)
      BY <1>11, <3>1
    <3>3. p \in 1 .. k /\ p \in 1 .. l /\ p <= l + m
      BY <3>2
    <3> QED BY <1>6, <2>2, <3>2, <3>3
  <2>3. CASE \E r \in 1 .. m : j = l + r
    <3>1. PICK r \in 1 .. m : j = l + r
      BY <2>3
    <3>2. k \in 1 .. k /\ k <= l + m /\ z[k] = w
      BY <1>3, <1>6 DEF w
    <3> QED BY <1>6, <1>14, <3>1, <3>2
  <2> QED BY <1>8, <2>1, <2>2, <2>3
<1>19. ASSUME NEW i \in 1 .. k, NEW y \in c, Feeds(Last(z[i]), y)
       PROVE  \E j \in 1 .. l + m : Last(z[j]) = y /\ NoLater(z[j], Append(z[i], y))
  <2>0. i \in 1 .. l
    BY <1>3
  <2>1. i \in 1 .. l /\ z[i] = q[i]
    BY <1>6, <2>0
  <2>2. CASE i # k
    <3>1. i \in 1 .. k - 1 /\ i <= l
      BY <2>1, <2>2
    <3>2. PICK j \in 1 .. l : Last(q[j]) = y /\ NoLater(q[j], Append(q[i], y))
      BY <1>11, <1>19, <2>1, <3>1
    <3> QED BY <1>6, <1>9, <2>1, <3>2
  <2>3. CASE i = k
    <3>1. z[i] = w /\ Feeds(Last(w), y)
      BY <1>19, <2>1, <2>3 DEF w
    <3>2. CASE \E j \in 1 .. l : Last(q[j]) = y
      <4>1. PICK j \in 1 .. l : Last(q[j]) = y
        BY <3>2
      <4>2. NoLater(q[j], Append(w, y))
        BY <1>13 DEF NoLater
      <4> QED BY <1>6, <1>9, <3>1, <4>1, <4>2
    <3>3. CASE \E r \in 1 .. m : a[r] = y
      <4>1. PICK r \in 1 .. m : a[r] = y
        BY <3>3
      <4>2. z[l + r] = Append(w, y) /\ Last(z[l + r]) = y /\ l + r \in 1 .. l + m
        BY <1>6, <1>9, <1>14, <4>1
      <4> QED BY <3>1, <4>2 DEF NoLater
    <3> QED BY <1>7, <3>1, <3>2, <3>3
  <2> QED BY <2>2, <2>3
<1>20. Len(z) >= 1 /\ z[1] = <<Least(c)>>
  <2>1. 1 \in 1 .. l
    BY <1>3
  <2> QED BY <1>6, <1>10, <2>1
<1>21. Searched(c, z, k)
  <2>1. l + m = Len(z)
    BY <1>6
  <2>2. z \in Seq(Seq(c)) /\ \A i \in 1 .. Len(z) : Leads(c, z[i])
    BY <1>6, <1>15, <2>1
  <2>3. \A i, j \in 1 .. Len(z) : i < j => Sooner(z[i], z[j])
    BY <1>16, <2>1
  <2>4. \A i, j \in 1 .. Len(z) : Last(z[i]) = Last(z[j]) => i = j
    BY <1>17, <2>1
  <2>5. \A j \in 2 .. Len(z) : \E p \in 1 .. k : p <= Len(z) /\ \E y \in c : z[j] = Append(z[p], y)
    BY <1>18, <2>1
  <2>6. \A i \in 1 .. k : i <= Len(z) => \A y \in c : Feeds(Last(z[i]), y) =>
          \E j \in 1 .. Len(z) : Last(z[j]) = y /\ NoLater(z[j], Append(z[i], y))
    BY <1>19, <2>1
  <2> QED BY <1>20, <2>2, <2>3, <2>4, <2>5, <2>6, Zenon DEF Searched
<1> QED BY <1>21 DEF z

\* A search whose queue is empty is searched to any length.
LEMMA SearchIdle ==
  ASSUME NEW c, NEW k \in Nat, k >= 1, NEW q, Searched(c, q, k - 1), k > Len(q)
  PROVE  Searched(c, q, k)
<1>1. q \in Seq(Seq(c))
  BY DEF Searched
<1>2. PICK l \in Nat : l = Len(q)
  BY <1>1
<1>3. ASSUME NEW j \in 2 .. l
      PROVE  \E p \in 1 .. k : p <= l /\ \E y \in c : q[j] = Append(q[p], y)
  <2>1. PICK p \in 1 .. k - 1 : p <= l /\ \E y \in c : q[j] = Append(q[p], y)
    BY <1>2 DEF Searched
  <2>2. p \in 1 .. k
    OBVIOUS
  <2> QED BY <2>1, <2>2
<1>4. ASSUME NEW i \in 1 .. k, i <= l, NEW y \in c, Feeds(Last(q[i]), y)
      PROVE  \E j \in 1 .. l : Last(q[j]) = y /\ NoLater(q[j], Append(q[i], y))
  <2>1. i \in 1 .. k - 1
    BY <1>2, <1>4
  <2> QED BY <1>2, <1>4, <2>1 DEF Searched
<1> QED BY <1>2, <1>3, <1>4 DEF Searched

\* The queue after each visit.
Queues(f, c, n) ==
  /\ f \in [0 .. n -> Seq(Seq(c))] /\ f[0] = << <<Least(c)>> >>
  /\ \A k \in 1 .. n : f[k] = IF k > Len(f[k - 1]) THEN f[k - 1] ELSE Visit(c, f[k - 1], k)

\* Walks is the last of the queues that the visits make.
LEMMA QueuesExist ==
  ASSUME NEW c \in SUBSET Nat, c \subseteq Tasks, IsFiniteSet(c), c # {},
         NEW n \in Nat, n = Cardinality(c)
  PROVE  \E f : Queues(f, c, n) /\ Walks(c) = f[n]
<1> DEFINE b == << <<Least(c)>> >>
           V == Seq(Seq(c))
           turn == [k \in 1 .. n |-> [q \in V |-> IF k > Len(q) THEN q ELSE Visit(c, q, k)]]
<1>1. b \in V /\ 0 \in Nat /\ 0 <= n
  <2>1. b \in V
    BY SearchStarts DEF Searched
  <2> QED BY <2>1
<1>2. turn \in [0 + 1 .. n -> [V -> V]]
  <2>1. ASSUME NEW k \in 1 .. n, NEW q \in V, ~ (k > Len(q)) PROVE Visit(c, q, k) \in V
    <3>1. k \in 1 .. Len(q)
      BY <2>1
    <3>2. PICK m \in Nat : \E a : Visited(c, q, k, Visit(c, q, k), m, a)
      BY <3>1, VisitIs
    <3> QED BY <3>2 DEF Visited
  <2>2. 0 + 1 = 1
    OBVIOUS
  <2> HIDE DEF V
  <2> QED BY <2>1, <2>2
<1> HIDE DEF turn, V, b
<1>3. PICK f : Steps(f, V, 0, n, b, turn)
  BY <1>1, <1>2, StepsExist, Zenon
<1>4. /\ f \in [0 .. n -> V] /\ f[0] = b
      /\ \A i \in 1 .. n : f[i] = turn[i][f[i - 1]]
  BY <1>3 DEF Steps
<1>5. ASSUME NEW k \in 1 .. n
      PROVE  f[k] = IF k > Len(f[k - 1]) THEN f[k - 1] ELSE Visit(c, f[k - 1], k)
  <2>1. k - 1 \in 0 .. n
    OBVIOUS
  <2>2. f[k - 1] \in V
    BY <1>4, <2>1
  <2> QED BY <1>4, <2>2 DEF turn
<1>6. \A i \in 0 .. n : i = 0 \/ i \in 1 .. n
  OBVIOUS
<1>7. f = [k \in 0 .. n |-> IF k = 0 THEN b
                            ELSE IF k > Len(f[k - 1]) THEN f[k - 1] ELSE Visit(c, f[k - 1], k)]
  <2>1. \A k \in 0 .. n : f[k] = IF k = 0 THEN b
                            ELSE IF k > Len(f[k - 1]) THEN f[k - 1] ELSE Visit(c, f[k - 1], k)
    BY <1>4, <1>5, <1>6
  <2> QED BY <1>4, <2>1
<1> DEFINE g == CHOOSE g : g = [k \in 0 .. n |-> IF k = 0 THEN b
                            ELSE IF k > Len(g[k - 1]) THEN g[k - 1] ELSE Visit(c, g[k - 1], k)]
<1>8. g = [k \in 0 .. n |-> IF k = 0 THEN b
                            ELSE IF k > Len(g[k - 1]) THEN g[k - 1] ELSE Visit(c, g[k - 1], k)]
  BY <1>7, Zenon
<1>9. Walks(c) = g[n]
  BY Zenon DEF Walks, b
<1> HIDE DEF g
<1>10. GoOnAlike(g, f, 0, n)
  <2>1. 0 \in 0 .. n
    BY <1>1
  <2>2. g[0] = b
    BY <1>8, <2>1
  <2>3. ASSUME NEW i \in 0 + 1 .. n, g[i - 1] = f[i - 1] PROVE g[i] = f[i]
    <3>1. i \in 0 .. n /\ i # 0 /\ i \in 1 .. n
      BY <1>1
    <3>2. g[i] = IF i > Len(g[i - 1]) THEN g[i - 1] ELSE Visit(c, g[i - 1], i)
      BY <1>8, <3>1
    <3> QED BY <1>5, <2>3, <3>1, <3>2
  <2> QED BY <1>4, <2>2, <2>3 DEF GoOnAlike
<1>11. g[n] = f[n]
  <2>1. Alike(g, f, 0, n)
    BY <1>1, <1>10, StayAlike, Zenon
  <2>2. n \in 0 .. n
    BY <1>1
  <2> QED BY <2>1, <2>2, Zenon DEF Alike
<1> QED BY <1>4, <1>5, <1>9, <1>11 DEF Queues, b, V

\* The search ends with every walk of its queue extended.
LEMMA WalksSearched ==
  ASSUME NEW c \in SUBSET Nat, c \subseteq Tasks, IsFiniteSet(c), c # {}
  PROVE  \E k \in Nat : Searched(c, Walks(c), k) /\ Len(Walks(c)) <= k
<1>1. PICK n \in Nat : n = Cardinality(c)
  BY FS_CardinalityType
<1>2. PICK f : Queues(f, c, n) /\ Walks(c) = f[n]
  BY <1>1, QueuesExist
<1> DEFINE T == {k \in Nat : k <= n => Searched(c, f[k], k)}
<1>3. 0 \in T
  BY <1>2, SearchStarts DEF Queues
<1>4. ASSUME NEW k \in Nat, k \in T PROVE k + 1 \in T
  <2> SUFFICES ASSUME k + 1 <= n PROVE Searched(c, f[k + 1], k + 1)
    OBVIOUS
  <2> DEFINE h == k + 1
  <2>1. h \in 1 .. n /\ h - 1 = k /\ h \in Nat /\ h >= 1
    OBVIOUS
  <2>2. Searched(c, f[h - 1], h - 1)
    BY <1>4, <2>1
  <2>3. f[h] = IF h > Len(f[h - 1]) THEN f[h - 1] ELSE Visit(c, f[h - 1], h)
    BY <1>2, <2>1 DEF Queues
  <2>4. Len(f[h - 1]) \in Nat
    <3>1. f[h - 1] \in Seq(Seq(c))
      BY <2>2 DEF Searched
    <3> QED BY <3>1
  <2> HIDE DEF h
  <2>5. CASE h > Len(f[h - 1])
    BY <2>1, <2>2, <2>3, <2>5, SearchIdle DEF h
  <2>6. CASE ~ (h > Len(f[h - 1]))
    <3>1. h <= Len(f[h - 1])
      BY <2>1, <2>4, <2>6
    <3>2. Searched(c, Visit(c, f[h - 1], h), h)
      BY <2>1, <2>2, <3>1, VisitKeeps
    <3> QED BY <2>3, <2>6, <3>2 DEF h
  <2> QED BY <2>5, <2>6
<1>5. Searched(c, f[n], n)
  <2>1. Nat \subseteq T
    <3> HIDE DEF T
    <3> QED BY <1>3, <1>4, NumbersInduction
  <2> QED BY <2>1
<1>6. Len(f[n]) <= n
  <2>1. PICK q \in Seq(Seq(c)) : q = f[n]
    BY <1>5 DEF Searched
  <2>2. PICK l \in Nat : l = Len(q)
    BY <2>1
  <2> DEFINE g == [i \in 1 .. l |-> Last(q[i])]
  <2>3. ASSUME NEW i \in 1 .. l PROVE Last(q[i]) \in c
    <3>1. Leads(c, q[i])
      BY <1>5, <2>1, <2>2 DEF Searched
    <3>2. q[i] \in Seq(c) /\ Len(q[i]) >= 1
      BY <3>1 DEF Leads
    <3> QED BY <3>2 DEF Last
  <2>4. \A i, j \in 1 .. l : Last(q[i]) = Last(q[j]) => i = j
    BY <1>5, <2>1, <2>2 DEF Searched
  <2>5. g \in Injection(1 .. l, c)
    BY <2>3, <2>4 DEF Injection, IsInjective
  <2>6. Cardinality(1 .. l) = l
    BY FS_Interval
  <2> HIDE DEF g
  <2>7. l <= Cardinality(c)
    BY <2>5, <2>6, FS_Injection
  <2> QED BY <1>1, <2>1, <2>2, <2>7
<1> QED BY <1>2, <1>5, <1>6

\* Of the walks that end at a task, none is sooner than that of the queue.
LEMMA SearchBest ==
  ASSUME NEW c \in SUBSET Nat, NEW q, NEW k \in Nat, Searched(c, q, k), Len(q) <= k,
         NEW w, Leads(c, w)
  PROVE  \E j \in 1 .. Len(q) : Last(q[j]) = Last(w) /\ NoLater(q[j], w)
<1> DEFINE Met(v) == \E j \in 1 .. Len(q) : Last(q[j]) = Last(v) /\ NoLater(q[j], v)
           T == {n \in Nat : \A v : Leads(c, v) /\ Len(v) = n + 1 => Met(v)}
<1>0. Len(q) \in Nat /\ Len(q) >= 1 /\ \A j \in 1 .. Len(q) : q[j] \in Seq(c)
  <2>1. q \in Seq(Seq(c)) /\ Len(q) >= 1
    BY DEF Searched
  <2> QED BY <2>1
<1>1. 0 \in T
  <2> SUFFICES ASSUME NEW v, Leads(c, v), Len(v) = 1 PROVE Met(v)
    OBVIOUS
  <2>1. v \in Seq(c) /\ v[1] = Least(c)
    BY DEF Leads
  <2>2. v = <<Least(c)>>
    BY <2>1
  <2>3. q[1] = v /\ 1 \in 1 .. Len(q)
    BY <1>0, <2>2 DEF Searched
  <2> QED BY <2>3 DEF NoLater
<1>2. ASSUME NEW n \in Nat, n \in T PROVE n + 1 \in T
  <2> SUFFICES ASSUME NEW v, Leads(c, v), Len(v) = (n + 1) + 1 PROVE Met(v)
    OBVIOUS
  <2>1. n + 1 \in Nat /\ n + 1 >= 1
    OBVIOUS
  <2>2. PICK u : Leads(c, u) /\ Len(u) = n + 1 /\ v = Append(u, Last(v)) /\ Feeds(Last(u), Last(v))
    BY <2>1, LeadsBack
  <2>3. PICK i \in 1 .. Len(q) : Last(q[i]) = Last(u) /\ NoLater(q[i], u)
    BY <1>2, <2>2
  <2> DEFINE y == Last(v)
  <2>4. y \in c /\ v \in Seq(c) /\ u \in Seq(c)
    <3>1. v \in Seq(c) /\ Len(v) >= 1 /\ u \in Seq(c)
      BY <2>2 DEF Leads
    <3> QED BY <3>1 DEF Last
  <2> HIDE DEF y
  <2>5. i \in 1 .. k /\ i <= Len(q) /\ Feeds(Last(q[i]), y)
    BY <1>0, <2>2, <2>3 DEF y
  <2>6. PICK j \in 1 .. Len(q) : Last(q[j]) = y /\ NoLater(q[j], Append(q[i], y))
    BY <2>4, <2>5 DEF Searched
  <2>7. q[i] \in Seq(Nat) /\ u \in Seq(Nat) /\ y \in Nat /\ q[j] \in Seq(Nat)
    BY <1>0, <2>4, SeqWider
  <2>8. NoLater(Append(q[i], y), Append(u, y))
    BY <2>3, <2>7, SoonerOn DEF NoLater
  <2>9. Append(q[i], y) \in Seq(Nat) /\ Append(u, y) \in Seq(Nat)
    BY <2>7
  <2>10. NoLater(q[j], Append(u, y))
    BY <2>6, <2>7, <2>8, <2>9, NoLaterChain
  <2> QED BY <2>2, <2>6, <2>10 DEF y
<1>3. Nat \subseteq T
  <2> HIDE DEF T
  <2> QED BY <1>1, <1>2, NumbersInduction
<1>4. Len(w) - 1 \in Nat /\ Len(w) = (Len(w) - 1) + 1
  <2>1. w \in Seq(c) /\ Len(w) >= 1
    BY DEF Leads
  <2> QED BY <2>1
<1> QED BY <1>3, <1>4

\* A closed walk from a task of a knot stays in the knot.
LEMMA RoundInside ==
  ASSUME NEW t \in Tasks, t \in Knot(t), t = Least(Knot(t)),
         NEW m \in Nat, m >= 1, NEW w \in ClosedWalks(t, m)
  PROVE  \E v : /\ Leads(Knot(t), v) /\ Len(v) = m /\ Feeds(Last(v), t)
                /\ w = Append(v, t)
<1> DEFINE c == Knot(t)
           v == [i \in 1 .. m |-> w[i]]
<1>1. /\ w \in [1 .. m + 1 -> Tasks] /\ w[1] = t /\ w[m + 1] = t
      /\ \A i \in 1 .. m : Feeds(w[i], w[i + 1])
  BY DEF ClosedWalks
<1>2. ASSUME NEW x, NEW y \in Tasks, Feeds(x, y) PROVE y \in Behind(x)
  BY <1>2, BehindShut DEF Shut
<1> DEFINE F == {d \in Nat : d + 2 <= m + 1 => w[d + 2] \in Behind(t)}
           B == {d \in Nat : d + 1 <= m => t \in Behind(w[m - d])}
<1>3. Nat \subseteq F
  <2>1. 0 \in F
    <3>1. 1 \in 1 .. m /\ 1 + 1 = 2 /\ 2 \in 1 .. m + 1
      OBVIOUS
    <3>2. Feeds(t, w[2]) /\ w[2] \in Tasks
      BY <1>1, <3>1
    <3> QED BY <1>2, <3>2
  <2>2. ASSUME NEW d \in Nat, d \in F PROVE d + 1 \in F
    <3> SUFFICES ASSUME (d + 1) + 2 <= m + 1 PROVE w[(d + 1) + 2] \in Behind(t)
      OBVIOUS
    <3>1. d + 2 \in 1 .. m /\ (d + 2) + 1 = (d + 1) + 2 /\ (d + 1) + 2 \in 1 .. m + 1
      OBVIOUS
    <3>2. Feeds(w[d + 2], w[(d + 1) + 2]) /\ w[(d + 1) + 2] \in Tasks
      BY <1>1, <3>1
    <3>3. w[d + 2] \in Behind(t)
      BY <2>2, <3>1
    <3> QED BY <3>2, <3>3, BehindShut DEF Shut
  <2> HIDE DEF F
  <2> QED BY <2>1, <2>2, NumbersInduction
<1>4. Nat \subseteq B
  <2>1. 0 \in B
    <3>1. m \in 1 .. m /\ m - 0 = m
      OBVIOUS
    <3>2. Feeds(w[m], t)
      BY <1>1, <3>1
    <3> QED BY <1>2, <3>1, <3>2
  <2>2. ASSUME NEW d \in Nat, d \in B PROVE d + 1 \in B
    <3> SUFFICES ASSUME (d + 1) + 1 <= m PROVE t \in Behind(w[m - (d + 1)])
      OBVIOUS
    <3> DEFINE i == m - (d + 1)
    <3>1. i \in 1 .. m /\ i + 1 = m - d /\ i + 1 \in 1 .. m + 1
      OBVIOUS
    <3>2. t \in Behind(w[i + 1])
      BY <2>2, <3>1
    <3> HIDE DEF i
    <3>3. w[i + 1] \in Behind(w[i])
      BY <1>1, <1>2, <3>1
    <3>4. t \in Behind(w[i])
      BY <3>2, <3>3, BehindMore
    <3> QED BY <3>4 DEF i
  <2> HIDE DEF B
  <2> QED BY <2>1, <2>2, NumbersInduction
<1>5. ASSUME NEW i \in 1 .. m PROVE w[i] \in c
  <2>1. CASE i = 1
    BY <1>1, <2>1
  <2>2. CASE i # 1
    <3>1. i - 2 \in Nat /\ (i - 2) + 2 = i /\ i <= m + 1
      BY <2>2
    <3>2. m - i \in Nat /\ m - (m - i) = i /\ (m - i) + 1 <= m
      OBVIOUS
    <3>3. w[i] \in Behind(t)
      BY <1>3, <3>1
    <3>4. t \in Behind(w[i])
      BY <1>4, <3>2
    <3> QED BY <3>3, <3>4 DEF Knot
  <2> QED BY <2>1, <2>2
<1> HIDE DEF c, F, B
<1>6. v \in Seq(c) /\ Len(v) = m /\ \A i \in 1 .. m : v[i] = w[i]
  <2>1. v \in [1 .. m -> c]
    BY <1>5
  <2> QED BY <2>1
<1>7. w = Append(v, t)
  <2> DEFINE p == Append(v, t)
  <2>1. v \in Seq(c \cup {t}) /\ Len(v) = m
    <3>1. v \in [1 .. m -> c \cup {t}]
      BY <1>5
    <3> QED BY <1>6, <3>1
  <2> HIDE DEF v
  <2> DEFINE d == c \cup {t}
  <2>6. t \in d
    OBVIOUS
  <2>7. v \in Seq(d)
    BY <2>1
  <2> HIDE DEF d
  <2>5. p \in [1 .. m + 1 -> d] /\ p[m + 1] = t /\ \A i \in 1 .. m : p[i] = v[i]
    <3>1. /\ p \in Seq(d) /\ Len(p) = m + 1 /\ p[m + 1] = t
          /\ \A i \in 1 .. m : p[i] = v[i]
      BY <2>1, <2>6, <2>7
    <3> HIDE DEF p
    <3>2. \A l \in Nat : p \in Seq(d) /\ Len(p) = l => p \in [1 .. l -> d]
      OBVIOUS
    <3>3. m + 1 \in Nat
      OBVIOUS
    <3> QED BY <3>1, <3>2, <3>3
  <2>2. \A i \in 1 .. m + 1 : i \in 1 .. m \/ i = m + 1
    OBVIOUS
  <2> HIDE DEF p
  <2>3. \A i \in 1 .. m + 1 : p[i] = w[i]
    BY <1>1, <1>6, <2>5, <2>2
  <2>4. p = w
    BY <1>1, <2>5, <2>3
  <2> QED BY <2>4 DEF p
<1> HIDE DEF v
<1>8. 1 \in 1 .. m /\ m \in 1 .. m
  OBVIOUS
<1>9. Leads(c, v)
  <2>1. ASSUME NEW i \in 1 .. m - 1 PROVE Feeds(v[i], v[i + 1])
    <3>1. i \in 1 .. m /\ i + 1 \in 1 .. m
      OBVIOUS
    <3> QED BY <1>1, <1>6, <3>1
  <2> QED BY <1>1, <1>6, <1>8, <2>1 DEF Leads, c
<1>10. Feeds(Last(v), t)
  BY <1>1, <1>6, <1>8 DEF Last
<1> QED BY <1>6, <1>7, <1>9, <1>10 DEF c

\* The search of a knot finds a way back.
LEMMA WayBack ==
  ASSUME NEW t, NEW c, c = Knot(t), t \in c, t = Least(c), NEW q, NEW k \in Nat,
         Searched(c, q, k), Len(q) <= k
  PROVE  \E j \in 1 .. Len(q) : Closing(c, q[j])
<1> SUFFICES ASSUME \A j \in 1 .. Len(q) : ~ Closing(c, q[j]) PROVE FALSE
  OBVIOUS
<1> DEFINE E == {Last(q[j]) : j \in 1 .. Len(q)}
           S == {y \in Behind(t) : (y \in E /\ y # t) \/ t \notin Behind(y)}
<1>1. t \in E
  <2>1. q \in Seq(Seq(c)) /\ Len(q) >= 1 /\ q[1] = <<t>>
    BY DEF Searched
  <2>2. 1 \in 1 .. Len(q)
    BY <2>1
  <2>3. Last(q[1]) = t
    BY <2>1 DEF Last
  <2> QED BY <2>2, <2>3
<1>2. t \in Behind(t) /\ t \in Tasks
  BY BehindShut DEF Knot
<1>3. ASSUME NEW x \in S \cup {t}, NEW y \in Tasks, Feeds(x, y) PROVE y \in S
  <2>1. y \in Behind(t) /\ y \in Behind(x)
    <3>1. x \in Behind(t)
      BY <1>2
    <3>2. y \in Behind(t)
      BY <1>3, <3>1, BehindShut DEF Shut
    <3>3. y \in Behind(x)
      BY <1>3, BehindShut DEF Shut
    <3> QED BY <3>2, <3>3
  <2>2. CASE t \notin Behind(y)
    BY <2>1, <2>2
  <2>3. CASE t \in Behind(y)
    <3>1. t \in Behind(x)
      BY <2>1, <2>3, BehindMore
    <3>2. x \in E
      BY <1>1, <3>1
    <3>3. PICK j \in 1 .. Len(q) : x = Last(q[j])
      BY <3>2
    <3>4. y # t
      <4>1. t \notin Downstream(Last(q[j]))
        BY DEF Closing
      <4> QED BY <1>2, <1>3, <3>3, <4>1 DEF Downstream, Feeds
    <3>5. y \in c
      BY <2>1, <2>3 DEF Knot
    <3>6. y \in E
      <4>1. Len(q) \in Nat
        <5>1. q \in Seq(Seq(c))
          BY DEF Searched
        <5> QED BY <5>1
      <4>2. j \in 1 .. k /\ j <= Len(q)
        BY <4>1
      <4>3. \E i \in 1 .. Len(q) : Last(q[i]) = y
        BY <1>3, <3>3, <3>5, <4>2 DEF Searched
      <4> QED BY <4>3
    <3> QED BY <2>1, <3>4, <3>6
  <2> QED BY <2>2, <2>3
<1>4. S \in SUBSET Tasks /\ Shut(S, t)
  <2>1. S \subseteq Tasks
    BY BehindShut
  <2> QED BY <1>3, <2>1 DEF Shut
<1>5. t \in S
  <2> HIDE DEF S
  <2> QED BY <1>2, <1>4, BehindLeast
<1> QED BY <1>2, <1>5

\* Walk w is a shortest round from the least task of the first of the smallest
\* knots, and the first of these rounds: what CycleLeast says of a witness.
Right(w) ==
  /\ w # << >> /\ w[1] \in Tasks
  /\ w \in ClosedWalks(w[1], Len(w) - 1)
  /\ \A v \in ClosedWalks(w[1], Len(w) - 1) : ~Earlier(v, w)
  /\ \A m \in 1 .. (Len(w) - 1) - 1 : ClosedWalks(w[1], m) = {}
  /\ \A u \in Tasks : Knot(u) # {} =>
       \/ Cardinality(Knot(w[1])) < Cardinality(Knot(u))
       \/ Cardinality(Knot(w[1])) = Cardinality(Knot(u)) /\ w[1] <= u

\* The witness of a component is a round from its least task, and none from
\* there is shorter, or as long and earlier.
LEMMA RoundBest ==
  ASSUME NEW t \in Tasks, t \in Knot(t), t = Least(Knot(t)),
         Knot(t) \in SUBSET Nat, IsFiniteSet(Knot(t))
  PROVE  \E w : /\ ClosedWalk(Knot(t)) = Append(w, t) /\ Leads(Knot(t), w)
                /\ Feeds(Last(w), t)
                /\ \A v : Leads(Knot(t), v) /\ Feeds(Last(v), t) => NoLater(w, v)
<1> DEFINE c == Knot(t)
           q == Walks(c)
           Back(j) == Closing(c, q[j])
           at == CHOOSE k \in DOMAIN q : Back(k) /\ \A i \in 1 .. k - 1 : ~Back(i)
<1>1. c \subseteq Tasks
  BY BehindShut DEF Knot
<1>2. PICK k \in Nat : Searched(c, q, k) /\ Len(q) <= k
  BY <1>1, WalksSearched
<1>3. c # {} /\ c \in SUBSET Nat /\ t = Least(c)
  OBVIOUS
<1>4. ClosedWalk(c) = Append(q[at], t)
  BY <1>3, Zenon DEF ClosedWalk
<1>5. \A j : Back(j) <=> Feeds(Last(q[j]), t)
  BY <1>3 DEF Closing, Downstream, Feeds
<1>6. \E j \in 1 .. Len(q) : Back(j)
  BY <1>2, <1>3, WayBack
<1>7. q \in Seq(Seq(c)) /\ Len(q) \in Nat /\ DOMAIN q = 1 .. Len(q)
  <2>1. q \in Seq(Seq(c))
    BY <1>2 DEF Searched
  <2> QED BY <2>1
<1> HIDE DEF q, Back
<1>8. \E j \in DOMAIN q : Back(j) /\ \A i \in 1 .. j - 1 : ~Back(i)
  <2> DEFINE J == {j \in 1 .. Len(q) : Back(j)}
  <2>1. J \subseteq Nat
    BY <1>7
  <2>4. \A j : j \in J <=> j \in 1 .. Len(q) /\ Back(j)
    BY Zenon
  <2> HIDE DEF J, c
  <2>5. J \in SUBSET Nat /\ J # {}
    BY <1>6, <2>1, <2>4
  <2>2. PICK j \in J : \A i \in J : j <= i
    BY <2>5, LeastNumber
  <2>3. ASSUME NEW i \in 1 .. j - 1, Back(i) PROVE FALSE
    <3>1. j \in 1 .. Len(q)
      BY <2>2, <2>4
    <3>2. i \in 1 .. Len(q) /\ ~ (j <= i)
      BY <1>7, <3>1
    <3> QED BY <2>2, <2>3, <2>4, <3>2
  <2> QED BY <1>7, <2>2, <2>3, <2>4
<1>9. at \in DOMAIN q /\ Back(at) /\ \A i \in 1 .. at - 1 : ~Back(i)
  <2> HIDE DEF c
  <2> QED BY <1>8
<1> HIDE DEF at
<1>10. at \in 1 .. Len(q)
  BY <1>7, <1>9
<1>11. Leads(c, q[at]) /\ Feeds(Last(q[at]), t)
  BY <1>2, <1>5, <1>9, <1>10 DEF Searched
<1>12. ASSUME NEW v, Leads(c, v), Feeds(Last(v), t) PROVE NoLater(q[at], v)
  <2>1. PICK j \in 1 .. Len(q) : Last(q[j]) = Last(v) /\ NoLater(q[j], v)
    BY <1>2, <1>3, <1>12, SearchBest
  <2>2. Back(j)
    BY <1>5, <1>12, <2>1
  <2>3. ~ (j \in 1 .. at - 1)
    BY <1>9, <2>2
  <2>4. at = j \/ at < j
    BY <1>7, <1>10, <2>3
  <2>5. NoLater(q[at], q[j])
    BY <1>2, <1>10, <2>4 DEF Searched, NoLater
  <2>6. q[at] \in Seq(Nat) /\ q[j] \in Seq(Nat) /\ v \in Seq(Nat)
    <3>1. q[at] \in Seq(c) /\ q[j] \in Seq(c) /\ v \in Seq(c)
      BY <1>7, <1>10, <1>12 DEF Leads
    <3> HIDE DEF c
    <3> QED BY <1>3, <3>1, SeqWider
  <2> QED BY <2>1, <2>5, <2>6, NoLaterChain
<1> QED BY <1>4, <1>11, <1>12

\* A round from t is no shorter, nor as long and earlier.
LEMMA RoundsLater ==
  ASSUME NEW t \in Tasks, t \in Knot(t), t = Least(Knot(t)), Knot(t) \in SUBSET Nat,
         NEW w, Leads(Knot(t), w),
         \A v : Leads(Knot(t), v) /\ Feeds(Last(v), t) => NoLater(w, v),
         NEW m \in Nat, m >= 1, NEW v \in ClosedWalks(t, m)
  PROVE  Len(w) <= m /\ (Len(w) = m => ~ Earlier(v, Append(w, t)))
<1> DEFINE c == Knot(t)
<1>1. PICK x : Leads(c, x) /\ Len(x) = m /\ Feeds(Last(x), t) /\ v = Append(x, t)
  BY RoundInside
<1>2. NoLater(w, x)
  BY <1>1
<1>3. w \in Seq(c) /\ x \in Seq(c)
  BY <1>1 DEF Leads
<1> HIDE DEF c
<1>4. w \in Seq(Nat) /\ x \in Seq(Nat) /\ t \in Nat
  BY <1>3, SeqWider DEF c
<1>5. Len(w) <= m /\ (Len(w) = m => ~ Earlier(x, w))
  BY <1>1, <1>2, <1>4, SoonerOnce
<1>6. ASSUME Len(w) = m, Earlier(v, Append(w, t)) PROVE Earlier(x, w)
  <2> DEFINE z == Append(w, t)
  <2>1. /\ v \in Seq(Nat) /\ Len(v) = m + 1 /\ v[m + 1] = t /\ z[m + 1] = t
        /\ \A i \in 1 .. m : v[i] = x[i] /\ z[i] = w[i]
    <3>1. \A y \in Seq(Nat) : Len(y) = m =>
            /\ Append(y, t) \in Seq(Nat) /\ Len(Append(y, t)) = m + 1
            /\ Append(y, t)[m + 1] = t /\ \A i \in 1 .. m : Append(y, t)[i] = y[i]
      BY <1>4
    <3>2. /\ v \in Seq(Nat) /\ Len(v) = m + 1 /\ v[m + 1] = t
          /\ \A i \in 1 .. m : v[i] = x[i]
      BY <1>1, <1>4, <3>1
    <3>3. z[m + 1] = t /\ \A i \in 1 .. m : z[i] = w[i]
      BY <1>4, <1>6, <3>1
    <3> HIDE DEF z
    <3> QED BY <3>2, <3>3
  <2> HIDE DEF z
  <2>2. PICK i \in 1 .. m + 1 : v[i] < z[i] /\ \A j \in 1 .. i - 1 : v[j] = z[j]
    <3>1. Earlier(v, z) /\ v \in Seq(Nat)
      BY <1>6, <2>1 DEF z
    <3>2. \E i \in 1 .. Len(v) : v[i] < z[i] /\ \A j \in 1 .. i - 1 : v[j] = z[j]
      BY <3>1, EarlierIs
    <3> QED BY <2>1, <3>2
  <2>3. i # m + 1
    BY <1>4, <2>1, <2>2
  <2>4. i \in 1 .. m
    BY <2>3
  <2>5. x[i] < w[i]
    BY <2>1, <2>2, <2>4
  <2>6. ASSUME NEW j \in 1 .. i - 1 PROVE x[j] = w[j]
    <3>1. j \in 1 .. m
      BY <2>4
    <3> QED BY <2>1, <2>2, <3>1
  <2> QED BY <1>1, <1>4, <2>4, <2>5, <2>6, EarlierIs
<1> QED BY <1>5, <1>6

\* The witness is the one that CycleLeast asks for.
LEMMA WitnessRight ==
  ASSUME PlanInv, verdict = "layers", wave = {},
         NEW c \in Components, Smallest(c, Components)
  PROVE  Right(ClosedWalk(c)) /\ ClosedWalk(c) \in Seq(Ids)
<1> DEFINE t == Least(c)
<1>1. PICK s \in Remaining : c = Knot(s) /\ c # {}
  BY ComponentsAre
<1>2. c \subseteq Tasks /\ c \in SUBSET Nat /\ IsFiniteSet(c)
  <2>1. c \subseteq Tasks
    BY <1>1, BehindShut DEF Knot
  <2> QED BY <2>1, TasksFinite
<1>3. t \in c /\ t \in Nat /\ t \in Tasks
  BY <1>1, <1>2, LeastIs
<1>4. Knot(t) = c /\ t \in Knot(t)
  BY <1>1, <1>3, KnotAlike
<1> HIDE DEF t
<1>5. t = Least(Knot(t))
  BY <1>4 DEF t
<1>6. PICK w : /\ ClosedWalk(c) = Append(w, t) /\ Leads(c, w) /\ Feeds(Last(w), t)
               /\ \A v : Leads(c, v) /\ Feeds(Last(v), t) => NoLater(w, v)
  BY <1>2, <1>3, <1>4, <1>5, RoundBest
<1> DEFINE z == Append(w, t)
<1>7. PICK n \in Nat : n = Len(w) /\ n >= 1
  BY <1>6 DEF Leads
<1>8. w \in Seq(c) /\ w[1] = t /\ Last(w) = w[n]
  BY <1>6, <1>7 DEF Leads, Last, t
<1>9. z \in Seq(c) /\ Len(z) = n + 1 /\ z[n + 1] = t /\ \A i \in 1 .. n : z[i] = w[i]
  BY <1>3, <1>7, <1>8
<1> HIDE DEF z
<1>10. z[1] = t /\ Len(z) - 1 = n
  <2>1. 1 \in 1 .. n
    BY <1>7
  <2> QED BY <1>8, <1>9, <2>1
<1>11. z \in ClosedWalks(t, n)
  <2>1. z \in [1 .. n + 1 -> c]
    BY <1>9
  <2>2. z \in [1 .. n + 1 -> Tasks]
    BY <1>2, <2>1
  <2>3. ASSUME NEW i \in 1 .. n PROVE Feeds(z[i], z[i + 1])
    <3>1. CASE i = n
      <4>1. n \in 1 .. n /\ z[i] = w[n] /\ z[i + 1] = t
        BY <1>7, <1>9, <3>1
      <4> QED BY <1>6, <1>8, <4>1
    <3>2. CASE i # n
      <4>1. i \in 1 .. n - 1 /\ i + 1 \in 1 .. n
        BY <3>2
      <4>2. Feeds(w[i], w[i + 1])
        BY <1>6, <1>7, <4>1 DEF Leads
      <4> QED BY <1>9, <4>1, <4>2
    <3> QED BY <3>1, <3>2
  <2> QED BY <1>9, <1>10, <2>2, <2>3 DEF ClosedWalks
<1>12. \A v \in ClosedWalks(t, n) : ~ Earlier(v, z)
  BY <1>2, <1>3, <1>4, <1>5, <1>6, <1>7, RoundsLater DEF z
<1>13. \A m \in 1 .. n - 1 : ClosedWalks(t, m) = {}
  <2> SUFFICES ASSUME NEW m \in 1 .. n - 1, NEW v \in ClosedWalks(t, m) PROVE FALSE
    OBVIOUS
  <2>1. m \in Nat /\ m >= 1 /\ ~ (n <= m)
    OBVIOUS
  <2>2. Len(w) <= m
    BY <1>2, <1>3, <1>4, <1>5, <1>6, <2>1, RoundsLater
  <2> QED BY <1>7, <2>1, <2>2
<1>14. ASSUME NEW u \in Tasks, Knot(u) # {}
       PROVE  \/ Cardinality(c) < Cardinality(Knot(u))
              \/ Cardinality(c) = Cardinality(Knot(u)) /\ t <= u
  <2>1. PICK v : v \in Knot(u)
    BY <1>14
  <2>2. v \in Behind(u) /\ u \in Behind(v)
    BY <2>1 DEF Knot
  <2>3. u \in Knot(u)
    <3>1. u \in Behind(u)
      BY <2>2, BehindMore
    <3> QED BY <3>1 DEF Knot
  <2>4. u \in Remaining
    BY <1>14, EmittedLoose, RemainingIs
  <2>5. Knot(u) \in Components
    BY <1>14, <2>4, ComponentsAre
  <2>6. Least(Knot(u)) <= u /\ Least(Knot(u)) \in Nat
    <3>1. Knot(u) \in SUBSET Nat
      <4>1. Knot(u) \subseteq Tasks
        BY BehindShut DEF Knot
      <4> QED BY <4>1, TasksFinite
    <3> QED BY <2>3, <3>1, LeastIs
  <2>7. u \in Nat
    BY TasksFinite
  <2>8. \/ Cardinality(c) < Cardinality(Knot(u))
        \/ Cardinality(c) = Cardinality(Knot(u)) /\ t <= Least(Knot(u))
    BY <2>5 DEF Smallest, t
  <2> QED BY <1>3, <2>6, <2>7, <2>8
<1>17. z # << >>
  <2>1. Len(z) # Len(<< >>)
    BY <1>9
  <2> QED BY <2>1
<1>15. Right(z)
  BY <1>17, <1>3, <1>4, <1>10, <1>11, <1>12, <1>13, <1>14 DEF Right
<1>16. z \in Seq(Ids)
  <2>1. c \subseteq Ids
    BY <1>2 DEF PlanInv, PlanShape
  <2>2. z \in [1 .. n + 1 -> c]
    BY <1>9
  <2>3. z \in [1 .. n + 1 -> Ids]
    BY <2>1, <2>2
  <2> QED BY <2>3
<1> QED BY <1>6, <1>15, <1>16 DEF z

-----------------------------------------------------------------------------
\* No task of a plan waits for itself, and the witness of a cycle is right.
CycleRight ==
  /\ verdict = "plan" => \A u \in Tasks : Knot(u) = {}
  /\ verdict = "cycle" => Right(witness)

\* CycleLeast, in the words of these proofs.
LEMMA CycleRightIs ==
  ASSUME CycleRight
  PROVE  CycleLeast
<1> DEFINE behind == [u \in Tasks |-> Behind(u)]
           knot(u) == {v \in behind[u] : u \in behind[v]}
<1>1. ASSUME NEW u \in Tasks PROVE knot(u) = Knot(u)
  <2>1. behind[u] = Behind(u) /\ Behind(u) \subseteq Tasks
    BY BehindShut
  <2>2. \A v \in Behind(u) : behind[v] = Behind(v)
    BY <2>1
  <2> HIDE DEF behind
  <2> QED BY <2>1, <2>2 DEF Knot
<1>2. verdict = "cycle" => witness[1] \in Tasks
  BY DEF CycleRight, Right
<1> HIDE DEF knot
<1>3. verdict = "plan" => \A u \in Tasks : knot(u) = {}
  BY <1>1 DEF CycleRight
<1>4. ASSUME verdict = "cycle"
      PROVE  /\ witness # << >> /\ witness \in ClosedWalks(witness[1], Len(witness) - 1)
             /\ \A w \in ClosedWalks(witness[1], Len(witness) - 1) : ~Earlier(w, witness)
             /\ \A m \in 1 .. (Len(witness) - 1) - 1 : ClosedWalks(witness[1], m) = {}
             /\ \A u \in Tasks : knot(u) # {} =>
                  \/ Cardinality(knot(witness[1])) < Cardinality(knot(u))
                  \/ Cardinality(knot(witness[1])) = Cardinality(knot(u)) /\ witness[1] <= u
  BY <1>1, <1>2, <1>4 DEF CycleRight, Right
<1> QED BY <1>3, <1>4, Zenon DEF CycleLeast, knot, behind

\* A step that changes neither the tasks nor their lists leaves the knots.
LEMMA SameKnots ==
  ASSUME depends' = depends, CycleRight, UNCHANGED <<verdict, witness>>
  PROVE  CycleRight'
<1>1. Tasks' = Tasks
  BY DEF Tasks
<1>2. \A t, u : Feeds(t, u)' <=> Feeds(t, u)
  BY DEF Feeds
<1>3. ASSUME NEW t PROVE Behind(t)' = Behind(t)
  BY <1>1, <1>2 DEF Behind
<1>4. ASSUME NEW t PROVE Knot(t)' = Knot(t)
  BY <1>3 DEF Knot
<1>5. \A t, n : ClosedWalks(t, n)' = ClosedWalks(t, n)
  BY <1>1, <1>2 DEF ClosedWalks
<1> QED BY <1>1, <1>4, <1>5 DEF CycleRight, Right, Earlier

\* Past the scan, every entry names a task.
Named == verdict = "layers" => \A t \in Tasks : \A k \in DOMAIN depends[t] : depends[t][k] \in Tasks

\* The scan lets no list pass that names no task, and no later step writes one.
LEMMA NamedNext ==
  ASSUME PlanInv, Named, [PlanNext]_planVars
  PROVE  Named'
<1>1. CASE UNCHANGED planVars
  BY <1>1 DEF planVars, Named, Tasks
<1>2. CASE Scan
  <2> SUFFICES ASSUME verdict' = "layers", NEW t \in Tasks, NEW k \in DOMAIN depends[t]
               PROVE  depends[t][k] \in Tasks
    BY <1>2 DEF Scan, Named, Tasks
  <2>1. Offending = {}
    BY <1>2 DEF Scan
  <2>2. <<t, k>> \in Entries
    BY DEF Entries
  <2>3. depends[t][k] \in Ids
    <3>1. depends[t] \in Seq(Ids)
      BY DEF PlanInv, PlanShape
    <3> QED BY <3>1
  <2> QED BY <2>1, <2>2, <2>3 DEF Offending
<1>3. CASE EmitStage
  BY <1>3 DEF EmitStage, Named, Tasks
<1>4. CASE EndPlan
  <2>1. verdict' # "layers"
    BY <1>4 DEF EndPlan
  <2> QED BY <2>1 DEF Named
<1> QED BY <1>1, <1>2, <1>3, <1>4 DEF PlanNext

\* A task that is left waits for a task that is left.
LEMMA LeftWaits ==
  ASSUME PlanInv, Named, verdict = "layers", wave = {}, NEW u \in Remaining
  PROVE  \E x \in Remaining : Feeds(x, u)
<1>1. Remaining = Tasks \ InStages /\ Ready
  BY RemainingIs DEF PlanInv
<1>2. Left(u) # {}
  BY <1>1 DEF Ready
<1>3. PICK k \in DOMAIN depends[u] : depends[u][k] \notin InStages
  BY <1>2 DEF Left
<1>4. depends[u][k] \in Tasks
  BY <1>1 DEF Named
<1> QED BY <1>1, <1>3, <1>4 DEF Feeds

\* A task with the most tasks behind it is behind itself.
LEMMA KnotLeft ==
  ASSUME PlanInv, Named, verdict = "layers", wave = {}, Remaining # {}
  PROVE  \E t \in Remaining : Knot(t) # {}
<1> DEFINE most == Cardinality(Tasks)
           Room(u) == most - Cardinality(Behind(u))
           R == {r \in Nat : \E u \in Remaining : r = Room(u)}
<1>1. \A u : /\ Behind(u) \in SUBSET Tasks /\ IsFiniteSet(Behind(u))
             /\ Cardinality(Behind(u)) \in Nat /\ Room(u) \in Nat
  <2> TAKE u
  <2>1. Behind(u) \in SUBSET Tasks
    BY BehindShut
  <2>2. IsFiniteSet(Behind(u)) /\ Cardinality(Behind(u)) \in Nat
    BY <2>1, TasksFinite
  <2>3. IsFiniteSet(Tasks) /\ most \in Nat
    BY TasksFinite
  <2>4. Cardinality(Behind(u)) <= most
    BY <2>1, <2>3, FS_Subset
  <2> HIDE DEF most
  <2>5. Room(u) \in Nat
    BY <2>2, <2>3, <2>4
  <2> QED BY <2>1, <2>2, <2>5
<1>2. PICK r \in R : \A s \in R : r <= s
  <2>1. R \subseteq Nat /\ R # {}
    <3> HIDE DEF Room
    <3> QED BY <1>1
  <2> HIDE DEF R
  <2> QED BY <2>1, LeastNumber
<1>3. PICK u \in Remaining : r = Room(u)
  BY <1>2
<1>4. PICK x \in Remaining : Feeds(x, u)
  BY LeftWaits
<1>5. u \in Tasks /\ x \in Tasks
  BY DEF Remaining
<1>6. u \in Behind(x)
  BY <1>4, <1>5, BehindShut DEF Shut
<1>7. Behind(u) \subseteq Behind(x)
  BY <1>6, BehindMore
<1>8. r <= Room(x)
  <2>1. Room(x) \in R
    <3> HIDE DEF Room
    <3> QED BY <1>1
  <2> HIDE DEF R, Room
  <2> QED BY <1>2, <2>1
<1>9. Cardinality(Behind(x)) <= Cardinality(Behind(u))
  <2>1. most \in Nat
    BY TasksFinite
  <2> HIDE DEF most
  <2> QED BY <1>1, <1>3, <1>8, <2>1
<1>10. Behind(u) = Behind(x)
  <2>1. /\ Cardinality(Behind(u)) <= Cardinality(Behind(x))
        /\ Cardinality(Behind(u)) = Cardinality(Behind(x)) => Behind(u) = Behind(x)
    BY <1>1, <1>7, FS_Subset
  <2> QED BY <1>1, <1>9, <2>1
<1>11. u \in Knot(u)
  BY <1>6, <1>10 DEF Knot
<1> QED BY <1>11

\* Of the components, one is the smallest and the first of these.
LEMMA SmallestExists ==
  ASSUME PlanInv, verdict = "layers", wave = {}, Components # {}
  PROVE  \E c \in Components : Smallest(c, Components)
<1> DEFINE C == Components
           Sizes == {n \in Nat : \E c \in C : n = Cardinality(c)}
<1>1. \A c \in C : Cardinality(c) \in Nat /\ Least(c) \in Nat
  <2> TAKE c \in C
  <2>1. PICK t \in Remaining : c = Knot(t) /\ c # {}
    BY ComponentsAre
  <2>2. c \in SUBSET Tasks
    BY <2>1, BehindShut DEF Knot
  <2>3. c \in SUBSET Nat /\ Cardinality(c) \in Nat
    BY <2>2, TasksFinite
  <2> QED BY <2>1, <2>3, LeastIs
<1>2. C # {}
  OBVIOUS
<1> HIDE DEF C
<1>3. PICK n \in Sizes : \A m \in Sizes : n <= m
  <2>1. Sizes \subseteq Nat /\ Sizes # {}
    BY <1>1, <1>2
  <2> HIDE DEF Sizes
  <2> QED BY <2>1, LeastNumber
<1> DEFINE Firsts == {m \in Nat : \E c \in C : n = Cardinality(c) /\ m = Least(c)}
<1>4. PICK l \in Firsts : \A m \in Firsts : l <= m
  <2>1. Firsts \subseteq Nat /\ Firsts # {}
    BY <1>1, <1>3
  <2> HIDE DEF Firsts
  <2> QED BY <2>1, LeastNumber
<1>5. PICK c \in C : n = Cardinality(c) /\ l = Least(c)
  BY <1>4
<1>6. ASSUME NEW d \in C
      PROVE  \/ Cardinality(c) < Cardinality(d)
             \/ Cardinality(c) = Cardinality(d) /\ Least(c) <= Least(d)
  <2>1. Cardinality(d) \in Sizes
    BY <1>1
  <2>2. n <= Cardinality(d)
    BY <1>3, <2>1
  <2>3. n = Cardinality(d) => Least(d) \in Firsts
    BY <1>1
  <2>4. n = Cardinality(d) => l <= Least(d)
    BY <1>4, <2>3
  <2>5. n \in Nat /\ Cardinality(d) \in Nat
    BY <1>1
  <2> QED BY <1>5, <2>2, <2>4, <2>5
<1>7. Smallest(c, C)
  BY <1>6 DEF Smallest
<1> QED BY <1>5, <1>7 DEF C

\* The witness when there is a component.
LEMMA SmallestCycleIs ==
  ASSUME PlanInv, verdict = "layers", wave = {}, Components # {}
  PROVE  Right(SmallestCycle) /\ SmallestCycle \in Seq(Ids)
<1> DEFINE c == CHOOSE c \in Components : Smallest(c, Components)
<1>1. c \in Components /\ Smallest(c, Components)
  <2>1. \E d \in Components : Smallest(d, Components)
    BY SmallestExists
  <2> QED BY <2>1, Zenon
<1>2. SmallestCycle = ClosedWalk(c)
  BY Zenon DEF SmallestCycle
<1> HIDE DEF c
<1> QED BY <1>1, <1>2, WitnessRight

\* Tasks that no stage has are in a component, or wait for one that is.
LEMMA SmallestCycleRight ==
  ASSUME PlanInv, Named, verdict = "layers", wave = {},
         Cardinality(InStages) # Cardinality(Tasks)
  PROVE  Right(SmallestCycle)
<1>1. InStages \subseteq Tasks
  <2>1. \A i \in DOMAIN stages : stages[i] \subseteq Tasks
    BY DEF PlanInv, PlanShape
  <2> QED BY <2>1 DEF InStages
<1>2. InStages # Tasks
  OBVIOUS
<1>3. Remaining # {}
  BY <1>1, <1>2, RemainingIs
<1>4. Components # {}
  BY <1>3, KnotLeft, ComponentsAre
<1> QED BY <1>4, SmallestCycleIs

\* A layer loop that ends tells of a cycle if there is one, and rightly.
LEMMA EndRight ==
  ASSUME PlanInv, Named, EndPlan, PlanInv'
  PROVE  CycleRight'
<1>1. depends' = depends /\ stages' = stages /\ verdict' \in {"plan", "cycle"}
      /\ verdict = "layers" /\ wave = {}
  BY DEF EndPlan
<1>2. Tasks' = Tasks /\ InStages' = InStages
  BY <1>1 DEF Tasks, InStages
<1>3. \A t, u : Feeds(t, u)' <=> Feeds(t, u)
  BY <1>1 DEF Feeds
<1>4. ASSUME NEW t PROVE Behind(t)' = Behind(t)
  BY <1>2, <1>3 DEF Behind
<1>5. ASSUME NEW t PROVE Knot(t)' = Knot(t)
  BY <1>4 DEF Knot
<1>6. \A t, n : ClosedWalks(t, n)' = ClosedWalks(t, n)
  BY <1>2, <1>3 DEF ClosedWalks
<1>7. ASSUME verdict' = "plan", NEW u \in Tasks PROVE Knot(u) = {}
  <2>1. InStages = Tasks
    BY <1>2, <1>7 DEF PlanInv, PlanLayered
  <2> QED BY <2>1, EmittedLoose
<1>8. ASSUME verdict' = "cycle" PROVE Right(witness')
  <2>1. Cardinality(InStages) # Cardinality(Tasks) /\ witness' = SmallestCycle
    BY <1>8 DEF EndPlan
  <2> QED BY <1>1, <2>1, SmallestCycleRight
<1>9. Right(witness)' <=> Right(witness')
  BY <1>2, <1>5, <1>6 DEF Right, Earlier
<1> QED BY <1>2, <1>5, <1>7, <1>8, <1>9 DEF CycleRight

\* For any tasks and any lists: a plan is only made when no task waits for
\* itself; otherwise smallest_cycle finds a component, and its witness is, of the
\* smallest knot of tasks, the first by its least task, a shortest round from
\* that task and the first of these in the order of the ids (eval/plan.rs).
THEOREM CycleLeastAlways == PlanSpec => []CycleLeast
<1> DEFINE CycleInv == PlanInv /\ Named /\ CycleRight
<1>1. PlanInit => CycleInv
  BY PlanInvInit DEF PlanInit, Named, CycleRight
<1>2. CycleInv /\ [PlanNext]_planVars => CycleInv'
  <2> SUFFICES ASSUME PlanInv, Named, CycleRight, [PlanNext]_planVars
               PROVE  PlanInv' /\ Named' /\ CycleRight'
    OBVIOUS
  <2>1. PlanInv' /\ Named'
    BY PlanInvNext, NamedNext
  <2>2. CASE UNCHANGED planVars
    BY <2>1, <2>2, SameKnots DEF planVars
  <2>3. CASE Scan
    <3>1. verdict' \notin {"plan", "cycle"}
      BY <2>3 DEF Scan
    <3> QED BY <2>1, <3>1 DEF CycleRight
  <2>4. CASE EmitStage
    <3>1. verdict' = "layers"
      BY <2>4 DEF EmitStage
    <3> QED BY <2>1, <3>1 DEF CycleRight
  <2>5. CASE EndPlan
    BY <2>1, <2>5, EndRight
  <2> QED BY <2>1, <2>2, <2>3, <2>4, <2>5 DEF PlanNext
<1>3. CycleInv => CycleLeast
  BY CycleRightIs
<1> QED BY <1>1, <1>2, <1>3, PTL DEF PlanSpec

\* The tasks an error names, and what the loop has come to.
ErrorShape ==
  /\ witness \in Seq(Ids)
  /\ verdict \in {"new", "layers", "plan", "self_loop", "missing", "cycle"}

\* Every step names tasks or ids of a list.
LEMMA ErrorShapeNext ==
  ASSUME PlanInv, ErrorShape, [PlanNext]_planVars
  PROVE  ErrorShape'
<1>1. CASE UNCHANGED planVars
  BY <1>1 DEF planVars, ErrorShape
<1>2. CASE Scan
  <2>1. CASE UNCHANGED witness
    BY <1>2, <2>1 DEF Scan, ErrorShape
  <2>2. CASE ~ UNCHANGED witness
    <3>1. PICK e \in Offending :
            /\ verdict' \in {"self_loop", "missing"}
            /\ witness' = <<e[1]>> \/ witness' = <<e[1], depends[e[1]][e[2]]>>
      BY <1>2, <2>2 DEF Scan
    <3>6. PICK t \in Tasks : e \in {t} \X DOMAIN depends[t]
      BY DEF Offending, Entries
    <3>2. PICK k \in DOMAIN depends[t] : e = <<t, k>>
      BY <3>6
    <3>3. t \in Ids /\ depends[t] \in Seq(Ids)
      BY <3>2 DEF PlanInv, PlanShape
    <3>4. depends[t][k] \in Ids
      BY <3>2, <3>3
    <3>5. witness' = <<t>> \/ witness' = <<t, depends[t][k]>>
      BY <3>1, <3>2
    <3>7. \A x, y \in Ids : <<x>> \in Seq(Ids) /\ <<x, y>> \in Seq(Ids)
      OBVIOUS
    <3>8. witness' \in Seq(Ids)
      BY <3>3, <3>4, <3>5, <3>7
    <3> QED BY <3>1, <3>8 DEF ErrorShape
  <2> QED BY <2>1, <2>2
<1>3. CASE EmitStage
  BY <1>3 DEF EmitStage, ErrorShape
<1>4. CASE EndPlan
  <2>1. witness' \in Seq(Ids)
    <3>1. \/ UNCHANGED witness
          \/ witness' = SmallestCycle /\ verdict = "layers" /\ wave = {}
      BY <1>4 DEF EndPlan
    <3>2. CASE UNCHANGED witness
      BY <3>2 DEF ErrorShape
    <3>3. CASE witness' = SmallestCycle /\ verdict = "layers" /\ wave = {}
      <4>1. CASE Components = {}
        <5>1. SmallestCycle = << >>
          BY <4>1, Zenon DEF SmallestCycle
        <5> QED BY <3>3, <5>1
      <4> QED BY <3>3, <4>1, SmallestCycleIs
    <3> QED BY <3>1, <3>2, <3>3
  <2> QED BY <1>4, <2>1 DEF EndPlan, ErrorShape
<1> QED BY <1>1, <1>2, <1>3, <1>4 DEF PlanNext

\* For any tasks and any lists: no degree falls below zero however often a list
\* repeats an id, stages hold tasks, and an error names ids.
THEOREM PlanTypeCorrect == PlanSpec => []PlanTypeOK
<1>1. PlanInit => PlanInv /\ ErrorShape
  BY PlanInvInit DEF PlanInit, ErrorShape
<1>2. PlanInv /\ ErrorShape /\ [PlanNext]_planVars => (PlanInv /\ ErrorShape)'
  BY PlanInvNext, ErrorShapeNext
<1>3. PlanInv /\ ErrorShape => PlanTypeOK
  BY DEF PlanInv, PlanShape, ErrorShape, PlanTypeOK
<1> QED BY <1>1, <1>2, <1>3, PTL DEF PlanSpec
=============================================================================
