---------------------------- MODULE QueryProofs ----------------------------
(***************************************************************************)
(* Proofs about the metadata queries, for trees of any height and any      *)
(* words: the parser reads back what the printer wrote.                    *)
(***************************************************************************)
EXTENDS MetadataQuery, Inductions

-----------------------------------------------------------------------------
(* Trees.                                                                  *)

\* What the trees of a height are, given those of the height below.
Grow(below) == Nodes({"not"}, [{1} -> below]) \cup Nodes({"and", "or"}, Seq(below))

\* A function that gives the trees of every height up to n.
GrowsTo(f, n) ==
  f = [height \in 0 .. n |->
         Leaves \cup IF height = 0 THEN {}
                     ELSE Nodes({"not"}, [{1} -> f[height - 1]])
                            \cup Nodes({"and", "or"}, Seq(f[height - 1]))]

\* The heights' trees are defined.
LEMMA TreesExist == \E f : GrowsTo(f, Height)
  <1> DEFINE T == {n \in Nat : \E f : GrowsTo(f, n)}
  <1>1. 0 \in T
    <2> DEFINE f == [height \in 0 .. 0 |-> Leaves]
    <2>1. GrowsTo(f, 0)
      BY DEF GrowsTo
    <2> HIDE DEF f
    <2> QED BY <2>1
  <1>2. ASSUME NEW n \in Nat, n \in T PROVE n + 1 \in T
    <2>1. PICK f : GrowsTo(f, n)
      BY <1>2
    <2> DEFINE new == Leaves \cup Grow(f[n])
               g == [height \in 0 .. n + 1 |-> IF height = n + 1 THEN new ELSE f[height]]
    <2>2. ASSUME NEW h \in 0 .. n + 1
          PROVE  g[h] = Leaves \cup IF h = 0 THEN {} ELSE Grow(g[h - 1])
      <3>1. CASE h = n + 1
        <4>1. h # 0 /\ h - 1 = n /\ n \in 0 .. n + 1 /\ n # n + 1
          BY <3>1
        <4>2. g[h] = new /\ g[h - 1] = f[n]
          BY <3>1, <4>1
        <4> QED BY <4>1, <4>2
      <3>2. CASE h # n + 1
        <4>1. h \in 0 .. n /\ (h # 0 => h - 1 \in 0 .. n /\ h - 1 \in 0 .. n + 1 /\ h - 1 # n + 1)
          BY <3>2
        <4>2. f[h] = Leaves \cup IF h = 0 THEN {} ELSE Grow(f[h - 1])
          BY <2>1, <4>1 DEF GrowsTo, Grow
        <4>3. g[h] = f[h] /\ (h # 0 => g[h - 1] = f[h - 1])
          BY <3>2, <4>1
        <4> QED BY <4>2, <4>3
      <3> QED BY <3>1, <3>2
    <2>3. g = [height \in 0 .. n + 1 |-> g[height]]
      OBVIOUS
    <2> HIDE DEF g
    <2>4. GrowsTo(g, n + 1)
      BY <2>2, <2>3 DEF GrowsTo, Grow
    <2> QED BY <2>4
  <1>3. Nat \subseteq T
    <2> HIDE DEF T
    <2> QED BY <1>1, <1>2, NumbersInduction
  <1> QED BY <1>3, QueryAssumption DEF QueryAssumption

\* The trees of a height are the leaves and what grows from those below.
LEMMA TreesAre ==
  ASSUME NEW h \in 0 .. Height
  PROVE  Trees[h] = Leaves \cup IF h = 0 THEN {} ELSE Grow(Trees[h - 1])
  <1>1. PICK f : GrowsTo(f, Height)
    BY TreesExist
  <1>2. GrowsTo(Trees, Height)
    BY <1>1, Zenon DEF Trees, GrowsTo
  <1> QED BY <1>2 DEF GrowsTo, Grow

\* What a tree may be, over a set of children.
IsTree(q, children) ==
  \/ q \in Leaves
  \/ q \in Nodes({"not"}, [{1} -> children])
  \/ q \in Nodes({"and", "or"}, Seq(children))

\* A tree is a leaf or has children of the height below.
LEMMA TreeIs ==
  ASSUME NEW h \in 0 .. Height, NEW q \in Trees[h]
  PROVE  \/ q \in Leaves
         \/ h # 0 /\ h - 1 \in 0 .. Height /\ IsTree(q, Trees[h - 1])
  <1>1. Trees[h] = Leaves \cup IF h = 0 THEN {} ELSE Grow(Trees[h - 1])
    BY TreesAre
  <1>2. h # 0 => h - 1 \in 0 .. Height
    BY QueryAssumption DEF QueryAssumption
  <1>3. q \in Leaves \/ (h # 0 /\ q \in Grow(Trees[h - 1]))
    BY <1>1
  <1> QED BY <1>2, <1>3 DEF Grow, IsTree

\* What has children of the height below is a tree.
LEMMA IsTreeIn ==
  ASSUME NEW h \in 1 .. Height, NEW q, IsTree(q, Trees[h - 1])
  PROVE  q \in Trees[h]
  <1>1. h \in 0 .. Height /\ h # 0
    BY QueryAssumption DEF QueryAssumption
  <1>2. Trees[h] = Leaves \cup Grow(Trees[h - 1])
    BY <1>1, TreesAre
  <1> QED BY <1>2 DEF Grow, IsTree

\* The children of a tree.
LEMMA TreeArgs ==
  ASSUME NEW children, NEW q, IsTree(q, children)
  PROVE  /\ q.args \in Seq(children) /\ DOMAIN q.args = 1 .. Len(q.args) /\ Len(q.args) \in Nat
         /\ \A i \in 1 .. Len(q.args) : q.args[i] \in children
         /\ q.kind = "not" => Len(q.args) = 1
         /\ q.kind \in {"predicate", "not", "and", "or"}
         /\ q.kind = "predicate" => q.args = << >>
  <1>1. CASE q \in Leaves
    <2>1. q.args = << >> /\ q.kind = "predicate"
      BY <1>1 DEF Leaves
    <2> QED BY <2>1
  <1>2. CASE q \in Nodes({"not"}, [{1} -> children])
    <2>1. q.args \in [{1} -> children] /\ q.kind = "not"
      BY <1>2 DEF Nodes
    <2>2. q.args \in [1 .. 1 -> children]
      <3>1. 1 .. 1 = {1}
        OBVIOUS
      <3> QED BY <2>1, <3>1
    <2>3. \A n \in Nat : \A s \in [1 .. n -> children] : s \in Seq(children) /\ Len(s) = n
      OBVIOUS
    <2>4. q.args \in Seq(children) /\ Len(q.args) = 1
      BY <2>2, <2>3
    <2> QED BY <2>1, <2>2, <2>4
  <1>3. CASE q \in Nodes({"and", "or"}, Seq(children))
    <2>1. q.args \in Seq(children) /\ q.kind \in {"and", "or"}
      BY <1>3 DEF Nodes
    <2> QED BY <2>1, LenProperties, ElementOfSeq
  <1> QED BY <1>1, <1>2, <1>3 DEF IsTree

\* More children allowed, more trees.
LEMMA IsTreeGrows ==
  ASSUME NEW A, NEW B, A \subseteq B, NEW q, IsTree(q, A)
  PROVE  IsTree(q, B)
  <1>1. [{1} -> A] \subseteq [{1} -> B] /\ Seq(A) \subseteq Seq(B)
    OBVIOUS
  <1> QED BY <1>1 DEF IsTree, Nodes

\* A tree of one height is one of the next.
LEMMA TreesGrow == \A h \in 1 .. Height : Trees[h - 1] \subseteq Trees[h]
  <1> DEFINE T == {h \in Nat : h + 1 <= Height => Trees[h] \subseteq Trees[h + 1]}
  <1> USE QueryAssumption DEF QueryAssumption
  <1>1. 0 \in T
    <2> SUFFICES ASSUME 1 <= Height PROVE Trees[0] \subseteq Trees[1]
      OBVIOUS
    <2>1. 0 \in 0 .. Height /\ 1 \in 0 .. Height
      OBVIOUS
    <2> QED BY <2>1, TreesAre
  <1>2. ASSUME NEW h \in Nat, h \in T PROVE h + 1 \in T
    <2> SUFFICES ASSUME (h + 1) + 1 <= Height, NEW q \in Trees[h + 1]
                 PROVE  q \in Trees[(h + 1) + 1]
      OBVIOUS
    <2>1. /\ h + 1 \in 0 .. Height /\ (h + 1) + 1 \in 0 .. Height /\ (h + 1) + 1 \in 1 .. Height
          /\ (h + 1) - 1 = h /\ ((h + 1) + 1) - 1 = h + 1 /\ (h + 1) + 1 # 0 /\ h + 1 # 0
      OBVIOUS
    <2>2. Trees[h] \subseteq Trees[h + 1]
      BY <1>2
    <2>3. CASE q \in Leaves
      BY <2>1, <2>3, TreesAre
    <2>4. CASE IsTree(q, Trees[(h + 1) - 1])
      <3>1. IsTree(q, Trees[h + 1])
        BY <2>1, <2>2, <2>4, IsTreeGrows
      <3> QED BY <2>1, <3>1, IsTreeIn
    <2> QED BY <2>1, <2>3, <2>4, TreeIs
  <1>3. Nat \subseteq T
    <2> HIDE DEF T
    <2> QED BY <1>1, <1>2, NumbersInduction
  <1> SUFFICES ASSUME NEW h \in 1 .. Height PROVE Trees[h - 1] \subseteq Trees[h]
    OBVIOUS
  <1>4. h - 1 \in Nat /\ (h - 1) + 1 = h
    OBVIOUS
  <1>5. h - 1 \in T
    BY <1>3, <1>4
  <1> QED BY <1>4, <1>5

\* A query's children are queries.
LEMMA QueryArgs ==
  ASSUME NEW q \in Query
  PROVE  /\ q.args \in Seq(Query) /\ DOMAIN q.args = 1 .. Len(q.args) /\ Len(q.args) \in Nat
         /\ \A i \in 1 .. Len(q.args) : q.args[i] \in Query
         /\ q.kind = "not" => Len(q.args) = 1
         /\ q.kind \in {"predicate", "not", "and", "or"}
         /\ q.kind = "predicate" => q.args = << >>
         /\ IsTree(q, Query)
  <1>1. Height \in 0 .. Height /\ (Height # 0 => Height \in 1 .. Height)
    BY QueryAssumption DEF QueryAssumption
  <1>2. IsTree(q, Query)
    <2>1. CASE q \in Leaves
      BY <2>1 DEF IsTree
    <2>2. CASE Height # 0 /\ IsTree(q, Trees[Height - 1])
      <3>1. Trees[Height - 1] \subseteq Query
        BY <1>1, <2>2, TreesGrow DEF Query
      <3> QED BY <2>2, <3>1, IsTreeGrows
    <2> QED BY <1>1, <2>1, <2>2, TreeIs DEF Query
  <1> QED BY <1>2, TreeArgs

\* Trees of every height are queries.
LEMMA TreesAreQueries == \A h \in 0 .. Height : Trees[h] \subseteq Query
  <1> DEFINE T == {d \in Nat : d <= Height => Trees[Height - d] \subseteq Query}
  <1> USE QueryAssumption DEF QueryAssumption
  <1>1. 0 \in T
    BY DEF Query
  <1>2. ASSUME NEW d \in Nat, d \in T PROVE d + 1 \in T
    <2> SUFFICES ASSUME d + 1 <= Height PROVE Trees[Height - (d + 1)] \subseteq Query
      OBVIOUS
    <2>1. Height - d \in 1 .. Height /\ (Height - d) - 1 = Height - (d + 1)
      OBVIOUS
    <2>2. Trees[Height - (d + 1)] \subseteq Trees[Height - d]
      BY <2>1, TreesGrow
    <2> QED BY <1>2, <2>2
  <1>3. Nat \subseteq T
    <2> HIDE DEF T
    <2> QED BY <1>1, <1>2, NumbersInduction
  <1> SUFFICES ASSUME NEW h \in 0 .. Height PROVE Trees[h] \subseteq Query
    OBVIOUS
  <1>4. Height - h \in Nat /\ Height - h <= Height /\ Height - (Height - h) = h
    OBVIOUS
  <1>5. Height - h \in T
    BY <1>3, <1>4
  <1> QED BY <1>4, <1>5

\* Induction for sets of trees.
LEMMA TreeInduction ==
  ASSUME NEW U,
         \A q \in Query : (\A i \in 1 .. Len(q.args) : q.args[i] \in U) => q \in U
  PROVE  Query \subseteq U
  <1> DEFINE T == {h \in Nat : h <= Height => Trees[h] \subseteq U}
  <1> USE QueryAssumption DEF QueryAssumption
  <1>1. 0 \in T
    <2> SUFFICES ASSUME NEW q \in Trees[0] PROVE q \in U
      OBVIOUS
    <2>1. q \in Query /\ q \in Leaves
      BY TreesAreQueries, TreeIs
    <2>2. q.args = << >> /\ Len(<< >>) = 0
      BY <2>1 DEF Leaves
    <2> QED BY <2>1, <2>2
  <1>2. ASSUME NEW h \in Nat, h \in T PROVE h + 1 \in T
    <2> SUFFICES ASSUME h + 1 <= Height, NEW q \in Trees[h + 1] PROVE q \in U
      OBVIOUS
    <2>1. h + 1 \in 0 .. Height /\ (h + 1) - 1 = h /\ Trees[h] \subseteq U
      BY <1>2
    <2>2. q \in Query
      BY <2>1, TreesAreQueries
    <2>3. q \in Leaves \/ IsTree(q, Trees[h])
      BY <2>1, TreeIs
    <2>4. \A i \in 1 .. Len(q.args) : q.args[i] \in U
      <3>1. CASE q \in Leaves
        <4>1. q.args = << >> /\ Len(<< >>) = 0
          BY <3>1 DEF Leaves
        <4> QED BY <4>1
      <3>2. CASE IsTree(q, Trees[h])
        BY <2>1, <3>2, TreeArgs
      <3> QED BY <2>3, <3>1, <3>2
    <2> QED BY <2>2, <2>4
  <1>3. Nat \subseteq T
    <2> HIDE DEF T
    <2> QED BY <1>1, <1>2, NumbersInduction
  <1>4. Height \in T
    BY <1>3
  <1> QED BY <1>4 DEF Query

-----------------------------------------------------------------------------
(* Recursion over trees.                                                   *)

\* A function's values for a tree's children.
Mapped(f, q) == [i \in DOMAIN q.args |-> f[q.args[i]]]

\* f is defined from its values for the children.
Recurs(f, step, S) == \A q \in S : f[q] = step[q][Mapped(f, q)]

\* Step gives a value of a tree's height from values of the height below.
StepsUp(step, V) ==
  /\ \A q \in Leaves : step[q][<< >>] \in V[0]
  /\ \A h \in 1 .. Height : \A q \in Trees[h] : \A s \in Seq(V[h - 1]) :
       Len(s) = Len(q.args) => step[q][s] \in V[h]

\* Such a function exists.
LEMMA TreeRecursion ==
  ASSUME NEW V, NEW step, StepsUp(step, V)
  PROVE  \E f \in [Query -> V[Height]] : Recurs(f, step, Query)
  <1> USE QueryAssumption DEF QueryAssumption
  <1> DEFINE Good(f, h) == f \in [Trees[h] -> V[h]] /\ Recurs(f, step, Trees[h])
             T == {h \in Nat : h <= Height => \E f : Good(f, h)}
  <1>1. 0 \in T
    <2> DEFINE f == [q \in Trees[0] |-> step[q][<< >>]]
    <2>1. ASSUME NEW q \in Trees[0]
          PROVE  f[q] \in V[0] /\ f[q] = step[q][Mapped(f, q)]
      <3>1. q \in Leaves
        BY TreeIs
      <3>2. q.args = << >>
        BY <3>1 DEF Leaves
      <3>3. Mapped(f, q) = << >>
        <4> HIDE DEF f
        <4> QED BY <3>2 DEF Mapped
      <3>4. f[q] = step[q][<< >>]
        OBVIOUS
      <3> HIDE DEF f
      <3> QED BY <3>1, <3>3, <3>4 DEF StepsUp
    <2>2. f = [q \in Trees[0] |-> f[q]]
      OBVIOUS
    <2> HIDE DEF f
    <2>3. Good(f, 0)
      BY <2>1, <2>2 DEF Recurs
    <2> HIDE DEF Good
    <2> QED BY <2>3
  <1>2. ASSUME NEW h \in Nat, h \in T PROVE h + 1 \in T
    <2> SUFFICES ASSUME h + 1 <= Height PROVE \E f : Good(f, h + 1)
      OBVIOUS
    <2>1. PICK g : Good(g, h)
      BY <1>2
    <2>2. /\ h + 1 \in 1 .. Height /\ h + 1 \in 0 .. Height /\ (h + 1) - 1 = h
          /\ Trees[h] \subseteq Trees[h + 1]
      BY TreesGrow
    <2> DEFINE f == [q \in Trees[h + 1] |-> step[q][Mapped(g, q)]]
    <2>3. ASSUME NEW q \in Trees[h + 1]
          PROVE  /\ DOMAIN q.args = 1 .. Len(q.args) /\ Len(q.args) \in Nat
                 /\ \A i \in 1 .. Len(q.args) : q.args[i] \in Trees[h]
      <3>1. CASE q \in Leaves
        <4>1. q.args = << >>
          BY <3>1 DEF Leaves
        <4> QED BY <4>1
      <3>2. CASE IsTree(q, Trees[h])
        BY <3>2, TreeArgs
      <3> QED BY <2>2, <3>1, <3>2, TreeIs
    <2>4. ASSUME NEW q \in Trees[h + 1] PROVE f[q] \in V[h + 1]
      <3>1. Mapped(g, q) \in [1 .. Len(q.args) -> V[h]]
        BY <2>1, <2>3 DEF Mapped
      <3>2. Mapped(g, q) \in Seq(V[h]) /\ Len(Mapped(g, q)) = Len(q.args)
        BY <2>3, <3>1
      <3> QED BY <2>2, <3>2 DEF StepsUp
    <2>5. \A q \in Trees[h + 1] : f[q] = step[q][Mapped(g, q)]
      OBVIOUS
    <2>6. f = [q \in Trees[h + 1] |-> f[q]]
      OBVIOUS
    <2> HIDE DEF f
    <2>7. ASSUME NEW c \in Trees[h] PROVE f[c] = g[c]
      BY <2>1, <2>2, <2>5 DEF Recurs
    <2>8. ASSUME NEW q \in Trees[h + 1] PROVE Mapped(f, q) = Mapped(g, q)
      BY <2>3, <2>7 DEF Mapped
    <2>9. Good(f, h + 1)
      BY <2>4, <2>5, <2>6, <2>8 DEF Recurs
    <2> HIDE DEF Good
    <2> QED BY <2>9
  <1>3. Nat \subseteq T
    <2> HIDE DEF T
    <2> QED BY <1>1, <1>2, NumbersInduction
  <1>4. \E f : Good(f, Height)
    BY <1>3
  <1> QED BY <1>4 DEF Query

\* Step gives a value in W for a tree from such values of its children.
StepsIn(step, W) ==
  \A q \in Query : \A s \in Seq(W) : Len(s) = Len(q.args) => step[q][s] \in W

\* The same when all values are of one set.
LEMMA ValueRecursion ==
  ASSUME NEW W, NEW step, StepsIn(step, W)
  PROVE  \E f \in [Query -> W] : Recurs(f, step, Query)
  <1> USE QueryAssumption DEF QueryAssumption
  <1> DEFINE V == [h \in 0 .. Height |-> W]
  <1>1. ASSUME NEW q \in Leaves PROVE step[q][<< >>] \in V[0]
    <2>1. q \in Query /\ q.args = << >> /\ << >> \in Seq(W)
      <3>1. q \in Trees[0] /\ 0 \in 0 .. Height
        BY TreesAre
      <3> QED BY <3>1, TreesAreQueries DEF Leaves
    <2>2. step[q][<< >>] \in W
      <3> HIDE DEF V
      <3> QED BY <2>1 DEF StepsIn
    <2>3. V[0] = W
      OBVIOUS
    <2> QED BY <2>2, <2>3
  <1>2. ASSUME NEW h \in 1 .. Height, NEW q \in Trees[h], NEW s \in Seq(V[h - 1]),
               Len(s) = Len(q.args)
        PROVE  step[q][s] \in V[h]
    <2>1. h \in 0 .. Height /\ h - 1 \in 0 .. Height
      OBVIOUS
    <2>2. q \in Query /\ s \in Seq(W)
      BY <2>1, TreesAreQueries
    <2> QED BY <1>2, <2>1, <2>2 DEF StepsIn
  <1>3. StepsUp(step, V)
    BY <1>1, <1>2 DEF StepsUp
  <1>4. V[Height] = W
    OBVIOUS
  <1> HIDE DEF V
  <1> QED BY <1>3, <1>4, TreeRecursion

\* What is mapped over a tree's children.
LEMMA MappedIs ==
  ASSUME NEW W, NEW f \in [Query -> W], NEW q \in Query
  PROVE  /\ Mapped(f, q) \in Seq(W) /\ Len(Mapped(f, q)) = Len(q.args)
         /\ \A i \in 1 .. Len(q.args) : Mapped(f, q)[i] = f[q.args[i]]
  <1>1. /\ \A i \in 1 .. Len(q.args) : q.args[i] \in Query
        /\ DOMAIN q.args = 1 .. Len(q.args) /\ Len(q.args) \in Nat
    BY QueryArgs
  <1>2. Mapped(f, q) \in [1 .. Len(q.args) -> W]
    BY <1>1 DEF Mapped
  <1> QED BY <1>1, <1>2 DEF Mapped

\* A function defined from its values for children has its values in W.
LEMMA RecursionType ==
  ASSUME NEW W, NEW step, StepsIn(step, W), NEW f, f = [q \in Query |-> f[q]],
         \A q \in Query : Mapped(f, q) \in Seq(W) => f[q] = step[q][Mapped(f, q)]
  PROVE  f \in [Query -> W]
  <1> DEFINE U == {q \in Query : f[q] \in W}
  <1>1. ASSUME NEW q \in Query, \A i \in 1 .. Len(q.args) : q.args[i] \in U
        PROVE  q \in U
    <2>1. /\ \A i \in 1 .. Len(q.args) : f[q.args[i]] \in W
          /\ DOMAIN q.args = 1 .. Len(q.args) /\ Len(q.args) \in Nat
      BY <1>1, QueryArgs
    <2>2. Mapped(f, q) \in [1 .. Len(q.args) -> W]
      BY <2>1 DEF Mapped
    <2>3. Mapped(f, q) \in Seq(W) /\ Len(Mapped(f, q)) = Len(q.args)
      BY <2>1, <2>2
    <2> QED BY <2>3 DEF StepsIn
  <1>2. Query \subseteq U
    <2> HIDE DEF U
    <2> QED BY <1>1, TreeInduction
  <1> QED BY <1>2

-----------------------------------------------------------------------------
(* The trees within a tree.                                                *)

\* Subtrees is defined.
LEMMA SubtreesAre ==
  /\ Subtrees \in [Query -> SUBSET Query]
  /\ \A q \in Query :
       Subtrees[q] = {q} \cup UNION {Subtrees[q.args[i]] : i \in DOMAIN q.args}
  <1> DEFINE W == SUBSET Query
             step == [q \in Query |-> [s \in Seq(W) |-> {q} \cup UNION {s[i] : i \in DOMAIN s}]]
  <1>1. ASSUME NEW q \in Query, NEW s \in Seq(W)
        PROVE  step[q][s] \in W /\ step[q][s] = {q} \cup UNION {s[i] : i \in DOMAIN s}
    <2>1. step[q][s] = {q} \cup UNION {s[i] : i \in DOMAIN s}
      OBVIOUS
    <2>2. \A i \in DOMAIN s : s[i] \subseteq Query
      OBVIOUS
    <2> QED BY <2>1, <2>2
  <1> HIDE DEF step
  <1>2. StepsIn(step, W)
    BY <1>1 DEF StepsIn
  <1> HIDE DEF W
  <1>3. ASSUME NEW q \in Query, NEW f, Mapped(f, q) \in Seq(W)
        PROVE  step[q][Mapped(f, q)] = {q} \cup UNION {f[q.args[i]] : i \in DOMAIN q.args}
    <2>1. step[q][Mapped(f, q)]
            = {q} \cup UNION {Mapped(f, q)[i] : i \in DOMAIN Mapped(f, q)}
      BY <1>1, <1>3
    <2> QED BY <2>1 DEF Mapped
  <1>4. PICK f \in [Query -> W] : Recurs(f, step, Query)
    BY <1>2, ValueRecursion
  <1>5. f = [q \in Query |-> {q} \cup UNION {f[q.args[i]] : i \in DOMAIN q.args}]
    BY <1>3, <1>4, MappedIs DEF Recurs
  <1>6. Subtrees = [q \in Query |-> {q} \cup UNION {Subtrees[q.args[i]] : i \in DOMAIN q.args}]
    BY <1>5, Zenon DEF Subtrees
  <1>7. ASSUME NEW q \in Query
        PROVE  Subtrees[q] = {q} \cup UNION {Subtrees[q.args[i]] : i \in DOMAIN q.args}
    BY <1>6, Zenon
  <1>8. Subtrees \in [Query -> W]
    <2>1. Subtrees = [q \in Query |-> Subtrees[q]]
      BY <1>6, Zenon
    <2>2. \A q \in Query : Mapped(Subtrees, q) \in Seq(W)
                              => Subtrees[q] = step[q][Mapped(Subtrees, q)]
      BY <1>3, <1>7, Zenon
    <2> QED BY <1>2, <2>1, <2>2, RecursionType
  <1> QED BY <1>7, <1>8 DEF W

-----------------------------------------------------------------------------
(* Well-formed trees: no group is empty, no key spells a keyword in        *)
(* capitals, every operator can be read.                                   *)

WellFormed(q) == ~HasEmptyGroup(q) /\ Faithful(q)

\* The trees within a child are within the tree.
LEMMA SubtreesOfArgs ==
  ASSUME NEW q \in Query
  PROVE  /\ q \in Subtrees[q]
         /\ \A i \in 1 .. Len(q.args) : Subtrees[q.args[i]] \subseteq Subtrees[q]
  <1>1. DOMAIN q.args = 1 .. Len(q.args)
    BY QueryArgs
  <1>2. Subtrees[q] = {q} \cup UNION {Subtrees[q.args[i]] : i \in DOMAIN q.args}
    BY SubtreesAre
  <1> QED BY <1>1, <1>2

\* The children of a well-formed tree are well-formed, and a group has some.
LEMMA WellFormedArgs ==
  ASSUME NEW q \in Query, WellFormed(q)
  PROVE  /\ \A i \in 1 .. Len(q.args) : WellFormed(q.args[i])
         /\ q.kind # "predicate" => 1 <= Len(q.args)
         /\ \A i \in DOMAIN q.field.key : q.field.key[i] \notin Capitals
         /\ q.op \notin LostOperators
  <1>1. \A i \in 1 .. Len(q.args) : WellFormed(q.args[i])
    BY SubtreesOfArgs DEF WellFormed, HasEmptyGroup, Faithful
  <1>2. q.kind # "predicate" => q.args # << >>
    <2>1. q.kind = "not" => Len(q.args) = 1
      BY QueryArgs
    <2>2. q.kind \in {"and", "or"} => q.args # << >>
      BY SubtreesOfArgs DEF WellFormed, HasEmptyGroup
    <2>3. q.kind \in {"predicate", "not", "and", "or"} /\ Len(<< >>) = 0
      BY QueryArgs
    <2> QED BY <2>1, <2>2, <2>3
  <1>3. q.kind # "predicate" => 1 <= Len(q.args)
    <2>1. q.args \in Seq(Query) /\ Len(q.args) \in Nat
      BY QueryArgs
    <2>2. q.args # << >> => Len(q.args) \in Nat \ {0}
      BY <2>1, EmptySeq
    <2> QED BY <1>2, <2>2
  <1>4. q.op \notin LostOperators /\ \A i \in DOMAIN q.field.key : q.field.key[i] \notin Capitals
    BY SubtreesOfArgs DEF WellFormed, Faithful
  <1> QED BY <1>1, <1>3, <1>4

-----------------------------------------------------------------------------
(* Depth.                                                                  *)

\* The numbers in a sequence, and zero.
Values(s) == {0} \cup {s[i] : i \in DOMAIN s}

\* The greatest of them.
LEMMA GreatestValue ==
  ASSUME NEW s \in Seq(Nat)
  PROVE  /\ Max(Values(s)) \in Nat
         /\ \A i \in 1 .. Len(s) : s[i] <= Max(Values(s))
         /\ \A b \in Nat : (\A i \in 1 .. Len(s) : s[i] <= b) => Max(Values(s)) <= b
  <1> DEFINE T == {t \in Seq(Nat) : \E x \in Values(t) : \A y \in Values(t) : x >= y}
  <1>1. << >> \in T
    <2>1. Values(<< >>) = {0}
      BY DEF Values
    <2>2. << >> \in Seq(Nat) /\ 0 \in Values(<< >>) /\ \A y \in Values(<< >>) : 0 >= y
      BY <2>1
    <2> QED BY <2>2
  <1>2. ASSUME NEW t \in Seq(Nat), NEW e \in Nat, t \in T PROVE Append(t, e) \in T
    <2>1. PICK x \in Values(t) : \A y \in Values(t) : x >= y
      BY <1>2
    <2> DEFINE u == Append(t, e)
    <2>2. u \in Seq(Nat) /\ Len(t) \in Nat /\ Len(u) = Len(t) + 1 /\ u[Len(t) + 1] = e
          /\ DOMAIN u = 1 .. Len(t) + 1 /\ DOMAIN t = 1 .. Len(t)
          /\ \A i \in 1 .. Len(t) : u[i] = t[i] /\ t[i] \in Nat
      OBVIOUS
    <2> HIDE DEF u
    <2>3. Values(u) = Values(t) \cup {e}
      <3>1. \A i \in DOMAIN u : u[i] \in Values(t) \cup {e}
        <4> SUFFICES ASSUME NEW i \in DOMAIN u PROVE u[i] \in Values(t) \cup {e}
          OBVIOUS
        <4>1. i \in 1 .. Len(t) \/ i = Len(t) + 1
          BY <2>2
        <4> QED BY <2>2, <4>1 DEF Values
      <3>2. \A i \in DOMAIN t : i \in DOMAIN u /\ u[i] = t[i]
        BY <2>2
      <3>3. Len(t) + 1 \in DOMAIN u
        BY <2>2
      <3> QED BY <2>2, <3>1, <3>2, <3>3 DEF Values
    <2>4. x \in Nat /\ \A y \in Values(t) : y \in Nat
      BY <2>2 DEF Values
    <2>5. \E z \in Values(u) : \A y \in Values(u) : z >= y
      <3>1. CASE x >= e
        BY <2>1, <2>3, <3>1
      <3>2. CASE ~(x >= e)
        <4>1. \A y \in Values(t) : e >= y
          BY <2>1, <2>4, <3>2
        <4>2. e >= e
          OBVIOUS
        <4> QED BY <2>3, <4>1, <4>2
      <3> QED BY <3>1, <3>2
    <2> QED BY <2>2, <2>5 DEF u
  <1>3. Seq(Nat) \subseteq T
    <2> HIDE DEF T
    <2> QED BY <1>1, <1>2, SequencesInduction
  <1>4. PICK x \in Values(s) : \A y \in Values(s) : x >= y
    BY <1>3
  <1> DEFINE m == Max(Values(s))
  <1>5. m \in Values(s) /\ \A y \in Values(s) : m >= y
    BY <1>4, Zenon DEF Max
  <1> HIDE DEF m
  <1>6. DOMAIN s = 1 .. Len(s) /\ \A i \in 1 .. Len(s) : s[i] \in Nat
    OBVIOUS
  <1>7. m \in Nat /\ \A i \in 1 .. Len(s) : s[i] <= m
    BY <1>5, <1>6 DEF Values
  <1>8. ASSUME NEW b \in Nat, \A i \in 1 .. Len(s) : s[i] <= b PROVE m <= b
    BY <1>5, <1>6, <1>8 DEF Values
  <1> QED BY <1>7, <1>8 DEF m

\* Depth is defined.
LEMMA DepthIs ==
  /\ Depth \in [Query -> Nat]
  /\ \A q \in Query : Depth[q] = 1 + Max(Values(Mapped(Depth, q)))
  <1> DEFINE step == [q \in Query |-> [s \in Seq(Nat) |-> 1 + Max(Values(s))]]
  <1>1. ASSUME NEW q \in Query, NEW s \in Seq(Nat)
        PROVE  step[q][s] \in Nat /\ step[q][s] = 1 + Max(Values(s))
    BY GreatestValue
  <1> HIDE DEF step
  <1>2. StepsIn(step, Nat)
    BY <1>1 DEF StepsIn
  <1>3. ASSUME NEW q \in Query, NEW g
        PROVE  1 + Max(Values(Mapped(g, q)))
                 = 1 + Max({0} \cup {g[q.args[i]] : i \in DOMAIN q.args})
    <2>1. Values(Mapped(g, q)) = {0} \cup {g[q.args[i]] : i \in DOMAIN q.args}
      BY DEF Values, Mapped
    <2> QED BY <2>1, Zenon
  <1>4. PICK f \in [Query -> Nat] : Recurs(f, step, Query)
    BY <1>2, ValueRecursion
  <1>5. f = [q \in Query |-> 1 + Max({0} \cup {f[q.args[i]] : i \in DOMAIN q.args})]
    <2>1. ASSUME NEW q \in Query
          PROVE  f[q] = 1 + Max({0} \cup {f[q.args[i]] : i \in DOMAIN q.args})
      <3>1. f[q] = 1 + Max(Values(Mapped(f, q)))
        BY <1>1, <1>4, MappedIs DEF Recurs
      <3> QED BY <1>3, <3>1, Zenon
    <2> QED BY <2>1
  <1>6. Depth = [q \in Query |-> 1 + Max({0} \cup {Depth[q.args[i]] : i \in DOMAIN q.args})]
    BY <1>5, Zenon DEF Depth
  <1>7. ASSUME NEW q \in Query PROVE Depth[q] = 1 + Max(Values(Mapped(Depth, q)))
    <2>1. Depth[q] = 1 + Max({0} \cup {Depth[q.args[i]] : i \in DOMAIN q.args})
      BY <1>6, Zenon
    <2> QED BY <1>3, <2>1, Zenon
  <1>8. Depth \in [Query -> Nat]
    <2>1. Depth = [q \in Query |-> Depth[q]]
      BY <1>6, Zenon
    <2>2. \A q \in Query : Mapped(Depth, q) \in Seq(Nat) => Depth[q] = step[q][Mapped(Depth, q)]
      BY <1>1, <1>7
    <2> QED BY <1>2, <2>1, <2>2, RecursionType
  <1> QED BY <1>7, <1>8

\* A tree is deeper than its children, and no deeper than they require.
LEMMA DepthBounds ==
  ASSUME NEW q \in Query
  PROVE  /\ Depth[q] \in Nat /\ 1 <= Depth[q]
         /\ \A i \in 1 .. Len(q.args) : Depth[q.args[i]] \in Nat /\ Depth[q.args[i]] + 1 <= Depth[q]
         /\ \A b \in Nat : (\A i \in 1 .. Len(q.args) : Depth[q.args[i]] <= b) => Depth[q] <= b + 1
  <1> DEFINE s == Mapped(Depth, q)
             m == Max(Values(s))
  <1>1. /\ s \in Seq(Nat) /\ Len(s) = Len(q.args)
        /\ \A i \in 1 .. Len(q.args) : s[i] = Depth[q.args[i]]
    BY DepthIs, MappedIs
  <1>2. Depth[q] = 1 + m
    BY DepthIs
  <1> HIDE DEF s
  <1>3. /\ m \in Nat
        /\ \A i \in 1 .. Len(s) : s[i] <= m
        /\ \A b \in Nat : (\A i \in 1 .. Len(s) : s[i] <= b) => m <= b
    BY <1>1, GreatestValue
  <1>4. \A i \in 1 .. Len(q.args) : Depth[q.args[i]] \in Nat
    BY DepthIs, QueryArgs
  <1> HIDE DEF m
  <1>5. Depth[q] \in Nat /\ 1 <= Depth[q]
    BY <1>2, <1>3
  <1>6. \A i \in 1 .. Len(q.args) : Depth[q.args[i]] + 1 <= Depth[q]
    <2> SUFFICES ASSUME NEW i \in 1 .. Len(q.args) PROVE Depth[q.args[i]] + 1 <= Depth[q]
      OBVIOUS
    <2>1. s[i] <= m /\ s[i] = Depth[q.args[i]] /\ Depth[q.args[i]] \in Nat
      BY <1>1, <1>3, <1>4
    <2> QED BY <1>2, <1>3, <2>1
  <1>7. ASSUME NEW b \in Nat, \A i \in 1 .. Len(q.args) : Depth[q.args[i]] <= b
        PROVE  Depth[q] <= b + 1
    <2>1. m <= b
      BY <1>1, <1>3, <1>7
    <2> QED BY <1>2, <1>3, <2>1
  <1> QED BY <1>4, <1>5, <1>6, <1>7

-----------------------------------------------------------------------------
(* The predicates of a tree.                                               *)

\* Predicates is defined.
LEMMA PredicatesAre ==
  /\ Predicates \in [Query -> Seq(Query)]
  /\ \A q \in Query :
       Predicates[q] = IF q.kind = "predicate" THEN <<q>>
                       ELSE FlattenSeq(Mapped(Predicates, q))
  <1> DEFINE W == Seq(Query)
             step == [q \in Query |-> [s \in Seq(W) |->
                        IF q.kind = "predicate" THEN <<q>> ELSE FlattenSeq(s)]]
  <1>1. ASSUME NEW q \in Query, NEW s \in Seq(W)
        PROVE  /\ step[q][s] \in W
               /\ step[q][s] = IF q.kind = "predicate" THEN <<q>> ELSE FlattenSeq(s)
    <2>1. <<q>> \in W
      OBVIOUS
    <2>2. FlattenSeq(s) \in W
      BY FlattenType
    <2> QED BY <2>1, <2>2
  <1> HIDE DEF step
  <1>2. StepsIn(step, W)
    BY <1>1 DEF StepsIn
  <1> HIDE DEF W
  <1>4. PICK f \in [Query -> W] : Recurs(f, step, Query)
    BY <1>2, ValueRecursion
  <1>5. f = [q \in Query |-> IF q.kind = "predicate" THEN <<q>>
                             ELSE FlattenSeq([i \in DOMAIN q.args |-> f[q.args[i]]])]
    <2>1. ASSUME NEW q \in Query
          PROVE  f[q] = IF q.kind = "predicate" THEN <<q>>
                        ELSE FlattenSeq([i \in DOMAIN q.args |-> f[q.args[i]]])
      <3>1. f[q] = IF q.kind = "predicate" THEN <<q>> ELSE FlattenSeq(Mapped(f, q))
        BY <1>1, <1>4, MappedIs DEF Recurs
      <3> QED BY <3>1, Zenon DEF Mapped
    <2> QED BY <2>1
  <1>6. Predicates = [q \in Query |-> IF q.kind = "predicate" THEN <<q>>
                        ELSE FlattenSeq([i \in DOMAIN q.args |-> Predicates[q.args[i]]])]
    BY <1>5, Zenon DEF Predicates
  <1>7. ASSUME NEW q \in Query
        PROVE  Predicates[q] = IF q.kind = "predicate" THEN <<q>>
                               ELSE FlattenSeq(Mapped(Predicates, q))
    BY <1>6, Zenon DEF Mapped
  <1>8. Predicates \in [Query -> W]
    <2>1. Predicates = [q \in Query |-> Predicates[q]]
      BY <1>6, Zenon
    <2>2. \A q \in Query : Mapped(Predicates, q) \in Seq(W)
                              => Predicates[q] = step[q][Mapped(Predicates, q)]
      BY <1>1, <1>7
    <2> QED BY <1>2, <2>1, <2>2, RecursionType
  <1> QED BY <1>7, <1>8 DEF W

-----------------------------------------------------------------------------
(* Groups of one.                                                          *)

\* A tree with other children, a group of one as its child.
Collapse(q, s) ==
  IF q.kind \in {"and", "or"} /\ Len(s) = 1 THEN s[1] ELSE [q EXCEPT !.args = s]

\* The result is no higher.
LEMMA CollapseType ==
  ASSUME NEW h \in 0 .. Height, NEW q \in Trees[h],
         NEW s \in Seq(IF h = 0 THEN {} ELSE Trees[h - 1]), Len(s) = Len(q.args)
  PROVE  Collapse(q, s) \in Trees[h]
  <1> DEFINE new == [q EXCEPT !.args = s]
  <1> USE QueryAssumption DEF QueryAssumption
  <1>1. CASE q \in Leaves
    <2>1. q.args = << >> /\ q.kind = "predicate" /\ s = << >>
      <3>1. q.args = << >> /\ q.kind = "predicate" /\ Len(<< >>) = 0
        BY <1>1 DEF Leaves
      <3> QED BY <3>1, EmptySeq
    <2>2. new \in Leaves
      BY <1>1, <2>1 DEF Leaves
    <2> QED BY <2>1, <2>2, TreesAre DEF Collapse
  <1>2. CASE h # 0 /\ h - 1 \in 0 .. Height /\ IsTree(q, Trees[h - 1]) /\ q \notin Leaves
    <2>1. s \in Seq(Trees[h - 1]) /\ h \in 1 .. Height
      BY <1>2
    <2>2. CASE q.kind \in {"and", "or"} /\ Len(s) = 1
      <3>1. s[1] \in Trees[h - 1]
        <4>1. 1 \in 1 .. Len(s)
          BY <2>2
        <4> QED BY <2>1, <4>1, ElementOfSeq
      <3>2. s[1] \in Trees[h]
        BY <2>1, <3>1, TreesGrow
      <3> QED BY <2>2, <3>2 DEF Collapse
    <2>3. CASE ~(q.kind \in {"and", "or"} /\ Len(s) = 1)
      <3>1. CASE q \in Nodes({"not"}, [{1} -> Trees[h - 1]])
        <4>1. Len(s) = 1
          BY <1>2, TreeArgs, <3>1 DEF Nodes
        <4>2. s \in [1 .. 1 -> Trees[h - 1]] /\ 1 .. 1 = {1}
          <5>1. s \in [1 .. Len(s) -> Trees[h - 1]]
            BY <2>1, LenProperties
          <5>2. 1 .. 1 = {1}
            OBVIOUS
          <5> QED BY <4>1, <5>1, <5>2
        <4>3. new \in Nodes({"not"}, [{1} -> Trees[h - 1]])
          BY <3>1, <4>2 DEF Nodes
        <4> QED BY <2>1, <2>3, <4>3, IsTreeIn DEF IsTree, Collapse
      <3>2. CASE q \in Nodes({"and", "or"}, Seq(Trees[h - 1]))
        <4>1. new \in Nodes({"and", "or"}, Seq(Trees[h - 1]))
          BY <2>1, <3>2 DEF Nodes
        <4> QED BY <2>1, <2>3, <4>1, IsTreeIn DEF IsTree, Collapse
      <3> QED BY <1>2, <3>1, <3>2 DEF IsTree
    <2> QED BY <2>2, <2>3
  <1> QED BY <1>1, <1>2, TreeIs

\* Collapsed is defined.
LEMMA CollapsedIs ==
  /\ Collapsed \in [Query -> Query]
  /\ \A q \in Query : Collapsed[q] = Collapse(q, Mapped(Collapsed, q))
  <1> USE QueryAssumption DEF QueryAssumption
  <1> DEFINE step == [q \in Query |-> [s \in Seq(Query) |-> Collapse(q, s)]]
  <1>1. ASSUME NEW q \in Query, NEW s \in Seq(Query) PROVE step[q][s] = Collapse(q, s)
    OBVIOUS
  <1> HIDE DEF step
  <1>2. StepsUp(step, Trees)
    <2>1. ASSUME NEW q \in Leaves PROVE step[q][<< >>] \in Trees[0]
      <3>1. q \in Trees[0] /\ 0 \in 0 .. Height /\ Len(<< >>) = Len(q.args)
        BY TreesAre DEF Leaves
      <3>2. << >> \in Seq(IF 0 = 0 THEN {} ELSE Trees[0 - 1]) /\ << >> \in Seq(Query)
        OBVIOUS
      <3>3. Collapse(q, << >>) \in Trees[0]
        BY <3>1, <3>2, CollapseType
      <3>4. q \in Query
        BY <3>1, TreesAreQueries
      <3> QED BY <1>1, <3>2, <3>3, <3>4
    <2>2. ASSUME NEW h \in 1 .. Height, NEW q \in Trees[h], NEW s \in Seq(Trees[h - 1]),
                 Len(s) = Len(q.args)
          PROVE  step[q][s] \in Trees[h]
      <3>1. h \in 0 .. Height /\ h - 1 \in 0 .. Height /\ h # 0
        OBVIOUS
      <3>2. s \in Seq(IF h = 0 THEN {} ELSE Trees[h - 1])
        BY <3>1
      <3>3. Collapse(q, s) \in Trees[h]
        BY <2>2, <3>1, <3>2, CollapseType
      <3>4. q \in Query /\ Trees[h - 1] \subseteq Query
        BY <3>1, TreesAreQueries
      <3>5. s \in Seq(Query)
        BY <3>4, SeqMonotonic
      <3> QED BY <1>1, <3>3, <3>4, <3>5
    <2> QED BY <2>1, <2>2 DEF StepsUp
  <1>3. PICK f \in [Query -> Trees[Height]] : Recurs(f, step, Query)
    BY <1>2, TreeRecursion
  <1>4. f \in [Query -> Query]
    BY <1>3 DEF Query
  <1>5. ASSUME NEW q \in Query PROVE f[q] = Collapse(q, Mapped(f, q))
    BY <1>1, <1>3, <1>4, MappedIs DEF Recurs
  <1>6. f = [q \in Query |->
               LET args == [i \in DOMAIN q.args |-> f[q.args[i]]]
               IN  IF q.kind \in {"and", "or"} /\ Len(args) = 1 THEN args[1]
                   ELSE [q EXCEPT !.args = args]]
    <2>1. ASSUME NEW q \in Query
          PROVE  f[q] = LET args == [i \in DOMAIN q.args |-> f[q.args[i]]]
                        IN  IF q.kind \in {"and", "or"} /\ Len(args) = 1 THEN args[1]
                            ELSE [q EXCEPT !.args = args]
      BY <1>5, Zenon DEF Collapse, Mapped
    <2> QED BY <1>4, <2>1
  <1>7. Collapsed = [q \in Query |->
               LET args == [i \in DOMAIN q.args |-> Collapsed[q.args[i]]]
               IN  IF q.kind \in {"and", "or"} /\ Len(args) = 1 THEN args[1]
                   ELSE [q EXCEPT !.args = args]]
    BY <1>6, Zenon DEF Collapsed
  <1>8. ASSUME NEW q \in Query PROVE Collapsed[q] = Collapse(q, Mapped(Collapsed, q))
    BY <1>7, Zenon DEF Collapse, Mapped
  <1>9. \A q \in Query : Collapsed[q] = f[q]
    <2> DEFINE U == {q \in Query : Collapsed[q] = f[q]}
    <2>1. ASSUME NEW q \in Query, \A i \in 1 .. Len(q.args) : q.args[i] \in U PROVE q \in U
      <3>1. Mapped(Collapsed, q) = Mapped(f, q)
        BY <2>1, QueryArgs DEF Mapped
      <3> QED BY <1>5, <1>8, <3>1
    <2>2. Query \subseteq U
      <3> HIDE DEF U
      <3> QED BY <2>1, TreeInduction
    <2> QED BY <2>2
  <1>10. Collapsed = [q \in Query |-> Collapsed[q]]
    BY <1>7, Zenon
  <1> QED BY <1>4, <1>8, <1>9, <1>10

\* A collapsed tree is its only child's, or has its own kind and its children's.
LEMMA CollapsedCases ==
  ASSUME NEW q \in Query
  PROVE  /\ Collapsed[q] \in Query
         /\ \/ /\ q.kind \in {"and", "or"} /\ Len(q.args) = 1 /\ q.args[1] \in Query
               /\ Collapsed[q] = Collapsed[q.args[1]]
            \/ /\ ~(q.kind \in {"and", "or"} /\ Len(q.args) = 1)
               /\ Collapsed[q].kind = q.kind /\ Len(Collapsed[q].args) = Len(q.args)
               /\ \A i \in 1 .. Len(q.args) : Collapsed[q].args[i] = Collapsed[q.args[i]]
               /\ Collapsed[q] = [q EXCEPT !.args = Collapsed[q].args]
               /\ q.kind = "predicate" => Collapsed[q] = q
  <1> DEFINE s == Mapped(Collapsed, q)
             new == [q EXCEPT !.args = s]
  <1>1. Collapsed[q] = Collapse(q, s) /\ Collapsed[q] \in Query
    BY CollapsedIs
  <1>2. /\ s \in Seq(Query) /\ Len(s) = Len(q.args)
        /\ \A i \in 1 .. Len(q.args) : s[i] = Collapsed[q.args[i]]
    BY CollapsedIs, MappedIs
  <1>3. /\ \A i \in 1 .. Len(q.args) : q.args[i] \in Query
        /\ q.kind = "predicate" => q.args = << >>
        /\ IsTree(q, Query)
    BY QueryArgs
  <1>4. /\ new.kind = q.kind /\ new.args = s /\ new = [q EXCEPT !.args = new.args]
        /\ s = q.args => new = q
    <2>1. q = [kind |-> q.kind, field |-> q.field, op |-> q.op, args |-> q.args]
      <3>1. CASE q \in Leaves
        BY <3>1 DEF Leaves
      <3>2. CASE q \in Nodes({"not"}, [{1} -> Query])
        BY <3>2 DEF Nodes
      <3>3. CASE q \in Nodes({"and", "or"}, Seq(Query))
        BY <3>3 DEF Nodes
      <3> QED BY <1>3, <3>1, <3>2, <3>3 DEF IsTree
    <2> HIDE DEF s
    <2> QED BY <2>1
  <1>5. q.kind = "predicate" => s = q.args
    <2>1. Len(<< >>) = 0
      OBVIOUS
    <2> HIDE DEF s
    <2> QED BY <1>2, <1>3, <2>1, EmptySeq
  <1> HIDE DEF s
  <1>6. CASE q.kind \in {"and", "or"} /\ Len(q.args) = 1
    <2>1. 1 \in 1 .. Len(q.args)
      BY <1>6
    <2>2. Collapsed[q] = s[1] /\ s[1] = Collapsed[q.args[1]] /\ q.args[1] \in Query
      BY <1>1, <1>2, <1>3, <1>6, <2>1 DEF Collapse
    <2> QED BY <1>1, <1>6, <2>2
  <1>7. CASE ~(q.kind \in {"and", "or"} /\ Len(q.args) = 1)
    <2>1. Collapsed[q] = new
      BY <1>1, <1>2, <1>7 DEF Collapse
    <2> HIDE DEF new
    <2> QED BY <1>1, <1>2, <1>4, <1>5, <1>7, <2>1
  <1> QED BY <1>6, <1>7

\* Collapsing keeps the predicates, deepens nothing and empties no group.
Kept(q) ==
  /\ Predicates[Collapsed[q]] = Predicates[q]
  /\ Depth[Collapsed[q]] <= Depth[q]
  /\ ~HasEmptyGroup(q) => ~HasEmptyGroup(Collapsed[q])

\* A single sequence joined.
LEMMA FlattenOne ==
  ASSUME NEW S, NEW e \in Seq(S)
  PROVE  FlattenSeq(<<e>>) = e
  <1>1. << >> \in Seq(Seq(S)) /\ Append(<< >>, e) = <<e>> /\ << >> \o e = e
    OBVIOUS
  <1> QED BY <1>1, FlattenAppend, FlattenEmpty

\* A tree keeps its predicates when its children do.
LEMMA PredicatesKept ==
  ASSUME NEW q \in Query, \A i \in 1 .. Len(q.args) : Kept(q.args[i])
  PROVE  Predicates[Collapsed[q]] = Predicates[q]
  <1> DEFINE c == Collapsed[q]
  <1>1. /\ \A i \in 1 .. Len(q.args) : q.args[i] \in Query
        /\ DOMAIN q.args = 1 .. Len(q.args) /\ Len(q.args) \in Nat
    BY QueryArgs
  <1>2. \A i \in 1 .. Len(q.args) : Predicates[Collapsed[q.args[i]]] = Predicates[q.args[i]]
    BY DEF Kept
  <1>3. CASE /\ q.kind \in {"and", "or"} /\ Len(q.args) = 1 /\ q.args[1] \in Query
             /\ c = Collapsed[q.args[1]]
    <2>1. 1 \in 1 .. Len(q.args)
      BY <1>3
    <2>2. Predicates[c] = Predicates[q.args[1]]
      BY <1>2, <1>3, <2>1
    <2> DEFINE e == Predicates[q.args[1]]
               m == Mapped(Predicates, q)
    <2>3. m \in Seq(Seq(Query)) /\ Len(m) = 1 /\ m[1] = e /\ e \in Seq(Query)
      BY <1>3, <2>1, PredicatesAre, MappedIs
    <2>4. Predicates[q] = FlattenSeq(m)
      BY <1>3, PredicatesAre
    <2> HIDE DEF e, m
    <2>5. m = <<e>>
      <3> DEFINE V == Seq(Query)
      <3>1. m \in Seq(V)
        BY <2>3
      <3> HIDE DEF V
      <3> QED BY <2>3, <3>1
    <2> QED BY <2>2, <2>3, <2>4, <2>5, FlattenOne DEF e
  <1>4. CASE /\ c.kind = q.kind /\ Len(c.args) = Len(q.args)
             /\ \A i \in 1 .. Len(q.args) : c.args[i] = Collapsed[q.args[i]]
             /\ q.kind = "predicate" => c = q
    <2>1. c \in Query
      BY CollapsedCases
    <2>2. CASE q.kind = "predicate"
      BY <1>4, <2>2
    <2>3. CASE q.kind # "predicate"
      <3> HIDE DEF c
      <3>1. DOMAIN c.args = 1 .. Len(c.args)
        BY <2>1, QueryArgs
      <3>2. Mapped(Predicates, c) = Mapped(Predicates, q)
        BY <1>1, <1>2, <1>4, <3>1 DEF Mapped
      <3>3. /\ Predicates[c] = FlattenSeq(Mapped(Predicates, c))
            /\ Predicates[q] = FlattenSeq(Mapped(Predicates, q))
        BY <1>4, <2>1, <2>3, PredicatesAre
      <3>4. Predicates[c] = Predicates[q]
        BY <3>2, <3>3, Zenon
      <3> QED BY <3>4 DEF c
    <2> QED BY <2>2, <2>3
  <1> QED BY <1>3, <1>4, CollapsedCases

\* Every tree is kept.
LEMMA AllKept == \A q \in Query : Kept(q)
  <1> DEFINE U == {q \in Query : Kept(q)}
  <1>1. ASSUME NEW q \in Query, \A i \in 1 .. Len(q.args) : q.args[i] \in U
        PROVE  q \in U
    <2> DEFINE c == Collapsed[q]
    <2>1. \A i \in 1 .. Len(q.args) : Kept(q.args[i])
      BY <1>1
    <2>2. Predicates[c] = Predicates[q]
      BY <2>1, PredicatesKept
    <2>3. /\ Depth[q] \in Nat
          /\ \A i \in 1 .. Len(q.args) : Depth[q.args[i]] \in Nat /\ Depth[q.args[i]] + 1 <= Depth[q]
      BY DepthBounds
    <2>4. \A i \in 1 .. Len(q.args) :
            Subtrees[q.args[i]] \subseteq Subtrees[q] /\ q.args[i] \in Query
      BY SubtreesOfArgs, QueryArgs
    <2>5. \A i \in 1 .. Len(q.args) :
            /\ Depth[Collapsed[q.args[i]]] \in Nat
            /\ Depth[Collapsed[q.args[i]]] <= Depth[q.args[i]]
            /\ ~HasEmptyGroup(q) => ~HasEmptyGroup(Collapsed[q.args[i]])
      <3> SUFFICES ASSUME NEW i \in 1 .. Len(q.args)
                   PROVE  /\ Depth[Collapsed[q.args[i]]] \in Nat
                          /\ Depth[Collapsed[q.args[i]]] <= Depth[q.args[i]]
                          /\ ~HasEmptyGroup(q) => ~HasEmptyGroup(Collapsed[q.args[i]])
        OBVIOUS
      <3>1. Kept(q.args[i]) /\ q.args[i] \in Query /\ Subtrees[q.args[i]] \subseteq Subtrees[q]
        BY <2>1, <2>4
      <3>2. Depth[Collapsed[q.args[i]]] \in Nat
        BY <3>1, CollapsedIs, DepthIs
      <3>3. ~HasEmptyGroup(q) => ~HasEmptyGroup(q.args[i])
        BY <3>1 DEF HasEmptyGroup
      <3> QED BY <3>1, <3>2, <3>3 DEF Kept
    <2>6. CASE /\ q.kind \in {"and", "or"} /\ Len(q.args) = 1 /\ q.args[1] \in Query
               /\ c = Collapsed[q.args[1]]
      <3>1. 1 \in 1 .. Len(q.args)
        BY <2>6
      <3>2. /\ Depth[c] \in Nat /\ Depth[c] <= Depth[q.args[1]]
            /\ Depth[q.args[1]] \in Nat /\ Depth[q.args[1]] + 1 <= Depth[q]
            /\ ~HasEmptyGroup(q) => ~HasEmptyGroup(c)
        BY <2>3, <2>5, <2>6, <3>1
      <3>3. Depth[c] <= Depth[q]
        <4> HIDE DEF c
        <4> QED BY <2>3, <3>2
      <3> QED BY <2>2, <3>2, <3>3 DEF Kept
    <2>7. CASE /\ c.kind = q.kind /\ Len(c.args) = Len(q.args)
               /\ \A i \in 1 .. Len(q.args) : c.args[i] = Collapsed[q.args[i]]
      <3>1. c \in Query
        BY CollapsedCases
      <3>2. Depth[c] <= Depth[q]
        <4>1. \A b \in Nat : (\A i \in 1 .. Len(c.args) : Depth[c.args[i]] <= b) => Depth[c] <= b + 1
          BY <3>1, DepthBounds
        <4>2. 1 <= Depth[q]
          BY DepthBounds
        <4>3. Depth[q] - 1 \in Nat /\ (Depth[q] - 1) + 1 = Depth[q]
          BY <2>3, <4>2
        <4>4. ASSUME NEW i \in 1 .. Len(c.args) PROVE Depth[c.args[i]] <= Depth[q] - 1
          <5>1. i \in 1 .. Len(q.args) /\ c.args[i] = Collapsed[q.args[i]]
            BY <2>7
          <5>2. /\ Depth[Collapsed[q.args[i]]] \in Nat
                /\ Depth[Collapsed[q.args[i]]] <= Depth[q.args[i]]
                /\ Depth[q.args[i]] \in Nat /\ Depth[q.args[i]] + 1 <= Depth[q]
            BY <2>3, <2>5, <5>1
          <5> HIDE DEF c
          <5> QED BY <2>3, <5>1, <5>2
        <4> HIDE DEF c
        <4> QED BY <4>1, <4>3, <4>4
      <3>3. ~HasEmptyGroup(q) => ~HasEmptyGroup(c)
        <4> SUFFICES ASSUME ~HasEmptyGroup(q), NEW t \in Subtrees[c],
                            t.kind \in {"and", "or"}, t.args = << >>
                     PROVE  FALSE
          BY DEF HasEmptyGroup
        <4>1. /\ Subtrees[c] = {c} \cup UNION {Subtrees[c.args[i]] : i \in DOMAIN c.args}
              /\ DOMAIN c.args = 1 .. Len(c.args)
          BY <3>1, SubtreesAre, QueryArgs
        <4>2. CASE t = c
          <5>1. q.args \in Seq(Query) /\ q \in Subtrees[q]
            BY QueryArgs, SubtreesOfArgs
          <5>2. Len(q.args) = 0 /\ q.kind \in {"and", "or"}
            <6>1. Len(<< >>) = 0
              OBVIOUS
            <6> HIDE DEF c
            <6> QED BY <2>7, <4>2, <6>1
          <5>3. q.args = << >>
            BY <5>1, <5>2, EmptySeq
          <5> QED BY <5>1, <5>2, <5>3 DEF HasEmptyGroup
        <4>3. CASE \E i \in DOMAIN c.args : t \in Subtrees[c.args[i]]
          <5>1. PICK i \in 1 .. Len(q.args) : t \in Subtrees[Collapsed[q.args[i]]]
            BY <2>7, <4>1, <4>3
          <5> QED BY <2>5, <5>1 DEF HasEmptyGroup
        <4> HIDE DEF c
        <4> QED BY <4>1, <4>2, <4>3
      <3> QED BY <2>2, <3>2, <3>3 DEF Kept
    <2>8. Kept(q)
      BY <2>6, <2>7, CollapsedCases
    <2> QED BY <2>8
  <1>2. Query \subseteq U
    <2> HIDE DEF U
    <2> QED BY <1>1, TreeInduction
  <1> QED BY <1>2

\* A valid query stays valid.
LEMMA CollapsedValid ==
  ASSUME NEW q \in Query, Valid(q) PROVE Valid(Collapsed[q])
  <1>1. Kept(q) /\ Depth[q] \in Nat /\ Depth[Collapsed[q]] \in Nat
    BY AllKept, CollapsedIs, DepthIs
  <1> QED BY <1>1, QueryAssumption DEF Kept, Valid, PredicateCount, QueryAssumption

-----------------------------------------------------------------------------
(* Texts.                                                                  *)

Names == Words \cup Keywords \cup Capitals \cup Odd \cup Spaces
Marks == {"(", ")", "[", "]", ",", ".", "=", "value", "ident", "string",
          "and", "or", "not", "in", "exists", "no value"}
Token == [tok : Marks, key : Seq(Names)]

\* s stands in toks from i on.
At(toks, i, s) == \A k \in 1 .. Len(s) : i + k - 1 \in 1 .. Len(toks) /\ toks[i + k - 1] = s[k]

\* What two texts in a row print stands behind each other.
LEMMA AtConcat ==
  ASSUME NEW S, NEW toks \in Seq(S), NEW i \in Nat, NEW a \in Seq(S), NEW b \in Seq(S),
         At(toks, i, a \o b)
  PROVE  At(toks, i, a) /\ At(toks, i + Len(a), b)
  <1>1. /\ Len(a) \in Nat /\ Len(b) \in Nat /\ Len(a \o b) = Len(a) + Len(b)
        /\ \A k \in 1 .. Len(a) : (a \o b)[k] = a[k]
        /\ \A k \in 1 .. Len(b) : (a \o b)[Len(a) + k] = b[k]
    OBVIOUS
  <1> DEFINE s == a \o b
  <1>2. \A k \in 1 .. Len(a) + Len(b) :
          i + k - 1 \in 1 .. Len(toks) /\ toks[i + k - 1] = s[k]
    BY <1>1 DEF At
  <1> HIDE DEF s
  <1>3. ASSUME NEW k \in 1 .. Len(a)
        PROVE  i + k - 1 \in 1 .. Len(toks) /\ toks[i + k - 1] = a[k]
    <2>1. k \in 1 .. Len(a) + Len(b)
      BY <1>1
    <2> QED BY <1>1, <1>2, <2>1 DEF s
  <1>4. ASSUME NEW k \in 1 .. Len(b)
        PROVE  (i + Len(a)) + k - 1 \in 1 .. Len(toks) /\ toks[(i + Len(a)) + k - 1] = b[k]
    <2>1. /\ Len(a) + k \in 1 .. Len(a) + Len(b)
          /\ i + (Len(a) + k) - 1 = (i + Len(a)) + k - 1
      BY <1>1
    <2> QED BY <1>1, <1>2, <2>1 DEF s
  <1> QED BY <1>3, <1>4 DEF At

\* One token that stands at a place.
LEMMA AtOne ==
  ASSUME NEW toks, NEW i \in Nat, NEW t, At(toks, i, <<t>>)
  PROVE  i \in 1 .. Len(toks) /\ toks[i] = t
  <1>1. 1 \in 1 .. Len(<<t>>) /\ <<t>>[1] = t /\ i + 1 - 1 = i
    OBVIOUS
  <1> QED BY <1>1, Zenon DEF At

\* One token in front.
LEMMA AtFirst ==
  ASSUME NEW S, NEW toks \in Seq(S), NEW i \in Nat, NEW t \in S, NEW s \in Seq(S),
         At(toks, i, <<t>> \o s)
  PROVE  i \in 1 .. Len(toks) /\ toks[i] = t /\ At(toks, i + 1, s)
  <1>1. <<t>> \in Seq(S) /\ Len(<<t>>) = 1
    OBVIOUS
  <1>2. At(toks, i, <<t>>) /\ At(toks, i + 1, s)
    BY <1>1, AtConcat
  <1> QED BY <1>2, AtOne

\* A sequence is its first element and the rest.
LEMMA FirstAndRest ==
  ASSUME NEW V, NEW s \in Seq(V), s # << >>
  PROVE  /\ s[1] \in V /\ Tail(s) \in Seq(V) /\ Len(s) \in Nat /\ 1 <= Len(s)
         /\ Len(Tail(s)) = Len(s) - 1
         /\ \A i \in 1 .. Len(s) - 1 : Tail(s)[i] = s[i + 1]
         /\ s = <<s[1]>> \o Tail(s) /\ <<s[1]>> \in Seq(V)
  <1>1. Len(s) \in Nat /\ 1 <= Len(s) /\ 1 \in 1 .. Len(s)
    BY EmptySeq
  <1>2. s[1] \in V
    BY <1>1, ElementOfSeq
  <1>3. /\ Tail(s) \in Seq(V) /\ Len(Tail(s)) = Len(s) - 1
        /\ \A i \in 1 .. Len(s) - 1 : Tail(s)[i] = s[i + 1]
    BY HeadTailProperties
  <1> DEFINE f == <<s[1]>>
             t == Tail(s)
  <1>4. f \in Seq(V) /\ Len(f) = 1 /\ f[1] = s[1]
    BY <1>2
  <1> HIDE DEF f, t
  <1>5. /\ f \o t \in Seq(V) /\ Len(f \o t) = Len(s)
        /\ \A i \in 1 .. Len(s) : (f \o t)[i] = IF i <= 1 THEN f[i] ELSE t[i - 1]
    <2>1. t \in Seq(V) /\ Len(f) + Len(t) = Len(s) /\ Len(f) = 1
      BY <1>1, <1>3, <1>4 DEF t
    <2>2. /\ f \o t \in Seq(V) /\ Len(f \o t) = Len(f) + Len(t)
          /\ \A i \in 1 .. Len(f) + Len(t) :
               (f \o t)[i] = IF i <= Len(f) THEN f[i] ELSE t[i - Len(f)]
      BY <1>4, <2>1, ConcatProperties
    <2> QED BY <2>1, <2>2
  <1>6. \A i \in 1 .. Len(s) : s[i] = (f \o t)[i]
    <2> SUFFICES ASSUME NEW i \in 1 .. Len(s) PROVE s[i] = (f \o t)[i]
      OBVIOUS
    <2>1. CASE i = 1
      BY <1>4, <1>5, <2>1
    <2>2. CASE i # 1
      <3>1. i - 1 \in 1 .. Len(s) - 1 /\ (i - 1) + 1 = i /\ ~(i <= 1)
        BY <1>1, <2>2
      <3> QED BY <1>3, <1>5, <3>1 DEF t
    <2> QED BY <2>1, <2>2
  <1>7. s = f \o t
    BY <1>5, <1>6, SeqEqual
  <1> QED BY <1>1, <1>2, <1>3, <1>4, <1>7 DEF f, t

\* Joined sequences are the first and the rest joined.
LEMMA FlattenFirst ==
  ASSUME NEW S, NEW q \in Seq(Seq(S)), q # << >>
  PROVE  FlattenSeq(q) = q[1] \o FlattenSeq(Tail(q))
  <1> DEFINE V == Seq(S)
  <1>1. q[1] \in V /\ Tail(q) \in Seq(V) /\ q = <<q[1]>> \o Tail(q) /\ <<q[1]>> \in Seq(V)
    <2>1. q \in Seq(V)
      OBVIOUS
    <2> HIDE DEF V
    <2> QED BY <2>1, FirstAndRest
  <1>2. FlattenSeq(<<q[1]>> \o Tail(q)) = FlattenSeq(<<q[1]>>) \o FlattenSeq(Tail(q))
    BY <1>1, FlattenConcat
  <1>3. FlattenSeq(<<q[1]>>) = q[1]
    BY <1>1, FlattenOne
  <1> HIDE DEF V
  <1> QED BY <1>1, <1>2, <1>3, Zenon

\* Parts in a row with a separator before each but the first.
Separated(separator, parts) ==
  [i \in DOMAIN parts |-> IF i = 1 THEN parts[i] ELSE <<separator>> \o parts[i]]

\* What they are.
LEMMA SeparatedIs ==
  ASSUME NEW S, NEW sep \in S, NEW parts \in Seq(Seq(S)), parts # << >>
  PROVE  LET s == Separated(sep, parts)
         IN  /\ s \in Seq(Seq(S)) /\ s # << >> /\ Len(s) = Len(parts) /\ s[1] = parts[1]
             /\ \A i \in 2 .. Len(parts) : s[i] = <<sep>> \o parts[i]
             /\ Len(parts) \in Nat /\ 1 <= Len(parts)
             /\ \A i \in 1 .. Len(parts) : parts[i] \in Seq(S)
  <1> DEFINE V == Seq(S)
             s == Separated(sep, parts)
             n == Len(parts)
  <1>1. /\ n \in Nat /\ 1 <= n /\ DOMAIN parts = 1 .. n /\ 1 \in 1 .. n
        /\ \A i \in 1 .. n : parts[i] \in V
    <2>1. parts \in Seq(V)
      OBVIOUS
    <2> HIDE DEF V
    <2> QED BY <2>1, EmptySeq, ElementOfSeq, LenProperties
  <1>2. \A i \in 1 .. n : <<sep>> \o parts[i] \in V
    BY <1>1
  <1> HIDE DEF n
  <1>3. /\ s \in [1 .. n -> V] /\ s[1] = parts[1]
        /\ \A i \in 2 .. n : s[i] = <<sep>> \o parts[i]
    <2> HIDE DEF V
    <2> QED BY <1>1, <1>2 DEF Separated
  <1> HIDE DEF s
  <1>4. s \in Seq(V) /\ Len(s) = n
    <2> HIDE DEF V
    <2> QED BY <1>1, <1>3
  <1>5. s # << >>
    <2> HIDE DEF V
    <2> QED BY <1>1, <1>4, EmptySeq
  <1> QED BY <1>1, <1>3, <1>4, <1>5, Zenon DEF n, s

\* Parts are separated as their first and the rest behind a separator.
LEMMA JoinedIs ==
  ASSUME NEW S, NEW sep \in S, NEW parts \in Seq(Seq(S)), parts # << >>
  PROVE  /\ Joined(sep, parts) \in Seq(S)
         /\ parts[1] \in Seq(S) /\ Tail(parts) \in Seq(Seq(S))
         /\ Len(parts) = 1 => Joined(sep, parts) = parts[1]
         /\ Len(parts) # 1 => /\ Tail(parts) # << >>
                              /\ Joined(sep, parts)
                                   = parts[1] \o (<<sep>> \o Joined(sep, Tail(parts)))
  <1> DEFINE V == Seq(S)
             n == Len(parts)
             s == Separated(sep, parts)
             r == Tail(parts)
             t == Separated(sep, r)
  <1>1. /\ s \in Seq(V) /\ s # << >> /\ Len(s) = n /\ s[1] = parts[1]
        /\ \A i \in 2 .. n : s[i] = <<sep>> \o parts[i]
        /\ n \in Nat /\ 1 <= n /\ \A i \in 1 .. n : parts[i] \in V
    BY SeparatedIs
  <1>2. /\ parts[1] \in V /\ r \in Seq(V) /\ Len(r) = n - 1
        /\ \A i \in 1 .. n - 1 : r[i] = parts[i + 1]
    <2>1. parts \in Seq(V)
      OBVIOUS
    <2> HIDE DEF V
    <2> QED BY <2>1, FirstAndRest
  <1>3. Joined(sep, parts) = FlattenSeq(s) /\ Joined(sep, r) = FlattenSeq(t)
    BY Zenon DEF Joined, Separated
  <1> HIDE DEF s, t, n, r
  <1>4. /\ FlattenSeq(s) = parts[1] \o FlattenSeq(Tail(s)) /\ FlattenSeq(s) \in V
        /\ Tail(s) \in Seq(V) /\ Len(Tail(s)) = n - 1
        /\ \A i \in 1 .. n - 1 : Tail(s)[i] = s[i + 1]
    <2>1. FlattenSeq(s) = s[1] \o FlattenSeq(Tail(s)) /\ FlattenSeq(s) \in V
      BY <1>1, FlattenFirst, FlattenType
    <2> HIDE DEF V
    <2> QED BY <1>1, <2>1, FirstAndRest
  <1>5. ASSUME n = 1 PROVE FlattenSeq(s) = parts[1]
    <2>1. Tail(s) = << >>
      <3> DEFINE u == Tail(s)
      <3>1. u \in Seq(V) /\ Len(u) = 0
        BY <1>4, <1>5
      <3> HIDE DEF V, u
      <3>2. u = << >>
        BY <3>1, EmptySeq
      <3> QED BY <3>2 DEF u
    <2>2. parts[1] \o << >> = parts[1]
      BY <1>2
    <2> QED BY <1>4, <2>1, <2>2, FlattenEmpty
  <1>6. ASSUME n # 1
        PROVE  r # << >> /\ FlattenSeq(s) = parts[1] \o (<<sep>> \o FlattenSeq(t))
    <2>1. r # << >> /\ Tail(s) # << >> /\ 2 \in 2 .. n /\ 1 \in 1 .. n - 1 /\ n - 1 \in Nat
      <3>1. n - 1 # 0
        BY <1>1, <1>6
      <3>2. r # << >> /\ Tail(s) # << >>
        <4> HIDE DEF V
        <4> QED BY <1>2, <1>4, <3>1, EmptySeq
      <3> QED BY <1>1, <1>6, <3>2
    <2>2. /\ t \in Seq(V) /\ t # << >> /\ Len(t) = n - 1 /\ t[1] = r[1]
          /\ \A i \in 2 .. n - 1 : t[i] = <<sep>> \o r[i]
      <3>1. r \in Seq(Seq(S)) /\ r # << >>
        BY <1>2, <2>1
      <3>2. /\ t \in Seq(Seq(S)) /\ t # << >> /\ Len(t) = Len(r) /\ t[1] = r[1]
            /\ \A i \in 2 .. Len(r) : t[i] = <<sep>> \o r[i]
        BY <3>1, SeparatedIs, ZenonT(40) DEF t
      <3> HIDE DEF V
      <3>3. Len(r) = n - 1
        BY <1>2
      <3>4. t \in Seq(V)
        BY <3>2, Zenon DEF V
      <3> QED BY <3>2, <3>3, <3>4
    <2>3. FlattenSeq(t) = t[1] \o FlattenSeq(Tail(t))
      BY <2>2, FlattenFirst
    <2>4. FlattenSeq(Tail(s)) = Tail(s)[1] \o FlattenSeq(Tail(Tail(s)))
      BY <1>4, <2>1, FlattenFirst
    <2>5. Tail(t) = Tail(Tail(s))
      <3> DEFINE u == Tail(s)
      <3> HIDE DEF V
      <3>1. /\ Tail(t) \in Seq(V) /\ Len(Tail(t)) = (n - 1) - 1
            /\ \A i \in 1 .. (n - 1) - 1 : Tail(t)[i] = t[i + 1]
        BY <2>2, FirstAndRest
      <3>2. u \in Seq(V) /\ u # << >> /\ Len(u) = n - 1
        BY <1>4, <2>1
      <3> HIDE DEF u
      <3>3. /\ Tail(u) \in Seq(V) /\ Len(Tail(u)) = (n - 1) - 1
            /\ \A i \in 1 .. (n - 1) - 1 : Tail(u)[i] = u[i + 1]
        BY <3>2, FirstAndRest
      <3>4. ASSUME NEW i \in 1 .. (n - 1) - 1 PROVE t[i + 1] = u[i + 1]
        <4>1. /\ i + 1 \in 2 .. n - 1 /\ i + 1 \in 1 .. n - 1 /\ (i + 1) + 1 \in 2 .. n
          BY <1>1
        <4>2. t[i + 1] = <<sep>> \o r[i + 1] /\ r[i + 1] = parts[(i + 1) + 1]
          BY <1>2, <2>2, <4>1
        <4>3. u[i + 1] = s[(i + 1) + 1] /\ s[(i + 1) + 1] = <<sep>> \o parts[(i + 1) + 1]
          BY <1>1, <1>4, <4>1 DEF u
        <4> QED BY <4>2, <4>3
      <3>5. \A i \in 1 .. Len(Tail(t)) : Tail(t)[i] = Tail(u)[i]
        BY <3>1, <3>3, <3>4
      <3>6. Tail(t) = Tail(u)
        BY <3>1, <3>3, <3>5, SeqEqual
      <3> QED BY <3>6 DEF u
    <2>6. Tail(s)[1] = <<sep>> \o parts[2] /\ t[1] = parts[2] /\ parts[2] \in V
      <3> HIDE DEF V
      <3>1. 2 \in 1 .. n /\ 1 + 1 = 2
        BY <1>1, <1>6
      <3>2. Tail(s)[1] = s[1 + 1] /\ s[2] = <<sep>> \o parts[2]
        BY <1>1, <1>4, <2>1
      <3>3. t[1] = r[1] /\ r[1] = parts[1 + 1]
        BY <1>2, <2>1, <2>2
      <3>4. parts[2] \in V
        BY <1>1, <3>1
      <3> QED BY <3>1, <3>2, <3>3, <3>4
    <2>7. FlattenSeq(Tail(s)) = (<<sep>> \o parts[2]) \o FlattenSeq(Tail(t))
      BY <2>4, <2>5, <2>6
    <2>8. Tail(t) \in Seq(V)
      <3> HIDE DEF V
      <3> QED BY <2>2, FirstAndRest
    <2>9. FlattenSeq(Tail(t)) \in Seq(S) /\ <<sep>> \in Seq(S) /\ parts[2] \in Seq(S)
      <3> DEFINE u == Tail(t)
      <3>1. u \in Seq(Seq(S))
        BY <2>8
      <3> HIDE DEF u
      <3>2. FlattenSeq(u) \in Seq(S)
        BY <3>1, FlattenType
      <3> QED BY <2>6, <3>2 DEF u
    <2>10. (<<sep>> \o parts[2]) \o FlattenSeq(Tail(t))
             = <<sep>> \o (parts[2] \o FlattenSeq(Tail(t)))
      <3> DEFINE x == <<sep>>
                 y == parts[2]
                 z == FlattenSeq(Tail(t))
      <3>1. x \in Seq(S) /\ y \in Seq(S) /\ z \in Seq(S)
        BY <2>9
      <3> HIDE DEF x, y, z, V
      <3>2. (x \o y) \o z = x \o (y \o z)
        BY <3>1, ConcatAssociative, SMTT(40)
      <3> QED BY <3>2 DEF x, y, z
    <2>11. FlattenSeq(t) = parts[2] \o FlattenSeq(Tail(t))
      BY <2>3, <2>6
    <2> QED BY <1>4, <2>1, <2>7, <2>10, <2>11
  <1> QED BY <1>2, <1>3, <1>4, <1>5, <1>6 DEF n, r

-----------------------------------------------------------------------------
(* What a tree prints to.                                                  *)

\* A predicate is its field and its operator.
LEMMA LeafIs ==
  ASSUME NEW q \in Query, q.kind = "predicate"
  PROVE  q.field \in Fields /\ q.op \in Operators /\ q = Leaf(q.field, q.op)
  <1>1. q \in Leaves
    BY QueryArgs DEF IsTree, Nodes
  <1> QED BY <1>1 DEF Leaves, Leaf

\* Every other tree is its kind and its children.
LEMMA NodeIs ==
  ASSUME NEW q \in Query, q.kind # "predicate"
  PROVE  q = Node(q.kind, q.args)
  <1>1. q \in Nodes({"not"}, [{1} -> Query]) \/ q \in Nodes({"and", "or"}, Seq(Query))
    BY QueryArgs DEF IsTree, Leaves
  <1> QED BY <1>1 DEF Nodes, Node

\* Tokens of either sort.
LEMMA TokensAre ==
  /\ \A t \in Marks : Tok(t) \in Token
  /\ \A w \in Names : Ident(w) \in Token
  /\ \A key \in Seq(Names) : Quoted(key) \in Token
  <1>1. << >> \in Seq(Names) /\ \A w \in Names : <<w>> \in Seq(Names)
    OBVIOUS
  <1>2. "ident" \in Marks /\ "string" \in Marks
    BY DEF Marks
  <1> HIDE DEF Marks, Names
  <1> QED BY <1>1, <1>2 DEF Tok, Ident, Quoted, Token

\* A timestamp is printed as a value.
LEMMA NoTimestamp == "timestamp" \notin Marks /\ "value" \in Marks
  BY DEF Marks

\* The tokens of an operator that can be read.
LEMMA OpIs ==
  ASSUME NEW op \in ReadOperators
  PROVE  /\ Op(op) \in Seq(Token) /\ Len(Op(op)) = Len(op) /\ Len(op) \in Nat /\ 1 <= Len(op)
         /\ DOMAIN op = 1 .. Len(op)
         /\ \A j \in 1 .. Len(op) : Op(op)[j] = Tok(op[j])
         /\ op[1] \in {"=", "exists", "not", "in"}
  <1>1. op \in Seq(Marks) /\ Len(op) \in 1 .. 6 /\ op[1] \in {"=", "exists", "not", "in"}
    <2>1. ASSUME NEW S, NEW a \in S, NEW b \in S, NEW c \in S, NEW d \in S, NEW e \in S,
                 NEW f \in S
          PROVE  /\ <<a, b, c, d>> \in Seq(S) /\ Len(<<a, b, c, d>>) = 4
                 /\ <<a, b, c, d>>[1] = a
                 /\ <<a, b, c, d, e>> \in Seq(S) /\ Len(<<a, b, c, d, e>>) = 5
                 /\ <<a, b, c, d, e>>[1] = a
                 /\ <<a, b, c, d, e, f>> \in Seq(S) /\ Len(<<a, b, c, d, e, f>>) = 6
                 /\ <<a, b, c, d, e, f>>[1] = a
      OBVIOUS
    <2>9. ASSUME NEW S, NEW a \in S
          PROVE  <<a>> \in Seq(S) /\ Len(<<a>>) = 1 /\ <<a>>[1] = a
      OBVIOUS
    <2>10. ASSUME NEW S, NEW a \in S, NEW b \in S
           PROVE  <<a, b>> \in Seq(S) /\ Len(<<a, b>>) = 2 /\ <<a, b>>[1] = a
      OBVIOUS
    <2>2. /\ "=" \in Marks /\ "value" \in Marks /\ "exists" \in Marks /\ "not" \in Marks
          /\ "in" \in Marks /\ "[" \in Marks /\ "]" \in Marks /\ "," \in Marks
      BY DEF Marks
    <2> HIDE DEF Marks
    <2> DEFINE First(o) == o[1] \in {"=", "exists", "not", "in"}
               Good(o) == o \in Seq(Marks) /\ Len(o) \in 1 .. 6 /\ First(o)
    <2>3. Good(<<"=", "value">>)
      <3>1. /\ <<"=", "value">> \in Seq(Marks) /\ Len(<<"=", "value">>) = 2
            /\ <<"=", "value">>[1] = "="
        BY <2>9, <2>10, <2>2, Zenon
      <3> QED BY <3>1
    <2>4. Good(<<"exists">>) /\ Good(<<"not", "exists">>)
      <3>1. /\ <<"exists">> \in Seq(Marks) /\ Len(<<"exists">>) = 1
            /\ <<"exists">>[1] = "exists"
        BY <2>9, <2>10, <2>2, Zenon
      <3>2. /\ <<"not", "exists">> \in Seq(Marks) /\ Len(<<"not", "exists">>) = 2
            /\ <<"not", "exists">>[1] = "not"
        BY <2>9, <2>10, <2>2, Zenon
      <3> QED BY <3>1, <3>2
    <2>5. Good(<<"in", "[", "value", "]">>)
      <3>1. /\ <<"in", "[", "value", "]">> \in Seq(Marks) /\ Len(<<"in", "[", "value", "]">>) = 4
            /\ <<"in", "[", "value", "]">>[1] = "in"
        BY <2>1, <2>2, Zenon
      <3> QED BY <3>1
    <2>6. Good(<<"in", "[", "value", ",", "value", "]">>)
      <3> DEFINE o == <<"in", "[", "value", ",", "value", "]">>
      <3>1. o \in Seq(Marks) /\ Len(o) = 6 /\ o[1] = "in"
        BY <2>1, <2>2, Zenon
      <3> HIDE DEF o
      <3>2. Good(o)
        BY <3>1
      <3> QED BY <3>2 DEF o
    <2>8. Good(<<"not", "in", "[", "value", "]">>)
      <3> DEFINE o == <<"not", "in", "[", "value", "]">>
      <3>1. o \in Seq(Marks) /\ Len(o) = 5 /\ o[1] = "not"
        BY <2>1, <2>2, Zenon
      <3> QED BY <3>1
    <2> HIDE DEF Good
    <2>7. Good(op)
      BY <2>3, <2>4, <2>5, <2>6, <2>8, Zenon DEF ReadOperators
    <2> QED BY <2>7 DEF Good
  <1>2. DOMAIN op = 1 .. Len(op) /\ \A j \in 1 .. Len(op) : op[j] \in Marks
    BY <1>1
  <1>3. Op(op) \in [1 .. Len(op) -> Token]
    BY <1>2, NoTimestamp, TokensAre DEF Op
  <1>4. Op(op) \in Seq(Token) /\ Len(Op(op)) = Len(op)
    BY <1>1, <1>3
  <1>5. \A j \in 1 .. Len(op) : Op(op)[j] = Tok(op[j])
    BY <1>2, NoTimestamp DEF Op
  <1> QED BY <1>1, <1>2, <1>4, <1>5

\* Every operator is printed as tokens.
LEMMA OpType ==
  ASSUME NEW op \in Operators
  PROVE  Op(op) \in Seq(Token) /\ Len(Op(op)) \in Nat
  <1> DEFINE S == Marks \cup {"timestamp"}
  <1>1. /\ "in" \in S /\ "[" \in S /\ "]" \in S /\ "not" \in S /\ "=" \in S
        /\ "no value" \in S /\ "timestamp" \in S
    BY DEF Marks
  <1>2. \A t \in S : Tok(IF t = "timestamp" THEN "value" ELSE t) \in Token
    BY NoTimestamp, TokensAre
  <1> HIDE DEF S
  <1>3. ASSUME NEW a \in S, NEW b \in S, NEW c \in S, NEW d \in S
        PROVE  <<a, b>> \in Seq(S) /\ <<a, b, c>> \in Seq(S) /\ <<a, b, c, d>> \in Seq(S)
    OBVIOUS
  <1>4. <<"in", "[", "]">> \in Seq(S) /\ <<"not", "in", "[", "]">> \in Seq(S)
    BY <1>1, <1>3, Zenon
  <1>5. <<"=", "no value">> \in Seq(S) /\ <<"=", "timestamp">> \in Seq(S)
    BY <1>1, <1>3, Zenon
  <1>6. op \in LostOperators => op \in Seq(S)
    BY <1>4, <1>5, Zenon DEF LostOperators
  <1>7. ASSUME op \in Seq(S) PROVE Op(op) \in Seq(Token)
    <2>1. PICK n \in Nat : op \in [1 .. n -> S]
      BY <1>7
    <2>2. Op(op) \in [1 .. n -> Token]
      BY <1>2, <2>1 DEF Op
    <2> QED BY <2>2
  <1>8. op \in ReadOperators => Op(op) \in Seq(Token)
    BY OpIs
  <1>9. Op(op) \in Seq(Token)
    BY <1>6, <1>7, <1>8 DEF Operators
  <1> QED BY <1>9, LenProperties

\* A sequence's elements, each a text of its own.
Singles(p) == [i \in DOMAIN p |-> <<p[i]>>]

\* What they are.
LEMMA SinglesAre ==
  ASSUME NEW S, NEW p \in Seq(S)
  PROVE  /\ Singles(p) \in Seq(Seq(S)) /\ Len(Singles(p)) = Len(p)
         /\ \A i \in 1 .. Len(p) : Singles(p)[i] = <<p[i]>>
         /\ p # << >> => Singles(p) # << >>
  <1> DEFINE V == Seq(S)
             n == Len(p)
             s == Singles(p)
  <1>1. n \in Nat /\ DOMAIN p = 1 .. n /\ \A i \in 1 .. n : <<p[i]>> \in V
    OBVIOUS
  <1> HIDE DEF n
  <1>2. s \in [1 .. n -> V] /\ \A i \in 1 .. n : s[i] = <<p[i]>>
    <2> HIDE DEF V
    <2> QED BY <1>1 DEF Singles
  <1> HIDE DEF s
  <1>3. s \in Seq(V) /\ Len(s) = n
    <2> HIDE DEF V
    <2> QED BY <1>1, <1>2
  <1>4. p # << >> => s # << >>
    <2> HIDE DEF V
    <2>1. p # << >> => n # 0
      BY EmptySeq DEF n
    <2> QED BY <1>3, <2>1, EmptySeq
  <1> QED BY <1>2, <1>3, <1>4 DEF s, n

\* The segments of a key as the lexer reads them.
LexedKey(key) == [i \in DOMAIN key |-> Lexed(key[i])]

\* A key's tokens.
LEMMA KeyIs ==
  ASSUME NEW key \in Keys
  PROVE  /\ key \in Seq(Names) /\ key # << >> /\ Key(key) \in Seq(Token)
         /\ LexedKey(key) \in Seq(Token) /\ Len(LexedKey(key)) = Len(key)
         /\ \A i \in 1 .. Len(key) : LexedKey(key)[i] = Lexed(key[i])
         /\ Key(key) = IF \E i \in DOMAIN key : key[i] \in Odd THEN <<Quoted(key)>>
                       ELSE Joined(Tok("."), Singles(LexedKey(key)))
  <1> DEFINE n == Len(key)
             l == LexedKey(key)
  <1>1. key \in Seq(Names) /\ key # << >>
    <2>1. Words \cup Keywords \cup Capitals \cup Odd \subseteq Names
      BY DEF Names
    <2> QED BY <2>1, SeqMonotonic DEF Keys
  <1>2. n \in Nat /\ DOMAIN key = 1 .. n /\ \A i \in 1 .. n : key[i] \in Names
    BY <1>1
  <1>3. \A s \in Names : Lexed(s) \in Token
    <2>1. "not" \in Marks /\ \A s \in Keywords : s \in Marks
      BY DEF Marks, Keywords
    <2> QED BY <2>1, TokensAre DEF Lexed
  <1> HIDE DEF n
  <1>4. l \in [1 .. n -> Token] /\ \A i \in 1 .. n : l[i] = Lexed(key[i])
    BY <1>2, <1>3 DEF LexedKey
  <1> HIDE DEF l
  <1>5. l \in Seq(Token) /\ Len(l) = n /\ DOMAIN l = DOMAIN key
    BY <1>2, <1>4
  <1>6. l # << >>
    BY <1>1, <1>5, EmptySeq DEF n
  <1>7. Singles(l) = [i \in DOMAIN key |-> <<Lexed(key[i])>>]
    BY <1>2, <1>4, <1>5 DEF Singles
  <1>8. Key(key) = IF \E i \in DOMAIN key : key[i] \in Odd THEN <<Quoted(key)>>
                   ELSE Joined(Tok("."), Singles(l))
    BY <1>7, Zenon DEF Key
  <1>9. <<Quoted(key)>> \in Seq(Token) /\ Joined(Tok("."), Singles(l)) \in Seq(Token)
    <2>1. Quoted(key) \in Token /\ Tok(".") \in Token
      BY <1>1, TokensAre DEF Marks
    <2>2. Singles(l) \in Seq(Seq(Token)) /\ Singles(l) # << >>
      BY <1>5, <1>6, SinglesAre
    <2>3. Joined(Tok("."), Singles(l)) \in Seq(Token)
      BY <2>1, <2>2, JoinedIs
    <2>4. \A x \in Token : <<x>> \in Seq(Token)
      <3> HIDE DEF Token
      <3> QED OBVIOUS
    <2> QED BY <2>1, <2>3, <2>4
  <1>10. Key(key) \in Seq(Token)
    BY <1>8, <1>9, Zenon
  <1> QED BY <1>1, <1>4, <1>5, <1>8, <1>10 DEF l, n

\* A field's tokens.
LEMMA FieldIs ==
  ASSUME NEW field \in Fields
  PROVE  /\ Field(field) \in Seq(Token) /\ 1 <= Len(Field(field)) /\ Len(Field(field)) \in Nat
         /\ \/ /\ field.space = "reserved" /\ field.key[1] \in Words
               /\ field = [space |-> "reserved", key |-> <<field.key[1]>>]
               /\ Field(field) = <<Ident(field.key[1])>>
            \/ /\ field.space \in Spaces /\ field.key \in Keys
               /\ field = [space |-> field.space, key |-> field.key]
               /\ Field(field) = <<Ident(field.space)>> \o (<<Tok(".")>> \o Key(field.key))
  <1>1. CASE field \in [space : {"reserved"}, key : [{1} -> Words]]
    <2>1. /\ field.space = "reserved" /\ field.key \in [{1} -> Words]
          /\ field = [space |-> "reserved", key |-> field.key]
      BY <1>1
    <2>2. field.key[1] \in Words /\ field.key = <<field.key[1]>>
      <3>1. field.key \in [1 .. 1 -> Words]
        <4>1. 1 .. 1 = {1}
          OBVIOUS
        <4> QED BY <2>1, <4>1
      <3>2. \A n \in Nat : \A s \in [1 .. n -> Words] : s \in Seq(Words) /\ Len(s) = n
        OBVIOUS
      <3>3. field.key \in Seq(Words) /\ Len(field.key) = 1
        BY <3>1, <3>2
      <3> QED BY <2>1, <3>3
    <2>3. Ident(field.key[1]) \in Token
      BY <2>2, TokensAre DEF Names
    <2>4. Field(field) = <<Ident(field.key[1])>>
      BY <2>1, Zenon DEF Field
    <2>5. \A x \in Token : <<x>> \in Seq(Token) /\ Len(<<x>>) = 1
      <3> HIDE DEF Token
      <3> QED OBVIOUS
    <2> QED BY <2>1, <2>2, <2>3, <2>4, <2>5
  <1>2. CASE field \in [space : Spaces, key : Keys]
    <2>1. /\ field.space \in Spaces /\ field.key \in Keys /\ field.space # "reserved"
          /\ field = [space |-> field.space, key |-> field.key]
      BY <1>2 DEF Spaces
    <2>2. Ident(field.space) \in Token /\ Tok(".") \in Token /\ Key(field.key) \in Seq(Token)
      BY <2>1, TokensAre, KeyIs DEF Names, Marks
    <2>3. ASSUME NEW x \in Token, NEW y \in Token, NEW z \in Seq(Token)
          PROVE  /\ <<x, y>> \o z = <<x>> \o (<<y>> \o z)
                 /\ <<x>> \o (<<y>> \o z) \in Seq(Token)
                 /\ 1 <= Len(<<x>> \o (<<y>> \o z)) /\ Len(<<x>> \o (<<y>> \o z)) \in Nat
      <3> HIDE DEF Token
      <3>1. <<x>> \in Seq(Token) /\ <<y>> \in Seq(Token) /\ <<x, y>> = <<x>> \o <<y>>
        <4>1. <<x>> \in Seq(Token) /\ <<y>> \in Seq(Token)
          OBVIOUS
        <4> DEFINE p == <<x, y>>
                   a == <<x>>
                   b == <<y>>
        <4>2. /\ p \in Seq(Token) /\ Len(p) = 2 /\ p[1] = x /\ p[2] = y
              /\ Len(a) = 1 /\ Len(b) = 1 /\ a[1] = x /\ b[1] = y
          OBVIOUS
        <4>3. a \in Seq(Token) /\ b \in Seq(Token)
          BY <4>1
        <4> HIDE DEF p, a, b
        <4>4. a \o b \in Seq(Token) /\ Len(a \o b) = 2 /\ (a \o b)[1] = x /\ (a \o b)[2] = y
          <5>1. /\ a \o b \in Seq(Token) /\ Len(a \o b) = Len(a) + Len(b)
                /\ \A k \in 1 .. Len(a) + Len(b) :
                     (a \o b)[k] = IF k <= Len(a) THEN a[k] ELSE b[k - Len(a)]
            BY <4>3, ConcatProperties
          <5>2. 1 \in 1 .. 2 /\ 2 \in 1 .. 2 /\ 1 + 1 = 2 /\ 2 - 1 = 1 /\ 1 <= 1 /\ ~ (2 <= 1)
            OBVIOUS
          <5>3. \A k \in 1 .. 2 : (a \o b)[k] = IF k <= 1 THEN a[k] ELSE b[k - 1]
            BY <4>2, <5>1, <5>2
          <5>4. (a \o b)[1] = x /\ (a \o b)[2] = y
            BY <4>2, <5>2, <5>3
          <5> QED BY <4>2, <5>1, <5>2, <5>4
        <4>5. ASSUME NEW k \in 1 .. Len(p) PROVE p[k] = (a \o b)[k]
          <5>1. k = 1 \/ k = 2
            BY <4>2
          <5> QED BY <4>2, <4>4, <5>1
        <4>6. p = a \o b
          BY <4>2, <4>4, <4>5, SeqEqual
        <4> QED BY <4>1, <4>6 DEF p, a, b
      <3>2. (<<x>> \o <<y>>) \o z = <<x>> \o (<<y>> \o z)
        BY <3>1, ConcatAssociative
      <3>3. <<y>> \o z \in Seq(Token) /\ Len(<<x>>) = 1
        BY <3>1
      <3>4. /\ <<x>> \o (<<y>> \o z) \in Seq(Token)
            /\ Len(<<x>> \o (<<y>> \o z)) = Len(<<x>>) + Len(<<y>> \o z)
        BY <3>1, <3>3, ConcatProperties
      <3>5. Len(<<y>> \o z) \in Nat
        BY <3>3
      <3> QED BY <3>1, <3>2, <3>3, <3>4, <3>5
    <2>4. Field(field) = <<Ident(field.space), Tok(".")>> \o Key(field.key)
      BY <2>1, Zenon DEF Field
    <2>5. /\ Field(field) = <<Ident(field.space)>> \o (<<Tok(".")>> \o Key(field.key))
          /\ Field(field) \in Seq(Token)
          /\ 1 <= Len(Field(field)) /\ Len(Field(field)) \in Nat
      <3> DEFINE x == Ident(field.space)
                 y == Tok(".")
                 z == Key(field.key)
      <3>1. x \in Token /\ y \in Token /\ z \in Seq(Token) /\ Field(field) = <<x, y>> \o z
        BY <2>2, <2>4
      <3> HIDE DEF x, y, z
      <3>2. /\ <<x, y>> \o z = <<x>> \o (<<y>> \o z)
            /\ <<x>> \o (<<y>> \o z) \in Seq(Token)
            /\ 1 <= Len(<<x>> \o (<<y>> \o z)) /\ Len(<<x>> \o (<<y>> \o z)) \in Nat
        BY <2>3, <3>1, Zenon
      <3>3. Field(field) = <<x>> \o (<<y>> \o z)
        BY <3>1, <3>2
      <3> QED BY <3>2, <3>3, Zenon DEF x, y, z
    <2> QED BY <2>1, <2>5, Zenon
  <1> QED BY <1>1, <1>2 DEF Fields


-----------------------------------------------------------------------------
(* The printer.                                                            *)

\* What a child prints to where it stands.
Bracketed(q, i, s) ==
  Grouped(q.args[i].kind \in Apart(q.kind) \/ Precedence(q.args[i].kind) < Precedence(q.kind),
          s[i])

\* The same for all children.
Children(q, s) == [i \in DOMAIN q.args |-> Bracketed(q, i, s)]

\* What a tree prints to when its children print to s.
Text(q, s) ==
  CASE q.kind = "predicate" -> Field(q.field) \o Op(q.op)
    [] q.kind = "not"       -> <<Tok("not")>> \o Bracketed(q, 1, s)
    [] OTHER                -> Joined(Tok(q.kind), Children(q, s))

\* Parentheses around a text.
LEMMA GroupedIs ==
  ASSUME NEW needed, NEW t \in Seq(Token)
  PROVE  /\ Grouped(needed, t) \in Seq(Token)
         /\ ~needed => Grouped(needed, t) = t
         /\ needed => Grouped(needed, t) = <<Tok("(")>> \o (t \o <<Tok(")")>>)
         /\ t # << >> => Grouped(needed, t) # << >>
  <1>1. Tok("(") \in Token /\ Tok(")") \in Token
    BY TokensAre DEF Marks
  <1> DEFINE a == <<Tok("(")>>
             b == <<Tok(")")>>
  <1>2. a \in Seq(Token) /\ b \in Seq(Token) /\ Len(a) = 1 /\ Len(b) = 1
    <2>1. \A x \in Token : <<x>> \in Seq(Token) /\ Len(<<x>>) = 1
      <3> HIDE DEF Token
      <3> QED OBVIOUS
    <2> QED BY <1>1, <2>1
  <1> HIDE DEF a, b
  <1>3. /\ (a \o t) \o b = a \o (t \o b) /\ t \o b \in Seq(Token)
        /\ a \o (t \o b) \in Seq(Token) /\ Len(a \o (t \o b)) = Len(a) + Len(t \o b)
        /\ Len(t \o b) \in Nat
    <2>1. (a \o t) \o b = a \o (t \o b)
      BY <1>2, ConcatAssociative
    <2>2. t \o b \in Seq(Token)
      BY <1>2, ConcatProperties
    <2>3. a \o (t \o b) \in Seq(Token) /\ Len(a \o (t \o b)) = Len(a) + Len(t \o b)
      BY <1>2, <2>2, ConcatProperties
    <2>4. Len(t \o b) \in Nat
      BY <2>2, LenProperties
    <2> QED BY <2>1, <2>2, <2>3, <2>4
  <1>4. a \o (t \o b) # << >>
    <2>1. Len(a \o (t \o b)) # 0
      BY <1>2, <1>3
    <2> QED BY <2>1, <1>3, EmptySeq
  <1>5. Grouped(needed, t) = IF needed THEN (a \o t) \o b ELSE t
    BY Zenon DEF Grouped, a, b
  <1> QED BY <1>3, <1>4, <1>5 DEF a, b

\* What the children print to.
LEMMA ChildrenAre ==
  ASSUME NEW q \in Query, NEW s \in Seq(Seq(Token)), Len(s) = Len(q.args)
  PROVE  /\ Children(q, s) \in Seq(Seq(Token)) /\ Len(Children(q, s)) = Len(q.args)
         /\ \A i \in 1 .. Len(q.args) :
              Children(q, s)[i] = Bracketed(q, i, s) /\ Bracketed(q, i, s) \in Seq(Token)
         /\ q.args # << >> => Children(q, s) # << >>
  <1> DEFINE V == Seq(Token)
             n == Len(q.args)
             c == Children(q, s)
  <1>1. n \in Nat /\ DOMAIN q.args = 1 .. n /\ q.args \in Seq(Query)
    BY QueryArgs
  <1>2. \A i \in 1 .. n : s[i] \in V
    <2> HIDE DEF V, n
    <2>1. s \in Seq(V) /\ Len(s) = n
      BY DEF V, n
    <2> QED BY <1>1, <2>1, ElementOfSeq
  <1>3. \A i \in 1 .. n : Bracketed(q, i, s) \in V
    <2> HIDE DEF n
    <2> QED BY <1>2, GroupedIs DEF Bracketed
  <1> HIDE DEF V, n
  <1>4. c \in [1 .. n -> V] /\ \A i \in 1 .. n : c[i] = Bracketed(q, i, s)
    BY <1>1, <1>3 DEF Children
  <1> HIDE DEF c
  <1>5. c \in Seq(V) /\ Len(c) = n
    BY <1>1, <1>4
  <1>6. q.args # << >> => c # << >>
    BY <1>1, <1>5, EmptySeq DEF n
  <1> QED BY <1>3, <1>4, <1>5, <1>6 DEF V, n, c

\* A text is a sequence of tokens.
LEMMA TextType ==
  ASSUME NEW q \in Query, NEW s \in Seq(Seq(Token)), Len(s) = Len(q.args)
  PROVE  Text(q, s) \in Seq(Token)
  <1>1. CASE q.kind = "predicate"
    <2>1. Field(q.field) \in Seq(Token) /\ Op(q.op) \in Seq(Token)
      BY <1>1, LeafIs, FieldIs, OpType
    <2>2. Field(q.field) \o Op(q.op) \in Seq(Token)
      BY <2>1, ConcatProperties
    <2> QED BY <1>1, <2>2 DEF Text
  <1>2. CASE q.kind = "not"
    <2>1. Bracketed(q, 1, s) \in Seq(Token)
      <3>1. 1 \in 1 .. Len(q.args)
        <4>1. Len(q.args) = 1
          BY <1>2, QueryArgs
        <4> QED BY <4>1
      <3> QED BY <3>1, ChildrenAre
    <2>2. <<Tok("not")>> \in Seq(Token)
      <3>1. Tok("not") \in Token
        BY TokensAre DEF Marks
      <3> HIDE DEF Token
      <3> QED BY <3>1
    <2>3. <<Tok("not")>> \o Bracketed(q, 1, s) \in Seq(Token)
      BY <2>1, <2>2, ConcatProperties
    <2> QED BY <1>2, <2>3 DEF Text
  <1>3. CASE q.kind \in {"and", "or"}
    <2>1. Tok(q.kind) \in Token
      BY <1>3, TokensAre DEF Marks
    <2>2. Text(q, s) = Joined(Tok(q.kind), Children(q, s))
      BY <1>3 DEF Text
    <2>3. Children(q, s) # << >> => Joined(Tok(q.kind), Children(q, s)) \in Seq(Token)
      BY <2>1, ChildrenAre, JoinedIs
    <2>4. Children(q, s) = << >> => Joined(Tok(q.kind), Children(q, s)) = << >>
      <3>1. ASSUME Children(q, s) = << >>
            PROVE  FlattenSeq([i \in DOMAIN Children(q, s) |->
                     IF i = 1 THEN Children(q, s)[i] ELSE <<Tok(q.kind)>> \o Children(q, s)[i]])
                   = << >>
        <4> DEFINE e == [i \in DOMAIN Children(q, s) |->
                     IF i = 1 THEN Children(q, s)[i] ELSE <<Tok(q.kind)>> \o Children(q, s)[i]]
        <4>1. e = << >>
          <5>1. DOMAIN Children(q, s) = {}
            BY <3>1
          <5> QED BY <5>1
        <4> HIDE DEF e
        <4>2. FlattenSeq(e) = << >>
          BY <4>1, FlattenEmpty
        <4> QED BY <4>2 DEF e
      <3> QED BY <3>1, Zenon DEF Joined
    <2>5. << >> \in Seq(Token)
      OBVIOUS
    <2> QED BY <2>2, <2>3, <2>4, <2>5
  <1> QED BY <1>1, <1>2, <1>3, QueryArgs

\* Fmt is defined.
LEMMA FmtIs ==
  /\ Fmt \in [Query -> Seq(Token)]
  /\ \A q \in Query : Fmt[q] = Text(q, Mapped(Fmt, q))
  <1> DEFINE W == Seq(Token)
             step == [q \in Query |-> [s \in Seq(W) |-> Text(q, s)]]
             Child(f, q, c) ==
               Grouped(c.kind \in Apart(q.kind) \/ Precedence(c.kind) < Precedence(q.kind), f[c])
             Body(f, q) ==
               CASE q.kind = "predicate" -> Field(q.field) \o Op(q.op)
                 [] q.kind = "not"       -> <<Tok("not")>> \o Child(f, q, q.args[1])
                 [] OTHER -> Joined(Tok(q.kind), [i \in DOMAIN q.args |-> Child(f, q, q.args[i])])
  <1>1. ASSUME NEW q \in Query, NEW s \in Seq(W) PROVE step[q][s] = Text(q, s)
    OBVIOUS
  <1>2. StepsIn(step, W)
    <2>1. ASSUME NEW q \in Query, NEW s \in Seq(W), Len(s) = Len(q.args)
          PROVE  step[q][s] \in W
      BY <1>1, <2>1, TextType
    <2> HIDE DEF step, W
    <2> QED BY <2>1 DEF StepsIn
  <1> HIDE DEF step
  <1>3. ASSUME NEW q \in Query, NEW f PROVE Text(q, Mapped(f, q)) = Body(f, q)
    <2>1. DOMAIN q.args = 1 .. Len(q.args) /\ Len(q.args) \in Nat
          /\ (q.kind = "not" => Len(q.args) = 1)
      BY QueryArgs
    <2>2. ASSUME NEW i \in DOMAIN q.args
          PROVE  Bracketed(q, i, Mapped(f, q)) = Child(f, q, q.args[i])
      <3>1. Mapped(f, q)[i] = f[q.args[i]]
        BY DEF Mapped
      <3> QED BY <3>1, Zenon DEF Bracketed
    <2> HIDE DEF Child
    <2>3. Children(q, Mapped(f, q)) = [i \in DOMAIN q.args |-> Child(f, q, q.args[i])]
      BY <2>2 DEF Children
    <2>4. q.kind = "not" => Bracketed(q, 1, Mapped(f, q)) = Child(f, q, q.args[1])
      BY <2>1, <2>2
    <2> HIDE DEF W
    <2> QED BY <2>3, <2>4 DEF Text
  <1> HIDE DEF W
  <1>4. PICK f \in [Query -> W] : Recurs(f, step, Query)
    BY <1>2, ValueRecursion
  <1>5. f = [q \in Query |-> Body(f, q)]
    <2>1. ASSUME NEW q \in Query PROVE f[q] = Body(f, q)
      <3>1. Mapped(f, q) \in Seq(W)
        BY <1>4, MappedIs
      <3>2. f[q] = Text(q, Mapped(f, q))
        BY <1>1, <1>4, <3>1 DEF Recurs
      <3> HIDE DEF Body
      <3> QED BY <1>3, <3>2
    <2> HIDE DEF Body
    <2> QED BY <1>4, <2>1
  <1>6. Fmt = [q \in Query |-> Body(Fmt, q)]
    BY <1>5, Zenon DEF Fmt
  <1> HIDE DEF Body, Child
  <1>7. ASSUME NEW q \in Query PROVE Fmt[q] = Text(q, Mapped(Fmt, q))
    <2>1. Fmt[q] = Body(Fmt, q)
      BY <1>6, Zenon
    <2> QED BY <1>3, <2>1
  <1>8. Fmt \in [Query -> W]
    <2>1. Fmt = [q \in Query |-> Fmt[q]]
      BY <1>6, Zenon
    <2>2. \A q \in Query : Mapped(Fmt, q) \in Seq(W) => Fmt[q] = step[q][Mapped(Fmt, q)]
      BY <1>1, <1>7
    <2> QED BY <1>2, <2>1, <2>2, RecursionType
  <1> QED BY <1>7, <1>8 DEF W

-----------------------------------------------------------------------------
(* Reading a key.                                                          *)

\* Where joined texts stand, the first stands there, then a separator, then the
\* others joined.
LEMMA AtJoined ==
  ASSUME NEW S, NEW toks \in Seq(S), NEW i \in Nat, NEW sep \in S,
         NEW parts \in Seq(Seq(S)), parts # << >>, At(toks, i, Joined(sep, parts))
  PROVE  LET j == i + Len(parts[1])
         IN  /\ At(toks, i, parts[1]) /\ Len(parts[1]) \in Nat
             /\ Len(parts) = 1 => Joined(sep, parts) = parts[1]
             /\ Len(parts) # 1 =>
                  /\ Tail(parts) # << >> /\ Tail(parts) \in Seq(Seq(S))
                  /\ j \in 1 .. Len(toks) /\ toks[j] = sep
                  /\ At(toks, j + 1, Joined(sep, Tail(parts)))
                  /\ Len(Joined(sep, Tail(parts))) \in Nat
                  /\ i + Len(Joined(sep, parts)) = (j + 1) + Len(Joined(sep, Tail(parts)))
  <1> DEFINE a == parts[1]
             t == Tail(parts)
             r == Joined(sep, t)
             o == <<sep>>
             all == Joined(sep, parts)
             j == i + Len(a)
  <1>1. /\ a \in Seq(S) /\ t \in Seq(Seq(S))
        /\ Len(parts) = 1 => all = a
        /\ Len(parts) # 1 => t # << >> /\ all = a \o (o \o r)
    BY JoinedIs
  <1>2. Len(parts) # 1 => r \in Seq(S)
    BY <1>1, JoinedIs
  <1>3. o \in Seq(S) /\ Len(o) = 1
    OBVIOUS
  <1> HIDE DEF a, t, r, all
  <1>4. Len(a) \in Nat
    BY <1>1
  <1>5. CASE Len(parts) = 1
    BY <1>1, <1>4, <1>5 DEF all, a
  <1>6. CASE Len(parts) # 1
    <2>1. o \o r \in Seq(S) /\ Len(o \o r) = 1 + Len(r) /\ Len(r) \in Nat
      <3> HIDE DEF o
      <3> QED BY <1>2, <1>3, <1>6, ConcatProperties, LenProperties
    <2>2. At(toks, i, a \o (o \o r))
      BY <1>1, <1>6 DEF all
    <2>3. At(toks, i, a) /\ At(toks, j, o \o r)
      <3> HIDE DEF o
      <3> QED BY <1>1, <2>1, <2>2, AtConcat
    <2>4. j \in Nat
      BY <1>4
    <2> HIDE DEF j
    <2>5. j \in 1 .. Len(toks) /\ toks[j] = sep /\ At(toks, j + 1, r)
      BY <1>2, <1>6, <2>3, <2>4, AtFirst
    <2>6. Len(all) = Len(a) + Len(o \o r)
      <3> HIDE DEF o
      <3> QED BY <1>1, <1>6, <2>1, ConcatProperties
    <2>7. i + Len(all) = (j + 1) + Len(r)
      BY <1>4, <2>1, <2>6 DEF j
    <2> QED BY <1>1, <1>4, <1>6, <2>1, <2>3, <2>5, <2>7 DEF a, t, r, all, j
  <1> QED BY <1>5, <1>6

\* Elements and separators in turn.
Dotted(toks, i, sep, p) ==
  /\ \A k \in 1 .. Len(p) : i + 2 * (k - 1) \in 1 .. Len(toks) /\ toks[i + 2 * (k - 1)] = p[k]
  /\ \A k \in 1 .. Len(p) - 1 : i + 2 * k - 1 \in 1 .. Len(toks) /\ toks[i + 2 * k - 1] = sep
  /\ Len(Joined(sep, Singles(p))) = 2 * Len(p) - 1

\* All but the first of the elements.
LEMMA SinglesTail ==
  ASSUME NEW S, NEW p \in Seq(S), p # << >> PROVE Tail(Singles(p)) = Singles(Tail(p))
  <1> DEFINE V == Seq(S)
             a == Tail(Singles(p))
             b == Singles(Tail(p))
             n == Len(p)
  <1>1. /\ Singles(p) \in Seq(V) /\ Len(Singles(p)) = n /\ Singles(p) # << >>
        /\ \A i \in 1 .. n : Singles(p)[i] = <<p[i]>>
    BY SinglesAre
  <1>2. /\ Tail(p) \in Seq(S) /\ n \in Nat /\ 1 <= n /\ Len(Tail(p)) = n - 1
        /\ \A i \in 1 .. n - 1 : Tail(p)[i] = p[i + 1]
    BY FirstAndRest
  <1>3. /\ b \in Seq(V) /\ Len(b) = n - 1
        /\ \A i \in 1 .. n - 1 : b[i] = <<Tail(p)[i]>>
    BY <1>2, SinglesAre
  <1> HIDE DEF V, b, n
  <1>4. /\ a \in Seq(V) /\ Len(a) = n - 1
        /\ \A i \in 1 .. n - 1 : a[i] = Singles(p)[i + 1]
    BY <1>1, FirstAndRest
  <1> HIDE DEF a
  <1>5. ASSUME NEW i \in 1 .. n - 1 PROVE a[i] = b[i]
    <2>1. i + 1 \in 1 .. n
      BY <1>2
    <2> QED BY <1>1, <1>2, <1>3, <1>4, <2>1
  <1>6. a = b
    BY <1>3, <1>4, <1>5, SeqEqual
  <1> QED BY <1>6 DEF a, b

\* Where elements stand joined, they stand at every other place.
LEMMA DottedIs ==
  ASSUME NEW S, NEW toks \in Seq(S), NEW sep \in S
  PROVE  \A p \in Seq(S) : \A i \in Nat :
           p # << >> /\ At(toks, i, Joined(sep, Singles(p))) => Dotted(toks, i, sep, p)
  <1> DEFINE T == {n \in Nat : \A p \in Seq(S) : \A i \in Nat :
                     Len(p) = n + 1 /\ At(toks, i, Joined(sep, Singles(p)))
                       => Dotted(toks, i, sep, p)}
  <1>1. ASSUME NEW p \in Seq(S), NEW i \in Nat, Len(p) = 1, At(toks, i, Joined(sep, Singles(p)))
        PROVE  Dotted(toks, i, sep, p)
    <2>1. p # << >> /\ 1 \in 1 .. Len(p)
      BY <1>1
    <2>2. /\ Singles(p) \in Seq(Seq(S)) /\ Singles(p) # << >> /\ Len(Singles(p)) = 1
          /\ Singles(p)[1] = <<p[1]>>
      BY <1>1, <2>1, SinglesAre
    <2>3. At(toks, i, <<p[1]>>) /\ Joined(sep, Singles(p)) = <<p[1]>>
      <3> DEFINE s == Singles(p)
      <3>1. s \in Seq(Seq(S)) /\ s # << >> /\ Len(s) = 1 /\ At(toks, i, Joined(sep, s))
        BY <1>1, <2>2
      <3> HIDE DEF s
      <3>2. At(toks, i, s[1])
        BY <3>1, AtJoined, Zenon
      <3>3. Joined(sep, s) = s[1]
        BY <3>1, AtJoined, SMTT(40)
      <3> QED BY <2>2, <3>2, <3>3 DEF s
    <2>4. i \in 1 .. Len(toks) /\ toks[i] = p[1]
      BY <2>3, AtOne
    <2>5. Len(<<p[1]>>) = 2 * Len(p) - 1
      BY <1>1
    <2>6. ASSUME NEW k \in 1 .. Len(p)
          PROVE  i + 2 * (k - 1) \in 1 .. Len(toks) /\ toks[i + 2 * (k - 1)] = p[k]
      <3>1. k = 1 /\ i + 2 * (k - 1) = i
        BY <1>1
      <3> QED BY <2>4, <3>1
    <2>7. 1 .. Len(p) - 1 = {}
      BY <1>1
    <2> QED BY <2>3, <2>5, <2>6, <2>7 DEF Dotted
  <1>2. ASSUME NEW n \in Nat, n \in T, NEW p \in Seq(S), NEW i \in Nat, Len(p) = (n + 1) + 1,
               At(toks, i, Joined(sep, Singles(p)))
        PROVE  Dotted(toks, i, sep, p)
    <2> DEFINE r == Tail(p)
    <2>1. p # << >> /\ 1 \in 1 .. Len(p) /\ Len(p) # 1
      BY <1>2
    <2>2. /\ r \in Seq(S) /\ Len(r) = n + 1 /\ \A k \in 1 .. n + 1 : r[k] = p[k + 1]
      BY <1>2, <2>1, FirstAndRest
    <2>3. /\ Singles(p) \in Seq(Seq(S)) /\ Singles(p) # << >> /\ Len(Singles(p)) # 1
          /\ Singles(p)[1] = <<p[1]>> /\ Tail(Singles(p)) = Singles(r)
      BY <2>1, SinglesAre, SinglesTail
    <2>4. Len(<<p[1]>>) = 1
      OBVIOUS
    <2>5. /\ At(toks, i, <<p[1]>>) /\ i + 1 \in 1 .. Len(toks) /\ toks[i + 1] = sep
          /\ At(toks, (i + 1) + 1, Joined(sep, Singles(r)))
          /\ Len(Joined(sep, Singles(r))) \in Nat
          /\ i + Len(Joined(sep, Singles(p))) = ((i + 1) + 1) + Len(Joined(sep, Singles(r)))
      <3> DEFINE b == Singles(p)
                 j == i + Len(b[1])
      <3>1. At(toks, i, Joined(sep, b)) /\ b \in Seq(Seq(S)) /\ b # << >> /\ Len(b) # 1
        BY <1>2, <2>3
      <3>2. b[1] = <<p[1]>> /\ Tail(b) = Singles(r)
        BY <2>3
      <3> HIDE DEF b, T, r
      <3>3. /\ At(toks, i, b[1]) /\ j \in 1 .. Len(toks) /\ toks[j] = sep
            /\ At(toks, j + 1, Joined(sep, Tail(b)))
            /\ Len(Joined(sep, Tail(b))) \in Nat
            /\ i + Len(Joined(sep, b)) = (j + 1) + Len(Joined(sep, Tail(b)))
        BY <3>1, AtJoined
      <3>4. j = i + 1
        BY <2>4, <3>2
      <3> HIDE DEF j
      <3> QED BY <3>2, <3>3, <3>4 DEF b
    <2>6. i \in 1 .. Len(toks) /\ toks[i] = p[1]
      BY <2>5, AtOne
    <2> HIDE DEF r
    <2>7. Dotted(toks, (i + 1) + 1, sep, r)
      BY <1>2, <2>2, <2>5
    <2>8. ASSUME NEW k \in 1 .. Len(p)
          PROVE  i + 2 * (k - 1) \in 1 .. Len(toks) /\ toks[i + 2 * (k - 1)] = p[k]
      <3>1. CASE k = 1
        <4>1. i + 2 * (k - 1) = i
          BY <3>1
        <4> QED BY <2>6, <3>1, <4>1
      <3>2. CASE k # 1
        <4>1. /\ k - 1 \in 1 .. Len(r) /\ k - 1 \in 1 .. n + 1 /\ (k - 1) + 1 = k
              /\ ((i + 1) + 1) + 2 * ((k - 1) - 1) = i + 2 * (k - 1)
          BY <1>2, <2>2, <3>2
        <4>2. /\ ((i + 1) + 1) + 2 * ((k - 1) - 1) \in 1 .. Len(toks)
              /\ toks[((i + 1) + 1) + 2 * ((k - 1) - 1)] = r[k - 1]
          BY <2>7, <4>1 DEF Dotted
        <4> QED BY <2>2, <4>1, <4>2
      <3> QED BY <3>1, <3>2
    <2>9. ASSUME NEW k \in 1 .. Len(p) - 1
          PROVE  i + 2 * k - 1 \in 1 .. Len(toks) /\ toks[i + 2 * k - 1] = sep
      <3>1. CASE k = 1
        <4>1. i + 2 * k - 1 = i + 1
          BY <3>1
        <4> QED BY <2>5, <4>1
      <3>2. CASE k # 1
        <4>1. k - 1 \in 1 .. Len(r) - 1
          <5>1. Len(p) - 1 = n + 1 /\ Len(r) - 1 = n
            BY <1>2, <2>2
          <5>2. k \in 1 .. n + 1 /\ k - 1 \in 1 .. n
            BY <3>2, <5>1
          <5> QED BY <5>1, <5>2
        <4>2. ((i + 1) + 1) + 2 * (k - 1) - 1 = i + 2 * k - 1
          OBVIOUS
        <4> QED BY <2>7, <4>1, <4>2 DEF Dotted
      <3> QED BY <3>1, <3>2
    <2>10. Len(Joined(sep, Singles(p))) = 2 * Len(p) - 1
      <3>1. Len(Joined(sep, Singles(r))) = 2 * (n + 1) - 1
        BY <2>2, <2>7 DEF Dotted
      <3>2. Len(Joined(sep, Singles(p))) \in Nat
        <4>1. Joined(sep, Singles(p)) \in Seq(S)
          BY <2>3, JoinedIs
        <4> QED BY <4>1
      <3>3. /\ Len(p) = n + 2
            /\ i + Len(Joined(sep, Singles(p))) = ((i + 1) + 1) + Len(Joined(sep, Singles(r)))
        BY <1>2, <2>5
      <3> HIDE DEF T
      <3> QED BY <3>1, <3>2, <3>3
    <2> QED BY <2>8, <2>9, <2>10 DEF Dotted
  <1>3. 0 \in T
    BY <1>1
  <1>4. ASSUME NEW n \in Nat, n \in T PROVE n + 1 \in T
    BY <1>2, <1>4
  <1>5. Nat \subseteq T
    <2> HIDE DEF T
    <2> QED BY <1>3, <1>4, NumbersInduction
  <1>6. ASSUME NEW p \in Seq(S), p # << >> PROVE Len(p) - 1 \in T /\ Len(p) = (Len(p) - 1) + 1
    <2>1. Len(p) - 1 \in Nat
      BY <1>6, FirstAndRest
    <2> HIDE DEF T
    <2> QED BY <1>5, <2>1
  <1> QED BY <1>6

\* Elements joined without separators.
LEMMA FlattenSingles ==
  ASSUME NEW S PROVE \A p \in Seq(S) : FlattenSeq(Singles(p)) = p
  <1> DEFINE V == Seq(S)
             T == {p \in V : FlattenSeq(Singles(p)) = p}
  <1>1. << >> \in T
    <2>1. Singles(<< >>) = << >> /\ << >> \in V
      BY DEF Singles
    <2> QED BY <2>1, FlattenEmpty
  <1>2. ASSUME NEW p \in Seq(S), NEW e \in S, p \in T PROVE Append(p, e) \in T
    <2> DEFINE a == Append(p, e)
               b == Append(Singles(p), <<e>>)
               n == Len(p)
    <2>1. <<e>> \in V /\ a \in Seq(S) /\ n \in Nat /\ Len(a) = n + 1 /\ a[n + 1] = e
          /\ (\A k \in 1 .. n : a[k] = p[k]) /\ a = p \o <<e>>
      BY AppendProperties, AppendIsConcat
    <2>2. /\ Singles(p) \in Seq(V) /\ Len(Singles(p)) = n
          /\ \A k \in 1 .. n : Singles(p)[k] = <<p[k]>>
      BY SinglesAre
    <2> HIDE DEF a, V
    <2>3. /\ Singles(a) \in Seq(V) /\ Len(Singles(a)) = n + 1
          /\ \A k \in 1 .. n + 1 : Singles(a)[k] = <<a[k]>>
      BY <2>1, SinglesAre DEF V
    <2> HIDE DEF n
    <2>4. /\ b \in Seq(V) /\ Len(b) = n + 1 /\ b[n + 1] = <<e>>
          /\ \A k \in 1 .. n : b[k] = Singles(p)[k]
      BY <2>1, <2>2, AppendProperties
    <2> HIDE DEF b
    <2>5. ASSUME NEW k \in 1 .. n + 1 PROVE Singles(a)[k] = b[k]
      <3>1. CASE k = n + 1
        BY <2>1, <2>3, <2>4, <3>1
      <3>2. CASE k # n + 1
        <4>1. k \in 1 .. n
          BY <2>1, <3>2
        <4> QED BY <2>1, <2>2, <2>3, <2>4, <4>1
      <3> QED BY <3>1, <3>2
    <2>6. Singles(a) = b
      BY <2>3, <2>4, <2>5, SeqEqual
    <2>7. FlattenSeq(b) = FlattenSeq(Singles(p)) \o <<e>>
      BY <2>1, <2>2, FlattenAppend DEF V, b
    <2>8. FlattenSeq(Singles(p)) = p
      BY <1>2
    <2> QED BY <2>1, <2>6, <2>7, <2>8 DEF a, V
  <1>3. V \subseteq T
    <2> HIDE DEF T
    <2>1. \A s \in Seq(S) : \A e \in S : s \in T => Append(s, e) \in T
      BY <1>2
    <2> QED BY <1>1, <2>1, SequencesInduction
  <1> QED BY <1>3

\* A key ends where no point follows.
LEMMA KeyLengthIs ==
  ASSUME NEW toks \in Seq(Token), NEW i \in Nat, NEW n \in 1 .. Len(toks),
         Peek(toks, i + 2 * n - 1) # ".",
         \A m \in 1 .. n - 1 : Peek(toks, i + 2 * m - 1) = "."
  PROVE  KeyLength(toks, i) = n
  <1> DEFINE Ends(k) == /\ Peek(toks, i + 2 * k - 1) # "."
                        /\ \A m \in 1 .. k - 1 : Peek(toks, i + 2 * m - 1) = "."
             c == CHOOSE k \in 1 .. Len(toks) : Ends(k)
  <1>1. Ends(n) /\ Len(toks) \in Nat
    OBVIOUS
  <1>2. c \in 1 .. Len(toks) /\ Ends(c)
    BY <1>1, Zenon
  <1>3. KeyLength(toks, i) = c
    BY Zenon DEF KeyLength
  <1> HIDE DEF c
  <1>4. ~ (c < n)
    <2>1. c < n => c \in 1 .. n - 1
      BY <1>1, <1>2
    <2> QED BY <1>1, <1>2, <2>1
  <1>5. ~ (n < c)
    <2>1. n < c => n \in 1 .. c - 1
      BY <1>1, <1>2
    <2> QED BY <1>1, <1>2, <2>1
  <1>6. c = n
    BY <1>1, <1>2, <1>4, <1>5
  <1> QED BY <1>3, <1>6

\* What the next token is.
LEMMA PeekIs ==
  ASSUME NEW toks \in Seq(Token), NEW i \in 1 .. Len(toks)
  PROVE  Peek(toks, i) = toks[i].tok /\ DOMAIN toks = 1 .. Len(toks)
  <1>1. DOMAIN toks = 1 .. Len(toks)
    OBVIOUS
  <1> QED BY <1>1 DEF Peek

\* A segment that is no keyword in capitals is read as it was.
LEMMA SegmentIs ==
  ASSUME NEW w, w \notin Capitals PROVE Segment(Lexed(w)) = <<w>>
  BY DEF Segment, Lexed, Keywords, Tok, Ident

\* A printed key is read as it was.
LEMMA KeyRead ==
  ASSUME NEW toks \in Seq(Token), NEW i \in Nat, NEW key \in Keys,
         \A k \in DOMAIN key : key[k] \notin Capitals,
         At(toks, i, Key(key)), Peek(toks, i + Len(Key(key))) # "."
  PROVE  /\ Len(Key(key)) = 2 * Len(Segments(toks, i)) - 1 /\ Len(Segments(toks, i)) \in Nat
         /\ \A k \in DOMAIN Segments(toks, i) : Segments(toks, i)[k] # << >>
         /\ FlattenSeq(Segments(toks, i)) = key
  <1> DEFINE s == Segments(toks, i)
             V == Seq(Names)
  <1>1. /\ key \in V /\ key # << >>
        /\ LexedKey(key) \in Seq(Token) /\ Len(LexedKey(key)) = Len(key)
        /\ \A k \in 1 .. Len(key) : LexedKey(key)[k] = Lexed(key[k])
        /\ Key(key) = IF \E k \in DOMAIN key : key[k] \in Odd THEN <<Quoted(key)>>
                      ELSE Joined(Tok("."), Singles(LexedKey(key)))
    BY KeyIs
  <1>2. CASE \E k \in DOMAIN key : key[k] \in Odd
    <2>1. Key(key) = <<Quoted(key)>>
      BY <1>1, <1>2
    <2>2. i \in 1 .. Len(toks) /\ toks[i] = Quoted(key)
      BY <2>1, AtOne
    <2>3. Len(Key(key)) = 1
      BY <2>1
    <2>4. KeyLength(toks, i) = 1
      <3>1. /\ 1 \in 1 .. Len(toks) /\ i + 2 * 1 - 1 = i + 1
            /\ \A m \in 1 .. 1 - 1 : Peek(toks, i + 2 * m - 1) = "."
        BY <2>2
      <3>2. Peek(toks, i + 2 * 1 - 1) # "."
        BY <2>3, <3>1
      <3> QED BY <3>1, <3>2, KeyLengthIs
    <2>5. s = <<key>>
      <3>1. DOMAIN toks = 1 .. Len(toks) /\ Segment(Quoted(key)) = key
        BY DEF Segment, Quoted, Keywords
      <3>2. s = [k \in 1 .. 1 |->
                   IF i + 2 * (k - 1) \in DOMAIN toks THEN Segment(toks[i + 2 * (k - 1)]) ELSE << >>]
        BY <2>4 DEF Segments
      <3>3. ASSUME NEW k \in 1 .. 1
            PROVE  (IF i + 2 * (k - 1) \in DOMAIN toks THEN Segment(toks[i + 2 * (k - 1)])
                    ELSE << >>) = key
        <4>1. i + 2 * (k - 1) = i
          OBVIOUS
        <4> QED BY <2>2, <3>1, <4>1
      <3>4. s = [k \in 1 .. 1 |-> key]
        BY <3>2, <3>3
      <3> HIDE DEF s
      <3> QED BY <3>4
    <2>6. FlattenSeq(<<key>>) = key
      BY <1>1, FlattenOne
    <2>7. Len(<<key>>) = 1 /\ DOMAIN <<key>> = {1} /\ <<key>>[1] = key
      OBVIOUS
    <2> HIDE DEF s
    <2>8. FlattenSeq(s) = key /\ Len(s) = 1 /\ \A k \in DOMAIN s : s[k] = key
      BY <2>5, <2>6, <2>7
    <2> QED BY <1>1, <2>3, <2>8 DEF s
  <1>3. CASE ~ \E k \in DOMAIN key : key[k] \in Odd
    <2> DEFINE l == LexedKey(key)
               n == Len(key)
    <2>1. Key(key) = Joined(Tok("."), Singles(l)) /\ Tok(".") \in Token
      BY <1>1, <1>3, TokensAre DEF Marks
    <2>2. n \in Nat /\ 1 <= n /\ DOMAIN key = 1 .. n /\ l # << >> /\ Len(l) = n
      <3>1. n \in Nat /\ 1 <= n /\ DOMAIN key = 1 .. n
        BY <1>1, FirstAndRest
      <3>2. Len(l) = n /\ Len(<< >>) = 0
        BY <1>1
      <3> HIDE DEF n, l
      <3> QED BY <3>1, <3>2
    <2>3. Dotted(toks, i, Tok("."), l)
      <3>1. At(toks, i, Joined(Tok("."), Singles(l))) /\ l \in Seq(Token)
        BY <1>1, <2>1
      <3> HIDE DEF l
      <3> QED BY <2>1, <2>2, <3>1, DottedIs
    <2>4. Len(Key(key)) = 2 * n - 1
      BY <2>1, <2>2, <2>3 DEF Dotted
    <2>5. /\ \A k \in 1 .. n : i + 2 * (k - 1) \in 1 .. Len(toks)
                               /\ toks[i + 2 * (k - 1)] = Lexed(key[k])
          /\ \A k \in 1 .. n - 1 : i + 2 * k - 1 \in 1 .. Len(toks) /\ toks[i + 2 * k - 1] = Tok(".")
      BY <1>1, <2>2, <2>3 DEF Dotted
    <2>6. KeyLength(toks, i) = n
      <3>1. Len(toks) \in Nat /\ n \in 1 .. Len(toks)
        <4>1. n \in 1 .. n /\ Len(toks) \in Nat
          BY <2>2
        <4>2. i + 2 * (n - 1) \in 1 .. Len(toks)
          BY <2>5, <4>1
        <4>3. n = 1 => i + 2 * (n - 1) = i
          BY <2>2
        <4> HIDE DEF n
        <4> QED BY <2>2, <4>1, <4>2, <4>3
      <3>2. Peek(toks, i + 2 * n - 1) # "."
        <4>1. i + Len(Key(key)) = i + 2 * n - 1
          BY <2>2, <2>4
        <4> QED BY <4>1
      <3>3. ASSUME NEW m \in 1 .. n - 1 PROVE Peek(toks, i + 2 * m - 1) = "."
        <4>1. i + 2 * m - 1 \in 1 .. Len(toks) /\ toks[i + 2 * m - 1] = Tok(".")
          BY <2>5
        <4> QED BY <4>1, PeekIs DEF Tok
      <3> HIDE DEF n
      <3> QED BY <3>1, <3>2, <3>3, KeyLengthIs
    <2>7. s = Singles(key)
      <3>1. s = [k \in 1 .. n |->
                   IF i + 2 * (k - 1) \in DOMAIN toks THEN Segment(toks[i + 2 * (k - 1)]) ELSE << >>]
        BY <2>6 DEF Segments
      <3>2. ASSUME NEW k \in 1 .. n
            PROVE  (IF i + 2 * (k - 1) \in DOMAIN toks THEN Segment(toks[i + 2 * (k - 1)])
                    ELSE << >>) = <<key[k]>>
        <4>1. i + 2 * (k - 1) \in DOMAIN toks /\ toks[i + 2 * (k - 1)] = Lexed(key[k])
          BY <2>5
        <4>2. key[k] \notin Capitals
          BY <2>2
        <4> QED BY <4>1, <4>2, SegmentIs
      <3> HIDE DEF s, n
      <3>3. s = [k \in 1 .. n |-> <<key[k]>>]
        BY <3>1, <3>2
      <3> QED BY <2>2, <3>3 DEF Singles
    <2>8. /\ FlattenSeq(Singles(key)) = key /\ Len(Singles(key)) = n
          /\ Singles(key) \in Seq(V)
          /\ \A k \in 1 .. n : Singles(key)[k] = <<key[k]>>
      BY <1>1, FlattenSingles, SinglesAre
    <2>9. ASSUME NEW k \in DOMAIN Singles(key) PROVE Singles(key)[k] # << >>
      <3>1. k \in 1 .. n
        BY <2>2 DEF Singles
      <3>2. Singles(key)[k] = <<key[k]>>
        BY <2>8, <3>1
      <3>3. \A x : <<x>> # << >>
        OBVIOUS
      <3> QED BY <3>2, <3>3, Zenon
    <2> HIDE DEF s, n
    <2> QED BY <2>2, <2>4, <2>7, <2>8, <2>9 DEF s
  <1> QED BY <1>2, <1>3

-----------------------------------------------------------------------------
(* Reading a predicate.                                                    *)

\* Which tokens tell the operators apart.
LEMMA OperatorCases ==
  ASSUME NEW op \in ReadOperators
  PROVE  \/ op = <<"=", "value">> /\ op[1] = "=" /\ Len(op) = 2
         \/ op = <<"exists">> /\ op[1] = "exists" /\ Len(op) = 1
         \/ op = <<"not", "exists">> /\ op[1] = "not" /\ op[2] = "exists" /\ Len(op) = 2
         \/ /\ op = <<"in", "[", "value", "]">> /\ op[1] = "in" /\ op[4] = "]" /\ Len(op) = 4
         \/ /\ op = <<"in", "[", "value", ",", "value", "]">> /\ op[1] = "in" /\ op[4] = ","
            /\ Len(op) = 6
         \/ /\ op = <<"not", "in", "[", "value", "]">> /\ op[1] = "not" /\ op[2] = "in"
            /\ Len(op) = 5
  <1>1. op = <<"=", "value">> => op[1] = "=" /\ Len(op) = 2
    OBVIOUS
  <1>2. op = <<"exists">> => op[1] = "exists" /\ Len(op) = 1
    OBVIOUS
  <1>3. op = <<"not", "exists">> => op[1] = "not" /\ op[2] = "exists" /\ Len(op) = 2
    OBVIOUS
  <1>4. op = <<"in", "[", "value", "]">> => op[1] = "in" /\ op[4] = "]" /\ Len(op) = 4
    OBVIOUS
  <1>5. op = <<"in", "[", "value", ",", "value", "]">> => op[1] = "in" /\ op[4] = "," /\ Len(op) = 6
    <2>1. \A a, b, c, d, e, f : /\ <<a, b, c, d, e, f>>[1] = a /\ <<a, b, c, d, e, f>>[4] = d
                               /\ Len(<<a, b, c, d, e, f>>) = 6
      OBVIOUS
    <2> DEFINE o == <<"in", "[", "value", ",", "value", "]">>
    <2>2. o[1] = "in" /\ o[4] = "," /\ Len(o) = 6
      BY <2>1, Zenon
    <2> HIDE DEF o
    <2>3. op = o => op[1] = "in" /\ op[4] = "," /\ Len(op) = 6
      BY <2>2, Zenon
    <2> QED BY <2>3 DEF o
  <1>6. op = <<"not", "in", "[", "value", "]">> => op[1] = "not" /\ op[2] = "in" /\ Len(op) = 5
    OBVIOUS
  <1> QED BY <1>1, <1>2, <1>3, <1>4, <1>5, <1>6, Zenon DEF ReadOperators

\* No operator is the beginning of another.
LEMMA OperatorsApart ==
  ASSUME NEW a \in ReadOperators, NEW b \in ReadOperators,
         \A j \in 1 .. Len(a) : j \in 1 .. Len(b) => a[j] = b[j]
  PROVE  a = b
  <1>1. /\ 1 \in 1 .. Len(a) /\ 1 \in 1 .. Len(b)
        /\ Len(a) \in Nat /\ Len(b) \in Nat
    BY OpIs
  <1>2. a[1] = b[1]
    BY <1>1
  <1>3. 2 <= Len(a) /\ 2 <= Len(b) => a[2] = b[2]
    BY <1>1
  <1>4. 4 <= Len(a) /\ 4 <= Len(b) => a[4] = b[4]
    BY <1>1
  <1> DEFINE u == <<"=", "value">>
             v == <<"exists">>
             w == <<"not", "exists">>
             x == <<"in", "[", "value", "]">>
             y == <<"in", "[", "value", ",", "value", "]">>
             z == <<"not", "in", "[", "value", "]">>
             Cases(op) == \/ op = u /\ op[1] = "=" /\ Len(op) = 2
                          \/ op = v /\ op[1] = "exists" /\ Len(op) = 1
                          \/ op = w /\ op[1] = "not" /\ op[2] = "exists" /\ Len(op) = 2
                          \/ op = x /\ op[1] = "in" /\ op[4] = "]" /\ Len(op) = 4
                          \/ op = y /\ op[1] = "in" /\ op[4] = "," /\ Len(op) = 6
                          \/ op = z /\ op[1] = "not" /\ op[2] = "in" /\ Len(op) = 5
  <1>5. Cases(a) /\ Cases(b)
    BY OperatorCases, Zenon
  <1> HIDE DEF u, v, w, x, y, z
  <1>6. /\ \A n : n = 1 => ~ (2 <= n) /\ ~ (4 <= n)
        /\ \A n : n = 2 => 2 <= n /\ ~ (4 <= n)
        /\ \A n : n = 4 \/ n = 5 \/ n = 6 => 2 <= n /\ 4 <= n
    OBVIOUS
  <1>7. /\ "=" # "exists" /\ "=" # "not" /\ "=" # "in" /\ "exists" # "not" /\ "exists" # "in"
        /\ "not" # "in" /\ "]" # ","
    OBVIOUS
  <1>8. CASE a = u /\ a[1] = "="
    BY <1>2, <1>5, <1>7, <1>8, Zenon
  <1>9. CASE a = v /\ a[1] = "exists"
    BY <1>2, <1>5, <1>7, <1>9, Zenon
  <1>10. CASE a = w /\ a[1] = "not" /\ a[2] = "exists" /\ Len(a) = 2
    BY <1>2, <1>3, <1>5, <1>6, <1>7, <1>10, Zenon
  <1>11. CASE a = x /\ a[1] = "in" /\ a[4] = "]" /\ Len(a) = 4
    BY <1>2, <1>4, <1>5, <1>6, <1>7, <1>11, Zenon
  <1>12. CASE a = y /\ a[1] = "in" /\ a[4] = "," /\ Len(a) = 6
    BY <1>2, <1>4, <1>5, <1>6, <1>7, <1>12, Zenon
  <1>13. CASE a = z /\ a[1] = "not" /\ a[2] = "in" /\ Len(a) = 5
    BY <1>2, <1>3, <1>5, <1>6, <1>7, <1>13, Zenon
  <1> QED BY <1>5, <1>8, <1>9, <1>10, <1>11, <1>12, <1>13, Zenon

\* A printed operator is read as it was.
LEMMA OperatorRead ==
  ASSUME NEW toks \in Seq(Token), NEW i \in Nat, NEW op \in ReadOperators, At(toks, i, Op(op)),
         NEW field
  PROVE  /\ ParseOperator(toks, i, field) = Read(<<Leaf(field, op)>>, i + Len(Op(op)))
         /\ Peek(toks, i) = op[1]
  <1>1. /\ Len(Op(op)) = Len(op) /\ Len(op) \in Nat /\ 1 <= Len(op) /\ DOMAIN op = 1 .. Len(op)
        /\ \A j \in 1 .. Len(op) : Op(op)[j] = Tok(op[j])
    BY OpIs
  <1>2. ASSUME NEW j \in 1 .. Len(op) PROVE Peek(toks, i + j - 1) = op[j]
    <2>1. i + j - 1 \in 1 .. Len(toks) /\ toks[i + j - 1] = Tok(op[j])
      BY <1>1 DEF At
    <2> QED BY <2>1, PeekIs DEF Tok
  <1> DEFINE Fits(o) == \A j \in DOMAIN o : Peek(toks, i + j - 1) = o[j]
             fits == {o \in ReadOperators : Fits(o)}
             c == CHOOSE o \in fits : TRUE
  <1>3. op \in fits
    BY <1>1, <1>2
  <1>4. c \in fits
    BY <1>3, Zenon
  <1>5. ParseOperator(toks, i, field) = Read(<<Leaf(field, c)>>, i + Len(c))
    <2>1. fits # {}
      BY <1>3
    <2> QED BY <2>1, Zenon DEF ParseOperator
  <1> HIDE DEF c
  <1>6. c = op
    <2>1. c \in ReadOperators /\ DOMAIN c = 1 .. Len(c) /\ Fits(c)
      BY <1>4, OpIs
    <2>2. \A j \in 1 .. Len(op) : j \in 1 .. Len(c) => op[j] = c[j]
      BY <1>2, <2>1
    <2> QED BY <2>1, <2>2, OperatorsApart
  <1>7. Peek(toks, i) = op[1]
    <2>1. 1 \in 1 .. Len(op) /\ i + 1 - 1 = i
      BY <1>1
    <2> QED BY <1>2, <2>1
  <1> QED BY <1>1, <1>5, <1>6, <1>7

\* A printed predicate is read as it was, whatever follows.
LEMMA PredicateRead ==
  ASSUME NEW toks \in Seq(Token), NEW i \in Nat, NEW q \in Query, q.kind = "predicate",
         WellFormed(q), At(toks, i, Fmt[q])
  PROVE  /\ ParsePredicate(toks, i) = Read(<<q>>, i + Len(Fmt[q]))
         /\ Peek(toks, i) = "ident"
  <1> DEFINE field == q.field
             op == q.op
             a == Field(field)
             b == Op(op)
  <1>1. field \in Fields /\ op \in ReadOperators /\ q = Leaf(field, op)
    BY LeafIs, WellFormedArgs DEF Operators
  <1>2. \A k \in DOMAIN field.key : field.key[k] \notin Capitals
    BY WellFormedArgs
  <1>3. Fmt[q] = a \o b
    BY FmtIs, Zenon DEF Text
  <1>4. /\ a \in Seq(Token) /\ 1 <= Len(a) /\ Len(a) \in Nat
        /\ \/ /\ field.space = "reserved" /\ field.key[1] \in Words
              /\ field = [space |-> "reserved", key |-> <<field.key[1]>>]
              /\ a = <<Ident(field.key[1])>>
           \/ /\ field.space \in Spaces /\ field.key \in Keys
              /\ field = [space |-> field.space, key |-> field.key]
              /\ a = <<Ident(field.space)>> \o (<<Tok(".")>> \o Key(field.key))
    BY <1>1, FieldIs
  <1>5. b \in Seq(Token) /\ Len(b) \in Nat
    BY <1>1, OpIs
  <1> HIDE DEF field, op, a, b
  <1>6. /\ At(toks, i, a) /\ At(toks, i + Len(a), b)
        /\ Len(Fmt[q]) = Len(a) + Len(b)
    BY <1>3, <1>4, <1>5, AtConcat, ConcatProperties
  <1>7. \A f : /\ ParseOperator(toks, i + Len(a), f) = Read(<<Leaf(f, op)>>, i + Len(a) + Len(b))
               /\ Peek(toks, i + Len(a)) = op[1]
    <2>1. i + Len(a) \in Nat /\ Len(b) = Len(Op(op)) /\ At(toks, i + Len(a), Op(op))
      BY <1>4, <1>6 DEF b
    <2> DEFINE j == i + Len(a)
    <2> HIDE DEF j
    <2>2. ASSUME NEW f
          PROVE  /\ ParseOperator(toks, j, f) = Read(<<Leaf(f, op)>>, j + Len(b))
                 /\ Peek(toks, j) = op[1]
      BY <1>1, <2>1, OperatorRead DEF j
    <2> QED BY <2>2 DEF j
  <1>8. Peek(toks, i + Len(a)) # "."
    BY <1>1, <1>7, OpIs
  <1>9. i + Len(a) + Len(b) = i + Len(Fmt[q])
    BY <1>4, <1>5, <1>6
  <1>10. CASE /\ field.space = "reserved" /\ field = [space |-> "reserved", key |-> <<field.key[1]>>]
              /\ a = <<Ident(field.key[1])>>
    <2>1. i \in 1 .. Len(toks) /\ toks[i] = Ident(field.key[1]) /\ Len(a) = 1
      BY <1>6, <1>10, AtOne
    <2>2. Peek(toks, i) = "ident" /\ toks[i].key[1] = field.key[1]
      BY <2>1, PeekIs DEF Ident
    <2>3. Peek(toks, i + 1) # "."
      BY <1>8, <2>1
    <2>4. ParsePredicate(toks, i)
            = ParseOperator(toks, i + 1, [space |-> "reserved", key |-> <<toks[i].key[1]>>])
      BY <2>2, <2>3, Zenon DEF ParsePredicate
    <2>5. ParsePredicate(toks, i) = ParseOperator(toks, i + Len(a), field)
      BY <1>10, <2>1, <2>2, <2>4
    <2> QED BY <1>1, <1>7, <1>9, <2>2, <2>5
  <1>11. CASE /\ field.space \in Spaces /\ field.key \in Keys
              /\ field = [space |-> field.space, key |-> field.key]
              /\ a = <<Ident(field.space)>> \o (<<Tok(".")>> \o Key(field.key))
    <2> DEFINE k == Key(field.key)
               segments == Segments(toks, i + 2)
    <2>1. Ident(field.space) \in Token /\ Tok(".") \in Token /\ k \in Seq(Token) /\ Len(k) \in Nat
      <3>1. k \in Seq(Token)
        BY <1>11, KeyIs
      <3>2. Ident(field.space) \in Token
        BY <1>11, TokensAre DEF Names
      <3>3. Tok(".") \in Token
        BY TokensAre DEF Marks
      <3>4. Len(k) \in Nat
        BY <3>1, LenProperties
      <3> QED BY <3>1, <3>2, <3>3, <3>4
    <2> HIDE DEF k
    <2>2. /\ i \in 1 .. Len(toks) /\ toks[i] = Ident(field.space)
          /\ i + 1 \in 1 .. Len(toks) /\ toks[i + 1] = Tok(".")
          /\ At(toks, i + 2, k) /\ Len(a) = 2 + Len(k)
      <3> DEFINE o == <<Tok(".")>>
                 p == <<Ident(field.space)>>
      <3>1. /\ o \in Seq(Token) /\ Len(o) = 1
            /\ p \in Seq(Token) /\ Len(p) = 1
        BY <2>1
      <3>2. o \o k \in Seq(Token) /\ Len(o \o k) = 1 + Len(k)
        <4> HIDE DEF o
        <4>1. o \in Seq(Token) /\ k \in Seq(Token)
          BY <2>1, <3>1
        <4>2. o \o k \in Seq(Token) /\ Len(o \o k) = Len(o) + Len(k)
          BY <4>1, ConcatProperties
        <4> QED BY <3>1, <4>2
      <3>3. a = p \o (o \o k)
        BY <1>11 DEF k
      <3>4. Len(a) = 1 + (1 + Len(k))
        <4> HIDE DEF o, p
        <4> QED BY <3>1, <3>2, <3>3, ConcatProperties
      <3>5. i \in 1 .. Len(toks) /\ toks[i] = Ident(field.space) /\ At(toks, i + 1, o \o k)
        <4> HIDE DEF o
        <4> QED BY <1>6, <2>1, <3>2, <3>3, AtFirst DEF p
      <3>6. i + 1 \in Nat /\ (i + 1) + 1 = i + 2
        OBVIOUS
      <3>7. i + 1 \in 1 .. Len(toks) /\ toks[i + 1] = Tok(".") /\ At(toks, (i + 1) + 1, k)
        BY <2>1, <3>5, <3>6, AtFirst
      <3> QED BY <2>1, <3>4, <3>5, <3>6, <3>7
    <2>3. i + 2 \in Nat /\ (i + 2) + Len(k) = i + Len(a) /\ i + 1 \in 1 .. Len(toks)
      BY <2>1, <2>2
    <2>4. Peek(toks, (i + 2) + Len(k)) # "."
      BY <1>8, <2>3
    <2>5. /\ Len(k) = 2 * Len(segments) - 1 /\ Len(segments) \in Nat
          /\ \A j \in DOMAIN segments : segments[j] # << >>
          /\ FlattenSeq(segments) = field.key
      BY <1>2, <1>11, <2>2, <2>3, <2>4, KeyRead DEF k
    <2>6. Peek(toks, i) = "ident" /\ toks[i].key[1] = field.space /\ Peek(toks, i + 1) = "."
      BY <2>2, PeekIs DEF Ident, Tok
    <2>7. i + 1 + 2 * Len(segments) = i + Len(a)
      BY <2>1, <2>2, <2>5
    <2> HIDE DEF segments
    <2>8. ParsePredicate(toks, i)
            = ParseOperator(toks, i + 1 + 2 * Len(segments),
                            [space |-> toks[i].key[1], key |-> FlattenSeq(segments)])
      BY <1>11, <2>5, <2>6, Zenon DEF ParsePredicate, segments
    <2>9. ParsePredicate(toks, i) = ParseOperator(toks, i + Len(a), field)
      BY <1>11, <2>5, <2>6, <2>7, <2>8
    <2> QED BY <1>1, <1>7, <1>9, <2>6, <2>9
  <1> QED BY <1>4, <1>10, <1>11

-----------------------------------------------------------------------------
(* The parser's tables.                                                    *)

\* What the operands at one depth are, given those at the next.
Layer(toks, left, deeper) ==
  [i \in Places(toks) |-> ParseUnary(toks, Len(toks) - left, deeper, i)]

\* A function that gives them for every depth that has up to n tokens left.
LayersTo(toks, f, n) ==
  f = [left \in 0 .. n |-> IF left = 0 THEN Nowhere(toks) ELSE Layer(toks, left, f[left - 1])]

\* What a loop reads, given what it reads one operand later.
Loop(kind, toks, operand, later) ==
  [j \in Places(toks) |->
     LET first == operand[j]
         rest  == later[first.at + 1]
     IN  IF first = SyntaxError \/ Peek(toks, first.at) # kind THEN first
         ELSE IF rest = SyntaxError THEN SyntaxError
         ELSE Read(first.trees \o rest.trees, rest.at)]

\* A function that gives it for up to n operands.
LoopsTo(kind, toks, operand, f, n) ==
  f = [m \in 0 .. n |-> IF m = 0 THEN Nowhere(toks) ELSE Loop(kind, toks, operand, f[m - 1])]

\* The depths' operands are defined.
LEMMA LayersExist ==
  ASSUME NEW toks PROVE \A n \in Nat : \E f : LayersTo(toks, f, n)
  <1> DEFINE T == {n \in Nat : \E f : LayersTo(toks, f, n)}
  <1>1. 0 \in T
    <2> DEFINE f == [n \in 0 .. 0 |-> Nowhere(toks)]
    <2>1. f = [n \in 0 .. 0 |-> IF n = 0 THEN Nowhere(toks) ELSE Layer(toks, n, f[n - 1])]
      OBVIOUS
    <2>2. LayersTo(toks, f, 0)
      BY <2>1 DEF LayersTo
    <2> HIDE DEF f
    <2> QED BY <2>2
  <1>2. ASSUME NEW n \in Nat, n \in T PROVE n + 1 \in T
    <2>1. PICK f : LayersTo(toks, f, n)
      BY <1>2
    <2> DEFINE new == Layer(toks, n + 1, f[n])
               g == [k \in 0 .. n + 1 |-> IF k = n + 1 THEN new ELSE f[k]]
    <2>2. ASSUME NEW k \in 0 .. n + 1
          PROVE  g[k] = IF k = 0 THEN Nowhere(toks) ELSE Layer(toks, k, g[k - 1])
      <3>1. CASE k = n + 1
        <4>1. k # 0 /\ k - 1 = n /\ n \in 0 .. n + 1 /\ n # n + 1
          BY <3>1
        <4>2. g[k] = new /\ g[k - 1] = f[n]
          BY <3>1, <4>1
        <4> QED BY <3>1, <4>1, <4>2
      <3>2. CASE k # n + 1
        <4>1. k \in 0 .. n /\ (k # 0 => k - 1 \in 0 .. n /\ k - 1 \in 0 .. n + 1 /\ k - 1 # n + 1)
          BY <3>2
        <4>2. f[k] = IF k = 0 THEN Nowhere(toks) ELSE Layer(toks, k, f[k - 1])
          BY <2>1, <4>1 DEF LayersTo
        <4>3. g[k] = f[k] /\ (k # 0 => g[k - 1] = f[k - 1])
          BY <3>2, <4>1
        <4> QED BY <4>2, <4>3
      <3> QED BY <3>1, <3>2
    <2>3. g = [k \in 0 .. n + 1 |-> g[k]]
      OBVIOUS
    <2> HIDE DEF g
    <2>4. LayersTo(toks, g, n + 1)
      BY <2>2, <2>3 DEF LayersTo
    <2> QED BY <2>4
  <1>3. Nat \subseteq T
    <2> HIDE DEF T
    <2> QED BY <1>1, <1>2, NumbersInduction
  <1> QED BY <1>3

\* A loop's reads are defined.
LEMMA LoopsExist ==
  ASSUME NEW kind, NEW toks, NEW operand PROVE \A n \in Nat : \E f : LoopsTo(kind, toks, operand, f, n)
  <1> DEFINE T == {n \in Nat : \E f : LoopsTo(kind, toks, operand, f, n)}
  <1>1. 0 \in T
    <2> DEFINE f == [n \in 0 .. 0 |-> Nowhere(toks)]
    <2>1. f = [n \in 0 .. 0 |-> IF n = 0 THEN Nowhere(toks) ELSE Loop(kind, toks, operand, f[n - 1])]
      OBVIOUS
    <2>2. LoopsTo(kind, toks, operand, f, 0)
      BY <2>1 DEF LoopsTo
    <2> HIDE DEF f
    <2> QED BY <2>2
  <1>2. ASSUME NEW n \in Nat, n \in T PROVE n + 1 \in T
    <2>1. PICK f : LoopsTo(kind, toks, operand, f, n)
      BY <1>2
    <2> DEFINE new == Loop(kind, toks, operand, f[n])
               g == [k \in 0 .. n + 1 |-> IF k = n + 1 THEN new ELSE f[k]]
    <2>2. ASSUME NEW k \in 0 .. n + 1
          PROVE  g[k] = IF k = 0 THEN Nowhere(toks) ELSE Loop(kind, toks, operand, g[k - 1])
      <3>1. CASE k = n + 1
        <4>1. k # 0 /\ k - 1 = n /\ n \in 0 .. n + 1 /\ n # n + 1
          BY <3>1
        <4>2. g[k] = new /\ g[k - 1] = f[n]
          BY <3>1, <4>1
        <4> QED BY <3>1, <4>1, <4>2
      <3>2. CASE k # n + 1
        <4>1. k \in 0 .. n /\ (k # 0 => k - 1 \in 0 .. n /\ k - 1 \in 0 .. n + 1 /\ k - 1 # n + 1)
          BY <3>2
        <4>2. f[k] = IF k = 0 THEN Nowhere(toks) ELSE Loop(kind, toks, operand, f[k - 1])
          BY <2>1, <4>1 DEF LoopsTo
        <4>3. g[k] = f[k] /\ (k # 0 => g[k - 1] = f[k - 1])
          BY <3>2, <4>1
        <4> QED BY <4>2, <4>3
      <3> QED BY <3>1, <3>2
    <2>3. g = [k \in 0 .. n + 1 |-> g[k]]
      OBVIOUS
    <2> HIDE DEF g
    <2>4. LoopsTo(kind, toks, operand, g, n + 1)
      BY <2>2, <2>3 DEF LoopsTo
    <2> QED BY <2>4
  <1>3. Nat \subseteq T
    <2> HIDE DEF T
    <2> QED BY <1>1, <1>2, NumbersInduction
  <1> QED BY <1>3

\* f gives the operands at every depth.
Layered(toks, f) == \A left \in 1 .. Len(toks) : f[left] = Layer(toks, left, f[left - 1])

\* The parser's operands come from such a table.
LEMMA UnaryIs ==
  ASSUME NEW S, NEW toks \in Seq(S)
  PROVE  \E f : Layered(toks, f) /\ Unary(toks) = f[Len(toks)]
  <1> DEFINE n == Len(toks)
             c == CHOOSE c : c = [left \in 0 .. Len(toks) |->
                    IF left = 0 THEN Nowhere(toks)
                    ELSE [i \in Places(toks) |-> ParseUnary(toks, Len(toks) - left, c[left - 1], i)]]
  <1>1. n \in Nat
    OBVIOUS
  <1>2. PICK f : LayersTo(toks, f, n)
    BY <1>1, LayersExist
  <1>3. f = [left \in 0 .. Len(toks) |->
               IF left = 0 THEN Nowhere(toks)
               ELSE [i \in Places(toks) |-> ParseUnary(toks, Len(toks) - left, f[left - 1], i)]]
    BY <1>2, Zenon DEF LayersTo, Layer
  <1>4. c = [left \in 0 .. Len(toks) |->
               IF left = 0 THEN Nowhere(toks)
               ELSE [i \in Places(toks) |-> ParseUnary(toks, Len(toks) - left, c[left - 1], i)]]
    BY <1>3, Zenon
  <1>5. Unary(toks) = c[Len(toks)]
    BY Zenon DEF Unary
  <1> HIDE DEF c
  <1>6. LayersTo(toks, c, n)
    BY <1>4, Zenon DEF LayersTo, Layer
  <1>7. ASSUME NEW left \in 1 .. Len(toks) PROVE c[left] = Layer(toks, left, c[left - 1])
    <2>1. left \in 0 .. n /\ left # 0
      BY <1>1
    <2> QED BY <1>6, <2>1, Zenon DEF LayersTo
  <1> QED BY <1>5, <1>7 DEF Layered

\* f gives what a loop reads for every number of operands.
Looped(kind, toks, operand, f) ==
  \A m \in 1 .. Len(toks) : f[m] = Loop(kind, toks, operand, f[m - 1])

\* A loop's reads come from such a table.
LEMMA OperandsIs ==
  ASSUME NEW S, NEW toks \in Seq(S), NEW kind, NEW operand
  PROVE  \E f : /\ Looped(kind, toks, operand, f)
                /\ \A i : Operands(kind, toks, operand, i) = Group(kind, f[Len(toks)][i])
  <1> DEFINE n == Len(toks)
             c == CHOOSE c : c = [m \in 0 .. Len(toks) |->
                    IF m = 0 THEN Nowhere(toks)
                    ELSE [j \in Places(toks) |->
                            LET first == operand[j]
                                rest  == c[m - 1][first.at + 1]
                            IN  IF first = SyntaxError \/ Peek(toks, first.at) # kind THEN first
                                ELSE IF rest = SyntaxError THEN SyntaxError
                                ELSE Read(first.trees \o rest.trees, rest.at)]]
  <1>1. n \in Nat
    OBVIOUS
  <1>2. PICK f : LoopsTo(kind, toks, operand, f, n)
    BY <1>1, LoopsExist
  <1>3. f = [m \in 0 .. Len(toks) |->
               IF m = 0 THEN Nowhere(toks)
               ELSE [j \in Places(toks) |->
                       LET first == operand[j]
                           rest  == f[m - 1][first.at + 1]
                       IN  IF first = SyntaxError \/ Peek(toks, first.at) # kind THEN first
                           ELSE IF rest = SyntaxError THEN SyntaxError
                           ELSE Read(first.trees \o rest.trees, rest.at)]]
    BY <1>2, Zenon DEF LoopsTo, Loop
  <1>4. c = [m \in 0 .. Len(toks) |->
               IF m = 0 THEN Nowhere(toks)
               ELSE [j \in Places(toks) |->
                       LET first == operand[j]
                           rest  == c[m - 1][first.at + 1]
                       IN  IF first = SyntaxError \/ Peek(toks, first.at) # kind THEN first
                           ELSE IF rest = SyntaxError THEN SyntaxError
                           ELSE Read(first.trees \o rest.trees, rest.at)]]
    BY <1>3, Zenon
  <1>5. \A i : Operands(kind, toks, operand, i) = Group(kind, c[Len(toks)][i])
    BY Zenon DEF Operands
  <1> HIDE DEF c
  <1>6. LoopsTo(kind, toks, operand, c, n)
    BY <1>4, Zenon DEF LoopsTo, Loop
  <1>7. ASSUME NEW m \in 1 .. Len(toks) PROVE c[m] = Loop(kind, toks, operand, c[m - 1])
    <2>1. m \in 0 .. n /\ m # 0
      BY <1>1
    <2> QED BY <1>6, <2>1, Zenon DEF LoopsTo
  <1> QED BY <1>5, <1>7 DEF Looped

-----------------------------------------------------------------------------
(* Reading a group's children.                                             *)

\* Where a text stands.
LEMMA AtPlaces ==
  ASSUME NEW S, NEW toks \in Seq(S), NEW i \in Nat, NEW s \in Seq(S), s # << >>, At(toks, i, s)
  PROVE  /\ Len(toks) \in Nat /\ Len(s) \in Nat /\ 1 <= Len(s)
         /\ i \in 1 .. Len(toks) /\ i + Len(s) \in Places(toks) /\ i \in Places(toks)
  <1>1. Len(toks) \in Nat /\ Len(s) \in Nat /\ 1 <= Len(s)
    <2>1. Len(s) # 0
      BY EmptySeq
    <2> QED BY <2>1
  <1>2. 1 \in 1 .. Len(s) /\ Len(s) \in 1 .. Len(s)
    BY <1>1
  <1>3. i + 1 - 1 \in 1 .. Len(toks) /\ i + Len(s) - 1 \in 1 .. Len(toks)
    BY <1>2 DEF At
  <1> QED BY <1>1, <1>3 DEF Places

\* The last operand ends a loop.
LEMMA LoopEnds ==
  ASSUME NEW toks, NEW kind, NEW operand, NEW f, Looped(kind, toks, operand, f),
         NEW m \in 1 .. Len(toks), NEW i \in Places(toks), NEW t, NEW e,
         operand[i] = Read(t, e), Peek(toks, e) # kind
  PROVE  f[m][i] = Read(t, e)
  <1>1. f[m] = Loop(kind, toks, operand, f[m - 1])
    BY DEF Looped
  <1>2. Read(t, e).at = e
    BY DEF Read
  <1> DEFINE first == operand[i]
  <1>3. first = Read(t, e) /\ Peek(toks, first.at) # kind
    BY <1>2
  <1>4. Loop(kind, toks, operand, f[m - 1])[i] = first
    BY <1>3, Zenon DEF Loop
  <1> QED BY <1>1, <1>3, <1>4

\* Every other one is followed by what the loop reads behind it.
LEMMA LoopGoesOn ==
  ASSUME NEW toks, NEW kind, NEW operand, NEW f, Looped(kind, toks, operand, f),
         NEW m \in 1 .. Len(toks), NEW i \in Places(toks), NEW t, NEW e \in Nat, 1 <= e,
         operand[i] = Read(t, e), Peek(toks, e) = kind,
         NEW s, NEW d \in Nat, 1 <= d, f[m - 1][e + 1] = Read(s, d)
  PROVE  f[m][i] = Read(t \o s, d)
  <1>1. f[m] = Loop(kind, toks, operand, f[m - 1])
    BY DEF Looped
  <1>2. /\ Read(t, e).at = e /\ Read(t, e).trees = t /\ Read(t, e) # SyntaxError
        /\ Read(s, d).at = d /\ Read(s, d).trees = s /\ Read(s, d) # SyntaxError
    BY DEF Read, SyntaxError
  <1> DEFINE first == operand[i]
             rest  == f[m - 1][first.at + 1]
  <1>3. /\ first = Read(t, e) /\ Peek(toks, first.at) = kind /\ first # SyntaxError
        /\ rest = Read(s, d) /\ rest # SyntaxError
    BY <1>2
  <1>4. Loop(kind, toks, operand, f[m - 1])[i] = Read(first.trees \o rest.trees, rest.at)
    BY <1>3, Zenon DEF Loop
  <1>5. first.trees = t /\ rest.trees = s /\ rest.at = d
    BY <1>2, <1>3
  <1> HIDE DEF first, rest
  <1> QED BY <1>1, <1>4, <1>5

GroupKinds == {"and", "or"}

\* An operand reads part as tree from some place on when the separator or the end
\* follows.
ReadsPart(toks, operand, kind, from, end, part, tree) ==
  \A j \in Nat :
    /\ from <= j /\ At(toks, j, part)
    /\ Peek(toks, j + Len(part)) = kind \/ j + Len(part) = end
    => operand[j] = Read(<<tree>>, j + Len(part))

\* The parts stand at i, joined, up to the end, and an operand reads each.
Laid(toks, operand, kind, from, end, i, parts, trees) ==
  /\ from <= i /\ parts \in Seq(Seq(Token)) /\ parts # << >>
  /\ trees \in Seq(Query) /\ Len(trees) = Len(parts)
  /\ At(toks, i, Joined(Tok(kind), parts)) /\ i + Len(Joined(Tok(kind), parts)) = end
  /\ \A k \in 1 .. Len(parts) :
       parts[k] # << >> /\ ReadsPart(toks, operand, kind, from, end, parts[k], trees[k])

\* One part.
LEMMA LaidOne ==
  ASSUME NEW toks \in Seq(Token), NEW kind \in GroupKinds, NEW operand, NEW from \in Nat,
         NEW end \in Nat, NEW i \in Nat, NEW parts, NEW trees,
         Laid(toks, operand, kind, from, end, i, parts, trees), Len(parts) = 1
  PROVE  i \in 1 .. Len(toks) /\ i \in Places(toks) /\ operand[i] = Read(trees, end)
  <1>1. /\ from <= i /\ parts \in Seq(Seq(Token)) /\ parts # << >>
        /\ trees \in Seq(Query) /\ Len(trees) = 1
        /\ At(toks, i, Joined(Tok(kind), parts)) /\ i + Len(Joined(Tok(kind), parts)) = end
        /\ parts[1] # << >> /\ ReadsPart(toks, operand, kind, from, end, parts[1], trees[1])
    BY DEF Laid
  <1>2. Tok(kind) \in Token
    BY TokensAre DEF Marks, GroupKinds
  <1>3. parts[1] \in Seq(Token) /\ Joined(Tok(kind), parts) = parts[1]
    BY <1>1, <1>2, JoinedIs
  <1>4. At(toks, i, parts[1]) /\ i + Len(parts[1]) = end
    BY <1>1, <1>3
  <1>5. operand[i] = Read(<<trees[1]>>, end)
    BY <1>1, <1>4 DEF ReadsPart
  <1>6. trees = <<trees[1]>>
    BY <1>1
  <1> QED BY <1>1, <1>3, <1>4, <1>5, <1>6, AtPlaces

\* Where more texts than one stand joined.
LEMMA JoinedApart ==
  ASSUME NEW toks \in Seq(Token), NEW i \in Nat, NEW sep \in Token,
         NEW parts \in Seq(Seq(Token)), parts # << >>, Len(parts) # 1,
         At(toks, i, Joined(sep, parts))
  PROVE  /\ At(toks, i, parts[1]) /\ Len(parts[1]) \in Nat
         /\ Tail(parts) # << >>
         /\ i + Len(parts[1]) \in 1 .. Len(toks) /\ toks[i + Len(parts[1])] = sep
         /\ At(toks, i + Len(parts[1]) + 1, Joined(sep, Tail(parts)))
         /\ Len(Joined(sep, Tail(parts))) \in Nat
         /\ i + Len(Joined(sep, parts)) = i + Len(parts[1]) + 1 + Len(Joined(sep, Tail(parts)))
  <1>1. At(toks, i, parts[1]) /\ Len(parts[1]) \in Nat
    BY AtJoined
  <1>2. Tail(parts) # << >>
    BY AtJoined
  <1>3. i + Len(parts[1]) \in 1 .. Len(toks)
    BY AtJoined
  <1>4. toks[i + Len(parts[1])] = sep
    BY AtJoined
  <1>5. At(toks, i + Len(parts[1]) + 1, Joined(sep, Tail(parts)))
    BY AtJoined
  <1>6. Len(Joined(sep, Tail(parts))) \in Nat
    BY AtJoined
  <1>7. i + Len(Joined(sep, parts)) = i + Len(parts[1]) + 1 + Len(Joined(sep, Tail(parts)))
    BY AtJoined
  <1> QED BY <1>1, <1>2, <1>3, <1>4, <1>5, <1>6, <1>7, Zenon

\* The first part ends at e.
LaidFirst(toks, operand, kind, from, end, i, parts, trees, e) ==
  /\ i \in 1 .. Len(toks) /\ i \in Places(toks) /\ i < e /\ e \in 1 .. Len(toks)
  /\ operand[i] = Read(<<trees[1]>>, e) /\ Peek(toks, e) = kind
  /\ Laid(toks, operand, kind, from, end, e + 1, Tail(parts), Tail(trees))
  /\ Len(Tail(parts)) = Len(parts) - 1 /\ trees = <<trees[1]>> \o Tail(trees)

\* Several parts: the first, and the others behind a separator.
LEMMA LaidMore ==
  ASSUME NEW toks \in Seq(Token), NEW kind \in GroupKinds, NEW operand, NEW from \in Nat,
         NEW end \in Nat, NEW i \in Nat, NEW parts, NEW trees,
         Laid(toks, operand, kind, from, end, i, parts, trees), Len(parts) # 1
  PROVE  \E e \in Nat : LaidFirst(toks, operand, kind, from, end, i, parts, trees, e)
  <1> DEFINE sep == Tok(kind)
             p == Tail(parts)
             t == Tail(trees)
             a == parts[1]
             e == i + Len(a)
             n == Len(parts)
  <1>1. /\ from <= i /\ parts \in Seq(Seq(Token)) /\ parts # << >>
        /\ trees \in Seq(Query) /\ Len(trees) = n
        /\ At(toks, i, Joined(sep, parts)) /\ i + Len(Joined(sep, parts)) = end
        /\ \A k \in 1 .. n :
             parts[k] # << >> /\ ReadsPart(toks, operand, kind, from, end, parts[k], trees[k])
    BY DEF Laid
  <1>2. sep \in Token
    BY TokensAre DEF Marks, GroupKinds
  <1>3. /\ a \in Seq(Token) /\ p \in Seq(Seq(Token)) /\ n \in Nat /\ 1 <= n /\ Len(p) = n - 1
        /\ \A k \in 1 .. n - 1 : p[k] = parts[k + 1]
    <2> DEFINE V == Seq(Token)
    <2>1. parts \in Seq(V)
      BY <1>1
    <2> HIDE DEF V
    <2>2. /\ a \in V /\ p \in Seq(V) /\ n \in Nat /\ 1 <= n /\ Len(p) = n - 1
          /\ \A k \in 1 .. n - 1 : p[k] = parts[k + 1]
      BY <1>1, <2>1, FirstAndRest
    <2> QED BY <2>2 DEF V
  <1>4. /\ t \in Seq(Query) /\ Len(t) = n - 1 /\ trees = <<trees[1]>> \o t
        /\ \A k \in 1 .. n - 1 : t[k] = trees[k + 1]
    <2>1. trees # << >>
      BY <1>1, <1>3
    <2> HIDE DEF n
    <2> QED BY <1>1, <2>1, FirstAndRest
  <1> HIDE DEF sep, p, t, n
  <1>5. /\ At(toks, i, a) /\ Len(a) \in Nat /\ p # << >>
        /\ e \in 1 .. Len(toks) /\ toks[e] = sep
        /\ At(toks, e + 1, Joined(sep, p))
        /\ Len(Joined(sep, p)) \in Nat
        /\ i + Len(Joined(sep, parts)) = (e + 1) + Len(Joined(sep, p))
    <2>1. /\ parts \in Seq(Seq(Token)) /\ parts # << >> /\ Len(parts) # 1
          /\ At(toks, i, Joined(sep, parts))
      BY <1>1
    <2>2. /\ At(toks, i, parts[1]) /\ Len(parts[1]) \in Nat
          /\ Tail(parts) # << >>
          /\ i + Len(parts[1]) \in 1 .. Len(toks) /\ toks[i + Len(parts[1])] = sep
          /\ At(toks, i + Len(parts[1]) + 1, Joined(sep, Tail(parts)))
          /\ Len(Joined(sep, Tail(parts))) \in Nat
          /\ i + Len(Joined(sep, parts)) = i + Len(parts[1]) + 1 + Len(Joined(sep, Tail(parts)))
      <3> HIDE DEF a, e
      <3>1. At(toks, i, parts[1]) /\ Len(parts[1]) \in Nat
        BY <1>2, <2>1, JoinedApart
      <3>2. Tail(parts) # << >>
        <4>1. Len(Tail(parts)) # 0
          BY <1>3, <2>1 DEF p, n
        <4>2. Len(<< >>) = 0
          OBVIOUS
        <4> QED BY <4>1, <4>2, Zenon
      <3>3. i + Len(parts[1]) \in 1 .. Len(toks) /\ toks[i + Len(parts[1])] = sep
        BY <1>2, <2>1, JoinedApart
      <3>4. At(toks, i + Len(parts[1]) + 1, Joined(sep, Tail(parts)))
        BY <1>2, <2>1, JoinedApart
      <3>5. Len(Joined(sep, Tail(parts))) \in Nat
        BY <1>2, <2>1, JoinedApart
      <3>6. i + Len(Joined(sep, parts))
              = i + Len(parts[1]) + 1 + Len(Joined(sep, Tail(parts)))
        BY <1>2, <2>1, JoinedApart
      <3> QED BY <3>1, <3>2, <3>3, <3>4, <3>5, <3>6, Zenon
    <2> QED BY <2>2, Zenon DEF p
  <1>6. Peek(toks, e) = kind
    BY <1>5, PeekIs DEF Tok, sep
  <1>7. a # << >> /\ operand[i] = Read(<<trees[1]>>, e)
    <2>1. 1 \in 1 .. n
      BY <1>3
    <2>2. a # << >> /\ ReadsPart(toks, operand, kind, from, end, a, trees[1])
      BY <1>1, <2>1
    <2>3. from <= i
      BY <1>1
    <2> HIDE DEF a
    <2> QED BY <1>5, <1>6, <2>2, <2>3 DEF ReadsPart
  <1>8. i \in 1 .. Len(toks) /\ i \in Places(toks) /\ 1 <= Len(a)
    BY <1>3, <1>5, <1>7, AtPlaces
  <1>9. Laid(toks, operand, kind, from, end, e + 1, p, t)
    <2>1. ASSUME NEW k \in 1 .. Len(p)
          PROVE  p[k] # << >> /\ ReadsPart(toks, operand, kind, from, end, p[k], t[k])
      <3>1. k \in 1 .. n - 1 /\ k + 1 \in 1 .. n
        BY <1>3
      <3> QED BY <1>1, <1>3, <1>4, <3>1
    <2>2. (e + 1) + Len(Joined(sep, p)) = end
      BY <1>1, <1>5
    <2>3. from <= e + 1
      BY <1>1, <1>5
    <2> HIDE DEF e
    <2> QED BY <1>3, <1>4, <1>5, <2>1, <2>2, <2>3 DEF Laid, sep
  <1>10. i < e /\ e \in Nat
    BY <1>5, <1>8
  <1> HIDE DEF e
  <1>11. LaidFirst(toks, operand, kind, from, end, i, parts, trees, e)
    BY <1>3, <1>4, <1>5, <1>6, <1>7, <1>8, <1>9, <1>10 DEF LaidFirst, p, t, n
  <1> QED BY <1>10, <1>11

\* Parts that are laid out are read in full, by as many rounds as there are parts.
LEMMA LaidRead ==
  ASSUME NEW toks \in Seq(Token), NEW kind \in GroupKinds, NEW operand, NEW f,
         Looped(kind, toks, operand, f), NEW from \in Nat, NEW end \in Nat,
         1 <= end, Peek(toks, end) # kind
  PROVE  \A n \in Nat : \A i \in Nat : \A parts, trees :
           Laid(toks, operand, kind, from, end, i, parts, trees) /\ Len(parts) = n + 1 =>
             /\ i + n <= Len(toks) /\ i \in Places(toks)
             /\ \A m \in n + 1 .. Len(toks) : f[m][i] = Read(trees, end)
  <1> DEFINE N == Len(toks)
             ReadAt(n, i, trees) ==
               /\ i + n <= N /\ i \in Places(toks)
               /\ \A m \in n + 1 .. N : f[m][i] = Read(trees, end)
             T == {n \in Nat : \A i \in Nat : \A parts, trees :
                     Laid(toks, operand, kind, from, end, i, parts, trees) /\ Len(parts) = n + 1
                       => ReadAt(n, i, trees)}
  <1>1. N \in Nat
    OBVIOUS
  <1>2. ASSUME NEW i \in Nat, NEW parts, NEW trees,
               Laid(toks, operand, kind, from, end, i, parts, trees), Len(parts) = 0 + 1
        PROVE  ReadAt(0, i, trees)
    <2>1. Len(parts) = 1
      BY <1>2
    <2>2. i \in 1 .. N /\ i \in Places(toks) /\ operand[i] = Read(trees, end)
      BY <1>2, <2>1, LaidOne
    <2>3. ASSUME NEW m \in 0 + 1 .. N PROVE f[m][i] = Read(trees, end)
      BY <2>2, LoopEnds
    <2> QED BY <1>1, <2>2, <2>3
  <1>3. ASSUME NEW n \in Nat, n \in T, NEW i \in Nat, NEW parts, NEW trees,
               Laid(toks, operand, kind, from, end, i, parts, trees), Len(parts) = (n + 1) + 1
        PROVE  ReadAt(n + 1, i, trees)
    <2>1. Laid(toks, operand, kind, from, end, i, parts, trees) /\ Len(parts) # 1
      BY <1>3
    <2>6. PICK e \in Nat : LaidFirst(toks, operand, kind, from, end, i, parts, trees, e)
      <3> HIDE DEF T, ReadAt, N
      <3> QED BY <2>1, LaidMore, Zenon
    <2>2. /\ i \in 1 .. N /\ i \in Places(toks) /\ i < e /\ e \in 1 .. N
          /\ operand[i] = Read(<<trees[1]>>, e) /\ Peek(toks, e) = kind
          /\ Laid(toks, operand, kind, from, end, e + 1, Tail(parts), Tail(trees))
          /\ Len(Tail(parts)) = Len(parts) - 1 /\ trees = <<trees[1]>> \o Tail(trees)
      BY <2>6, Zenon DEF LaidFirst
    <2>3. ReadAt(n, e + 1, Tail(trees))
      <3>1. e + 1 \in Nat /\ Len(Tail(parts)) = n + 1
        BY <1>3, <2>2
      <3> HIDE DEF ReadAt
      <3> QED BY <1>3, <2>2, <3>1
    <2>4. i + (n + 1) <= N
      BY <1>1, <2>2, <2>3
    <2>5. ASSUME NEW m \in (n + 1) + 1 .. N PROVE f[m][i] = Read(trees, end)
      <3>1. m \in 1 .. N /\ m - 1 \in n + 1 .. N /\ 1 <= e
        BY <1>1, <2>2
      <3>2. f[m - 1][e + 1] = Read(Tail(trees), end)
        BY <2>3, <3>1
      <3>3. f[m][i] = Read(<<trees[1]>> \o Tail(trees), end)
        <4> HIDE DEF T, ReadAt
        <4> QED BY <2>2, <3>1, <3>2, LoopGoesOn
      <3> QED BY <2>2, <3>3, Zenon
    <2> QED BY <2>2, <2>4, <2>5
  <1>5. 0 \in T
    <2> HIDE DEF ReadAt
    <2> QED BY <1>2
  <1>6. ASSUME NEW n \in Nat, n \in T PROVE n + 1 \in T
    <2>1. \A i \in Nat : \A parts, trees :
            Laid(toks, operand, kind, from, end, i, parts, trees) /\ Len(parts) = (n + 1) + 1
              => ReadAt(n + 1, i, trees)
      <3> HIDE DEF T, ReadAt
      <3> QED BY <1>3, <1>6
    <2>2. n + 1 \in Nat
      OBVIOUS
    <2> HIDE DEF ReadAt
    <2> QED BY <2>1, <2>2
  <1>4. Nat \subseteq T
    <2> HIDE DEF T
    <2> QED BY <1>5, <1>6, NumbersInduction
  <1> QED BY <1>4

\* A loop reads all parts, and no more.
LEMMA OperandsRead ==
  ASSUME NEW toks \in Seq(Token), NEW kind \in GroupKinds, NEW operand,
         NEW from \in Nat, NEW end \in Nat, 1 <= end, Peek(toks, end) # kind,
         NEW i \in Nat, NEW parts, NEW trees, Laid(toks, operand, kind, from, end, i, parts, trees)
  PROVE  Operands(kind, toks, operand, i) = Group(kind, Read(trees, end))
  <1>1. PICK f : /\ Looped(kind, toks, operand, f)
                 /\ \A j : Operands(kind, toks, operand, j) = Group(kind, f[Len(toks)][j])
    BY OperandsIs
  <1> DEFINE n == Len(parts) - 1
  <1>2. n \in Nat /\ Len(parts) = n + 1 /\ Len(toks) \in Nat
    <2> DEFINE V == Seq(Token)
    <2>1. parts \in Seq(V) /\ parts # << >>
      BY DEF Laid
    <2> HIDE DEF V
    <2>2. Len(parts) \in Nat /\ 1 <= Len(parts)
      BY <2>1, FirstAndRest
    <2> QED BY <2>2
  <1> HIDE DEF n
  <1>3. /\ i + n <= Len(toks)
        /\ \A m \in n + 1 .. Len(toks) : f[m][i] = Read(trees, end)
    BY <1>1, <1>2, LaidRead
  <1>4. Len(toks) \in n + 1 .. Len(toks)
    <2>1. i \in 1 .. Len(toks)
      <3>1. CASE Len(parts) = 1
        BY <3>1, LaidOne, Zenon
      <3>2. CASE Len(parts) # 1
        BY <3>2, LaidMore DEF LaidFirst
      <3> QED BY <3>1, <3>2
    <2>2. i # 0
      BY <2>1
    <2> QED BY <1>2, <1>3, <2>2
  <1> QED BY <1>1, <1>3, <1>4

\* A single operand.
LEMMA OperandRead ==
  ASSUME NEW toks \in Seq(Token), NEW kind \in GroupKinds, NEW operand,
         NEW end \in Nat, Peek(toks, end) # kind, NEW i \in 1 .. Len(toks), NEW tree,
         operand[i] = Read(<<tree>>, end)
  PROVE  Operands(kind, toks, operand, i) = Read(<<tree>>, end)
  <1>1. PICK f : /\ Looped(kind, toks, operand, f)
                 /\ \A j : Operands(kind, toks, operand, j) = Group(kind, f[Len(toks)][j])
    BY OperandsIs
  <1>2. Len(toks) \in 1 .. Len(toks) /\ i \in Places(toks)
    BY DEF Places
  <1>3. f[Len(toks)][i] = Read(<<tree>>, end)
    BY <1>1, <1>2, LoopEnds
  <1>4. Group(kind, Read(<<tree>>, end)) = Read(<<tree>>, end)
    <2>1. Len(Read(<<tree>>, end).trees) < 2
      BY DEF Read
    <2> QED BY <2>1, Zenon DEF Group
  <1> QED BY <1>1, <1>3, <1>4

-----------------------------------------------------------------------------
(* The texts of a tree's children.                                         *)

\* What a tree prints to as the operand of a negation or of a conjunction.
AsUnary(q) == Grouped(q.kind \in GroupKinds, Fmt[q])

\* The same as the operand of a disjunction.
AsAnd(q) == Grouped(q.kind = "or", Fmt[q])

\* The same for the children of a tree.
Parts(q) == Children(q, Mapped(Fmt, q))

\* A child is put in parentheses when it binds no tighter than its parent.
LEMMA PartsAre ==
  ASSUME NEW q \in Query
  PROVE  /\ Parts(q) \in Seq(Seq(Token)) /\ Len(Parts(q)) = Len(q.args)
         /\ q.args # << >> => Parts(q) # << >>
         /\ \A k \in 1 .. Len(q.args) :
              /\ q.kind \in {"not", "and"} => Parts(q)[k] = AsUnary(q.args[k])
              /\ q.kind = "or" => Parts(q)[k] = AsAnd(q.args[k])
         /\ q.kind = "not" => Fmt[q] = <<Tok("not")>> \o AsUnary(q.args[1])
         /\ q.kind \in GroupKinds => Fmt[q] = Joined(Tok(q.kind), Parts(q))
  <1> DEFINE s == Mapped(Fmt, q)
             n == Len(q.args)
  <1>1. /\ n \in Nat /\ DOMAIN q.args = 1 .. n /\ \A k \in 1 .. n : q.args[k] \in Query
        /\ q.kind = "not" => n = 1
    BY QueryArgs
  <1>2. /\ s \in Seq(Seq(Token)) /\ Len(s) = n /\ \A k \in 1 .. n : s[k] = Fmt[q.args[k]]
    BY FmtIs, MappedIs
  <1> HIDE DEF s
  <1>3. /\ Parts(q) \in Seq(Seq(Token)) /\ Len(Parts(q)) = n
        /\ q.args # << >> => Parts(q) # << >>
        /\ \A k \in 1 .. n : Parts(q)[k] = Bracketed(q, k, s)
    BY <1>2, ChildrenAre DEF Parts, s
  <1> HIDE DEF n
  <1>4. ASSUME NEW k \in 1 .. n
        PROVE  /\ q.kind \in {"not", "and"} => Bracketed(q, k, s) = AsUnary(q.args[k])
               /\ q.kind = "or" => Bracketed(q, k, s) = AsAnd(q.args[k])
    <2> DEFINE c == q.args[k]
               needed == c.kind \in Apart(q.kind) \/ Precedence(c.kind) < Precedence(q.kind)
    <2>1. Bracketed(q, k, s) = Grouped(needed, Fmt[c])
      BY <1>2, Zenon DEF Bracketed
    <2>2. c.kind \in {"predicate", "not", "and", "or"}
      BY <1>1, QueryArgs
    <2>3. q.kind \in {"not", "and"} => (needed <=> c.kind \in GroupKinds)
      <3> HIDE DEF c
      <3> QED BY <2>2 DEF Apart, Precedence, GroupKinds
    <2>4. q.kind = "or" => (needed <=> c.kind = "or")
      <3> HIDE DEF c
      <3> QED BY <2>2 DEF Apart, Precedence
    <2> HIDE DEF needed, c
    <2>5. q.kind \in {"not", "and"} => Grouped(needed, Fmt[c]) = Grouped(c.kind \in GroupKinds, Fmt[c])
      BY <2>3 DEF Grouped
    <2>6. q.kind = "or" => Grouped(needed, Fmt[c]) = Grouped(c.kind = "or", Fmt[c])
      BY <2>4 DEF Grouped
    <2>7. Grouped(c.kind \in GroupKinds, Fmt[c]) = AsUnary(c) /\ Grouped(c.kind = "or", Fmt[c]) = AsAnd(c)
      BY Zenon DEF AsUnary, AsAnd
    <2>8. /\ q.kind \in {"not", "and"} => Bracketed(q, k, s) = AsUnary(c)
          /\ q.kind = "or" => Bracketed(q, k, s) = AsAnd(c)
      BY <2>1, <2>5, <2>6, <2>7
    <2> QED BY <2>8 DEF c
  <1>5. Fmt[q] = Text(q, s)
    BY FmtIs DEF s
  <1>6. q.kind = "not" => Fmt[q] = <<Tok("not")>> \o AsUnary(q.args[1])
    <2>1. q.kind = "not" => Text(q, s) = <<Tok("not")>> \o Bracketed(q, 1, s)
      BY DEF Text
    <2>2. q.kind = "not" => Bracketed(q, 1, s) = AsUnary(q.args[1])
      <3>1. q.kind = "not" => 1 \in 1 .. n
        BY <1>1
      <3> QED BY <1>4, <3>1
    <2> QED BY <1>5, <2>1, <2>2
  <1>7. q.kind \in GroupKinds => Fmt[q] = Joined(Tok(q.kind), Parts(q))
    <2>1. q.kind \in GroupKinds => Text(q, s) = Joined(Tok(q.kind), Children(q, s))
      BY DEF Text, GroupKinds
    <2> QED BY <1>5, <2>1 DEF Parts, s
  <1> QED BY <1>3, <1>4, <1>6, <1>7 DEF n

\* No tree prints to nothing.
LEMMA FmtSomething ==
  \A q \in Query : WellFormed(q) => Fmt[q] \in Seq(Token) /\ Fmt[q] # << >>
  <1> DEFINE U == {q \in Query : WellFormed(q) => Fmt[q] # << >>}
  <1>1. ASSUME NEW q \in Query, \A i \in 1 .. Len(q.args) : q.args[i] \in U, WellFormed(q)
        PROVE  Fmt[q] # << >>
    <2>1. \A i \in 1 .. Len(q.args) : q.args[i] \in Query /\ Fmt[q.args[i]] # << >>
                                     /\ Fmt[q.args[i]] \in Seq(Token)
      BY <1>1, WellFormedArgs, QueryArgs, FmtIs
    <2>2. CASE q.kind = "predicate"
      <3> DEFINE a == Field(q.field)
                 b == Op(q.op)
      <3>1. Fmt[q] = a \o b
        BY <2>2, FmtIs, Zenon DEF Text
      <3>2. a \in Seq(Token) /\ b \in Seq(Token) /\ 1 <= Len(a) /\ Len(a) \in Nat /\ Len(b) \in Nat
        BY <2>2, LeafIs, FieldIs, OpType
      <3> HIDE DEF a, b
      <3>3. Len(a \o b) = Len(a) + Len(b)
        BY <3>2, ConcatProperties
      <3>4. Len(a \o b) # 0
        BY <3>2, <3>3
      <3>5. Len(<< >>) = 0
        OBVIOUS
      <3> QED BY <3>1, <3>4, <3>5
    <2>3. CASE q.kind = "not"
      <3> DEFINE a == <<Tok("not")>>
                 b == AsUnary(q.args[1])
      <3>1. Fmt[q] = a \o b
        BY <2>3, PartsAre
      <3>2. a \in Seq(Token) /\ Len(a) = 1 /\ b \in Seq(Token) /\ Len(b) \in Nat
        <4>1. Tok("not") \in Token
          BY TokensAre DEF Marks
        <4>2. a \in Seq(Token) /\ Len(a) = 1
          BY <4>1
        <4>3. Len(q.args) = 1
          BY <2>3, QueryArgs
        <4>4. Fmt[q.args[1]] \in Seq(Token)
          BY <2>1, <4>3
        <4>5. b \in Seq(Token)
          BY <4>4, GroupedIs DEF AsUnary
        <4> QED BY <4>2, <4>5, LenProperties
      <3> HIDE DEF a, b
      <3>3. Len(a \o b) = Len(a) + Len(b)
        BY <3>2, ConcatProperties
      <3>4. Len(a \o b) # 0
        BY <3>2, <3>3
      <3>5. Len(<< >>) = 0
        OBVIOUS
      <3> QED BY <3>1, <3>4, <3>5
    <2>4. CASE q.kind \in {"and", "or"}
      <3>1. q.args # << >> /\ 1 \in 1 .. Len(q.args)
        <4>1. 1 <= Len(q.args) /\ Len(q.args) \in Nat
          BY <1>1, <2>4, WellFormedArgs, QueryArgs
        <4>2. Len(<< >>) = 0
          OBVIOUS
        <4> QED BY <4>1, <4>2
      <3>2. /\ Parts(q) \in Seq(Seq(Token)) /\ Parts(q) # << >>
            /\ Fmt[q] = Joined(Tok(q.kind), Parts(q))
            /\ Parts(q)[1] = AsUnary(q.args[1]) \/ Parts(q)[1] = AsAnd(q.args[1])
        BY <2>4, <3>1, PartsAre DEF GroupKinds
      <3>3. Parts(q)[1] # << >>
        <4>1. Fmt[q.args[1]] \in Seq(Token) /\ Fmt[q.args[1]] # << >>
          BY <2>1, <3>1
        <4> QED BY <3>2, <4>1, GroupedIs DEF AsUnary, AsAnd
      <3>4. Tok(q.kind) \in Token
        BY <2>4, TokensAre DEF Marks
      <3> DEFINE a == Parts(q)[1]
                 b == <<Tok(q.kind)>> \o Joined(Tok(q.kind), Tail(Parts(q)))
      <3>5. a \in Seq(Token) /\ (Fmt[q] = a \/ (Fmt[q] = a \o b /\ b \in Seq(Token)))
        <4>1. /\ a \in Seq(Token)
              /\ Len(Parts(q)) = 1 => Fmt[q] = a
              /\ Len(Parts(q)) # 1 => /\ Tail(Parts(q)) \in Seq(Seq(Token)) /\ Tail(Parts(q)) # << >>
                                      /\ Fmt[q] = a \o b
          BY <3>2, <3>4, JoinedIs
        <4>2. Len(Parts(q)) # 1 => Joined(Tok(q.kind), Tail(Parts(q))) \in Seq(Token)
          BY <3>4, <4>1, JoinedIs
        <4>3. <<Tok(q.kind)>> \in Seq(Token)
          BY <3>4
        <4>4. Len(Parts(q)) # 1 => b \in Seq(Token)
          BY <4>2, <4>3, ConcatProperties
        <4> HIDE DEF a, b
        <4> QED BY <4>1, <4>4
      <3> HIDE DEF a, b
      <3>6. Len(a) \in Nat /\ Len(a) # 0
        BY <3>3, <3>5, EmptySeq DEF a
      <3>7. b \in Seq(Token) => Len(a \o b) = Len(a) + Len(b) /\ Len(b) \in Nat
        BY <3>5, ConcatProperties, LenProperties
      <3>8. Fmt[q] = a \/ (Len(Fmt[q]) # 0)
        BY <3>5, <3>6, <3>7
      <3>9. Len(<< >>) = 0
        OBVIOUS
      <3> QED BY <3>6, <3>8, <3>9
    <2> QED BY <2>2, <2>3, <2>4, QueryArgs
  <1>2. Query \subseteq U
    <2>1. \A q \in Query : (\A i \in 1 .. Len(q.args) : q.args[i] \in U) => q \in U
      BY <1>1
    <2> HIDE DEF U
    <2> QED BY <2>1, TreeInduction
  <1> QED BY <1>2, FmtIs

-----------------------------------------------------------------------------
(* The parser reads what the printer wrote.  A tree that stands at i is    *)
(* read by the level of the grammar it was printed for: f gives the        *)
(* operands at every depth, and deeper ones stand further to the right.    *)

UnaryReads(toks, f, q) ==
  \A i, d \in Nat :
    d < i /\ d + Depth[q] <= MaxDepth /\ At(toks, i, AsUnary(q))
      => f[Len(toks) - d][i] = Read(<<Collapsed[q]>>, i + Len(AsUnary(q)))

AndReads(toks, f, q) ==
  \A i, d \in Nat :
    /\ d < i /\ d + Depth[q] <= MaxDepth + (IF q.kind = "and" THEN 1 ELSE 0)
    /\ At(toks, i, AsAnd(q)) /\ Peek(toks, i + Len(AsAnd(q))) # "and"
    => ParseAnd(toks, f[Len(toks) - d], i) = Read(<<Collapsed[q]>>, i + Len(AsAnd(q)))

OrReads(toks, f, q) ==
  \A i, d \in Nat :
    /\ d < i /\ d + Depth[q] <= MaxDepth + (IF q.kind \in GroupKinds THEN 1 ELSE 0)
    /\ At(toks, i, Fmt[q]) /\ Peek(toks, i + Len(Fmt[q])) \notin GroupKinds
    => ParseOr(toks, d, f[Len(toks) - d], i) = Read(<<Collapsed[q]>>, i + Len(Fmt[q]))

\* What f gives at a depth comes from the next.
LEMMA LayerAt ==
  ASSUME NEW toks \in Seq(Token), NEW f, Layered(toks, f), NEW d \in Nat, d < Len(toks),
         NEW i \in Places(toks)
  PROVE  f[Len(toks) - d][i] = ParseUnary(toks, d, f[Len(toks) - (d + 1)], i)
  <1> DEFINE n == Len(toks)
             left == n - d
  <1>1. n \in Nat
    OBVIOUS
  <1>2. left \in 1 .. n /\ left - 1 = n - (d + 1) /\ n - left = d
    <2> HIDE DEF n
    <2>1. d < n
      BY DEF n
    <2> QED BY <1>1, <2>1
  <1> HIDE DEF left
  <1>3. f[left] = Layer(toks, left, f[left - 1])
    BY <1>2 DEF Layered
  <1>4. Layer(toks, left, f[left - 1])[i] = ParseUnary(toks, n - left, f[left - 1], i)
    BY DEF Layer
  <1> QED BY <1>2, <1>3, <1>4 DEF left

\* The texts of a well-formed tree.
LEMMA TextsAre ==
  ASSUME NEW q \in Query, WellFormed(q)
  PROVE  /\ Fmt[q] \in Seq(Token) /\ Fmt[q] # << >> /\ Len(Fmt[q]) \in Nat
         /\ AsUnary(q) \in Seq(Token) /\ AsUnary(q) # << >> /\ Len(AsUnary(q)) \in Nat
         /\ AsAnd(q) \in Seq(Token) /\ AsAnd(q) # << >> /\ Len(AsAnd(q)) \in Nat
         /\ q.kind \notin GroupKinds => AsUnary(q) = Fmt[q]
         /\ q.kind # "or" => AsAnd(q) = Fmt[q]
         /\ q.kind # "and" => AsAnd(q) = AsUnary(q)
         /\ q.kind \in GroupKinds => AsUnary(q) = <<Tok("(")>> \o (Fmt[q] \o <<Tok(")")>>)
  <1>1. Fmt[q] \in Seq(Token) /\ Fmt[q] # << >>
    BY FmtSomething
  <1>2. /\ AsUnary(q) \in Seq(Token) /\ AsUnary(q) # << >>
        /\ q.kind \notin GroupKinds => AsUnary(q) = Fmt[q]
        /\ q.kind \in GroupKinds => AsUnary(q) = <<Tok("(")>> \o (Fmt[q] \o <<Tok(")")>>)
    BY <1>1, GroupedIs DEF AsUnary
  <1>3. /\ AsAnd(q) \in Seq(Token) /\ AsAnd(q) # << >>
        /\ q.kind # "or" => AsAnd(q) = Fmt[q]
    BY <1>1, GroupedIs DEF AsAnd
  <1>4. q.kind # "and" => AsAnd(q) = AsUnary(q)
    <2>1. q.kind # "and" => (q.kind \in GroupKinds <=> q.kind = "or")
      BY DEF GroupKinds
    <2> QED BY <2>1 DEF AsAnd, AsUnary, Grouped
  <1>5. Len(Fmt[q]) \in Nat /\ Len(AsUnary(q)) \in Nat /\ Len(AsAnd(q)) \in Nat
    BY <1>1, <1>2, <1>3, LenProperties
  <1> QED BY <1>1, <1>2, <1>3, <1>4, <1>5

\* Where a tree stands as an operand.
LEMMA OperandAt ==
  ASSUME NEW toks \in Seq(Token), NEW i \in Nat, NEW d \in Nat, d < i, NEW s \in Seq(Token),
         s # << >>, At(toks, i, s)
  PROVE  /\ Len(toks) \in Nat /\ i \in 1 .. Len(toks) /\ i \in Places(toks)
         /\ d < Len(toks) /\ i + Len(s) \in Nat /\ 1 <= i + Len(s)
  <1>1. Len(toks) \in Nat /\ Len(s) \in Nat /\ i \in 1 .. Len(toks) /\ i \in Places(toks)
    BY AtPlaces
  <1> QED BY <1>1

\* A predicate.
LEMMA UnaryPredicate ==
  ASSUME NEW toks \in Seq(Token), NEW f, Layered(toks, f), NEW q \in Query, WellFormed(q),
         q.kind = "predicate"
  PROVE  UnaryReads(toks, f, q)
  <1>1. q.kind \notin GroupKinds
    BY DEF GroupKinds
  <1>2. AsUnary(q) = Fmt[q] /\ Fmt[q] \in Seq(Token) /\ Fmt[q] # << >>
    BY <1>1, TextsAre
  <1>3. Collapsed[q] = q
    <2>1. q.kind \notin {"and", "or"}
      OBVIOUS
    <2> QED BY <2>1, CollapsedCases
  <1>4. ASSUME NEW i \in Nat, NEW d \in Nat, d < i, At(toks, i, Fmt[q])
        PROVE  f[Len(toks) - d][i] = Read(<<q>>, i + Len(Fmt[q]))
    <2>1. d < Len(toks) /\ i \in Places(toks)
      BY <1>2, <1>4, OperandAt
    <2>2. f[Len(toks) - d][i] = ParseUnary(toks, d, f[Len(toks) - (d + 1)], i)
      BY <2>1, LayerAt
    <2>3. ParsePredicate(toks, i) = Read(<<q>>, i + Len(Fmt[q])) /\ Peek(toks, i) = "ident"
      BY <1>4, PredicateRead
    <2>4. Peek(toks, i) # "not" /\ Peek(toks, i) # "("
      BY <2>3
    <2>5. ParseUnary(toks, d, f[Len(toks) - (d + 1)], i) = ParsePredicate(toks, i)
      BY <2>4, Zenon DEF ParseUnary
    <2> QED BY <2>2, <2>3, <2>5
  <1> QED BY <1>2, <1>3, <1>4 DEF UnaryReads

\* A negation, when its operand is read.
LEMMA UnaryNot ==
  ASSUME NEW toks \in Seq(Token), NEW f, Layered(toks, f), NEW q \in Query, WellFormed(q),
         q.kind = "not", UnaryReads(toks, f, q.args[1])
  PROVE  UnaryReads(toks, f, q)
  <1> DEFINE c == q.args[1]
             o == <<Tok("not")>>
             a == AsUnary(c)
  <1>1. Len(q.args) = 1 /\ 1 \in 1 .. Len(q.args)
    BY QueryArgs
  <1>2. c \in Query /\ WellFormed(c) /\ Depth[c] \in Nat /\ Depth[c] + 1 <= Depth[q]
        /\ Depth[q] \in Nat
    BY <1>1, QueryArgs, WellFormedArgs, DepthBounds
  <1> HIDE DEF c
  <1>3. q.kind \notin GroupKinds
    BY DEF GroupKinds
  <1>4. AsUnary(q) = o \o a /\ AsUnary(q) \in Seq(Token) /\ AsUnary(q) # << >>
    BY <1>3, TextsAre, PartsAre DEF c
  <1>5. a \in Seq(Token) /\ Len(a) \in Nat
    BY <1>2, TextsAre
  <1>6. Tok("not") \in Token
    BY TokensAre DEF Marks
  <1>7. Len(AsUnary(q)) = 1 + Len(a)
    <2>1. o \in Seq(Token) /\ Len(o) = 1
      BY <1>6
    <2> HIDE DEF o, a
    <2>2. Len(o \o a) = Len(o) + Len(a)
      BY <1>5, <2>1, ConcatProperties
    <2> QED BY <1>4, <2>1, <2>2
  <1>8. Collapsed[q] = Node("not", <<Collapsed[c]>>)
    <2> DEFINE t == Collapsed[q].args
    <2>1. ~ (q.kind \in {"and", "or"} /\ Len(q.args) = 1)
      OBVIOUS
    <2>2. /\ Collapsed[q] \in Query /\ Len(t) = 1 /\ t[1] = Collapsed[c]
          /\ Collapsed[q] = [q EXCEPT !.args = t]
      <3>1. /\ Collapsed[q] \in Query /\ Len(t) = Len(q.args)
            /\ \A k \in 1 .. Len(q.args) : t[k] = Collapsed[q.args[k]]
            /\ Collapsed[q] = [q EXCEPT !.args = t]
        BY <2>1, CollapsedCases
      <3> QED BY <1>1, <3>1 DEF c
    <2>3. t \in Seq(Query)
      BY <2>2, QueryArgs
    <2> HIDE DEF t
    <2>4. t = <<Collapsed[c]>>
      BY <2>2, <2>3
    <2>5. q = Node("not", q.args)
      BY NodeIs
    <2>6. \A x, y : [Node("not", x) EXCEPT !.args = y] = Node("not", y)
      BY DEF Node
    <2> QED BY <2>2, <2>4, <2>5, <2>6
  <1> HIDE DEF a
  <1>9. ASSUME NEW i \in Nat, NEW d \in Nat, d < i, d + Depth[q] <= MaxDepth,
               At(toks, i, AsUnary(q))
        PROVE  f[Len(toks) - d][i] = Read(<<Collapsed[q]>>, i + Len(AsUnary(q)))
    <2>1. d < Len(toks) /\ i \in Places(toks)
      BY <1>4, <1>9, OperandAt
    <2> DEFINE deeper == f[Len(toks) - (d + 1)]
    <2>2. f[Len(toks) - d][i] = ParseUnary(toks, d, deeper, i)
      BY <2>1, LayerAt
    <2>3. i \in 1 .. Len(toks) /\ toks[i] = Tok("not") /\ At(toks, i + 1, a)
      BY <1>4, <1>5, <1>6, <1>9, AtFirst
    <2>4. Peek(toks, i) = "not"
      BY <2>3, PeekIs DEF Tok
    <2>5. deeper[i + 1] = Read(<<Collapsed[c]>>, (i + 1) + Len(a))
      <3>1. i + 1 \in Nat /\ d + 1 \in Nat /\ d + 1 < i + 1 /\ (d + 1) + Depth[c] <= MaxDepth
        BY <1>2, <1>9, QueryAssumption DEF QueryAssumption
      <3>2. UnaryReads(toks, f, c)
        BY DEF c
      <3> QED BY <2>3, <3>1, <3>2 DEF UnaryReads, a
    <2> HIDE DEF deeper
    <2>6. /\ deeper[i + 1] # SyntaxError /\ deeper[i + 1].trees = <<Collapsed[c]>>
          /\ deeper[i + 1].at = (i + 1) + Len(a)
      <3>1. (i + 1) + Len(a) # 0
        BY <1>5
      <3> QED BY <2>5, <3>1 DEF Read, SyntaxError
    <2>7. ParseUnary(toks, d, deeper, i)
            = Read(<<Node("not", deeper[i + 1].trees)>>, deeper[i + 1].at)
      BY <2>4, <2>6, Zenon DEF ParseUnary
    <2>8. (i + 1) + Len(a) = i + Len(AsUnary(q))
      BY <1>5, <1>7
    <2> QED BY <1>8, <2>2, <2>6, <2>7, <2>8
  <1> QED BY <1>9 DEF UnaryReads

\* A group's children make the group.
LEMMA GroupCollapsed ==
  ASSUME NEW q \in Query, WellFormed(q), q.kind \in GroupKinds, NEW end
  PROVE  Group(q.kind, Read(Mapped(Collapsed, q), end)) = Read(<<Collapsed[q]>>, end)
  <1> DEFINE s == Mapped(Collapsed, q)
  <1>1. s \in Seq(Query) /\ Len(s) = Len(q.args)
    BY CollapsedIs, MappedIs
  <1>2. Collapsed[q] = Collapse(q, s)
    BY CollapsedIs
  <1>3. q.kind \in {"and", "or"} /\ q.kind # "predicate"
    BY DEF GroupKinds
  <1>4. Len(s) \in Nat /\ 1 <= Len(s)
    BY <1>1, <1>3, WellFormedArgs, LenProperties
  <1> HIDE DEF s
  <1>5. Read(s, end).trees = s /\ Read(s, end).at = end
    BY DEF Read
  <1>6. CASE Len(s) = 1
    <2>1. Group(q.kind, Read(s, end)) = Read(s, end)
      BY <1>5, <1>6 DEF Group
    <2>2. s = <<s[1]>> /\ Collapsed[q] = s[1]
      BY <1>1, <1>2, <1>3, <1>6 DEF Collapse
    <2> QED BY <2>1, <2>2 DEF s
  <1>7. CASE Len(s) # 1
    <2>1. ~ (Len(s) < 2)
      <3>1. \A n \in Nat : 1 <= n /\ n # 1 => ~ (n < 2)
        OBVIOUS
      <3> QED BY <1>4, <1>7, <3>1, Zenon
    <2>2. Group(q.kind, Read(s, end)) = Read(<<Node(q.kind, s)>>, end)
      BY <1>5, <2>1 DEF Group
    <2>3. Collapsed[q] = [q EXCEPT !.args = s]
      BY <1>2, <1>7 DEF Collapse
    <2>4. q = Node(q.kind, q.args)
      BY <1>3, NodeIs
    <2>5. \A k, x, y : [Node(k, x) EXCEPT !.args = y] = Node(k, y)
      BY DEF Node
    <2>6. Collapsed[q] = Node(q.kind, s)
      BY <2>3, <2>4, <2>5
    <2> QED BY <2>2, <2>6 DEF s
  <1> QED BY <1>6, <1>7

\* The children of a well-formed group and their texts.
LEMMA GroupParts ==
  ASSUME NEW q \in Query, WellFormed(q), q.kind \in GroupKinds
  PROVE  /\ Parts(q) \in Seq(Seq(Token)) /\ Parts(q) # << >>
         /\ Mapped(Collapsed, q) \in Seq(Query) /\ Len(Mapped(Collapsed, q)) = Len(Parts(q))
         /\ Fmt[q] = Joined(Tok(q.kind), Parts(q))
         /\ \A k \in 1 .. Len(Parts(q)) :
              /\ q.args[k] \in Query /\ WellFormed(q.args[k])
              /\ Depth[q.args[k]] \in Nat /\ Depth[q.args[k]] + 1 <= Depth[q]
              /\ Mapped(Collapsed, q)[k] = Collapsed[q.args[k]]
              /\ q.kind = "and" => Parts(q)[k] = AsUnary(q.args[k])
              /\ q.kind = "or" => Parts(q)[k] = AsAnd(q.args[k])
  <1>1. q.kind # "predicate"
    BY DEF GroupKinds
  <1>2. q.args # << >>
    <2>1. 1 <= Len(q.args) /\ Len(<< >>) = 0
      BY <1>1, WellFormedArgs
    <2> QED BY <2>1
  <1>3. Len(Parts(q)) = Len(q.args)
    BY PartsAre
  <1>4. /\ Parts(q) \in Seq(Seq(Token)) /\ Parts(q) # << >>
        /\ Fmt[q] = Joined(Tok(q.kind), Parts(q))
    BY <1>2, PartsAre
  <1>5. /\ Mapped(Collapsed, q) \in Seq(Query) /\ Len(Mapped(Collapsed, q)) = Len(Parts(q))
        /\ \A k \in 1 .. Len(Parts(q)) : Mapped(Collapsed, q)[k] = Collapsed[q.args[k]]
    <2>1. Collapsed \in [Query -> Query]
      BY CollapsedIs
    <2>2. /\ Mapped(Collapsed, q) \in Seq(Query) /\ Len(Mapped(Collapsed, q)) = Len(q.args)
          /\ \A k \in 1 .. Len(q.args) : Mapped(Collapsed, q)[k] = Collapsed[q.args[k]]
      BY <2>1, MappedIs
    <2> QED BY <1>3, <2>2, Zenon
  <1>6. ASSUME NEW k \in 1 .. Len(Parts(q))
        PROVE  /\ q.args[k] \in Query /\ WellFormed(q.args[k])
               /\ Depth[q.args[k]] \in Nat /\ Depth[q.args[k]] + 1 <= Depth[q]
    BY <1>3, QueryArgs, WellFormedArgs, DepthBounds
  <1>7. ASSUME NEW k \in 1 .. Len(Parts(q))
        PROVE  /\ q.kind = "and" => Parts(q)[k] = AsUnary(q.args[k])
               /\ q.kind = "or" => Parts(q)[k] = AsAnd(q.args[k])
    BY <1>3, PartsAre
  <1> QED BY <1>4, <1>5, <1>6, <1>7

\* A conjunction, when its children are read.
LEMMA AndAnd ==
  ASSUME NEW toks \in Seq(Token), NEW f, Layered(toks, f), NEW q \in Query, WellFormed(q),
         q.kind = "and", \A k \in 1 .. Len(q.args) : UnaryReads(toks, f, q.args[k])
  PROVE  AndReads(toks, f, q)
  <1> DEFINE s == Mapped(Collapsed, q)
             p == Parts(q)
  <1>1. q.kind \in GroupKinds
    BY DEF GroupKinds
  <1>2. AsAnd(q) = Fmt[q] /\ Fmt[q] \in Seq(Token) /\ Fmt[q] # << >>
    BY TextsAre
  <1>3. Len(p) = Len(q.args) /\ Depth[q] \in Nat
    BY PartsAre, DepthBounds
  <1>4. /\ p \in Seq(Seq(Token)) /\ p # << >> /\ s \in Seq(Query) /\ Len(s) = Len(p)
        /\ Fmt[q] = Joined(Tok("and"), p)
    BY <1>1, GroupParts
  <1>5. ASSUME NEW k \in 1 .. Len(p)
        PROVE  /\ q.args[k] \in Query /\ WellFormed(q.args[k])
               /\ Depth[q.args[k]] \in Nat /\ Depth[q.args[k]] + 1 <= Depth[q]
               /\ s[k] = Collapsed[q.args[k]] /\ p[k] = AsUnary(q.args[k])
    BY <1>1, GroupParts
  <1> HIDE DEF s, p
  <1>6. ASSUME NEW i \in Nat, NEW d \in Nat, d < i, d + Depth[q] <= MaxDepth + 1,
               At(toks, i, Fmt[q]), Peek(toks, i + Len(Fmt[q])) # "and"
        PROVE  ParseAnd(toks, f[Len(toks) - d], i) = Read(<<Collapsed[q]>>, i + Len(Fmt[q]))
    <2> DEFINE end == i + Len(Fmt[q])
               operand == f[Len(toks) - d]
    <2>1. end \in Nat /\ 1 <= end
      <3>1. Len(Fmt[q]) \in Nat
        BY <1>2
      <3>2. \A n \in Nat : i + n \in Nat /\ 1 <= i + n
        BY <1>6
      <3> QED BY <3>1, <3>2
    <2>2. ASSUME NEW k \in 1 .. Len(p)
          PROVE  p[k] # << >> /\ ReadsPart(toks, operand, "and", i, end, p[k], s[k])
      <3> DEFINE c == q.args[k]
      <3>1. /\ c \in Query /\ WellFormed(c) /\ d + Depth[c] <= MaxDepth
            /\ s[k] = Collapsed[c] /\ p[k] = AsUnary(c) /\ UnaryReads(toks, f, c)
        <4>1. /\ c \in Query /\ WellFormed(c) /\ Depth[c] \in Nat /\ Depth[c] + 1 <= Depth[q]
              /\ s[k] = Collapsed[c] /\ p[k] = AsUnary(c)
          BY <1>5
        <4>2. UnaryReads(toks, f, c)
          BY <1>3
        <4> HIDE DEF c
        <4>3. d + Depth[c] <= MaxDepth
          BY <1>3, <1>6, <4>1, QueryAssumption DEF QueryAssumption
        <4> QED BY <4>1, <4>2, <4>3
      <3> HIDE DEF c, end
      <3>2. p[k] # << >>
        BY <3>1, TextsAre
      <3>3. ASSUME NEW j \in Nat, i <= j, At(toks, j, p[k])
            PROVE  operand[j] = Read(<<s[k]>>, j + Len(p[k]))
        <4>1. d < j
          BY <1>6, <3>3
        <4> QED BY <3>1, <3>3, <4>1 DEF UnaryReads
      <3> HIDE DEF operand
      <3> QED BY <3>2, <3>3 DEF ReadsPart
    <2>3. Laid(toks, operand, "and", i, end, i, p, s)
      <3>1. At(toks, i, Joined(Tok("and"), p)) /\ i + Len(Joined(Tok("and"), p)) = end /\ i <= i
        BY <1>4, <1>6
      <3> HIDE DEF operand, end
      <3> QED BY <1>4, <2>2, <3>1 DEF Laid
    <2>4. Operands("and", toks, operand, i) = Group("and", Read(s, end))
      <3>1. Peek(toks, end) # "and" /\ "and" \in GroupKinds
        BY <1>6 DEF GroupKinds
      <3> HIDE DEF operand, end
      <3> QED BY <1>6, <2>1, <2>3, <3>1, OperandsRead
    <2>5. Group("and", Read(s, end)) = Read(<<Collapsed[q]>>, end)
      BY <1>1, GroupCollapsed DEF s
    <2> QED BY <2>4, <2>5 DEF ParseAnd
  <1>7. ASSUME NEW i \in Nat, NEW d \in Nat, d < i,
               d + Depth[q] <= MaxDepth + (IF q.kind = "and" THEN 1 ELSE 0),
               At(toks, i, AsAnd(q)), Peek(toks, i + Len(AsAnd(q))) # "and"
        PROVE  ParseAnd(toks, f[Len(toks) - d], i) = Read(<<Collapsed[q]>>, i + Len(AsAnd(q)))
    BY <1>2, <1>6, <1>7
  <1> QED BY <1>7 DEF AndReads

\* Any other tree is a conjunction of one.
LEMMA AndOther ==
  ASSUME NEW toks \in Seq(Token), NEW f, Layered(toks, f), NEW q \in Query, WellFormed(q),
         q.kind # "and", UnaryReads(toks, f, q)
  PROVE  AndReads(toks, f, q)
  <1>1. AsAnd(q) = AsUnary(q) /\ AsAnd(q) \in Seq(Token) /\ AsAnd(q) # << >>
    BY TextsAre
  <1>2. Depth[q] \in Nat /\ MaxDepth \in Nat
    BY DepthBounds, QueryAssumption DEF QueryAssumption
  <1>3. ASSUME NEW i \in Nat, NEW d \in Nat, d < i,
               d + Depth[q] <= MaxDepth + (IF q.kind = "and" THEN 1 ELSE 0),
               At(toks, i, AsAnd(q)), Peek(toks, i + Len(AsAnd(q))) # "and"
        PROVE  ParseAnd(toks, f[Len(toks) - d], i) = Read(<<Collapsed[q]>>, i + Len(AsAnd(q)))
    <2> DEFINE end == i + Len(AsAnd(q))
               operand == f[Len(toks) - d]
    <2>1. i \in 1 .. Len(toks) /\ end \in Nat
      BY <1>1, <1>3, OperandAt
    <2>2. d + Depth[q] <= MaxDepth
      BY <1>2, <1>3
    <2>3. operand[i] = Read(<<Collapsed[q]>>, end)
      BY <1>1, <1>3, <2>2 DEF UnaryReads
    <2>4. Peek(toks, end) # "and" /\ "and" \in GroupKinds
      BY <1>3 DEF GroupKinds
    <2> HIDE DEF operand, end
    <2>5. Operands("and", toks, operand, i) = Read(<<Collapsed[q]>>, end)
      BY <2>1, <2>3, <2>4, OperandRead
    <2> QED BY <2>5 DEF ParseAnd, operand, end
  <1> QED BY <1>3 DEF AndReads

\* A disjunction, when its children are read.
LEMMA OrOr ==
  ASSUME NEW toks \in Seq(Token), NEW f, Layered(toks, f), NEW q \in Query, WellFormed(q),
         q.kind = "or", \A k \in 1 .. Len(q.args) : AndReads(toks, f, q.args[k])
  PROVE  OrReads(toks, f, q)
  <1> DEFINE s == Mapped(Collapsed, q)
             p == Parts(q)
  <1>1. q.kind \in GroupKinds
    BY DEF GroupKinds
  <1>2. Fmt[q] \in Seq(Token) /\ Fmt[q] # << >>
    BY TextsAre
  <1>3. Len(p) = Len(q.args) /\ Depth[q] \in Nat /\ 1 <= Depth[q] /\ MaxDepth \in Nat
    BY PartsAre, DepthBounds, QueryAssumption DEF QueryAssumption
  <1>4. /\ p \in Seq(Seq(Token)) /\ p # << >> /\ s \in Seq(Query) /\ Len(s) = Len(p)
        /\ Fmt[q] = Joined(Tok("or"), p)
    BY <1>1, GroupParts
  <1>5. ASSUME NEW k \in 1 .. Len(p)
        PROVE  /\ q.args[k] \in Query /\ WellFormed(q.args[k])
               /\ Depth[q.args[k]] \in Nat /\ Depth[q.args[k]] + 1 <= Depth[q]
               /\ s[k] = Collapsed[q.args[k]] /\ p[k] = AsAnd(q.args[k])
    BY <1>1, GroupParts
  <1> HIDE DEF s, p
  <1>6. ASSUME NEW i \in Nat, NEW d \in Nat, d < i, d + Depth[q] <= MaxDepth + 1,
               At(toks, i, Fmt[q]), Peek(toks, i + Len(Fmt[q])) \notin GroupKinds
        PROVE  ParseOr(toks, d, f[Len(toks) - d], i) = Read(<<Collapsed[q]>>, i + Len(Fmt[q]))
    <2> DEFINE end == i + Len(Fmt[q])
               u == f[Len(toks) - d]
               operand == [j \in Places(toks) |-> ParseAnd(toks, u, j)]
    <2>1. end \in Nat /\ 1 <= end
      <3>1. Len(Fmt[q]) \in Nat
        BY <1>2
      <3>2. \A n \in Nat : i + n \in Nat /\ 1 <= i + n
        BY <1>6
      <3> QED BY <3>1, <3>2
    <2>2. ASSUME NEW k \in 1 .. Len(p)
          PROVE  p[k] # << >> /\ ReadsPart(toks, operand, "or", i, end, p[k], s[k])
      <3> DEFINE c == q.args[k]
      <3>1. /\ c \in Query /\ WellFormed(c) /\ d + Depth[c] <= MaxDepth
            /\ s[k] = Collapsed[c] /\ p[k] = AsAnd(c) /\ AndReads(toks, f, c)
            /\ Depth[c] \in Nat
        <4>1. /\ c \in Query /\ WellFormed(c) /\ Depth[c] \in Nat /\ Depth[c] + 1 <= Depth[q]
              /\ s[k] = Collapsed[c] /\ p[k] = AsAnd(c)
          BY <1>5
        <4>2. AndReads(toks, f, c)
          BY <1>3
        <4> HIDE DEF c
        <4>3. d + Depth[c] <= MaxDepth
          BY <1>3, <1>6, <4>1
        <4> QED BY <4>1, <4>2, <4>3
      <3> HIDE DEF c
      <3>2. p[k] # << >> /\ p[k] \in Seq(Token)
        BY <3>1, TextsAre
      <3>3. ASSUME NEW j \in Nat, i <= j, At(toks, j, p[k]),
                   Peek(toks, j + Len(p[k])) = "or" \/ j + Len(p[k]) = end
            PROVE  operand[j] = Read(<<s[k]>>, j + Len(p[k]))
        <4>1. d < j /\ d + Depth[c] <= MaxDepth + (IF c.kind = "and" THEN 1 ELSE 0)
          <5>1. d < j
            BY <1>6, <3>3
          <5>2. \A n \in Nat : n <= MaxDepth =>
                  n <= MaxDepth + 1 /\ n <= MaxDepth + 0
            BY <1>3
          <5>3. d + Depth[c] \in Nat /\ d + Depth[c] <= MaxDepth
            BY <1>6, <3>1
          <5>4. d + Depth[c] <= MaxDepth + 1 /\ d + Depth[c] <= MaxDepth + 0
            BY <5>2, <5>3, Zenon
          <5> QED BY <5>1, <5>4, Zenon
        <4>2. j \in Places(toks)
          BY <3>2, <3>3, AtPlaces
        <4>3. Peek(toks, j + Len(p[k])) # "and"
          BY <1>6, <3>3 DEF GroupKinds
        <4>4. ParseAnd(toks, u, j) = Read(<<s[k]>>, j + Len(p[k]))
          <5> HIDE DEF end
          <5> QED BY <3>1, <3>3, <4>1, <4>3 DEF AndReads
        <4> HIDE DEF u
        <4> QED BY <4>2, <4>4
      <3> HIDE DEF operand, end
      <3> QED BY <3>2, <3>3 DEF ReadsPart
    <2>3. Laid(toks, operand, "or", i, end, i, p, s)
      <3>1. At(toks, i, Joined(Tok("or"), p)) /\ i + Len(Joined(Tok("or"), p)) = end /\ i <= i
        BY <1>4, <1>6
      <3> HIDE DEF operand, end
      <3> QED BY <1>4, <2>2, <3>1 DEF Laid
    <2>4. Operands("or", toks, operand, i) = Group("or", Read(s, end))
      <3>1. Peek(toks, end) # "or" /\ "or" \in GroupKinds
        BY <1>6 DEF GroupKinds
      <3> HIDE DEF operand, end
      <3> QED BY <1>6, <2>1, <2>3, <3>1, OperandsRead
    <2>5. Group("or", Read(s, end)) = Read(<<Collapsed[q]>>, end)
      BY <1>1, GroupCollapsed DEF s
    <2>6. ~ (d > MaxDepth)
      BY <1>3, <1>6
    <2>7. ParseOr(toks, d, u, i) = Operands("or", toks, operand, i)
      <3> HIDE DEF u
      <3> QED BY <2>6, Zenon DEF ParseOr
    <2> HIDE DEF operand
    <2> QED BY <2>4, <2>5, <2>7
  <1>7. ASSUME NEW i \in Nat, NEW d \in Nat, d < i,
               d + Depth[q] <= MaxDepth + (IF q.kind \in GroupKinds THEN 1 ELSE 0),
               At(toks, i, Fmt[q]), Peek(toks, i + Len(Fmt[q])) \notin GroupKinds
        PROVE  ParseOr(toks, d, f[Len(toks) - d], i) = Read(<<Collapsed[q]>>, i + Len(Fmt[q]))
    BY <1>1, <1>6, <1>7
  <1> QED BY <1>7 DEF OrReads

\* Any other tree is a disjunction of one.
LEMMA OrOther ==
  ASSUME NEW toks \in Seq(Token), NEW f, Layered(toks, f), NEW q \in Query, WellFormed(q),
         q.kind # "or", AndReads(toks, f, q)
  PROVE  OrReads(toks, f, q)
  <1>1. AsAnd(q) = Fmt[q] /\ Fmt[q] \in Seq(Token) /\ Fmt[q] # << >>
    BY TextsAre
  <1>2. Depth[q] \in Nat /\ 1 <= Depth[q] /\ MaxDepth \in Nat
    BY DepthBounds, QueryAssumption DEF QueryAssumption
  <1>3. q.kind \in GroupKinds <=> q.kind = "and"
    BY DEF GroupKinds
  <1>4. ASSUME NEW i \in Nat, NEW d \in Nat, d < i,
               d + Depth[q] <= MaxDepth + (IF q.kind \in GroupKinds THEN 1 ELSE 0),
               At(toks, i, Fmt[q]), Peek(toks, i + Len(Fmt[q])) \notin GroupKinds
        PROVE  ParseOr(toks, d, f[Len(toks) - d], i) = Read(<<Collapsed[q]>>, i + Len(Fmt[q]))
    <2> DEFINE end == i + Len(Fmt[q])
               u == f[Len(toks) - d]
               operand == [j \in Places(toks) |-> ParseAnd(toks, u, j)]
    <2>1. i \in 1 .. Len(toks) /\ i \in Places(toks) /\ end \in Nat
      BY <1>1, <1>4, OperandAt
    <2>2. /\ d + Depth[q] <= MaxDepth + (IF q.kind = "and" THEN 1 ELSE 0)
          /\ ~ (d > MaxDepth)
      BY <1>2, <1>3, <1>4
    <2>3. Peek(toks, end) # "and" /\ Peek(toks, end) # "or" /\ "or" \in GroupKinds
      BY <1>4 DEF GroupKinds
    <2>4. ParseAnd(toks, u, i) = Read(<<Collapsed[q]>>, end)
      BY <1>1, <1>4, <2>2, <2>3 DEF AndReads
    <2> HIDE DEF u, end
    <2>5. operand[i] = Read(<<Collapsed[q]>>, end)
      BY <2>1, <2>4
    <2>6. ParseOr(toks, d, u, i) = Operands("or", toks, operand, i)
      BY <2>2, Zenon DEF ParseOr
    <2> HIDE DEF operand
    <2>7. Operands("or", toks, operand, i) = Read(<<Collapsed[q]>>, end)
      BY <2>1, <2>3, <2>5, OperandRead
    <2> QED BY <2>6, <2>7 DEF u, end
  <1> QED BY <1>4 DEF OrReads

\* A group in parentheses.
LEMMA UnaryGroup ==
  ASSUME NEW toks \in Seq(Token), NEW f, Layered(toks, f), NEW q \in Query, WellFormed(q),
         q.kind \in GroupKinds, OrReads(toks, f, q)
  PROVE  UnaryReads(toks, f, q)
  <1> DEFINE o == <<Tok("(")>>
             c == <<Tok(")")>>
             a == Fmt[q]
  <1>1. /\ AsUnary(q) = o \o (a \o c) /\ AsUnary(q) \in Seq(Token) /\ AsUnary(q) # << >>
        /\ a \in Seq(Token) /\ Len(a) \in Nat
    BY TextsAre
  <1>2. Tok("(") \in Token /\ Tok(")") \in Token
    BY TokensAre DEF Marks
  <1>3. o \in Seq(Token) /\ c \in Seq(Token) /\ Len(o) = 1 /\ Len(c) = 1
    BY <1>2
  <1>4. a \o c \in Seq(Token) /\ Len(a \o c) = Len(a) + 1
    <2>1. a \in Seq(Token)
      BY <1>1
    <2> HIDE DEF a, c
    <2>2. a \o c \in Seq(Token) /\ Len(a \o c) = Len(a) + Len(c)
      BY <2>1, <1>3, ConcatProperties
    <2> QED BY <2>2, <1>3
  <1>5. Len(AsUnary(q)) = 1 + (Len(a) + 1)
    <2> DEFINE r == a \o c
    <2>1. r \in Seq(Token) /\ Len(r) = Len(a) + 1 /\ AsUnary(q) = o \o r
      BY <1>1, <1>4
    <2> HIDE DEF o, r
    <2>2. Len(o \o r) = Len(o) + Len(r)
      BY <1>3, <2>1, ConcatProperties
    <2> HIDE DEF a
    <2> QED BY <1>3, <2>1, <2>2
  <1>6. Depth[q] \in Nat /\ MaxDepth \in Nat
    BY DepthBounds, QueryAssumption DEF QueryAssumption
  <1>7. ASSUME NEW i \in Nat, NEW d \in Nat, d < i, d + Depth[q] <= MaxDepth,
               At(toks, i, AsUnary(q))
        PROVE  f[Len(toks) - d][i] = Read(<<Collapsed[q]>>, i + Len(AsUnary(q)))
    <2> DEFINE u == f[Len(toks) - (d + 1)]
               inner == ParseOr(toks, d + 1, u, i + 1)
               e == (i + 1) + Len(a)
    <2>1. d < Len(toks) /\ i \in Places(toks)
      BY <1>1, <1>7, OperandAt
    <2>2. f[Len(toks) - d][i] = ParseUnary(toks, d, u, i)
      BY <2>1, LayerAt
    <2>3. i \in 1 .. Len(toks) /\ toks[i] = Tok("(") /\ At(toks, i + 1, a \o c)
      <3> DEFINE r == a \o c
      <3>1. r \in Seq(Token) /\ At(toks, i, <<Tok("(")>> \o r)
        BY <1>1, <1>4, <1>7
      <3> HIDE DEF r
      <3>2. i \in 1 .. Len(toks) /\ toks[i] = Tok("(") /\ At(toks, i + 1, r)
        BY <1>2, <3>1, AtFirst
      <3> QED BY <3>2 DEF r
    <2>4. i + 1 \in Nat /\ d + 1 \in Nat /\ d + 1 < i + 1 /\ e \in Nat /\ e # 0
      <3>1. Len(a) \in Nat
        BY <1>1
      <3> HIDE DEF a
      <3> QED BY <3>1, <1>7
    <2>5. At(toks, i + 1, a) /\ At(toks, e, c)
      <3> HIDE DEF a, c
      <3> QED BY <1>1, <1>3, <2>3, <2>4, AtConcat
    <2>6. e \in 1 .. Len(toks) /\ toks[e] = Tok(")")
      <3> HIDE DEF e
      <3> QED BY <2>4, <2>5, AtOne
    <2>7. Peek(toks, i) = "(" /\ Peek(toks, e) = ")"
      <3> HIDE DEF e
      <3> QED BY <2>3, <2>6, PeekIs DEF Tok
    <2>8. inner = Read(<<Collapsed[q]>>, e)
      <3>1. (d + 1) + Depth[q] <= MaxDepth + (IF q.kind \in GroupKinds THEN 1 ELSE 0)
        BY <1>6, <1>7
      <3>2. Peek(toks, (i + 1) + Len(a)) \notin GroupKinds
        BY <2>7 DEF GroupKinds
      <3> QED BY <2>4, <2>5, <3>1, <3>2 DEF OrReads
    <2> HIDE DEF e, u
    <2>9. inner # SyntaxError /\ inner.trees = <<Collapsed[q]>> /\ inner.at = e
      <3> HIDE DEF inner
      <3> QED BY <2>4, <2>8 DEF Read, SyntaxError
    <2>10. ParseUnary(toks, d, u, i) = Read(inner.trees, inner.at + 1)
      <3>1. Peek(toks, i) # "not" /\ Peek(toks, inner.at) = ")"
        BY <2>7, <2>9
      <3> QED BY <2>7, <2>9, <3>1, Zenon DEF ParseUnary
    <2> HIDE DEF inner
    <2>11. e + 1 = i + Len(AsUnary(q))
      <3>1. Len(a) \in Nat
        BY <1>1
      <3> HIDE DEF a
      <3> QED BY <3>1, <1>5, <1>7 DEF e
    <2> QED BY <2>2, <2>9, <2>10, <2>11 DEF u
  <1> QED BY <1>7 DEF UnaryReads

\* Whatever a tree, its text is read back as an operand of each kind.
LEMMA AllRead ==
  ASSUME NEW toks \in Seq(Token), NEW f, Layered(toks, f)
  PROVE  \A q \in Query : WellFormed(q) => OrReads(toks, f, q)
  <1> DEFINE All(q) == UnaryReads(toks, f, q) /\ AndReads(toks, f, q) /\ OrReads(toks, f, q)
             U == {q \in Query : WellFormed(q) => All(q)}
  <1>1. ASSUME NEW q \in Query, \A i \in 1 .. Len(q.args) : q.args[i] \in U, WellFormed(q)
        PROVE  All(q)
    <2>1. \A i \in 1 .. Len(q.args) : All(q.args[i])
      <3> HIDE DEF All
      <3> QED BY <1>1, WellFormedArgs
    <2>2. q.kind # "predicate" => 1 \in 1 .. Len(q.args)
      BY WellFormedArgs, QueryArgs, <1>1
    <2>3. q.kind \in {"predicate", "not", "and", "or"}
      BY QueryArgs
    <2>4. CASE q.kind = "predicate"
      <3>1. UnaryReads(toks, f, q)
        BY <1>1, <2>4, UnaryPredicate
      <3>2. AndReads(toks, f, q)
        BY <1>1, <2>4, <3>1, AndOther
      <3>3. OrReads(toks, f, q)
        BY <1>1, <2>4, <3>2, OrOther
      <3> QED BY <3>1, <3>2, <3>3
    <2>5. CASE q.kind = "not"
      <3>1. UnaryReads(toks, f, q.args[1])
        BY <2>1, <2>2, <2>5
      <3>2. UnaryReads(toks, f, q)
        BY <1>1, <2>5, <3>1, UnaryNot
      <3>3. AndReads(toks, f, q)
        BY <1>1, <2>5, <3>2, AndOther
      <3>4. OrReads(toks, f, q)
        BY <1>1, <2>5, <3>3, OrOther
      <3> QED BY <3>2, <3>3, <3>4
    <2>6. CASE q.kind = "and"
      <3>1. \A k \in 1 .. Len(q.args) : UnaryReads(toks, f, q.args[k])
        BY <2>1
      <3>2. AndReads(toks, f, q)
        BY <1>1, <2>6, <3>1, AndAnd
      <3>3. OrReads(toks, f, q)
        BY <1>1, <2>6, <3>2, OrOther
      <3>4. q.kind \in GroupKinds
        BY <2>6 DEF GroupKinds
      <3>5. UnaryReads(toks, f, q)
        BY <1>1, <3>3, <3>4, UnaryGroup
      <3> QED BY <3>2, <3>3, <3>5
    <2>7. CASE q.kind = "or"
      <3>1. \A k \in 1 .. Len(q.args) : AndReads(toks, f, q.args[k])
        BY <2>1
      <3>2. OrReads(toks, f, q)
        BY <1>1, <2>7, <3>1, OrOr
      <3>3. q.kind \in GroupKinds
        BY <2>7 DEF GroupKinds
      <3>4. UnaryReads(toks, f, q)
        BY <1>1, <3>2, <3>3, UnaryGroup
      <3>5. AndReads(toks, f, q)
        BY <1>1, <2>7, <3>4, AndOther
      <3> QED BY <3>2, <3>4, <3>5
    <2> QED BY <2>3, <2>4, <2>5, <2>6, <2>7
  <1> HIDE DEF All
  <1>2. \A q \in Query : (\A i \in 1 .. Len(q.args) : q.args[i] \in U) => q \in U
    BY <1>1
  <1>3. Query \subseteq U
    <2> HIDE DEF U
    <2> QED BY <1>2, TreeInduction
  <1>4. \A q \in Query : WellFormed(q) => All(q)
    BY <1>3
  <1> QED BY <1>4 DEF All

-----------------------------------------------------------------------------
(* The printer and the parser                                              *)

\* A valid query that is well formed prints to a text the parser gives back, but
\* for groups of one, unless the text is too long (fmt::Display and
\* MetadataQuery::parse).
THEOREM PrintedIsParsed ==
  ASSUME NEW q \in Query, WellFormed(q), Depth[q] <= MaxDepth, Length(Fmt[q]) <= MaxInput
  PROVE  ParseQuery(Fmt[q]) = <<Collapsed[q]>>
  <1> DEFINE toks == Fmt[q]
             read == Read(<<Collapsed[q]>>, 1 + Len(toks))
  <1>1. toks \in Seq(Token) /\ toks # << >> /\ Len(toks) \in Nat
    BY TextsAre
  <1>2. Depth[q] \in Nat /\ MaxDepth \in Nat
    BY DepthBounds, QueryAssumption DEF QueryAssumption
  <1> HIDE DEF toks
  <1>3. PICK f : Layered(toks, f) /\ Unary(toks) = f[Len(toks)]
    BY <1>1, UnaryIs
  <1>4. OrReads(toks, f, q)
    BY <1>1, <1>3, AllRead
  <1>5. At(toks, 1, toks)
    BY <1>1 DEF At
  <1>6. Peek(toks, 1 + Len(toks)) \notin GroupKinds
    <2>1. 1 + Len(toks) \notin DOMAIN toks
      BY <1>1
    <2> QED BY <2>1 DEF Peek, GroupKinds
  <1>7. /\ 1 \in Nat /\ 0 \in Nat /\ 0 < 1 /\ Len(toks) - 0 = Len(toks)
        /\ 0 + Depth[q] <= MaxDepth + (IF q.kind \in GroupKinds THEN 1 ELSE 0)
    BY <1>1, <1>2
  <1>8. ParseOr(toks, 0, f[Len(toks) - 0], 1) = read
    BY <1>4, <1>5, <1>6, <1>7 DEF OrReads, toks
  <1>9. ParseOr(toks, 0, Unary(toks), 1) = read
    <2> HIDE DEF read
    <2> QED BY <1>3, <1>7, <1>8
  <1>10. read.at = Len(toks) + 1 /\ read.trees = <<Collapsed[q]>>
    BY <1>1 DEF Read
  <1>11. Length(toks) <= MaxInput
    BY DEF toks
  <1> HIDE DEF read
  <1>12. ParseQuery(toks) = read.trees
    BY <1>9, <1>10, <1>11, Zenon DEF ParseQuery
  <1> QED BY <1>10, <1>12 DEF toks

-----------------------------------------------------------------------------
(* The behaviours of QuerySpec                                             *)

\* What is printed is the text of a valid tree, and what became of it when it
\* was parsed again.
QueryInvariant ==
  /\ query \in Query
  /\ outcome \in {"new", "printed", "invalid", "parsed", "refused"}
  /\ outcome = "printed" => Valid(query) /\ text = Fmt[query]
  /\ QueryRoundTrips

\* Printing establishes it, and reading the text of a valid tree keeps it.
LEMMA QueryInvariantHolds == QuerySpec => []QueryInvariant
  <1>1. QueryInit => QueryInvariant
    BY QueryAssumption DEF QueryAssumption, QueryInit, QueryInvariant, QueryRoundTrips
  <1>2. QueryInvariant /\ [QueryNext]_queryVars => QueryInvariant'
    <2> SUFFICES ASSUME QueryInvariant, [QueryNext]_queryVars PROVE QueryInvariant'
      OBVIOUS
    <2>1. CASE Render
      BY <2>1 DEF Render, QueryInvariant, QueryRoundTrips
    <2>2. CASE Reparse
      <3> DEFINE read == ParseQuery(text)
      <3>1. /\ query \in Query /\ Valid(query) /\ text = Fmt[query]
            /\ query' = query /\ text' = text /\ outcome' \in {"parsed", "refused"}
        BY <2>2 DEF Reparse, QueryInvariant
      <3>2. ASSUME Faithful(query), Length(text) <= MaxInput PROVE outcome' = "parsed" /\ reparsed' = <<Collapsed[query]>>
        <4>1. WellFormed(query) /\ Depth[query] <= MaxDepth /\ Length(Fmt[query]) <= MaxInput
          BY <3>1, <3>2 DEF WellFormed, Valid
        <4>2. read = <<Collapsed[query]>>
          BY <3>1, <4>1, PrintedIsParsed
        <4>3. Valid(Collapsed[query])
          BY <3>1, CollapsedValid
        <4>4. Len(read) = 1 /\ read # << >> /\ read[1] = Collapsed[query]
          BY <4>2
        <4>5. \/ reparsed' = read /\ outcome' = "parsed"
              \/ read = << >> \/ ~Valid(read[1])
          BY <2>2, Zenon DEF Reparse
        <4> HIDE DEF read
        <4> QED BY <4>2, <4>3, <4>4, <4>5
      <3>3. (Faithful(query)' <=> Faithful(query)) /\ (Length(text) <= MaxInput)' = (Length(text) <= MaxInput)
        BY <3>1 DEF Faithful
      <3>4. (<<Collapsed[query]>>)' = <<Collapsed[query]>>
        BY <3>1
      <3>5. QueryRoundTrips'
        BY <3>2, <3>3, <3>4 DEF QueryRoundTrips
      <3> QED BY <3>1, <3>5 DEF QueryInvariant
    <2>3. CASE UNCHANGED queryVars
      BY <2>3 DEF queryVars, QueryInvariant, QueryRoundTrips, Valid, Faithful, HasEmptyGroup,
                  PredicateCount
    <2> QED BY <2>1, <2>2, <2>3 DEF QueryNext
  <1> QED BY <1>1, <1>2, PTL DEF QuerySpec

\* The printer's and the parser's precedence agree: whatever the trees, the
\* words, the caps and the length of a text, a valid query whose text is within
\* the length cap is accepted again and comes back the same, but for groups of
\* one, if no key spells a keyword in capitals and no operator is an empty list
\* or has a value that is not read back.
THEOREM QueriesRoundTrip == QuerySpec => []QueryRoundTrips
  <1>1. QueryInvariant => QueryRoundTrips
    BY DEF QueryInvariant
  <1> QED BY <1>1, QueryInvariantHolds, PTL
=============================================================================
