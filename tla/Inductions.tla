----------------------------- MODULE Inductions -----------------------------
(***************************************************************************)
(* Induction over data.  The provers cannot instantiate an induction rule  *)
(* for a predicate, but the well-foundedness of the natural numbers is a   *)
(* statement about sets: a set of numbers without a least element is       *)
(* empty.  From it come induction for sets of numbers and of sequences and *)
(* the existence of functions defined by recursion.                        *)
(***************************************************************************)
EXTENDS Integers, SequencesExt, SequenceTheorems, WellFoundedInduction, TLAPS

\* The order of the numbers as a relation.
Less == {p \in Nat \X Nat : p[1] < p[2]}

\* No set of numbers descends without end.
LEMMA LessWellFounded == IsWellFoundedOn(Less, Nat)
  BY NatLessThanWellFounded, Zenon DEF OpToRel, Less

\* Every set of numbers has a least one.
LEMMA LeastNumber ==
  ASSUME NEW U, U \subseteq Nat, U # {}
  PROVE  \E x \in U : \A y \in U : x <= y
  <1>1. PICK x \in U : \A y \in U : <<y, x>> \notin Less
    BY LessWellFounded, WFMin
  <1>2. \A y \in U : ~ (y < x)
    BY <1>1 DEF Less
  <1> QED BY <1>2

\* Induction for a set of numbers.
LEMMA NumbersInduction ==
  ASSUME NEW T, 0 \in T, \A n \in Nat : n \in T => n + 1 \in T
  PROVE  Nat \subseteq T
  <1> DEFINE U == Nat \ T
  <1> SUFFICES ASSUME U # {} PROVE FALSE
    OBVIOUS
  <1>1. PICK x \in U : \A y \in U : x <= y
    <2>1. U \subseteq Nat
      OBVIOUS
    <2> HIDE DEF U
    <2> QED BY <2>1, LeastNumber
  <1>2. x \in Nat /\ x # 0 /\ x - 1 \in Nat /\ ~ (x <= x - 1) /\ (x - 1) + 1 = x
    OBVIOUS
  <1>3. x - 1 \in U
    BY <1>2
  <1> QED BY <1>1, <1>2, <1>3

\* Induction for a set of sequences.
LEMMA SequencesInduction ==
  ASSUME NEW S, NEW T, << >> \in T,
         \A s \in Seq(S) : \A e \in S : s \in T => Append(s, e) \in T
  PROVE  Seq(S) \subseteq T
  <1> DEFINE L == {n \in Nat : \A s \in Seq(S) : Len(s) = n => s \in T}
  <1>1. 0 \in L
    BY EmptySeq
  <1>2. ASSUME NEW n \in Nat, n \in L PROVE n + 1 \in L
    <2> SUFFICES ASSUME NEW s \in Seq(S), Len(s) = n + 1 PROVE s \in T
      OBVIOUS
    <2> DEFINE t == SubSeq(s, 1, n)
               e == s[n + 1]
    <2>1. e \in S /\ t \in Seq(S) /\ Len(t) = n /\ s = Append(t, e)
      OBVIOUS
    <2>2. t \in T
      BY <1>2, <2>1
    <2> QED BY <2>1, <2>2
  <1>3. Nat \subseteq L
    <2> HIDE DEF L
    <2> QED BY <1>1, <1>2, NumbersInduction
  <1> QED BY <1>3, LenProperties

-----------------------------------------------------------------------------
(* Recursion.                                                              *)

\* f is given at m, and at every later place from the place before.
Steps(f, V, m, n, b, step) ==
  /\ f \in [m .. n -> V] /\ f[m] = b
  /\ \A i \in m + 1 .. n : f[i] = step[i][f[i - 1]]

\* What is reached by steps, each from the one before, exists.
LEMMA StepsExist ==
  ASSUME NEW V, NEW m \in Nat, NEW n \in Nat, m <= n, NEW b \in V,
         NEW step \in [m + 1 .. n -> [V -> V]]
  PROVE  \E f : Steps(f, V, m, n, b, step)
  <1> DEFINE Good(f, k) == /\ f \in [m .. k -> V] /\ f[m] = b
                           /\ \A i \in m + 1 .. k : f[i] = step[i][f[i - 1]]
             T == {d \in Nat : m + d <= n => \E f : Good(f, m + d)}
  <1>1. 0 \in T
    <2> DEFINE f == [i \in m .. m |-> b]
    <2>1. Good(f, m + 0)
      OBVIOUS
    <2> HIDE DEF Good
    <2> QED BY <2>1
  <1>2. ASSUME NEW d \in Nat, d \in T PROVE d + 1 \in T
    <2> SUFFICES ASSUME m + (d + 1) <= n PROVE \E f : Good(f, m + (d + 1))
      OBVIOUS
    <2>1. PICK g : Good(g, m + d)
      BY <1>2
    <2> DEFINE k == m + d
               v == step[k + 1][g[k]]
               f == [i \in m .. k + 1 |-> IF i = k + 1 THEN v ELSE g[i]]
    <2>2. k \in m .. k /\ k + 1 \in m + 1 .. n /\ k \in Nat
      OBVIOUS
    <2>3. g[k] \in V
      BY <2>1, <2>2
    <2>4. v \in V
      BY <2>2, <2>3
    <2> HIDE DEF v
    <2>5. f \in [m .. k + 1 -> V] /\ f[m] = b
      <3>1. \A i \in m .. k + 1 : i = k + 1 \/ i \in m .. k
        OBVIOUS
      <3> QED BY <2>1, <2>2, <2>4, <3>1
    <2>6. ASSUME NEW i \in m + 1 .. k + 1 PROVE f[i] = step[i][f[i - 1]]
      <3>1. i - 1 \in m .. k /\ i - 1 # k + 1 /\ i - 1 \in m .. k + 1 /\ i \in m .. k + 1
        BY <2>2
      <3>2. f[i - 1] = g[i - 1]
        BY <3>1
      <3>3. CASE i = k + 1
        <4>1. f[i] = v /\ i - 1 = k
          BY <3>1, <3>3, <2>2
        <4> QED BY <3>2, <3>3, <4>1 DEF v
      <3>4. CASE i # k + 1
        <4>1. i \in m + 1 .. k /\ f[i] = g[i]
          BY <3>1, <3>4
        <4> QED BY <2>1, <3>2, <4>1
      <3> QED BY <3>3, <3>4
    <2>7. m + (d + 1) = k + 1
      OBVIOUS
    <2>8. Good(f, k + 1)
      BY <2>5, <2>6
    <2> HIDE DEF Good, f, k
    <2> QED BY <2>7, <2>8
  <1>3. Nat \subseteq T
    <2> HIDE DEF T
    <2> QED BY <1>1, <1>2, NumbersInduction
  <1>4. n - m \in Nat /\ m + (n - m) = n
    OBVIOUS
  <1>5. \E f : Good(f, n)
    <2>1. n - m \in T
      BY <1>3, <1>4
    <2> HIDE DEF Good
    <2> QED BY <1>4, <2>1
  <1> QED BY <1>5 DEF Steps

\* Two functions that agree at m and go on alike agree everywhere.
GoOnAlike(f, g, m, n) ==
  f[m] = g[m] /\ \A i \in m + 1 .. n : f[i - 1] = g[i - 1] => f[i] = g[i]

Alike(f, g, m, n) == \A i \in m .. n : f[i] = g[i]

\* Two functions that start alike and go on alike are alike.
LEMMA StayAlike ==
  ASSUME NEW f, NEW g, NEW m \in Nat, NEW n \in Nat, GoOnAlike(f, g, m, n)
  PROVE  Alike(f, g, m, n)
  <1> DEFINE T == {d \in Nat : m + d <= n => f[m + d] = g[m + d]}
  <1>1. 0 \in T
    BY DEF GoOnAlike
  <1>2. ASSUME NEW d \in Nat, d \in T PROVE d + 1 \in T
    <2> SUFFICES ASSUME m + (d + 1) <= n PROVE f[m + (d + 1)] = g[m + (d + 1)]
      OBVIOUS
    <2>1. m + (d + 1) \in m + 1 .. n /\ (m + (d + 1)) - 1 = m + d
      OBVIOUS
    <2>2. f[m + d] = g[m + d]
      BY <1>2
    <2> QED BY <2>1, <2>2 DEF GoOnAlike
  <1>3. Nat \subseteq T
    <2> HIDE DEF T
    <2> QED BY <1>1, <1>2, NumbersInduction
  <1>4. ASSUME NEW i \in m .. n PROVE f[i] = g[i]
    <2>1. i - m \in Nat /\ m + (i - m) = i /\ i <= n
      OBVIOUS
    <2>2. i - m \in T
      BY <1>3, <2>1
    <2> QED BY <2>1, <2>2
  <1> QED BY <1>4 DEF Alike

\* FlattenSeq of sequences is defined, and it is the last of its prefixes.
Joins(f, q) ==
  f = [i \in 1 .. Len(q) |-> IF i = 1 THEN q[i] ELSE f[i - 1] \o q[i]]

\* FlattenSeq joins the sequences from the first to the last.
LEMMA FlattenDefined ==
  ASSUME NEW S, NEW q \in Seq(Seq(S)), q # << >>
  PROVE  \E f \in [1 .. Len(q) -> Seq(S)] : Joins(f, q) /\ FlattenSeq(q) = f[Len(q)]
  <1> DEFINE n == Len(q)
             step == [i \in 2 .. n |-> [v \in Seq(S) |-> v \o q[i]]]
  <1>1. /\ n \in Nat /\ 1 <= n /\ n # 0 /\ 1 \in Nat /\ 2 = 1 + 1
        /\ \A i \in 1 .. n : q[i] \in Seq(S)
    OBVIOUS
  <1>2. step \in [2 .. n -> [Seq(S) -> Seq(S)]] /\ q[1] \in Seq(S)
    BY <1>1
  <1> HIDE DEF step, n
  <1>3. PICK f \in [1 .. n -> Seq(S)] :
          f[1] = q[1] /\ \A i \in 2 .. n : f[i] = step[i][f[i - 1]]
    <2>1. step \in [1 + 1 .. n -> [Seq(S) -> Seq(S)]]
      BY <1>2
    <2>2. PICK f : Steps(f, Seq(S), 1, n, q[1], step)
      BY <1>1, <1>2, <2>1, StepsExist, Zenon
    <2>3. /\ f \in [1 .. n -> Seq(S)] /\ f[1] = q[1]
          /\ \A i \in 2 .. n : f[i] = step[i][f[i - 1]]
      BY <2>2 DEF Steps
    <2> QED BY <2>3
  <1>4. ASSUME NEW i \in 1 .. n PROVE f[i] = IF i = 1 THEN q[i] ELSE f[i - 1] \o q[i]
    <2>1. CASE i = 1
      BY <1>3, <2>1
    <2>2. CASE i # 1
      <3>1. i \in 2 .. n /\ i \in 2 .. n /\ i - 1 \in 1 .. n
        BY <2>2, <1>1
      <3>2. f[i - 1] \in Seq(S)
        BY <3>1, <1>3
      <3> QED BY <1>3, <2>2, <3>1, <3>2 DEF step
    <2> QED BY <2>1, <2>2
  <1>5. f = [i \in 1 .. n |-> IF i = 1 THEN q[i] ELSE f[i - 1] \o q[i]]
    BY <1>3, <1>4
  <1> DEFINE c == CHOOSE c : c = [i \in 1 .. n |-> IF i = 1 THEN q[i] ELSE c[i - 1] \o q[i]]
  <1>6. c = [i \in 1 .. n |-> IF i = 1 THEN q[i] ELSE c[i - 1] \o q[i]]
    BY <1>5, Zenon
  <1>7. FlattenSeq(q) = c[n]
    BY <1>1, Zenon DEF FlattenSeq, n
  <1> HIDE DEF c
  <1>8. \A i \in 1 .. n : c[i] = f[i]
    <2>1. c[1] = f[1]
      BY <1>1, <1>5, <1>6
    <2>2. \A i \in 2 .. n : c[i - 1] = f[i - 1] => c[i] = f[i]
      <3> SUFFICES ASSUME NEW i \in 2 .. n, c[i - 1] = f[i - 1] PROVE c[i] = f[i]
        OBVIOUS
      <3>1. i \in 1 .. n /\ i # 1
        BY <1>1
      <3>2. c[i] = c[i - 1] \o q[i]
        BY <1>6, <3>1
      <3>3. f[i] = f[i - 1] \o q[i]
        BY <1>4, <3>1
      <3> QED BY <3>2, <3>3
    <2>3. GoOnAlike(c, f, 1, n)
      BY <2>1, <2>2 DEF GoOnAlike
    <2>4. 1 \in Nat /\ n \in Nat
      BY <1>1
    <2>5. Alike(c, f, 1, n)
      BY <2>3, <2>4, StayAlike, Zenon
    <2> QED BY <2>5 DEF Alike
  <1>9. n \in 1 .. n
    BY <1>1
  <1> QED BY <1>3, <1>5, <1>7, <1>8, <1>9 DEF Joins, n

\* No sequences join to nothing.
LEMMA FlattenEmpty == FlattenSeq(<< >>) = << >>
  BY DEF FlattenSeq

\* One sequence more is joined behind.
LEMMA FlattenAppend ==
  ASSUME NEW S, NEW q \in Seq(Seq(S)), NEW e \in Seq(S)
  PROVE  FlattenSeq(q) \in Seq(S) /\ FlattenSeq(Append(q, e)) = FlattenSeq(q) \o e
  <1> DEFINE p == Append(q, e)
             n == Len(q)
  <1>1. /\ n \in Nat /\ p \in Seq(Seq(S)) /\ p # << >> /\ Len(p) = n + 1 /\ p[n + 1] = e
        /\ 1 \in Nat /\ 2 = 1 + 1 /\ \A i \in 1 .. n : p[i] = q[i]
    <2> DEFINE V == Seq(S)
    <2>1. q \in Seq(V) /\ e \in V
      OBVIOUS
    <2> HIDE DEF V
    <2>2. /\ n \in Nat /\ p \in Seq(V) /\ p # << >> /\ Len(p) = n + 1 /\ p[n + 1] = e
          /\ \A i \in 1 .. n : p[i] = q[i]
      BY <2>1, AppendProperties, LenProperties
    <2> QED BY <2>2 DEF V
  <1> HIDE DEF p, n
  <1>2. PICK f \in [1 .. n + 1 -> Seq(S)] : Joins(f, p) /\ FlattenSeq(p) = f[n + 1]
    <2>1. \E f \in [1 .. Len(p) -> Seq(S)] : Joins(f, p) /\ FlattenSeq(p) = f[Len(p)]
      BY <1>1, FlattenDefined, Zenon
    <2> QED BY <1>1, <2>1, Zenon
  <1>3. \A i \in 1 .. n + 1 : f[i] = IF i = 1 THEN p[i] ELSE f[i - 1] \o p[i]
    BY <1>1, <1>2 DEF Joins
  <1>4. CASE n = 0
    <2>1. q = << >> /\ << >> \o e = e /\ << >> \in Seq(S) /\ 1 \in 1 .. n + 1 /\ n + 1 = 1
      BY <1>4 DEF n
    <2>2. FlattenSeq(p) = e
      BY <1>1, <1>2, <1>3, <2>1
    <2> QED BY <2>1, <2>2, FlattenEmpty DEF p
  <1>5. CASE n # 0
    <2>1. q # << >>
      BY <1>5 DEF n
    <2>2. PICK g \in [1 .. n -> Seq(S)] : Joins(g, q) /\ FlattenSeq(q) = g[n]
      BY <2>1, FlattenDefined DEF n
    <2>3. \A i \in 1 .. n : g[i] = IF i = 1 THEN q[i] ELSE g[i - 1] \o q[i]
      BY <2>2 DEF Joins, n
    <2>4. \A i \in 1 .. n : f[i] = g[i]
      <3>1. f[1] = g[1]
        <4>1. 1 \in 1 .. n /\ 1 \in 1 .. n + 1
          BY <1>1, <1>5
        <4> QED BY <1>1, <1>3, <2>3, <4>1
      <3>2. \A i \in 2 .. n : f[i - 1] = g[i - 1] => f[i] = g[i]
        <4> SUFFICES ASSUME NEW i \in 2 .. n, f[i - 1] = g[i - 1] PROVE f[i] = g[i]
          OBVIOUS
        <4>1. i \in 1 .. n /\ i # 1 /\ i \in 1 .. n + 1
          BY <1>1
        <4>2. f[i] = f[i - 1] \o p[i]
          BY <1>3, <4>1
        <4>3. g[i] = g[i - 1] \o q[i]
          BY <2>3, <4>1
        <4> QED BY <1>1, <4>1, <4>2, <4>3
      <3>3. GoOnAlike(f, g, 1, n)
        BY <3>1, <3>2 DEF GoOnAlike
      <3>4. 1 \in Nat /\ n \in Nat
        BY <1>1
      <3>5. Alike(f, g, 1, n)
        BY <3>3, <3>4, StayAlike, Zenon
      <3> QED BY <3>5 DEF Alike
    <2>5. n + 1 \in 1 .. n + 1 /\ n + 1 # 1 /\ (n + 1) - 1 = n /\ n \in 1 .. n
      BY <1>1, <1>5
    <2>6. f[n + 1] = f[n] \o e
      BY <1>1, <1>3, <2>5
    <2> QED BY <1>2, <2>2, <2>4, <2>5, <2>6 DEF p
  <1> QED BY <1>4, <1>5

\* Joining sequences one by one or in two parts.
LEMMA FlattenType ==
  ASSUME NEW S, NEW q \in Seq(Seq(S)) PROVE FlattenSeq(q) \in Seq(S)
  <1>1. << >> \in Seq(S)
    OBVIOUS
  <1> QED BY <1>1, FlattenAppend

\* Sequences in two parts join to the two parts joined.
LEMMA FlattenConcat ==
  ASSUME NEW S, NEW p \in Seq(Seq(S)), NEW q \in Seq(Seq(S))
  PROVE  FlattenSeq(p \o q) = FlattenSeq(p) \o FlattenSeq(q)
  <1> DEFINE V == Seq(S)
             T == {t \in Seq(V) : FlattenSeq(p \o t) = FlattenSeq(p) \o FlattenSeq(t)}
  <1>1. << >> \in T
    <2>1. FlattenSeq(p) \in Seq(S)
      BY FlattenType
    <2>2. p \in Seq(V)
      OBVIOUS
    <2> HIDE DEF V
    <2>3. p \o << >> = p /\ << >> \in Seq(V)
      BY <2>2
    <2>4. FlattenSeq(p) \o << >> = FlattenSeq(p)
      BY <2>1
    <2> QED BY <2>3, <2>4, FlattenEmpty
  <1>2. ASSUME NEW t \in Seq(V), NEW e \in V, t \in T PROVE Append(t, e) \in T
    <2>1. FlattenSeq(p \o t) = FlattenSeq(p) \o FlattenSeq(t)
      BY <1>2
    <2>2. p \o t \in Seq(V) /\ p \o Append(t, e) = Append(p \o t, e) /\ Append(t, e) \in Seq(V)
      <3>1. p \in Seq(V)
        OBVIOUS
      <3> HIDE DEF V
      <3> QED BY <1>2, <3>1
    <2>3. FlattenSeq(Append(p \o t, e)) = FlattenSeq(p \o t) \o e
      BY <2>2, FlattenAppend
    <2>4. FlattenSeq(Append(t, e)) = FlattenSeq(t) \o e
      BY FlattenAppend
    <2>5. FlattenSeq(p) \in Seq(S) /\ FlattenSeq(t) \in Seq(S) /\ e \in Seq(S)
      BY FlattenType
    <2>6. (FlattenSeq(p) \o FlattenSeq(t)) \o e = FlattenSeq(p) \o (FlattenSeq(t) \o e)
      BY <2>5
    <2> QED BY <2>1, <2>2, <2>3, <2>4, <2>6
  <1>3. Seq(V) \subseteq T
    <2> HIDE DEF T, V
    <2> QED BY <1>1, <1>2, SequencesInduction
  <1> QED BY <1>3
=============================================================================
