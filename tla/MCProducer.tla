----------------------------- MODULE MCProducer -----------------------------
(* Instances of the write buffer for TLC: three rows, one flush, one       *)
(* shutdown; r2 is the big row, r3 the one that cannot be built.           *)
EXTENDS ProducerProperties

CONSTANTS r1, r2, r3, f1, s1

TwoRows   == {r1, r2}
ThreeRows == {r1, r2, r3}
OnlyF1    == {f1}
OnlyS1    == {s1}
NoCall    == {}
OnlyR1    == {r1}
OnlyR3    == {r3}
Even      == [r \in Rows |-> 1]
BigR2     == [r \in Rows |-> IF r = r2 THEN 2 ELSE 1]
=============================================================================
