---------------------------- MODULE MCJwksCache -----------------------------
(* Instances of the key cache: calls that ask for the key the provider has *)
(* and for the one it rotates in; one entry has no kid.                    *)
EXTENDS JwksCache

CONSTANTS c1, c2, c3, k1, k2, noKid

ThreeCalls == {c1, c2, c3}
TwoKids    == {k1, k2}
Asked      == [c \in Calls |-> IF c = c1 THEN k1 ELSE k2]
Rotation   == {[kid |-> k1, sound |-> TRUE], [kid |-> k2, sound |-> TRUE],
               [kid |-> noKid, sound |-> TRUE]}
=============================================================================
