---------------------------- MODULE VersionRange ----------------------------
(***************************************************************************)
(* Version expressions of wyrd-semver: the three ways text becomes a range *)
(* (VersionRange::parse, VersionRange::parse_loose, VersionSpec::parse)    *)
(* and to_bounds, which turns a stored range into the triple bounds of an  *)
(* SQL predicate.  A behaviour is one call of a parser and one of          *)
(* to_bounds.                                                              *)
(*                                                                         *)
(* An expression is its operator and its dotted parts; "chain" stands for  *)
(* comparator lists and the order comparators.  Pre-release and build      *)
(* metadata, which to_bounds refuses, are left out.                        *)
(***************************************************************************)
EXTENDS Integers, Sequences

CONSTANTS
  Largest,   \* u64::MAX
  Authored   \* the expressions considered

Wild == -1
Part == 0 .. Largest \cup {Wild}
Expressions == [op : {"bare", "^", "~", "=", "chain"},
                parts : UNION {[1 .. n -> Part] : n \in 1 .. 4}]

ASSUME VersionAssumption ==
  /\ Largest \in Nat
  /\ Authored \subseteq Expressions

VARIABLES
  authored, how,   \* the text and the parser it is given to
  stored,          \* the VersionRange
  bounds,          \* the VersionBounds
  answer

versionVars == <<authored, how, stored, bounds, answer>>

Triples == [1 .. 3 -> 0 .. Largest]
Unbounded == << >>
NoBounds == [lower |-> << >>, upper |-> << >>, inclusive |-> FALSE]

VersionTypeOK ==
  /\ authored \in Expressions /\ stored \in Expressions
  /\ how \in {"none", "strict", "loose", "spec"}
  /\ bounds = NoBounds \/
       bounds \in [lower : Triples, upper : Triples \cup {Unbounded}, inclusive : BOOLEAN]
  /\ answer \in {"new", "range", "pin", "refused",
                 "bounds", "unrepresentable", "overflow"}

VersionInit ==
  /\ authored \in Authored /\ stored = authored
  /\ how = "none" /\ bounds = NoBounds /\ answer = "new"

-----------------------------------------------------------------------------
Wilds(parts) == {i \in DOMAIN parts : parts[i] = Wild}
Star == [op |-> "bare", parts |-> <<Wild>>]

\* What semver::VersionReq::parse takes: at most three parts, the first a
\* number unless it stands alone, no number behind a wildcard.
Accepted(x) ==
  \/ x = Star \/ x.op = "chain"
  \/ /\ Len(x.parts) <= 3 /\ 1 \notin Wilds(x.parts)
     /\ \A i \in Wilds(x.parts) : i .. Len(x.parts) \subseteq Wilds(x.parts)

Padded(parts) == [i \in 1 .. 3 |-> IF i <= Len(parts) THEN parts[i] ELSE 0]

NormalizedMutant(x) ==   \* "X" becomes "^X" for any number of parts
  IF x.op \in {"=", "chain"} \/ Wilds(x.parts) # {} THEN x
  ELSE IF x.op \in {"^", "~"} THEN [x EXCEPT !.parts = Padded(x.parts)]
  ELSE [x EXCEPT !.op = "^"]

\* normalize_loose, of an expression it does not refuse.
Normalized(x) ==
  IF x.op \in {"=", "chain"} \/ Wilds(x.parts) # {} THEN x
  ELSE IF x.op \in {"^", "~"} THEN [x EXCEPT !.parts = Padded(x.parts)]
  ELSE [x EXCEPT !.op = <<"^", "~", "=">>[Len(x.parts)]]

\* normalize_loose refuses a fourth part and a wildcard behind ^ or ~.
Normalizes(x) ==
  \/ x.op \in {"=", "chain"}
  \/ /\ x.op = "bare"
     /\ Wilds(x.parts) # {} \/ Len(x.parts) <= 3
  \/ x.op \in {"^", "~"} /\ Wilds(x.parts) = {} /\ Len(x.parts) <= 3

Stores(x) == stored' = x /\ answer' = "range"
Refuses == answer' = "refused" /\ UNCHANGED stored

Parse ==
  /\ answer = "new" /\ how' = "strict"
  /\ \/ Accepted(authored) /\ Stores(authored)
     \/ ~Accepted(authored) /\ Refuses
  /\ UNCHANGED <<authored, bounds>>

ParseLoose ==
  /\ answer = "new" /\ how' = "loose"
  /\ \/ /\ Normalizes(authored) /\ Accepted(Normalized(authored))
        /\ Stores(Normalized(authored))
     \/ /\ ~(Normalizes(authored) /\ Accepted(Normalized(authored)))
        /\ Refuses
  /\ UNCHANGED <<authored, bounds>>

Bare(x) == x.op = "bare" /\ Wilds(x.parts) = {}

ParseSpec ==
  /\ answer = "new" /\ how' = "spec"
  /\ \/ /\ Bare(authored) /\ Len(authored.parts) = 3
        /\ answer' = "pin" /\ UNCHANGED stored
     \/ /\ Bare(authored) /\ Len(authored.parts) < 3
        /\ Stores(authored)
     \/ /\ ~Bare(authored) \/ Len(authored.parts) > 3
        /\ Refuses
  /\ UNCHANGED <<authored, bounds>>

-----------------------------------------------------------------------------
(* to_bounds                                                               *)

\* bounds_from_str refuses chains; ^, ~ and = take no wildcard, = only a
\* full triple; without operator wildcards must be trailing.
Representable(x) ==
  \/ x = Star
  \/ /\ x.op # "chain" /\ Len(x.parts) <= 3
     /\ x.op \in {"^", "~", "="} => Wilds(x.parts) = {}
     /\ x.op = "=" => Len(x.parts) = 3
     /\ x.op = "bare" => Accepted(x)

Lower(x) == [i \in 1 .. 3 |-> IF Padded(x.parts)[i] = Wild THEN 0 ELSE Padded(x.parts)[i]]

Exact(x) == Len(x.parts) = 3 /\ Wilds(x.parts) = {} /\ x.op \in {"bare", "="}

RaisedMutant(x) ==     \* the caret of a zero major is that of any other
  CASE x.op = "^" -> 1
    [] x.op = "~" -> 2
    [] OTHER -> Len(x.parts) - (IF Wilds(x.parts) = {} THEN 0 ELSE 1)

\* The part whose successor is the exclusive upper bound: behind ^ the first
\* that is not zero, behind ~ the minor, else the last number.
Raised(x) ==
  CASE x.op = "^" -> IF Lower(x)[1] # 0 THEN 1 ELSE IF Lower(x)[2] # 0 THEN 2 ELSE 3
    [] x.op = "~" -> 2
    [] OTHER -> IF Wilds(x.parts) = {} THEN Len(x.parts)
                ELSE CHOOSE i \in 0 .. 2 : i + 1 \in Wilds(x.parts) /\ i \notin Wilds(x.parts)

Upper(x) == [i \in 1 .. 3 |-> IF i < Raised(x) THEN Lower(x)[i]
                              ELSE IF i = Raised(x) THEN Lower(x)[i] + 1 ELSE 0]

OverflowsMutant(x) == FALSE   \* value + 1 instead of checked_add

Overflows(x) == ~Exact(x) /\ x # Star /\ Lower(x)[Raised(x)] = Largest

BoundsOf(x) ==
  [lower     |-> Lower(x),
   upper     |-> IF x = Star THEN Unbounded ELSE IF Exact(x) THEN Lower(x) ELSE Upper(x),
   inclusive |-> Exact(x)]

ToBounds ==
  /\ answer = "range"
  /\ \/ /\ Representable(stored) /\ ~Overflows(stored)
        /\ bounds' = BoundsOf(stored) /\ answer' = "bounds"
     \/ /\ Representable(stored) /\ Overflows(stored)
        /\ answer' = "overflow" /\ UNCHANGED bounds
     \/ /\ ~Representable(stored)
        /\ answer' = "unrepresentable" /\ UNCHANGED bounds
  /\ UNCHANGED <<authored, how, stored>>

VersionNext == Parse \/ ParseLoose \/ ParseSpec \/ ToBounds

VersionCalls == VersionInit /\ [][VersionNext]_versionVars

\* is_loose_partial reads the stored text.
IsLoosePartial(x) ==
  /\ Wilds(x.parts) = {}
  /\ \/ x.op = "^" /\ Len(x.parts) = 1
     \/ x.op = "~" /\ Len(x.parts) = 2

-----------------------------------------------------------------------------
(* What a range means                                                      *)

\* VersionReq::matches of one comparator on a release version.
Matches(x, v) ==
  LET n == IF Wilds(x.parts) = {} THEN Len(x.parts)
           ELSE CHOOSE i \in 0 .. 2 : i + 1 \in Wilds(x.parts) /\ i \notin Wilds(x.parts)
      same(k) == \A i \in 1 .. k : i <= n => v[i] = x.parts[i]
  IN  CASE x.op = "=" \/ (x.op = "bare" /\ Wilds(x.parts) # {}) -> same(3)
        [] x.op = "~" -> same(2) /\ (n = 3 => v[3] >= x.parts[3])
        [] OTHER ->
             LET fixed == IF x.parts[1] # 0 \/ n = 1 THEN 1
                          ELSE IF x.parts[2] # 0 \/ n = 2 THEN 2 ELSE 3
             IN  /\ same(fixed)
                 /\ \A i \in fixed + 1 .. n :
                      v[i] >= x.parts[i] \/ \E j \in fixed + 1 .. i - 1 : v[j] > x.parts[j]

Before(s, t) == \E i \in 1 .. 3 : s[i] < t[i] /\ \A j \in 1 .. i - 1 : s[j] = t[j]

\* The versions the SQL predicate selects.
Selected(b) ==
  {v \in Triples : /\ ~Before(v, b.lower)
                   /\ \/ b.upper = Unbounded
                      \/ Before(v, b.upper)
                      \/ b.inclusive /\ v = b.upper}

Line(x) == {v \in Triples : \A i \in DOMAIN x.parts : v[i] = x.parts[i]}

\* "For use in SQL predicates": the bounds of a range select the versions it
\* matches, if it was normalised or is a full triple behind an operator, and
\* those of a scope "the prefix line", which VersionSpec says it is.  The one
\* exception is the "0" of PartialPins.
BoundsMatch ==
  answer = "bounds" =>
    /\ \/ how = "loose" /\ stored # [op |-> "^", parts |-> <<0>>]
       \/ Len(stored.parts) = 3 /\ stored.op # "bare"
       => Selected(bounds) = {v \in Triples : Matches(stored, v)}
    /\ how = "spec" => Selected(bounds) = Line(authored)

\* is_loose_partial tells from the normalised text, and parse_loose keeps,
\* what was authored bare: "returns true only when this range was parsed
\* from a bare partial input".
LoosePartialKnown ==
  how = "loose" /\ answer # "refused" =>
    (IsLoosePartial(stored) <=> Bare(authored) /\ Len(authored.parts) < 3)

\* The dialect of to_bounds: "1" is [1.0.0, 2.0.0) and "1.2" [1.2.0, 1.3.0),
\* "partial-pin semantics": a bare partial selects its prefix line.
PartialPins ==
  how = "loose" /\ answer = "bounds" /\ Bare(authored) => Selected(bounds) = Line(authored)
=============================================================================
