---------------------------- MODULE MetadataQuery ----------------------------
(***************************************************************************)
(* The metadata queries of wyrd-spec: a boolean tree of predicates, its    *)
(* canonical printer and the parser that reads the text back.  A behaviour *)
(* validates and prints one tree and parses what was printed.              *)
(*                                                                         *)
(* A text is its tokens.  A key is its dotted segments: words, keywords as *)
(* the lexer spells them, keywords in capitals, and segments that must be  *)
(* quoted.  A reserved field is named by a plain word.  A value is one     *)
(* token, by how it is read back; the operators that differ from "=" by    *)
(* their sign only are left out.                                           *)
(***************************************************************************)
EXTENDS Naturals, Sequences, SequencesExt

CONSTANTS
  Words,                    \* bare segments, no keywords in any case
  Height,                   \* the levels a tree may have below its root
  Queries,                  \* the trees considered
  MaxDepth, MaxPredicates,  \* MAX_DEPTH and MAX_PREDICATES
  MaxInput,                 \* MAX_QUERY_INPUT_LEN
  Length(_)                 \* the bytes of a text

Keywords == {"not", "exists"}   \* of seven
Capitals == {"NOT"}             \* a keyword in capitals
Odd      == {"odd"}             \* not a bare segment: quoted
Spaces   == {"labels"}          \* of labels, annotations and attributes

\* "=", "exists", "not exists", "in [..]" and "not in [..]", as they are read.
ReadOperators == {<<"=", "value">>, <<"exists">>, <<"not", "exists">>,
                  <<"in", "[", "value", "]">>, <<"in", "[", "value", ",", "value", "]">>,
                  <<"not", "in", "[", "value", "]">>}

\* The operators a tree may have that are never read: empty lists, a value whose
\* text is none (a duration below zero, a float that is not finite) and a
\* timestamp, whose text is a string's.
LostOperators == {<<"in", "[", "]">>, <<"not", "in", "[", "]">>,
                  <<"=", "no value">>, <<"=", "timestamp">>}

Operators == ReadOperators \cup LostOperators

Keys   == Seq(Words \cup Keywords \cup Capitals \cup Odd) \ {<< >>}
Fields == [space : {"reserved"}, key : [{1} -> Words]] \cup [space : Spaces, key : Keys]

NoField == [space |-> "none", key |-> << >>]

Leaf(field, op)  == [kind |-> "predicate", field |-> field, op |-> op, args |-> << >>]
Node(kind, args) == [kind |-> kind, field |-> NoField, op |-> << >>, args |-> args]

Leaves == [kind : {"predicate"}, field : Fields, op : Operators, args : {<< >>}]
Nodes(kinds, args) == [kind : kinds, field : {NoField}, op : {<< >>}, args : args]

Trees[height \in 0 .. Height] ==
  Leaves \cup IF height = 0 THEN {}
              ELSE Nodes({"not"}, [{1} -> Trees[height - 1]])
                     \cup Nodes({"and", "or"}, Seq(Trees[height - 1]))

Query == Trees[Height]

ASSUME QueryAssumption ==
  /\ Words \cap (Keywords \cup Capitals \cup Odd) = {}
  /\ Height \in Nat /\ MaxDepth \in Nat /\ MaxPredicates \in Nat /\ MaxInput \in Nat
  /\ Queries \subseteq Query

VARIABLES
  query,      \* the tree
  text,       \* what it prints to
  reparsed,   \* what the text parses to
  outcome

queryVars == <<query, text, reparsed, outcome>>

QueryInit ==
  /\ query \in Queries
  /\ text = << >> /\ reparsed = << >> /\ outcome = "new"

-----------------------------------------------------------------------------
(* MetadataQuery::validate                                                 *)

\* Every tree within a tree, itself among them.
Subtrees[q \in Query] == {q} \cup UNION {Subtrees[q.args[i]] : i \in DOMAIN q.args}

HasEmptyGroup(q) == \E t \in Subtrees[q] : t.kind \in {"and", "or"} /\ t.args = << >>

\* The predicates from left to right.
Predicates[q \in Query] ==
  IF q.kind = "predicate" THEN <<q>>
  ELSE FlattenSeq([i \in DOMAIN q.args |-> Predicates[q.args[i]]])

PredicateCount(q) == Len(Predicates[q])

Depth[q \in Query] == 1 + Max({0} \cup {Depth[q.args[i]] : i \in DOMAIN q.args})

Valid(q) ==
  ~HasEmptyGroup(q) /\ PredicateCount(q) <= MaxPredicates /\ Depth[q] <= MaxDepth

-----------------------------------------------------------------------------
(* fmt::Display                                                            *)

Tok(t)        == [tok |-> t, key |-> << >>]
Ident(w)      == [tok |-> "ident", key |-> <<w>>]
Quoted(key)   == [tok |-> "string", key |-> key]

\* What the lexer makes of a bare segment: keywords in any case are keywords.
Lexed(segment) ==
  IF segment \in Capitals THEN Tok("not")
  ELSE IF segment \in Keywords THEN Tok(segment) ELSE Ident(segment)

Joined(separator, parts) ==
  FlattenSeq([i \in DOMAIN parts |-> IF i = 1 THEN parts[i] ELSE <<separator>> \o parts[i]])

\* fmt_key
Key(key) ==
  IF \E i \in DOMAIN key : key[i] \in Odd THEN <<Quoted(key)>>
  ELSE Joined(Tok("."), [i \in DOMAIN key |-> <<Lexed(key[i])>>])

Field(field) ==
  IF field.space = "reserved" THEN <<Ident(field.key[1])>>
  ELSE <<Ident(field.space), Tok(".")>> \o Key(field.key)

Op(op) == [i \in DOMAIN op |-> Tok(IF op[i] = "timestamp" THEN "value" ELSE op[i])]

Grouped(needed, tokens) == IF needed THEN <<Tok("(")>> \o tokens \o <<Tok(")")>> ELSE tokens

PrecedenceMutant(kind) == IF kind \in {"and", "or"} THEN 2 ELSE 3   \* and and or alike

Precedence(kind) == CASE kind = "or" -> 1 [] kind = "and" -> 2 [] OTHER -> 3

\* The children a parent puts in parentheses whatever their precedence.
Apart(kind) == IF kind = "not" THEN {"and", "or"} ELSE {kind}

\* fmt_prec, but for the parentheses around all of it.
Fmt[q \in Query] ==
  LET Child(c) == Grouped(c.kind \in Apart(q.kind) \/ Precedence(c.kind) < Precedence(q.kind),
                          Fmt[c])
  IN  CASE q.kind = "predicate" -> Field(q.field) \o Op(q.op)
        [] q.kind = "not"       -> <<Tok("not")>> \o Child(q.args[1])
        [] OTHER -> Joined(Tok(q.kind), [i \in DOMAIN q.args |-> Child(q.args[i])])

-----------------------------------------------------------------------------
(* The parser.  What it has read so far is the sequence of trees it got    *)
(* and the next token's place; no tree at all is a syntax error.           *)

Read(trees, at) == [trees |-> trees, at |-> at]
SyntaxError == Read(<< >>, 0)

Peek(toks, i) == IF i \in DOMAIN toks THEN toks[i].tok ELSE "eof"

\* parse_key_segment: identifier and keyword alike, a keyword in its spelling.
Segment(tok) ==
  CASE tok.tok \in {"ident", "string"} -> tok.key
    [] tok.tok \in Keywords            -> <<tok.tok>>
    [] OTHER                           -> << >>

\* parse_key_path: the segments' places, every second one from i on.
KeyLength(toks, i) ==
  CHOOSE n \in 1 .. Len(toks) : /\ Peek(toks, i + 2 * n - 1) # "."
                                /\ \A m \in 1 .. n - 1 : Peek(toks, i + 2 * m - 1) = "."

Segments(toks, i) ==
  [k \in 1 .. KeyLength(toks, i) |->
     IF i + 2 * (k - 1) \in DOMAIN toks THEN Segment(toks[i + 2 * (k - 1)]) ELSE << >>]

ParseOperator(toks, i, field) ==
  LET fits == {op \in ReadOperators : \A j \in DOMAIN op : Peek(toks, i + j - 1) = op[j]}
  IN  IF fits = {} THEN SyntaxError
      ELSE LET op == CHOOSE op \in fits : TRUE
           IN  Read(<<Leaf(field, op)>>, i + Len(op))

\* parse_field and what follows it.
ParsePredicate(toks, i) ==
  LET name     == toks[i].key[1]
      segments == Segments(toks, i + 2)
  IN  IF Peek(toks, i) # "ident" THEN SyntaxError
      ELSE IF Peek(toks, i + 1) # "." THEN
        ParseOperator(toks, i + 1, [space |-> "reserved", key |-> <<name>>])
      ELSE IF name \in Spaces /\ \A k \in DOMAIN segments : segments[k] # << >> THEN
        ParseOperator(toks, i + 1 + 2 * Len(segments),
                      [space |-> name, key |-> FlattenSeq(segments)])
      ELSE SyntaxError

\* One child stands for itself.
Group(kind, read) ==
  IF Len(read.trees) < 2 THEN read ELSE Read(<<Node(kind, read.trees)>>, read.at)

Places(toks) == 1 .. Len(toks) + 1
Nowhere(toks) == [i \in Places(toks) |-> SyntaxError]

\* The loop of parse_or and parse_and.  A text has no more operands than tokens.
Operands(kind, toks, operand, i) ==
  LET reads[n \in 0 .. Len(toks)] ==
        IF n = 0 THEN Nowhere(toks)
        ELSE [j \in Places(toks) |->
                LET first == operand[j]
                    rest  == reads[n - 1][first.at + 1]
                IN  IF first = SyntaxError \/ Peek(toks, first.at) # kind THEN first
                    ELSE IF rest = SyntaxError THEN SyntaxError
                    ELSE Read(first.trees \o rest.trees, rest.at)]
  IN  Group(kind, reads[Len(toks)][i])

\* unary reads an operand that is no group of its own, at the same depth.
ParseAnd(toks, unary, i) == Operands("and", toks, unary, i)

ParseOr(toks, depth, unary, i) ==
  IF depth > MaxDepth THEN SyntaxError
  ELSE Operands("or", toks, [j \in Places(toks) |-> ParseAnd(toks, unary, j)], i)

\* deeper is the same one level deeper.
ParseUnary(toks, depth, deeper, i) ==
  LET negated == deeper[i + 1]
      inner   == ParseOr(toks, depth + 1, deeper, i + 1)
  IN  CASE Peek(toks, i) = "not" ->
             IF negated = SyntaxError THEN SyntaxError
             ELSE Read(<<Node("not", negated.trees)>>, negated.at)
        [] Peek(toks, i) = "(" ->
             IF inner = SyntaxError \/ Peek(toks, inner.at) # ")" THEN SyntaxError
             ELSE Read(inner.trees, inner.at + 1)
        [] OTHER -> ParsePredicate(toks, i)

\* Every level takes a token: left of them are left.
Unary(toks) ==
  LET unary[left \in 0 .. Len(toks)] ==
        IF left = 0 THEN Nowhere(toks)
        ELSE [i \in Places(toks) |-> ParseUnary(toks, Len(toks) - left, unary[left - 1], i)]
  IN  unary[Len(toks)]

ParseQuery(toks) ==
  LET read == ParseOr(toks, 0, Unary(toks), 1)
  IN  IF Length(toks) <= MaxInput /\ read.at = Len(toks) + 1 THEN read.trees ELSE << >>

-----------------------------------------------------------------------------
Render ==
  /\ outcome = "new"
  /\ \/ /\ Valid(query)
        /\ text' = Fmt[query] /\ outcome' = "printed"
     \/ /\ ~Valid(query)
        /\ outcome' = "invalid" /\ UNCHANGED text
  /\ UNCHANGED <<query, reparsed>>

\* MetadataQuery::parse
Reparse ==
  /\ outcome = "printed"
  /\ LET read == ParseQuery(text) IN
     \/ /\ read # << >> /\ Valid(read[1])
        /\ reparsed' = read /\ outcome' = "parsed"
     \/ /\ read # << >> => ~Valid(read[1])
        /\ outcome' = "refused" /\ UNCHANGED reparsed
  /\ UNCHANGED <<query, text>>

QueryNext == Render \/ Reparse

QuerySpec == QueryInit /\ [][QueryNext]_queryVars

-----------------------------------------------------------------------------
\* The same query without the groups of one.
Collapsed[q \in Query] ==
  LET args == [i \in DOMAIN q.args |-> Collapsed[q.args[i]]]
  IN  IF q.kind \in {"and", "or"} /\ Len(args) = 1 THEN args[1] ELSE [q EXCEPT !.args = args]

\* No key spells a keyword in capitals, every operator can be read.
Faithful(q) ==
  \A t \in Subtrees[q] :
    /\ t.op \notin LostOperators
    /\ \A i \in DOMAIN t.field.key : t.field.key[i] \notin Capitals

\* The printer's and the parser's precedence agree: a valid query whose text is
\* within the length cap is accepted again, within the same depth and size, and
\* gives the query back, but for groups of one.  The exceptions are keys that
\* spell a keyword in capitals, which come back as the keyword, and operators
\* that are not read as they were: empty lists and values with no text or with a
\* string's.
QueryRoundTrips ==
  outcome \notin {"new", "printed", "invalid"} /\ Faithful(query) /\ Length(text) <= MaxInput =>
    outcome = "parsed" /\ reparsed = <<Collapsed[query]>>
=============================================================================
