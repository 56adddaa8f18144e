----------------------- MODULE FrameDecoderProperties -----------------------
(***************************************************************************)
(* FrameDecoder against the encoding itself: what FrameEncoder (prost's    *)
(* encode_length_delimited) writes for a sequence of messages.             *)
(***************************************************************************)
EXTENDS FrameDecoder, SequencesExt

\* What n leaves above its lowest groups.
Rest(n) == LET rest[k \in 0 .. MaxBytes] == IF k = 0 THEN n ELSE rest[k - 1] \div Base
           IN  rest

\* The ceiling is a usize: a word spells it.  A message is a string of bytes.
ASSUME LengthAssumption ==
  /\ Rest(Maximum)[MaxBytes - 1] <= Top
  /\ Messages \subseteq Seq(Bytes)

\* The canonical varint of n: groups from the least, flags on all but the last.
Varint(n) ==
  LET rest  == Rest(n)
      width == CHOOSE k \in 1 .. MaxBytes : rest[k] = 0 /\ \A j \in 1 .. k - 1 : rest[j] # 0
  IN  [k \in 1 .. width |-> [more |-> k < width, bits |-> rest[k - 1] % Base]]

Frame(m) == Varint(Len(m)) \o m

Encoded(ms) == FlattenSeq([i \in DOMAIN ms |-> Frame(ms[i])])

\* The part of a frame the decoder holds.
Partial == IF expected = None THEN prefix ELSE Varint(expected) \o payload

\* However the body is cut, what came out encodes to exactly what went in,
\* up to the frame under way: nothing lost, duplicated, merged or reordered.
RoundTrips ==
  failed = Fine => wire = Encoded(delivered \o messages) \o Partial

\* The bodies an encoder can write within the bounds.
WellFormed ==
  LET bodies[n \in 0 .. MaxWire] ==
        {<< >>} \cup UNION {{Frame(m) \o body : body \in bodies[n - Len(Frame(m))]} :
                            m \in {k \in Messages : Len(k) <= Maximum /\ Len(Frame(k)) <= n}}
  IN  bodies[MaxWire]

Fragments == UNION {{SubSeq(body, 1, i) : i \in 0 .. Len(body)} : body \in WellFormed}

\* No cut of a body an encoder wrote is ever refused, and finish accepts it
\* exactly at its end.
AcceptsExactly ==
  /\ wire \in Fragments => failed = Fine
  /\ failed = Fine /\ result # "open" => (result = "complete" <=> wire \in WellFormed)
=============================================================================
