---------------------------- MODULE FrameDecoder ----------------------------
(***************************************************************************)
(* wyrd-tonic's FrameDecoder: body chunks of any size go in, the messages  *)
(* of complete length-delimited protobuf frames come out.  push is a loop  *)
(* over the bytes of its chunk; a step is one turn of that loop, a return, *)
(* or finish.                                                              *)
(*                                                                         *)
(* A byte is its continuation flag and its group of bits; seven bits in a  *)
(* group and ten groups to a 64-bit word in the code, Base and MaxBytes    *)
(* here, with Top the most the last group of a word may hold.              *)
(***************************************************************************)
EXTENDS Integers, Sequences

CONSTANTS
  Base, MaxBytes, Top,  \* 128, 10 and 1 in the code
  Maximum,              \* the payload ceiling given to new
  Messages,             \* the payloads M::decode accepts
  MaxWire               \* bound: bytes that arrive

ASSUME FrameAssumption ==
  /\ Base \in Nat /\ Base > 1 /\ MaxBytes \in Nat /\ MaxBytes > 0
  /\ Top \in 0 .. Base - 1
  /\ Maximum \in Nat /\ MaxWire \in Nat
  /\ << >> \in Messages

Bytes == [more : BOOLEAN, bits : 0 .. Base - 1]

VARIABLES
  prefix, payload, expected,  \* the decoder
  messages,                   \* completed in the push under way
  pushing,                    \* is a push under way?
  wire, delivered,            \* history: bytes consumed, messages returned
  failed,                     \* history: the first error push returned
  result                      \* of finish

decoder == <<prefix, payload, expected>>
frameVars == <<prefix, payload, expected, messages, pushing, wire, delivered, failed, result>>

None == -1   \* no length is expected
Fine == "none"

FrameTypeOK ==
  /\ prefix \in Seq(Bytes) /\ payload \in Seq(Bytes)
  /\ expected \in {None} \cup 0 .. Maximum
  /\ messages \in Seq(Messages) /\ delivered \in Seq(Messages)
  /\ pushing \in BOOLEAN
  /\ wire \in Seq(Bytes)
  /\ failed \in {Fine, "malformed", "oversize", "decode"}
  /\ result \in {"open", "complete", "truncated"}

FrameInit ==
  /\ prefix = << >> /\ payload = << >> /\ expected = None
  /\ messages = << >> /\ pushing = FALSE
  /\ wire = << >> /\ delivered = << >> /\ failed = Fine /\ result = "open"

-----------------------------------------------------------------------------
CanonicalMutant(p) == ~(Len(p) = MaxBytes /\ p[Len(p)].bits > Top)

\* decode_varint refuses what does not fit the word and a last group of zero.
Canonical(p) ==
  /\ ~(Len(p) = MaxBytes /\ p[Len(p)].bits > Top)
  /\ ~(Len(p) > 1 /\ p[Len(p)] = [more |-> FALSE, bits |-> 0])

\* The length a prefix spells, from its last group on, whatever its flags.
Value(p) ==
  LET sum[i \in 0 .. Len(p)] ==
        IF i = 0 THEN 0 ELSE sum[i - 1] * Base + p[Len(p) - i + 1].bits
  IN  sum[Len(p)]

Fits(length) == length \in 0 .. Maximum

\* push returns an error: what it had completed goes with it.
Fail(error) ==
  /\ messages' = << >> /\ pushing' = FALSE
  /\ failed' = IF failed = Fine THEN error ELSE failed

Continue ==
  /\ pushing' = TRUE
  /\ UNCHANGED failed

PrefixByte(b) ==
  LET p == Append(prefix, b) IN
  /\ expected = None
  /\ \/ /\ Len(p) > MaxBytes \/ (~b.more /\ ~Canonical(p))
        /\ prefix' = p /\ Fail("malformed")
        /\ UNCHANGED <<payload, expected>>
     \/ /\ Len(p) <= MaxBytes /\ b.more
        /\ prefix' = p /\ Continue
        /\ UNCHANGED <<payload, expected, messages>>
     \/ /\ Len(p) <= MaxBytes /\ ~b.more /\ Canonical(p)
        /\ ~Fits(Value(p))
        /\ prefix' = p /\ Fail("oversize")
        /\ UNCHANGED <<payload, expected>>
     \/ /\ Len(p) <= MaxBytes /\ ~b.more /\ Canonical(p)
        /\ Fits(Value(p)) /\ Value(p) # 0
        /\ prefix' = << >> /\ payload' = << >> /\ expected' = Value(p)
        /\ Continue /\ UNCHANGED messages
     \/ /\ Len(p) <= MaxBytes /\ ~b.more /\ Canonical(p)
        /\ Value(p) = 0
        /\ prefix' = << >> /\ payload' = << >>
        /\ messages' = Append(messages, << >>)
        /\ Continue /\ UNCHANGED expected

CompletedMutant(m) ==   \* the payload is not cleared
  /\ messages' = Append(messages, m)
  /\ payload' = m /\ expected' = None

\* A whole message: the decoder is between frames again.
Completed(m) ==
  /\ messages' = Append(messages, m)
  /\ payload' = << >> /\ expected' = None

RejectedMutant(p) ==    \* the decoder starts afresh behind a bad message
  /\ payload' = << >> /\ expected' = None
  /\ Fail("decode")

\* A payload M::decode refuses stays where it is, with its length.
Rejected(p) ==
  /\ payload' = p
  /\ Fail("decode") /\ UNCHANGED expected

PayloadByte(b) ==
  LET p == Append(payload, b) IN
  /\ expected # None
  /\ UNCHANGED prefix
  /\ \/ /\ Len(p) # expected
        /\ payload' = p
        /\ Continue /\ UNCHANGED <<expected, messages>>
     \/ /\ Len(p) = expected /\ p \in Messages
        /\ Completed(p) /\ Continue
     \/ /\ Len(p) = expected /\ p \notin Messages
        /\ Rejected(p)

Byte(b) ==
  /\ result = "open" /\ Len(wire) < MaxWire
  /\ PrefixByte(b) \/ PayloadByte(b)
  /\ wire' = Append(wire, b)
  /\ UNCHANGED <<delivered, result>>

\* The chunk ends here.
PushReturns ==
  /\ pushing
  /\ pushing' = FALSE
  /\ delivered' = delivered \o messages /\ messages' = << >>
  /\ UNCHANGED <<prefix, payload, expected, wire, failed, result>>

AtBoundaryMutant == expected = None

AtBoundary == prefix = << >> /\ expected = None

Finish ==
  /\ ~pushing /\ result = "open"
  /\ result' = IF AtBoundary THEN "complete" ELSE "truncated"
  /\ UNCHANGED <<prefix, payload, expected, messages, pushing, wire, delivered, failed>>

FrameNext == (\E b \in Bytes : Byte(b)) \/ PushReturns \/ Finish

FrameSpec == FrameInit /\ [][FrameNext]_frameVars

-----------------------------------------------------------------------------
\* The doc of push promises its errors "before allocating its declared
\* payload": as long as no push has failed, the buffers stay within the
\* ceiling and the longest prefix however the body is cut into chunks.
BuffersBounded ==
  failed = Fine =>
    /\ Len(prefix) <= MaxBytes
    /\ Len(payload) <= Maximum /\ (expected = None => payload = << >>)

\* A decoder that met an oversize length or a bad message yields nothing
\* more, though it keeps its state and a caller may go on pushing.
SpentStaysSilent ==
  [][(failed \in {"oversize", "decode"}) => delivered' = delivered]_frameVars
=============================================================================
