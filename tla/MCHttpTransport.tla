-------------------------- MODULE MCHttpTransport ---------------------------
(* Instances of the HTTP transport: a replay-safe request beside one that  *)
(* is not, and one beside a streaming request.                              *)
EXTENDS HttpTransport

CONSTANTS q1, q2

Two       == {q1, q2}
Mixed     == [c \in Requests |-> IF c = q1 THEN "unsafe" ELSE "safe"]
Streaming == [c \in Requests |-> IF c = q1 THEN "stream" ELSE "safe"]
=============================================================================
