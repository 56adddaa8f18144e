------------------------- MODULE ProducerProperties -------------------------
(***************************************************************************)
(* What the write buffer of wyrd-queue guarantees, and what its comments   *)
(* claim that the code does not do.                                        *)
(***************************************************************************)
EXTENDS Producer

RowsOf(batches) == FlattenSeq([i \in DOMAIN batches |-> batches[i].rows])

\* What is left of a sequence without the elements of a set: SelectSeq as a
\* recursive function, which the provers can unfold.
Without(s, X) ==
  LET kept[i \in 0 .. Len(s)] ==
        IF i = 0 THEN << >>
        ELSE IF s[i] \in X THEN kept[i - 1] ELSE Append(kept[i - 1], s[i])
  IN  kept[Len(s)]

\* The accepted rows the task still has, oldest first.
Pipeline == RowsOf(pending) \o RowsOf(retry) \o staging \o held \o chan

\* The same rows, without their order: sealed in a batch, or not yet.
Queued     == ToSet(pending) \cup ToSet(retry)
QueuedRows == UNION {ToSet(b.rows) : b \in Queued}
Loose      == ToSet(staging) \cup ToSet(held) \cup ToSet(chan)
Here       == Loose \cup QueuedRows

-----------------------------------------------------------------------------
(* Guarantees                                                              *)

\* Whatever fails, is retried, split or stored late, the rows the server
\* holds followed by the rows still buffered are exactly the rows try_send
\* accepted, in the order it accepted them, minus those counted as dropped.
Conservation ==
  RowsOf(stored) \o Without(Pipeline, StoredRows) = Without(admitted, discarded)

\* "Minted once at seal and stable across transport retries": two requests
\* that share a batch id or a row are the same request.
OneRequestPerBatch ==
  \A b1, b2 \in sent :
     b1.id = b2.id \/ ToSet(b1.rows) \cap ToSet(b2.rows) # {} => b1 = b2

\* Every call of enqueue that has been decided shows in the counters: refused
\* calls and rows dropped while sealing in one, accepted calls in the other.
CountersBalance ==
  /\ dropped = Cardinality({r \in Rows : call[r] = "refused"}) + Cardinality(discarded)
  /\ accepted = Cardinality({r \in Rows : call[r] \in {"counted", "ok"}})
  /\ Len(admitted) = accepted + Cardinality({r \in Rows : call[r] = "sent"})

\* The row the task has popped and not yet uncounted.
InHand == IF phase = "popped" THEN 1 ELSE 0

\* channel_depth counts, modulo the word size, the rows in the channel and the
\* one the task has popped but not yet uncounted, less those of the enqueue
\* calls between their try_send and their fetch_add, and is off by nothing else.
DepthLag ==
  (depth + Cardinality({r \in Rows : call[r] \in {"sent", "counted"}})) % DepthModulus
    = (Len(chan) + InHand) % DepthModulus

\* The drop branch of ingest is dead: a pass, even one that failed, always
\* leaves staging empty for the row in hand.
HeldRowLands == phase = "return" /\ held # << >> => staging = << >>

\* When flush or shutdown returns Ok, every row accepted before the task took
\* the message up is stored at the server or was counted as dropped, and the
\* batch ids a flush returns are those of batches the server has stored.
OkMeansDelivered ==
  \A c \in Controllers : ctl[c] = "ok" =>
    due[c] \subseteq StoredRows \cup discarded /\ reported[c] \subseteq StoredIds

-----------------------------------------------------------------------------
(* The promise per row                                                     *)

Status ==
  [r \in Rows |->
     CASE r \in StoredRows             -> "stored"
       [] r \in discarded \ StoredRows -> "dropped"
       [] r \in Here \ StoredRows      ->
            IF phase = "exit" THEN "abandoned" ELSE "buffered"
       [] call[r] = "refused"          -> "refused"
       [] OTHER                        -> "new"]

Ledger == INSTANCE RowLedger WITH status  <- Status,
                                  running <- phase # "exit"

\* The producer implements the row ledger: no accepted row goes back to being
\* unknown, is stored twice, or is dropped after it was stored; only the end
\* of the task abandons rows, and no row is accepted after it.
KeepsLedger == Ledger!Spec

-----------------------------------------------------------------------------
(* Liveness                                                                *)

\* Every flush and every shutdown returns, with rows still arriving and a
\* sink that may fail: the drains end and every reply slot is answered.
CallsReturn ==
  /\ \A c \in Controllers : ctl[c] = "waiting" ~> ctl[c] # "waiting"
  /\ \A r \in Rows : call[r] \in {"trying", "sent", "counted"} ~> call[r] \in {"ok", "refused"}

\* Everything the task wakes for is empty, and a batch in the retry buffer
\* holds the row, put back there when a chunk of older rows was dropped.
LeftBehind(r) ==
  /\ phase = "select" /\ ctrl = << >> /\ chan = << >> /\ staging = << >>
  /\ \E i \in DOMAIN retry : r \in ToSet(retry[i].rows)
  /\ \E i, j \in DOMAIN admitted :
        i < j /\ admitted[i] \in discarded /\ admitted[j] = r

\* With the interval timer on and a sink that does not fail, every accepted
\* row leaves the buffer: it is stored, dropped with a count, or abandoned
\* because the task stopped.  The one exception is a row left behind a dropped
\* chunk: the timer arm looks at staging only, so that the row waits in the
\* retry buffer until a later row or call begins another pass, if any does.
RowsLeaveBuffer ==
  \A r \in Rows : <>[](Status[r] = "buffered") => <>[]LeftBehind(r)

-----------------------------------------------------------------------------
(* Claims of the comments that the code does not keep                      *)

\* producer.rs: "Rows in flight: stage-1 channel depth plus stage-2 staging
\* depth".  A depth never exceeds what the two stages can hold.
QueueDepthInFlight ==
  (depth + Len(staging)) % DepthModulus <= ChannelCapacity + StagingCapacity

\* producer.rs: shutdown walks the state machine "refusing new rows once
\* draining and flushing the buffer to completion before it returns", and
\* backpressure is "never silent": no accepted row is left in the channel
\* when a shutdown that returned Ok has stopped the task.
ShutdownStrandsNoRow ==
  phase = "exit" /\ (\E c \in Closers : ctl[c] = "ok") => chan = << >>

\* sink.rs: "The producer inspects the error to decide re-buffer vs.
\* drop-with-log": once shutdown has returned, a row the server refuses has
\* not kept a row of another batch from being stored.
RefusalHoldsUpNoOther ==
  \A c \in Closers : ctl[c] \in {"ok", "err"} =>
    \A r \in due[c] \ Refused : r \in StoredRows \cup discarded
=============================================================================
