------------------------------ MODULE Producer ------------------------------
(***************************************************************************)
(* The two-stage write buffer of wyrd-queue.  Caller threads hand rows to  *)
(* a bounded channel (enqueue) and ask for a flush or a shutdown over a    *)
(* control channel; one background task moves rows into the staging        *)
(* buffer, seals them into batches under a batch id and sends the batches  *)
(* to a sink, which stores a batch at most once per id.                    *)
(*                                                                         *)
(* A call of enqueue is identified with the row it carries, so any two     *)
(* rows may be in flight on two threads.  Between two awaits or two shared *)
(* memory accesses a thread takes one step.                                *)
(***************************************************************************)
EXTENDS Integers, SequencesExt

CONSTANTS
  Rows,             \* calls of enqueue, each with its row
  Flushers,         \* calls of flush
  Closers,          \* calls of shutdown
  ChannelCapacity,  \* QueueConfig.channel_capacity
  StagingCapacity,  \* QueueConfig.staging_capacity
  FlushMaxRows,     \* QueueConfig.flush_max_rows
  MaxMessageBytes,  \* QueueConfig.max_message_bytes
  Timer,            \* QueueConfig.flush_interval_ms > 0
  Attempts,         \* ENQUEUE_ATTEMPTS
  DepthModulus,     \* 2^w for the w-bit usize of channel_depth
  Bytes,            \* the bytes a row adds to the frames of its batch
  Poison,           \* rows no batch can be built from
  Refused,          \* rows the server never stores
  Faulty            \* the sink may reject a send or let it time out

Controllers == Flushers \cup Closers

ASSUME CallAssumption ==
  /\ Poison \subseteq Rows /\ Refused \subseteq Rows
  /\ Bytes \in [Rows -> Nat]
  /\ Flushers \cap Closers = {}
  /\ Controllers \cap {"idle", "row", "tick", "closed"} = {}

\* new() clamps the first three to at least one.
ASSUME ConfigAssumption ==
  /\ ChannelCapacity \in Nat \ {0} /\ StagingCapacity \in Nat \ {0}
  /\ FlushMaxRows \in Nat \ {0} /\ MaxMessageBytes \in Nat
  /\ Attempts \in Nat \ {0} /\ DepthModulus \in Nat \ {0}
  /\ Timer \in BOOLEAN /\ Faulty \in BOOLEAN

VARIABLES
  call, tries, accepted, dropped, depth,            \* enqueue and its counters
  ctl, due, reported,                               \* flush and shutdown calls
  state, handle, chan, ctrl, staging,               \* what the threads share
  phase, job, held, pending, retry, outcome, nextId,\* the background task
  sent, stored,                                     \* the sink
  admitted, discarded                               \* history

callVars == <<call, tries, accepted>>
ctlVars  == <<ctl, due, reported>>
taskVars == <<phase, job, held, pending, retry, outcome, nextId>>
sinkVars == <<sent, stored>>
vars == <<call, tries, accepted, dropped, depth, ctl, due, reported, state,
          handle, chan, ctrl, staging, phase, job, held, pending, retry,
          outcome, nextId, sent, stored, admitted, discarded>>

Batch   == [id : Nat, rows : Seq(Rows)]
Outcome == [ok : BOOLEAN, ids : SUBSET Nat]

TypeOK ==
  /\ call \in [Rows -> {"idle", "trying", "sent", "counted", "ok", "refused"}]
  /\ tries \in [Rows -> 0 .. Attempts]
  /\ accepted \in Nat /\ dropped \in Nat /\ depth \in 0 .. DepthModulus - 1
  /\ ctl \in [Controllers -> {"idle", "waiting", "ok", "err", "gone"}]
  /\ due \in [Controllers -> SUBSET Rows]
  /\ reported \in [Controllers -> SUBSET Nat]
  /\ state \in {"RUNNING", "DRAINING", "DRAINED"}
  /\ handle \in {"open", "txDropped", "dropped"}
  /\ chan \in Seq(Rows) /\ staging \in Seq(Rows)
  /\ held \in Seq(Rows) /\ admitted \in Seq(Rows)
  /\ ctrl \in Seq(Controllers)
  /\ phase \in {"select", "popped", "counted", "landed", "pull", "drain", "pass",
                "send", "return", "break", "exit"}
  /\ job \in {"idle", "row", "tick", "closed"} \cup Controllers
  /\ pending \in Seq(Batch) /\ retry \in Seq(Batch) /\ stored \in Seq(Batch)
  /\ outcome \in Outcome
  /\ nextId \in Nat
  /\ sent \subseteq Batch
  /\ discarded \subseteq Rows

-----------------------------------------------------------------------------
(* Batches                                                                 *)

FrameBytes(rows) == FoldFunction(+, 0, [i \in DOMAIN rows |-> Bytes[rows[i]]])

Unbuildable(b) == \E i \in DOMAIN b.rows : b.rows[i] \in Poison

Oversize(b) == FrameBytes(b.rows) > MaxMessageBytes

Chunks(rows, base) ==
  [i \in 1 .. (Len(rows) + FlushMaxRows - 1) \div FlushMaxRows |->
     LET last == i * FlushMaxRows
     IN  [id   |-> base + i - 1,
          rows |-> SubSeq(rows, last - FlushMaxRows + 1,
                          IF last < Len(rows) THEN last ELSE Len(rows))]]

HalvesMutant(b, fresh) ==      \* both halves keep the id of the whole
  LET mid == Len(b.rows) \div 2
  IN  << [id |-> b.id, rows |-> SubSeq(b.rows, 1, mid)],
         [id |-> b.id, rows |-> SubSeq(b.rows, mid + 1, Len(b.rows))] >>

\* The left half keeps the batch id, the right half gets a fresh one.
Halves(b, fresh) ==
  LET mid == Len(b.rows) \div 2
  IN  << [id |-> b.id,  rows |-> SubSeq(b.rows, 1, mid)],
         [id |-> fresh, rows |-> SubSeq(b.rows, mid + 1, Len(b.rows))] >>

StoredIds  == {stored[i].id : i \in DOMAIN stored}
StoredRows == UNION {ToSet(stored[i].rows) : i \in DOMAIN stored}
Buffered   == ToSet(admitted) \ (StoredRows \cup discarded)
Rejected(b) == ToSet(b.rows) \cap Refused # {}

-----------------------------------------------------------------------------
Init ==
  /\ call = [r \in Rows |-> "idle"] /\ tries = [r \in Rows |-> 0]
  /\ accepted = 0 /\ dropped = 0 /\ depth = 0
  /\ ctl = [c \in Controllers |-> "idle"]
  /\ due = [c \in Controllers |-> {}]
  /\ reported = [c \in Controllers |-> {}]
  /\ state = "RUNNING" /\ handle = "open"
  /\ chan = << >> /\ ctrl = << >> /\ staging = << >>
  /\ phase = "select" /\ job = "idle" /\ held = << >>
  /\ pending = << >> /\ retry = << >> /\ nextId = 1
  /\ outcome = [ok |-> TRUE, ids |-> {}]
  /\ sent = {} /\ stored = << >>
  /\ admitted = << >> /\ discarded = {}

-----------------------------------------------------------------------------
(* The caller's side.  Once the task has exited its receivers are gone and *)
(* both channels are closed.                                               *)

Closed == phase = "exit"

RefuseMutant(r) ==             \* a silent refusal
             /\ call' = [call EXCEPT ![r] = "refused"]
             /\ UNCHANGED dropped

Refuse(r) == /\ call' = [call EXCEPT ![r] = "refused"]
             /\ dropped' = dropped + 1

Enqueue(r) ==
  /\ call[r] = "idle" /\ handle = "open"
  /\ \/ /\ state = "RUNNING"
        /\ call' = [call EXCEPT ![r] = "trying"]
        /\ UNCHANGED dropped
     \/ /\ state # "RUNNING"
        /\ Refuse(r)
  /\ UNCHANGED <<tries, accepted, depth, ctlVars, state, handle, chan, ctrl,
                 staging, taskVars, sinkVars, admitted, discarded>>

SaturatedMutant(r) ==          \* one attempt too many
  /\ tries' = [tries EXCEPT ![r] = @ + 1]
  /\ IF tries'[r] <= Attempts THEN UNCHANGED <<call, dropped>> ELSE Refuse(r)

\* The channel is full: back off and try again, Attempts times in all.
Saturated(r) ==
  /\ tries' = [tries EXCEPT ![r] = @ + 1]
  /\ IF tries'[r] < Attempts THEN UNCHANGED <<call, dropped>> ELSE Refuse(r)

TrySend(r) ==
  /\ call[r] = "trying"
  /\ \/ /\ ~Closed /\ Len(chan) < ChannelCapacity
        /\ chan' = Append(chan, r)
        /\ admitted' = Append(admitted, r)
        /\ call' = [call EXCEPT ![r] = "sent"]
        /\ UNCHANGED <<tries, dropped>>
     \/ /\ ~Closed /\ Len(chan) = ChannelCapacity
        /\ Saturated(r)
        /\ UNCHANGED <<chan, admitted>>
     \/ /\ Closed
        /\ Refuse(r)
        /\ UNCHANGED <<chan, admitted, tries>>
  /\ UNCHANGED <<accepted, depth, ctlVars, state, handle, ctrl, staging,
                 taskVars, sinkVars, discarded>>

\* Two counters move, one after the other, once try_send has made the row
\* visible to the task.
CountAccepted(r) ==
  /\ call[r] = "sent"
  /\ call' = [call EXCEPT ![r] = "counted"]
  /\ accepted' = accepted + 1
  /\ UNCHANGED <<tries, dropped, depth, ctlVars, state, handle, chan, ctrl,
                 staging, taskVars, sinkVars, admitted, discarded>>

CountDepth(r) ==
  /\ call[r] = "counted"
  /\ call' = [call EXCEPT ![r] = "ok"]
  /\ depth' = (depth + 1) % DepthModulus
  /\ UNCHANGED <<tries, accepted, dropped, ctlVars, state, handle, chan, ctrl,
                 staging, taskVars, sinkVars, admitted, discarded>>

\* flush and shutdown differ in the message only; the caller then blocks.
Request(c) ==
  /\ ctl[c] = "idle" /\ handle = "open"
  /\ IF Closed
     THEN /\ ctl' = [ctl EXCEPT ![c] = "gone"]
          /\ UNCHANGED ctrl
     ELSE /\ ctl' = [ctl EXCEPT ![c] = "waiting"]
          /\ ctrl' = Append(ctrl, c)
  /\ UNCHANGED <<callVars, dropped, depth, due, reported, state, handle, chan,
                 staging, taskVars, sinkVars, admitted, discarded>>

\* Dropping the last handle drops tx, then ctrl_tx; no call is under way.
DropHandle ==
  /\ handle # "dropped"
  /\ \A r \in Rows : call[r] \notin {"trying", "sent", "counted"}
  /\ \A c \in Controllers : ctl[c] # "waiting"
  /\ handle' = IF handle = "open" THEN "txDropped" ELSE "dropped"
  /\ UNCHANGED <<callVars, dropped, depth, ctlVars, state, chan, ctrl, staging,
                 taskVars, sinkVars, admitted, discarded>>

-----------------------------------------------------------------------------
(* One pass of seal_and_send over the retry buffer and what is staged.     *)

BeginPassMutant ==             \* what was sealed stays in staging
  /\ pending' = retry \o Chunks(staging, nextId)
  /\ nextId' = nextId + Len(pending') - Len(retry)
  /\ retry' = << >>
  /\ UNCHANGED staging
  /\ outcome' = [ok |-> TRUE, ids |-> {}]
  /\ phase' = "pass"

BeginPass ==
  /\ pending' = retry \o Chunks(staging, nextId)
  /\ nextId' = nextId + Len(pending') - Len(retry)
  /\ retry' = << >>
  /\ staging' = << >>
  /\ outcome' = [ok |-> TRUE, ids |-> {}]
  /\ phase' = "pass"

\* The pass ends with an error; `rest` goes back into the retry buffer.
Fail(rest) ==
  /\ retry' = rest
  /\ pending' = << >>
  /\ outcome' = [outcome EXCEPT !.ok = FALSE]
  /\ phase' = "return"

DropChunk ==
  /\ phase = "pass" /\ pending # << >>
  /\ LET b == Head(pending)
     IN  /\ \/ Unbuildable(b)
            \/ Oversize(b) /\ Len(b.rows) <= 1
         /\ dropped' = dropped + Len(b.rows)
         /\ discarded' = discarded \cup ToSet(b.rows)
         /\ Fail(Tail(pending))
  /\ UNCHANGED <<callVars, depth, ctlVars, state, handle, chan, ctrl, staging,
                 job, held, nextId, sinkVars, admitted>>

SplitChunk ==
  /\ phase = "pass" /\ pending # << >>
  /\ LET b == Head(pending)
     IN  /\ ~Unbuildable(b) /\ Oversize(b) /\ Len(b.rows) > 1
         /\ pending' = Halves(b, nextId) \o Tail(pending)
         /\ nextId' = nextId + 1
  /\ UNCHANGED <<callVars, dropped, depth, ctlVars, state, handle, chan, ctrl,
                 staging, phase, job, held, retry, outcome, sinkVars, admitted,
                 discarded>>

Send ==
  /\ phase = "pass" /\ pending # << >>
  /\ ~Unbuildable(Head(pending)) /\ ~Oversize(Head(pending))
  /\ sent' = sent \cup {Head(pending)}
  /\ phase' = "send"
  /\ UNCHANGED <<callVars, dropped, depth, ctlVars, state, handle, chan, ctrl,
                 staging, job, held, pending, retry, outcome, nextId, stored,
                 admitted, discarded>>

SendOk ==
  /\ phase = "send" /\ Head(pending).id \in StoredIds
  /\ outcome' = [outcome EXCEPT !.ids = @ \cup {Head(pending).id}]
  /\ pending' = Tail(pending)
  /\ phase' = "pass"
  /\ UNCHANGED <<callVars, dropped, depth, ctlVars, state, handle, chan, ctrl,
                 staging, job, held, retry, nextId, sinkVars, admitted,
                 discarded>>

SendFailsMutant ==             \* the chunk in flight is not put back
  /\ phase = "send"
  /\ Faulty \/ Rejected(Head(pending))
  /\ Fail(Tail(pending))
  /\ UNCHANGED <<callVars, dropped, depth, ctlVars, state, handle, chan, ctrl,
                 staging, job, held, nextId, sinkVars, admitted, discarded>>

SendFailsDropMutant ==         \* a failed chunk is counted as dropped at once
  /\ phase = "send"
  /\ Faulty \/ Rejected(Head(pending))
  /\ dropped' = dropped + Len(Head(pending).rows)
  /\ discarded' = discarded \cup ToSet(Head(pending).rows)
  /\ Fail(Tail(pending))
  /\ UNCHANGED <<callVars, depth, ctlVars, state, handle, chan, ctrl, staging,
                 job, held, nextId, sinkVars, admitted>>

\* An error of the sink and an elapsed deadline put back the same chunks,
\* whether or not the server has stored the batch.
SendFails ==
  /\ phase = "send"
  /\ Faulty \/ Rejected(Head(pending))
  /\ Fail(pending)
  /\ UNCHANGED <<callVars, dropped, depth, ctlVars, state, handle, chan, ctrl,
                 staging, job, held, nextId, sinkVars, admitted, discarded>>

PassDone ==
  /\ phase = "pass" /\ pending = << >>
  /\ phase' = "return"
  /\ UNCHANGED <<callVars, dropped, depth, ctlVars, state, handle, chan, ctrl,
                 staging, job, held, pending, retry, outcome, nextId, sinkVars,
                 admitted, discarded>>

-----------------------------------------------------------------------------
(* The task loop.  A polled arm that is not ready only matters if it stays *)
(* so until a later arm is polled: a message sent in between could as well *)
(* have been sent after.                                                   *)

\* recv and try_recv hand the task the oldest row of the channel.
Pop ==
  /\ held' = <<Head(chan)>>
  /\ chan' = Tail(chan)
  /\ phase' = "popped"

UncountRowMutant ==            \* saturating subtraction
  depth' = IF depth = 0 THEN 0 ELSE depth - 1

\* fetch_sub wraps around below zero.
UncountRow == depth' = (depth - 1) % DepthModulus

\* The row in hand is out of the channel and still counted until here.
Uncount ==
  /\ phase = "popped"
  /\ UncountRow
  /\ phase' = "counted"
  /\ UNCHANGED <<callVars, dropped, ctlVars, state, handle, chan, ctrl, staging,
                 job, held, pending, retry, outcome, nextId, sinkVars, admitted,
                 discarded>>

\* ingest returns to the row arm or to drain_channel.
AfterIngest == IF job = "row" THEN "landed" ELSE "pull"

\* Push the row in hand into staging, or seal first to make room for it.
Ingest ==
  /\ phase = "counted"
  /\ \/ /\ Len(staging) < StagingCapacity
        /\ staging' = staging \o held
        /\ held' = << >>
        /\ phase' = AfterIngest
        /\ UNCHANGED <<pending, retry, outcome, nextId>>
     \/ /\ Len(staging) = StagingCapacity
        /\ BeginPass
        /\ UNCHANGED held
  /\ UNCHANGED <<callVars, dropped, depth, ctlVars, state, handle, chan, ctrl,
                 job, sinkVars, admitted, discarded>>

TakeCtrl ==
  /\ phase = "select" /\ ctrl # << >>
  /\ job' = Head(ctrl)
  /\ ctrl' = Tail(ctrl)
  /\ state' = IF job' \in Closers THEN "DRAINING" ELSE state
  /\ phase' = "pull"
  /\ due' = [due EXCEPT ![job'] = Buffered]
  /\ UNCHANGED <<callVars, dropped, depth, ctl, reported, handle, chan, staging,
                 held, pending, retry, outcome, nextId, sinkVars, admitted,
                 discarded>>

\* The control arm finds its channel closed, or else the row arm does.
HandleGone ==
  /\ phase = "select" /\ ctrl = << >>
  /\ \/ handle = "dropped" /\ phase' = "pull"
     \/ handle = "txDropped" /\ chan = << >> /\ phase' = "drain"
  /\ job' = "closed"
  /\ UNCHANGED <<callVars, dropped, depth, ctlVars, state, handle, chan, ctrl,
                 staging, held, pending, retry, outcome, nextId, sinkVars,
                 admitted, discarded>>

TakeRow ==
  /\ phase = "select" /\ ctrl = << >> /\ handle # "dropped" /\ chan # << >>
  /\ job' = "row"
  /\ Pop
  /\ UNCHANGED <<callVars, dropped, depth, ctlVars, state, handle, ctrl, staging,
                 pending, retry, outcome, nextId, sinkVars, admitted, discarded>>

TickMutant ==                  \* the timer only seals full batches
  /\ Timer
  /\ phase = "select" /\ ctrl = << >> /\ chan = << >> /\ handle = "open"
  /\ Len(staging) >= FlushMaxRows
  /\ job' = "tick"
  /\ BeginPass
  /\ UNCHANGED <<callVars, dropped, depth, ctlVars, state, handle, chan, ctrl,
                 held, sinkVars, admitted, discarded>>

Tick ==
  /\ Timer
  /\ phase = "select" /\ ctrl = << >> /\ chan = << >> /\ handle = "open"
  /\ staging # << >>
  /\ job' = "tick"
  /\ BeginPass
  /\ UNCHANGED <<callVars, dropped, depth, ctlVars, state, handle, chan, ctrl,
                 held, sinkVars, admitted, discarded>>

SizeTrigger ==
  /\ phase = "landed"
  /\ \/ /\ Len(staging) >= FlushMaxRows
        /\ BeginPass
        /\ UNCHANGED job
     \/ /\ Len(staging) < FlushMaxRows
        /\ phase' = "select" /\ job' = "idle"
        /\ UNCHANGED <<staging, pending, retry, outcome, nextId>>
  /\ UNCHANGED <<callVars, dropped, depth, ctlVars, state, handle, chan, ctrl,
                 held, sinkVars, admitted, discarded>>

\* drain_channel, then one pass for a flush or the terminal drain.
PullRow ==
  /\ phase = "pull" /\ chan # << >>
  /\ Pop
  /\ UNCHANGED <<callVars, dropped, depth, ctlVars, state, handle, ctrl, staging,
                 job, pending, retry, outcome, nextId, sinkVars, admitted,
                 discarded>>

DrainedMutant == TRUE          \* the drain may stop with rows queued

\* try_recv reports an empty channel.
Drained == chan = << >>

PullDone ==
  /\ phase = "pull" /\ Drained
  /\ \/ /\ job \in Flushers
        /\ BeginPass
     \/ /\ job \notin Flushers
        /\ phase' = "drain"
        /\ UNCHANGED <<staging, pending, retry, outcome, nextId>>
  /\ UNCHANGED <<callVars, dropped, depth, ctlVars, state, handle, chan, ctrl,
                 job, held, sinkVars, admitted, discarded>>

\* The terminal drain is over: answer the caller and leave the loop.
Finish(answer) ==
  /\ phase' = "break"
  /\ IF job \in Closers
     THEN state' = "DRAINED" /\ ctl' = [ctl EXCEPT ![job] = answer]
     ELSE UNCHANGED <<state, ctl>>

DrainToCompletion ==
  /\ phase = "drain"
  /\ \/ /\ staging # << >> \/ retry # << >>
        /\ BeginPass
        /\ UNCHANGED <<state, ctl>>
     \/ /\ staging = << >> /\ retry = << >>
        /\ Finish("ok")
        /\ UNCHANGED <<staging, pending, retry, outcome, nextId>>
  /\ UNCHANGED <<callVars, dropped, depth, due, reported, handle, chan, ctrl,
                 job, held, sinkVars, admitted, discarded>>

\* The rest of ingest: the pass it ran has its result ignored.
ReturnToIngest ==
  /\ phase = "return" /\ held # << >>
  /\ held' = << >>
  /\ phase' = AfterIngest
  /\ \/ /\ Len(staging) < StagingCapacity
        /\ staging' = staging \o held
        /\ UNCHANGED <<dropped, discarded>>
     \/ /\ Len(staging) = StagingCapacity
        /\ dropped' = dropped + 1
        /\ discarded' = discarded \cup ToSet(held)
        /\ UNCHANGED staging
  /\ UNCHANGED <<callVars, depth, ctlVars, state, handle, chan, ctrl, job,
                 pending, retry, outcome, nextId, sinkVars, admitted>>

AnswerMutant ==                \* a failed pass leaves its caller waiting
  IF outcome.ok
  THEN /\ ctl' = [ctl EXCEPT ![job] = "ok"]
       /\ reported' = [reported EXCEPT ![job] = outcome.ids]
  ELSE UNCHANGED <<ctl, reported>>

\* The reply to a flush: the ids of the pass, or its error.
Answer ==
  /\ ctl' = [ctl EXCEPT ![job] = IF outcome.ok THEN "ok" ELSE "err"]
  /\ reported' = [reported EXCEPT ![job] = IF outcome.ok THEN outcome.ids ELSE {}]

ReturnToLoop ==
  /\ phase = "return" /\ held = << >>
  /\ job \in Flushers \cup {"row", "tick"}
  /\ IF job \in Flushers THEN Answer ELSE UNCHANGED <<ctl, reported>>
  /\ phase' = "select" /\ job' = "idle"
  /\ UNCHANGED <<callVars, dropped, depth, due, state, handle, chan, ctrl,
                 staging, held, pending, retry, outcome, nextId, sinkVars,
                 admitted, discarded>>

ReturnToDrain ==
  /\ phase = "return" /\ held = << >>
  /\ job \in Closers \cup {"closed"}
  /\ IF outcome.ok THEN phase' = "drain" /\ UNCHANGED <<state, ctl>>
                   ELSE Finish("err")
  /\ UNCHANGED <<callVars, dropped, depth, due, reported, handle, chan, ctrl,
                 staging, job, held, pending, retry, outcome, nextId, sinkVars,
                 admitted, discarded>>

\* The task's future ends: the receivers go, and with them whatever is
\* still queued.  A caller whose message was never read gets no reply.
Exit ==
  /\ phase = "break"
  /\ phase' = "exit"
  /\ ctl' = [c \in Controllers |-> IF c \in ToSet(ctrl) THEN "gone" ELSE ctl[c]]
  /\ ctrl' = << >>
  /\ UNCHANGED <<callVars, dropped, depth, due, reported, state, handle, chan,
                 staging, job, held, pending, retry, outcome, nextId, sinkVars,
                 admitted, discarded>>

-----------------------------------------------------------------------------
\* The server stores a request it has seen, at any later time and once per id.
ServerStores(b) ==
  /\ b \in sent
  /\ b.id \notin StoredIds
  /\ ~Rejected(b)
  /\ stored' = Append(stored, b)
  /\ UNCHANGED <<callVars, dropped, depth, ctlVars, state, handle, chan, ctrl,
                 staging, taskVars, sent, admitted, discarded>>

-----------------------------------------------------------------------------
Caller(r)     == Enqueue(r) \/ TrySend(r) \/ CountAccepted(r) \/ CountDepth(r)
SealAndSend   == DropChunk \/ SplitChunk \/ Send \/ SendOk \/ SendFails \/ PassDone
Return        == ReturnToIngest \/ ReturnToLoop \/ ReturnToDrain
SelectLoop    == TakeCtrl \/ HandleGone \/ TakeRow \/ Tick \/ SizeTrigger
Drain         == PullRow \/ PullDone \/ DrainToCompletion
TakeIn        == Uncount \/ Ingest
Task          == SelectLoop \/ TakeIn \/ Drain \/ SealAndSend \/ Return \/ Exit

Next == \/ \E r \in Rows : Caller(r)
        \/ \E c \in Controllers : Request(c)
        \/ DropHandle
        \/ Task
        \/ \E b \in sent : ServerStores(b)

Spec == Init /\ [][Next]_vars

(***************************************************************************)
(* Fairness.  A thread inside enqueue runs on; the runtime keeps polling   *)
(* the task, whose every await has a deadline or a waker; a sink that is   *)
(* asked again and again eventually gets a request stored and answers it.  *)
(* A caller may never call, and the handle may never be dropped.           *)
(***************************************************************************)
Answered == phase = "send" /\ \E b \in {Head(pending)} : ServerStores(b)

Fairness == /\ \A r \in Rows : WF_vars(TrySend(r) \/ CountAccepted(r) \/ CountDepth(r))
            /\ WF_vars(Task)
            /\ SF_vars(Answered)
            /\ SF_vars(SendOk)

LiveSpec == Spec /\ Fairness
=============================================================================
