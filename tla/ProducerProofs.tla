--------------------------- MODULE ProducerProofs ---------------------------
(***************************************************************************)
(* Proofs about the write buffer for every number of calls, every capacity *)
(* and every behaviour of the sink.                                        *)
(***************************************************************************)
EXTENDS ProducerProperties, SequenceTheorems, TLAPS

USE ConfigAssumption DEF ConfigAssumption

-----------------------------------------------------------------------------
(* Chunks and halves                                                       *)

\* The number of chunks sealed from n rows.
ChunkCount(n) == (n + FlushMaxRows - 1) \div FlushMaxRows

\* A count of chunks is a natural number.
LEMMA ChunkCountNat == ASSUME NEW n \in Nat PROVE ChunkCount(n) \in Nat
  BY SMT DEF ChunkCount

Upto(i, n) == IF i * FlushMaxRows < n THEN i * FlushMaxRows ELSE n
From(i)    == i * FlushMaxRows - FlushMaxRows + 1

\* The bounds of a chunk lie within the staged rows and leave one row at least.
LEMMA ChunkBounds ==
  ASSUME NEW n \in Nat, NEW i \in 1 .. ChunkCount(n)
  PROVE  From(i) \in 1 .. n /\ Upto(i, n) \in From(i) .. n
  <1>1. i * FlushMaxRows \in Int /\ i * FlushMaxRows >= FlushMaxRows
    BY ChunkCountNat, SMT
  <1>2. ChunkCount(n) * FlushMaxRows <= n + FlushMaxRows - 1
    BY SMT DEF ChunkCount
  <1>3. i * FlushMaxRows <= ChunkCount(n) * FlushMaxRows
    BY ChunkCountNat, SMT
  <1>4. i * FlushMaxRows - FlushMaxRows + 1 <= n
    BY <1>1, <1>2, <1>3, ChunkCountNat, SMT
  <1> QED BY <1>1, <1>4, SMT DEF From, Upto

\* Chunks mints consecutive ids from base on, for non-empty runs of the rows.
LEMMA ChunksType ==
  ASSUME NEW s \in Seq(Rows), NEW base \in Nat
  PROVE  /\ Chunks(s, base) \in Seq(Batch)
         /\ Len(Chunks(s, base)) = ChunkCount(Len(s))
         /\ \A i \in 1 .. ChunkCount(Len(s)) :
               Chunks(s, base)[i] =
                 [id |-> base + i - 1, rows |-> SubSeq(s, From(i), Upto(i, Len(s)))]
  <1> DEFINE n == ChunkCount(Len(s))
             chunk(i) == [id   |-> base + i - 1,
                          rows |-> SubSeq(s, From(i), Upto(i, Len(s)))]
  <1>1. n \in Nat
    BY ChunkCountNat, LenProperties
  <1>2. Chunks(s, base) = [i \in 1 .. n |-> chunk(i)]
    BY DEF Chunks, ChunkCount, From, Upto
  <1>3. ASSUME NEW i \in 1 .. n PROVE chunk(i) \in Batch
    <2>1. From(i) \in 1 .. Len(s) /\ Upto(i, Len(s)) \in From(i) .. Len(s)
      BY ChunkBounds, LenProperties
    <2>2. SubSeq(s, From(i), Upto(i, Len(s))) \in Seq(Rows)
      BY <2>1, SubSeqProperties, ElementOfSeq, LenProperties, SMT
    <2> QED BY <1>1, <2>2, SMT DEF Batch
  <1> HIDE DEF n, chunk
  <1>4. [i \in 1 .. n |-> chunk(i)] \in [1 .. n -> Batch]
    BY <1>3
  <1>5. Chunks(s, base) \in Seq(Batch)
    BY <1>1, <1>2, <1>4, SeqDef
  <1>6. Len(Chunks(s, base)) = n
    BY <1>1, <1>2, <1>5, LenProperties, SMT
  <1> QED BY <1>2, <1>5, <1>6 DEF n, chunk

\* Both halves of a sequence are sequences over the same set.
LEMMA HalfSeqs ==
  ASSUME NEW S, NEW s \in Seq(S)
  PROVE  /\ Len(s) \div 2 \in 0 .. Len(s)
         /\ SubSeq(s, 1, Len(s) \div 2) \in Seq(S)
         /\ SubSeq(s, Len(s) \div 2 + 1, Len(s)) \in Seq(S)
  <1>1. Len(s) \in Nat
    BY LenProperties
  <1>2. Len(s) \div 2 \in 0 .. Len(s)
    BY <1>1, SMT
  <1>3. \A i \in 1 .. Len(s) : s[i] \in S
    BY ElementOfSeq
  <1>4. PICK mid \in 0 .. Len(s) : mid = Len(s) \div 2
    BY <1>2
  <1>5. /\ \A i \in 1 .. mid : s[i] \in S
        /\ \A i \in mid + 1 .. Len(s) : s[i] \in S
    BY <1>1, <1>3, SMT
  <1>6. SubSeq(s, 1, mid) \in Seq(S) /\ SubSeq(s, mid + 1, Len(s)) \in Seq(S)
    BY <1>1, <1>5, SubSeqProperties, SMT
  <1> QED BY <1>2, <1>4, <1>6

\* Splitting a chunk yields two batches, the first under the id of the whole.
LEMMA HalvesType ==
  ASSUME NEW b \in Batch, NEW fresh \in Nat
  PROVE  /\ Halves(b, fresh) \in Seq(Batch)
         /\ Len(Halves(b, fresh)) = 2
         /\ Halves(b, fresh)[1] = [id |-> b.id, rows |-> SubSeq(b.rows, 1, Len(b.rows) \div 2)]
         /\ Halves(b, fresh)[2] = [id |-> fresh, rows |-> SubSeq(b.rows, Len(b.rows) \div 2 + 1, Len(b.rows))]
  <1> DEFINE mid == Len(b.rows) \div 2
             left  == [id |-> b.id, rows |-> SubSeq(b.rows, 1, mid)]
             right == [id |-> fresh, rows |-> SubSeq(b.rows, mid + 1, Len(b.rows))]
  <1>1. b.id \in Nat /\ b.rows \in Seq(Rows)
    BY DEF Batch
  <1>2. left \in Batch /\ right \in Batch
    BY <1>1, HalfSeqs DEF Batch
  <1>3. Halves(b, fresh) = <<left, right>>
    BY DEF Halves
  <1> HIDE DEF left, right
  <1>4. /\ Halves(b, fresh) \in Seq(Batch)
        /\ Len(Halves(b, fresh)) = 2
        /\ Halves(b, fresh)[1] = left
        /\ Halves(b, fresh)[2] = right
    BY <1>2, <1>3, SMT
  <1> QED BY <1>4 DEF left, right

-----------------------------------------------------------------------------
(* Types                                                                   *)

\* Folding two halves back: a sequence followed by a tail stays typed.
LEMMA SeqOps ==
  ASSUME NEW S, NEW s \in Seq(S), NEW t \in Seq(S)
  PROVE  /\ s \o t \in Seq(S)
         /\ s # << >> => Head(s) \in S /\ Tail(s) \in Seq(S)
         /\ \A e \in S : Append(s, e) \in Seq(S)
         /\ ToSet(s) \subseteq S
  <1>1. s \o t \in Seq(S)
    BY ConcatProperties
  <1>2. s # << >> => Head(s) \in S /\ Tail(s) \in Seq(S)
    BY HeadTailProperties
  <1>3. \A e \in S : Append(s, e) \in Seq(S)
    BY AppendProperties
  <1>4. ToSet(s) \subseteq S
    BY ElementOfSeq, LenProperties DEF ToSet
  <1> QED BY <1>1, <1>2, <1>3, <1>4

\* A pass starts from well-typed batches.
LEMMA BeginPassType ==
  ASSUME TypeOK, BeginPass
  PROVE  /\ pending' \in Seq(Batch) /\ retry' \in Seq(Batch)
         /\ nextId' \in Nat /\ staging' \in Seq(Rows)
         /\ outcome' \in Outcome /\ phase' = "pass"
  <1>1. retry \in Seq(Batch) /\ staging \in Seq(Rows) /\ nextId \in Nat
    BY DEF TypeOK
  <1> DEFINE fresh == Chunks(staging, nextId)
  <1>2. fresh \in Seq(Batch) /\ Len(fresh) \in Nat
    BY <1>1, ChunksType, LenProperties
  <1>3. /\ pending' = retry \o fresh
        /\ nextId' = nextId + Len(pending') - Len(retry)
        /\ retry' = << >> /\ staging' = << >> /\ phase' = "pass"
        /\ outcome' = [ok |-> TRUE, ids |-> {}]
    BY DEF BeginPass
  <1> HIDE DEF fresh
  <1>4. pending' \in Seq(Batch) /\ Len(pending') = Len(retry) + Len(fresh)
    BY <1>1, <1>2, <1>3, ConcatProperties
  <1>5. nextId' = nextId + Len(fresh)
    BY <1>1, <1>2, <1>3, <1>4, LenProperties, SMT
  <1>6. outcome' \in Outcome
    BY <1>3 DEF Outcome
  <1>7. retry' \in Seq(Batch) /\ staging' \in Seq(Rows)
    BY <1>3, EmptySeq
  <1> QED BY <1>1, <1>2, <1>3, <1>4, <1>5, <1>6, <1>7, SMT
\* The fail path of a pass keeps its chunks typed.
LEMMA FailType ==
  ASSUME TypeOK, NEW rest \in Seq(Batch), Fail(rest)
  PROVE  /\ pending' \in Seq(Batch) /\ retry' \in Seq(Batch)
         /\ outcome' \in Outcome /\ phase' = "return"
  BY EmptySeq DEF TypeOK, Fail, Outcome

\* TypeOK is not inductive by itself: an attempt is counted only by a call
\* that has one left, and an answer is only awaited for a chunk at hand.
TypeInv ==
  /\ TypeOK
  /\ \A r \in Rows : call[r] \in {"idle", "trying"} => tries[r] < Attempts
  /\ phase = "send" => pending # << >>

\* Initially, the counters are zero and every buffer is empty.
LEMMA InitType == Init => TypeInv
  BY EmptySeq, SMT DEF Init, TypeInv, TypeOK, Outcome, Controllers

\* Word-size arithmetic stays within the word.
LEMMA DepthRange ==
  ASSUME NEW d \in 0 .. DepthModulus - 1
  PROVE  /\ (d + 1) % DepthModulus \in 0 .. DepthModulus - 1
         /\ (d - 1) % DepthModulus \in 0 .. DepthModulus - 1
  BY SMT

\* A step of a caller of enqueue keeps the types.
LEMMA CallerType == ASSUME TypeInv, NEW r \in Rows, Caller(r) PROVE TypeOK'
  <1> USE DEF TypeInv
  <1>1. CASE Enqueue(r)
    <2>1. call' \in [Rows -> {"idle", "trying", "sent", "counted", "ok", "refused"}]
      BY <1>1 DEF TypeOK, Enqueue, Refuse
    <2>2. dropped' \in Nat
      BY <1>1 DEF TypeOK, Enqueue, Refuse
    <2> QED BY <1>1, <2>1, <2>2 DEF TypeOK, Enqueue, callVars, ctlVars, taskVars, sinkVars
  <1>2. CASE TrySend(r)
    <2>1. call' \in [Rows -> {"idle", "trying", "sent", "counted", "ok", "refused"}]
      BY <1>2 DEF TypeOK, TrySend, Saturated, Refuse
    <2>2. tries' \in [Rows -> 0 .. Attempts]
      <3>1. tries \in [Rows -> 0 .. Attempts] /\ tries[r] + 1 \in 0 .. Attempts
        BY <1>2, SMTT(30) DEF TypeOK, TrySend
      <3>2. tries' = tries \/ tries' = [tries EXCEPT ![r] = tries[r] + 1]
        BY <1>2 DEF TrySend, Saturated
      <3> QED BY <3>1, <3>2
    <2>3. dropped' \in Nat
      BY <1>2 DEF TypeOK, TrySend, Saturated, Refuse
    <2>4. Append(chan, r) \in Seq(Rows) /\ Append(admitted, r) \in Seq(Rows)
      BY AppendProperties DEF TypeOK
    <2>5. chan' \in Seq(Rows) /\ admitted' \in Seq(Rows)
      BY <1>2, <2>4 DEF TypeOK, TrySend
    <2> QED BY <1>2, <2>1, <2>2, <2>3, <2>5 DEF TypeOK, TrySend, callVars, ctlVars, taskVars, sinkVars
  <1>3. CASE CountAccepted(r)
    <2>1. call' \in [Rows -> {"idle", "trying", "sent", "counted", "ok", "refused"}]
      BY <1>3 DEF TypeOK, CountAccepted
    <2>2. accepted' \in Nat
      BY <1>3 DEF TypeOK, CountAccepted
    <2> QED BY <1>3, <2>1, <2>2 DEF TypeOK, CountAccepted, callVars, ctlVars, taskVars, sinkVars
  <1>4. CASE CountDepth(r)
    <2>1. call' \in [Rows -> {"idle", "trying", "sent", "counted", "ok", "refused"}]
      BY <1>4 DEF TypeOK, CountDepth
    <2>2. depth' \in 0 .. DepthModulus - 1
      BY <1>4, DepthRange DEF TypeOK, CountDepth
    <2> QED BY <1>4, <2>1, <2>2 DEF TypeOK, CountDepth, callVars, ctlVars, taskVars, sinkVars
  <1> QED BY <1>1, <1>2, <1>3, <1>4 DEF Caller

\* A call of flush or shutdown, and the end of the handle, keep the types.
LEMMA HandleType ==
  ASSUME TypeOK, DropHandle \/ (\E c \in Controllers : Request(c)) PROVE TypeOK'
  <1>1. CASE DropHandle
    <2>1. handle' \in {"open", "txDropped", "dropped"}
      BY <1>1 DEF TypeOK, DropHandle
    <2> QED BY <1>1, <2>1 DEF TypeOK, DropHandle, callVars, ctlVars, taskVars, sinkVars
  <1>2. ASSUME NEW c \in Controllers, Request(c) PROVE TypeOK'
    <2>1. ctl' \in [Controllers -> {"idle", "waiting", "ok", "err", "gone"}]
      <3>1. ctl \in [Controllers -> {"idle", "waiting", "ok", "err", "gone"}]
        BY DEF TypeOK
      <3>2. PICK v \in {"waiting", "gone"} : ctl' = [ctl EXCEPT ![c] = v]
        BY <1>2 DEF Request
      <3> QED BY <3>1, <3>2
    <2>2. ctrl' \in Seq(Controllers)
      <3>1. Append(ctrl, c) \in Seq(Controllers)
        BY AppendProperties DEF TypeOK
      <3> QED BY <1>2, <3>1 DEF TypeOK, Request
    <2> QED BY <1>2, <2>1, <2>2 DEF TypeOK, Request, callVars, taskVars, sinkVars
  <1> QED BY <1>1, <1>2

\* A step of seal_and_send keeps the types.
LEMMA SealType == ASSUME TypeInv, SealAndSend PROVE TypeOK'
  <1> USE DEF TypeInv
  <1>0. pending # << >> => /\ Head(pending) \in Batch /\ Tail(pending) \in Seq(Batch)
                           /\ Head(pending).id \in Nat /\ Head(pending).rows \in Seq(Rows)
                           /\ Len(Head(pending).rows) \in Nat
                           /\ ToSet(Head(pending).rows) \subseteq Rows
    <2>1. pending # << >> => Head(pending) \in Batch /\ Tail(pending) \in Seq(Batch)
      BY SeqOps DEF TypeOK
    <2>2. \A b \in Batch : /\ b.id \in Nat /\ b.rows \in Seq(Rows)
                           /\ Len(b.rows) \in Nat /\ ToSet(b.rows) \subseteq Rows
      BY SeqOps, LenProperties DEF Batch
    <2> QED BY <2>1, <2>2
  <1>1. CASE DropChunk
    <2>1. dropped' \in Nat /\ discarded' \subseteq Rows
      BY <1>1, <1>0 DEF TypeOK, DropChunk
    <2>2. pending' \in Seq(Batch) /\ retry' \in Seq(Batch) /\ outcome' \in Outcome /\ phase' = "return"
      BY <1>1, <1>0, FailType DEF TypeOK, DropChunk
    <2> QED BY <1>1, <2>1, <2>2 DEF TypeOK, DropChunk, callVars, ctlVars, taskVars, sinkVars
  <1>2. CASE SplitChunk
    <2>1. Halves(Head(pending), nextId) \in Seq(Batch)
      BY <1>2, <1>0, HalvesType DEF TypeOK, SplitChunk
    <2>2. pending' \in Seq(Batch) /\ nextId' \in Nat
      BY <1>2, <1>0, <2>1, SeqOps DEF TypeOK, SplitChunk
    <2> QED BY <1>2, <2>1, <2>2 DEF TypeOK, SplitChunk, callVars, ctlVars, taskVars, sinkVars
  <1>3. CASE Send
    <2>1. sent' \subseteq Batch
      BY <1>3, <1>0 DEF TypeOK, Send
    <2> QED BY <1>3, <2>1 DEF TypeOK, Send, callVars, ctlVars, taskVars, sinkVars
  <1>4. CASE SendOk
    <2>1. pending' \in Seq(Batch)
      BY <1>4, <1>0 DEF TypeInv, SendOk
    <2>2. outcome' \in Outcome
      <3>1. pending # << >> /\ outcome \in Outcome
        BY <1>4 DEF TypeOK, SendOk
      <3> QED BY <1>4, <1>0, <3>1 DEF SendOk, Outcome
    <2> QED BY <1>4, <2>1, <2>2 DEF TypeOK, SendOk, callVars, ctlVars, taskVars, sinkVars
  <1>5. CASE SendFails
    <2>1. pending' \in Seq(Batch) /\ retry' \in Seq(Batch) /\ outcome' \in Outcome /\ phase' = "return"
      BY <1>5, FailType DEF TypeOK, SendFails
    <2> QED BY <1>5, <2>1 DEF TypeOK, SendFails, callVars, ctlVars, taskVars, sinkVars
  <1>6. CASE PassDone
    <2> QED BY <1>6 DEF TypeOK, PassDone, callVars, ctlVars, taskVars, sinkVars
  <1> QED BY <1>1, <1>2, <1>3, <1>4, <1>5, <1>6 DEF SealAndSend

\* Taking a row off the channel keeps the types.
LEMMA PopType ==
  ASSUME TypeOK, chan # << >>, Pop
  PROVE  chan' \in Seq(Rows) /\ held' \in Seq(Rows) /\ phase' = "popped"
  <1>1. Head(chan) \in Rows /\ Tail(chan) \in Seq(Rows)
    BY HeadTailProperties DEF TypeOK
  <1>2. <<Head(chan)>> \in Seq(Rows)
    BY <1>1, SMT
  <1> QED BY <1>1, <1>2 DEF Pop

\* Uncounting the row in hand and staging it keep the types.
LEMMA TakeInType == ASSUME TypeOK, TakeIn PROVE TypeOK'
  <1>1. CASE Uncount
    <2>1. depth' \in 0 .. DepthModulus - 1 /\ phase' = "counted"
      BY <1>1, DepthRange DEF TypeOK, Uncount, UncountRow
    <2> QED BY <1>1, <2>1 DEF TypeOK, Uncount, callVars, ctlVars, taskVars, sinkVars
  <1>2. CASE Ingest
    <2>1. staging \o held \in Seq(Rows) /\ << >> \in Seq(Rows)
      BY SeqOps, EmptySeq DEF TypeOK
    <2>2. /\ staging' \in Seq(Rows) /\ held' \in Seq(Rows)
          /\ pending' \in Seq(Batch) /\ retry' \in Seq(Batch) /\ nextId' \in Nat
          /\ outcome' \in Outcome
          /\ phase' \in {"landed", "pull", "pass"}
      <3>1. CASE BeginPass /\ UNCHANGED held
        BY <3>1, BeginPassType DEF TypeOK
      <3>2. CASE /\ staging' = staging \o held /\ held' = << >> /\ phase' = AfterIngest
                 /\ UNCHANGED <<pending, retry, outcome, nextId>>
        BY <2>1, <3>2 DEF TypeOK, AfterIngest
      <3> QED BY <1>2, <3>1, <3>2 DEF Ingest
    <2> QED BY <1>2, <2>2 DEF TypeOK, Ingest, callVars, ctlVars, taskVars, sinkVars
  <1> QED BY <1>1, <1>2 DEF TakeIn

\* A step of the select loop keeps the types.
LEMMA SelectType == ASSUME TypeOK, SelectLoop PROVE TypeOK'
  <1>1. CASE TakeCtrl
    <2>1. Head(ctrl) \in Controllers /\ Tail(ctrl) \in Seq(Controllers)
      BY <1>1, HeadTailProperties DEF TypeOK, TakeCtrl
    <2>2. Buffered \subseteq Rows
      BY SeqOps DEF TypeOK, Buffered
    <2>3. due' \in [Controllers -> SUBSET Rows]
      BY <1>1, <2>1, <2>2 DEF TypeOK, TakeCtrl
    <2>4. state' \in {"RUNNING", "DRAINING", "DRAINED"}
      BY <1>1 DEF TypeOK, TakeCtrl
    <2> QED BY <1>1, <2>1, <2>2, <2>3, <2>4 DEF TypeOK, TakeCtrl, callVars, ctlVars, taskVars, sinkVars
  <1>2. CASE HandleGone
    <2> QED BY <1>2 DEF TypeOK, HandleGone, callVars, ctlVars, taskVars, sinkVars
  <1>3. CASE TakeRow
    <2>1. chan' \in Seq(Rows) /\ held' \in Seq(Rows) /\ phase' = "popped"
      BY <1>3, PopType DEF TakeRow
    <2> QED BY <1>3, <2>1 DEF TypeOK, TakeRow, callVars, ctlVars, taskVars, sinkVars
  <1>4. CASE Tick
    <2>1. /\ pending' \in Seq(Batch) /\ retry' \in Seq(Batch) /\ nextId' \in Nat
          /\ staging' \in Seq(Rows) /\ outcome' \in Outcome /\ phase' = "pass"
      BY <1>4, BeginPassType DEF TypeOK, Tick
    <2> QED BY <1>4, <2>1 DEF TypeOK, Tick, callVars, ctlVars, taskVars, sinkVars
  <1>5. CASE SizeTrigger
    <2>1. /\ pending' \in Seq(Batch) /\ retry' \in Seq(Batch) /\ nextId' \in Nat
          /\ staging' \in Seq(Rows) /\ outcome' \in Outcome
      BY <1>5, BeginPassType DEF TypeOK, SizeTrigger
    <2>2. phase' \in {"pass", "select"} /\ job' \in {job, "idle"}
      BY <1>5, BeginPassType DEF TypeOK, SizeTrigger
    <2> QED BY <1>5, <2>1, <2>2 DEF TypeOK, SizeTrigger, callVars, ctlVars, taskVars, sinkVars
  <1> QED BY <1>1, <1>2, <1>3, <1>4, <1>5 DEF SelectLoop

\* A step of drain_channel or drain_to_completion keeps the types.
LEMMA DrainType == ASSUME TypeOK, Drain PROVE TypeOK'
  <1>1. CASE PullRow
    <2>1. chan' \in Seq(Rows) /\ held' \in Seq(Rows) /\ phase' = "popped"
      BY <1>1, PopType DEF PullRow
    <2> QED BY <1>1, <2>1 DEF TypeOK, PullRow, callVars, ctlVars, taskVars, sinkVars
  <1>2. CASE PullDone
    <2>1. /\ pending' \in Seq(Batch) /\ retry' \in Seq(Batch) /\ nextId' \in Nat
          /\ staging' \in Seq(Rows) /\ outcome' \in Outcome
      BY <1>2, BeginPassType DEF TypeOK, PullDone
    <2>2. phase' \in {"pass", "drain"}
      BY <1>2, BeginPassType DEF TypeOK, PullDone
    <2> QED BY <1>2, <2>1, <2>2 DEF TypeOK, PullDone, callVars, ctlVars, taskVars, sinkVars
  <1>3. CASE DrainToCompletion
    <2>1. /\ pending' \in Seq(Batch) /\ retry' \in Seq(Batch) /\ nextId' \in Nat
          /\ staging' \in Seq(Rows) /\ outcome' \in Outcome
      BY <1>3, BeginPassType DEF TypeOK, DrainToCompletion
    <2>2. phase' \in {"pass", "break"}
      BY <1>3, BeginPassType DEF DrainToCompletion, Finish
    <2>3. ctl' \in [Controllers -> {"idle", "waiting", "ok", "err", "gone"}]
      BY <1>3 DEF TypeOK, DrainToCompletion, Finish
    <2>4. state' \in {"RUNNING", "DRAINING", "DRAINED"}
      BY <1>3 DEF TypeOK, DrainToCompletion, Finish
    <2> QED BY <1>3, <2>1, <2>2, <2>3, <2>4 DEF TypeOK, DrainToCompletion, callVars, ctlVars, taskVars, sinkVars
  <1> QED BY <1>1, <1>2, <1>3 DEF Drain

\* What follows a pass, and the end of the task, keep the types.
LEMMA ReturnType == ASSUME TypeOK, Return \/ Exit PROVE TypeOK'
  <1>1. CASE ReturnToIngest
    <2>1. staging \o held \in Seq(Rows) /\ << >> \in Seq(Rows) /\ ToSet(held) \subseteq Rows
      BY SeqOps, EmptySeq DEF TypeOK
    <2>2. staging' \in Seq(Rows) /\ held' \in Seq(Rows)
      BY <1>1, <2>1 DEF TypeOK, ReturnToIngest
    <2>3. dropped' \in Nat /\ discarded' \subseteq Rows
      <3>1. dropped \in Nat /\ discarded \subseteq Rows
        BY DEF TypeOK
      <3>2. \/ UNCHANGED <<dropped, discarded>>
            \/ dropped' = dropped + 1 /\ discarded' = discarded \cup ToSet(held)
        BY <1>1 DEF ReturnToIngest
      <3> QED BY <2>1, <3>1, <3>2
    <2>4. phase' \in {"landed", "pull"}
      BY <1>1 DEF TypeOK, ReturnToIngest, AfterIngest
    <2> QED BY <1>1, <2>1, <2>2, <2>3, <2>4 DEF TypeOK, ReturnToIngest, callVars, ctlVars, taskVars, sinkVars
  <1>2. CASE ReturnToLoop
    <2>1. ctl' \in [Controllers -> {"idle", "waiting", "ok", "err", "gone"}]
      BY <1>2 DEF TypeOK, ReturnToLoop, Answer
    <2>2. reported' \in [Controllers -> SUBSET Nat]
      BY <1>2 DEF TypeOK, ReturnToLoop, Answer, Outcome
    <2> QED BY <1>2, <2>1, <2>2 DEF TypeOK, ReturnToLoop, callVars, ctlVars, taskVars, sinkVars
  <1>3. CASE ReturnToDrain
    <2>1. ctl' \in [Controllers -> {"idle", "waiting", "ok", "err", "gone"}]
      BY <1>3 DEF TypeOK, ReturnToDrain, Finish
    <2>2. state' \in {"RUNNING", "DRAINING", "DRAINED"}
      BY <1>3 DEF TypeOK, ReturnToDrain, Finish
    <2>3. phase' \in {"drain", "break"}
      BY <1>3 DEF ReturnToDrain, Finish
    <2> QED BY <1>3, <2>1, <2>2, <2>3 DEF TypeOK, ReturnToDrain, callVars, ctlVars, taskVars, sinkVars
  <1>4. CASE Exit
    <2>1. ctl' \in [Controllers -> {"idle", "waiting", "ok", "err", "gone"}]
      BY <1>4 DEF TypeOK, Exit
    <2>2. ctrl' \in Seq(Controllers)
      BY <1>4, EmptySeq DEF TypeOK, Exit
    <2> QED BY <1>4, <2>1, <2>2 DEF TypeOK, Exit, callVars, ctlVars, taskVars, sinkVars
  <1> QED BY <1>1, <1>2, <1>3, <1>4 DEF Return

\* A store at the server keeps the types.
LEMMA ServerType == ASSUME TypeOK, NEW b \in sent, ServerStores(b) PROVE TypeOK'
  <1>1. Append(stored, b) \in Seq(Batch)
    BY AppendProperties DEF TypeOK
  <1> QED BY <1>1 DEF TypeOK, ServerStores, callVars, ctlVars, taskVars, sinkVars
\* The invariant holds initially and every step preserves it.
LEMMA TypeInvStep == TypeInv /\ [Next]_vars => TypeInv'
  <1> SUFFICES ASSUME TypeInv, [Next]_vars PROVE TypeInv'
    OBVIOUS
  <1>1. TypeOK'
    <2>1. CASE UNCHANGED vars
      BY <2>1 DEF TypeInv, TypeOK, vars
    <2>2. CASE Next
      BY <2>2, CallerType, HandleType, SealType, SelectType, TakeInType, DrainType,
         ReturnType, ServerType DEF Next, Task, TypeInv
    <2> QED BY <2>1, <2>2
  <1>2. ASSUME NEW r \in Rows, call'[r] \in {"idle", "trying"}
        PROVE  tries'[r] < Attempts
    <2> USE DEF TypeInv, TypeOK
    <2>1. CASE UNCHANGED <<call, tries>>
      BY <1>2, <2>1
    <2>2. ASSUME NEW q \in Rows, Caller(q) PROVE tries'[r] < Attempts
      <3>1. CASE Enqueue(q)
        BY <1>2, <3>1 DEF Enqueue, Refuse
      <3>2. CASE TrySend(q)
        BY <1>2, <3>2 DEF TrySend, Saturated, Refuse
      <3>3. CASE CountAccepted(q)
        BY <1>2, <3>3 DEF CountAccepted
      <3>4. CASE CountDepth(q)
        BY <1>2, <3>4 DEF CountDepth
      <3> QED BY <2>2, <3>1, <3>2, <3>3, <3>4 DEF Caller
    <2>3. CASE ~ \E q \in Rows : Caller(q)
      <3>1. UNCHANGED <<call, tries>>
        BY <2>3 DEF Next, vars, Request, DropHandle, Task, SelectLoop, TakeIn,
           Drain, SealAndSend, Return, TakeCtrl, HandleGone, TakeRow, Tick,
           SizeTrigger, Uncount, Ingest, PullRow, PullDone, DrainToCompletion, DropChunk, SplitChunk, Send,
           SendOk, SendFails, PassDone, ReturnToIngest, ReturnToLoop,
           ReturnToDrain, Exit, ServerStores, callVars
      <3> QED BY <2>1, <3>1
    <2> QED BY <2>2, <2>3
  <1>3. phase' = "send" => pending' # << >>
    <2> SUFFICES ASSUME phase' = "send" PROVE pending' # << >>
      OBVIOUS
    <2> USE DEF TypeInv
    <2>1. CASE UNCHANGED <<phase, pending>>
      BY <2>1
    <2>2. CASE Task
      BY <2>2 DEF Task, SelectLoop, TakeIn, Drain, SealAndSend, Return, TakeCtrl,
         HandleGone, TakeRow, Pop, Uncount, AfterIngest, Tick, SizeTrigger, PullRow, PullDone,
         DrainToCompletion, DropChunk, SplitChunk, Send, SendOk, SendFails,
         PassDone, ReturnToIngest, ReturnToLoop, ReturnToDrain, Exit, Ingest,
         BeginPass, Fail, Finish
    <2>3. CASE ~ Task
      <3>1. UNCHANGED <<phase, pending>>
        BY <2>3 DEF Next, Caller, Enqueue, TrySend, CountAccepted, CountDepth, Request,
           DropHandle, ServerStores, vars, taskVars
      <3> QED BY <2>1, <3>1
    <2> QED BY <2>2, <2>3
  <1> QED BY <1>1, <1>2, <1>3 DEF TypeInv

\* Every reachable state of the buffer is well typed, whatever the number of
\* calls and the capacities.
THEOREM TypeCorrect == Spec => []TypeOK
  <1>1. TypeInv => TypeOK
    BY DEF TypeInv
  <1> QED BY InitType, TypeInvStep, <1>1, PTL DEF Spec

-----------------------------------------------------------------------------
(***************************************************************************)
(* One request per batch.  The invariant follows every accepted row        *)
(* through the buffer: it is in one place at a time, either loose (in the  *)
(* channel, in hand, in staging) or in one batch under one id.             *)
(***************************************************************************)
Injective(s)   == \A i, j \in 1 .. Len(s) : s[i] = s[j] => i = j
DistinctIds(q) == \A i, j \in 1 .. Len(q) : q[i].id = q[j].id => i = j

Batches == sent \cup Queued

\* Two batches with the same id or a row in common are the same batch.
Same(b1, b2) == b1.id = b2.id \/ ToSet(b1.rows) \cap ToSet(b2.rows) # {} => b1 = b2

LooseOnce == /\ Injective(staging) /\ Injective(held) /\ Injective(chan)
             /\ ToSet(staging) \cap ToSet(held) = {}
             /\ ToSet(staging) \cap ToSet(chan) = {}
             /\ ToSet(held) \cap ToSet(chan) = {}
             /\ \A r \in Loose : call[r] \in {"sent", "counted", "ok"}

\* What holds of each batch by itself.
Sealed(b) == /\ b.id < nextId
             /\ Injective(b.rows)
             /\ ToSet(b.rows) \cap Loose = {}
             /\ \A r \in ToSet(b.rows) : call[r] \in {"sent", "counted", "ok"}

BatchOnce == /\ \A b \in Batches : Sealed(b)
             /\ \A b1, b2 \in Batches : Same(b1, b2)
             /\ DistinctIds(pending) /\ DistinctIds(retry)
             /\ phase \in {"pass", "send"} => retry = << >>
             /\ phase \notin {"pass", "send"} => pending = << >>
             /\ \A b \in sent : ~ Oversize(b)

UniqueInv == TypeInv /\ LooseOnce /\ BatchOnce

\* The elements of a sequence are those at its positions.
LEMMA ToSetSeq ==
  ASSUME NEW S, NEW s \in Seq(S)
  PROVE  /\ ToSet(s) = {s[i] : i \in 1 .. Len(s)}
         /\ \A i \in 1 .. Len(s) : s[i] \in ToSet(s)
  BY LenProperties DEF ToSet

\* Appending a new element.
LEMMA AppendOnce ==
  ASSUME NEW S, NEW s \in Seq(S), NEW e \in S
  PROVE  /\ ToSet(Append(s, e)) = ToSet(s) \cup {e}
         /\ Injective(s) /\ e \notin ToSet(s) => Injective(Append(s, e))
  <1> DEFINE t == Append(s, e)
  <1>1. /\ t \in Seq(S) /\ Len(t) = Len(s) + 1 /\ Len(s) \in Nat
        /\ \A i \in 1 .. Len(s) : t[i] = s[i]
        /\ t[Len(s) + 1] = e
    BY AppendProperties, LenProperties
  <1>2. ToSet(s) = {s[i] : i \in 1 .. Len(s)} /\ ToSet(t) = {t[i] : i \in 1 .. Len(t)}
    BY <1>1, ToSetSeq
  <1> HIDE DEF t
  <1>3. ToSet(t) \subseteq ToSet(s) \cup {e}
    BY <1>1, <1>2, SMT
  <1>4. ToSet(s) \cup {e} \subseteq ToSet(t)
    BY <1>1, <1>2, SMT
  <1>5. ASSUME Injective(s), e \notin ToSet(s) PROVE Injective(t)
    BY <1>1, <1>2, <1>5, SMT DEF Injective
  <1> QED BY <1>3, <1>4, <1>5 DEF t

\* Taking the head off.
LEMMA TailOnce ==
  ASSUME NEW S, NEW s \in Seq(S), s # << >>
  PROVE  /\ ToSet(s) = {Head(s)} \cup ToSet(Tail(s))
         /\ Injective(s) => Injective(Tail(s)) /\ Head(s) \notin ToSet(Tail(s))
         /\ Head(s) = s[1] /\ Len(s) \in Nat \ {0} /\ Len(Tail(s)) = Len(s) - 1
         /\ \A i \in 1 .. Len(Tail(s)) : Tail(s)[i] = s[i + 1]
  <1> DEFINE t == Tail(s)
  <1>1. /\ t \in Seq(S) /\ Len(t) = Len(s) - 1 /\ Len(s) \in Nat \ {0}
        /\ \A i \in 1 .. Len(t) : t[i] = s[i + 1]
        /\ Head(s) = s[1]
    BY HeadTailProperties, EmptySeq, SMT
  <1> HIDE DEF t
  <1>2. ToSet(s) = {s[i] : i \in 1 .. Len(s)} /\ ToSet(t) = {t[i] : i \in 1 .. Len(t)}
    <2>1. ToSet(s) = {s[i] : i \in 1 .. Len(s)}
      BY ToSetSeq
    <2>2. ToSet(t) = {t[i] : i \in 1 .. Len(t)}
      BY <1>1, ToSetSeq
    <2> QED BY <2>1, <2>2
  <1>3. ToSet(s) \subseteq {s[1]} \cup ToSet(t)
    <2> SUFFICES ASSUME NEW i \in 1 .. Len(s), i # 1 PROVE s[i] \in ToSet(t)
      BY <1>2
    <2>1. i - 1 \in 1 .. Len(t) /\ (i - 1) + 1 = i
      BY <1>1, SMT
    <2> QED BY <1>1, <1>2, <2>1
  <1>4. {s[1]} \cup ToSet(t) \subseteq ToSet(s)
    BY <1>1, <1>2, SMT
  <1>5. ASSUME Injective(s) PROVE Injective(t) /\ s[1] \notin ToSet(t)
    <2>1. \A i \in 1 .. Len(t) : i + 1 \in 1 .. Len(s) /\ t[i] = s[i + 1] /\ i + 1 # 1
      BY <1>1, SMT
    <2>2. 1 \in 1 .. Len(s)
      BY <1>1, SMT
    <2>3. \A i, j \in 1 .. Len(t) : t[i] = t[j] => i = j
      BY <1>1, <1>5, <2>1, SMT DEF Injective
    <2>4. \A i \in 1 .. Len(t) : t[i] # s[1]
      BY <1>5, <2>1, <2>2 DEF Injective
    <2> QED BY <1>2, <2>3, <2>4 DEF Injective
  <1> QED BY <1>1, <1>3, <1>4, <1>5 DEF t

\* Joining two sequences without a common element.
LEMMA ConcatOnce ==
  ASSUME NEW S, NEW s \in Seq(S), NEW t \in Seq(S)
  PROVE  /\ ToSet(s \o t) = ToSet(s) \cup ToSet(t)
         /\ Injective(s) /\ Injective(t) /\ ToSet(s) \cap ToSet(t) = {}
              => Injective(s \o t)
  <1> DEFINE u == s \o t
  <1>1. /\ u \in Seq(S) /\ Len(u) = Len(s) + Len(t) /\ Len(s) \in Nat /\ Len(t) \in Nat
        /\ \A i \in 1 .. Len(s) + Len(t) :
              u[i] = IF i <= Len(s) THEN s[i] ELSE t[i - Len(s)]
    BY ConcatProperties, LenProperties
  <1>2. /\ ToSet(s) = {s[i] : i \in 1 .. Len(s)}
        /\ ToSet(t) = {t[i] : i \in 1 .. Len(t)}
        /\ ToSet(u) = {u[i] : i \in 1 .. Len(u)}
    BY <1>1, ToSetSeq
  <1> HIDE DEF u
  <1>3. ToSet(u) \subseteq ToSet(s) \cup ToSet(t)
    BY <1>1, <1>2, SMT
  <1>4. ToSet(s) \subseteq ToSet(u)
    BY <1>1, <1>2, SMT
  <1>5. ToSet(t) \subseteq ToSet(u)
    <2> SUFFICES ASSUME NEW i \in 1 .. Len(t) PROVE t[i] \in ToSet(u)
      BY <1>2
    <2>1. /\ i + Len(s) \in 1 .. Len(s) + Len(t) /\ ~ (i + Len(s) <= Len(s))
          /\ (i + Len(s)) - Len(s) = i
      BY <1>1, SMT
    <2>2. u[i + Len(s)] = t[i]
      BY <1>1, <2>1
    <2> QED BY <1>1, <1>2, <2>1, <2>2
  <1>6. ASSUME Injective(s), Injective(t), ToSet(s) \cap ToSet(t) = {}
        PROVE  Injective(u)
    <2> SUFFICES ASSUME NEW i \in 1 .. Len(u), NEW j \in 1 .. Len(u), u[i] = u[j]
                 PROVE  i = j
      BY DEF Injective
    <2>1. CASE i <= Len(s) /\ j <= Len(s)
      BY <1>1, <1>6, <2>1, SMT DEF Injective
    <2>2. CASE i > Len(s) /\ j > Len(s)
      <3>1. i - Len(s) \in 1 .. Len(t) /\ j - Len(s) \in 1 .. Len(t)
        BY <1>1, <2>2, SMT
      <3>2. t[i - Len(s)] = t[j - Len(s)]
        BY <1>1, <2>2, SMT
      <3> QED BY <1>1, <1>6, <3>1, <3>2, SMT DEF Injective
    <2>3. CASE i <= Len(s) /\ j > Len(s)
      <3>1. i \in 1 .. Len(s) /\ j - Len(s) \in 1 .. Len(t)
        BY <1>1, <2>3, SMT
      <3>2. u[i] = s[i] /\ u[j] = t[j - Len(s)]
        BY <1>1, <2>3, SMT
      <3>3. u[i] \in ToSet(s) /\ u[j] \in ToSet(t)
        BY <1>2, <3>1, <3>2
      <3> QED BY <1>6, <3>3
    <2>4. CASE i > Len(s) /\ j <= Len(s)
      <3>1. j \in 1 .. Len(s) /\ i - Len(s) \in 1 .. Len(t)
        BY <1>1, <2>4, SMT
      <3>2. u[j] = s[j] /\ u[i] = t[i - Len(s)]
        BY <1>1, <2>4, SMT
      <3>3. u[j] \in ToSet(s) /\ u[i] \in ToSet(t)
        BY <1>2, <3>1, <3>2
      <3> QED BY <1>6, <3>3
    <2> QED BY <1>1, <2>1, <2>2, <2>3, <2>4, SMT
  <1> QED BY <1>3, <1>4, <1>5, <1>6 DEF u

\* A run of consecutive elements.
LEMMA RunOnce ==
  ASSUME NEW S, NEW s \in Seq(S), NEW a \in 1 .. Len(s) + 1, NEW z \in 0 .. Len(s)
  PROVE  /\ ToSet(SubSeq(s, a, z)) = {s[i] : i \in a .. z}
         /\ Injective(s) => Injective(SubSeq(s, a, z))
  <1> DEFINE u == SubSeq(s, a, z)
  <1>1. Len(s) \in Nat /\ \A i \in 1 .. Len(s) : s[i] \in S
    BY LenProperties, ElementOfSeq
  <1>2. \A i \in a .. z : s[i] \in S
    BY <1>1, SMT
  <1>3. /\ u \in Seq(S) /\ Len(u) = IF a <= z THEN z - a + 1 ELSE 0
        /\ \A i \in 1 .. z - a + 1 : u[i] = s[a + i - 1]
    BY <1>1, <1>2, SubSeqProperties, SMT
  <1>4. ToSet(u) = {u[i] : i \in 1 .. Len(u)}
    BY <1>3, ToSetSeq
  <1> HIDE DEF u
  <1>5. ToSet(u) \subseteq {s[i] : i \in a .. z}
    <2>1. \A i \in 1 .. Len(u) : a + i - 1 \in a .. z /\ u[i] = s[a + i - 1]
      BY <1>1, <1>3, SMT
    <2> QED BY <1>4, <2>1
  <1>6. {s[i] : i \in a .. z} \subseteq ToSet(u)
    <2> SUFFICES ASSUME NEW i \in a .. z PROVE s[i] \in ToSet(u)
      OBVIOUS
    <2>1. i - a + 1 \in 1 .. Len(u) /\ u[i - a + 1] = s[i]
      BY <1>1, <1>3, SMTT(30)
    <2> QED BY <1>4, <2>1
  <1>7. ASSUME Injective(s) PROVE Injective(u)
    <2>1. \A i \in 1 .. Len(u) : a + i - 1 \in 1 .. Len(s) /\ u[i] = s[a + i - 1]
      BY <1>1, <1>3, SMT
    <2>2. ASSUME NEW i \in 1 .. Len(u), NEW j \in 1 .. Len(u), u[i] = u[j]
          PROVE  i = j
      <3>1. a + i - 1 = a + j - 1
        BY <1>7, <2>1, <2>2 DEF Injective
      <3> QED BY <3>1, SMT
    <2> QED BY <2>2 DEF Injective
  <1> QED BY <1>5, <1>6, <1>7 DEF u

\* The fields of a batch.
LEMMA Fields ==
  ASSUME NEW b, NEW x, NEW y, b = [id |-> x, rows |-> y]
  PROVE  b.id = x /\ b.rows = y
  OBVIOUS

\* The chunks of a duplicate-free staging buffer share no row and no id.
LEMMA ChunksOnce ==
  ASSUME NEW s \in Seq(Rows), NEW base \in Nat, Injective(s)
  PROVE  LET q == Chunks(s, base)
         IN  /\ \A i \in 1 .. Len(q) :
                   /\ q[i].id = base + i - 1
                   /\ Injective(q[i].rows)
                   /\ ToSet(q[i].rows) \subseteq ToSet(s)
             /\ \A i, j \in 1 .. Len(q) :
                   i # j => ToSet(q[i].rows) \cap ToSet(q[j].rows) = {}
  <1> DEFINE q == Chunks(s, base)
             n == Len(s)
  <1>1. /\ n \in Nat /\ Len(q) = ChunkCount(n) /\ Len(q) \in Nat
        /\ \A i \in 1 .. Len(q) :
              q[i] = [id |-> base + i - 1, rows |-> SubSeq(s, From(i), Upto(i, n))]
    BY ChunksType, LenProperties, ChunkCountNat
  <1>2. ToSet(s) = {s[i] : i \in 1 .. n}
    BY ToSetSeq
  <1> HIDE DEF q, n
  <1>3. \A i \in 1 .. Len(q) : From(i) \in 1 .. n /\ Upto(i, n) \in From(i) .. n
    BY <1>1, ChunkBounds
  <1>4. ASSUME NEW i \in 1 .. Len(q)
        PROVE  /\ q[i].id = base + i - 1
               /\ Injective(q[i].rows)
               /\ ToSet(q[i].rows) = {s[k] : k \in From(i) .. Upto(i, n)}
    <2>1. From(i) \in 1 .. n + 1 /\ Upto(i, n) \in 0 .. n
      BY <1>1, <1>3, SMT
    <2>2. /\ Injective(SubSeq(s, From(i), Upto(i, n)))
          /\ ToSet(SubSeq(s, From(i), Upto(i, n))) = {s[k] : k \in From(i) .. Upto(i, n)}
      BY <2>1, RunOnce DEF n
    <2> DEFINE x == base + i - 1
               y == SubSeq(s, From(i), Upto(i, n))
               b == q[i]
    <2>3. b = [id |-> x, rows |-> y]
      BY <1>1
    <2> HIDE DEF x, y, b
    <2>4. b.rows = y /\ b.id = x
      BY <2>3, Fields
    <2> USE DEF x, y, b
    <2> QED BY <2>2, <2>4
  <1>5. \A i \in 1 .. Len(q) : ToSet(q[i].rows) \subseteq ToSet(s)
    <2>1. ASSUME NEW i \in 1 .. Len(q)
          PROVE  {s[k] : k \in From(i) .. Upto(i, n)} \subseteq {s[k] : k \in 1 .. n}
      <3>1. \A k \in From(i) .. Upto(i, n) : k \in 1 .. n
        BY <1>1, <1>3, SMT
      <3>2. \A k \in From(i) .. Upto(i, n) : s[k] \in {s[l] : l \in 1 .. n}
        BY <3>1, Zenon
      <3> QED BY <3>2
    <2> QED BY <1>2, <1>4, <2>1, Zenon
  <1>6. ASSUME NEW i \in 1 .. Len(q), NEW j \in 1 .. Len(q), i < j
        PROVE  ToSet(q[i].rows) \cap ToSet(q[j].rows) = {}
    <2>1. Upto(i, n) < From(j)
      <3>1. i + 1 <= j
        BY <1>1, <1>6, SMT
      <3>2. (i + 1) * FlushMaxRows <= j * FlushMaxRows
        BY <1>1, <3>1, SMT
      <3>3. (i + 1) * FlushMaxRows = i * FlushMaxRows + FlushMaxRows
        BY <1>1, SMT
      <3>4. i * FlushMaxRows \in Int /\ j * FlushMaxRows \in Int
        BY <1>1, SMT
      <3>5. i * FlushMaxRows < From(j)
        BY <3>2, <3>3, <3>4, SMT DEF From
      <3>6. Upto(i, n) <= i * FlushMaxRows
        BY <1>1, <3>4, SMT DEF Upto
      <3>7. From(j) \in Int /\ Upto(i, n) \in Int
        BY <1>1, <1>3, SMT
      <3> QED BY <3>4, <3>5, <3>6, <3>7, SMT
    <2>2. ASSUME NEW k \in From(i) .. Upto(i, n), NEW l \in From(j) .. Upto(j, n)
          PROVE  s[k] # s[l]
      <3>1. k \in 1 .. n /\ l \in 1 .. n /\ k # l
        <4>1. /\ From(i) \in 1 .. n /\ Upto(i, n) \in From(i) .. n
              /\ From(j) \in 1 .. n /\ Upto(j, n) \in From(j) .. n
          BY <1>1, <1>3
        <4>2. n \in Nat
          BY <1>1
        <4> HIDE DEF n
        <4> QED BY <2>1, <4>1, <4>2, SMT
      <3>2. \A x, y \in 1 .. n : s[x] = s[y] => x = y
        BY DEF Injective, n
      <3> QED BY <3>1, <3>2
    <2>3. {s[k] : k \in From(i) .. Upto(i, n)} \cap {s[k] : k \in From(j) .. Upto(j, n)} = {}
      BY <2>2, Zenon
    <2>4. /\ ToSet(q[i].rows) = {s[k] : k \in From(i) .. Upto(i, n)}
          /\ ToSet(q[j].rows) = {s[k] : k \in From(j) .. Upto(j, n)}
      BY <1>4
    <2> QED BY <2>3, <2>4, Zenon
  <1>7. ASSUME NEW i \in 1 .. Len(q), NEW j \in 1 .. Len(q), i # j
        PROVE  ToSet(q[i].rows) \cap ToSet(q[j].rows) = {}
    <2>1. i < j \/ j < i
      BY <1>1, <1>7, SMT
    <2> QED BY <1>6, <2>1
  <1> QED BY <1>4, <1>5, <1>7 DEF q

\* The halves of a chunk share no row.
LEMMA HalvesOnce ==
  ASSUME NEW s \in Seq(Rows), Injective(s)
  PROVE  LET left  == SubSeq(s, 1, Len(s) \div 2)
             right == SubSeq(s, Len(s) \div 2 + 1, Len(s))
         IN  /\ Injective(left) /\ Injective(right)
             /\ ToSet(left) \subseteq ToSet(s) /\ ToSet(right) \subseteq ToSet(s)
             /\ ToSet(left) \cap ToSet(right) = {}
  <1>1. Len(s) \in Nat
    BY LenProperties
  <1>2. PICK mid \in 0 .. Len(s) : mid = Len(s) \div 2
    BY HalfSeqs
  <1>3. mid + 1 \in 1 .. Len(s) + 1 /\ 1 \in 1 .. Len(s) + 1 /\ Len(s) \in 0 .. Len(s)
    BY <1>1, SMT
  <1>4. /\ Injective(SubSeq(s, 1, mid))
        /\ ToSet(SubSeq(s, 1, mid)) = {s[i] : i \in 1 .. mid}
    BY <1>3, RunOnce
  <1>5. /\ Injective(SubSeq(s, mid + 1, Len(s)))
        /\ ToSet(SubSeq(s, mid + 1, Len(s))) = {s[i] : i \in mid + 1 .. Len(s)}
    BY <1>3, RunOnce
  <1>6. ToSet(s) = {s[i] : i \in 1 .. Len(s)}
    BY ToSetSeq
  <1>7. {s[i] : i \in 1 .. mid} \subseteq ToSet(s) /\ {s[i] : i \in mid + 1 .. Len(s)} \subseteq ToSet(s)
    BY <1>1, <1>6, SMT
  <1>8. \A i \in 1 .. mid, j \in mid + 1 .. Len(s) : s[i] # s[j]
    BY <1>1, SMT DEF Injective
  <1> QED BY <1>2, <1>4, <1>5, <1>7, <1>8

-----------------------------------------------------------------------------
(* Steps that only shrink what is buffered                                 *)

\* A row that was accepted stays accepted.
CallGrows == \A r \in Rows : call[r] \in {"sent", "counted", "ok"} => call'[r] \in {"sent", "counted", "ok"}

\* The rows of a loose sequence and of a batch are rows.
LEMMA RowsAreRows ==
  ASSUME TypeOK
  PROVE  /\ Loose \subseteq Rows
         /\ \A b \in Batches : b \in Batch /\ b.id \in Nat /\ b.rows \in Seq(Rows)
                               /\ ToSet(b.rows) \subseteq Rows
  <1>1. \A s \in Seq(Rows) : ToSet(s) \subseteq Rows
    BY LenProperties, ElementOfSeq DEF ToSet
  <1>2. \A s \in Seq(Batch) : ToSet(s) \subseteq Batch
    BY LenProperties, ElementOfSeq DEF ToSet
  <1>3. Loose \subseteq Rows
    BY <1>1 DEF Loose, TypeOK
  <1>4. Batches \subseteq Batch
    BY <1>2 DEF Batches, Queued, TypeOK
  <1>5. \A b \in Batch : b.id \in Nat /\ b.rows \in Seq(Rows)
    BY DEF Batch
  <1> QED BY <1>1, <1>3, <1>4, <1>5

\* Batches stay sealed and distinct while nothing is sealed or loosened.
LEMMA SealedKeep ==
  ASSUME UniqueInv, CallGrows, TypeOK',
         Batches' \subseteq Batches, Loose' \subseteq Loose, nextId' >= nextId
  PROVE  /\ \A b \in Batches' : Sealed(b)'
         /\ \A b1, b2 \in Batches' : Same(b1, b2)
  <1>1. /\ \A b \in Batches : Sealed(b)
        /\ \A b1, b2 \in Batches : Same(b1, b2)
    BY DEF UniqueInv, BatchOnce
  <1>2. nextId \in Nat /\ nextId' \in Nat
    BY DEF UniqueInv, TypeInv, TypeOK
  <1>3. ASSUME NEW b \in Batches' PROVE Sealed(b)'
    <2>1. /\ b \in Batches /\ Sealed(b) /\ b.id \in Nat
          /\ ToSet(b.rows) \subseteq Rows
      BY <1>1, <1>3, RowsAreRows DEF UniqueInv, TypeInv
    <2>2. b.id < nextId'
      BY <1>2, <2>1 DEF Sealed
    <2>3. ToSet(b.rows) \cap Loose' = {}
      BY <2>1 DEF Sealed
    <2>4. \A r \in ToSet(b.rows) : call'[r] \in {"sent", "counted", "ok"}
      BY <2>1 DEF Sealed, CallGrows
    <2> QED BY <2>1, <2>2, <2>3, <2>4 DEF Sealed
  <1> QED BY <1>1, <1>3

\* What is loose stays loose once.
LEMMA LooseKeep ==
  ASSUME UniqueInv, CallGrows, UNCHANGED <<staging, held, chan>>
  PROVE  LooseOnce' /\ Loose' = Loose
  <1>1. Loose' = Loose
    BY DEF Loose
  <1>2. \A r \in Loose' : call'[r] \in {"sent", "counted", "ok"}
    BY <1>1, RowsAreRows DEF UniqueInv, TypeInv, LooseOnce, CallGrows
  <1> QED BY <1>1, <1>2 DEF UniqueInv, LooseOnce, Injective

\* A step that leaves the buffers alone.
LEMMA StillOnce ==
  ASSUME UniqueInv, TypeInv', CallGrows,
         UNCHANGED <<staging, held, chan, sent, pending, retry, nextId>>,
         phase' \in {"pass", "send"} => phase \in {"pass", "send"},
         phase' \notin {"pass", "send"} => pending = << >>
  PROVE  UniqueInv'
  <1>1. LooseOnce' /\ Loose' = Loose
    BY LooseKeep
  <1>2. Batches' = Batches /\ nextId' >= nextId
    BY DEF Batches, Queued, UniqueInv, TypeInv, TypeOK
  <1>3. /\ \A b \in Batches' : Sealed(b)'
        /\ \A b1, b2 \in Batches' : Same(b1, b2)
    BY <1>1, <1>2, SealedKeep DEF TypeInv
  <1>4. /\ DistinctIds(pending') /\ DistinctIds(retry')
        /\ phase' \in {"pass", "send"} => retry' = << >>
        /\ phase' \notin {"pass", "send"} => pending' = << >>
        /\ \A b \in sent' : ~ Oversize(b)
    BY DEF BatchOnce, UniqueInv
  <1>5. BatchOnce'
    BY <1>3, <1>4 DEF BatchOnce, DistinctIds, Oversize
  <1> QED BY <1>1, <1>5 DEF UniqueInv

-----------------------------------------------------------------------------
(* Callers, the handle and the server                                      *)

\* enqueue puts a row that was nowhere before at the end of the channel.
LEMMA CallerOnce ==
  ASSUME UniqueInv, TypeInv', NEW r \in Rows, Caller(r) PROVE UniqueInv'
  <1>1. call \in [Rows -> {"idle", "trying", "sent", "counted", "ok", "refused"}]
    BY DEF UniqueInv, TypeInv, TypeOK
  <1>2. CallGrows
    BY <1>1 DEF Caller, Enqueue, TrySend, CountAccepted, CountDepth, Refuse, Saturated, CallGrows
  <1>3. UNCHANGED <<staging, held, sent, pending, retry, nextId, phase>>
    BY DEF Caller, Enqueue, TrySend, CountAccepted, CountDepth, taskVars, sinkVars
  <1>4. phase \notin {"pass", "send"} => pending = << >>
    BY DEF UniqueInv, BatchOnce
  <1>5. CASE UNCHANGED chan
    BY <1>2, <1>3, <1>4, <1>5, StillOnce
  <1>6. CASE ~ UNCHANGED chan
    <2>1. chan' = Append(chan, r) /\ call[r] = "trying" /\ call' = [call EXCEPT ![r] = "sent"]
      BY <1>6 DEF Caller, Enqueue, TrySend, CountAccepted, CountDepth
    <2>2. chan \in Seq(Rows)
      BY DEF UniqueInv, TypeInv, TypeOK
    <2>3. LooseOnce /\ Loose \subseteq Rows
      BY RowsAreRows DEF UniqueInv, TypeInv
    <2>4. r \notin Loose
      BY <2>1, <2>3 DEF LooseOnce
    <2>5. /\ ToSet(chan') = ToSet(chan) \cup {r}
          /\ Injective(chan')
      BY <2>1, <2>2, <2>3, <2>4, AppendOnce DEF LooseOnce, Loose
    <2>6. Loose' = Loose \cup {r}
      BY <1>3, <2>5 DEF Loose
    <2>7. LooseOnce'
      <3>1. \A q \in Loose' : call'[q] \in {"sent", "counted", "ok"}
        BY <1>1, <2>1, <2>3, <2>6 DEF LooseOnce
      <3>2. /\ Injective(staging') /\ Injective(held') /\ Injective(chan')
            /\ ToSet(staging') \cap ToSet(held') = {}
            /\ ToSet(staging') \cap ToSet(chan') = {}
            /\ ToSet(held') \cap ToSet(chan') = {}
        BY <1>3, <2>3, <2>4, <2>5 DEF LooseOnce, Loose
      <3> QED BY <3>1, <3>2 DEF LooseOnce, Injective
    <2>8. Batches' = Batches
      BY <1>3 DEF Batches, Queued
    <2>9. ASSUME NEW b \in Batches PROVE Sealed(b)'
      <3>1. Sealed(b) /\ ToSet(b.rows) \subseteq Rows
        BY <2>9, RowsAreRows DEF UniqueInv, TypeInv, BatchOnce
      <3>2. r \notin ToSet(b.rows)
        BY <2>1, <3>1 DEF Sealed
      <3>3. ToSet(b.rows) \cap Loose' = {}
        BY <2>6, <3>1, <3>2 DEF Sealed
      <3>4. \A q \in ToSet(b.rows) : call'[q] \in {"sent", "counted", "ok"}
        BY <1>2, <3>1 DEF Sealed, CallGrows
      <3> QED BY <1>3, <3>1, <3>3, <3>4 DEF Sealed
    <2>10. BatchOnce'
      BY <1>3, <2>8, <2>9 DEF UniqueInv, BatchOnce, DistinctIds, Same
    <2> QED BY <2>7, <2>10 DEF UniqueInv
  <1> QED BY <1>5, <1>6

\* Everyone else but the task leaves rows and batches where they are.
LEMMA OthersOnce ==
  ASSUME UniqueInv, TypeInv',
         \/ \E c \in Controllers : Request(c)
         \/ DropHandle
         \/ \E b \in sent : ServerStores(b)
         \/ UNCHANGED vars
  PROVE  UniqueInv'
  <1>1. /\ UNCHANGED <<call, staging, held, chan, sent, pending, retry, nextId, phase>>
        /\ CallGrows
    BY DEF Request, DropHandle, ServerStores, taskVars, sinkVars, callVars, vars, CallGrows
  <1> QED BY <1>1, StillOnce DEF UniqueInv, BatchOnce

-----------------------------------------------------------------------------
(* Sealing                                                                 *)

\* A pass takes the retry buffer over and seals what is staged, which the
\* step that begins it has not put anywhere else.
LEMMA BeginPassOnce ==
  ASSUME UniqueInv, TypeInv', BeginPass, CallGrows, UNCHANGED sent,
         phase \notin {"pass", "send"},
         LooseOnce', Loose' \subseteq Loose \ ToSet(staging)
  PROVE  UniqueInv'
  <1> DEFINE q == Chunks(staging, nextId)
             n == Len(q)
  <1>1. /\ staging \in Seq(Rows) /\ nextId \in Nat /\ retry \in Seq(Batch)
        /\ Injective(staging)
    BY DEF UniqueInv, TypeInv, TypeOK, LooseOnce
  <1>2. q \in Seq(Batch) /\ n \in Nat
    BY <1>1, ChunksType, LenProperties
  <1>3. /\ \A i \in 1 .. n : /\ q[i].id = nextId + i - 1
                             /\ Injective(q[i].rows)
                             /\ ToSet(q[i].rows) \subseteq ToSet(staging)
        /\ \A i, j \in 1 .. n : i # j => ToSet(q[i].rows) \cap ToSet(q[j].rows) = {}
    BY <1>1, ChunksOnce
  <1>4. pending' = retry \o q /\ retry' = << >> /\ pending = << >>
    BY DEF BeginPass, UniqueInv, BatchOnce
  <1>5. /\ ToSet(pending') = ToSet(retry) \cup ToSet(q)
        /\ Len(pending') = Len(retry) + n
        /\ \A i \in 1 .. Len(retry) + n :
              pending'[i] = IF i <= Len(retry) THEN retry[i] ELSE q[i - Len(retry)]
    BY <1>1, <1>2, <1>4, ConcatOnce, ConcatProperties
  <1>6. nextId' = nextId + n /\ phase' = "pass" /\ Len(retry) \in Nat
    BY <1>1, <1>2, <1>5, LenProperties, SMT DEF BeginPass
  <1>7. ToSet(q) = {q[i] : i \in 1 .. n} /\ ToSet(retry) = {retry[i] : i \in 1 .. Len(retry)}
    BY <1>1, <1>2, ToSetSeq
  <1>8. ToSet(<< >>) = {}
    BY DEF ToSet
  <1> HIDE DEF q, n
  <1>9. Batches' = sent \cup ToSet(retry) \cup ToSet(q)
    BY <1>4, <1>5, <1>8 DEF Batches, Queued
  <1>10. /\ \A b \in Batches : Sealed(b) /\ b.id \in Nat /\ ToSet(b.rows) \subseteq Rows
         /\ \A b1, b2 \in Batches : Same(b1, b2)
    BY RowsAreRows DEF UniqueInv, TypeInv, BatchOnce
  <1>11. sent \cup ToSet(retry) \subseteq Batches
    BY DEF Batches, Queued
  <1>12. ToSet(staging) \subseteq Loose /\ ToSet(staging) \subseteq Rows
    BY RowsAreRows DEF Loose, UniqueInv, TypeInv
  <1>13. ASSUME NEW b \in sent \cup ToSet(retry) PROVE Sealed(b)'
    <2>1. /\ Sealed(b) /\ b.id \in Nat /\ ToSet(b.rows) \subseteq Rows
      BY <1>10, <1>11
    <2>2. b.id < nextId'
      BY <1>1, <1>2, <1>6, <2>1, SMT DEF Sealed
    <2>3. ToSet(b.rows) \cap Loose' = {}
      BY <2>1 DEF Sealed
    <2>4. \A r \in ToSet(b.rows) : call'[r] \in {"sent", "counted", "ok"}
      BY <2>1 DEF Sealed, CallGrows
    <2> QED BY <2>1, <2>2, <2>3, <2>4 DEF Sealed
  <1>14. ASSUME NEW i \in 1 .. n, NEW b, b = q[i] PROVE Sealed(b)'
    <2>1. b.id < nextId'
      BY <1>1, <1>2, <1>3, <1>6, <1>14, SMT
    <2>2. ToSet(b.rows) \subseteq ToSet(staging) /\ Injective(b.rows)
      BY <1>3, <1>14
    <2>3. ToSet(b.rows) \cap Loose' = {}
      BY <2>2
    <2>4. \A r \in ToSet(b.rows) : call'[r] \in {"sent", "counted", "ok"}
      BY <1>12, <2>2 DEF UniqueInv, LooseOnce, CallGrows
    <2> QED BY <2>1, <2>2, <2>3, <2>4 DEF Sealed
  <1>15. ASSUME NEW b \in sent \cup ToSet(retry), NEW i \in 1 .. n
         PROVE  b.id # q[i].id /\ ToSet(b.rows) \cap ToSet(q[i].rows) = {}
    <2>1. Sealed(b) /\ b.id \in Nat
      BY <1>10, <1>11
    <2>2. b.id # q[i].id
      BY <1>1, <1>2, <1>3, <2>1, SMT DEF Sealed
    <2>3. ToSet(b.rows) \cap ToSet(q[i].rows) = {}
      BY <1>3, <1>12, <2>1 DEF Sealed
    <2> QED BY <2>2, <2>3
  <1>16. \A i, j \in 1 .. n : q[i].id = q[j].id => i = j
    BY <1>1, <1>2, <1>3, SMT
  <1>17. ASSUME NEW b1 \in Batches', NEW b2 \in Batches' PROVE Same(b1, b2)
    <2>1. CASE b1 \in sent \cup ToSet(retry) /\ b2 \in sent \cup ToSet(retry)
      BY <1>10, <1>11, <2>1
    <2>2. CASE b1 \in ToSet(q) /\ b2 \in sent \cup ToSet(retry)
      <3>1. PICK i \in 1 .. n : b1 = q[i]
        BY <1>7, <2>2
      <3> QED BY <1>15, <2>2, <3>1 DEF Same
    <2>3. CASE b1 \in sent \cup ToSet(retry) /\ b2 \in ToSet(q)
      <3>1. PICK i \in 1 .. n : b2 = q[i]
        BY <1>7, <2>3
      <3> QED BY <1>15, <2>3, <3>1 DEF Same
    <2>4. CASE b1 \in ToSet(q) /\ b2 \in ToSet(q)
      <3>1. PICK i \in 1 .. n, j \in 1 .. n : b1 = q[i] /\ b2 = q[j]
        BY <1>7, <2>4
      <3> QED BY <1>3, <1>16, <3>1 DEF Same
    <2> QED BY <1>9, <2>1, <2>2, <2>3, <2>4
  <1>18. DistinctIds(pending)'
    <2>1. ASSUME NEW i \in 1 .. Len(retry) + n, NEW j \in 1 .. Len(retry) + n,
                 pending'[i].id = pending'[j].id
          PROVE  i = j
      <3>1. CASE i <= Len(retry) /\ j <= Len(retry)
        <4>1. i \in 1 .. Len(retry) /\ j \in 1 .. Len(retry)
          BY <1>2, <1>6, <3>1, SMT
        <4>2. retry[i].id = retry[j].id
          BY <1>5, <2>1, <3>1
        <4> QED BY <4>1, <4>2 DEF UniqueInv, BatchOnce, DistinctIds
      <3>2. CASE ~(i <= Len(retry)) /\ ~(j <= Len(retry))
        <4>1. i - Len(retry) \in 1 .. n /\ j - Len(retry) \in 1 .. n
          BY <1>2, <1>6, <3>2, SMT
        <4>2. q[i - Len(retry)].id = q[j - Len(retry)].id
          BY <1>5, <2>1, <3>2
        <4>3. i - Len(retry) = j - Len(retry)
          BY <1>16, <4>1, <4>2
        <4> QED BY <1>6, <4>3, SMT
      <3>3. CASE i <= Len(retry) /\ ~(j <= Len(retry))
        <4>1. i \in 1 .. Len(retry) /\ j - Len(retry) \in 1 .. n
          BY <1>2, <1>6, <3>3, SMT
        <4>2. retry[i].id = q[j - Len(retry)].id
          BY <1>5, <2>1, <3>3
        <4> QED BY <1>7, <1>15, <4>1, <4>2
      <3>4. CASE ~(i <= Len(retry)) /\ j <= Len(retry)
        <4>1. j \in 1 .. Len(retry) /\ i - Len(retry) \in 1 .. n
          BY <1>2, <1>6, <3>4, SMT
        <4>2. retry[j].id = q[i - Len(retry)].id
          BY <1>5, <2>1, <3>4
        <4> QED BY <1>7, <1>15, <4>1, <4>2
      <3> QED BY <3>1, <3>2, <3>3, <3>4
    <2> QED BY <1>5, <2>1 DEF DistinctIds
  <1>19. DistinctIds(retry)'
    BY <1>4, EmptySeq, SMT DEF DistinctIds
  <1>20. ASSUME NEW b \in Batches' PROVE Sealed(b)'
    <2>1. CASE b \in sent \cup ToSet(retry)
      BY <1>13, <2>1
    <2>2. CASE b \in ToSet(q)
      <3>1. PICK i \in 1 .. n : b = q[i]
        BY <1>7, <2>2
      <3> QED BY <1>14, <3>1
    <2> QED BY <1>9, <2>1, <2>2
  <1>21. BatchOnce'
    BY <1>4, <1>6, <1>17, <1>18, <1>19, <1>20 DEF BatchOnce, UniqueInv, Oversize
  <1> QED BY <1>21 DEF UniqueInv

\* Beginning a pass leaves the row in hand and the channel alone.
LEMMA BeginOnce ==
  ASSUME UniqueInv, TypeInv', BeginPass, phase \notin {"pass", "send"},
         UNCHANGED <<call, sent, held, chan>>
  PROVE  UniqueInv'
  <1>1. LooseOnce /\ CallGrows
    BY DEF UniqueInv, CallGrows
  <1>2. staging' = << >> /\ ToSet(<< >>) = {}
    BY DEF BeginPass, ToSet
  <1>3. Loose' \subseteq Loose \ ToSet(staging)
    BY <1>1, <1>2 DEF Loose, LooseOnce
  <1>4. LooseOnce'
    <2>1. Injective(staging)' /\ Injective(held)' /\ Injective(chan)'
      BY <1>1, <1>2, EmptySeq DEF Injective, LooseOnce
    <2>2. \A r \in Loose' : call'[r] \in {"sent", "counted", "ok"}
      BY <1>1, <1>3 DEF LooseOnce
    <2>3. /\ ToSet(staging') \cap ToSet(held') = {}
          /\ ToSet(staging') \cap ToSet(chan') = {}
          /\ ToSet(held') \cap ToSet(chan') = {}
      BY <1>1, <1>2 DEF LooseOnce
    <2> QED BY <2>1, <2>2, <2>3 DEF LooseOnce
  <1> QED BY <1>1, <1>3, <1>4, BeginPassOnce

-----------------------------------------------------------------------------
(* A row on its way from the channel into staging                          *)

\* Batches stay what they are while the loose rows only become fewer.
LEMMA ShrinkOnce ==
  ASSUME UniqueInv, TypeInv', LooseOnce', Loose' \subseteq Loose,
         UNCHANGED <<call, sent, pending, retry, nextId>>,
         pending = << >>, phase' \notin {"pass", "send"}
  PROVE  UniqueInv'
  <1>1. CallGrows
    BY DEF CallGrows
  <1>2. Batches' = Batches /\ nextId' >= nextId
    BY DEF Batches, Queued, UniqueInv, TypeInv, TypeOK
  <1>3. /\ \A b \in Batches' : Sealed(b)'
        /\ \A b1, b2 \in Batches' : Same(b1, b2)
    BY <1>1, <1>2, SealedKeep DEF TypeInv
  <1>4. BatchOnce'
    BY <1>3 DEF BatchOnce, UniqueInv, DistinctIds, Oversize
  <1> QED BY <1>4 DEF UniqueInv

\* The row taken off the channel is in hand and nowhere else.
LEMMA PopOnce ==
  ASSUME UniqueInv, TypeInv', Pop, chan # << >>, pending = << >>,
         UNCHANGED <<call, staging, sent, pending, retry, nextId>>
  PROVE  UniqueInv'
  <1> DEFINE h == Head(chan)
             t == Tail(chan)
  <1>1. chan \in Seq(Rows) /\ LooseOnce
    BY DEF UniqueInv, TypeInv, TypeOK
  <1>2. /\ ToSet(chan) = {h} \cup ToSet(t) /\ Injective(t) /\ h \notin ToSet(t)
        /\ h \in Rows /\ t \in Seq(Rows)
    BY <1>1, TailOnce, SeqOps DEF LooseOnce
  <1>3. chan' = t /\ held' = <<h>> /\ phase' = "popped"
    BY DEF Pop
  <1> HIDE DEF h, t
  <1>4. h \in Loose /\ h \notin ToSet(staging)
    BY <1>1, <1>2 DEF Loose, LooseOnce
  <1>5. held' \in Seq(Rows) /\ Len(held') = 1 /\ held'[1] = h
    BY <1>2, <1>3
  <1>6. ToSet(held') = {h} /\ Injective(held')
    BY <1>5, ToSetSeq DEF Injective
  <1>7. Loose' \subseteq Loose
    BY <1>2, <1>3, <1>4, <1>6 DEF Loose
  <1>8. LooseOnce'
    <2>1. Injective(staging)' /\ Injective(chan)'
      BY <1>1, <1>2, <1>3 DEF Injective, LooseOnce
    <2>2. \A r \in Loose' : call'[r] \in {"sent", "counted", "ok"}
      BY <1>1, <1>7 DEF LooseOnce
    <2>3. /\ ToSet(staging') \cap ToSet(held') = {}
          /\ ToSet(staging') \cap ToSet(chan') = {}
          /\ ToSet(held') \cap ToSet(chan') = {}
      BY <1>1, <1>2, <1>3, <1>4, <1>6 DEF LooseOnce
    <2> QED BY <1>6, <2>1, <2>2, <2>3 DEF LooseOnce, Injective
  <1> QED BY <1>3, <1>7, <1>8, ShrinkOnce

\* The row in hand lands in staging or is dropped.
LEMMA LandOnce ==
  ASSUME UniqueInv, TypeInv', staging' \in {staging, staging \o held}, held' = << >>,
         UNCHANGED <<call, chan, sent, pending, retry, nextId>>,
         pending = << >>, phase' \notin {"pass", "send"}
  PROVE  UniqueInv'
  <1>1. staging \in Seq(Rows) /\ held \in Seq(Rows) /\ LooseOnce
    BY DEF UniqueInv, TypeInv, TypeOK
  <1>2. ToSet(held') = {}
    BY DEF ToSet
  <1>3. /\ ToSet(staging') \subseteq ToSet(staging) \cup ToSet(held)
        /\ Injective(staging')
    <2>1. /\ ToSet(staging \o held) = ToSet(staging) \cup ToSet(held)
          /\ Injective(staging \o held)
      BY <1>1, ConcatOnce DEF LooseOnce
    <2>2. CASE staging' = staging \o held
      BY <2>1, <2>2
    <2>3. CASE staging' = staging
      BY <1>1, <2>3 DEF LooseOnce
    <2> QED BY <2>2, <2>3
  <1>4. Loose' \subseteq Loose
    BY <1>2, <1>3 DEF Loose
  <1>5. LooseOnce'
    <2>1. Injective(held)' /\ Injective(chan)'
      BY <1>1, EmptySeq DEF Injective, LooseOnce
    <2>2. \A r \in Loose' : call'[r] \in {"sent", "counted", "ok"}
      BY <1>1, <1>4 DEF LooseOnce
    <2>3. /\ ToSet(staging') \cap ToSet(held') = {}
          /\ ToSet(staging') \cap ToSet(chan') = {}
          /\ ToSet(held') \cap ToSet(chan') = {}
      BY <1>1, <1>2, <1>3, Zenon DEF LooseOnce
    <2> QED BY <1>3, <2>1, <2>2, <2>3 DEF LooseOnce, Injective
  <1> QED BY <1>4, <1>5, ShrinkOnce

-----------------------------------------------------------------------------
(* A pass and what follows it                                              *)

\* The batches behind the head of a queue without a repeated id.
LEMMA BehindHead ==
  ASSUME NEW q \in Seq(Batch), q # << >>, DistinctIds(q)
  PROVE  /\ DistinctIds(Tail(q))
         /\ ToSet(q) = {Head(q)} \cup ToSet(Tail(q))
         /\ \A b \in ToSet(Tail(q)) : b.id # Head(q).id
         /\ \A i \in 1 .. Len(Tail(q)) : Tail(q)[i].id # Head(q).id
  <1> DEFINE t == Tail(q)
             h == Head(q)
  <1>1. /\ ToSet(q) = {h} \cup ToSet(t)
        /\ h = q[1] /\ Len(q) \in Nat \ {0} /\ Len(t) = Len(q) - 1
        /\ \A i \in 1 .. Len(t) : t[i] = q[i + 1]
    BY TailOnce
  <1>2. ToSet(t) = {t[i] : i \in 1 .. Len(t)}
    <2>1. t \in Seq(Batch)
      BY SeqOps
    <2> QED BY <2>1, ToSetSeq
  <1> HIDE DEF t, h
  <1>3. \A i \in 1 .. Len(t) : i + 1 \in 1 .. Len(q) /\ i + 1 # 1 /\ 1 \in 1 .. Len(q)
    BY <1>1, SMT
  <1>4. \A i \in 1 .. Len(t) : t[i].id # h.id
    BY <1>1, <1>3 DEF DistinctIds
  <1>5. ASSUME NEW i \in 1 .. Len(t), NEW j \in 1 .. Len(t), t[i].id = t[j].id
        PROVE  i = j
    <2>1. i + 1 = j + 1
      BY <1>1, <1>3, <1>5 DEF DistinctIds
    <2> QED BY <2>1, SMT
  <1> QED BY <1>1, <1>2, <1>4, <1>5 DEF DistinctIds, t, h

\* The pass ends, with what is left of it in the retry buffer or nowhere.
LEMMA PassEndsOnce ==
  ASSUME UniqueInv, TypeInv',
         DropChunk \/ SendFails \/ PassDone \/ SendOk
  PROVE  UniqueInv'
  <1>1. /\ UNCHANGED <<staging, held, chan, sent, nextId, call>>
        /\ CallGrows /\ nextId' >= nextId
    <2>1. UNCHANGED <<staging, held, chan, sent, nextId, call>>
      BY DEF DropChunk, SendFails, PassDone, SendOk, callVars, sinkVars
    <2> QED BY <2>1 DEF CallGrows, UniqueInv, TypeInv, TypeOK
  <1>2. LooseOnce' /\ Loose' = Loose
    BY <1>1, LooseKeep
  <1>3. /\ pending \in Seq(Batch) /\ DistinctIds(pending)
        /\ (phase = "send" => pending # << >>)
        /\ (phase \in {"pass", "send"} => retry = << >>)
    BY DEF UniqueInv, BatchOnce, TypeInv, TypeOK
  <1>4. ToSet(<< >>) = {}
    BY DEF ToSet
  <1>5. CASE PassDone
    <2>1. /\ UNCHANGED <<pending, retry>> /\ pending = << >>
          /\ phase = "pass" /\ phase' = "return"
      BY <1>5 DEF PassDone
    <2> QED BY <1>1, <2>1, StillOnce
  <1>6. CASE DropChunk \/ SendFails
    <2>1. PICK rest \in {pending, Tail(pending)} :
             /\ retry' = rest /\ pending' = << >> /\ phase' = "return"
             /\ (rest = Tail(pending) => pending # << >>)
      BY <1>3, <1>6 DEF DropChunk, SendFails, Fail
    <2>2. DistinctIds(rest) /\ ToSet(rest) \subseteq ToSet(pending)
      <3>1. CASE rest = pending
        BY <1>3, <3>1
      <3>2. CASE rest = Tail(pending)
        <4>1. pending # << >>
          BY <2>1, <3>2
        <4>2. DistinctIds(Tail(pending)) /\ ToSet(Tail(pending)) \subseteq ToSet(pending)
          BY <1>3, <4>1, BehindHead
        <4> QED BY <3>2, <4>2
      <3> QED BY <2>1, <3>1, <3>2
    <2>3. Batches' \subseteq Batches
      BY <1>1, <1>4, <2>1, <2>2 DEF Batches, Queued
    <2>4. /\ \A b \in Batches' : Sealed(b)'
          /\ \A b1, b2 \in Batches' : Same(b1, b2)
      BY <1>1, <1>2, <2>3, SealedKeep DEF TypeInv
    <2>5. DistinctIds(pending)' /\ DistinctIds(retry)'
      BY <2>1, <2>2, EmptySeq, SMT DEF DistinctIds
    <2>6. BatchOnce'
      BY <1>1, <2>1, <2>4, <2>5 DEF BatchOnce, UniqueInv, Oversize
    <2> QED BY <1>2, <2>6 DEF UniqueInv
  <1>7. CASE SendOk
    <2>1. /\ pending # << >> /\ retry = << >> /\ pending' = Tail(pending)
          /\ phase' = "pass" /\ retry' = retry
      BY <1>3, <1>7 DEF SendOk
    <2>2. DistinctIds(Tail(pending)) /\ ToSet(Tail(pending)) \subseteq ToSet(pending)
      BY <1>3, <2>1, BehindHead
    <2>3. Batches' \subseteq Batches
      BY <1>1, <2>1, <2>2 DEF Batches, Queued
    <2>4. /\ \A b \in Batches' : Sealed(b)'
          /\ \A b1, b2 \in Batches' : Same(b1, b2)
      BY <1>1, <1>2, <2>3, SealedKeep DEF TypeInv
    <2>5. DistinctIds(pending)' /\ DistinctIds(retry)'
      BY <2>1, <2>2 DEF DistinctIds, UniqueInv, BatchOnce
    <2>6. BatchOnce'
      BY <1>1, <2>1, <2>4, <2>5 DEF BatchOnce, UniqueInv, Oversize
    <2> QED BY <1>2, <2>6 DEF UniqueInv
  <1> QED BY <1>5, <1>6, <1>7

\* A request leaves with the batch at the head, which fits a message.
LEMMA SendOnce ==
  ASSUME UniqueInv, TypeInv', Send PROVE UniqueInv'
  <1>1. /\ UNCHANGED <<staging, held, chan, pending, retry, nextId, call>>
        /\ CallGrows /\ nextId' >= nextId
        /\ phase = "pass" /\ phase' = "send" /\ pending # << >>
        /\ sent' = sent \cup {Head(pending)} /\ ~ Oversize(Head(pending))
    BY DEF Send, callVars, CallGrows, UniqueInv, TypeInv, TypeOK
  <1>2. LooseOnce' /\ Loose' = Loose
    BY <1>1, LooseKeep
  <1>3. Head(pending) \in ToSet(pending)
    BY <1>1, TailOnce DEF UniqueInv, TypeInv, TypeOK
  <1>4. Batches' = Batches
    BY <1>1, <1>3 DEF Batches, Queued
  <1>5. /\ \A b \in Batches' : Sealed(b)'
        /\ \A b1, b2 \in Batches' : Same(b1, b2)
    BY <1>1, <1>2, <1>4, SealedKeep DEF TypeInv
  <1>6. ASSUME NEW b \in sent' PROVE ~ Oversize(b)'
    BY <1>1, <1>6 DEF UniqueInv, BatchOnce, Oversize
  <1>7. BatchOnce'
    BY <1>1, <1>5, <1>6 DEF BatchOnce, UniqueInv, DistinctIds
  <1> QED BY <1>2, <1>7 DEF UniqueInv

\* After a pass, the row in hand lands and everything else stays.
LEMMA ReturnOnce ==
  ASSUME UniqueInv, TypeInv', Return PROVE UniqueInv'
  <1>1. UNCHANGED <<chan, sent, pending, retry, nextId, call>> /\ CallGrows
    BY DEF Return, ReturnToIngest, ReturnToLoop, ReturnToDrain, callVars,
           sinkVars, Finish, CallGrows
  <1>2. phase' \notin {"pass", "send"} /\ pending = << >>
    BY DEF Return, ReturnToIngest, ReturnToLoop, ReturnToDrain, Finish,
           AfterIngest, UniqueInv, BatchOnce
  <1>3. CASE UNCHANGED <<staging, held>>
    BY <1>1, <1>2, <1>3, StillOnce
  <1>4. CASE ReturnToIngest
    <2>1. staging' \in {staging, staging \o held} /\ held' = << >>
      BY <1>4 DEF ReturnToIngest
    <2> QED BY <1>1, <1>2, <2>1, LandOnce
  <1> QED BY <1>3, <1>4 DEF Return, ReturnToLoop, ReturnToDrain

\* A chunk that is too large gives way to its halves: it was never sent, the
\* left half inherits its id and the right half gets one nobody has.
LEMMA SplitOnce ==
  ASSUME UniqueInv, TypeInv', SplitChunk PROVE UniqueInv'
  <1> DEFINE b == Head(pending)
             rest == Tail(pending)
             q == Halves(b, nextId)
             l == q[1]
             r == q[2]
  <1>1. /\ UNCHANGED <<staging, held, chan, sent, retry, call, phase>>
        /\ CallGrows /\ phase = "pass" /\ pending # << >> /\ Oversize(b)
        /\ pending' = q \o rest /\ nextId' = nextId + 1
    BY DEF SplitChunk, callVars, sinkVars, CallGrows
  <1>2. /\ LooseOnce' /\ Loose' = Loose
    BY <1>1, LooseKeep
  <1>3. /\ pending \in Seq(Batch) /\ nextId \in Nat /\ DistinctIds(pending)
        /\ retry = << >> /\ ToSet(<< >>) = {}
    BY <1>1 DEF UniqueInv, BatchOnce, TypeInv, TypeOK, ToSet
  <1>4. b \in Batch /\ rest \in Seq(Batch) /\ b.rows \in Seq(Rows) /\ b.id \in Nat
    <2>1. b \in Batch /\ rest \in Seq(Batch)
      BY <1>1, <1>3, SeqOps
    <2> QED BY <2>1 DEF Batch
  <1>5. /\ DistinctIds(rest) /\ ToSet(pending) = {b} \cup ToSet(rest)
        /\ \A c \in ToSet(rest) : c.id # b.id
        /\ \A i \in 1 .. Len(rest) : rest[i].id # b.id
    BY <1>1, <1>3, BehindHead
  <1>6. /\ q \in Seq(Batch) /\ Len(q) = 2
        /\ l.id = b.id /\ l.rows = SubSeq(b.rows, 1, Len(b.rows) \div 2)
        /\ r.id = nextId /\ r.rows = SubSeq(b.rows, Len(b.rows) \div 2 + 1, Len(b.rows))
    <2> DEFINE x == SubSeq(b.rows, 1, Len(b.rows) \div 2)
               y == SubSeq(b.rows, Len(b.rows) \div 2 + 1, Len(b.rows))
               u == b.id
    <2> HIDE DEF b
    <2>1. /\ q \in Seq(Batch) /\ Len(q) = 2
          /\ q[1] = [id |-> u, rows |-> x] /\ q[2] = [id |-> nextId, rows |-> y]
      BY <1>3, <1>4, HalvesType
    <2> HIDE DEF q, x, y, u
    <2>2. l.id = u /\ l.rows = x /\ r.id = nextId /\ r.rows = y
      BY <2>1, Fields
    <2> USE DEF x, y, u
    <2> QED BY <2>1, <2>2
  <1>7. /\ \A c \in Batches : Sealed(c) /\ c.id \in Nat /\ ToSet(c.rows) \subseteq Rows
        /\ \A c, d \in Batches : Same(c, d)
    BY RowsAreRows DEF UniqueInv, TypeInv, BatchOnce
  <1>8. b \in Batches /\ sent \cup ToSet(rest) \subseteq Batches
    BY <1>5 DEF Batches, Queued
  <1>9. Sealed(b)
    BY <1>7, <1>8
  <1>10. /\ Injective(l.rows) /\ Injective(r.rows)
         /\ ToSet(l.rows) \subseteq ToSet(b.rows) /\ ToSet(r.rows) \subseteq ToSet(b.rows)
         /\ ToSet(l.rows) \cap ToSet(r.rows) = {}
    <2> DEFINE s == b.rows
    <2>1. s \in Seq(Rows) /\ Injective(s)
      BY <1>4, <1>9 DEF Sealed
    <2> HIDE DEF s
    <2>2. /\ Injective(SubSeq(s, 1, Len(s) \div 2))
          /\ Injective(SubSeq(s, Len(s) \div 2 + 1, Len(s)))
          /\ ToSet(SubSeq(s, 1, Len(s) \div 2)) \subseteq ToSet(s)
          /\ ToSet(SubSeq(s, Len(s) \div 2 + 1, Len(s))) \subseteq ToSet(s)
          /\ ToSet(SubSeq(s, 1, Len(s) \div 2)) \cap ToSet(SubSeq(s, Len(s) \div 2 + 1, Len(s))) = {}
      BY <2>1, HalvesOnce
    <2>3. l.rows = SubSeq(s, 1, Len(s) \div 2) /\ r.rows = SubSeq(s, Len(s) \div 2 + 1, Len(s))
      BY <1>6 DEF s
    <2>4. b.rows = s
      BY DEF s
    <2> HIDE DEF l, r, b, q
    <2> QED BY <2>2, <2>3, <2>4
  <1>11. ToSet(q) = {l, r}
    <2> HIDE DEF q, b
    <2>1. ToSet(q) = {q[i] : i \in 1 .. 2}
      BY <1>6, ToSetSeq
    <2> QED BY <2>1
  <1>12. /\ ToSet(pending') = {l, r} \cup ToSet(rest)
         /\ Len(pending') = Len(rest) + 2 /\ Len(rest) \in Nat
         /\ \A i \in 1 .. Len(rest) + 2 :
               pending'[i] = IF i <= 2 THEN q[i] ELSE rest[i - 2]
    <2> HIDE DEF q, rest, b
    <2>1. ToSet(q \o rest) = ToSet(q) \cup ToSet(rest)
      BY <1>4, <1>6, ConcatOnce
    <2>2. Len(rest) \in Nat
      BY <1>4, LenProperties
    <2>3. /\ Len(q \o rest) = Len(q) + Len(rest)
          /\ \A i \in 1 .. Len(q) + Len(rest) :
                (q \o rest)[i] = IF i <= Len(q) THEN q[i] ELSE rest[i - Len(q)]
      BY <1>4, <1>6, ConcatProperties
    <2> HIDE DEF l, r
    <2>4. Len(q) + Len(rest) = Len(rest) + 2
      BY <1>6, <2>2, SMT
    <2> QED BY <1>1, <1>6, <1>11, <2>1, <2>2, <2>3, <2>4
  <1>13. Batches' = sent \cup ToSet(rest) \cup {l, r}
    BY <1>1, <1>3, <1>12 DEF Batches, Queued
  <1> HIDE DEF q, l, r, rest, b
  <1>14. b \notin sent
    BY <1>1 DEF UniqueInv, BatchOnce
  <1>15. ASSUME NEW c \in sent \cup ToSet(rest)
         PROVE  /\ c.id # b.id /\ ToSet(c.rows) \cap ToSet(b.rows) = {}
                /\ c.id # nextId /\ c \in Batches
    <2>1. c # b /\ c \in Batches
      BY <1>5, <1>8, <1>14
    <2>2. Same(c, b) /\ Sealed(c) /\ c.id \in Nat
      BY <1>7, <1>8, <2>1
    <2>3. c.id # nextId
      BY <1>3, <2>2, SMT DEF Sealed
    <2> QED BY <2>1, <2>2, <2>3 DEF Same
  <1>16. b.id # nextId
    BY <1>3, <1>4, <1>9, SMT DEF Sealed
  <1>17. l.id # r.id
    BY <1>6, <1>16
  <1>18. ASSUME NEW c \in Batches', NEW d \in Batches' PROVE Same(c, d)
    <2>1. CASE c \in sent \cup ToSet(rest) /\ d \in sent \cup ToSet(rest)
      BY <1>7, <1>8, <2>1
    <2>2. CASE c \in sent \cup ToSet(rest) /\ d \in {l, r}
      BY <1>6, <1>10, <1>15, <2>2 DEF Same
    <2>3. CASE c \in {l, r} /\ d \in sent \cup ToSet(rest)
      BY <1>6, <1>10, <1>15, <2>3 DEF Same
    <2>4. CASE c \in {l, r} /\ d \in {l, r}
      BY <1>10, <1>17, <2>4 DEF Same
    <2> QED BY <1>13, <2>1, <2>2, <2>3, <2>4
  <1>19. ASSUME NEW c \in Batches' PROVE Sealed(c)'
    <2>1. CASE c \in sent \cup ToSet(rest)
      <3>1. Sealed(c) /\ c.id \in Nat
        BY <1>7, <1>8, <2>1
      <3>2. c.id < nextId'
        BY <1>1, <1>3, <3>1, SMT DEF Sealed
      <3>3. ToSet(c.rows) \cap Loose' = {} /\ Injective(c.rows)
        BY <1>2, <3>1 DEF Sealed
      <3>4. \A x \in ToSet(c.rows) : call'[x] \in {"sent", "counted", "ok"}
        BY <1>1, <3>1 DEF Sealed
      <3> QED BY <3>2, <3>3, <3>4 DEF Sealed
    <2>2. CASE c \in {l, r}
      <3>1. /\ Injective(c.rows) /\ ToSet(c.rows) \subseteq ToSet(b.rows)
            /\ c.id \in {b.id, nextId}
        BY <1>6, <1>10, <2>2
      <3>2. c.id < nextId'
        BY <1>1, <1>3, <1>4, <1>9, <3>1, SMT DEF Sealed
      <3>3. ToSet(c.rows) \cap Loose' = {}
        BY <1>2, <1>9, <3>1 DEF Sealed
      <3>4. \A x \in ToSet(c.rows) : call'[x] \in {"sent", "counted", "ok"}
        BY <1>1, <1>9, <3>1 DEF Sealed
      <3> QED BY <3>1, <3>2, <3>3, <3>4 DEF Sealed
    <2> QED BY <1>13, <2>1, <2>2
  <1>20. DistinctIds(pending)'
    <2>1. ASSUME NEW i \in 1 .. Len(rest) + 2, NEW j \in 1 .. Len(rest) + 2,
                 pending'[i].id = pending'[j].id
          PROVE  i = j
      <3>1. /\ \A k \in 1 .. Len(rest) + 2 :
                  \/ k = 1 /\ pending'[k].id = b.id
                  \/ k = 2 /\ pending'[k].id = nextId
                  \/ ~(k <= 2) /\ k - 2 \in 1 .. Len(rest) /\ pending'[k] = rest[k - 2]
        <4>1. \A k \in 1 .. Len(rest) + 2 :
                 k = 1 \/ k = 2 \/ (~(k <= 2) /\ k - 2 \in 1 .. Len(rest))
          BY <1>12, SMT
        <4>2. pending'[1] = l /\ pending'[2] = r
          BY <1>12, SMT DEF l, r
        <4> QED BY <1>6, <1>12, <4>1, <4>2
      <3>2. \A k \in 1 .. Len(rest) : rest[k].id # b.id /\ rest[k].id # nextId
        <4>1. \A k \in 1 .. Len(rest) : rest[k] \in ToSet(rest)
          BY <1>4, ToSetSeq
        <4> QED BY <1>15, <4>1
      <3>3. CASE i <= 2 \/ j <= 2
        BY <1>16, <2>1, <3>1, <3>2, <3>3
      <3>4. CASE ~(i <= 2) /\ ~(j <= 2)
        <4>1. /\ i - 2 \in 1 .. Len(rest) /\ j - 2 \in 1 .. Len(rest)
              /\ rest[i - 2].id = rest[j - 2].id
          BY <1>12, <2>1, <3>1, <3>4
        <4>2. i - 2 = j - 2
          BY <1>5, <4>1 DEF DistinctIds
        <4> QED BY <4>2, SMT
      <3> QED BY <3>3, <3>4
    <2> QED BY <1>12, <2>1 DEF DistinctIds
  <1>21. BatchOnce'
    BY <1>1, <1>18, <1>19, <1>20 DEF BatchOnce, UniqueInv, Oversize, DistinctIds
  <1> QED BY <1>2, <1>21 DEF UniqueInv

-----------------------------------------------------------------------------
(* The invariant                                                           *)

\* What the loop does besides moving and sealing rows.
LEMMA LoopOnce ==
  ASSUME UniqueInv, TypeInv', SelectLoop \/ TakeIn \/ Drain \/ Exit PROVE UniqueInv'
  <1>1. phase \notin {"pass", "send"} /\ UNCHANGED <<sent, call>>
    BY DEF SelectLoop, TakeIn, Uncount, Ingest, Drain, Exit, TakeCtrl, HandleGone, TakeRow, Tick,
           SizeTrigger, PullRow, PullDone, DrainToCompletion, sinkVars, callVars
  <1>2. pending = << >> /\ CallGrows
    BY <1>1 DEF UniqueInv, BatchOnce, CallGrows
  <1>3. CASE TakeRow \/ PullRow
    <2>1. chan # << >> /\ Pop /\ UNCHANGED <<staging, pending, retry, nextId>>
      BY <1>3 DEF TakeRow, PullRow
    <2> QED BY <1>1, <1>2, <2>1, PopOnce
  <1>4. CASE BeginPass /\ UNCHANGED <<held, chan>>
    BY <1>1, <1>4, BeginOnce
  <1>5. CASE /\ UNCHANGED <<staging, held, chan, pending, retry, nextId>>
             /\ phase' \notin {"pass", "send"}
    BY <1>1, <1>2, <1>5, StillOnce
  <1>6. TakeCtrl \/ HandleGone \/ Uncount \/ Exit =>
          /\ UNCHANGED <<staging, held, chan, pending, retry, nextId>>
          /\ phase' \notin {"pass", "send"}
    BY DEF TakeCtrl, HandleGone, Uncount, Exit
  <1>7. Tick => BeginPass /\ UNCHANGED <<held, chan>>
    BY DEF Tick
  <1>8. SizeTrigger \/ PullDone \/ DrainToCompletion =>
          \/ BeginPass /\ UNCHANGED <<held, chan>>
          \/ /\ UNCHANGED <<staging, held, chan, pending, retry, nextId>>
             /\ phase' \notin {"pass", "send"}
    BY DEF SizeTrigger, PullDone, DrainToCompletion, Finish
  <1>9. CASE Ingest
    <2>1. CASE BeginPass /\ UNCHANGED held
      BY <1>4, <1>9, <2>1 DEF Ingest
    <2>2. CASE /\ staging' = staging \o held /\ held' = << >> /\ phase' = AfterIngest
               /\ UNCHANGED <<pending, retry, outcome, nextId>>
      <3>1. chan' = chan /\ phase' \notin {"pass", "send"}
        BY <1>9, <2>2 DEF Ingest, AfterIngest
      <3> QED BY <1>1, <1>2, <2>2, <3>1, LandOnce
    <2> QED BY <1>9, <2>1, <2>2 DEF Ingest
  <1> QED BY <1>3, <1>4, <1>5, <1>6, <1>7, <1>8, <1>9 DEF SelectLoop, TakeIn, Drain

\* Every row is in one place and every batch under one id, initially.
LEMMA InitOnce == Init => UniqueInv
  <1> SUFFICES ASSUME Init PROVE UniqueInv
    OBVIOUS
  <1>1. TypeInv
    BY InitType
  <1>2. /\ staging = << >> /\ held = << >> /\ chan = << >> /\ sent = {}
        /\ pending = << >> /\ retry = << >> /\ phase = "select"
    BY DEF Init
  <1>3. ToSet(<< >>) = {} /\ Injective(<< >>) /\ DistinctIds(<< >>)
    BY EmptySeq, SMT DEF ToSet, Injective, DistinctIds
  <1>4. LooseOnce
    BY <1>2, <1>3 DEF LooseOnce, Loose
  <1>5. BatchOnce
    BY <1>2, <1>3 DEF BatchOnce, Batches, Queued
  <1> QED BY <1>1, <1>4, <1>5 DEF UniqueInv

\* Every step keeps them so.
LEMMA UniqueInvStep == UniqueInv /\ [Next]_vars => UniqueInv'
  <1> SUFFICES ASSUME UniqueInv, [Next]_vars PROVE UniqueInv'
    OBVIOUS
  <1>1. TypeInv'
    BY TypeInvStep DEF UniqueInv
  <1>2. CASE \E r \in Rows : Caller(r)
    BY <1>1, <1>2, CallerOnce
  <1>3. CASE Task
    BY <1>1, <1>3, LoopOnce, PassEndsOnce, SendOnce, SplitOnce, ReturnOnce
       DEF Task, SealAndSend
  <1>4. CASE \/ \E c \in Controllers : Request(c)
             \/ DropHandle
             \/ \E b \in sent : ServerStores(b)
             \/ UNCHANGED vars
    BY <1>1, <1>4, OthersOnce
  <1> QED BY <1>2, <1>3, <1>4 DEF Next

\* Two requests that share a batch id or a row are the same request, however
\* often a send fails, is retried or times out and whatever is split: the
\* server's deduplication by id neither loses a row nor stores one twice.
THEOREM RequestsUnique == Spec => []OneRequestPerBatch
  <1>1. UniqueInv => OneRequestPerBatch
    BY DEF UniqueInv, BatchOnce, Batches, Same, OneRequestPerBatch
  <1> QED BY InitOnce, UniqueInvStep, <1>1, PTL DEF Spec
=============================================================================
