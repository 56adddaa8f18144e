----------------------- MODULE ProducerDeliveryProofs -----------------------
(***************************************************************************)
(* Proofs about what becomes of the rows the write buffer has accepted,    *)
(* for every number of calls, every capacity and every behaviour of the    *)
(* sink: an answer of Ok means the rows are delivered, the counters tell   *)
(* the truth, a row in hand is never dropped for want of room, every step  *)
(* keeps the ledger of rows (RowLedger), and no row is lost, stored twice  *)
(* or out of order (Conservation).                                         *)
(***************************************************************************)
EXTENDS ProducerProofs, FunctionTheorems, FiniteSetTheorems, Inductions

USE ConfigAssumption, CallAssumption DEF ConfigAssumption, CallAssumption

-----------------------------------------------------------------------------
(***************************************************************************)
(* Where the task stands.  A pass seals all of staging and nothing stages  *)
(* a row before it has returned; a row is in hand from the channel to its  *)
(* place in staging, and over the pass that makes room for it.             *)
(***************************************************************************)
InPass == phase \in {"pass", "send", "return"}

Holding == phase \in {"popped", "counted"}

StageInv == /\ InPass => staging = << >>
            /\ held # << >> => InPass \/ Holding
            /\ Holding => held # << >>
            /\ phase = "landed" => job = "row"
            /\ phase = "return" /\ outcome.ok => retry = << >>

\* Only the task moves these.
LEMMA StageStep ==
  ASSUME UniqueInv, StageInv, [Next]_vars PROVE StageInv'
  <1>1. CASE UNCHANGED <<staging, phase, held, job, outcome, retry>>
    BY <1>1 DEF StageInv, InPass, Holding
  <1>2. CASE Task
    <2>1. (InPass => staging = << >>)'
      BY <1>2 DEF Task, SelectLoop, TakeIn, Drain, SealAndSend, Return,
         TakeCtrl, HandleGone, TakeRow, Pop, Uncount, Ingest, AfterIngest,
         Tick, SizeTrigger, PullRow, PullDone, DrainToCompletion, DropChunk,
         SplitChunk, Send, SendOk, SendFails, PassDone, ReturnToIngest,
         ReturnToLoop, ReturnToDrain, Exit, BeginPass, Fail, Finish, StageInv,
         InPass, Holding
    <2>2. (held # << >> => InPass \/ Holding)'
      BY <1>2 DEF Task, SelectLoop, TakeIn, Drain, SealAndSend, Return,
         TakeCtrl, HandleGone, TakeRow, Pop, Uncount, Ingest, AfterIngest,
         Tick, SizeTrigger, PullRow, PullDone, DrainToCompletion, DropChunk,
         SplitChunk, Send, SendOk, SendFails, PassDone, ReturnToIngest,
         ReturnToLoop, ReturnToDrain, Exit, BeginPass, Fail, Finish, StageInv,
         InPass, Holding
    <2>3. (Holding => held # << >>)'
      <3>1. CASE Pop
        BY <3>1 DEF Pop
      <3>2. CASE Uncount
        BY <3>2 DEF Uncount, StageInv, Holding
      <3>3. CASE ~ Pop /\ ~ Uncount
        <4>1. phase' \notin {"popped", "counted"}
          BY <1>2, <3>3 DEF Task, SelectLoop, TakeIn, Drain, SealAndSend,
             Return, TakeCtrl, HandleGone, TakeRow, Ingest, AfterIngest, Tick,
             SizeTrigger, PullRow, PullDone, DrainToCompletion, DropChunk,
             SplitChunk, Send, SendOk, SendFails, PassDone, ReturnToIngest,
             ReturnToLoop, ReturnToDrain, Exit, BeginPass, Fail, Finish
        <4> QED BY <4>1 DEF Holding
      <3> QED BY <3>1, <3>2, <3>3
    <2>4. (phase = "landed" => job = "row")'
      BY <1>2 DEF Task, SelectLoop, TakeIn, Drain, SealAndSend, Return,
         TakeCtrl, HandleGone, TakeRow, Pop, Uncount, Ingest, AfterIngest,
         Tick, SizeTrigger, PullRow, PullDone, DrainToCompletion, DropChunk,
         SplitChunk, Send, SendOk, SendFails, PassDone, ReturnToIngest,
         ReturnToLoop, ReturnToDrain, Exit, BeginPass, Fail, Finish, StageInv,
         InPass, Holding
    <2>5. (phase = "return" /\ outcome.ok => retry = << >>)'
      <3>1. outcome \in [ok : BOOLEAN, ids : SUBSET Nat]
        BY DEF UniqueInv, TypeInv, TypeOK, Outcome
      <3>2. phase \in {"pass", "send"} => retry = << >>
        BY DEF UniqueInv, BatchOnce
      <3> QED
        BY <1>2, <3>1, <3>2 DEF Task, SelectLoop, TakeIn, Drain, SealAndSend,
           Return, TakeCtrl, HandleGone, TakeRow, Pop, Uncount, Ingest,
           AfterIngest, Tick, SizeTrigger, PullRow, PullDone,
           DrainToCompletion, DropChunk, SplitChunk, Send, SendOk, SendFails,
           PassDone, ReturnToIngest, ReturnToLoop, ReturnToDrain, Exit,
           BeginPass, Fail, Finish
    <2> QED BY <2>1, <2>2, <2>3, <2>4, <2>5 DEF StageInv
  <1>3. CASE ~ Task
    <2>1. UNCHANGED <<staging, phase, held, job, outcome, retry>>
      BY <1>3 DEF Next, Caller, Enqueue, TrySend, CountAccepted, CountDepth,
         Request, DropHandle, ServerStores, vars, taskVars
    <2> QED BY <1>1, <2>1
  <1> QED BY <1>2, <1>3

\* Initially the task waits and every buffer is empty.
LEMMA StageInit == Init => StageInv
  BY DEF Init, StageInv, InPass, Holding

\* The drop branch of ingest is dead, whatever fails in the pass before it.
THEOREM HeldRowLandsAlways == Spec => []HeldRowLands
  <1>1. StageInv => HeldRowLands
    BY DEF StageInv, InPass, HeldRowLands
  <1> QED BY InitOnce, UniqueInvStep, StageInit, StageStep, <1>1, PTL DEF Spec

-----------------------------------------------------------------------------
(***************************************************************************)
(* Where the accepted rows are.  A row is kept when it is stored, counted  *)
(* as dropped, staged or sealed; the others are in hand or in the channel. *)
(* No step takes a row out of the kept ones.                               *)
(***************************************************************************)
Kept == StoredRows \cup discarded \cup ToSet(staging) \cup QueuedRows

StoreInv ==
  /\ ToSet(stored) \subseteq sent
  /\ outcome.ids \subseteq StoredIds
  /\ \A c \in Controllers : /\ reported[c] \subseteq StoredIds
                            /\ due[c] \subseteq ToSet(admitted)

\* The rows and the ids at the server are those of the batches it stored.
LEMMA StoredTells ==
  /\ StoredIds = {b.id : b \in ToSet(stored)}
  /\ StoredRows = UNION {ToSet(b.rows) : b \in ToSet(stored)}
  BY DEF StoredIds, StoredRows, ToSet

\* The server forgets nothing, and what it stores has been sent.
LEMMA StoredGrows ==
  ASSUME UniqueInv, StoreInv, [Next]_vars
  PROVE  /\ ToSet(stored) \subseteq ToSet(stored') /\ ToSet(stored') \subseteq sent'
         /\ StoredIds \subseteq StoredIds' /\ StoredRows \subseteq StoredRows'
  <1>1. CASE UNCHANGED <<stored, sent>>
    BY <1>1 DEF StoreInv, StoredIds, StoredRows
  <1>2. ASSUME NEW b \in sent, ServerStores(b)
        PROVE  ToSet(stored') = ToSet(stored) \cup {b} /\ sent' = sent
    <2>1. stored \in Seq(Batch) /\ b \in Batch
      BY <1>2 DEF UniqueInv, TypeInv, TypeOK
    <2> QED BY <1>2, <2>1, AppendOnce DEF ServerStores
  <1>3. CASE Send
    BY <1>3 DEF Send, StoreInv, StoredIds, StoredRows
  <1>4. UNCHANGED <<stored, sent>> \/ Send \/ \E b \in sent : ServerStores(b)
    BY DEF Next, Caller, Enqueue, TrySend, CountAccepted, CountDepth, Request,
       DropHandle, Task, SelectLoop, TakeIn, Drain, SealAndSend, Return,
       TakeCtrl, HandleGone, TakeRow, Pop, Uncount, Ingest, AfterIngest, Tick,
       SizeTrigger, PullRow, PullDone, DrainToCompletion, DropChunk,
       SplitChunk, SendOk, SendFails, PassDone, ReturnToIngest, ReturnToLoop,
       ReturnToDrain, Exit, vars, sinkVars
  <1>5. CASE \E b \in sent : ServerStores(b)
    <2>1. /\ ToSet(stored) \subseteq ToSet(stored') /\ ToSet(stored') \subseteq sent'
      BY <1>2, <1>5 DEF StoreInv
    <2>2. /\ StoredIds' = {b.id : b \in ToSet(stored')}
          /\ StoredRows' = UNION {ToSet(b.rows) : b \in ToSet(stored')}
      BY DEF StoredIds, StoredRows, ToSet
    <2> QED BY <2>1, <2>2, StoredTells
  <1> QED BY <1>1, <1>3, <1>4, <1>5

\* Multiples of the chunk size that are apart by one are apart by the size.
LEMMA Multiples ==
  ASSUME NEW i \in Nat, NEW j \in Nat, i < j
  PROVE  /\ i * FlushMaxRows \in Nat /\ j * FlushMaxRows \in Nat
         /\ i * FlushMaxRows + FlushMaxRows <= j * FlushMaxRows
  <1>1. PICK d \in Nat : j = i + 1 + d
    <2>1. j - i - 1 \in Nat /\ j = i + 1 + (j - i - 1)
      BY SMT
    <2> QED BY <2>1
  <1>2. j * FlushMaxRows = i * FlushMaxRows + FlushMaxRows + d * FlushMaxRows
    BY <1>1, SMT
  <1>3. i * FlushMaxRows \in Nat /\ d * FlushMaxRows \in Nat
    BY SMT
  <1> QED BY <1>2, <1>3, SMT

\* The chunk a position falls into.
LEMMA ChunkOf ==
  ASSUME NEW n \in Nat, NEW k \in 1 .. n
  PROVE  \E i \in 1 .. ChunkCount(n) : k \in From(i) .. Upto(i, n)
  <1>1. PICK i \in Nat : i = (k + FlushMaxRows - 1) \div FlushMaxRows
    BY SMT
  <1>2. /\ i * FlushMaxRows <= k + FlushMaxRows - 1
        /\ k <= i * FlushMaxRows
    BY <1>1, SMT
  <1>3. PICK m \in Nat : m = ChunkCount(n)
    BY ChunkCountNat
  <1>4. n <= m * FlushMaxRows
    BY <1>3, SMT DEF ChunkCount
  <1>5. i >= 1
    <2> SUFFICES ASSUME i = 0 PROVE FALSE
      BY SMT
    <2>1. i * FlushMaxRows = 0
      BY SMT
    <2> QED BY <1>2, <2>1, SMT
  <1>6. i <= m
    <2> SUFFICES ASSUME m < i PROVE FALSE
      BY SMT
    <2>1. /\ m * FlushMaxRows \in Nat /\ i * FlushMaxRows \in Nat
          /\ m * FlushMaxRows + FlushMaxRows <= i * FlushMaxRows
      BY Multiples
    <2> QED BY <1>2, <1>4, <2>1, SMT
  <1>7. k \in From(i) .. Upto(i, n)
    <2>1. i * FlushMaxRows \in Int
      BY SMT
    <2> QED BY <1>2, <2>1, SMT DEF From, Upto
  <1> QED BY <1>3, <1>5, <1>6, <1>7, SMT

\* The rows of a sealed staging buffer are those of its chunks.
LEMMA ChunksCover ==
  ASSUME NEW s \in Seq(Rows), NEW base \in Nat
  PROVE  \A r \in ToSet(s) : \E b \in ToSet(Chunks(s, base)) : r \in ToSet(b.rows)
  <1> DEFINE q == Chunks(s, base)
             n == Len(s)
  <1>1. /\ n \in Nat /\ ChunkCount(n) \in Nat /\ q \in Seq(Batch)
        /\ Len(q) = ChunkCount(n)
        /\ \A i \in 1 .. ChunkCount(n) :
              q[i] = [id |-> base + i - 1, rows |-> SubSeq(s, From(i), Upto(i, n))]
    BY ChunksType, LenProperties, ChunkCountNat
  <1>2. /\ ToSet(s) = {s[k] : k \in 1 .. n}
        /\ \A i \in 1 .. Len(q) : q[i] \in ToSet(q)
    BY <1>1, ToSetSeq
  <1> HIDE DEF q, n
  <1>3. ASSUME NEW k \in 1 .. n
        PROVE  \E i \in 1 .. ChunkCount(n) : k \in From(i) .. Upto(i, n)
    BY <1>1, <1>3, ChunkOf
  <1>4. ASSUME NEW i \in 1 .. ChunkCount(n)
        PROVE  ToSet(q[i].rows) = {s[k] : k \in From(i) .. Upto(i, n)}
    <2>1. From(i) \in 1 .. n /\ Upto(i, n) \in From(i) .. n
      BY <1>1, ChunkBounds
    <2>2. From(i) \in 1 .. n + 1 /\ Upto(i, n) \in 0 .. n
      BY <1>1, <2>1, SMT
    <2>3. ToSet(SubSeq(s, From(i), Upto(i, n))) = {s[k] : k \in From(i) .. Upto(i, n)}
      BY <2>2, RunOnce DEF n
    <2> DEFINE x == base + i - 1
               y == SubSeq(s, From(i), Upto(i, n))
               b == q[i]
    <2>4. b = [id |-> x, rows |-> y]
      BY <1>1
    <2> HIDE DEF x, y, b
    <2>5. b.rows = y
      BY <2>4, Fields
    <2> USE DEF x, y, b
    <2> QED BY <2>3, <2>5
  <1>5. ASSUME NEW r \in ToSet(s) PROVE \E b \in ToSet(q) : r \in ToSet(b.rows)
    <2>1. PICK k \in 1 .. n : r = s[k]
      BY <1>2
    <2>2. PICK i \in 1 .. ChunkCount(n) : k \in From(i) .. Upto(i, n)
      BY <1>3
    <2>3. r \in ToSet(q[i].rows)
      BY <1>4, <2>1, <2>2
    <2>4. q[i] \in ToSet(q)
      BY <1>1, <1>2
    <2> QED BY <2>3, <2>4
  <1> QED BY <1>5 DEF q

\* Cutting a sequence in the middle loses nothing and invents nothing.
LEMMA HalvesTogether ==
  ASSUME NEW s \in Seq(Rows)
  PROVE  ToSet(s) = ToSet(SubSeq(s, 1, Len(s) \div 2))
                    \cup ToSet(SubSeq(s, Len(s) \div 2 + 1, Len(s)))
  <1>1. Len(s) \in Nat
    BY LenProperties
  <1>2. PICK mid \in 0 .. Len(s) : mid = Len(s) \div 2
    BY HalfSeqs
  <1>3. mid + 1 \in 1 .. Len(s) + 1 /\ 1 \in 1 .. Len(s) + 1 /\ Len(s) \in 0 .. Len(s)
    BY <1>1, SMT
  <1>4. ToSet(SubSeq(s, 1, mid)) = {s[i] : i \in 1 .. mid}
    BY <1>3, RunOnce
  <1>5. ToSet(SubSeq(s, mid + 1, Len(s))) = {s[i] : i \in mid + 1 .. Len(s)}
    <2>1. PICK a \in 1 .. Len(s) + 1 : a = mid + 1
      BY <1>3
    <2>2. PICK z \in 0 .. Len(s) : z = Len(s)
      BY <1>3
    <2>3. ToSet(SubSeq(s, a, z)) = {s[i] : i \in a .. z}
      BY RunOnce
    <2> QED BY <2>1, <2>2, <2>3
  <1>6. ToSet(s) = {s[i] : i \in 1 .. Len(s)}
    BY ToSetSeq
  <1>7. 1 .. Len(s) = (1 .. mid) \cup (mid + 1 .. Len(s))
    BY <1>1, SMT
  <1>8. {s[i] : i \in 1 .. Len(s)} = {s[i] : i \in 1 .. mid} \cup {s[i] : i \in mid + 1 .. Len(s)}
    BY <1>7
  <1> QED BY <1>2, <1>4, <1>5, <1>6, <1>8

\* The halves of a chunk have its rows and no other.
LEMMA HalvesCover ==
  ASSUME NEW b \in Batch, NEW fresh \in Nat
  PROVE  /\ \A r \in ToSet(b.rows) : \E h \in ToSet(Halves(b, fresh)) : r \in ToSet(h.rows)
         /\ \A h \in ToSet(Halves(b, fresh)) : ToSet(h.rows) \subseteq ToSet(b.rows)
  <1> DEFINE q == Halves(b, fresh)
             s == b.rows
             l == q[1]
             h == q[2]
             x == SubSeq(s, 1, Len(s) \div 2)
             y == SubSeq(s, Len(s) \div 2 + 1, Len(s))
             u == b.id
  <1>1. s \in Seq(Rows) /\ Len(s) \in Nat
    BY LenProperties DEF Batch
  <1>2. /\ q \in Seq(Batch) /\ Len(q) = 2
        /\ l = [id |-> u, rows |-> x] /\ h = [id |-> fresh, rows |-> y]
    BY HalvesType
  <1> HIDE DEF u, x, y, l, h
  <1>3. l.rows = x /\ h.rows = y
    BY <1>2, Fields
  <1>4. ToSet(q) = {l, h}
    <2> HIDE DEF q
    <2>1. ToSet(q) = {q[i] : i \in 1 .. 2}
      BY <1>2, ToSetSeq
    <2> QED BY <2>1 DEF l, h
  <1> HIDE DEF q, s
  <1>5. ToSet(s) = ToSet(l.rows) \cup ToSet(h.rows)
    <2>1. ToSet(s) = ToSet(x) \cup ToSet(y)
      BY <1>1, HalvesTogether DEF x, y
    <2> QED BY <1>3, <2>1
  <1> QED BY <1>4, <1>5 DEF q, s

\* Sealing moves the staged rows into batches and keeps those of the queues.
LEMMA BeginKeeps ==
  ASSUME UniqueInv, BeginPass, phase \notin {"pass", "send"}
  PROVE  QueuedRows \subseteq QueuedRows' /\ ToSet(staging) \subseteq QueuedRows'
  <1> DEFINE q == Chunks(staging, nextId)
  <1>1. /\ staging \in Seq(Rows) /\ nextId \in Nat /\ retry \in Seq(Batch)
        /\ pending = << >> /\ ToSet(<< >>) = {}
    BY DEF UniqueInv, TypeInv, TypeOK, BatchOnce, ToSet
  <1>2. q \in Seq(Batch) /\ pending' = retry \o q
    BY <1>1, ChunksType DEF BeginPass
  <1>3. \A r \in ToSet(staging) : \E b \in ToSet(q) : r \in ToSet(b.rows)
    BY <1>1, ChunksCover
  <1> HIDE DEF q
  <1>4. ToSet(pending') = ToSet(retry) \cup ToSet(q)
    BY <1>1, <1>2, ConcatOnce
  <1>5. Queued = ToSet(retry) /\ ToSet(retry) \cup ToSet(q) \subseteq Queued'
    BY <1>1, <1>4 DEF Queued
  <1> QED BY <1>3, <1>5 DEF QueuedRows

\* A row leaves the queues of a pass only into the store or the drop counter.
LEMMA SealKeeps ==
  ASSUME UniqueInv, StoreInv, SealAndSend
  PROVE  QueuedRows \subseteq QueuedRows' \cup StoredRows' \cup discarded'
  <1>1. /\ pending \in Seq(Batch) /\ nextId \in Nat
        /\ phase \in {"pass", "send"} /\ retry = << >> /\ ToSet(<< >>) = {}
        /\ phase = "send" => pending # << >>
    <2>1. phase \in {"pass", "send"}
      BY DEF SealAndSend, DropChunk, SplitChunk, Send, SendOk, SendFails, PassDone
    <2>2. ToSet(<< >>) = {}
      BY DEF ToSet
    <2> QED BY <2>1, <2>2 DEF UniqueInv, TypeInv, TypeOK, BatchOnce
  <1>2. pending # << >> => /\ ToSet(pending) = {Head(pending)} \cup ToSet(Tail(pending))
                           /\ Head(pending) \in Batch /\ Tail(pending) \in Seq(Batch)
    BY <1>1, TailOnce, SeqOps
  <1>3. Queued = ToSet(pending)
    BY <1>1 DEF Queued
  <1>4. CASE PassDone \/ Send
    BY <1>4 DEF PassDone, Send, QueuedRows, Queued
  <1>5. CASE SendFails
    <2>1. Queued' = Queued
      BY <1>1, <1>5 DEF SendFails, Fail, Queued
    <2> QED BY <2>1 DEF QueuedRows
  <1>6. CASE DropChunk
    <2>1. /\ Queued' = ToSet(Tail(pending)) /\ pending # << >>
          /\ ToSet(Head(pending).rows) \subseteq discarded'
      BY <1>1, <1>6 DEF DropChunk, Fail, Queued
    <2> QED BY <1>2, <1>3, <2>1 DEF QueuedRows
  <1>7. CASE SplitChunk
    <2> DEFINE b == Head(pending)
               q == Halves(b, nextId)
    <2>1. pending # << >> /\ pending' = q \o Tail(pending)
      BY <1>7 DEF SplitChunk
    <2>2. /\ q \in Seq(Batch)
          /\ \A r \in ToSet(b.rows) : \E h \in ToSet(q) : r \in ToSet(h.rows)
      BY <1>1, <1>2, <2>1, HalvesType, HalvesCover
    <2>3. ToSet(pending) = {b} \cup ToSet(Tail(pending))
      BY <1>2, <2>1
    <2> HIDE DEF q, b
    <2>4. ToSet(pending') = ToSet(q) \cup ToSet(Tail(pending))
      <3> DEFINE rest == Tail(pending)
      <3>1. rest \in Seq(Batch) /\ q \in Seq(Batch)
        BY <1>2, <2>1, <2>2
      <3>2. pending' = q \o rest
        BY <2>1
      <3> HIDE DEF rest
      <3>3. ToSet(q \o rest) = ToSet(q) \cup ToSet(rest)
        BY <3>1, ConcatOnce
      <3> QED BY <3>2, <3>3 DEF rest
    <2> QED BY <1>3, <2>2, <2>3, <2>4 DEF QueuedRows, Queued
  <1>8. CASE SendOk
    <2> DEFINE b == Head(pending)
    <2>1. /\ pending # << >> /\ pending' = Tail(pending)
          /\ b.id \in StoredIds /\ stored' = stored
      BY <1>1, <1>8 DEF SendOk, sinkVars
    <2>2. b \in Batches /\ ToSet(stored) \subseteq Batches
      BY <1>2, <1>3, <2>1 DEF Batches, StoreInv
    <2>3. PICK d \in ToSet(stored) : d.id = b.id
      BY <2>1, StoredTells
    <2>4. d = b
      BY <2>2, <2>3 DEF UniqueInv, BatchOnce, Same
    <2>5. ToSet(b.rows) \subseteq StoredRows /\ StoredRows' = StoredRows
      BY <2>1, <2>3, <2>4, StoredTells DEF StoredRows
    <2>6. ToSet(Tail(pending)) \subseteq Queued'
      BY <2>1 DEF Queued
    <2> QED BY <1>2, <1>3, <2>1, <2>5, <2>6 DEF QueuedRows
  <1> QED BY <1>4, <1>5, <1>6, <1>7, <1>8 DEF SealAndSend

\* The rows that are in hand or in the channel.
Outside == ToSet(held) \cup ToSet(chan)

\* Popping a row takes it from the channel into the hand.
LEMMA PopKeeps ==
  ASSUME UniqueInv, Pop, chan # << >>, held = << >> PROVE Outside' = Outside
  <1>1. chan \in Seq(Rows) /\ ToSet(held) = {}
    BY DEF UniqueInv, TypeInv, TypeOK, ToSet
  <1>2. ToSet(chan) = {Head(chan)} \cup ToSet(Tail(chan))
    BY <1>1, TailOnce
  <1>3. chan' = Tail(chan) /\ ToSet(held') = {Head(chan)}
    BY DEF Pop, ToSet
  <1> QED BY <1>1, <1>2, <1>3 DEF Outside

\* Every row that is kept stays kept, and every row outside is kept or outside
\* after a step of the task.
LEMMA TaskKeeps ==
  ASSUME UniqueInv, StageInv, StoreInv, Task
  PROVE  /\ Kept \subseteq Kept' /\ admitted' = admitted
         /\ Outside \subseteq Kept' \cup Outside'
  <1>1. admitted' = admitted /\ stored' = stored /\ StoredRows' = StoredRows
    BY DEF Task, SelectLoop, TakeIn, Drain, SealAndSend, Return, TakeCtrl,
       HandleGone, TakeRow, Pop, Uncount, Ingest, AfterIngest, Tick,
       SizeTrigger, PullRow, PullDone, DrainToCompletion, DropChunk,
       SplitChunk, Send, SendOk, SendFails, PassDone, ReturnToIngest,
       ReturnToLoop, ReturnToDrain, Exit, sinkVars, StoredRows
  <1>2. CASE UNCHANGED <<staging, pending, retry, discarded, held, chan>>
    BY <1>1, <1>2 DEF Kept, QueuedRows, Queued, Outside
  <1>3. CASE SealAndSend
    <2>1. /\ UNCHANGED <<staging, held, chan>> /\ discarded \subseteq discarded'
      BY <1>3 DEF SealAndSend, DropChunk, SplitChunk, Send, SendOk, SendFails, PassDone
    <2>2. QueuedRows \subseteq QueuedRows' \cup StoredRows' \cup discarded'
      BY <1>3, SealKeeps
    <2> QED BY <1>1, <2>1, <2>2 DEF Kept, Outside
  <1>4. CASE TakeRow \/ PullRow
    <2>1. /\ UNCHANGED <<discarded, staging, pending, retry>>
          /\ Pop /\ chan # << >> /\ phase \in {"select", "pull"}
      BY <1>4 DEF TakeRow, PullRow
    <2>2. held = << >>
      BY <2>1 DEF StageInv, InPass, Holding
    <2>3. Outside' = Outside
      BY <2>1, <2>2, PopKeeps
    <2> QED BY <1>1, <2>1, <2>3 DEF Kept, QueuedRows, Queued
  <1>5. CASE BeginPass /\ UNCHANGED <<discarded, held, chan>> /\ phase \notin {"pass", "send"}
    <2>1. QueuedRows \subseteq QueuedRows' /\ ToSet(staging) \subseteq QueuedRows'
      BY <1>5, BeginKeeps
    <2> QED BY <1>1, <1>5, <2>1 DEF Kept, Outside
  <1>6. CASE /\ UNCHANGED <<pending, retry, chan>> /\ held' = << >>
             /\ \/ staging' = staging \o held /\ discarded' = discarded
                \/ staging' = staging /\ discarded' = discarded \cup ToSet(held)
    <2>1. staging \in Seq(Rows) /\ held \in Seq(Rows)
      BY DEF UniqueInv, TypeInv, TypeOK
    <2>2. ToSet(staging \o held) = ToSet(staging) \cup ToSet(held)
      BY <2>1, ConcatOnce
    <2>3. QueuedRows' = QueuedRows
      BY <1>6 DEF QueuedRows, Queued
    <2>4. ToSet(staging) \cup ToSet(held) \cup discarded \subseteq ToSet(staging') \cup discarded'
      BY <1>6, <2>2
    <2> QED BY <1>1, <1>6, <2>3, <2>4 DEF Kept, Outside
  <1>7. CASE Tick
    BY <1>5, <1>7 DEF Tick
  <1>8. CASE SizeTrigger \/ PullDone \/ DrainToCompletion
    BY <1>2, <1>5, <1>8 DEF SizeTrigger, PullDone, DrainToCompletion
  <1>9. CASE \/ TakeCtrl \/ HandleGone \/ Uncount \/ ReturnToLoop
             \/ ReturnToDrain \/ Exit
    BY <1>2, <1>9 DEF TakeCtrl, HandleGone, Uncount, ReturnToLoop, ReturnToDrain, Exit
  <1>10. CASE Ingest
    BY <1>5, <1>6, <1>10 DEF Ingest
  <1>11. CASE ReturnToIngest
    BY <1>6, <1>11 DEF ReturnToIngest
  <1> QED BY <1>3, <1>4, <1>7, <1>8, <1>9, <1>10, <1>11
      DEF Task, SelectLoop, TakeIn, Drain, Return

\* The kept rows stay kept, whoever takes the step.
LEMMA KeptGrows ==
  ASSUME UniqueInv, StageInv, StoreInv, [Next]_vars
  PROVE  Kept \subseteq Kept'
  <1>1. StoredRows \subseteq StoredRows'
    BY StoredGrows
  <1>2. CASE Task
    BY <1>2, TaskKeeps
  <1>3. CASE ~ Task
    <2>1. UNCHANGED <<staging, pending, retry, discarded>>
      BY <1>3 DEF Next, Caller, Enqueue, TrySend, CountAccepted, CountDepth,
         Request, DropHandle, ServerStores, vars, taskVars
    <2> QED BY <1>1, <2>1 DEF Kept, QueuedRows, Queued
  <1> QED BY <1>2, <1>3

\* Every accepted row is kept, in hand or in the channel.
AllPlaced == ToSet(admitted) \subseteq Kept \cup Outside

LEMMA PlacedStep ==
  ASSUME UniqueInv, StageInv, StoreInv, AllPlaced, [Next]_vars PROVE AllPlaced'
  <1>1. Kept \subseteq Kept'
    BY KeptGrows
  <1>2. CASE Task
    BY <1>1, <1>2, TaskKeeps DEF AllPlaced
  <1>3. CASE UNCHANGED <<held, chan, admitted>>
    BY <1>1, <1>3 DEF AllPlaced, Outside
  <1>4. ASSUME NEW r \in Rows, TrySend(r), ~ UNCHANGED <<held, chan, admitted>>
        PROVE  AllPlaced'
    <2>1. /\ chan \in Seq(Rows) /\ admitted \in Seq(Rows)
      BY DEF UniqueInv, TypeInv, TypeOK
    <2>2. /\ chan' = Append(chan, r) /\ admitted' = Append(admitted, r) /\ held' = held
      BY <1>4 DEF TrySend, taskVars
    <2>3. ToSet(chan') = ToSet(chan) \cup {r} /\ ToSet(admitted') = ToSet(admitted) \cup {r}
      BY <2>1, <2>2, AppendOnce
    <2> QED BY <1>1, <2>2, <2>3 DEF AllPlaced, Outside
  <1>5. ~ Task => UNCHANGED <<held, chan, admitted>> \/ \E r \in Rows : TrySend(r)
    BY DEF Next, Caller, Enqueue, CountAccepted, CountDepth, Request,
       DropHandle, ServerStores, vars, taskVars
  <1> QED BY <1>2, <1>3, <1>4, <1>5

\* What the server has stored covers the ids of a pass and of the replies, and
\* what a call waits for was accepted before.
LEMMA StoreStep ==
  ASSUME UniqueInv, StoreInv, TypeOK', [Next]_vars PROVE StoreInv'
  <1>1. /\ StoredIds \subseteq StoredIds' /\ ToSet(stored') \subseteq sent'
    BY StoredGrows
  <1>2. /\ outcome \in Outcome /\ job \in {"idle", "row", "tick", "closed"} \cup Controllers
        /\ reported \in [Controllers -> SUBSET Nat] /\ due \in [Controllers -> SUBSET Rows]
        /\ pending \in Seq(Batch) /\ admitted \in Seq(Rows)
    BY DEF UniqueInv, TypeInv, TypeOK
  <1>3. outcome'.ids \subseteq StoredIds'
    <2>1. CASE UNCHANGED outcome
      BY <1>1, <2>1 DEF StoreInv
    <2>2. CASE SendOk
      BY <1>1, <1>2, <2>2 DEF SendOk, StoreInv, Outcome
    <2>3. CASE outcome' = [ok |-> TRUE, ids |-> {}]
      BY <2>3
    <2>4. CASE outcome' = [outcome EXCEPT !.ok = FALSE]
      BY <1>1, <1>2, <2>4 DEF StoreInv, Outcome
    <2>5. CASE Task
      BY <2>1, <2>2, <2>3, <2>4, <2>5 DEF Task, SelectLoop, TakeIn, Drain,
         SealAndSend, Return, TakeCtrl, HandleGone, TakeRow, Pop, Uncount,
         Ingest, AfterIngest, Tick, SizeTrigger, PullRow, PullDone,
         DrainToCompletion, DropChunk, SplitChunk, Send, SendFails, PassDone,
         ReturnToIngest, ReturnToLoop, ReturnToDrain, Exit, BeginPass, Fail
    <2>6. CASE ~ Task
      BY <2>1, <2>6 DEF Next, Caller, Enqueue, TrySend, CountAccepted,
         CountDepth, Request, DropHandle, ServerStores, vars, taskVars
    <2> QED BY <2>5, <2>6
  <1>4. ASSUME NEW c \in Controllers PROVE reported'[c] \subseteq StoredIds'
    <2>1. CASE UNCHANGED reported
      BY <1>1, <2>1 DEF StoreInv
    <2>2. CASE ReturnToLoop
      BY <1>1, <1>2, <2>2 DEF ReturnToLoop, Answer, StoreInv
    <2>3. UNCHANGED reported \/ ReturnToLoop
      BY DEF Next, Caller, Enqueue, TrySend, CountAccepted, CountDepth,
         Request, DropHandle, ServerStores, Task, SelectLoop, TakeIn, Drain,
         SealAndSend, Return, TakeCtrl, HandleGone, TakeRow, Pop, Uncount,
         Ingest, AfterIngest, Tick, SizeTrigger, PullRow, PullDone,
         DrainToCompletion, DropChunk, SplitChunk, Send, SendOk, SendFails,
         PassDone, ReturnToIngest, ReturnToDrain, Exit, vars, ctlVars
    <2> QED BY <2>1, <2>2, <2>3
  <1>5. ToSet(admitted) \subseteq ToSet(admitted')
    <2>1. UNCHANGED admitted \/ \E r \in Rows : admitted' = Append(admitted, r)
      BY DEF Next, Caller, Enqueue, TrySend, CountAccepted, CountDepth,
         Request, DropHandle, ServerStores, Task, SelectLoop, TakeIn, Drain,
         SealAndSend, Return, TakeCtrl, HandleGone, TakeRow, Pop, Uncount,
         Ingest, AfterIngest, Tick, SizeTrigger, PullRow, PullDone,
         DrainToCompletion, DropChunk, SplitChunk, Send, SendOk, SendFails,
         PassDone, ReturnToIngest, ReturnToLoop, ReturnToDrain, Exit, vars
    <2>2. \A r \in Rows : ToSet(Append(admitted, r)) = ToSet(admitted) \cup {r}
      BY <1>2, AppendOnce
    <2> QED BY <2>1, <2>2
  <1>6. ASSUME NEW c \in Controllers PROVE due'[c] \subseteq ToSet(admitted')
    <2>1. CASE UNCHANGED due
      BY <1>5, <2>1 DEF StoreInv
    <2>2. CASE TakeCtrl
      BY <1>2, <1>5, <2>2 DEF TakeCtrl, Buffered, StoreInv
    <2>3. UNCHANGED due \/ TakeCtrl
      BY DEF Next, Caller, Enqueue, TrySend, CountAccepted, CountDepth,
         Request, DropHandle, ServerStores, Task, SelectLoop, TakeIn, Drain,
         SealAndSend, Return, HandleGone, TakeRow, Pop, Uncount, Ingest,
         AfterIngest, Tick, SizeTrigger, PullRow, PullDone, DrainToCompletion,
         DropChunk, SplitChunk, Send, SendOk, SendFails, PassDone,
         ReturnToIngest, ReturnToLoop, ReturnToDrain, Exit, vars, ctlVars
    <2> QED BY <2>1, <2>2, <2>3
  <1> QED BY <1>1, <1>3, <1>4, <1>6 DEF StoreInv

-----------------------------------------------------------------------------
(***************************************************************************)
(* The calls of flush and shutdown.  A message waits once in the control   *)
(* channel or is the task's present job, and its caller is waiting; after  *)
(* the drain of the channel all rows the call waits for are kept.          *)
(***************************************************************************)
Working   == job \in Controllers /\ phase \notin {"break", "exit"}
AfterPull == phase = "drain" \/ (InPass /\ held = << >>)

CallInv == /\ Injective(ctrl)
           /\ \A c \in ToSet(ctrl) : ctl[c] = "waiting"
           /\ Working => ctl[job] = "waiting" /\ job \notin ToSet(ctrl)

DueInv == /\ job \in Controllers /\ AfterPull => due[job] \subseteq Kept
          /\ \A c \in Controllers : ctl[c] = "ok" => due[c] \subseteq StoredRows \cup discarded

\* A step that answers nobody and takes no message up.
LEMMA QuietStep ==
  ASSUME [Next]_vars, ~ TakeCtrl, \A c \in Controllers : ~ Request(c),
         ~ ReturnToLoop, ~ DrainToCompletion, ~ ReturnToDrain, ~ Exit
  PROVE  /\ UNCHANGED <<ctl, ctrl, due>>
         /\ job' \in {job, "idle", "row", "tick", "closed"}
         /\ phase' \notin {"break", "exit"} => phase \notin {"break", "exit"}
  <1>1. CASE UNCHANGED vars
    BY <1>1 DEF vars
  <1>2. CASE Task
    BY <1>2 DEF Task, SelectLoop, TakeIn, Drain, SealAndSend, Return,
       HandleGone, TakeRow, Pop, Uncount, Ingest, AfterIngest, Tick,
       SizeTrigger, PullRow, PullDone, DropChunk, SplitChunk, Send, SendOk,
       SendFails, PassDone, ReturnToIngest, BeginPass, Fail, ctlVars
  <1>3. CASE ~ Task /\ ~ UNCHANGED vars
    BY <1>3 DEF Next, Caller, Enqueue, TrySend, CountAccepted, CountDepth,
       DropHandle, ServerStores, ctlVars, taskVars
  <1> QED BY <1>1, <1>2, <1>3

\* Messages are taken up once and answered once.
LEMMA CallStep ==
  ASSUME UniqueInv, CallInv, TypeOK', [Next]_vars PROVE CallInv'
  <1>1. /\ ctrl \in Seq(Controllers) /\ ToSet(ctrl) \subseteq Controllers
        /\ ctl \in [Controllers -> {"idle", "waiting", "ok", "err", "gone"}]
        /\ job \in {"idle", "row", "tick", "closed"} \cup Controllers
        /\ ToSet(<< >>) = {} /\ Injective(<< >>)
    <2>1. ToSet(<< >>) = {} /\ Injective(<< >>)
      BY EmptySeq DEF ToSet, Injective
    <2>2. ctrl \in Seq(Controllers) => ToSet(ctrl) \subseteq Controllers
      BY SeqOps
    <2> QED BY <2>1, <2>2 DEF UniqueInv, TypeInv, TypeOK
  <1>2. CASE UNCHANGED <<ctl, ctrl>> /\ job' \in {job, "idle", "row", "tick", "closed"}
             /\ (phase' \notin {"break", "exit"} => phase \notin {"break", "exit"})
    <2>1. Working' => Working /\ job' = job
      BY <1>2 DEF Working
    <2> QED BY <1>2, <2>1 DEF CallInv, Injective
  <1>3. ASSUME NEW c \in Controllers, Request(c) PROVE CallInv'
    <2>1. UNCHANGED <<job, phase>> /\ ctl[c] = "idle"
      BY <1>3 DEF Request, taskVars
    <2>2. CASE ctl' = [ctl EXCEPT ![c] = "gone"] /\ ctrl' = ctrl
      BY <1>1, <2>1, <2>2 DEF CallInv, Working, Injective
    <2>3. CASE ctl' = [ctl EXCEPT ![c] = "waiting"] /\ ctrl' = Append(ctrl, c)
      <3>1. c \notin ToSet(ctrl)
        BY <2>1 DEF CallInv
      <3>2. ToSet(ctrl') = ToSet(ctrl) \cup {c} /\ Injective(ctrl')
        BY <1>1, <2>3, <3>1, AppendOnce DEF CallInv
      <3>3. \A d \in ToSet(ctrl') : ctl'[d] = "waiting"
        BY <1>1, <2>3, <3>2 DEF CallInv
      <3>4. Working' => ctl'[job'] = "waiting" /\ job' \notin ToSet(ctrl')
        BY <1>1, <2>1, <2>3, <3>2 DEF CallInv, Working
      <3> QED BY <3>2, <3>3, <3>4 DEF CallInv, Injective
    <2> QED BY <1>3, <2>2, <2>3 DEF Request
  <1>4. CASE TakeCtrl
    <2>1. /\ ctrl # << >> /\ job' = Head(ctrl) /\ ctrl' = Tail(ctrl) /\ ctl' = ctl
      BY <1>4 DEF TakeCtrl
    <2>2. /\ ToSet(ctrl) = {job'} \cup ToSet(ctrl')
          /\ Injective(ctrl') /\ job' \notin ToSet(ctrl')
      BY <1>1, <2>1, TailOnce DEF CallInv
    <2> QED BY <2>1, <2>2 DEF CallInv, Injective, Working
  <1>5. CASE ReturnToLoop
    <2>1. /\ ctrl' = ctrl /\ job' = "idle" /\ phase = "return"
          /\ \/ UNCHANGED ctl
             \/ /\ job \in Flushers
                /\ ctl' = [ctl EXCEPT ![job] = IF outcome.ok THEN "ok" ELSE "err"]
      BY <1>5 DEF ReturnToLoop, Answer
    <2>2. ~ Working'
      BY <2>1 DEF Working
    <2>3. \A c \in ToSet(ctrl) : ctl'[c] = ctl[c]
      BY <1>1, <2>1 DEF CallInv, Working, Controllers
    <2> QED BY <2>1, <2>2, <2>3 DEF CallInv, Injective
  <1>6. CASE DrainToCompletion \/ ReturnToDrain
    <2>1. /\ UNCHANGED <<ctrl, job>> /\ phase \in {"drain", "return"}
      BY <1>6 DEF DrainToCompletion, ReturnToDrain
    <2>2. CASE UNCHANGED ctl
      BY <1>2, <2>1, <2>2
    <2>3. CASE ~ UNCHANGED ctl
      <3>1. /\ phase' = "break" /\ job \in Closers
            /\ \E answer \in {"ok", "err"} : ctl' = [ctl EXCEPT ![job] = answer]
        BY <1>6, <2>3 DEF DrainToCompletion, ReturnToDrain, Finish
      <3>2. \A c \in ToSet(ctrl) : ctl'[c] = ctl[c]
        BY <1>1, <2>1, <3>1 DEF CallInv, Working, Controllers
      <3>3. ~ Working'
        BY <3>1 DEF Working
      <3> QED BY <2>1, <3>2, <3>3 DEF CallInv, Injective
    <2> QED BY <2>2, <2>3
  <1>7. CASE Exit
    <2>1. ctrl' = << >> /\ phase' = "exit"
      BY <1>7 DEF Exit
    <2> QED BY <1>1, <2>1 DEF CallInv, Working
  <1> QED BY <1>2, <1>3, <1>4, <1>5, <1>6, <1>7, QuietStep

\* When the drains are over, nothing a call waits for is still buffered.
LEMMA NothingQueued ==
  ASSUME UniqueInv, StageInv, staging = << >>, retry = << >>, phase \notin {"pass", "send"}
  PROVE  Kept = StoredRows \cup discarded
  <1>1. pending = << >> /\ ToSet(<< >>) = {}
    BY DEF UniqueInv, BatchOnce, ToSet
  <1>2. QueuedRows = {}
    BY <1>1 DEF QueuedRows, Queued
  <1> QED BY <1>1, <1>2 DEF Kept

\* Dropped rows stay counted.
LEMMA DiscardedGrows == ASSUME [Next]_vars PROVE discarded \subseteq discarded'
  BY DEF Next, Caller, Enqueue, TrySend, CountAccepted, CountDepth, Request,
     DropHandle, ServerStores, Task, SelectLoop, TakeIn, Drain, SealAndSend,
     Return, TakeCtrl, HandleGone, TakeRow, Pop, Uncount, Ingest, AfterIngest,
     Tick, SizeTrigger, PullRow, PullDone, DrainToCompletion, DropChunk,
     SplitChunk, Send, SendOk, SendFails, PassDone, ReturnToIngest,
     ReturnToLoop, ReturnToDrain, Exit, vars

\* A call is answered Ok only after its rows have left the buffers.
LEMMA DueStep ==
  ASSUME UniqueInv, StageInv, StoreInv, AllPlaced, CallInv, DueInv, TypeOK',
         [Next]_vars
  PROVE  DueInv'
  <1>1. /\ Kept \subseteq Kept' /\ StoredRows \subseteq StoredRows'
        /\ discarded \subseteq discarded'
    BY KeptGrows, StoredGrows, DiscardedGrows
  <1>2. /\ ctl \in [Controllers -> {"idle", "waiting", "ok", "err", "gone"}]
        /\ due \in [Controllers -> SUBSET Rows]
        /\ ctrl \in Seq(Controllers)
        /\ job \in {"idle", "row", "tick", "closed"} \cup Controllers
    BY DEF UniqueInv, TypeInv, TypeOK
  <1>3. ASSUME job' \in Controllers, AfterPull' PROVE due'[job'] \subseteq Kept'
    <2>1. CASE UNCHANGED <<job, due>> /\ AfterPull
      BY <1>1, <1>3, <2>1 DEF DueInv
    <2>2. CASE PullDone
      <3>1. UNCHANGED <<job, due>> /\ chan = << >> /\ held = << >>
        BY <2>2 DEF PullDone, ctlVars, Drained, StageInv, InPass, Holding
      <3>2. Outside = {}
        BY <3>1 DEF Outside, ToSet
      <3> QED BY <1>1, <1>3, <3>1, <3>2 DEF AllPlaced, StoreInv
    <2>3. UNCHANGED due /\ job' = job
      <3>1. CASE UNCHANGED vars
        BY <3>1 DEF vars
      <3>2. CASE Task
        BY <1>3, <3>2 DEF Task, SelectLoop, TakeIn, Drain, SealAndSend, Return,
           TakeCtrl, HandleGone, TakeRow, Pop, Uncount, Ingest, AfterIngest,
           Tick, SizeTrigger, PullRow, PullDone, DrainToCompletion, DropChunk,
           SplitChunk, Send, SendOk, SendFails, PassDone, ReturnToIngest,
           ReturnToLoop, ReturnToDrain, Exit, ctlVars, AfterPull, InPass
      <3>3. CASE ~ Task /\ ~ UNCHANGED vars
        BY <3>3 DEF Next, Caller, Enqueue, TrySend, CountAccepted, CountDepth,
           Request, DropHandle, ServerStores, ctlVars, taskVars
      <3> QED BY <3>1, <3>2, <3>3
    <2>4. AfterPull \/ PullDone
      <3>1. CASE UNCHANGED <<phase, held>>
        BY <1>3, <3>1 DEF AfterPull, InPass
      <3>2. CASE Task
        <4>1. CASE SealAndSend
          <5>1. phase \in {"pass", "send"} /\ held' = held
            BY <4>1 DEF SealAndSend, DropChunk, SplitChunk, Send, SendOk,
               SendFails, PassDone
          <5>2. phase' \in {"pass", "send", "return"}
            BY <4>1 DEF SealAndSend, DropChunk, SplitChunk, Send, SendOk,
               SendFails, PassDone, Fail
          <5> QED BY <1>3, <5>1, <5>2 DEF AfterPull, InPass
        <4>2. CASE TakeRow \/ PullRow \/ Uncount
          BY <1>3, <4>2 DEF TakeRow, PullRow, Pop, Uncount, AfterPull, InPass
        <4>6. CASE Ingest
          <5>1. \/ phase' \in {"landed", "pull"}
                \/ held' = held /\ phase' = "pass"
            BY <4>6 DEF Ingest, AfterIngest, BeginPass
          <5>2. held # << >>
            BY <4>6 DEF Ingest, StageInv, Holding
          <5> QED BY <1>3, <5>1, <5>2 DEF AfterPull, InPass
        <4>3. CASE TakeCtrl \/ HandleGone \/ Tick
          BY <1>2, <1>3, <4>3 DEF TakeCtrl, HandleGone, Tick, AfterPull, InPass
        <4>4. CASE SizeTrigger
          BY <1>3, <2>3, <4>4 DEF SizeTrigger, StageInv, AfterPull, InPass
        <4>5. CASE DrainToCompletion \/ Return \/ Exit
          BY <1>3, <4>5 DEF DrainToCompletion, Return, ReturnToIngest,
             ReturnToLoop, ReturnToDrain, Exit, Finish, AfterIngest, AfterPull, InPass
        <4> QED BY <3>2, <4>1, <4>2, <4>3, <4>4, <4>5, <4>6 DEF Task, SelectLoop,
                TakeIn, Drain
      <3>3. CASE ~ Task
        BY <3>1, <3>3 DEF Next, Caller, Enqueue, TrySend, CountAccepted,
           CountDepth, Request, DropHandle, ServerStores, vars, taskVars
      <3> QED BY <3>2, <3>3
    <2> QED BY <2>1, <2>2, <2>3, <2>4
  <1>4. ASSUME NEW c \in Controllers, ctl'[c] = "ok"
        PROVE  due'[c] \subseteq StoredRows' \cup discarded'
    <2>1. CASE UNCHANGED <<ctl, due>>
      BY <1>1, <1>4, <2>1 DEF DueInv
    <2>2. ASSUME NEW d \in Controllers, Request(d) PROVE ctl[c] = "ok" /\ due' = due
      BY <1>2, <1>4, <2>2 DEF Request
    <2>3. CASE TakeCtrl
      <3>1. ctl[c] = "ok" /\ ctl[Head(ctrl)] = "waiting" /\ Head(ctrl) \in Controllers
        <4>1. Head(ctrl) \in ToSet(ctrl) /\ Head(ctrl) \in Controllers
          BY <1>2, <2>3, TailOnce, SeqOps DEF TakeCtrl
        <4> QED BY <1>4, <2>3, <4>1 DEF TakeCtrl, CallInv
      <3>2. due'[c] = due[c]
        BY <1>2, <2>3, <3>1 DEF TakeCtrl
      <3> QED BY <1>1, <3>1, <3>2 DEF DueInv
    <2>4. CASE ReturnToLoop
      <3>1. due' = due /\ phase = "return" /\ held = << >>
        BY <2>4 DEF ReturnToLoop
      <3>2. ctl[c] = "ok" \/ (c = job /\ job \in Flushers /\ outcome.ok)
        BY <1>2, <1>4, <2>4 DEF ReturnToLoop, Answer, Controllers
      <3>3. CASE c = job /\ job \in Flushers /\ outcome.ok
        <4>1. staging = << >> /\ retry = << >>
          BY <3>1, <3>3 DEF StageInv, InPass
        <4>2. due[c] \subseteq Kept
          BY <1>4, <3>1, <3>3 DEF DueInv, AfterPull, InPass
        <4>3. Kept = StoredRows \cup discarded
          BY <3>1, <4>1, NothingQueued
        <4> QED BY <1>1, <3>1, <4>2, <4>3
      <3> QED BY <1>1, <1>4, <3>1, <3>2, <3>3 DEF DueInv
    <2>5. CASE DrainToCompletion
      <3>1. due' = due /\ phase = "drain"
        BY <2>5 DEF DrainToCompletion
      <3>2. ctl[c] = "ok" \/ (c = job /\ staging = << >> /\ retry = << >>)
        BY <1>2, <1>4, <2>5 DEF DrainToCompletion, Finish, Controllers
      <3>3. CASE c = job /\ staging = << >> /\ retry = << >>
        <4>1. due[c] \subseteq Kept
          BY <1>4, <3>1, <3>3 DEF DueInv, AfterPull
        <4>2. Kept = StoredRows \cup discarded
          BY <3>1, <3>3, NothingQueued
        <4> QED BY <1>1, <3>1, <4>1, <4>2
      <3> QED BY <1>1, <1>4, <3>1, <3>2, <3>3 DEF DueInv
    <2>6. CASE ReturnToDrain \/ Exit
      <3>1. due' = due /\ ctl[c] = "ok"
        BY <1>2, <1>4, <2>6 DEF ReturnToDrain, Exit, Finish, Controllers
      <3> QED BY <1>1, <1>4, <3>1 DEF DueInv
    <2>7. CASE \E d \in Controllers : Request(d)
      BY <1>1, <1>4, <2>2, <2>7 DEF DueInv
    <2> QED BY <2>1, <2>3, <2>4, <2>5, <2>6, <2>7, QuietStep
  <1> QED BY <1>3, <1>4 DEF DueInv

DeliverInv == UniqueInv /\ StageInv /\ StoreInv /\ AllPlaced /\ CallInv /\ DueInv

\* The invariant holds initially and every step preserves it.
LEMMA DeliverInit == Init => DeliverInv
  <1> SUFFICES ASSUME Init PROVE DeliverInv
    OBVIOUS
  <1>1. UniqueInv /\ StageInv
    BY InitOnce, StageInit
  <1>2. ToSet(<< >>) = {} /\ Injective(<< >>)
    BY EmptySeq DEF ToSet, Injective
  <1>3. StoreInv /\ AllPlaced
    BY <1>2 DEF Init, StoreInv, AllPlaced
  <1>4. CallInv /\ DueInv
    BY <1>2 DEF Init, CallInv, DueInv, Working, AfterPull, InPass
  <1> QED BY <1>1, <1>3, <1>4 DEF DeliverInv

LEMMA DeliverStep == DeliverInv /\ [Next]_vars => DeliverInv'
  <1> SUFFICES ASSUME DeliverInv, [Next]_vars PROVE DeliverInv'
    OBVIOUS
  <1>1. UniqueInv' /\ TypeOK'
    BY UniqueInvStep DEF DeliverInv, UniqueInv, TypeInv
  <1> QED BY <1>1, StageStep, StoreStep, PlacedStep, CallStep, DueStep DEF DeliverInv

\* When flush or shutdown returns Ok, every row accepted before the task took
\* the message up is at the server or counted as dropped, and the ids a flush
\* returns are ids the server has stored.
THEOREM OkMeansDeliveredAlways == Spec => []OkMeansDelivered
  <1>1. DeliverInv => OkMeansDelivered
    BY DEF DeliverInv, DueInv, StoreInv, OkMeansDelivered
  <1> QED BY DeliverInit, DeliverStep, <1>1, PTL DEF Spec

-----------------------------------------------------------------------------
(***************************************************************************)
(* The counters.  Each call is counted once, when it is decided; a dropped *)
(* row is nowhere else in the buffer, so it is not dropped again.          *)
(***************************************************************************)
\* Where a call is counted: with the refused ones, with the accepted ones, or
\* still to be counted as accepted or in the depth.
Refusals    == {"refused"}
Acceptances == {"counted", "ok"}
Unaccepted  == {"sent"}
Uncounted   == {"sent", "counted"}

CallsIn(f, X) == {r \in Rows : f[r] \in X}
Count(f, X)   == Cardinality(CallsIn(f, X))

\* Multiples of the word size add up.
LEMMA WordMultiples ==
  ASSUME NEW i \in Int, NEW j \in Int
  PROVE  /\ i * DepthModulus \in Int /\ i + j \in Int /\ i - j \in Int
         /\ (i + j) * DepthModulus = i * DepthModulus + j * DepthModulus
         /\ (i - j) * DepthModulus = i * DepthModulus - j * DepthModulus
  BY SMT

\* An integer is a multiple of the word size and a remainder.
LEMMA Remainder ==
  ASSUME NEW x \in Int
  PROVE  \E a \in Int : /\ x = a * DepthModulus + (x % DepthModulus)
                        /\ x % DepthModulus \in 0 .. DepthModulus - 1
  <1>1. /\ x \div DepthModulus \in Int /\ x % DepthModulus \in 0 .. DepthModulus - 1
        /\ x = (x \div DepthModulus) * DepthModulus + (x % DepthModulus)
    BY SMT
  <1> QED BY <1>1

\* Two remainders that differ by a multiple of the word size are equal.
LEMMA OneRemainder ==
  ASSUME NEW b \in 0 .. DepthModulus - 1, NEW d \in 0 .. DepthModulus - 1,
         NEW m \in Int, b = d + m * DepthModulus
  PROVE  b = d
  <1>1. CASE m >= 1
    <2>1. m * DepthModulus >= DepthModulus
      BY <1>1, SMT
    <2> QED BY <2>1, SMT
  <1>2. CASE m <= -1
    <2>1. m * DepthModulus <= - DepthModulus
      BY <1>2, SMT
    <2> QED BY <2>1, SMT
  <1>3. CASE m = 0
    <2>1. m * DepthModulus = 0
      BY <1>3, SMT
    <2> QED BY <2>1, SMT
  <1> QED BY <1>1, <1>2, <1>3, SMT

\* Two integers with the same remainder differ by a multiple of the word.
LEMMA SameRemainder ==
  ASSUME NEW x \in Int, NEW y \in Int
  PROVE  x % DepthModulus = y % DepthModulus <=>
           \E k \in Int : x = y + k * DepthModulus
  <1> DEFINE b == x % DepthModulus
             d == y % DepthModulus
  <1>1. PICK a \in Int : x = a * DepthModulus + b /\ b \in 0 .. DepthModulus - 1
    BY Remainder
  <1>2. PICK c \in Int : y = c * DepthModulus + d /\ d \in 0 .. DepthModulus - 1
    BY Remainder
  <1> HIDE DEF b, d
  <1>3. PICK aM \in Int, cM \in Int : aM = a * DepthModulus /\ cM = c * DepthModulus
    BY WordMultiples
  <1>4. x = aM + b /\ y = cM + d /\ b \in Int /\ d \in Int
    BY <1>1, <1>2, <1>3
  <1>5. ASSUME b = d PROVE \E k \in Int : x = y + k * DepthModulus
    <2>1. a - c \in Int /\ (a - c) * DepthModulus = aM - cM
      BY <1>3, WordMultiples
    <2>2. x = y + (aM - cM)
      BY <1>4, <1>5, SMT
    <2> QED BY <2>1, <2>2
  <1>6. ASSUME NEW k \in Int, x = y + k * DepthModulus PROVE b = d
    <2>1. PICK kM \in Int : kM = k * DepthModulus
      BY WordMultiples
    <2>2. c + k \in Int /\ (c + k) * DepthModulus = cM + kM
      BY <1>3, <2>1, WordMultiples
    <2>3. (c + k) - a \in Int /\ ((c + k) - a) * DepthModulus = (cM + kM) - aM
      BY <1>3, <2>2, WordMultiples
    <2>4. b = d + ((cM + kM) - aM)
      BY <1>4, <1>6, <2>1, SMT
    <2> QED BY <1>1, <1>2, <2>3, <2>4, OneRemainder
  <1> QED BY <1>5, <1>6 DEF b, d

LEMMA WordsApart ==
  ASSUME NEW x \in Int, NEW y \in Int, NEW k \in Int, NEW z,
         z = k * DepthModulus, x = y + z
  PROVE  x % DepthModulus = y % DepthModulus
  BY SameRemainder

\* A depth d and s calls that are still to be counted account for l rows.
Lag(d, s, l) == (d + s) % DepthModulus = l % DepthModulus

\* Sending a row, counting its call and taking a row out keep the lag.
LEMMA LagKept ==
  ASSUME NEW d \in 0 .. DepthModulus - 1, NEW s \in Int, NEW l \in Int, Lag(d, s, l)
  PROVE  /\ Lag(d, s + 1, l + 1)
         /\ Lag((d + 1) % DepthModulus, s - 1, l)
         /\ Lag((d - 1) % DepthModulus, s, l - 1)
  <1>0. /\ d \in Int /\ d + s \in Int /\ d + 1 \in Int /\ d - 1 \in Int
    BY SMT
  <1>1. PICK k \in Int : d + s = l + k * DepthModulus
    BY <1>0, SameRemainder DEF Lag
  <1>2. PICK i \in Int : d + 1 = i * DepthModulus + ((d + 1) % DepthModulus)
    BY <1>0, Remainder
  <1>3. PICK j \in Int : d - 1 = j * DepthModulus + ((d - 1) % DepthModulus)
    BY <1>0, Remainder
  <1>4. PICK u \in Int, v \in Int : u = (d + 1) % DepthModulus /\ v = (d - 1) % DepthModulus
    <2>1. (d + 1) % DepthModulus \in Int /\ (d - 1) % DepthModulus \in Int
      BY DepthRange, SMT
    <2> QED BY <2>1
  <1>5. PICK iM \in Int, jM \in Int, kM \in Int :
          iM = i * DepthModulus /\ jM = j * DepthModulus /\ kM = k * DepthModulus
    BY WordMultiples
  <1>6. /\ k - i \in Int /\ (k - i) * DepthModulus = kM - iM
        /\ k - j \in Int /\ (k - j) * DepthModulus = kM - jM
    BY <1>5, WordMultiples
  <1>7. d + s = l + kM /\ d + 1 = iM + u /\ d - 1 = jM + v
    BY <1>1, <1>2, <1>3, <1>4, <1>5
  <1>8. PICK x1 \in Int, y1 \in Int, x2 \in Int, x3 \in Int, y3 \in Int :
           /\ x1 = d + (s + 1) /\ y1 = l + 1 /\ x2 = u + (s - 1)
           /\ x3 = v + s /\ y3 = l - 1
    <2>1. /\ d + (s + 1) \in Int /\ l + 1 \in Int /\ u + (s - 1) \in Int
          /\ v + s \in Int /\ l - 1 \in Int
      BY <1>0, SMT
    <2> QED BY <2>1
  <1>9. x1 = y1 + kM /\ x2 = l + (kM - iM) /\ x3 = y3 + (kM - jM)
    BY <1>0, <1>7, <1>8, SMT
  <1>10. x1 % DepthModulus = y1 % DepthModulus
    BY <1>5, <1>9, WordsApart
  <1>11. x2 % DepthModulus = l % DepthModulus
    BY <1>6, <1>9, WordsApart
  <1>12. x3 % DepthModulus = y3 % DepthModulus
    BY <1>6, <1>9, WordsApart
  <1> QED BY <1>4, <1>8, <1>10, <1>11, <1>12 DEF Lag

\* A sequence without repetition has as many elements as positions.
LEMMA CountOnce ==
  ASSUME NEW S, NEW s \in Seq(S), Injective(s)
  PROVE  IsFiniteSet(ToSet(s)) /\ Cardinality(ToSet(s)) = Len(s)
  <1>1. /\ Len(s) \in Nat /\ s \in [1 .. Len(s) -> S]
        /\ ToSet(s) = {s[i] : i \in 1 .. Len(s)}
    BY LenProperties, ToSetSeq
  <1>2. IsFiniteSet(1 .. Len(s)) /\ Cardinality(1 .. Len(s)) = Len(s)
    <2>1. 1 \in Int /\ Len(s) \in Int
      BY <1>1, SMT
    <2>2. /\ IsFiniteSet(1 .. Len(s))
          /\ Cardinality(1 .. Len(s)) = IF 1 > Len(s) THEN 0 ELSE Len(s) - 1 + 1
      BY <2>1, FS_Interval
    <2>3. (IF 1 > Len(s) THEN 0 ELSE Len(s) - 1 + 1) = Len(s)
      BY <1>1, SMT
    <2> QED BY <2>2, <2>3
  <1>3. s \in Bijection(1 .. Len(s), ToSet(s))
    <2>1. s \in [1 .. Len(s) -> ToSet(s)]
      BY <1>1, ToSetSeq
    <2>2. \A i, j \in 1 .. Len(s) : s[i] = s[j] => i = j
      BY DEF Injective
    <2>3. \A e \in ToSet(s) : \E i \in 1 .. Len(s) : s[i] = e
      BY <1>1
    <2> QED BY <2>1, <2>2, <2>3, Fun_IsBij, Zenon
  <1>4. ExistsBijection(1 .. Len(s), ToSet(s))
    BY <1>3 DEF ExistsBijection
  <1> QED BY <1>2, <1>4, FS_Bijection

\* A pass seals staged rows only.
LEMMA BeginWithin ==
  ASSUME UniqueInv, BeginPass, phase \notin {"pass", "send"}
  PROVE  QueuedRows' \subseteq QueuedRows \cup ToSet(staging)
  <1> DEFINE q == Chunks(staging, nextId)
  <1>1. /\ staging \in Seq(Rows) /\ nextId \in Nat /\ retry \in Seq(Batch)
        /\ Injective(staging) /\ ToSet(<< >>) = {}
    <2>1. ToSet(<< >>) = {}
      BY DEF ToSet
    <2> QED BY <2>1 DEF UniqueInv, TypeInv, TypeOK, LooseOnce
  <1>2. q \in Seq(Batch) /\ pending' = retry \o q /\ retry' = << >>
    BY <1>1, ChunksType DEF BeginPass
  <1>3. \A b \in ToSet(q) : ToSet(b.rows) \subseteq ToSet(staging)
    <2>1. \A i \in 1 .. Len(q) : ToSet(q[i].rows) \subseteq ToSet(staging)
      BY <1>1, ChunksOnce
    <2> HIDE DEF q
    <2>2. ToSet(q) = {q[i] : i \in 1 .. Len(q)}
      BY <1>2, ToSetSeq
    <2> QED BY <2>1, <2>2
  <1> HIDE DEF q
  <1>4. ToSet(pending') = ToSet(retry) \cup ToSet(q)
    BY <1>1, <1>2, ConcatOnce
  <1>5. Queued' = ToSet(retry) \cup ToSet(q) /\ ToSet(retry) \subseteq Queued
    BY <1>1, <1>2, <1>4 DEF Queued
  <1> QED BY <1>3, <1>5 DEF QueuedRows

\* A step of a pass that drops nothing brings nothing in.
LEMMA SealWithin ==
  ASSUME UniqueInv, SealAndSend, ~ DropChunk PROVE Here' \subseteq Here
  <1>1. /\ pending \in Seq(Batch) /\ nextId \in Nat
        /\ phase \in {"pass", "send"} /\ retry = << >> /\ ToSet(<< >>) = {}
        /\ phase = "send" => pending # << >>
    <2>1. phase \in {"pass", "send"}
      BY DEF SealAndSend, DropChunk, SplitChunk, Send, SendOk, SendFails, PassDone
    <2>2. ToSet(<< >>) = {}
      BY DEF ToSet
    <2> QED BY <2>1, <2>2 DEF UniqueInv, TypeInv, TypeOK, BatchOnce
  <1>2. pending # << >> => /\ ToSet(pending) = {Head(pending)} \cup ToSet(Tail(pending))
                           /\ Head(pending) \in Batch /\ Tail(pending) \in Seq(Batch)
    BY <1>1, TailOnce, SeqOps
  <1>3. Queued = ToSet(pending) /\ Loose' = Loose
    <2>1. UNCHANGED <<staging, held, chan>>
      BY DEF SealAndSend, DropChunk, SplitChunk, Send, SendOk, SendFails, PassDone
    <2> QED BY <1>1, <2>1 DEF Queued, Loose
  <1>4. CASE PassDone \/ Send
    <2>1. Queued' = Queued
      BY <1>4 DEF PassDone, Send, Queued
    <2> QED BY <1>3, <2>1 DEF Here, QueuedRows
  <1>5. CASE SendFails
    <2>1. Queued' = Queued
      BY <1>1, <1>5 DEF SendFails, Fail, Queued
    <2> QED BY <1>3, <2>1 DEF Here, QueuedRows
  <1>6. CASE SendOk
    <2>1. Queued' = ToSet(Tail(pending)) /\ pending # << >>
      BY <1>1, <1>6 DEF SendOk, Queued
    <2> QED BY <1>2, <1>3, <2>1 DEF Here, QueuedRows
  <1>7. CASE SplitChunk
    <2> DEFINE b == Head(pending)
               q == Halves(b, nextId)
               rest == Tail(pending)
    <2>1. pending # << >> /\ pending' = q \o rest /\ retry' = << >>
      BY <1>1, <1>7 DEF SplitChunk
    <2>2. /\ q \in Seq(Batch) /\ rest \in Seq(Batch)
          /\ \A h \in ToSet(q) : ToSet(h.rows) \subseteq ToSet(b.rows)
      BY <1>1, <1>2, <2>1, HalvesType, HalvesCover
    <2>3. ToSet(pending) = {b} \cup ToSet(rest)
      BY <1>2, <2>1
    <2> HIDE DEF q, b, rest
    <2>4. ToSet(pending') = ToSet(q) \cup ToSet(rest)
      BY <2>1, <2>2, ConcatOnce
    <2>5. Queued' = ToSet(q) \cup ToSet(rest)
      BY <1>1, <2>1, <2>4 DEF Queued
    <2>6. QueuedRows' \subseteq QueuedRows
      BY <1>3, <2>2, <2>3, <2>5 DEF QueuedRows
    <2> QED BY <1>3, <2>6 DEF Here
  <1> QED BY <1>4, <1>5, <1>6, <1>7 DEF SealAndSend

\* A step of the task that drops no chunk brings nothing in and counts nothing.
LEMMA TaskWithin ==
  ASSUME UniqueInv, StageInv, Task, ~ DropChunk
  PROVE  Here' \subseteq Here /\ UNCHANGED <<dropped, discarded>>
  <1>1. UNCHANGED <<dropped, discarded>>
    <2>1. CASE ReturnToIngest
      <3>1. staging = << >>
        BY <2>1 DEF ReturnToIngest, StageInv, InPass
      <3>2. Len(staging) # StagingCapacity
        BY <3>1, EmptySeq, SMT
      <3> QED BY <2>1, <3>2 DEF ReturnToIngest
    <2>2. CASE ~ ReturnToIngest
      BY <2>2 DEF Task, SelectLoop, TakeIn, Drain, SealAndSend, Return,
         TakeCtrl, HandleGone, TakeRow, Pop, Uncount, Ingest, AfterIngest,
         Tick, SizeTrigger, PullRow, PullDone, DrainToCompletion, SplitChunk,
         Send, SendOk, SendFails, PassDone, ReturnToLoop, ReturnToDrain, Exit
    <2> QED BY <2>1, <2>2
  <1>2. CASE UNCHANGED <<staging, pending, retry, held, chan>>
    BY <1>1, <1>2 DEF Here, Loose, QueuedRows, Queued
  <1>3. CASE SealAndSend
    BY <1>1, <1>3, SealWithin
  <1>4. CASE TakeRow \/ PullRow
    <2>1. /\ UNCHANGED <<staging, pending, retry>>
          /\ Pop /\ chan # << >> /\ phase \in {"select", "pull"}
      BY <1>4 DEF TakeRow, PullRow
    <2>2. held = << >>
      BY <2>1 DEF StageInv, InPass, Holding
    <2>3. Outside' = Outside
      BY <2>1, <2>2, PopKeeps
    <2> QED BY <1>1, <2>1, <2>3 DEF Here, Loose, Outside, QueuedRows, Queued
  <1>5. CASE BeginPass /\ UNCHANGED <<held, chan>> /\ phase \notin {"pass", "send"}
    <2>1. QueuedRows' \subseteq QueuedRows \cup ToSet(staging)
      BY <1>5, BeginWithin
    <2>2. ToSet(staging') = {}
      BY <1>5 DEF BeginPass, ToSet
    <2>3. Loose' \subseteq Loose /\ ToSet(staging) \subseteq Loose
      BY <1>5, <2>2 DEF Loose
    <2> QED BY <1>1, <2>1, <2>3 DEF Here
  <1>6. CASE /\ UNCHANGED <<pending, retry, chan>> /\ held' = << >>
             /\ staging' = staging \o held \/ staging' = staging
    <2>1. staging \in Seq(Rows) /\ held \in Seq(Rows)
      BY DEF UniqueInv, TypeInv, TypeOK
    <2>2. ToSet(staging \o held) = ToSet(staging) \cup ToSet(held)
      BY <2>1, ConcatOnce
    <2>3. QueuedRows' = QueuedRows /\ ToSet(held') = {}
      BY <1>6 DEF QueuedRows, Queued, ToSet
    <2> QED BY <1>1, <1>6, <2>2, <2>3 DEF Here, Loose
  <1>7. CASE Tick
    BY <1>5, <1>7 DEF Tick
  <1>8. CASE SizeTrigger \/ PullDone \/ DrainToCompletion
    BY <1>2, <1>5, <1>8 DEF SizeTrigger, PullDone, DrainToCompletion
  <1>9. CASE \/ TakeCtrl \/ HandleGone \/ Uncount \/ ReturnToLoop
             \/ ReturnToDrain \/ Exit
    BY <1>2, <1>9 DEF TakeCtrl, HandleGone, Uncount, ReturnToLoop, ReturnToDrain, Exit
  <1>10. CASE Ingest
    BY <1>5, <1>6, <1>10 DEF Ingest
  <1>11. CASE ReturnToIngest
    BY <1>6, <1>11 DEF ReturnToIngest
  <1> QED BY <1>3, <1>4, <1>7, <1>8, <1>9, <1>10, <1>11
      DEF Task, SelectLoop, TakeIn, Drain, Return

\* The rows of a dropped chunk are counted one by one, for the first time, and
\* are nowhere else.
LEMMA DropWithin ==
  ASSUME UniqueInv, DropChunk
  PROVE  LET rows == ToSet(Head(pending).rows)
         IN  /\ Here' \subseteq Here \ rows /\ rows \subseteq Here
             /\ discarded' = discarded \cup rows
             /\ IsFiniteSet(rows) /\ dropped' = dropped + Cardinality(rows)
             /\ \A r \in rows : call[r] \in {"sent", "counted", "ok"}
  <1> DEFINE b == Head(pending)
             rest == Tail(pending)
  <1>1. /\ pending \in Seq(Batch) /\ DistinctIds(pending) /\ ToSet(<< >>) = {}
        /\ pending # << >> /\ retry = << >> /\ retry' = rest /\ pending' = << >>
        /\ UNCHANGED <<staging, held, chan>>
    BY DEF DropChunk, Fail, UniqueInv, TypeInv, TypeOK, BatchOnce, ToSet
  <1>2. /\ ToSet(pending) = {b} \cup ToSet(rest)
        /\ \A c \in ToSet(rest) : c.id # b.id
        /\ b \in Batch
    BY <1>1, BehindHead, SeqOps
  <1>3. /\ dropped' = dropped + Len(b.rows)
        /\ discarded' = discarded \cup ToSet(b.rows)
    BY DEF DropChunk
  <1> HIDE DEF b, rest
  <1>4. Queued = {b} \cup ToSet(rest) /\ Queued' = ToSet(rest) /\ Loose' = Loose
    BY <1>1, <1>2 DEF Queued, Loose
  <1>5. /\ Sealed(b) /\ b.rows \in Seq(Rows)
        /\ \A c \in ToSet(rest) : ToSet(c.rows) \cap ToSet(b.rows) = {}
    <2>1. b \in Batches /\ ToSet(rest) \subseteq Batches
      BY <1>4 DEF Batches
    <2>2. \A c \in ToSet(rest) : Same(c, b) /\ c # b
      BY <1>2, <2>1 DEF UniqueInv, BatchOnce
    <2> QED BY <1>2, <2>1, <2>2 DEF UniqueInv, BatchOnce, Same, Batch
  <1>6. IsFiniteSet(ToSet(b.rows)) /\ Cardinality(ToSet(b.rows)) = Len(b.rows)
    BY <1>5, CountOnce DEF Sealed
  <1>7. Here' \subseteq Here \ ToSet(b.rows) /\ ToSet(b.rows) \subseteq Here
    <2>1. QueuedRows' \subseteq QueuedRows /\ ToSet(b.rows) \subseteq QueuedRows
      BY <1>4 DEF QueuedRows
    <2>2. QueuedRows' \cap ToSet(b.rows) = {}
      BY <1>4, <1>5 DEF QueuedRows
    <2>3. Loose \cap ToSet(b.rows) = {}
      BY <1>5 DEF Sealed
    <2> QED BY <1>4, <2>1, <2>2, <2>3 DEF Here
  <1>8. \A r \in ToSet(b.rows) : call[r] \in {"sent", "counted", "ok"}
    BY <1>5 DEF Sealed
  <1> QED BY <1>3, <1>6, <1>7, <1>8 DEF b

CallsFinite == /\ IsFiniteSet(CallsIn(call, Refusals))
               /\ IsFiniteSet(CallsIn(call, Acceptances))
               /\ IsFiniteSet(CallsIn(call, Unaccepted))
               /\ IsFiniteSet(CallsIn(call, Uncounted))

CountInv == /\ CallsFinite
            /\ IsFiniteSet(discarded) /\ discarded \cap Here = {}
            /\ \A r \in discarded : call[r] \in {"sent", "counted", "ok"}
            /\ CountersBalance /\ DepthLag

\* One element more, one element less.
LEMMA OneMore ==
  ASSUME NEW S, NEW x, IsFiniteSet(S), x \notin S
  PROVE  /\ IsFiniteSet(S \cup {x}) /\ Cardinality(S) \in Nat
         /\ Cardinality(S \cup {x}) = Cardinality(S) + 1
  BY FS_AddElement, FS_CardinalityType

LEMMA OneLess ==
  ASSUME NEW S, NEW x, IsFiniteSet(S), x \in S
  PROVE  /\ IsFiniteSet(S \ {x}) /\ Cardinality(S) \in Nat
         /\ Cardinality(S \ {x}) = Cardinality(S) - 1
  BY FS_RemoveElement, FS_CardinalityType

\* Call r, and no other, goes to y.
Moves(f, g, r, y) == g[r] = y /\ \A q \in Rows \ {r} : g[q] = f[q]

\* It does when its entry alone is changed.
LEMMA MovesOnly ==
  ASSUME NEW S, NEW f \in [Rows -> S], NEW r \in Rows, NEW y
  PROVE  Moves(f, [f EXCEPT ![r] = y], r, y)
  BY DEF Moves

\* The counters are sums of counts, and the lag is the calls to be counted.
LEMMA CountsTell ==
  ASSUME NEW f
  PROVE  /\ Cardinality({r \in Rows : f[r] = "refused"}) = Count(f, Refusals)
         /\ Cardinality({r \in Rows : f[r] \in {"counted", "ok"}}) = Count(f, Acceptances)
         /\ Cardinality({r \in Rows : f[r] = "sent"}) = Count(f, Unaccepted)
         /\ Cardinality({r \in Rows : f[r] \in {"sent", "counted"}}) = Count(f, Uncounted)
  <1>1. /\ {r \in Rows : f[r] = "refused"} = CallsIn(f, Refusals)
        /\ {r \in Rows : f[r] \in {"counted", "ok"}} = CallsIn(f, Acceptances)
        /\ {r \in Rows : f[r] = "sent"} = CallsIn(f, Unaccepted)
        /\ {r \in Rows : f[r] \in {"sent", "counted"}} = CallsIn(f, Uncounted)
    BY DEF CallsIn, Refusals, Acceptances, Unaccepted, Uncounted
  <1> QED BY <1>1 DEF Count

\* CountersBalance and DepthLag, now and after a step, in counts.
LEMMA BalanceIs ==
  CountersBalance <=> /\ dropped = Count(call, Refusals) + Cardinality(discarded)
                      /\ accepted = Count(call, Acceptances)
                      /\ Len(admitted) = accepted + Count(call, Unaccepted)
  BY CountsTell DEF CountersBalance

LEMMA BalanceNext ==
  CountersBalance' <=> /\ dropped' = Count(call', Refusals) + Cardinality(discarded')
                       /\ accepted' = Count(call', Acceptances)
                       /\ Len(admitted') = accepted' + Count(call', Unaccepted)
  <1>1. /\ Cardinality({r \in Rows : call'[r] = "refused"}) = Count(call', Refusals)
        /\ Cardinality({r \in Rows : call'[r] \in {"counted", "ok"}}) = Count(call', Acceptances)
        /\ Cardinality({r \in Rows : call'[r] = "sent"}) = Count(call', Unaccepted)
    BY CountsTell
  <1> QED BY <1>1 DEF CountersBalance

LEMMA LagIs == DepthLag <=> Lag(depth, Count(call, Uncounted), Len(chan) + InHand)
  BY CountsTell DEF DepthLag, Lag

LEMMA LagNext ==
  DepthLag' <=> Lag(depth', Count(call', Uncounted), Len(chan') + InHand')
  <1>1. Cardinality({r \in Rows : call'[r] \in {"sent", "counted"}}) = Count(call', Uncounted)
    BY CountsTell
  <1> QED BY <1>1 DEF DepthLag, Lag

\* What the invariant says, in counts, all of them numbers.
LEMMA CountsNow ==
  ASSUME UniqueInv, CountInv
  PROVE  /\ dropped = Count(call, Refusals) + Cardinality(discarded)
         /\ accepted = Count(call, Acceptances)
         /\ Len(admitted) = accepted + Count(call, Unaccepted)
         /\ Lag(depth, Count(call, Uncounted), Len(chan) + InHand)
         /\ Count(call, Refusals) \in Nat /\ Count(call, Acceptances) \in Nat
         /\ Count(call, Unaccepted) \in Nat /\ Count(call, Uncounted) \in Nat
         /\ Cardinality(discarded) \in Nat /\ depth \in 0 .. DepthModulus - 1
         /\ Len(chan) \in Nat /\ Len(admitted) \in Nat /\ InHand \in 0 .. 1
         /\ call \in [Rows -> {"idle", "trying", "sent", "counted", "ok", "refused"}]
  <1>1. CountersBalance /\ DepthLag
    BY DEF CountInv
  <1>2. /\ Count(call, Refusals) \in Nat /\ Count(call, Acceptances) \in Nat
        /\ Count(call, Unaccepted) \in Nat /\ Count(call, Uncounted) \in Nat
        /\ Cardinality(discarded) \in Nat
    BY FS_CardinalityType DEF CountInv, CallsFinite, Count
  <1>3. /\ depth \in 0 .. DepthModulus - 1 /\ chan \in Seq(Rows) /\ admitted \in Seq(Rows)
        /\ call \in [Rows -> {"idle", "trying", "sent", "counted", "ok", "refused"}]
    BY DEF UniqueInv, TypeInv, TypeOK
  <1>4. Len(chan) \in Nat /\ Len(admitted) \in Nat /\ InHand \in 0 .. 1
    BY <1>3, LenProperties DEF InHand
  <1> QED BY <1>1, <1>2, <1>3, <1>4, BalanceIs, LagIs

\* A call that has not sent its row yet is counted when it is refused.
LEMMA CallRefused ==
  ASSUME UniqueInv, CountInv, NEW r \in Rows, call[r] \in {"idle", "trying"}, Refuse(r),
         UNCHANGED <<accepted, depth, chan, admitted, discarded, phase>>
  PROVE  CallsFinite' /\ CountersBalance' /\ DepthLag'
  <1>1. call' = [call EXCEPT ![r] = "refused"] /\ dropped' = dropped + 1
    BY DEF Refuse
  <1>2. Moves(call, call', r, "refused")
    BY <1>1, CountsNow, MovesOnly
  <1>3. /\ CallsIn(call', Acceptances) = CallsIn(call, Acceptances)
        /\ CallsIn(call', Unaccepted) = CallsIn(call, Unaccepted)
        /\ CallsIn(call', Uncounted) = CallsIn(call, Uncounted)
    BY <1>2 DEF Moves, CallsIn, Acceptances, Unaccepted, Uncounted
  <1>4. /\ IsFiniteSet(CallsIn(call', Refusals))
        /\ Count(call', Refusals) = Count(call, Refusals) + 1
    <2>1. CallsIn(call', Refusals) = CallsIn(call, Refusals) \cup {r} /\ r \notin CallsIn(call, Refusals)
      BY <1>2 DEF Moves, CallsIn, Refusals
    <2>2. IsFiniteSet(CallsIn(call, Refusals))
      BY DEF CountInv, CallsFinite
    <2> QED BY <2>1, <2>2, OneMore DEF Count
  <1>5. CallsFinite'
    BY <1>3, <1>4 DEF CountInv, CallsFinite
  <1>6. CountersBalance'
    <2>1. dropped' = Count(call', Refusals) + Cardinality(discarded')
      BY <1>1, <1>4, CountsNow, SMT
    <2> QED BY <1>3, <2>1, CountsNow, BalanceNext DEF Count
  <1>7. DepthLag'
    BY <1>3, CountsNow, LagNext DEF Count, InHand
  <1> QED BY <1>5, <1>6, <1>7

\* A row that try_send has put into the channel is still to be counted.
Sends(r) == /\ call[r] = "trying" /\ call' = [call EXCEPT ![r] = "sent"]
            /\ chan' = Append(chan, r) /\ admitted' = Append(admitted, r)
            /\ UNCHANGED <<accepted, dropped, depth>>

LEMMA CallSent ==
  ASSUME UniqueInv, CountInv, NEW r \in Rows, Sends(r), UNCHANGED <<discarded, phase>>
  PROVE  CallsFinite' /\ CountersBalance' /\ DepthLag'
  <1>1. Moves(call, call', r, "sent")
    BY CountsNow, MovesOnly DEF Sends
  <1>2. /\ CallsIn(call', Refusals) = CallsIn(call, Refusals)
        /\ CallsIn(call', Acceptances) = CallsIn(call, Acceptances)
    BY <1>1 DEF Sends, Moves, CallsIn, Refusals, Acceptances
  <1>3. /\ IsFiniteSet(CallsIn(call', Unaccepted)) /\ IsFiniteSet(CallsIn(call', Uncounted))
        /\ Count(call', Unaccepted) = Count(call, Unaccepted) + 1
        /\ Count(call', Uncounted) = Count(call, Uncounted) + 1
    <2>1. CallsIn(call', Unaccepted) = CallsIn(call, Unaccepted) \cup {r} /\ r \notin CallsIn(call, Unaccepted)
      BY <1>1 DEF Sends, Moves, CallsIn, Unaccepted
    <2>2. CallsIn(call', Uncounted) = CallsIn(call, Uncounted) \cup {r} /\ r \notin CallsIn(call, Uncounted)
      BY <1>1 DEF Sends, Moves, CallsIn, Uncounted
    <2>3. IsFiniteSet(CallsIn(call, Unaccepted)) /\ IsFiniteSet(CallsIn(call, Uncounted))
      BY DEF CountInv, CallsFinite
    <2>4. /\ IsFiniteSet(CallsIn(call', Unaccepted))
          /\ Count(call', Unaccepted) = Count(call, Unaccepted) + 1
      BY <2>1, <2>3, OneMore DEF Count
    <2>5. /\ IsFiniteSet(CallsIn(call', Uncounted))
          /\ Count(call', Uncounted) = Count(call, Uncounted) + 1
      BY <2>2, <2>3, OneMore DEF Count
    <2> QED BY <2>4, <2>5
  <1>4. CallsFinite'
    BY <1>2, <1>3 DEF CountInv, CallsFinite
  <1>5. Len(chan') = Len(chan) + 1 /\ Len(admitted') = Len(admitted) + 1
    BY AppendProperties DEF Sends, UniqueInv, TypeInv, TypeOK
  <1>6. CountersBalance'
    <2>1. accepted' = accepted /\ dropped' = dropped /\ discarded' = discarded
      BY DEF Sends
    <2>2. Len(admitted') = accepted' + Count(call', Unaccepted)
      <3>1. /\ Len(admitted) = accepted + Count(call, Unaccepted)
            /\ accepted = Count(call, Acceptances) /\ Count(call, Acceptances) \in Nat
            /\ Count(call, Unaccepted) \in Nat
        BY CountsNow
      <3> QED BY <1>3, <1>5, <2>1, <3>1, SMTT(30)
    <2>3. /\ Count(call', Refusals) = Count(call, Refusals)
          /\ Count(call', Acceptances) = Count(call, Acceptances)
      BY <1>2 DEF Count
    <2>4. /\ dropped' = Count(call', Refusals) + Cardinality(discarded')
          /\ accepted' = Count(call', Acceptances)
      BY <2>1, <2>3, CountsNow
    <2> QED BY <2>2, <2>4, BalanceNext
  <1>7. DepthLag'
    <2>1. Lag(depth, Count(call, Uncounted) + 1, Len(chan) + InHand + 1)
      <3>1. Count(call, Uncounted) \in Int /\ Len(chan) + InHand \in Int
        BY CountsNow, SMT
      <3> QED BY <3>1, CountsNow, LagKept
    <2>2. InHand' = InHand
      BY DEF InHand
    <2>3. Len(chan') + InHand' = Len(chan) + InHand + 1
      BY <1>5, <2>2, CountsNow, SMT
    <2> QED BY <1>3, <2>1, <2>3, LagNext DEF Sends
  <1> QED BY <1>4, <1>6, <1>7

\* The accepted counter takes the call over.
LEMMA CallAccepted ==
  ASSUME UniqueInv, CountInv, NEW r \in Rows, CountAccepted(r)
  PROVE  CallsFinite' /\ CountersBalance' /\ DepthLag'
  <1>1. /\ call[r] = "sent" /\ call' = [call EXCEPT ![r] = "counted"]
        /\ accepted' = accepted + 1
        /\ UNCHANGED <<dropped, depth, chan, admitted, discarded, phase>>
    BY DEF CountAccepted, taskVars
  <1>2. Moves(call, call', r, "counted")
    BY <1>1, CountsNow, MovesOnly
  <1>3. /\ CallsIn(call', Refusals) = CallsIn(call, Refusals)
        /\ CallsIn(call', Uncounted) = CallsIn(call, Uncounted)
    BY <1>1, <1>2 DEF Moves, CallsIn, Refusals, Uncounted
  <1>4. /\ IsFiniteSet(CallsIn(call', Acceptances))
        /\ Count(call', Acceptances) = Count(call, Acceptances) + 1
    <2>1. CallsIn(call', Acceptances) = CallsIn(call, Acceptances) \cup {r} /\ r \notin CallsIn(call, Acceptances)
      BY <1>1, <1>2 DEF Moves, CallsIn, Acceptances
    <2>2. IsFiniteSet(CallsIn(call, Acceptances))
      BY DEF CountInv, CallsFinite
    <2> QED BY <2>1, <2>2, OneMore DEF Count
  <1>5. /\ IsFiniteSet(CallsIn(call', Unaccepted))
        /\ Count(call', Unaccepted) = Count(call, Unaccepted) - 1
    <2>1. CallsIn(call', Unaccepted) = CallsIn(call, Unaccepted) \ {r} /\ r \in CallsIn(call, Unaccepted)
      BY <1>1, <1>2 DEF Moves, CallsIn, Unaccepted
    <2>2. IsFiniteSet(CallsIn(call, Unaccepted))
      BY DEF CountInv, CallsFinite
    <2> QED BY <2>1, <2>2, OneLess DEF Count
  <1>6. CallsFinite'
    BY <1>3, <1>4, <1>5 DEF CountInv, CallsFinite
  <1>7. CountersBalance'
    <2>1. /\ accepted' = Count(call', Acceptances)
          /\ Len(admitted) = accepted' + Count(call', Unaccepted)
      BY <1>1, <1>4, <1>5, CountsNow, SMT
    <2> QED BY <1>1, <1>3, <2>1, CountsNow, BalanceNext DEF Count
  <1>8. DepthLag'
    BY <1>1, <1>3, CountsNow, LagNext DEF Count, InHand
  <1> QED BY <1>6, <1>7, <1>8

\* And the depth takes its row over.
LEMMA CallInDepth ==
  ASSUME UniqueInv, CountInv, NEW r \in Rows, CountDepth(r)
  PROVE  CallsFinite' /\ CountersBalance' /\ DepthLag'
  <1>1. /\ call[r] = "counted" /\ call' = [call EXCEPT ![r] = "ok"]
        /\ depth' = (depth + 1) % DepthModulus
        /\ UNCHANGED <<accepted, dropped, chan, admitted, discarded, phase>>
    BY DEF CountDepth, taskVars
  <1>2. Moves(call, call', r, "ok")
    BY <1>1, CountsNow, MovesOnly
  <1>3. /\ CallsIn(call', Refusals) = CallsIn(call, Refusals)
        /\ CallsIn(call', Acceptances) = CallsIn(call, Acceptances)
        /\ CallsIn(call', Unaccepted) = CallsIn(call, Unaccepted)
    BY <1>1, <1>2 DEF Moves, CallsIn, Refusals, Acceptances, Unaccepted
  <1>4. /\ IsFiniteSet(CallsIn(call', Uncounted))
        /\ Count(call', Uncounted) = Count(call, Uncounted) - 1
    <2>1. CallsIn(call', Uncounted) = CallsIn(call, Uncounted) \ {r} /\ r \in CallsIn(call, Uncounted)
      BY <1>1, <1>2 DEF Moves, CallsIn, Uncounted
    <2>2. IsFiniteSet(CallsIn(call, Uncounted))
      BY DEF CountInv, CallsFinite
    <2> QED BY <2>1, <2>2, OneLess DEF Count
  <1>5. CallsFinite'
    BY <1>3, <1>4 DEF CountInv, CallsFinite
  <1>6. CountersBalance'
    BY <1>1, <1>3, CountsNow, BalanceNext DEF Count
  <1>7. DepthLag'
    <2>1. Lag((depth + 1) % DepthModulus, Count(call, Uncounted) - 1, Len(chan) + InHand)
      <3>1. Count(call, Uncounted) \in Int /\ Len(chan) + InHand \in Int
        BY CountsNow, SMT
      <3> QED BY <3>1, CountsNow, LagKept
    <2>2. InHand' = InHand
      BY <1>1 DEF InHand
    <2> QED BY <1>1, <1>4, <2>1, <2>2, LagNext
  <1> QED BY <1>5, <1>6, <1>7

\* A step of a call counts it when it is decided.
LEMMA CallerCounts ==
  ASSUME UniqueInv, CountInv, NEW r \in Rows, Caller(r) PROVE CountInv'
  <1>1. call \in [Rows -> {"idle", "trying", "sent", "counted", "ok", "refused"}]
    BY CountsNow
  <1>2. UNCHANGED <<staging, held, pending, retry, discarded, phase>>
    BY DEF Caller, Enqueue, TrySend, CountAccepted, CountDepth, taskVars
  <1>3. CallsFinite' /\ CountersBalance' /\ DepthLag'
    <2>1. CASE call' = call /\ UNCHANGED <<dropped, accepted, depth, chan, admitted>>
      BY <1>2, <2>1 DEF CountInv, CallsFinite, CallsIn, CountersBalance, DepthLag, InHand
    <2>2. CASE /\ call[r] = "idle" /\ call' = [call EXCEPT ![r] = "trying"]
               /\ UNCHANGED <<dropped, accepted, depth, chan, admitted>>
      <3>0. Moves(call, call', r, "trying")
        BY <1>1, <2>2, MovesOnly
      <3>1. /\ CallsIn(call', Refusals) = CallsIn(call, Refusals)
            /\ CallsIn(call', Acceptances) = CallsIn(call, Acceptances)
            /\ CallsIn(call', Unaccepted) = CallsIn(call, Unaccepted)
            /\ CallsIn(call', Uncounted) = CallsIn(call, Uncounted)
        BY <2>2, <3>0 DEF Moves, CallsIn, Refusals, Acceptances, Unaccepted, Uncounted
      <3>2. CallsFinite'
        BY <3>1 DEF CountInv, CallsFinite
      <3>3. CountersBalance'
        BY <1>2, <2>2, <3>1, CountsNow, BalanceNext DEF Count
      <3>4. DepthLag'
        BY <1>2, <2>2, <3>1, CountsNow, LagNext DEF Count, InHand
      <3> QED BY <3>2, <3>3, <3>4
    <2>3. CASE Enqueue(r)
      <3>1. \/ /\ call[r] = "idle" /\ call' = [call EXCEPT ![r] = "trying"]
               /\ UNCHANGED <<dropped, accepted, depth, chan, admitted>>
            \/ /\ call[r] = "idle" /\ Refuse(r)
               /\ UNCHANGED <<accepted, depth, chan, admitted>>
        BY <2>3 DEF Enqueue
      <3> QED BY <1>2, <2>2, <3>1, CallRefused
    <2>4. CASE TrySend(r)
      <3>1. \/ call' = call /\ UNCHANGED <<dropped, accepted, depth, chan, admitted>>
            \/ /\ call[r] = "trying" /\ Refuse(r)
               /\ UNCHANGED <<accepted, depth, chan, admitted>>
            \/ Sends(r)
        BY <2>4 DEF TrySend, Saturated, Sends
      <3> QED BY <1>2, <2>1, <3>1, CallRefused, CallSent
    <2> QED BY <2>3, <2>4, CallAccepted, CallInDepth DEF Caller
  <1>4. \A q \in discarded : call'[q] \in {"sent", "counted", "ok"}
    <2>1. \A q \in discarded : q \in Rows /\ call[q] \in {"sent", "counted", "ok"}
      BY DEF CountInv, UniqueInv, TypeInv, TypeOK
    <2> QED BY <1>1, <2>1 DEF Caller, Enqueue, TrySend, Saturated, Refuse, CountAccepted, CountDepth
  <1>5. discarded \cap Here' = {}
    <2>1. QueuedRows' = QueuedRows
      BY <1>2 DEF QueuedRows, Queued
    <2>2. CASE chan' = chan
      BY <1>2, <2>1, <2>2 DEF CountInv, Here, Loose
    <2>3. CASE call[r] = "trying" /\ chan' = Append(chan, r)
      <3>1. ToSet(chan') = ToSet(chan) \cup {r}
        BY <2>3, AppendOnce DEF UniqueInv, TypeInv, TypeOK
      <3>2. r \notin discarded
        BY <2>3 DEF CountInv
      <3> QED BY <1>2, <2>1, <3>1, <3>2 DEF CountInv, Here, Loose
    <2> QED BY <2>2, <2>3 DEF Caller, Enqueue, TrySend, CountAccepted, CountDepth
  <1> QED BY <1>2, <1>3, <1>4, <1>5 DEF CountInv

\* The task takes a row out of the channel and then out of the depth.
LEMMA TaskLag ==
  ASSUME UniqueInv, StageInv, CountInv, Task, call' = call PROVE DepthLag'
  <1>1. ASSUME UNCHANGED <<depth, chan>>, phase # "popped", phase' # "popped"
        PROVE  DepthLag'
    BY <1>1 DEF CountInv, DepthLag, InHand
  <1>2. CASE TakeRow \/ PullRow
    <2>1. /\ phase # "popped" /\ chan # << >> /\ chan' = Tail(chan)
          /\ depth' = depth /\ phase' = "popped"
      BY <1>2 DEF TakeRow, PullRow, Pop
    <2>2. Len(chan') = Len(chan) - 1
      BY <2>1, TailOnce DEF UniqueInv, TypeInv, TypeOK
    <2>3. InHand = 0 /\ InHand' = 1
      BY <2>1 DEF InHand
    <2>4. Len(chan') + InHand' = Len(chan) + InHand
      BY <2>2, <2>3, CountsNow, SMT
    <2> QED BY <2>1, <2>4, CountsNow, LagNext
  <1>3. CASE Uncount
    <2>1. /\ phase = "popped" /\ phase' = "counted" /\ chan' = chan
          /\ depth' = (depth - 1) % DepthModulus
      BY <1>3 DEF Uncount, UncountRow
    <2>2. InHand = 1 /\ InHand' = 0
      BY <2>1 DEF InHand
    <2>3. PICK s \in Int, l \in Int : s = Count(call, Uncounted) /\ l = Len(chan) + InHand
      <3>1. Count(call, Uncounted) \in Int /\ Len(chan) + InHand \in Int
        BY CountsNow, SMT
      <3> QED BY <3>1
    <2>4. Lag(depth, s, l) /\ depth \in 0 .. DepthModulus - 1
      BY <2>3, CountsNow
    <2>5. Lag((depth - 1) % DepthModulus, s, l - 1)
      BY <2>4, LagKept
    <2>6. Len(chan') + InHand' = l - 1
      BY <2>1, <2>2, <2>3, CountsNow, SMT
    <2>7. Lag(depth', Count(call', Uncounted), Len(chan') + InHand')
      BY <2>1, <2>3, <2>5, <2>6
    <2> QED BY <2>7, LagNext
  <1>4. CASE ~ (TakeRow \/ PullRow \/ Uncount)
    <2>1. UNCHANGED <<depth, chan>> /\ phase # "popped" /\ phase' # "popped"
      BY <1>4 DEF Task, SelectLoop, TakeIn, Drain, SealAndSend, Return,
         TakeCtrl, HandleGone, Ingest, AfterIngest, Tick, SizeTrigger,
         PullDone, DrainToCompletion, DropChunk, SplitChunk, Send, SendOk,
         SendFails, PassDone, ReturnToIngest, ReturnToLoop, ReturnToDrain,
         Exit, BeginPass, Fail, Finish
    <2> QED BY <1>1, <2>1
  <1> QED BY <1>2, <1>3, <1>4

\* It counts the rows it drops, each once.
LEMMA TaskCounts ==
  ASSUME UniqueInv, StageInv, CountInv, Task PROVE CountInv'
  <1>1. UNCHANGED <<call, accepted, admitted>>
    BY DEF Task, SelectLoop, TakeIn, Drain, SealAndSend, Return, TakeCtrl,
       HandleGone, TakeRow, Pop, Uncount, Ingest, AfterIngest, Tick,
       SizeTrigger, PullRow, PullDone, DrainToCompletion, DropChunk,
       SplitChunk, Send, SendOk, SendFails, PassDone, ReturnToIngest,
       ReturnToLoop, ReturnToDrain, Exit, callVars
  <1>2. CallsFinite'
    BY <1>1 DEF CountInv, CallsFinite, CallsIn
  <1>3. DepthLag'
    BY <1>1, TaskLag
  <1>4. CASE ~ DropChunk
    <2>1. Here' \subseteq Here /\ UNCHANGED <<dropped, discarded>>
      BY <1>4, TaskWithin
    <2>2. CountersBalance'
      BY <1>1, <2>1 DEF CountInv, CountersBalance
    <2> QED BY <1>1, <1>2, <1>3, <2>1, <2>2 DEF CountInv
  <1>5. CASE DropChunk
    <2> DEFINE rows == ToSet(Head(pending).rows)
    <2>1. /\ Here' \subseteq Here \ rows /\ rows \subseteq Here
          /\ discarded' = discarded \cup rows
          /\ IsFiniteSet(rows) /\ dropped' = dropped + Cardinality(rows)
          /\ \A r \in rows : call[r] \in {"sent", "counted", "ok"}
      BY <1>5, DropWithin
    <2> HIDE DEF rows
    <2>2. discarded \cap rows = {} /\ Cardinality({}) = 0
      BY <2>1, FS_EmptySet DEF CountInv
    <2>3. /\ IsFiniteSet(discarded') /\ Cardinality(rows) \in Nat
          /\ Cardinality(discarded') = Cardinality(discarded) + Cardinality(rows)
      <3>1. /\ IsFiniteSet(discarded \cup rows) /\ Cardinality(rows) \in Nat
            /\ Cardinality(discarded \cup rows)
                 = Cardinality(discarded) + Cardinality(rows) - Cardinality(discarded \cap rows)
        <4>1. IsFiniteSet(discarded)
          BY DEF CountInv
        <4>2. Cardinality(rows) \in Nat
          BY <2>1, FS_CardinalityType
        <4> QED BY <2>1, <4>1, <4>2, FS_Union
      <3>2. Cardinality(discarded \cap rows) = 0
        BY <2>2
      <3>3. Cardinality(discarded \cup rows) = Cardinality(discarded) + Cardinality(rows)
        BY <3>1, <3>2, CountsNow, SMT
      <3> QED BY <2>1, <3>1, <3>3
    <2>4. CountersBalance'
      <3>1. dropped' = Count(call, Refusals) + Cardinality(discarded')
        BY <2>1, <2>3, CountsNow, SMT
      <3> QED BY <1>1, <3>1, CountsNow, BalanceNext
    <2>5. discarded' \cap Here' = {}
      BY <2>1 DEF CountInv
    <2>6. \A r \in discarded' : call'[r] \in {"sent", "counted", "ok"}
      BY <1>1, <2>1 DEF CountInv
    <2> QED BY <1>2, <1>3, <2>3, <2>4, <2>5, <2>6 DEF CountInv
  <1> QED BY <1>4, <1>5

\* The invariant holds initially and every step preserves it.
LEMMA CountInit == Init => CountInv
  <1> SUFFICES ASSUME Init PROVE CountInv
    OBVIOUS
  <1>1. /\ CallsIn(call, Refusals) = {} /\ CallsIn(call, Acceptances) = {}
        /\ CallsIn(call, Unaccepted) = {} /\ CallsIn(call, Uncounted) = {}
    BY DEF Init, CallsIn, Refusals, Acceptances, Unaccepted, Uncounted
  <1>2. IsFiniteSet({}) /\ Cardinality({}) = 0
    BY FS_EmptySet
  <1>3. /\ discarded = {} /\ dropped = 0 /\ accepted = 0 /\ depth = 0
        /\ chan = << >> /\ admitted = << >> /\ InHand = 0
    BY DEF Init, InHand
  <1>4. CountersBalance
    <2>1. 0 = 0 + 0 /\ Len(<< >>) = 0 + 0
      BY SMT
    <2> QED BY <1>1, <1>2, <1>3, <2>1, BalanceIs DEF Count
  <1>5. DepthLag
    <2>1. Lag(0, 0, Len(<< >>) + 0)
      BY SMT DEF Lag
    <2> QED BY <1>1, <1>2, <1>3, <2>1, LagIs DEF Count
  <1> QED BY <1>1, <1>2, <1>3, <1>4, <1>5 DEF CountInv, CallsFinite

LEMMA CountStep == UniqueInv /\ StageInv /\ CountInv /\ [Next]_vars => CountInv'
  <1> SUFFICES ASSUME UniqueInv, StageInv, CountInv, [Next]_vars PROVE CountInv'
    OBVIOUS
  <1>1. CASE \E r \in Rows : Caller(r)
    BY <1>1, CallerCounts
  <1>2. CASE Task
    BY <1>2, TaskCounts
  <1>3. CASE \/ \E c \in Controllers : Request(c)
             \/ DropHandle
             \/ \E b \in sent : ServerStores(b)
             \/ UNCHANGED vars
    <2>1. UNCHANGED <<call, accepted, dropped, depth, chan, staging, held,
                      pending, retry, admitted, discarded, phase>>
      BY <1>3 DEF Request, DropHandle, ServerStores, vars, callVars, taskVars
    <2>2. Here' = Here
      BY <2>1 DEF Here, Loose, QueuedRows, Queued
    <2>3. CallsFinite' /\ CountersBalance' /\ DepthLag'
      BY <2>1 DEF CountInv, CallsFinite, CallsIn, CountersBalance, DepthLag, InHand
    <2> QED BY <2>1, <2>2, <2>3 DEF CountInv
  <1> QED BY <1>1, <1>2, <1>3 DEF Next

CountingInv == UniqueInv /\ StageInv /\ CountInv

LEMMA CountingStep == CountingInv /\ [Next]_vars => CountingInv'
  BY UniqueInvStep, StageStep, CountStep DEF CountingInv

LEMMA CountingInit == Init => CountingInv
  BY InitOnce, StageInit, CountInit DEF CountingInv

\* Every decided call of enqueue is in exactly one counter, and the rows the
\* task drops while sealing are counted once each.
THEOREM CountersBalanceAlways == Spec => []CountersBalance
  <1>1. CountingInv => CountersBalance
    BY DEF CountingInv, CountInv
  <1> QED BY CountingInit, CountingStep, <1>1, PTL DEF Spec

\* channel_depth is, modulo the word, what is in the channel and the row the
\* task has popped and not yet uncounted, less the calls that have sent a row
\* and not yet counted it; nothing else moves it.
THEOREM DepthLagAlways == Spec => []DepthLag
  <1>1. CountingInv => DepthLag
    BY DEF CountingInv, CountInv
  <1> QED BY CountingInit, CountingStep, <1>1, PTL DEF Spec

HIDE DEF ConfigAssumption, CallAssumption

-----------------------------------------------------------------------------
(* Taking the elements of a set out of a sequence.                         *)

Keeps(f, s, X) ==
  f = [i \in 0 .. Len(s) |-> IF i = 0 THEN << >>
                             ELSE IF s[i] \in X THEN f[i - 1] ELSE Append(f[i - 1], s[i])]

KeepsWithout(f, S, s, X) ==
  f \in [0 .. Len(s) -> Seq(S)] /\ Keeps(f, s, X) /\ Without(s, X) = f[Len(s)]

\* The recursive function exists, so what Without takes of it is its last value.
LEMMA WithoutDefined ==
  ASSUME NEW S, NEW X, NEW s \in Seq(S) PROVE \E f : KeepsWithout(f, S, s, X)
  <1> DEFINE n == Len(s)
             step == [i \in 1 .. n |-> [v \in Seq(S) |-> IF s[i] \in X THEN v ELSE Append(v, s[i])]]
  <1>1. n \in Nat /\ 0 <= n /\ 0 \in Nat /\ << >> \in Seq(S) /\ \A i \in 1 .. n : s[i] \in S
    OBVIOUS
  <1>2. step \in [0 + 1 .. n -> [Seq(S) -> Seq(S)]]
    BY <1>1
  <1> HIDE DEF step, n
  <1>3. PICK f : Steps(f, Seq(S), 0, n, << >>, step)
    BY <1>1, <1>2, StepsExist, Zenon
  <1>4. /\ f \in [0 .. n -> Seq(S)] /\ f[0] = << >>
        /\ \A i \in 1 .. n : f[i] = step[i][f[i - 1]]
    BY <1>3 DEF Steps
  <1>5. ASSUME NEW i \in 0 .. n
        PROVE  f[i] = IF i = 0 THEN << >>
                      ELSE IF s[i] \in X THEN f[i - 1] ELSE Append(f[i - 1], s[i])
    <2>1. CASE i = 0
      BY <1>4, <2>1
    <2>2. CASE i # 0
      <3>1. i \in 1 .. n /\ i - 1 \in 0 .. n
        BY <2>2, <1>1
      <3>2. f[i - 1] \in Seq(S)
        BY <3>1, <1>4
      <3>3. step[i][f[i - 1]] = IF s[i] \in X THEN f[i - 1] ELSE Append(f[i - 1], s[i])
        BY <3>1, <3>2 DEF step
      <3> QED BY <1>4, <2>2, <3>1, <3>3
    <2> QED BY <2>1, <2>2
  <1>6. f = [i \in 0 .. n |-> IF i = 0 THEN << >>
                              ELSE IF s[i] \in X THEN f[i - 1] ELSE Append(f[i - 1], s[i])]
    BY <1>4, <1>5
  <1> DEFINE c == CHOOSE c : c = [i \in 0 .. n |-> IF i = 0 THEN << >>
                              ELSE IF s[i] \in X THEN c[i - 1] ELSE Append(c[i - 1], s[i])]
  <1>7. c = [i \in 0 .. n |-> IF i = 0 THEN << >>
                              ELSE IF s[i] \in X THEN c[i - 1] ELSE Append(c[i - 1], s[i])]
    BY <1>6, Zenon
  <1>8. Without(s, X) = c[n]
    BY Zenon DEF Without, n
  <1> HIDE DEF c
  <1>9. GoOnAlike(c, f, 0, n)
    <2>1. c[0] = f[0]
      BY <1>1, <1>6, <1>7
    <2>2. ASSUME NEW i \in 0 + 1 .. n, c[i - 1] = f[i - 1] PROVE c[i] = f[i]
      <3>1. i \in 0 .. n /\ i # 0
        BY <1>1
      <3>2. c[i] = IF s[i] \in X THEN c[i - 1] ELSE Append(c[i - 1], s[i])
        BY <1>7, <3>1
      <3>3. f[i] = IF s[i] \in X THEN f[i - 1] ELSE Append(f[i - 1], s[i])
        BY <1>5, <3>1
      <3> QED BY <2>2, <3>2, <3>3
    <2> QED BY <2>1, <2>2 DEF GoOnAlike
  <1>10. Alike(c, f, 0, n)
    BY <1>1, <1>9, StayAlike, Zenon
  <1>11. n \in 0 .. n
    BY <1>1
  <1>12. Without(s, X) = f[n]
    BY <1>8, <1>10, <1>11 DEF Alike
  <1> QED BY <1>4, <1>6, <1>12 DEF KeepsWithout, Keeps, n

\* Nothing is left of nothing.
LEMMA WithoutEmpty == ASSUME NEW X PROVE Without(<< >>, X) = << >>
  <1>1. << >> \in Seq({})
    OBVIOUS
  <1>2. PICK f : KeepsWithout(f, {}, << >>, X)
    BY <1>1, WithoutDefined, Zenon
  <1>3. Len(<< >>) = 0 /\ 0 \in 0 .. 0
    OBVIOUS
  <1> QED BY <1>2, <1>3 DEF KeepsWithout, Keeps

\* One more element is left out or comes last.
LEMMA WithoutAppend ==
  ASSUME NEW S, NEW X, NEW s \in Seq(S), NEW e \in S
  PROVE  /\ Without(s, X) \in Seq(S)
         /\ Without(Append(s, e), X) = IF e \in X THEN Without(s, X) ELSE Append(Without(s, X), e)
  <1> DEFINE t == Append(s, e)
             n == Len(s)
  <1>1. /\ n \in Nat /\ t \in Seq(S) /\ Len(t) = n + 1 /\ t[n + 1] = e
        /\ \A i \in 1 .. n : t[i] = s[i]
    BY AppendProperties, LenProperties
  <1>2. PICK g : g \in [0 .. n -> Seq(S)] /\ Keeps(g, s, X) /\ Without(s, X) = g[n]
    <2>1. PICK g : KeepsWithout(g, S, s, X)
      BY WithoutDefined, Zenon
    <2> QED BY <2>1 DEF KeepsWithout
  <1> HIDE DEF t
  <1>3. PICK f : f \in [0 .. n + 1 -> Seq(S)] /\ Keeps(f, t, X) /\ Without(t, X) = f[n + 1]
    <2>1. t \in Seq(S)
      BY <1>1
    <2>2. PICK f : KeepsWithout(f, S, t, X)
      BY <2>1, WithoutDefined, Zenon
    <2> QED BY <1>1, <2>2 DEF KeepsWithout
  <1>4. \A i \in 0 .. n + 1 :
          f[i] = IF i = 0 THEN << >> ELSE IF t[i] \in X THEN f[i - 1] ELSE Append(f[i - 1], t[i])
    BY <1>1, <1>3 DEF Keeps
  <1>5. \A i \in 0 .. n :
          g[i] = IF i = 0 THEN << >> ELSE IF s[i] \in X THEN g[i - 1] ELSE Append(g[i - 1], s[i])
    BY <1>2 DEF Keeps
  <1> HIDE DEF n
  <1>6. GoOnAlike(f, g, 0, n)
    <2>1. f[0] = g[0]
      <3>1. 0 \in 0 .. n /\ 0 \in 0 .. n + 1
        BY <1>1
      <3> QED BY <1>4, <1>5, <3>1, Zenon
    <2>2. ASSUME NEW i \in 0 + 1 .. n, f[i - 1] = g[i - 1] PROVE f[i] = g[i]
      <3>1. i \in 0 .. n /\ i \in 0 .. n + 1 /\ i \in 1 .. n /\ i # 0
        BY <1>1
      <3>2. f[i] = IF t[i] \in X THEN f[i - 1] ELSE Append(f[i - 1], t[i])
        BY <1>4, <3>1
      <3>3. g[i] = IF s[i] \in X THEN g[i - 1] ELSE Append(g[i - 1], s[i])
        BY <1>5, <3>1
      <3>4. t[i] = s[i]
        BY <1>1, <3>1
      <3> QED BY <2>2, <3>2, <3>3, <3>4
    <2> QED BY <2>1, <2>2 DEF GoOnAlike
  <1>7. Alike(f, g, 0, n)
    <2>1. 0 \in Nat /\ n \in Nat
      BY <1>1
    <2> QED BY <1>6, <2>1, StayAlike, Zenon
  <1>8. n + 1 \in 0 .. n + 1 /\ n + 1 # 0 /\ (n + 1) - 1 = n /\ n \in 0 .. n
    BY <1>1
  <1>9. f[n] = g[n] /\ g[n] \in Seq(S)
    <2>1. f[n] = g[n]
      BY <1>7, <1>8 DEF Alike
    <2>2. g \in [0 .. n -> Seq(S)]
      BY <1>2
    <2> QED BY <1>8, <2>1, <2>2
  <1>10. f[n + 1] = IF t[n + 1] \in X THEN f[n] ELSE Append(f[n], t[n + 1])
    BY <1>4, <1>8
  <1> QED BY <1>1, <1>2, <1>3, <1>9, <1>10 DEF t

\* What is left is a sequence of the same elements.
LEMMA WithoutType ==
  ASSUME NEW S, NEW X, NEW s \in Seq(S) PROVE Without(s, X) \in Seq(S)
  <1>1. CASE s = << >>
    BY <1>1, WithoutEmpty
  <1>2. CASE s # << >>
    <2>1. s[1] \in S
      BY <1>2
    <2> QED BY <2>1, WithoutAppend
  <1> QED BY <1>1, <1>2

\* Of two parts each for itself.
LEMMA WithoutConcat ==
  ASSUME NEW S, NEW X, NEW s \in Seq(S), NEW u \in Seq(S)
  PROVE  Without(s \o u, X) = Without(s, X) \o Without(u, X)
  <1> DEFINE T == {t \in Seq(S) : Without(s \o t, X) = Without(s, X) \o Without(t, X)}
  <1>1. Without(s, X) \in Seq(S)
    BY WithoutType
  <1>2. << >> \in T
    <2>1. s \o << >> = s /\ << >> \in Seq(S) /\ Without(s, X) \o << >> = Without(s, X)
      BY <1>1
    <2> QED BY <2>1, WithoutEmpty
  <1>3. ASSUME NEW t \in Seq(S), NEW e \in S, t \in T PROVE Append(t, e) \in T
    <2>1. Without(s \o t, X) = Without(s, X) \o Without(t, X)
      BY <1>3
    <2>2. s \o t \in Seq(S) /\ s \o Append(t, e) = Append(s \o t, e) /\ Append(t, e) \in Seq(S)
      OBVIOUS
    <2>3. Without(Append(s \o t, e), X)
            = IF e \in X THEN Without(s \o t, X) ELSE Append(Without(s \o t, X), e)
      <3>1. PICK v \in Seq(S) : v = s \o t
        BY <2>2
      <3>2. Without(Append(v, e), X) = IF e \in X THEN Without(v, X) ELSE Append(Without(v, X), e)
        BY WithoutAppend
      <3> QED BY <3>1, <3>2
    <2>4. /\ Without(Append(t, e), X)
               = IF e \in X THEN Without(t, X) ELSE Append(Without(t, X), e)
          /\ Without(t, X) \in Seq(S)
      BY WithoutAppend
    <2>5. Append(Without(s, X) \o Without(t, X), e) = Without(s, X) \o Append(Without(t, X), e)
      <3> HIDE DEF T
      <3>1. PICK v \in Seq(S) : v = Without(s, X)
        BY <1>1
      <3>2. PICK w \in Seq(S) : w = Without(t, X)
        BY <2>4
      <3>3. Append(v \o w, e) = v \o Append(w, e)
        <4>1. <<e>> \in Seq(S)
          OBVIOUS
        <4>2. Append(w, e) = w \o <<e>> /\ v \o w \in Seq(S)
          OBVIOUS
        <4>3. Append(v \o w, e) = (v \o w) \o <<e>>
          BY <4>2
        <4>4. (v \o w) \o <<e>> = v \o (w \o <<e>>)
          BY <4>1
        <4> QED BY <4>2, <4>3, <4>4
      <3> QED BY <3>1, <3>2, <3>3
    <2> QED BY <2>1, <2>2, <2>3, <2>4, <2>5
  <1>4. Seq(S) \subseteq T
    <2> HIDE DEF T
    <2> QED BY <1>2, <1>3, SequencesInduction
  <1> QED BY <1>4

\* Only the elements that are there count.
LEMMA WithoutSame ==
  ASSUME NEW S, NEW X, NEW Y, NEW s \in Seq(S), \A i \in 1 .. Len(s) : s[i] \in X <=> s[i] \in Y
  PROVE  Without(s, X) = Without(s, Y)
  <1> DEFINE T == {t \in Seq(S) : (\A i \in 1 .. Len(t) : t[i] \in X <=> t[i] \in Y)
                                     => Without(t, X) = Without(t, Y)}
  <1>1. << >> \in T
    <2>1. << >> \in Seq(S)
      OBVIOUS
    <2> QED BY <2>1, WithoutEmpty
  <1>2. ASSUME NEW t \in Seq(S), NEW e \in S, t \in T PROVE Append(t, e) \in T
    <2> DEFINE v == Append(t, e)
               n == Len(t)
    <2>1. /\ v \in Seq(S) /\ Len(v) = n + 1 /\ v[n + 1] = e /\ n \in Nat
          /\ \A i \in 1 .. n : v[i] = t[i]
      BY AppendProperties, LenProperties
    <2>2. /\ Without(v, X) = IF e \in X THEN Without(t, X) ELSE Append(Without(t, X), e)
          /\ Without(v, Y) = IF e \in Y THEN Without(t, Y) ELSE Append(Without(t, Y), e)
      BY WithoutAppend
    <2> HIDE DEF v
    <2>3. ASSUME \A i \in 1 .. n + 1 : v[i] \in X <=> v[i] \in Y
          PROVE  Without(v, X) = Without(v, Y)
      <3>1. \A i \in 1 .. n : i \in 1 .. n + 1
        BY <2>1
      <3>2. \A i \in 1 .. n : t[i] \in X <=> t[i] \in Y
        BY <2>1, <2>3, <3>1
      <3>3. e \in X <=> e \in Y
        <4>1. n + 1 \in 1 .. n + 1
          BY <2>1
        <4> QED BY <2>1, <2>3, <4>1
      <3>4. Without(t, X) = Without(t, Y)
        BY <1>2, <3>2
      <3> QED BY <2>2, <3>3, <3>4
    <2> QED BY <2>1, <2>3 DEF v
  <1>3. Seq(S) \subseteq T
    <2> HIDE DEF T
    <2> QED BY <1>1, <1>2, SequencesInduction
  <1> QED BY <1>3

\* Taking out nothing.
LEMMA WithoutNothing ==
  ASSUME NEW S, NEW s \in Seq(S) PROVE Without(s, {}) = s
  <1> DEFINE T == {t \in Seq(S) : Without(t, {}) = t}
  <1>1. << >> \in T
    BY WithoutEmpty
  <1>2. ASSUME NEW t \in Seq(S), NEW e \in S, t \in T PROVE Append(t, e) \in T
    <2>1. Without(Append(t, e), {}) = Append(Without(t, {}), e) /\ Append(t, e) \in Seq(S)
      BY WithoutAppend
    <2> QED BY <1>2, <2>1
  <1>3. Seq(S) \subseteq T
    <2> HIDE DEF T
    <2> QED BY <1>1, <1>2, SequencesInduction
  <1> QED BY <1>3

\* Taking out everything.
LEMMA WithoutAll ==
  ASSUME NEW S, NEW s \in Seq(S) PROVE Without(s, S) = << >>
  <1> DEFINE T == {t \in Seq(S) : Without(t, S) = << >>}
  <1>1. << >> \in T
    <2>1. << >> \in Seq(S)
      OBVIOUS
    <2> QED BY <2>1, WithoutEmpty
  <1>2. ASSUME NEW t \in Seq(S), NEW e \in S, t \in T PROVE Append(t, e) \in T
    <2>1. Without(Append(t, e), S) = Without(t, S) /\ Append(t, e) \in Seq(S)
      BY WithoutAppend
    <2> QED BY <1>2, <2>1
  <1>3. Seq(S) \subseteq T
    <2> HIDE DEF T
    <2> QED BY <1>1, <1>2, SequencesInduction
  <1> QED BY <1>3

\* One set after the other is both at once.
LEMMA WithoutBoth ==
  ASSUME NEW S, NEW X, NEW Y, NEW s \in Seq(S)
  PROVE  Without(Without(s, X), Y) = Without(s, X \cup Y)
  <1> DEFINE T == {t \in Seq(S) : Without(Without(t, X), Y) = Without(t, X \cup Y)}
  <1>1. << >> \in T
    <2>1. << >> \in Seq(S)
      OBVIOUS
    <2> QED BY <2>1, WithoutEmpty
  <1>2. ASSUME NEW t \in Seq(S), NEW e \in S, t \in T PROVE Append(t, e) \in T
    <2> DEFINE u == Without(t, X)
    <2>1. /\ u \in Seq(S) /\ Append(t, e) \in Seq(S)
          /\ Without(Append(t, e), X) = IF e \in X THEN u ELSE Append(u, e)
          /\ Without(Append(t, e), X \cup Y)
               = IF e \in X \cup Y THEN Without(t, X \cup Y) ELSE Append(Without(t, X \cup Y), e)
      BY WithoutAppend
    <2>2. Without(u, Y) = Without(t, X \cup Y)
      BY <1>2
    <2> HIDE DEF u
    <2>3. Without(Append(u, e), Y) = IF e \in Y THEN Without(u, Y) ELSE Append(Without(u, Y), e)
      BY <2>1, WithoutAppend
    <2> QED BY <2>1, <2>2, <2>3
  <1>3. Seq(S) \subseteq T
    <2> HIDE DEF T
    <2> QED BY <1>1, <1>2, SequencesInduction
  <1> QED BY <1>3

\* The same for rows, in the form the leaves below instantiate.
LEMMA WithoutParts ==
  \A X : \A s, u \in Seq(Rows) : Without(s \o u, X) = Without(s, X) \o Without(u, X)
  BY WithoutConcat

-----------------------------------------------------------------------------
(* The rows of a sequence of batches.                                      *)

\* The rows of batches, queue by queue.
LEMMA RowSeqs ==
  ASSUME NEW q \in Seq(Batch)
  PROVE  /\ [i \in DOMAIN q |-> q[i].rows] \in Seq(Seq(Rows))
         /\ Len([i \in DOMAIN q |-> q[i].rows]) = Len(q)
         /\ \A k \in 1 .. Len(q) : [i \in DOMAIN q |-> q[i].rows][k] = q[k].rows
  <1> DEFINE V == Seq(Rows)
             n == Len(q)
             p == [i \in 1 .. n |-> q[i].rows]
  <1>1. n \in Nat /\ DOMAIN q = 1 .. n
    BY LenProperties
  <1>2. \A i \in 1 .. n : q[i].rows \in V
    <2>1. \A b \in Batch : b.rows \in V
      BY DEF Batch
    <2> QED BY <1>1, <2>1, ElementOfSeq
  <1> HIDE DEF V, n
  <1>3. p \in [1 .. n -> V]
    BY <1>2
  <1>4. p \in Seq(V) /\ Len(p) = n
    BY <1>1, <1>3
  <1> QED BY <1>1, <1>4 DEF n, V

\* They are a sequence of rows.
LEMMA RowsOfType == ASSUME NEW q \in Seq(Batch) PROVE RowsOf(q) \in Seq(Rows)
  BY RowSeqs, FlattenType DEF RowsOf

\* No batch, no rows.
LEMMA RowsOfEmpty == RowsOf(<< >>) = << >>
  <1>1. [i \in DOMAIN << >> |-> << >>[i].rows] = << >>
    OBVIOUS
  <1> QED BY <1>1, FlattenEmpty DEF RowsOf

\* The rows of two queues are those of the first, then those of the second.
LEMMA RowsOfConcat ==
  ASSUME NEW p \in Seq(Batch), NEW q \in Seq(Batch)
  PROVE  RowsOf(p \o q) = RowsOf(p) \o RowsOf(q)
  <1> DEFINE V == Seq(Rows)
             P == [i \in DOMAIN p |-> p[i].rows]
             Q == [i \in DOMAIN q |-> q[i].rows]
             A == [i \in DOMAIN (p \o q) |-> (p \o q)[i].rows]
  <1>1. /\ p \o q \in Seq(Batch) /\ Len(p \o q) = Len(p) + Len(q)
        /\ \A i \in 1 .. Len(p) + Len(q) :
             (p \o q)[i] = IF i <= Len(p) THEN p[i] ELSE q[i - Len(p)]
        /\ Len(p) \in Nat /\ Len(q) \in Nat
    BY ConcatProperties, LenProperties
  <1>2. /\ P \in Seq(V) /\ Len(P) = Len(p) /\ \A i \in 1 .. Len(p) : P[i] = p[i].rows
    BY RowSeqs
  <1>3. /\ Q \in Seq(V) /\ Len(Q) = Len(q) /\ \A i \in 1 .. Len(q) : Q[i] = q[i].rows
    BY RowSeqs
  <1>4. /\ A \in Seq(V) /\ Len(A) = Len(p \o q) /\ \A i \in 1 .. Len(p \o q) : A[i] = (p \o q)[i].rows
    <2>1. PICK t \in Seq(Batch) : t = p \o q
      BY <1>1
    <2> QED BY <2>1, RowSeqs
  <1> HIDE DEF V, P, Q, A
  <1>5. /\ P \o Q \in Seq(V) /\ Len(P \o Q) = Len(P) + Len(Q)
        /\ \A i \in 1 .. Len(P) + Len(Q) :
             (P \o Q)[i] = IF i <= Len(P) THEN P[i] ELSE Q[i - Len(P)]
    <2>1. P \in Seq(V) /\ Q \in Seq(V)
      BY <1>2, <1>3
    <2> QED BY <2>1, ConcatProperties, Zenon
  <1>6. ASSUME NEW i \in 1 .. Len(p) + Len(q) PROVE A[i] = (P \o Q)[i]
    <2>1. CASE i <= Len(p)
      <3>1. i \in 1 .. Len(p)
        BY <1>1, <2>1
      <3> QED BY <1>1, <1>2, <1>3, <1>4, <1>5, <2>1, <3>1
    <2>2. CASE ~ (i <= Len(p))
      <3>1. i - Len(p) \in 1 .. Len(q)
        BY <1>1, <2>2
      <3> QED BY <1>1, <1>2, <1>3, <1>4, <1>5, <2>2, <3>1
    <2> QED BY <2>1, <2>2
  <1>7. A = P \o Q
    <2>1. Len(A) = Len(P \o Q)
      BY <1>1, <1>2, <1>3, <1>4, <1>5
    <2>2. \A i \in 1 .. Len(A) : A[i] = (P \o Q)[i]
      BY <1>1, <1>4, <1>6
    <2> QED BY <1>4, <1>5, <2>1, <2>2, SeqEqual, Zenon
  <1>8. FlattenSeq(P \o Q) = FlattenSeq(P) \o FlattenSeq(Q)
    BY <1>2, <1>3, FlattenConcat DEF V
  <1> QED BY <1>7, <1>8 DEF RowsOf, A, P, Q

\* The rows of one batch.
LEMMA RowsOfOne == ASSUME NEW b \in Batch PROVE RowsOf(<<b>>) = b.rows
  <1> DEFINE r == b.rows
             p == [i \in DOMAIN <<b>> |-> <<b>>[i].rows]
  <1>1. r \in Seq(Rows)
    BY DEF Batch
  <1>2. p = <<r>>
    OBVIOUS
  <1> HIDE DEF r, p
  <1>3. << >> \in Seq(Seq(Rows)) /\ Append(<< >>, r) = <<r>> /\ << >> \o r = r
    BY <1>1
  <1>4. FlattenSeq(Append(<< >>, r)) = FlattenSeq(<< >>) \o r
    BY <1>1, <1>3, FlattenAppend
  <1>5. FlattenSeq(p) = r
    BY <1>2, <1>3, <1>4, FlattenEmpty
  <1> QED BY <1>5 DEF RowsOf, r, p

\* A batch at the end brings its rows to the end.
LEMMA RowsOfAppend ==
  ASSUME NEW q \in Seq(Batch), NEW b \in Batch
  PROVE  RowsOf(Append(q, b)) = RowsOf(q) \o b.rows
  <1>1. Append(q, b) = q \o <<b>> /\ <<b>> \in Seq(Batch)
    OBVIOUS
  <1> QED BY <1>1, RowsOfOne, RowsOfConcat

\* The rows of the first batch come first.
LEMMA RowsOfHead ==
  ASSUME NEW q \in Seq(Batch), q # << >>
  PROVE  RowsOf(q) = Head(q).rows \o RowsOf(Tail(q))
  <1>1. /\ q = <<Head(q)>> \o Tail(q) /\ <<Head(q)>> \in Seq(Batch) /\ Tail(q) \in Seq(Batch)
        /\ Head(q) \in Batch
    OBVIOUS
  <1>2. PICK t \in Seq(Batch) : t = Tail(q)
    BY <1>1
  <1>3. PICK b \in Batch : b = Head(q)
    BY <1>1
  <1>4. RowsOf(<<b>> \o t) = RowsOf(<<b>>) \o RowsOf(t) 
    BY <1>1, <1>3, RowsOfConcat
  <1> QED BY <1>1, <1>2, <1>3, <1>4, RowsOfOne

\* The rows of batches are those of each of them.
LEMMA RowsTell ==
  ASSUME NEW q \in Seq(Batch)
  PROVE  ToSet(RowsOf(q)) = UNION {ToSet(b.rows) : b \in ToSet(q)}
  <1> DEFINE Of(t) == UNION {ToSet(b.rows) : b \in ToSet(t)}
             T == {t \in Seq(Batch) : ToSet(RowsOf(t)) = Of(t)}
  <1>1. << >> \in T
    <2>1. << >> \in Seq(Batch) /\ ToSet(<< >>) = {}
      BY DEF ToSet
    <2> QED BY <2>1, RowsOfEmpty
  <1>2. ASSUME NEW t \in Seq(Batch), NEW e \in Batch, t \in T PROVE Append(t, e) \in T
    <2>1. Append(t, e) \in Seq(Batch) /\ ToSet(Append(t, e)) = ToSet(t) \cup {e}
      BY AppendOnce
    <2>2. RowsOf(t) \in Seq(Rows) /\ e.rows \in Seq(Rows)
      BY RowsOfType DEF Batch
    <2>3. ToSet(RowsOf(t) \o e.rows) = ToSet(RowsOf(t)) \cup ToSet(e.rows)
      <3>1. PICK x \in Seq(Rows) : x = RowsOf(t)
        BY <2>2
      <3>2. PICK y \in Seq(Rows) : y = e.rows
        BY <2>2
      <3>3. ToSet(x \o y) = ToSet(x) \cup ToSet(y)
        BY ConcatOnce
      <3> QED BY <3>1, <3>2, <3>3
    <2>4. RowsOf(Append(t, e)) = RowsOf(t) \o e.rows
      BY RowsOfAppend
    <2>5. ToSet(RowsOf(t)) = Of(t)
      BY <1>2
    <2>6. Of(Append(t, e)) = Of(t) \cup ToSet(e.rows)
      BY <2>1
    <2> QED BY <2>1, <2>3, <2>4, <2>5, <2>6
  <1>3. Seq(Batch) \subseteq T
    <2> HIDE DEF T
    <2> QED BY <1>1, <1>2, SequencesInduction
  <1> QED BY <1>3

-----------------------------------------------------------------------------

\* Appending to two parts is appending to the second.
LEMMA AppendConcat ==
  ASSUME NEW s \in Seq(Rows), NEW t \in Seq(Rows), NEW e \in Rows
  PROVE  Append(s \o t, e) = s \o Append(t, e)
  <1>1. <<e>> \in Seq(Rows)
    OBVIOUS
  <1>2. Append(t, e) = t \o <<e>> /\ s \o t \in Seq(Rows)
    OBVIOUS
  <1>3. Append(s \o t, e) = (s \o t) \o <<e>>
    BY <1>2
  <1>4. (s \o t) \o <<e>> = s \o (t \o <<e>>)
    BY <1>1
  <1> QED BY <1>2, <1>3, <1>4

\* Elements that are not there do not matter.
LEMMA WithoutApart ==
  ASSUME NEW s \in Seq(Rows), NEW X, NEW Y, ToSet(s) \cap X = {}
  PROVE  Without(s, Y \cup X) = Without(s, Y)
  <1>1. \A i \in 1 .. Len(s) : s[i] \in ToSet(s)
    BY ToSetSeq
  <1>2. \A i \in 1 .. Len(s) : s[i] \in Y \cup X <=> s[i] \in Y
    BY <1>1
  <1> QED BY <1>2, WithoutSame

\* What is all in the set goes.
LEMMA WithoutThere ==
  ASSUME NEW s \in Seq(Rows), NEW X, ToSet(s) \subseteq X
  PROVE  Without(s, X) = << >>
  <1>1. \A i \in 1 .. Len(s) : s[i] \in ToSet(s) /\ s[i] \in Rows
    BY ToSetSeq, ElementOfSeq
  <1>2. \A i \in 1 .. Len(s) : s[i] \in X <=> s[i] \in Rows
    BY <1>1
  <1>3. Without(s, X) = Without(s, Rows)
    BY <1>2, WithoutSame
  <1> QED BY <1>3, WithoutAll

\* What is not in the set stays.
LEMMA WithoutNone ==
  ASSUME NEW s \in Seq(Rows), NEW X, ToSet(s) \cap X = {}
  PROVE  Without(s, X) = s
  <1>1. {} \cup X = X
    OBVIOUS
  <1>2. Without(s, {} \cup X) = Without(s, {})
    BY WithoutApart
  <1> QED BY <1>1, <1>2, WithoutNothing

\* The account: what is stored, followed by what is on its way and not stored,
\* is what was accepted and not dropped.
Balanced(past, way, S, taken, D) == past \o Without(way, S) = Without(taken, D)

\* A row is accepted.
LEMMA BalancedAccept ==
  ASSUME NEW past \in Seq(Rows), NEW way \in Seq(Rows), NEW S, NEW taken \in Seq(Rows), NEW D,
         NEW r \in Rows, r \notin S, r \notin D, Balanced(past, way, S, taken, D)
  PROVE  Balanced(past, Append(way, r), S, Append(taken, r), D)
  <1> DEFINE w == Without(way, S)
  <1>1. Without(Append(way, r), S) = Append(w, r) /\ w \in Seq(Rows)
    BY WithoutAppend
  <1>2. Without(Append(taken, r), D) = Append(Without(taken, D), r)
    BY WithoutAppend
  <1>3. past \o w = Without(taken, D)
    BY DEF Balanced
  <1> HIDE DEF w
  <1>4. past \o Append(w, r) = Append(past \o w, r)
    <2>1. w \in Seq(Rows)
      BY <1>1
    <2> QED BY <2>1, AppendConcat
  <1> QED BY <1>1, <1>2, <1>3, <1>4 DEF Balanced

\* The head of what is on its way is dropped.
LEMMA BalancedDrop ==
  ASSUME NEW past \in Seq(Rows), NEW R \in Seq(Rows), NEW Q \in Seq(Rows), NEW S,
         NEW taken \in Seq(Rows), NEW D, Balanced(past, R \o Q, S, taken, D),
         ToSet(past) \cap ToSet(R) = {}, ToSet(Q) \cap ToSet(R) = {}
  PROVE  Balanced(past, Q, S, taken, D \cup ToSet(R))
  <1> DEFINE X == ToSet(R)
             y == Without(R, S)
             z == Without(Q, S)
             w == y \o z
  <1>1. y \in Seq(Rows) /\ z \in Seq(Rows)
    BY WithoutType
  <1>2. Without(R \o Q, S) = Without(R, S) \o Without(Q, S)
    BY WithoutParts
  <1>3. past \o w = Without(taken, D)
    BY <1>2 DEF Balanced
  <1>4. Without(past, X) = past
    BY WithoutNone
  <1>5. Without(y, X) = << >>
    <2>1. Without(y, X) = Without(R, S \cup X)
      BY WithoutBoth
    <2>2. ToSet(R) \subseteq S \cup X
      OBVIOUS
    <2> QED BY <2>1, <2>2, WithoutThere
  <1>6. Without(z, X) = z
    <2>1. Without(z, X) = Without(Q, S \cup X)
      BY WithoutBoth
    <2>2. Without(Q, S \cup X) = Without(Q, S)
      BY WithoutApart
    <2> QED BY <2>1, <2>2
  <1>7. Without(Without(taken, D), X) = Without(taken, D \cup X)
    BY WithoutBoth
  <1> HIDE DEF X, y, z
  <1>8. w \in Seq(Rows)
    BY <1>1
  <1>9. Without(w, X) = Without(y, X) \o Without(z, X)
    <2>1. y \in Seq(Rows) /\ z \in Seq(Rows)
      BY <1>1
    <2> QED BY <2>1, WithoutParts
  <1>10. << >> \o z = z
    BY <1>1
  <1> HIDE DEF w
  <1>11. Without(past \o w, X) = Without(past, X) \o Without(w, X)
    BY <1>8, WithoutParts
  <1>12. past \o z = Without(taken, D \cup X)
    BY <1>3, <1>4, <1>5, <1>6, <1>7, <1>9, <1>10, <1>11
  <1> QED BY <1>12 DEF Balanced, X, z

\* The head of what is on its way is known to be stored.
LEMMA BalancedGone ==
  ASSUME NEW past \in Seq(Rows), NEW R \in Seq(Rows), NEW Q \in Seq(Rows), NEW S,
         NEW taken \in Seq(Rows), NEW D, Balanced(past, R \o Q, S, taken, D), ToSet(R) \subseteq S
  PROVE  Balanced(past, Q, S, taken, D)
  <1> DEFINE z == Without(Q, S)
  <1>1. Without(R \o Q, S) = Without(R, S) \o z
    BY WithoutConcat
  <1>2. Without(R, S) = << >>
    BY WithoutThere
  <1>3. z \in Seq(Rows)
    BY WithoutType
  <1>4. past \o Without(R \o Q, S) = Without(taken, D)
    BY DEF Balanced
  <1> HIDE DEF z
  <1>5. << >> \o z = z
    BY <1>3
  <1>6. past \o z = Without(taken, D)
    BY <1>1, <1>2, <1>4, <1>5
  <1> QED BY <1>6 DEF Balanced, z

\* The head of what is on its way is stored.
LEMMA BalancedStore ==
  ASSUME NEW past \in Seq(Rows), NEW R \in Seq(Rows), NEW Q \in Seq(Rows), NEW S,
         NEW taken \in Seq(Rows), NEW D, Balanced(past, R \o Q, S, taken, D),
         ToSet(R) \cap S = {}, ToSet(Q) \cap ToSet(R) = {}
  PROVE  Balanced(past \o R, R \o Q, S \cup ToSet(R), taken, D)
  <1> DEFINE X == S \cup ToSet(R)
             z == Without(Q, S)
  <1>1. z \in Seq(Rows)
    BY WithoutType
  <1>2. Without(R \o Q, S) = Without(R, S) \o z
    BY WithoutParts
  <1>3. Without(R, S) = R
    BY WithoutNone
  <1>4. past \o Without(R \o Q, S) = Without(taken, D)
    BY DEF Balanced
  <1>5. Without(R \o Q, X) = Without(R, X) \o Without(Q, X)
    BY WithoutParts
  <1>6. Without(R, X) = << >>
    <2>1. ToSet(R) \subseteq X
      OBVIOUS
    <2> QED BY <2>1, WithoutThere
  <1>7. Without(Q, X) = z
    BY WithoutApart
  <1> HIDE DEF z, X
  <1>8. << >> \o z = z
    BY <1>1
  <1>9. (past \o R) \o z = past \o (R \o z)
    BY <1>1
  <1>10. (past \o R) \o Without(R \o Q, X) = Without(taken, D)
    BY <1>2, <1>3, <1>4, <1>5, <1>6, <1>7, <1>8, <1>9
  <1> QED BY <1>10 DEF Balanced, X

-----------------------------------------------------------------------------
\* The stages of the buffer one after the other, and the moves between them.
Pipe(a, b, c, d, e) == a \o b \o c \o d \o e

Stages(a, b, c, d, e) ==
  /\ a \in Seq(Rows) /\ b \in Seq(Rows) /\ c \in Seq(Rows)
  /\ d \in Seq(Rows) /\ e \in Seq(Rows)

\* The stages together are a sequence of the rows of each.
LEMMA PipeType ==
  ASSUME NEW a, NEW b, NEW c, NEW d, NEW e, Stages(a, b, c, d, e)
  PROVE  /\ Pipe(a, b, c, d, e) \in Seq(Rows)
         /\ ToSet(Pipe(a, b, c, d, e)) = ToSet(a) \cup ToSet(b) \cup ToSet(c) \cup ToSet(d) \cup ToSet(e)
  <1>1. a \in Seq(Rows) /\ b \in Seq(Rows) /\ c \in Seq(Rows) /\ d \in Seq(Rows) /\ e \in Seq(Rows)
    BY DEF Stages
  <1> USE <1>1
  <1> DEFINE x == a \o b
             y == x \o c
             z == y \o d
             w == z \o e
  <1>2. x \in Seq(Rows) /\ ToSet(x) = ToSet(a) \cup ToSet(b)
    BY ConcatOnce
  <1> HIDE DEF x
  <1>3. y \in Seq(Rows) /\ ToSet(y) = ToSet(x) \cup ToSet(c)
    BY <1>2, ConcatOnce
  <1> HIDE DEF y
  <1>4. z \in Seq(Rows) /\ ToSet(z) = ToSet(y) \cup ToSet(d)
    BY <1>3, ConcatOnce
  <1> HIDE DEF z
  <1>5. w \in Seq(Rows) /\ ToSet(w) = ToSet(z) \cup ToSet(e)
    BY <1>4, ConcatOnce
  <1> HIDE DEF w
  <1>6. Pipe(a, b, c, d, e) = w
    BY DEF Pipe, w, z, y, x
  <1> QED BY <1>2, <1>3, <1>4, <1>5, <1>6

\* What comes before the first stage comes before them all.
LEMMA PipeHead ==
  ASSUME NEW a, NEW b, NEW c, NEW d, NEW e, Stages(a, b, c, d, e), NEW r \in Seq(Rows)
  PROVE  Pipe(r \o a, b, c, d, e) = r \o Pipe(a, b, c, d, e)
  <1> DEFINE x == a \o b
             y == x \o c
             z == y \o d
  <1>1. a \in Seq(Rows) /\ b \in Seq(Rows)
    BY DEF Stages
  <1>2. x \in Seq(Rows)
    BY <1>1
  <1>3. (r \o a) \o b = r \o x
    BY <1>1
  <1> HIDE DEF x
  <1>4. c \in Seq(Rows)
    BY DEF Stages
  <1>5. y \in Seq(Rows)
    BY <1>2, <1>4
  <1>6. (r \o x) \o c = r \o y
    BY <1>2, <1>4
  <1> HIDE DEF y
  <1>7. d \in Seq(Rows)
    BY DEF Stages
  <1>8. z \in Seq(Rows)
    BY <1>5, <1>7
  <1>9. (r \o y) \o d = r \o z
    BY <1>5, <1>7
  <1> HIDE DEF z
  <1>10. e \in Seq(Rows)
    BY DEF Stages
  <1>11. (r \o z) \o e = r \o (z \o e)
    BY <1>8, <1>10
  <1>12. Pipe(a, b, c, d, e) = z \o e
    BY DEF Pipe, z, y, x
  <1> QED BY <1>3, <1>6, <1>9, <1>11, <1>12, Zenon DEF Pipe

\* A row enters at the end.
LEMMA PipeEnter ==
  ASSUME NEW a, NEW b, NEW c, NEW d, NEW e, Stages(a, b, c, d, e), NEW r \in Rows
  PROVE  Pipe(a, b, c, d, Append(e, r)) = Append(Pipe(a, b, c, d, e), r)
  <1>1. a \in Seq(Rows) /\ b \in Seq(Rows) /\ c \in Seq(Rows) /\ d \in Seq(Rows) /\ e \in Seq(Rows)
    BY DEF Stages
  <1> USE <1>1
  <1> DEFINE x == a \o b
             y == x \o c
             z == y \o d
  <1>2. x \in Seq(Rows)
    OBVIOUS
  <1> HIDE DEF x
  <1>3. y \in Seq(Rows)
    BY <1>2
  <1> HIDE DEF y
  <1>4. z \in Seq(Rows)
    BY <1>3
  <1> HIDE DEF z
  <1>5. Append(z \o e, r) = z \o Append(e, r)
    BY <1>4, AppendConcat
  <1> QED BY <1>5 DEF Pipe, x, y, z

\* With nothing pending the retry buffer comes first, and sealing puts what
\* is staged behind it.
LEMMA PipeSeal ==
  ASSUME NEW b, NEW c, NEW d, NEW e, Stages(<< >>, b, c, d, e)
  PROVE  Pipe(<< >>, b, c, d, e) = Pipe(b \o c, << >>, << >>, d, e)
  <1>1. b \in Seq(Rows) /\ c \in Seq(Rows) /\ d \in Seq(Rows) /\ e \in Seq(Rows)
    BY DEF Stages
  <1> USE <1>1
  <1> DEFINE x == b \o c
  <1>2. x \in Seq(Rows) /\ << >> \o b = b
    OBVIOUS
  <1> HIDE DEF x
  <1>3. x \o << >> = x
    BY <1>2
  <1>4. Pipe(<< >>, b, c, d, e) = x \o d \o e
    BY <1>2 DEF Pipe, x
  <1>5. Pipe(x, << >>, << >>, d, e) = x \o d \o e
    BY <1>3 DEF Pipe
  <1> QED BY <1>4, <1>5 DEF x

\* With nothing pending, the retry buffer could as well be pending.
LEMMA PipeAgain ==
  ASSUME NEW b, NEW c, NEW d, NEW e, Stages(<< >>, b, c, d, e)
  PROVE  Pipe(<< >>, b, c, d, e) = Pipe(b, << >>, c, d, e)
  <1>1. b \in Seq(Rows) /\ c \in Seq(Rows) /\ d \in Seq(Rows) /\ e \in Seq(Rows)
    BY DEF Stages
  <1> USE <1>1
  <1>2. << >> \o b = b /\ b \o << >> = b
    OBVIOUS
  <1> QED BY <1>2 DEF Pipe

\* The row in hand is staged.
LEMMA PipeLand ==
  ASSUME NEW a, NEW b, NEW c, NEW d, NEW e, Stages(a, b, c, d, e)
  PROVE  Pipe(a, b, c, d, e) = Pipe(a, b, c \o d, << >>, e)
  <1>1. a \in Seq(Rows) /\ b \in Seq(Rows) /\ c \in Seq(Rows) /\ d \in Seq(Rows) /\ e \in Seq(Rows)
    BY DEF Stages
  <1> USE <1>1
  <1> DEFINE x == a \o b
             w == c \o d
             y == x \o w
  <1>2. x \in Seq(Rows) /\ w \in Seq(Rows)
    OBVIOUS
  <1> HIDE DEF x
  <1>3. (x \o c) \o d = y
    BY <1>2, SMTT(30)
  <1> HIDE DEF w
  <1>4. y \in Seq(Rows)
    BY <1>2
  <1> HIDE DEF y
  <1>5. y \o << >> = y
    BY <1>4
  <1>6. Pipe(a, b, c, d, e) = y \o e
    BY <1>3 DEF Pipe, x
  <1>7. Pipe(a, b, w, << >>, e) = y \o e
    BY <1>5 DEF Pipe, x, y
  <1> QED BY <1>6, <1>7 DEF w

\* The oldest row of the channel is taken in hand.
LEMMA PipeTake ==
  ASSUME NEW a, NEW b, NEW c, NEW e, Stages(a, b, c, << >>, e), e # << >>
  PROVE  Pipe(a, b, c, << >>, e) = Pipe(a, b, c, <<Head(e)>>, Tail(e))
  <1> DEFINE x == a \o b
             y == x \o c
             h == <<Head(e)>>
             t == Tail(e)
  <1>1. a \in Seq(Rows) /\ b \in Seq(Rows) /\ c \in Seq(Rows) /\ e \in Seq(Rows)
    BY DEF Stages
  <1>2. x \in Seq(Rows) /\ h \in Seq(Rows) /\ t \in Seq(Rows) /\ e = h \o t
    BY <1>1
  <1> HIDE DEF x, h, t
  <1>3. y \in Seq(Rows)
    BY <1>1, <1>2
  <1> HIDE DEF y
  <1>4. y \o << >> = y
    BY <1>3
  <1>5. y \o (h \o t) = (y \o h) \o t
    <2>1. h \in Seq(Rows)
      BY <1>2
    <2>2. t \in Seq(Rows)
      BY <1>2
    <2> QED BY <1>3, <2>1, <2>2
  <1>6. Pipe(a, b, c, << >>, e) = y \o (h \o t)
    BY <1>2, <1>4 DEF Pipe, x, y
  <1>7. Pipe(a, b, c, h, t) = (y \o h) \o t
    BY DEF Pipe, x, y
  <1> QED BY <1>5, <1>6, <1>7 DEF h, t

\* Two batches and those after them.
LEMMA TwoFirst ==
  ASSUME NEW h \in Seq(Batch), NEW t \in Seq(Batch), Len(h) = 2
  PROVE  /\ Len(h \o t) = 2 + Len(t) /\ Len(t) \in Nat /\ (h \o t)[2] = h[2]
         /\ \A i \in 3 .. 2 + Len(t) : (h \o t)[i] = t[i - 2]
  <1>1. Len(t) \in Nat
    BY LenProperties
  <1>2. /\ Len(h \o t) = Len(h) + Len(t)
        /\ \A i \in 1 .. Len(h) + Len(t) :
             (h \o t)[i] = IF i <= Len(h) THEN h[i] ELSE t[i - Len(h)]
    BY ConcatProperties, Zenon
  <1>3. (h \o t)[2] = h[2]
    <2>1. 2 \in 1 .. Len(h) + Len(t) /\ 2 <= Len(h)
      BY <1>1
    <2> QED BY <1>2, <2>1
  <1>4. ASSUME NEW i \in 3 .. 2 + Len(t) PROVE (h \o t)[i] = t[i - 2]
    <2>1. i \in 1 .. Len(h) + Len(t) /\ ~ (i <= Len(h))
      BY <1>1
    <2> QED BY <1>2, <2>1
  <1> QED BY <1>1, <1>2, <1>3, <1>4

-----------------------------------------------------------------------------
USE ConfigAssumption, CallAssumption DEF ConfigAssumption, CallAssumption

\* Two neighbouring runs of a sequence that starts at its beginning.
LEMMA RunsJoin ==
  ASSUME NEW s \in Seq(Rows), NEW k \in 0 .. Len(s), NEW n \in k .. Len(s)
  PROVE  SubSeq(s, 1, k) \o SubSeq(s, k + 1, n) = SubSeq(s, 1, n)
  <1>1. Len(s) \in Nat
    BY LenProperties
  <1>2. 1 \in 1 .. Len(s) + 1 /\ k \in 1 - 1 .. Len(s)
    BY <1>1
  <1> QED BY <1>2, ConcatAdjacentSubSeq, Zenon

\* Splitting a chunk keeps its rows and their order.
LEMMA RowsOfHalves ==
  ASSUME NEW b \in Batch, NEW fresh \in Nat
  PROVE  RowsOf(Halves(b, fresh)) = b.rows
  <1> DEFINE q == Halves(b, fresh)
             s == b.rows
             mid == Len(s) \div 2
             x == SubSeq(s, 1, mid)
             y == SubSeq(s, mid + 1, Len(s))
             u == b.id
  <1>1. s \in Seq(Rows) /\ Len(s) \in Nat /\ u \in Nat
    BY LenProperties DEF Batch
  <1>2. /\ q \in Seq(Batch) /\ Len(q) = 2
        /\ q[1] = [id |-> u, rows |-> x] /\ q[2] = [id |-> fresh, rows |-> y]
    BY HalvesType
  <1>3. x \in Seq(Rows) /\ y \in Seq(Rows) /\ mid \in 0 .. Len(s)
    BY <1>1, HalfSeqs
  <1>4. x \o y = s
    <2> HIDE DEF s, mid
    <2>1. Len(s) \in mid .. Len(s)
      BY <1>1, <1>3
    <2>2. SubSeq(s, 1, mid) \o SubSeq(s, mid + 1, Len(s)) = SubSeq(s, 1, Len(s))
      BY <1>1, <1>3, <2>1, RunsJoin, Zenon
    <2>3. SubSeq(s, 1, Len(s)) = s
      BY <1>1, SubSeqFull
    <2> QED BY <2>2, <2>3
  <1> HIDE DEF q, s, mid, x, y, u
  <1>5. PICK l \in Batch : l = [id |-> u, rows |-> x]
    BY <1>1, <1>3 DEF Batch
  <1>6. PICK h \in Batch : h = [id |-> fresh, rows |-> y]
    BY <1>3 DEF Batch
  <1>7. l.rows = x /\ h.rows = y
    BY <1>5, <1>6, Fields
  <1>8. q = Append(<<l>>, h) /\ <<l>> \in Seq(Batch)
    BY <1>2, <1>5, <1>6
  <1>9. RowsOf(Append(<<l>>, h)) = RowsOf(<<l>>) \o h.rows
    BY <1>8, RowsOfAppend
  <1>10. RowsOf(<<l>>) = l.rows
    BY RowsOfOne
  <1> QED BY <1>4, <1>7, <1>8, <1>9, <1>10 DEF q, s

\* A prefix and the one that is longer by one.
LEMMA PrefixNext ==
  ASSUME NEW S, NEW q \in Seq(S), NEW i \in Nat, i + 1 \in 1 .. Len(q)
  PROVE  /\ SubSeq(q, 1, i + 1) = Append(SubSeq(q, 1, i), q[i + 1])
         /\ SubSeq(q, 1, i) \in Seq(S) /\ q[i + 1] \in S
  OBVIOUS

\* A chunk starts where the one before it ends, and the last ends with the rows.
LEMMA ChunksMeet ==
  ASSUME NEW n \in Nat
  PROVE  /\ Upto(0, n) = 0 /\ Upto(ChunkCount(n), n) = n
         /\ \A i \in Nat : i + 1 \in 1 .. ChunkCount(n) =>
              /\ Upto(i, n) \in 0 .. n /\ From(i + 1) = Upto(i, n) + 1
              /\ Upto(i + 1, n) \in Upto(i, n) .. n
  <1>1. Upto(0, n) = 0
    <2>1. 0 * FlushMaxRows = 0
      BY SMT
    <2> QED BY <2>1 DEF Upto
  <1>2. Upto(ChunkCount(n), n) = n
    <2>1. PICK m \in Nat : m = ChunkCount(n)
      BY ChunkCountNat
    <2>2. n <= m * FlushMaxRows
      BY <2>1, SMT DEF ChunkCount
    <2>3. m * FlushMaxRows \in Nat
      BY SMT
    <2>4. PICK a \in Nat : a = m * FlushMaxRows
      BY <2>3
    <2> QED BY <2>1, <2>2, <2>4 DEF Upto
  <1>3. ASSUME NEW i \in Nat, i + 1 \in 1 .. ChunkCount(n)
        PROVE  /\ Upto(i, n) \in 0 .. n /\ From(i + 1) = Upto(i, n) + 1
               /\ Upto(i + 1, n) \in Upto(i, n) .. n
    <2>1. From(i + 1) \in 1 .. n /\ Upto(i + 1, n) \in From(i + 1) .. n
      BY <1>3, ChunkBounds
    <2>2. (i + 1) * FlushMaxRows = i * FlushMaxRows + FlushMaxRows /\ i * FlushMaxRows \in Nat
      BY SMT
    <2>3. PICK a \in Nat : a = i * FlushMaxRows
      BY <2>2
    <2>4. From(i + 1) = a + 1
      <3>1. (i + 1) * FlushMaxRows = a + FlushMaxRows
        BY <2>2, <2>3
      <3>2. (a + FlushMaxRows) - FlushMaxRows + 1 = a + 1
        BY SMT
      <3> QED BY <3>1, <3>2 DEF From
    <2>5. a < n
      BY <2>1, <2>4
    <2>6. Upto(i, n) = a
      BY <2>3, <2>5 DEF Upto
    <2> QED BY <2>1, <2>4, <2>5, <2>6
  <1> QED BY <1>1, <1>2, <1>3

\* So does sealing the staged rows.
LEMMA RowsOfChunks ==
  ASSUME NEW s \in Seq(Rows), NEW base \in Nat
  PROVE  RowsOf(Chunks(s, base)) = s
  <1> DEFINE q == Chunks(s, base)
             n == Len(s)
             m == ChunkCount(n)
             T == {i \in Nat : i <= m => RowsOf(SubSeq(q, 1, i)) = SubSeq(s, 1, Upto(i, n))}
  <1>1. /\ n \in Nat /\ m \in Nat /\ q \in Seq(Batch) /\ Len(q) = m
        /\ \A i \in 1 .. m : q[i] = [id |-> base + i - 1, rows |-> SubSeq(s, From(i), Upto(i, n))]
    BY ChunksType, LenProperties, ChunkCountNat
  <1> HIDE DEF q, n, m
  <1>2. 0 \in T
    <2>1. SubSeq(q, 1, 0) = << >> /\ SubSeq(s, 1, 0) = << >>
      <3>1. 1 \in Int /\ 0 \in Int /\ 0 < 1
        OBVIOUS
      <3> QED BY <3>1, SubSeqEmpty, Zenon
    <2>2. Upto(0, n) = 0
      BY <1>1, ChunksMeet
    <2> QED BY <2>1, <2>2, RowsOfEmpty
  <1>3. ASSUME NEW i \in Nat, i \in T PROVE i + 1 \in T
    <2> SUFFICES ASSUME i + 1 <= m
                 PROVE  RowsOf(SubSeq(q, 1, i + 1)) = SubSeq(s, 1, Upto(i + 1, n))
      OBVIOUS
    <2>1. RowsOf(SubSeq(q, 1, i)) = SubSeq(s, 1, Upto(i, n))
      BY <1>1, <1>3
    <2>2. i + 1 \in 1 .. m /\ i \in 0 .. m
      BY <1>1
    <2>3. /\ Upto(i, n) \in 0 .. n /\ From(i + 1) = Upto(i, n) + 1
          /\ Upto(i + 1, n) \in Upto(i, n) .. n
      BY <1>1, <2>2, ChunksMeet DEF m
    <2>4. PICK u \in 0 .. n : u = Upto(i, n)
      BY <2>3
    <2>5. PICK v \in u .. n : v = Upto(i + 1, n)
      BY <2>3, <2>4
    <2>6. q[i + 1].rows = SubSeq(s, u + 1, v)
      <3> DEFINE x == base + (i + 1) - 1
                 y == SubSeq(s, From(i + 1), Upto(i + 1, n))
                 b == q[i + 1]
      <3>1. b = [id |-> x, rows |-> y]
        BY <1>1, <2>2
      <3>2. y = SubSeq(s, u + 1, v)
        BY <2>3, <2>4, <2>5
      <3> HIDE DEF x, y, b
      <3>3. b.rows = y
        BY <3>1, Fields
      <3> QED BY <3>2, <3>3 DEF b
    <2>7. SubSeq(s, 1, u) \o SubSeq(s, u + 1, v) = SubSeq(s, 1, v)
      BY RunsJoin DEF n
    <2>8. /\ SubSeq(q, 1, i + 1) = Append(SubSeq(q, 1, i), q[i + 1])
          /\ SubSeq(q, 1, i) \in Seq(Batch) /\ q[i + 1] \in Batch
      <3>1. q \in Seq(Batch) /\ i + 1 \in 1 .. Len(q) /\ i \in Nat
        BY <1>1, <2>2
      <3> QED BY <3>1, PrefixNext
    <2>9. RowsOf(Append(SubSeq(q, 1, i), q[i + 1])) = RowsOf(SubSeq(q, 1, i)) \o q[i + 1].rows
      BY <2>8, RowsOfAppend
    <2> QED BY <2>1, <2>4, <2>5, <2>6, <2>7, <2>8, <2>9
  <1>4. Nat \subseteq T
    <2> HIDE DEF T
    <2> QED BY <1>2, <1>3, NumbersInduction
  <1>5. RowsOf(SubSeq(q, 1, m)) = SubSeq(s, 1, Upto(m, n))
    BY <1>1, <1>4
  <1>6. Upto(m, n) = n
    BY <1>1, ChunksMeet DEF m
  <1>7. SubSeq(q, 1, m) = q /\ SubSeq(s, 1, n) = s
    BY <1>1, SubSeqFull DEF n
  <1> QED BY <1>5, <1>6, <1>7 DEF q

-----------------------------------------------------------------------------
(***************************************************************************)
(* The ledger of rows.  A request that was sent stays queued until it is   *)
(* stored, so a row reaches the server from the buffer and a row that is   *)
(* dropped was never sent; hence every step moves the rows of the ledger   *)
(* as the ledger allows, or not at all.                                    *)
(***************************************************************************)
SentInv == /\ sent \subseteq ToSet(stored) \cup Queued
           /\ \A b \in sent : ~ Unbuildable(b)
           /\ discarded \cap StoredRows = {}

\* A batch that is stored was sent, and a batch that shares a row with a sent
\* batch is that batch.
LEMMA SentApart ==
  ASSUME UniqueInv, StoreInv, NEW b \in Queued, b \notin sent
  PROVE  ToSet(b.rows) \cap StoredRows = {}
  <1>1. \A d \in ToSet(stored) : d # b /\ Same(d, b)
    BY DEF StoreInv, UniqueInv, BatchOnce, Batches
  <1> QED BY <1>1, StoredTells DEF Same

\* A request stays queued until it is stored.
LEMMA SealSent ==
  ASSUME UniqueInv, StoreInv, SentInv, SealAndSend PROVE SentInv'
  <1>1. /\ pending \in Seq(Batch) /\ nextId \in Nat
        /\ phase \in {"pass", "send"} /\ retry = << >> /\ ToSet(<< >>) = {}
        /\ phase = "send" => pending # << >>
    <2>1. phase \in {"pass", "send"}
      BY DEF SealAndSend, DropChunk, SplitChunk, Send, SendOk, SendFails, PassDone
    <2>2. ToSet(<< >>) = {}
      BY DEF ToSet
    <2> QED BY <2>1, <2>2 DEF UniqueInv, TypeInv, TypeOK, BatchOnce
  <1>2. pending # << >> => /\ ToSet(pending) = {Head(pending)} \cup ToSet(Tail(pending))
                           /\ Head(pending) \in Batch /\ Tail(pending) \in Seq(Batch)
    BY <1>1, TailOnce, SeqOps
  <1>3. Queued = ToSet(pending)
    BY <1>1 DEF Queued
  <1>4. stored' = stored /\ StoredRows' = StoredRows
    BY DEF SealAndSend, DropChunk, SplitChunk, Send, SendOk, SendFails,
       PassDone, sinkVars, StoredRows
  <1>5. CASE PassDone
    BY <1>4, <1>5 DEF PassDone, sinkVars, Queued, SentInv
  <1>6. CASE SendFails
    <2>1. Queued' = Queued /\ UNCHANGED <<sent, discarded>>
      BY <1>1, <1>6 DEF SendFails, Fail, sinkVars, Queued
    <2> QED BY <1>4, <2>1 DEF SentInv
  <1>7. CASE Send
    <2>1. /\ sent' = sent \cup {Head(pending)} /\ pending # << >>
          /\ UNCHANGED <<pending, retry, discarded>> /\ ~ Unbuildable(Head(pending))
      BY <1>7 DEF Send
    <2>2. Queued' = Queued
      BY <2>1 DEF Queued
    <2> QED BY <1>2, <1>3, <1>4, <2>1, <2>2 DEF SentInv
  <1>8. CASE SendOk
    <2> DEFINE b == Head(pending)
    <2>1. /\ pending # << >> /\ pending' = Tail(pending) /\ b.id \in StoredIds
          /\ UNCHANGED <<sent, discarded>>
      BY <1>1, <1>8 DEF SendOk, sinkVars
    <2>2. b \in Batches /\ ToSet(stored) \subseteq Batches
      BY <1>2, <1>3, <2>1 DEF Batches, StoreInv
    <2>3. PICK d \in ToSet(stored) : d.id = b.id
      BY <2>1, StoredTells
    <2>4. d = b
      BY <2>2, <2>3 DEF UniqueInv, BatchOnce, Same
    <2>5. Queued \subseteq Queued' \cup {b}
      BY <1>2, <1>3, <2>1 DEF Queued
    <2> QED BY <1>4, <2>1, <2>3, <2>4, <2>5 DEF SentInv
  <1>9. CASE DropChunk \/ SplitChunk
    <2> DEFINE b == Head(pending)
    <2>1. /\ pending # << >> /\ sent' = sent
          /\ Unbuildable(b) \/ Oversize(b)
      BY <1>9 DEF DropChunk, SplitChunk, sinkVars
    <2>2. b \notin sent /\ b \in Queued
      <3>1. b \in Queued
        BY <1>2, <1>3, <2>1
      <3>2. \A d \in sent : ~ Unbuildable(d) /\ ~ Oversize(d)
        BY DEF SentInv, UniqueInv, BatchOnce
      <3> HIDE DEF b
      <3> QED BY <2>1, <3>1, <3>2
    <2>3. Queued \subseteq Queued' \cup {b}
      <3>1. CASE DropChunk
        BY <1>2, <1>3, <2>1, <3>1 DEF DropChunk, Fail, Queued
      <3>2. CASE SplitChunk
        <4> DEFINE q == Halves(b, nextId)
                   rest == Tail(pending)
        <4>1. pending' = q \o rest /\ q \in Seq(Batch) /\ rest \in Seq(Batch)
          BY <1>1, <1>2, <2>1, <3>2, HalvesType DEF SplitChunk
        <4> HIDE DEF q, rest
        <4>2. ToSet(pending') = ToSet(q) \cup ToSet(rest)
          BY <4>1, ConcatOnce
        <4>3. ToSet(pending) = {b} \cup ToSet(rest)
          BY <1>2, <2>1 DEF rest
        <4>4. ToSet(pending') \subseteq Queued'
          BY DEF Queued
        <4> HIDE DEF b
        <4> QED BY <1>3, <4>2, <4>3, <4>4
      <3> QED BY <1>9, <3>1, <3>2
    <2>4. discarded' \subseteq discarded \cup ToSet(b.rows)
      BY <1>9 DEF DropChunk, SplitChunk
    <2>5. ToSet(b.rows) \cap StoredRows = {}
      BY <2>2, SentApart
    <2> HIDE DEF b
    <2> QED BY <1>4, <2>1, <2>2, <2>3, <2>4, <2>5 DEF SentInv
  <1> QED BY <1>5, <1>6, <1>7, <1>8, <1>9 DEF SealAndSend

\* A row that reaches the server was in the buffer and had not been dropped.
LEMMA StoreMoves ==
  ASSUME UniqueInv, StoreInv, CountInv, SentInv, NEW b \in sent, ServerStores(b)
  PROVE  /\ StoredRows' = StoredRows \cup ToSet(b.rows) /\ ToSet(b.rows) \subseteq Here
         /\ ToSet(stored') = ToSet(stored) \cup {b}
         /\ discarded \cap ToSet(b.rows) = {}
  <1>1. stored \in Seq(Batch) /\ b \in Batch /\ stored' = Append(stored, b)
    BY DEF UniqueInv, TypeInv, TypeOK, ServerStores
  <1>2. ToSet(stored') = ToSet(stored) \cup {b}
    BY <1>1, AppendOnce
  <1>3. b \in Queued
    <2>1. b \notin ToSet(stored)
      BY StoredTells DEF ServerStores
    <2> QED BY <2>1 DEF SentInv
  <1>4. ToSet(b.rows) \subseteq Here
    BY <1>3 DEF Here, QueuedRows
  <1>5. StoredRows' = UNION {ToSet(d.rows) : d \in ToSet(stored')}
    BY DEF StoredRows, ToSet
  <1>6. StoredRows' = StoredRows \cup ToSet(b.rows)
    BY <1>2, <1>5, StoredTells
  <1> QED BY <1>2, <1>4, <1>6 DEF CountInv

\* Sealing takes no batch out of the queues.
LEMMA BeginQueues ==
  ASSUME UniqueInv, BeginPass, phase \notin {"pass", "send"}
  PROVE  Queued \subseteq Queued'
  <1> DEFINE q == Chunks(staging, nextId)
  <1>1. /\ staging \in Seq(Rows) /\ nextId \in Nat /\ retry \in Seq(Batch)
        /\ pending = << >> /\ ToSet(<< >>) = {}
    BY DEF UniqueInv, TypeInv, TypeOK, BatchOnce, ToSet
  <1>2. q \in Seq(Batch) /\ pending' = retry \o q
    BY <1>1, ChunksType DEF BeginPass
  <1> HIDE DEF q
  <1>3. ToSet(pending') = ToSet(retry) \cup ToSet(q)
    BY <1>1, <1>2, ConcatOnce
  <1> QED BY <1>1, <1>3 DEF Queued

\* Nor does any other step take a request away before it is stored.
LEMMA SentStep ==
  ASSUME UniqueInv, StageInv, StoreInv, CountInv, SentInv, [Next]_vars
  PROVE  SentInv'
  <1>1. CASE UNCHANGED <<pending, retry, sent, stored, discarded>>
    BY <1>1 DEF SentInv, Queued, StoredRows
  <1>2. CASE SealAndSend
    BY <1>2, SealSent
  <1>3. CASE Task /\ ~ SealAndSend
    <2>1. discarded' = discarded
      BY <1>3, TaskWithin DEF SealAndSend
    <2>2. UNCHANGED <<sent, stored>> /\ StoredRows' = StoredRows
      BY <1>3 DEF Task, SelectLoop, TakeIn, Drain, Return, TakeCtrl,
         HandleGone, TakeRow, Pop, Uncount, Ingest, AfterIngest, Tick,
         SizeTrigger, PullRow, PullDone, DrainToCompletion, ReturnToIngest,
         ReturnToLoop, ReturnToDrain, Exit, sinkVars, StoredRows
    <2>3. CASE UNCHANGED <<pending, retry>>
      BY <1>1, <2>1, <2>2, <2>3
    <2>4. CASE BeginPass /\ phase \notin {"pass", "send"}
      <3>1. Queued \subseteq Queued'
        BY <2>4, BeginQueues
      <3> QED BY <2>1, <2>2, <3>1 DEF SentInv
    <2> QED
      BY <1>3, <2>3, <2>4 DEF Task, SelectLoop, TakeIn, Drain, Return,
         TakeCtrl, HandleGone, TakeRow, Pop, Uncount, Ingest, AfterIngest,
         Tick, SizeTrigger, PullRow, PullDone, DrainToCompletion,
         ReturnToIngest, ReturnToLoop, ReturnToDrain, Exit
  <1>4. ASSUME NEW b \in sent, ServerStores(b) PROVE SentInv'
    <2>1. UNCHANGED <<pending, retry, sent, discarded>> /\ Queued' = Queued
      BY <1>4 DEF ServerStores, taskVars, Queued
    <2>2. /\ StoredRows' = StoredRows \cup ToSet(b.rows)
          /\ ToSet(stored') = ToSet(stored) \cup {b}
          /\ discarded \cap ToSet(b.rows) = {}
      BY <1>4, StoreMoves
    <2> QED BY <2>1, <2>2 DEF SentInv
  <1>5. ~ Task => \/ UNCHANGED <<pending, retry, sent, stored, discarded>>
                  \/ \E b \in sent : ServerStores(b)
    BY DEF Next, Caller, Enqueue, TrySend, CountAccepted, CountDepth, Request,
       DropHandle, vars, taskVars, sinkVars
  <1> QED BY <1>1, <1>2, <1>3, <1>4, <1>5

-----------------------------------------------------------------------------
(* What the ledger says of each row, as a function of where the rows are.   *)

Fates(D, X, H, f, p) ==
  [r \in Rows |->
     CASE r \in D              -> "stored"
       [] r \in X \ D          -> "dropped"
       [] r \in H \ D          -> IF p = "exit" THEN "abandoned" ELSE "buffered"
       [] f[r] = "refused"     -> "refused"
       [] OTHER                -> "new"]

\* No row is in two of the places, and only accepted rows are in one.
Apart(D, X, H, f) == /\ X \cap D = {} /\ X \cap H = {}
                     /\ \A r \in D \cup X \cup H : f[r] \in {"sent", "counted", "ok"}

\* The fate of a row follows from its place and its call.
LEMMA FateOf ==
  ASSUME NEW D, NEW X, NEW H, NEW f, NEW p, Apart(D, X, H, f),
         NEW r \in Rows, NEW s, s = Fates(D, X, H, f, p)[r]
  PROVE  /\ r \in D => s = "stored"
         /\ r \in X => s = "dropped"
         /\ r \in H \ D /\ p = "exit" => s = "abandoned"
         /\ r \in H \ D /\ p # "exit" => s = "buffered"
         /\ r \notin D \cup X \cup H /\ f[r] = "refused" => s = "refused"
         /\ r \notin D \cup X \cup H /\ f[r] # "refused" => s = "new"
  BY DEF Fates, Apart

\* The status the refinement maps is the fate, before and after a step.
LEMMA StatusFates ==
  /\ Status = Fates(StoredRows, discarded, Here, call, phase)
  /\ Status' = Fates(StoredRows', discarded', Here', call', phase')
  BY DEF Status, Fates

-----------------------------------------------------------------------------
(* The moves of the ledger.                                                *)

ApartInv == Apart(StoredRows, discarded, Here, call)

\* The places of a row are apart.
LEMMA PlacesApart ==
  ASSUME UniqueInv, StoreInv, CountInv, SentInv PROVE ApartInv
  <1>1. \A r \in StoredRows : call[r] \in {"sent", "counted", "ok"}
    BY StoredTells DEF StoreInv, UniqueInv, BatchOnce, Batches, Sealed
  <1>2. \A r \in Here : call[r] \in {"sent", "counted", "ok"}
    BY DEF UniqueInv, BatchOnce, Batches, Sealed, LooseOnce, Here, QueuedRows
  <1> QED BY <1>1, <1>2 DEF ApartInv, Apart, CountInv, SentInv

\* The phase matters at the end of the task only.
LEMMA SamePhase ==
  ASSUME NEW D, NEW X, NEW H, NEW f, NEW p, NEW q, p # "exit", q # "exit"
  PROVE  Fates(D, X, H, f, q) = Fates(D, X, H, f, p)
  BY DEF Fates

\* A step that only moves rows within the buffer.
LEMMA SameFates ==
  ASSUME NEW D, NEW X, NEW H, NEW f, NEW K, NEW g, NEW p,
         Apart(D, X, H, f), Apart(D, X, K, g), K \subseteq H, H \subseteq D \cup X \cup K,
         \A r \in Rows : f[r] = "refused" <=> g[r] = "refused"
  PROVE  Fates(D, X, K, g, p) = Fates(D, X, H, f, p)
  <1> DEFINE old(r) == Fates(D, X, H, f, p)[r]
             new(r) == Fates(D, X, K, g, p)[r]
  <1>1. ASSUME NEW r \in Rows PROVE new(r) = old(r)
    <2>1. /\ r \in D => old(r) = "stored" /\ new(r) = "stored"
          /\ r \in X => old(r) = "dropped" /\ new(r) = "dropped"
      BY FateOf
    <2>2. r \in H \ D /\ r \notin X => r \in K \ D
      OBVIOUS
    <2>3. r \in H \ D /\ r \in K \ D => old(r) = new(r)
      <3>1. CASE p = "exit"
        BY <3>1, FateOf
      <3>2. CASE p # "exit"
        BY <3>2, FateOf
      <3> QED BY <3>1, <3>2
    <2>4. CASE r \notin D \cup X \cup H
      <3>1. CASE f[r] = "refused"
        BY <2>4, <3>1, FateOf
      <3>2. CASE f[r] # "refused"
        BY <2>4, <3>2, FateOf
      <3> QED BY <3>1, <3>2
    <2> HIDE DEF old, new
    <2> QED BY <2>1, <2>2, <2>3, <2>4
  <1> QED BY <1>1 DEF Fates

\* A fate is one of the states the ledger knows.
LEMMA FatesType ==
  ASSUME NEW D, NEW X, NEW H, NEW f, NEW p, Apart(D, X, H, f)
  PROVE  Fates(D, X, H, f, p) \in [Rows -> {"new", "refused", "buffered", "stored",
                                            "dropped", "abandoned"}]
  <1> DEFINE s(r) == Fates(D, X, H, f, p)[r]
  <1>1. ASSUME NEW r \in Rows
        PROVE  s(r) \in {"new", "refused", "buffered", "stored", "dropped", "abandoned"}
    BY FateOf
  <1>2. Fates(D, X, H, f, p) = [r \in Rows |-> s(r)]
    BY DEF Fates
  <1> HIDE DEF s
  <1> QED BY <1>1, <1>2

\* The rows that change make the move from x to y.
Moving(old, new, x, y) ==
  \A r \in Rows : old[r] = new[r] \/ (old[r] = x /\ new[r] = y)

\* A row is refused.
LEMMA RefusedFate ==
  ASSUME NEW D, NEW X, NEW H, NEW f, NEW g, NEW p, NEW q \in Rows,
         Apart(D, X, H, f), Apart(D, X, H, g),
         f[q] \in {"idle", "trying"}, g[q] = "refused",
         \A r \in Rows \ {q} : g[r] = f[r]
  PROVE  Moving(Fates(D, X, H, f, p), Fates(D, X, H, g, p), "new", "refused")
  <1> DEFINE old(r) == Fates(D, X, H, f, p)[r]
             new(r) == Fates(D, X, H, g, p)[r]
  <1>1. q \notin D \cup X \cup H
    BY DEF Apart
  <1>2. old(q) = "new" /\ new(q) = "refused"
    BY <1>1, FateOf
  <1>3. ASSUME NEW r \in Rows \ {q} PROVE new(r) = old(r)
    BY <1>3 DEF Fates
  <1> QED BY <1>2, <1>3 DEF Moving

\* A row is taken into the channel.
LEMMA BufferedFate ==
  ASSUME NEW D, NEW X, NEW H, NEW f, NEW g, NEW p, NEW q \in Rows,
         Apart(D, X, H, f), Apart(D, X, H \cup {q}, g), p # "exit",
         f[q] = "trying", \A r \in Rows \ {q} : g[r] = f[r]
  PROVE  Moving(Fates(D, X, H, f, p), Fates(D, X, H \cup {q}, g, p), "new", "buffered")
  <1> DEFINE K == H \cup {q}
             old(r) == Fates(D, X, H, f, p)[r]
             new(r) == Fates(D, X, K, g, p)[r]
  <1>1. q \notin D \cup X \cup H
    BY DEF Apart
  <1>2. old(q) = "new"
    BY <1>1, FateOf
  <1>3. new(q) = "buffered"
    <2>1. Apart(D, X, K, g) /\ q \in K \ D
      BY <1>1
    <2> QED BY <2>1, FateOf
  <1>4. ASSUME NEW r \in Rows \ {q} PROVE new(r) = old(r)
    BY <1>4 DEF Fates
  <1> QED BY <1>2, <1>3, <1>4 DEF Moving

\* The rows of a chunk are dropped.
LEMMA DroppedFate ==
  ASSUME NEW D, NEW X, NEW H, NEW K, NEW f, NEW p, NEW R,
         Apart(D, X, H, f), Apart(D, X \cup R, K, f), p # "exit",
         R \subseteq H, K \subseteq H, H \subseteq D \cup X \cup R \cup K
  PROVE  Moving(Fates(D, X, H, f, p), Fates(D, X \cup R, K, f, p), "buffered", "dropped")
  <1> DEFINE Y == X \cup R
             old(r) == Fates(D, X, H, f, p)[r]
             new(r) == Fates(D, Y, K, f, p)[r]
  <1>1. Apart(D, Y, K, f) /\ Y \cap D = {}
    BY DEF Apart
  <1> HIDE DEF Y
  <1>2. ASSUME NEW r \in R, r \in Rows PROVE old(r) = "buffered" /\ new(r) = "dropped"
    <2>1. r \in Y /\ r \in H \ D
      BY <1>1, <1>2 DEF Y
    <2> QED BY <1>1, <1>2, <2>1, FateOf
  <1>3. ASSUME NEW r \in Rows, r \notin R PROVE old(r) = new(r)
    <2>1. (r \in H \ D => r \in X \/ r \in K \ D) /\ (r \in Y <=> r \in X)
      BY <1>3 DEF Y
    <2>2. K \subseteq H
      OBVIOUS
    <2> QED BY <2>1, <2>2, <1>1 DEF Fates, Apart
  <1> QED BY <1>2, <1>3 DEF Moving, Y

\* The rows of a request are stored, while the task exists and after it.
LEMMA StoredFate ==
  ASSUME NEW D, NEW X, NEW H, NEW f, NEW p, NEW R,
         Apart(D, X, H, f), Apart(D \cup R, X, H, f), R \subseteq H
  PROVE  Moving(Fates(D, X, H, f, p), Fates(D \cup R, X, H, f, p),
                IF p = "exit" THEN "abandoned" ELSE "buffered", "stored")
  <1> DEFINE E == D \cup R
             old(r) == Fates(D, X, H, f, p)[r]
             new(r) == Fates(E, X, H, f, p)[r]
  <1>1. Apart(E, X, H, f) /\ X \cap E = {}
    BY DEF Apart
  <1> HIDE DEF E
  <1>2. ASSUME NEW r \in R \ D, r \in Rows
        PROVE  /\ old(r) = IF p = "exit" THEN "abandoned" ELSE "buffered"
               /\ new(r) = "stored"
    <2>1. r \in E /\ r \in H \ D
      BY <1>2 DEF E
    <2> QED BY <1>1, <1>2, <2>1, FateOf
  <1>3. ASSUME NEW r \in Rows, r \notin R \ D PROVE old(r) = new(r)
    <2>1. r \in E <=> r \in D
      BY <1>3 DEF E
    <2> QED BY <2>1 DEF Fates
  <1> QED BY <1>2, <1>3 DEF Moving, E

\* The end of the task abandons what is buffered and changes nothing else.
LEMMA AbandonedFate ==
  ASSUME NEW D, NEW X, NEW H, NEW f, NEW p, p # "exit", Apart(D, X, H, f)
  PROVE  LET old == Fates(D, X, H, f, p)
         IN  Fates(D, X, H, f, "exit")
               = [r \in Rows |-> IF old[r] = "buffered" THEN "abandoned" ELSE old[r]]
  <1> DEFINE old(r) == Fates(D, X, H, f, p)[r]
             new(r) == Fates(D, X, H, f, "exit")[r]
  <1>1. ASSUME NEW r \in Rows
        PROVE  new(r) = IF old(r) = "buffered" THEN "abandoned" ELSE old(r)
    <2>1. CASE r \in H \ D /\ r \notin X
      BY <2>1, FateOf
    <2>2. CASE r \in D \/ r \in X
      BY <2>2, FateOf
    <2>3. CASE r \notin D \cup X \cup H
      BY <2>3, FateOf
    <2> QED BY <2>1, <2>2, <2>3
  <1> QED BY <1>1 DEF Fates

-----------------------------------------------------------------------------
(* Every step is a move of the ledger, or leaves it as it is.              *)

LedgerInv == UniqueInv /\ StageInv /\ StoreInv /\ CountInv /\ SentInv

\* The invariants the step proofs need hold initially and stay.
LEMMA LedgerInvInit == Init => LedgerInv
  <1> SUFFICES ASSUME Init PROVE LedgerInv
    OBVIOUS
  <1>1. StoreInv
    BY DEF Init, StoreInv, StoredIds, ToSet
  <1>2. SentInv
    BY DEF Init, SentInv, StoredRows, ToSet
  <1> QED BY <1>1, <1>2, InitOnce, StageInit, CountInit DEF LedgerInv

\* Every step keeps them.
LEMMA LedgerInvStep == LedgerInv /\ [Next]_vars => LedgerInv'
  <1> SUFFICES ASSUME LedgerInv, [Next]_vars PROVE LedgerInv'
    OBVIOUS
  <1>1. UniqueInv' /\ StageInv' /\ CountInv' /\ SentInv'
    BY UniqueInvStep, StageStep, CountStep, SentStep DEF LedgerInv
  <1>2. TypeOK'
    BY <1>1 DEF UniqueInv, TypeInv
  <1>3. StoreInv'
    BY <1>2, StoreStep DEF LedgerInv
  <1> QED BY <1>1, <1>3 DEF LedgerInv

\* So the places of a row are apart.
LEMMA LedgerApart == LedgerInv => ApartInv
  BY PlacesApart DEF LedgerInv

\* A move the ledger allows.
LEMMA Allowed ==
  ASSUME NEW x, NEW y,
         <<x, y>> \in IF phase # "exit" THEN Ledger!Moves ELSE Ledger!MovesAfter,
         Moving(Status, Status', x, y), (phase' = "exit") <=> (phase = "exit"),
         Status' \in [Rows -> Ledger!Status]
  PROVE  Ledger!Next
  <1>1. Ledger!Move(IF phase # "exit" THEN Ledger!Moves ELSE Ledger!MovesAfter)
    BY DEF Ledger!Move, Moving
  <1> QED BY <1>1 DEF Ledger!Next, Ledger!Advance

\* The fates of the rows are states of the ledger.
LEMMA StatusTyped ==
  ASSUME ApartInv, ApartInv'
  PROVE  Status \in [Rows -> Ledger!Status] /\ Status' \in [Rows -> Ledger!Status]
  BY StatusFates, FatesType DEF ApartInv, Ledger!Status

\* A step of a call of enqueue.
LEMMA CallerLedger ==
  ASSUME LedgerInv, ApartInv, ApartInv', NEW q \in Rows, Caller(q)
  PROVE  [Ledger!Next]_Ledger!ledgerVars
  <1> DEFINE D == StoredRows
             X == discarded
             H == Here
  <1>1. /\ call \in [Rows -> {"idle", "trying", "sent", "counted", "ok", "refused"}]
        /\ chan \in Seq(Rows)
    BY DEF LedgerInv, UniqueInv, TypeInv, TypeOK
  <1>2. /\ UNCHANGED <<phase, stored, discarded, staging, held, pending, retry>>
        /\ StoredRows' = StoredRows
    BY DEF Caller, Enqueue, TrySend, CountAccepted, CountDepth, taskVars,
       sinkVars, StoredRows
  <1>3. /\ Status = Fates(StoredRows, discarded, Here, call, phase)
        /\ Status' = Fates(StoredRows, discarded, Here', call', phase)
    BY <1>2, StatusFates
  <1>4. /\ Apart(StoredRows, discarded, Here, call)
        /\ Apart(StoredRows, discarded, Here', call')
    BY <1>2 DEF ApartInv
  <1>5. CASE /\ chan' = chan
             /\ \A r \in Rows : call[r] = "refused" <=> call'[r] = "refused"
    <2>1. Here' = Here
      BY <1>2, <1>5 DEF Here, Loose, QueuedRows, Queued
    <2>2. Status' = Status
      BY <1>3, <1>4, <1>5, <2>1, SameFates
    <2> QED BY <1>2, <2>2 DEF Ledger!ledgerVars
  <1>6. CASE Refuse(q) /\ call[q] \in {"idle", "trying"} /\ chan' = chan
    <2>1. Here' = Here
      BY <1>2, <1>6 DEF Here, Loose, QueuedRows, Queued
    <2>2. call'[q] = "refused" /\ \A r \in Rows \ {q} : call'[r] = call[r]
      BY <1>1, <1>6 DEF Refuse
    <2>3. Moving(Status, Status', "new", "refused")
      BY <1>3, <1>4, <1>6, <2>1, <2>2, RefusedFate
    <2>4. <<"new", "refused">> \in IF phase # "exit" THEN Ledger!Moves ELSE Ledger!MovesAfter
      BY DEF Ledger!Moves, Ledger!MovesAfter
    <2> QED BY <1>2, <2>3, <2>4, Allowed, StatusTyped
  <1>7. CASE /\ call[q] = "trying" /\ call' = [call EXCEPT ![q] = "sent"]
             /\ chan' = Append(chan, q) /\ phase # "exit"
    <2>1. ToSet(chan') = ToSet(chan) \cup {q}
      BY <1>1, <1>7, AppendOnce
    <2>2. Here' = Here \cup {q}
      BY <1>2, <2>1 DEF Here, Loose, QueuedRows, Queued
    <2>3. \A r \in Rows \ {q} : call'[r] = call[r]
      BY <1>1, <1>7
    <2>4. Moving(Status, Status', "new", "buffered")
      BY <1>3, <1>4, <1>7, <2>2, <2>3, BufferedFate
    <2>5. <<"new", "buffered">> \in Ledger!Moves
      BY DEF Ledger!Moves
    <2> QED BY <1>2, <1>7, <2>4, <2>5, Allowed, StatusTyped
  <1>8. CASE Enqueue(q)
    BY <1>1, <1>5, <1>6, <1>8 DEF Enqueue
  <1>9. CASE TrySend(q)
    BY <1>5, <1>6, <1>7, <1>9 DEF TrySend, Saturated, Closed
  <1>10. CASE CountAccepted(q) \/ CountDepth(q)
    BY <1>1, <1>5, <1>10 DEF CountAccepted, CountDepth
  <1> QED BY <1>8, <1>9, <1>10 DEF Caller

\* A step of the task.
LEMMA TaskLedger ==
  ASSUME LedgerInv, ApartInv, ApartInv', Task
  PROVE  [Ledger!Next]_Ledger!ledgerVars
  <1>1. /\ UNCHANGED <<call, stored>> /\ StoredRows' = StoredRows /\ phase # "exit"
        /\ ~ Exit => phase' # "exit"
        /\ Exit => phase' = "exit"
    BY DEF Task, SelectLoop, TakeIn, Drain, SealAndSend, Return, TakeCtrl,
       HandleGone, TakeRow, Pop, Uncount, Ingest, AfterIngest, Tick,
       SizeTrigger, PullRow, PullDone, DrainToCompletion, DropChunk,
       SplitChunk, Send, SendOk, SendFails, PassDone, ReturnToIngest,
       ReturnToLoop, ReturnToDrain, Exit, BeginPass, Fail, Finish, callVars,
       sinkVars, StoredRows
  <1>2. /\ Status = Fates(StoredRows, discarded, Here, call, phase)
        /\ Status' = Fates(StoredRows, discarded', Here', call, phase')
    BY <1>1, StatusFates
  <1>3. /\ Apart(StoredRows, discarded, Here, call)
        /\ Apart(StoredRows, discarded', Here', call)
    BY <1>1 DEF ApartInv
  <1>4. Here \subseteq StoredRows \cup discarded' \cup Here'
    <2>1. Kept \subseteq Kept' /\ Outside \subseteq Kept' \cup Outside'
      BY TaskKeeps DEF LedgerInv
    <2>2. Here \subseteq Kept \cup Outside
      BY DEF Here, Loose, Kept, Outside
    <2>3. Kept' \cup Outside' \subseteq StoredRows' \cup discarded' \cup Here'
      BY DEF Here, Loose, Kept, Outside
    <2> QED BY <1>1, <2>1, <2>2, <2>3
  <1>5. CASE Exit
    <2>1. Here' = Here /\ discarded' = discarded
      BY <1>5 DEF Exit, Here, Loose, QueuedRows, Queued
    <2>2. Status' = [r \in Rows |-> IF Status[r] = "buffered" THEN "abandoned" ELSE Status[r]]
      BY <1>1, <1>2, <1>3, <1>5, <2>1, AbandonedFate
    <2> QED BY <1>1, <1>5, <2>2, StatusTyped DEF Ledger!Next, Ledger!Stop
  <1>6. CASE ~ Exit /\ ~ DropChunk
    <2>1. Here' \subseteq Here /\ discarded' = discarded
      BY <1>6, TaskWithin DEF LedgerInv
    <2>2. Fates(StoredRows, discarded, Here', call, phase)
            = Fates(StoredRows, discarded, Here, call, phase)
      BY <1>3, <1>4, <2>1, SameFates
    <2>3. Fates(StoredRows, discarded, Here', call, phase')
            = Fates(StoredRows, discarded, Here', call, phase)
      BY <1>1, <1>6, SamePhase
    <2> QED BY <1>1, <1>2, <1>6, <2>1, <2>2, <2>3 DEF Ledger!ledgerVars
  <1>7. CASE DropChunk
    <2> DEFINE R == ToSet(Head(pending).rows)
    <2>1. /\ Here' \subseteq Here /\ R \subseteq Here
          /\ discarded' = discarded \cup R
      BY <1>7, DropWithin DEF LedgerInv
    <2>2. ~ Exit
      BY <1>7 DEF DropChunk, Exit
    <2> HIDE DEF R
    <2>3. Moving(Fates(StoredRows, discarded, Here, call, phase),
                 Fates(StoredRows, discarded \cup R, Here', call, phase),
                 "buffered", "dropped")
      BY <1>1, <1>3, <1>4, <2>1, DroppedFate
    <2>4. Fates(StoredRows, discarded \cup R, Here', call, phase')
            = Fates(StoredRows, discarded \cup R, Here', call, phase)
      BY <1>1, <2>2, SamePhase
    <2>5. Moving(Status, Status', "buffered", "dropped")
      BY <1>2, <2>1, <2>3, <2>4
    <2>6. <<"buffered", "dropped">> \in Ledger!Moves
      BY DEF Ledger!Moves
    <2> QED BY <1>1, <2>2, <2>5, <2>6, Allowed, StatusTyped
  <1> QED BY <1>5, <1>6, <1>7

\* The server stores a request, in time or late.
LEMMA ServerLedger ==
  ASSUME LedgerInv, ApartInv, ApartInv', NEW b \in sent, ServerStores(b)
  PROVE  Ledger!Next
  <1> DEFINE R == ToSet(b.rows)
  <1>1. StoredRows' = StoredRows \cup R /\ R \subseteq Here
    BY StoreMoves DEF LedgerInv
  <1>2. UNCHANGED <<call, phase, discarded>> /\ Here' = Here
    BY DEF ServerStores, callVars, taskVars, Here, Loose, QueuedRows, Queued
  <1> HIDE DEF R
  <1>3. /\ Status = Fates(StoredRows, discarded, Here, call, phase)
        /\ Status' = Fates(StoredRows \cup R, discarded, Here, call, phase)
    BY <1>1, <1>2, StatusFates
  <1>4. /\ Apart(StoredRows, discarded, Here, call)
        /\ Apart(StoredRows \cup R, discarded, Here, call)
    BY <1>1, <1>2 DEF ApartInv
  <1> DEFINE x == IF phase = "exit" THEN "abandoned" ELSE "buffered"
  <1>5. Moving(Status, Status', x, "stored")
    BY <1>1, <1>3, <1>4, StoredFate
  <1>6. <<x, "stored">> \in IF phase # "exit" THEN Ledger!Moves ELSE Ledger!MovesAfter
    BY DEF Ledger!Moves, Ledger!MovesAfter
  <1> QED BY <1>2, <1>5, <1>6, Allowed, StatusTyped

\* A step of anybody.
LEMMA LedgerStep ==
  LedgerInv /\ ApartInv /\ ApartInv' /\ [Next]_vars => [Ledger!Next]_Ledger!ledgerVars
  <1> SUFFICES ASSUME LedgerInv, ApartInv, ApartInv', [Next]_vars
               PROVE  [Ledger!Next]_Ledger!ledgerVars
    OBVIOUS
  <1>1. CASE \/ \E c \in Controllers : Request(c)
             \/ DropHandle
             \/ UNCHANGED vars
    <2>1. UNCHANGED <<call, chan, staging, held, pending, retry, phase, stored, discarded>>
      BY <1>1 DEF Request, DropHandle, vars, callVars, taskVars, sinkVars
    <2>2. UNCHANGED <<Here, StoredRows>>
      BY <2>1 DEF Here, Loose, QueuedRows, Queued, StoredRows
    <2>3. Status' = Status
      BY <2>1, <2>2, StatusFates
    <2> QED BY <2>1, <2>3 DEF Ledger!ledgerVars
  <1> QED BY <1>1, CallerLedger, TaskLedger, ServerLedger DEF Next

\* Initially every row is new and the task runs.
LEMMA LedgerInit == Init => Ledger!Init
  <1> SUFFICES ASSUME Init PROVE Ledger!Init
    OBVIOUS
  <1>1. StoredRows = {} /\ discarded = {} /\ Here = {} /\ phase = "select"
    BY DEF Init, StoredRows, Here, Loose, QueuedRows, Queued, ToSet
  <1>2. \A r \in Rows : call[r] = "idle"
    BY DEF Init
  <1>3. Apart(StoredRows, discarded, Here, call)
    BY <1>1 DEF Apart
  <1>4. ASSUME NEW r \in Rows PROVE Fates(StoredRows, discarded, Here, call, phase)[r] = "new"
    BY <1>1, <1>2, <1>3, FateOf
  <1>5. Status = [r \in Rows |-> "new"]
    BY <1>4, StatusFates DEF Fates
  <1> QED BY <1>1, <1>5 DEF Ledger!Init

\* The producer implements the ledger of rows, for every number of calls, every
\* capacity and every behaviour of the sink.
THEOREM KeepsLedgerAlways == Spec => KeepsLedger
  <1> QED BY LedgerInvInit, LedgerInvStep, LedgerApart, LedgerStep, LedgerInit,
             PTL DEF Spec, KeepsLedger, Ledger!Spec

-----------------------------------------------------------------------------
(***************************************************************************)
(* Conservation.  Only the head of a queue can have been sent, so requests *)
(* are stored in the order of the queue; then every step moves rows from   *)
(* one stage to the next, or the head out of the pipeline.                 *)
(***************************************************************************)
HeadInv == /\ \A i \in 2 .. Len(pending) : pending[i] \notin sent
           /\ \A i \in 2 .. Len(retry) : retry[i] \notin sent

ConserveInv == LedgerInv /\ HeadInv /\ Conservation

\* What is pending beyond the head was never sent: a batch that is sent is the
\* first of its queue until it is stored.
LEMMA HeadStep == ASSUME LedgerInv, HeadInv, [Next]_vars PROVE HeadInv'
  <1>1. /\ pending \in Seq(Batch) /\ retry \in Seq(Batch) /\ nextId \in Nat
        /\ staging \in Seq(Rows) /\ Len(pending) \in Nat /\ Len(retry) \in Nat
        /\ \A b \in sent : b.id < nextId
    <2>1. \A b \in sent : b.id < nextId
      BY DEF LedgerInv, UniqueInv, BatchOnce, Batches, Sealed
    <2> QED BY <2>1, LenProperties DEF LedgerInv, UniqueInv, TypeInv, TypeOK
  <1>2. CASE UNCHANGED <<pending, retry, sent>>
    BY <1>2 DEF HeadInv
  <1>3. ASSUME phase \notin {"pass", "send"}, BeginPass, UNCHANGED sent PROVE HeadInv'
    <2> DEFINE q == Chunks(staging, nextId)
    <2>1. pending' = retry \o q /\ retry' = << >>
      BY <1>3 DEF BeginPass
    <2>2. /\ q \in Seq(Batch) /\ Len(q) \in Nat
          /\ \A i \in 1 .. Len(q) : q[i].id >= nextId
      <3>1. /\ q \in Seq(Batch) /\ Len(q) = ChunkCount(Len(staging))
            /\ \A i \in 1 .. Len(q) :
                 q[i] = [id |-> nextId + i - 1,
                         rows |-> SubSeq(staging, From(i), Upto(i, Len(staging)))]
        BY <1>1, ChunksType
      <3>2. ASSUME NEW i \in 1 .. Len(q) PROVE q[i].id >= nextId
        <4> DEFINE x == nextId + i - 1
                   y == SubSeq(staging, From(i), Upto(i, Len(staging)))
                   b == q[i]
        <4>1. b = [id |-> x, rows |-> y]
          BY <3>1
        <4>2. Len(q) \in Nat
          BY <3>1, LenProperties
        <4> HIDE DEF q
        <4>3. x >= nextId
          BY <1>1, <4>2
        <4> HIDE DEF x, y, b
        <4>4. b.id = x
          BY <4>1, Fields
        <4> QED BY <4>3, <4>4 DEF b
      <3> QED BY <3>1, <3>2, LenProperties
    <2> HIDE DEF q
    <2>3. ASSUME NEW i \in 2 .. Len(pending') PROVE pending'[i] \notin sent
      <3>1. Len(pending') = Len(retry) + Len(q)
        BY <1>1, <2>1, <2>2
      <3>2. CASE i <= Len(retry)
        <4>1. i \in 2 .. Len(retry) /\ pending'[i] = retry[i]
          BY <1>1, <2>1, <2>2, <2>3, <3>1, <3>2
        <4> QED BY <4>1 DEF HeadInv
      <3>3. CASE i > Len(retry)
        <4>1. i - Len(retry) \in 1 .. Len(q) /\ pending'[i] = q[i - Len(retry)]
          BY <1>1, <2>1, <2>2, <2>3, <3>1, <3>3
        <4>2. PICK j \in 1 .. Len(q) : pending'[i] = q[j]
          BY <4>1
        <4>3. q[j].id >= nextId
          BY <2>2
        <4>4. q[j].id \in Nat
          <5>1. q[j] \in Batch
            BY <2>2, ElementOfSeq
          <5> QED BY <5>1 DEF Batch
        <4>5. q[j] \notin sent
          <5>1. ASSUME q[j] \in sent PROVE FALSE
            <6>1. q[j].id < nextId
              BY <1>1, <5>1
            <6> QED BY <1>1, <4>3, <4>4, <6>1
          <5> QED BY <5>1
        <4> QED BY <4>2, <4>5
      <3> QED BY <1>1, <3>1, <3>2, <3>3
    <2>4. \A i \in 2 .. Len(retry') : retry'[i] \notin sent
      BY <2>1
    <2> QED BY <1>3, <2>3, <2>4 DEF HeadInv
  <1>4. ASSUME pending # << >>, pending' = Tail(pending) \/ retry' = Tail(pending),
               pending' \in {<< >>, Tail(pending)}, retry' \in {retry, Tail(pending)},
               retry = << >>, UNCHANGED sent
        PROVE  HeadInv'
    <2> DEFINE t == Tail(pending)
    <2>1. \A i \in 1 .. Len(t) : t[i] \notin sent
      <3>1. /\ Len(t) = Len(pending) - 1
            /\ \A i \in 1 .. Len(t) : t[i] = pending[i + 1]
        BY <1>1, <1>4, TailOnce
      <3>2. \A i \in 1 .. Len(t) : i + 1 \in 2 .. Len(pending)
        BY <1>1, <3>1
      <3> QED BY <3>1, <3>2 DEF HeadInv
    <2>2. Len(t) \in Nat
      BY <1>1, <1>4
    <2> HIDE DEF t
    <2>3. \A i \in 2 .. Len(t) : t[i] \notin sent
      BY <2>1, <2>2
    <2>4. Len(<< >>) = 0 /\ \A i \in 2 .. 0 : i \notin 2 .. 0
      OBVIOUS
    <2>5. /\ \A i \in 2 .. Len(pending') : pending'[i] \notin sent
          /\ \A i \in 2 .. Len(retry') : retry'[i] \notin sent
      BY <1>4, <2>3, <2>4 DEF t
    <2> QED BY <1>4, <2>5 DEF HeadInv
  <1>5. CASE DropChunk \/ SendOk
    <2>1. pending # << >> /\ retry = << >>
      BY <1>5 DEF DropChunk, SendOk, LedgerInv, UniqueInv, TypeInv, BatchOnce
    <2> QED BY <1>4, <1>5, <2>1 DEF DropChunk, SendOk, Fail, sinkVars
  <1>6. CASE SendFails
    <2>1. pending' = << >> /\ retry' = pending /\ sent' = sent
      BY <1>6 DEF SendFails, Fail, sinkVars
    <2>2. \A i \in 2 .. Len(pending') : pending'[i] \notin sent'
      BY <2>1
    <2>3. \A i \in 2 .. Len(retry') : retry'[i] \notin sent'
      BY <2>1 DEF HeadInv
    <2> QED BY <2>2, <2>3 DEF HeadInv
  <1>7. CASE Send
    <2>1. /\ pending # << >> /\ pending' = pending /\ retry' = retry /\ retry = << >>
          /\ sent' = sent \cup {Head(pending)} /\ DistinctIds(pending)
      BY <1>7 DEF Send, LedgerInv, UniqueInv, BatchOnce
    <2>2. \A i \in 2 .. Len(pending) : pending[i] # Head(pending)
      <3>1. Head(pending) = pending[1] /\ Len(pending) \in Nat \ {0}
        BY <1>1, <2>1, TailOnce
      <3>2. ASSUME NEW i \in 2 .. Len(pending), pending[i] = pending[1] PROVE FALSE
        <4>1. i \in 1 .. Len(pending) /\ 1 \in 1 .. Len(pending) /\ i # 1
          BY <3>1
        <4>2. pending[i].id = pending[1].id
          BY <3>2
        <4> QED BY <2>1, <4>1, <4>2 DEF DistinctIds
      <3> QED BY <3>1, <3>2
    <2>3. \A i \in 2 .. Len(pending') : pending'[i] \notin sent'
      BY <2>1, <2>2 DEF HeadInv
    <2>4. \A i \in 2 .. Len(retry') : retry'[i] \notin sent'
      BY <2>1
    <2> QED BY <2>3, <2>4 DEF HeadInv
  <1>8. CASE SplitChunk
    <2> DEFINE b == Head(pending)
               h == Halves(b, nextId)
               t == Tail(pending)
    <2>1. /\ pending # << >> /\ pending' = h \o t /\ retry' = retry /\ sent' = sent
      BY <1>8 DEF SplitChunk, sinkVars
    <2>2. /\ b \in Batch /\ t \in Seq(Batch) /\ Len(t) = Len(pending) - 1
          /\ \A i \in 1 .. Len(t) : t[i] = pending[i + 1]
      BY <1>1, <2>1, TailOnce, SeqOps
    <2>3. /\ h \in Seq(Batch) /\ Len(h) = 2
          /\ h[2] = [id |-> nextId, rows |-> SubSeq(b.rows, Len(b.rows) \div 2 + 1, Len(b.rows))]
      BY <1>1, <2>2, HalvesType
    <2>4. h[2].id = nextId
      <3> DEFINE y == SubSeq(b.rows, Len(b.rows) \div 2 + 1, Len(b.rows))
                 d == h[2]
      <3>1. d = [id |-> nextId, rows |-> y]
        BY <2>3
      <3> HIDE DEF d, y
      <3>2. d.id = nextId
        BY <3>1, Fields
      <3> QED BY <3>2 DEF d
    <2>5. h[2] \notin sent
      BY <1>1, <2>4
    <2> HIDE DEF b, h, t
    <2>6. ASSUME NEW i \in 2 .. Len(pending') PROVE pending'[i] \notin sent
      <3>1. h \in Seq(Batch) /\ t \in Seq(Batch) /\ Len(h) = 2
        BY <2>2, <2>3
      <3>2. /\ Len(pending') = 2 + Len(t) /\ Len(t) \in Nat /\ pending'[2] = h[2]
            /\ \A j \in 3 .. 2 + Len(t) : pending'[j] = t[j - 2]
        BY <2>1, <3>1, TwoFirst
      <3>3. CASE i = 2
        <4> QED BY <2>5, <3>2, <3>3
      <3>4. CASE i # 2
        <4>1. /\ i - 2 \in 1 .. Len(t) /\ (i - 2) + 1 \in 2 .. Len(pending)
              /\ pending'[i] = t[i - 2]
          <5>1. i - 2 \in 1 .. Len(t) /\ i \in 3 .. 2 + Len(t)
            BY <2>6, <3>2, <3>4
          <5>2. pending'[i] = t[i - 2]
            BY <3>2, <5>1
          <5>3. (i - 2) + 1 \in 2 .. Len(pending)
            BY <1>1, <2>2, <5>1
          <5> QED BY <5>1, <5>2, <5>3
        <4>2. pending'[i] = pending[(i - 2) + 1]
          BY <2>2, <4>1
        <4> QED BY <4>1, <4>2 DEF HeadInv
      <3> QED BY <3>3, <3>4
    <2>7. \A i \in 2 .. Len(retry') : retry'[i] \notin sent
      BY <2>1 DEF HeadInv
    <2> QED BY <2>1, <2>6, <2>7 DEF HeadInv
  <1>9. \/ UNCHANGED <<pending, retry, sent>>
        \/ phase \notin {"pass", "send"} /\ BeginPass /\ UNCHANGED sent
        \/ DropChunk \/ SendOk \/ SendFails \/ Send \/ SplitChunk
    BY DEF Next, Caller, Enqueue, TrySend, CountAccepted, CountDepth, Request,
       DropHandle, Task, SelectLoop, TakeIn, Drain, SealAndSend, Return,
       TakeCtrl, HandleGone, TakeRow, Pop, Uncount, Ingest, AfterIngest, Tick,
       SizeTrigger, PullRow, PullDone, DrainToCompletion, PassDone,
       ReturnToIngest, ReturnToLoop, ReturnToDrain, Exit, ServerStores, vars,
       sinkVars, taskVars
  <1> QED BY <1>2, <1>3, <1>5, <1>6, <1>7, <1>8, <1>9

\* At most one of the two queues holds batches.
Queue == IF pending = << >> THEN retry ELSE pending

\* The stages of the buffer and the lists of the account are sequences of rows.
LEMMA RowsTyped ==
  ASSUME TypeInv
  PROVE  /\ RowsOf(pending) \in Seq(Rows) /\ RowsOf(retry) \in Seq(Rows)
         /\ RowsOf(stored) \in Seq(Rows) /\ staging \in Seq(Rows) /\ held \in Seq(Rows)
         /\ chan \in Seq(Rows) /\ admitted \in Seq(Rows)
  <1>1. /\ pending \in Seq(Batch) /\ retry \in Seq(Batch) /\ stored \in Seq(Batch)
        /\ staging \in Seq(Rows) /\ held \in Seq(Rows)
        /\ chan \in Seq(Rows) /\ admitted \in Seq(Rows)
    BY DEF TypeInv, TypeOK
  <1> QED BY <1>1, RowsOfType

\* The pipeline is those stages.
LEMMA PipelineIs == Pipeline = Pipe(RowsOf(pending), RowsOf(retry), staging, held, chan)
  BY DEF Pipeline, Pipe

\* The empty sequence is one of rows and one of batches.
LEMMA EmptyRows == << >> \in Seq(Rows) /\ << >> \in Seq(Batch) /\ ToSet(<< >>) = {}
  BY DEF ToSet

\* The batches come first, whichever queue they are in.
LEMMA PipelineQueue ==
  ASSUME UniqueInv
  PROVE  /\ Pipeline = Pipe(RowsOf(Queue), << >>, staging, held, chan)
         /\ Queue \in Seq(Batch) /\ ToSet(Queue) = Queued /\ DistinctIds(Queue)
  <1>1. /\ pending \in Seq(Batch) /\ retry \in Seq(Batch)
        /\ pending = << >> \/ retry = << >>
        /\ DistinctIds(pending) /\ DistinctIds(retry)
    BY DEF UniqueInv, TypeInv, TypeOK, BatchOnce
  <1>2. CASE pending = << >>
    <2>1. Pipeline = Pipe(<< >>, RowsOf(retry), staging, held, chan)
      BY <1>2, RowsOfEmpty, PipelineIs
    <2>2. /\ RowsOf(retry) \in Seq(Rows) /\ staging \in Seq(Rows) /\ held \in Seq(Rows)
          /\ chan \in Seq(Rows)
      BY RowsTyped DEF UniqueInv
    <2>3. Stages(<< >>, RowsOf(retry), staging, held, chan)
      BY <2>2, EmptyRows DEF Stages
    <2>4. Pipeline = Pipe(RowsOf(retry), << >>, staging, held, chan)
      BY <2>1, <2>3, PipeAgain
    <2>5. Queue = retry
      BY <1>2 DEF Queue
    <2>6. Queued = ToSet(retry)
      BY <1>2, EmptyRows DEF Queued
    <2> QED BY <1>1, <2>4, <2>5, <2>6
  <1>3. CASE pending # << >>
    <2>1. retry = << >> /\ Queue = pending
      BY <1>1, <1>3 DEF Queue
    <2>2. Queued = ToSet(pending)
      BY <2>1, EmptyRows DEF Queued
    <2>3. Pipeline = Pipe(RowsOf(pending), << >>, staging, held, chan)
      BY <2>1, RowsOfEmpty, PipelineIs
    <2> QED BY <1>1, <2>1, <2>2, <2>3
  <1> QED BY <1>2, <1>3

\* What follows the head of the queue.
Behind == Pipe(RowsOf(Tail(Queue)), << >>, staging, held, chan)

\* The pipeline is the rows of the head of the queue, then other rows.
LEMMA PipelineHead ==
  ASSUME UniqueInv, Queue # << >>
  PROVE  /\ Head(Queue) \in Queued /\ Head(Queue).rows \in Seq(Rows)
         /\ Pipeline = Head(Queue).rows \o Behind /\ Behind \in Seq(Rows)
         /\ ToSet(Behind) \cap ToSet(Head(Queue).rows) = {}
  <1> DEFINE q == Queue
             b == Head(q)
             t == Tail(q)
  <1>1. /\ q \in Seq(Batch) /\ ToSet(q) = Queued /\ DistinctIds(q)
        /\ Pipeline = Pipe(RowsOf(q), << >>, staging, held, chan)
    BY PipelineQueue
  <1>2. staging \in Seq(Rows) /\ held \in Seq(Rows) /\ chan \in Seq(Rows)
    BY RowsTyped DEF UniqueInv
  <1> HIDE DEF q
  <1>3. /\ ToSet(q) = {b} \cup ToSet(t) /\ b \in Batch /\ t \in Seq(Batch) /\ q # << >>
    <2>1. q # << >>
      BY DEF q
    <2> QED BY <1>1, <2>1, TailOnce, SeqOps
  <1>4. \A d \in ToSet(t) : d.id # b.id
    BY <1>1, <1>3, BehindHead
  <1>5. RowsOf(q) = b.rows \o RowsOf(t)
    BY <1>1, <1>3, RowsOfHead
  <1> HIDE DEF b, t
  <1>6. b.rows \in Seq(Rows) /\ RowsOf(t) \in Seq(Rows)
    BY <1>3, RowsOfType DEF Batch
  <1>7. Stages(RowsOf(t), << >>, staging, held, chan)
    BY <1>2, <1>6, EmptyRows DEF Stages
  <1>8. Pipeline = b.rows \o Pipe(RowsOf(t), << >>, staging, held, chan)
    <2>1. Pipe(b.rows \o RowsOf(t), << >>, staging, held, chan)
            = b.rows \o Pipe(RowsOf(t), << >>, staging, held, chan)
      <3>1. PICK r \in Seq(Rows) : r = b.rows
        BY <1>6
      <3>2. Pipe(r \o RowsOf(t), << >>, staging, held, chan)
              = r \o Pipe(RowsOf(t), << >>, staging, held, chan)
        BY <1>7, PipeHead
      <3> QED BY <3>1, <3>2
    <2> QED BY <1>1, <1>5, <2>1
  <1>9. /\ Pipe(RowsOf(t), << >>, staging, held, chan) \in Seq(Rows)
        /\ ToSet(Pipe(RowsOf(t), << >>, staging, held, chan))
             = ToSet(RowsOf(t)) \cup Loose
    <2>1. ToSet(Pipe(RowsOf(t), << >>, staging, held, chan))
            = ToSet(RowsOf(t)) \cup ToSet(<< >>) \cup ToSet(staging) \cup ToSet(held) \cup ToSet(chan)
      BY <1>7, PipeType
    <2>2. Pipe(RowsOf(t), << >>, staging, held, chan) \in Seq(Rows)
      BY <1>7, PipeType
    <2> QED BY <2>1, <2>2, EmptyRows DEF Loose
  <1>10. ToSet(RowsOf(t)) \cap ToSet(b.rows) = {}
    <2>1. ToSet(RowsOf(t)) = UNION {ToSet(d.rows) : d \in ToSet(t)}
      BY <1>3, RowsTell
    <2>2. \A d \in ToSet(t) : ToSet(d.rows) \cap ToSet(b.rows) = {}
      <3>1. \A d \in ToSet(t) : d \in Batches /\ b \in Batches
        BY <1>1, <1>3 DEF Batches
      <3> QED BY <1>4, <3>1 DEF UniqueInv, BatchOnce, Same
    <2> QED BY <2>1, <2>2
  <1>11. Loose \cap ToSet(b.rows) = {}
    <2>1. b \in Batches
      BY <1>1, <1>3 DEF Batches
    <2> QED BY <2>1 DEF UniqueInv, BatchOnce, Sealed
  <1> QED BY <1>1, <1>3, <1>6, <1>8, <1>9, <1>10, <1>11 DEF Behind, b, t, q

\* The head and the rest after the head is gone.
LEMMA BehindIs ==
  ASSUME UniqueInv, pending # << >>
  PROVE  /\ Queue = pending /\ retry = << >> /\ RowsOf(Tail(pending)) \in Seq(Rows)
         /\ Behind = Pipe(RowsOf(Tail(pending)), << >>, staging, held, chan)
         /\ Behind = Pipe(<< >>, RowsOf(Tail(pending)), staging, held, chan)
  <1>1. Queue = pending /\ retry = << >> /\ pending \in Seq(Batch)
    BY DEF Queue, UniqueInv, BatchOnce, TypeInv, TypeOK
  <1>2. Tail(pending) \in Seq(Batch)
    BY <1>1, SeqOps
  <1>3. RowsOf(Tail(pending)) \in Seq(Rows)
    BY <1>2, RowsOfType
  <1>4. Behind = Pipe(RowsOf(Tail(pending)), << >>, staging, held, chan)
    BY <1>1 DEF Behind
  <1>5. staging \in Seq(Rows) /\ held \in Seq(Rows) /\ chan \in Seq(Rows)
    BY RowsTyped DEF UniqueInv
  <1>6. Stages(<< >>, RowsOf(Tail(pending)), staging, held, chan)
    BY <1>3, <1>5, EmptyRows DEF Stages
  <1>7. Pipe(<< >>, RowsOf(Tail(pending)), staging, held, chan)
          = Pipe(RowsOf(Tail(pending)), << >>, staging, held, chan)
    BY <1>6, PipeAgain
  <1> QED BY <1>1, <1>3, <1>4, <1>7

\* Conservation as an account.
LEMMA ConservationIs ==
  Conservation <=> Balanced(RowsOf(stored), Pipeline, StoredRows, admitted, discarded)
  BY DEF Conservation, Balanced

\* A step that leaves the account alone keeps it.
LEMMA ConservedStill ==
  ASSUME Conservation, Pipeline' = Pipeline, UNCHANGED <<stored, admitted, discarded>>
  PROVE  Conservation'
  BY DEF Conservation, StoredRows, RowsOf

-----------------------------------------------------------------------------
\* A row accepted by try_send.
LEMMA AcceptConserves ==
  ASSUME LedgerInv, Conservation, NEW r \in Rows, TrySend(r)
  PROVE  Conservation'
  <1>1. UNCHANGED <<pending, retry, staging, held, stored, discarded>>
    BY DEF TrySend, taskVars, sinkVars
  <1>2. CASE chan' = chan /\ admitted' = admitted
    <2>1. Pipeline' = Pipeline
      BY <1>1, <1>2 DEF Pipeline, RowsOf
    <2> QED BY <1>1, <1>2, <2>1, ConservedStill
  <1>3. CASE chan' = Append(chan, r) /\ admitted' = Append(admitted, r)
    <2>1. r \notin StoredRows /\ r \notin discarded
      <3>1. call[r] = "trying"
        BY DEF TrySend
      <3>2. ApartInv
        BY LedgerApart
      <3> QED BY <3>1, <3>2 DEF ApartInv, Apart, LedgerInv, CountInv
    <2>2. /\ RowsOf(pending) \in Seq(Rows) /\ RowsOf(retry) \in Seq(Rows)
          /\ RowsOf(stored) \in Seq(Rows) /\ staging \in Seq(Rows) /\ held \in Seq(Rows)
          /\ chan \in Seq(Rows) /\ admitted \in Seq(Rows)
      BY RowsTyped DEF LedgerInv, UniqueInv
    <2>3. Stages(RowsOf(pending), RowsOf(retry), staging, held, chan)
      BY <2>2 DEF Stages
    <2>4. Pipe(RowsOf(pending), RowsOf(retry), staging, held, Append(chan, r))
            = Append(Pipe(RowsOf(pending), RowsOf(retry), staging, held, chan), r)
      BY <2>3, PipeEnter
    <2>5. Pipeline' = Append(Pipeline, r)
      BY <1>1, <1>3, <2>4 DEF Pipeline, Pipe, RowsOf
    <2>6. Pipeline \in Seq(Rows)
      BY <2>3, PipeType, PipelineIs
    <2>7. Balanced(RowsOf(stored), Append(Pipeline, r), StoredRows, Append(admitted, r), discarded)
      BY <2>1, <2>2, <2>6, BalancedAccept, ConservationIs
    <2>8. /\ RowsOf(stored') = RowsOf(stored) /\ StoredRows' = StoredRows
      BY <1>1 DEF RowsOf, StoredRows
    <2> QED BY <1>1, <1>3, <2>5, <2>7, <2>8 DEF Conservation, Balanced, RowsOf, StoredRows
  <1> QED BY <1>2, <1>3 DEF TrySend

\* So it is after a step.
LEMMA PipelineNext ==
  Pipeline' = Pipe(RowsOf(pending'), RowsOf(retry'), staging', held', chan')
  BY DEF Pipeline, Pipe, RowsOf

\* Sealing moves the staged rows behind those to be retried.
LEMMA BeginPipeline ==
  ASSUME UniqueInv, BeginPass, phase \notin {"pass", "send"},
         NEW d \in Seq(Rows), NEW e \in Seq(Rows)
  PROVE  Pipe(RowsOf(pending'), RowsOf(retry'), staging', d, e)
           = Pipe(RowsOf(pending), RowsOf(retry), staging, d, e)
  <1> DEFINE q == Chunks(staging, nextId)
  <1>1. /\ pending = << >> /\ retry \in Seq(Batch) /\ staging \in Seq(Rows) /\ nextId \in Nat
        /\ pending' = retry \o q /\ retry' = << >> /\ staging' = << >>
    BY DEF UniqueInv, TypeInv, TypeOK, BatchOnce, BeginPass
  <1>2. q \in Seq(Batch) /\ RowsOf(q) = staging
    BY <1>1, ChunksType, RowsOfChunks
  <1> HIDE DEF q
  <1>3. RowsOf(retry \o q) = RowsOf(retry) \o RowsOf(q)
    BY <1>1, <1>2, RowsOfConcat
  <1>4. Stages(<< >>, RowsOf(retry), staging, d, e)
    BY <1>1, RowsOfType, EmptyRows DEF Stages
  <1>5. Pipe(<< >>, RowsOf(retry), staging, d, e)
          = Pipe(RowsOf(retry) \o staging, << >>, << >>, d, e)
    BY <1>4, PipeSeal
  <1> QED BY <1>1, <1>2, <1>3, <1>5, RowsOfEmpty

\* A row taken off the channel keeps its place.
LEMMA PopPipeline ==
  ASSUME UniqueInv, held = << >>, chan # << >>, Pop, UNCHANGED <<staging, pending, retry>>
  PROVE  Pipeline' = Pipeline
  <1>1. /\ RowsOf(pending) \in Seq(Rows) /\ RowsOf(retry) \in Seq(Rows)
        /\ staging \in Seq(Rows) /\ chan \in Seq(Rows)
    BY RowsTyped DEF UniqueInv
  <1>2. Stages(RowsOf(pending), RowsOf(retry), staging, << >>, chan)
    BY <1>1, EmptyRows DEF Stages
  <1>3. chan' = Tail(chan) /\ held' = <<Head(chan)>>
    BY DEF Pop
  <1>4. Pipeline = Pipe(RowsOf(pending), RowsOf(retry), staging, << >>, chan)
    BY PipelineIs
  <1>5. Pipe(RowsOf(pending), RowsOf(retry), staging, << >>, chan)
          = Pipe(RowsOf(pending), RowsOf(retry), staging, <<Head(chan)>>, Tail(chan))
    BY <1>2, PipeTake
  <1> QED BY <1>3, <1>4, <1>5, PipelineNext

\* Splitting a batch keeps its rows where they were.
LEMMA SplitPipeline ==
  ASSUME UniqueInv, SplitChunk PROVE Pipeline' = Pipeline
  <1> DEFINE b == Head(pending)
             t == Tail(pending)
             h == Halves(b, nextId)
  <1>1. /\ pending \in Seq(Batch) /\ nextId \in Nat /\ pending # << >> /\ pending' = h \o t
        /\ UNCHANGED <<retry, staging, held, chan>>
    BY DEF UniqueInv, TypeInv, TypeOK, SplitChunk
  <1>2. b \in Batch /\ t \in Seq(Batch)
    BY <1>1, SeqOps
  <1>3. h \in Seq(Batch) /\ RowsOf(h) = b.rows
    BY <1>1, <1>2, HalvesType, RowsOfHalves
  <1>4. RowsOf(pending) = b.rows \o RowsOf(t)
    BY <1>1, RowsOfHead
  <1> HIDE DEF b, t, h
  <1>5. RowsOf(h \o t) = RowsOf(h) \o RowsOf(t)
    BY <1>2, <1>3, RowsOfConcat
  <1>6. RowsOf(pending') = RowsOf(pending)
    BY <1>1, <1>3, <1>4, <1>5
  <1> QED BY <1>1, <1>6, PipelineNext, PipelineIs

\* A failed request waits in the retry buffer, still first.
LEMMA FailPipeline ==
  ASSUME UniqueInv, SendFails PROVE Pipeline' = Pipeline
  <1>1. /\ retry = << >> /\ retry' = pending /\ pending' = << >>
        /\ UNCHANGED <<staging, held, chan>>
    BY DEF UniqueInv, BatchOnce, SendFails, Fail
  <1>2. Stages(<< >>, RowsOf(pending), staging, held, chan)
    BY RowsTyped, EmptyRows DEF UniqueInv, Stages
  <1>3. Pipe(<< >>, RowsOf(pending), staging, held, chan)
          = Pipe(RowsOf(pending), << >>, staging, held, chan)
    BY <1>2, PipeAgain
  <1> QED BY <1>1, <1>3, RowsOfEmpty, PipelineNext, PipelineIs

\* The row in hand is staged, at once or when the pass is over.
LEMMA LandPipeline ==
  ASSUME UniqueInv, staging' = staging \o held, held' = << >>,
         UNCHANGED <<pending, retry, chan>>
  PROVE  Pipeline' = Pipeline
  <1>1. Stages(RowsOf(pending), RowsOf(retry), staging, held, chan)
    BY RowsTyped DEF UniqueInv, Stages
  <1>2. Pipe(RowsOf(pending), RowsOf(retry), staging, held, chan)
          = Pipe(RowsOf(pending), RowsOf(retry), staging \o held, << >>, chan)
    BY <1>1, PipeLand
  <1> QED BY <1>2, PipelineNext, PipelineIs

\* No other step of the task changes what is on its way.
LEMMA TaskPipeline ==
  ASSUME UniqueInv, StageInv, Task, ~ DropChunk, ~ SendOk
  PROVE  Pipeline' = Pipeline
  <1>1. ASSUME UNCHANGED <<pending, retry, staging, held, chan>> PROVE Pipeline' = Pipeline
    BY <1>1, PipelineNext, PipelineIs
  <1>2. ASSUME BeginPass, phase \notin {"pass", "send"}, UNCHANGED <<held, chan>>
        PROVE  Pipeline' = Pipeline
    <2>1. held \in Seq(Rows) /\ chan \in Seq(Rows)
      BY RowsTyped DEF UniqueInv
    <2> QED BY <1>2, <2>1, BeginPipeline, PipelineNext, PipelineIs
  <1>3. CASE TakeRow \/ PullRow
    <2>1. /\ phase \in {"select", "pull"} /\ chan # << >> /\ Pop
          /\ UNCHANGED <<staging, pending, retry>>
      BY <1>3 DEF TakeRow, PullRow
    <2>2. held = << >>
      BY <2>1 DEF StageInv, InPass, Holding
    <2> QED BY <2>1, <2>2, PopPipeline
  <1>4. CASE Tick \/ SizeTrigger \/ PullDone \/ DrainToCompletion
    <2>1. /\ phase \notin {"pass", "send"} /\ UNCHANGED <<held, chan>>
          /\ BeginPass \/ UNCHANGED <<pending, retry, staging>>
      BY <1>4 DEF Tick, SizeTrigger, PullDone, DrainToCompletion
    <2> QED BY <1>1, <1>2, <2>1
  <1>5. CASE ReturnToIngest
    <2>1. staging = << >>
      BY <1>5 DEF ReturnToIngest, StageInv, InPass
    <2>2. Len(staging) # StagingCapacity
      BY <2>1
    <2> QED BY <1>5, <2>2, LandPipeline DEF ReturnToIngest
  <1>6. CASE SplitChunk \/ SendFails
    BY <1>6, SplitPipeline, FailPipeline
  <1>7. CASE \/ TakeCtrl \/ HandleGone \/ Uncount \/ Send \/ PassDone
             \/ ReturnToLoop \/ ReturnToDrain \/ Exit
    <2>1. UNCHANGED <<pending, retry, staging, held, chan>>
      BY <1>7 DEF TakeCtrl, HandleGone, Uncount, Send, PassDone, ReturnToLoop, ReturnToDrain, Exit
    <2> QED BY <1>1, <2>1
  <1>8. CASE Ingest
    <2>1. phase \notin {"pass", "send"} /\ chan' = chan
      BY <1>8 DEF Ingest
    <2>2. \/ BeginPass /\ UNCHANGED held
          \/ staging' = staging \o held /\ held' = << >> /\ UNCHANGED <<pending, retry>>
      BY <1>8 DEF Ingest
    <2> QED BY <1>2, <2>1, <2>2, LandPipeline
  <1> QED BY <1>3, <1>4, <1>5, <1>6, <1>7, <1>8
      DEF Task, SelectLoop, TakeIn, Drain, SealAndSend, Return

\* The rows of the batches at the server.
LEMMA StoredList ==
  ASSUME UniqueInv
  PROVE  stored \in Seq(Batch) /\ RowsOf(stored) \in Seq(Rows) /\ ToSet(RowsOf(stored)) = StoredRows
  <1>1. stored \in Seq(Batch)
    BY DEF UniqueInv, TypeInv, TypeOK
  <1> QED BY <1>1, RowsOfType, RowsTell, StoredTells

\* A chunk is given up at the head of the pass.
LEMMA DropConserves ==
  ASSUME LedgerInv, Conservation, DropChunk PROVE Conservation'
  <1> DEFINE b == Head(pending)
             R == b.rows
             past == RowsOf(stored)
  <1>1. /\ pending # << >> /\ pending' = << >> /\ retry' = Tail(pending)
        /\ discarded' = discarded \cup ToSet(R)
        /\ UNCHANGED <<staging, held, chan, stored, admitted>>
        /\ Unbuildable(b) \/ Oversize(b)
    BY DEF DropChunk, Fail, sinkVars
  <1>2. UniqueInv /\ StoreInv /\ SentInv
    BY DEF LedgerInv
  <1>3. Queue = pending /\ Behind = Pipe(<< >>, RowsOf(Tail(pending)), staging, held, chan)
    BY <1>1, <1>2, BehindIs
  <1>4. /\ b \in Queued /\ R \in Seq(Rows) /\ Pipeline = R \o Behind /\ Behind \in Seq(Rows)
        /\ ToSet(Behind) \cap ToSet(R) = {}
    BY <1>1, <1>2, <1>3, PipelineHead
  <1>5. b \notin sent
    <2>1. \A d \in sent : ~ Unbuildable(d) /\ ~ Oversize(d)
      BY <1>2 DEF SentInv, UniqueInv, BatchOnce
    <2> HIDE DEF b
    <2> QED BY <1>1, <2>1
  <1>6. past \in Seq(Rows) /\ ToSet(past) = StoredRows /\ admitted \in Seq(Rows)
    BY <1>2, StoredList, RowsTyped DEF UniqueInv
  <1>7. ToSet(R) \cap StoredRows = {}
    BY <1>2, <1>4, <1>5, SentApart
  <1>8. Pipeline' = Behind
    BY <1>1, <1>3, RowsOfEmpty, PipelineNext
  <1>9. Balanced(past, R \o Behind, StoredRows, admitted, discarded)
    BY <1>4, ConservationIs
  <1>10. StoredRows' = StoredRows /\ RowsOf(stored') = past
    BY <1>1 DEF StoredRows
  <1> HIDE DEF b, R, past
  <1>11. Balanced(past, Behind, StoredRows, admitted, discarded \cup ToSet(R))
    BY <1>4, <1>6, <1>7, <1>9, BalancedDrop
  <1> QED BY <1>1, <1>8, <1>10, <1>11 DEF Conservation, Balanced, RowsOf

\* A chunk is known to be stored.
LEMMA OkConserves ==
  ASSUME LedgerInv, Conservation, SendOk PROVE Conservation'
  <1> DEFINE b == Head(pending)
             R == b.rows
             past == RowsOf(stored)
  <1>1. UniqueInv /\ StoreInv /\ SentInv
    BY DEF LedgerInv
  <1>2. /\ pending # << >> /\ pending' = Tail(pending) /\ retry' = retry
        /\ b.id \in StoredIds
        /\ UNCHANGED <<staging, held, chan, stored, admitted, discarded>>
    BY <1>1 DEF SendOk, sinkVars, UniqueInv, TypeInv
  <1>3. /\ Queue = pending /\ retry = << >>
        /\ Behind = Pipe(RowsOf(Tail(pending)), << >>, staging, held, chan)
    BY <1>2, <1>1, BehindIs
  <1>4. /\ b \in Queued /\ R \in Seq(Rows) /\ Pipeline = R \o Behind /\ Behind \in Seq(Rows)
    BY <1>2, <1>1, <1>3, PipelineHead
  <1>5. ToSet(R) \subseteq StoredRows
    <2>1. PICK d \in ToSet(stored) : d.id = b.id
      BY <1>2, StoredTells
    <2>2. d \in Batches /\ b \in Batches
      BY <1>1, <1>4 DEF Batches, StoreInv
    <2>3. d = b
      BY <1>1, <2>1, <2>2 DEF UniqueInv, BatchOnce, Same
    <2> QED BY <2>1, <2>3, StoredTells
  <1>6. past \in Seq(Rows) /\ admitted \in Seq(Rows)
    BY <1>1, RowsTyped DEF UniqueInv
  <1>7. Pipeline' = Behind
    BY <1>2, <1>3, RowsOfEmpty, PipelineNext
  <1>8. Balanced(past, R \o Behind, StoredRows, admitted, discarded)
    BY <1>4, ConservationIs
  <1>9. StoredRows' = StoredRows /\ RowsOf(stored') = past
    BY <1>2 DEF StoredRows
  <1> HIDE DEF b, R, past
  <1>10. Balanced(past, Behind, StoredRows, admitted, discarded)
    BY <1>4, <1>5, <1>6, <1>8, BalancedGone
  <1> QED BY <1>2, <1>7, <1>9, <1>10 DEF Conservation, Balanced, RowsOf

\* A request that is not stored yet is the first of its queue.
LEMMA SentFirst ==
  ASSUME LedgerInv, HeadInv, NEW b \in sent, b.id \notin StoredIds
  PROVE  Queue # << >> /\ b = Head(Queue)
  <1>1. b \in Queued
    <2>1. b \notin ToSet(stored)
      BY StoredTells
    <2> QED BY <2>1 DEF LedgerInv, SentInv
  <1>2. Queue \in Seq(Batch) /\ ToSet(Queue) = Queued
    BY PipelineQueue DEF LedgerInv
  <1>3. \A i \in 2 .. Len(Queue) : Queue[i] \notin sent
    BY DEF HeadInv, Queue
  <1> DEFINE q == Queue
  <1> HIDE DEF q
  <1>4. PICK i \in 1 .. Len(q) : b = q[i]
    <2>1. ToSet(q) = {q[i] : i \in 1 .. Len(q)}
      BY <1>2, ToSetSeq DEF q
    <2> QED BY <1>1, <1>2, <2>1 DEF q
  <1>5. Len(q) \in Nat /\ q # << >> /\ Head(q) = q[1]
    BY <1>2, <1>4 DEF q
  <1>6. i = 1
    BY <1>3, <1>4, <1>5 DEF q
  <1> QED BY <1>4, <1>5, <1>6 DEF q

\* The server stores the request at the head, on time or late.
LEMMA StoreConserves ==
  ASSUME LedgerInv, HeadInv, Conservation, NEW b \in sent, ServerStores(b)
  PROVE  Conservation'
  <1> DEFINE R == b.rows
             past == RowsOf(stored)
  <1>1. /\ b.id \notin StoredIds /\ stored' = Append(stored, b)
        /\ UNCHANGED <<pending, retry, staging, held, chan, admitted, discarded>>
    BY DEF ServerStores, taskVars
  <1>2. UniqueInv /\ StoreInv /\ SentInv /\ CountInv
    BY DEF LedgerInv
  <1>3. Queue # << >> /\ b = Head(Queue)
    BY <1>1, SentFirst
  <1>4. /\ R \in Seq(Rows) /\ Pipeline = R \o Behind /\ Behind \in Seq(Rows)
        /\ ToSet(Behind) \cap ToSet(R) = {}
    BY <1>2, <1>3, PipelineHead
  <1>5. ToSet(R) \cap StoredRows = {}
    <2>1. \A d \in ToSet(stored) : d \in Batches /\ d # b
      BY <1>1, <1>2, StoredTells DEF StoreInv, Batches
    <2>2. b \in Batches
      BY DEF Batches
    <2>3. \A d \in ToSet(stored) : ToSet(d.rows) \cap ToSet(b.rows) = {}
      BY <1>2, <2>1, <2>2 DEF UniqueInv, BatchOnce, Same
    <2> QED BY <2>3, StoredTells
  <1>6. past \in Seq(Rows) /\ admitted \in Seq(Rows)
    BY <1>2, RowsTyped DEF UniqueInv
  <1>7. RowsOf(stored') = past \o R
    <2>1. stored \in Seq(Batch) /\ b \in Batch
      BY <1>2 DEF UniqueInv, TypeInv, TypeOK
    <2> QED BY <1>1, <2>1, RowsOfAppend
  <1>8. Pipeline' = Pipeline
    BY <1>1, PipelineNext, PipelineIs
  <1>9. Balanced(past, R \o Behind, StoredRows, admitted, discarded)
    BY <1>4, ConservationIs
  <1>10. StoredRows' = StoredRows \cup ToSet(R)
    BY <1>2, StoreMoves
  <1> HIDE DEF R, past
  <1>11. Balanced(past \o R, R \o Behind, StoredRows \cup ToSet(R), admitted, discarded)
    BY <1>4, <1>5, <1>6, <1>9, BalancedStore
  <1> QED BY <1>1, <1>4, <1>7, <1>8, <1>10, <1>11 DEF Conservation, Balanced, RowsOf

\* Every step keeps the account.
LEMMA ConserveStep == ConserveInv /\ [Next]_vars => ConserveInv'
  <1> SUFFICES ASSUME ConserveInv, [Next]_vars PROVE ConserveInv'
    OBVIOUS
  <1>1. LedgerInv /\ HeadInv /\ Conservation
    BY DEF ConserveInv
  <1>2. LedgerInv' /\ HeadInv'
    BY <1>1, LedgerInvStep, HeadStep
  <1>3. Conservation'
    <2>1. ASSUME UNCHANGED <<pending, retry, staging, held, chan, stored, admitted, discarded>>
          PROVE  Conservation'
      <3>1. Pipeline' = Pipeline
        BY <2>1, PipelineNext, PipelineIs
      <3> QED BY <1>1, <2>1, <3>1, ConservedStill
    <2>2. CASE \/ \E r \in Rows : Enqueue(r) \/ CountAccepted(r) \/ CountDepth(r)
               \/ \E c \in Controllers : Request(c)
               \/ DropHandle
               \/ UNCHANGED vars
      <3>1. UNCHANGED <<pending, retry, staging, held, chan, stored, admitted, discarded>>
        BY <2>2 DEF Enqueue, CountAccepted, CountDepth, Request, DropHandle,
           vars, taskVars, sinkVars
      <3> QED BY <2>1, <3>1
    <2>3. CASE \E r \in Rows : TrySend(r)
      BY <1>1, <2>3, AcceptConserves
    <2>4. CASE Task /\ ~ DropChunk /\ ~ SendOk
      <3>1. Pipeline' = Pipeline
        BY <1>1, <2>4, TaskPipeline DEF LedgerInv
      <3>2. discarded' = discarded
        BY <1>1, <2>4, TaskWithin DEF LedgerInv
      <3>3. stored' = stored /\ admitted' = admitted
        BY <2>4 DEF Task, SelectLoop, TakeIn, Drain, SealAndSend, Return,
           TakeCtrl, HandleGone, TakeRow, Pop, Uncount, Ingest, AfterIngest,
           Tick, SizeTrigger, PullRow, PullDone, DrainToCompletion, DropChunk,
           SplitChunk, Send, SendOk, SendFails, PassDone, ReturnToIngest,
           ReturnToLoop, ReturnToDrain, Exit, sinkVars
      <3> QED BY <1>1, <3>1, <3>2, <3>3, ConservedStill
    <2>5. CASE DropChunk \/ SendOk
      BY <1>1, <2>5, DropConserves, OkConserves
    <2>6. CASE \E b \in sent : ServerStores(b)
      BY <1>1, <2>6, StoreConserves
    <2> QED BY <2>2, <2>3, <2>4, <2>5, <2>6 DEF Next, Caller
  <1> QED BY <1>2, <1>3 DEF ConserveInv

\* The account balances when nothing was accepted.
LEMMA ConserveInit == Init => ConserveInv
  <1> SUFFICES ASSUME Init PROVE ConserveInv
    OBVIOUS
  <1>1. LedgerInv
    BY LedgerInvInit
  <1>2. /\ pending = << >> /\ retry = << >> /\ staging = << >> /\ held = << >>
        /\ chan = << >> /\ stored = << >> /\ admitted = << >> /\ discarded = {}
    BY DEF Init
  <1>3. HeadInv
    BY <1>2 DEF HeadInv
  <1>4. << >> \o << >> = << >>
    OBVIOUS
  <1>5. Pipeline = << >>
    BY <1>2, <1>4, RowsOfEmpty DEF Pipeline
  <1>6. Conservation
    BY <1>2, <1>4, <1>5, RowsOfEmpty, WithoutEmpty DEF Conservation
  <1> QED BY <1>1, <1>3, <1>6 DEF ConserveInv

\* Conservation: whatever fails, is retried, split or stored late, the rows at
\* the server followed by the rows still in the buffer are the rows try_send
\* accepted, in its order, minus those counted as dropped.
THEOREM ConservationAlways == Spec => []Conservation
  <1>1. ConserveInv => Conservation
    BY DEF ConserveInv
  <1> QED BY <1>1, ConserveInit, ConserveStep, PTL DEF Spec
=============================================================================
